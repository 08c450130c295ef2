# pokeperp: a TLA+ verification project

pokeperp is a perpetual-futures market on Solana whose underlying is an index of
graded trading cards.  Two on-chain programs hold all money and all rules; a handful of
off-chain services feed and watch them, and a handful of scripts bring them up.  This
directory models programs, services and scripts in TLA+, model-checks the models with TLC on
small instances, and proves the main invariants with TLAPS for every value of the constants.

## 1. Inventory of the system

| Component | State it keeps | Operations | Hard behaviour |
|---|---|---|---|
| **perp-engine** (`programs/perp-engine/src`) | Market (open interest, position counts, funding accumulators, price averages, risk parameters, pause flags), one Position and margin vault per trader, InsuranceFund and Treasury totals with their vaults | open / modify / close position, add / withdraw margin, deposit insurance, withdraw treasury, liquidate, settle funding, auto-deleverage, pause, phase, risk parameters, admin hand-over | order of instructions of different signers; balances loaded before a transfer and used after it; saturating against checked arithmetic; rounding; late or missing settlement |
| **oracle** (`programs/oracle/src`) | OracleConfig, Publisher and bond vault, ConstituentRegistry, PriceUpdate per publisher and day, IndexState, Challenge and escrow, treasury vault | register / activate publisher, submit price update, aggregate day, finalise day, open / resolve challenge, slash for liveness, registry updates, pause, admin hand-over | a day aggregated twice, a challenge racing finalisation, the caller's choice of the updates aggregated, slashes out of bonds that another challenge already emptied |
| **publisher** (`services/publisher/src`) | state file: the last day each constituent had a fresh price | fetch sources, compute the day's prices, submit, daemon loop, crank (submit and aggregate what is missing), verify a day | a crash while the state file is overwritten; retries of a day already submitted; state saved by a cycle that failed to submit |
| **keeper** (`services/keeper/src/index.ts`) | none on disk | every tick: settle funding, scan positions, liquidate | ticks that overlap; accounts read before an await and used after it |
| **indexer** (`services/indexer/src/index.ts`) | in-memory map of known positions; append-only JSONL files | poll, detect a close by a position's disappearance, derive what the close paid | close and re-open between two polls; restart between two polls |
| **monitor** (`services/monitor/src/index.ts`) | in-memory alert state | poll, compare, alert on edges | restarts repeat or lose alerts |
| **scraper** (`services/scraper/src/index.ts`) | none | HTTP request, fetch through a proxy with retries | retries outlasting the client's timeout |
| **scripts** (`services/dashboard/scripts`) | none of their own | initialize, register a publisher, enlarge the accounts to 50 constituents, aggregate, seed insurance, unpause, hand the admins over to a Squad | a script that stops between two transactions and is run again; programs and accounts with different layouts |
| **dashboard** (`services/dashboard`) | none of the protocol's | shows accounts, builds transactions | none of its own |

Interaction: publishers submit daily prices to the oracle program; anyone cranks
`aggregate_day` and `finalize_day`, which write IndexState; the engine *reads* IndexState
(value and status) in every handler that needs a price, and takes its mark price from that
value and its own open interest.  The oracle's slashes end in the treasury vault that the
engine's Treasury account keeps totals of.  The keeper calls `settle_funding` and
`liquidate`; the indexer and monitor only read.

### What makes each part correct

* perp-engine: vault balances agree with the books; open interest and counts agree with
  the positions they summarise; collateral covers initial margin; funding is
  bounded per hour; a solvent owner can leave; a liquidatable position can be liquidated;
  deleveraging ranks all positions of a side; neither entering nor growing a long is a gain in itself.
* oracle: bond vaults back the recorded bonds; an index value becomes final only after a
  full challenge window during which it stood unchanged; base prices never move while their
  card stays; each absence is slashed once per tier and nobody present is slashed for absence.
* publisher: after a crash or a failed cycle a later cycle of the day still submits and
  aggregates; a stale price decays by the days it is stale; a price comes from the newest sales that suffice.
* keeper: it decides as the program would; what can be liquidated does not stay, and hours do
  not stay unsettled, although its snapshots are old, its ticks overlap and its calls fail.
* indexer: every recorded opening is accounted for, and a close carries the economics of that close.
* monitor: the operator believes what was found last; what stays broken is reported.
* scripts: wherever they stop, the admins can sign, the engine reads no mixed-up price, trading does
  not open on an empty fund once the launch script has ended, and running them again leads to the end.

## 2. Modules

| Module | Stands for |
|---|---|
| `PerpMath` | the engine's integer arithmetic, rounding included: mark price, averages, funding, profit, margin and fee shares |
| `PerpEngine` | the engine program: state, one action per instruction, the steps of its environment, the properties |
| `MCPerpEngine` | TLC instance of the engine, with a second starting state |
| `IndexFeed` | abstract: what readers of IndexState may rely on |
| `Oracle` | the oracle program: state, one action per instruction, the clock, the properties; implements `IndexFeed` |
| `MCOracle` | TLC instance of `Oracle`, with a second starting state |
| `Protocol`, `MCProtocol` | both programs on one chain: `Oracle`, which it extends, and an instance of `PerpEngine` that reads its index, shares its clock and has its treasury vault paid into |
| `Layout` | the byte layout of IndexState by number of constituents, and what a reader with another one decodes |
| `Keeper`, `MCKeeper` | the keeper's ticks, interleaved with every instruction of `PerpEngine`, which it extends |
| `Methodology` | a publisher's price from sold listings, as operators |
| `Crank`, `MCCrank` | the publisher's crank and its state file, interleaved with every instruction of `Oracle`, which it extends |
| `Indexer`, `MCIndexer` | the indexer's record of positions against traders on the chain |
| `Monitor`, `MCMonitor` | checks and alerts |
| `Operations`, `MCOperations` | the mainnet scripts, the two programs' admin hand-over and the enlargement of the accounts |
| `Sums` | lemmas about sums over finite sets, for every proof whose definitions fold over a set |
| `PerpEngine_types` | lemmas about the engine's arithmetic, and its type correctness |
| `PerpEngine_proofs` | the safety theorems of the engine, also with keepers at work |
| `Oracle_proofs` | those of the oracle, the refinement of `IndexFeed`, the median, and the composition with the engine |
| `Crank_proofs` | those of the publisher's crank, and the oracle's with the crank at work |
| `Indexer_proofs`, `Monitor_proofs`, `Operations_proofs` | the theorems of these three |

A Solana transaction is atomic, and a handler whose `require!`, checked operation or token
transfer fails changes nothing.  So **one instruction is one action**, its guard is the
conjunction of everything the handler requires on the way, and interleaving is the order of
the instructions of different signers and of the oracle's writes to IndexState.

Variables follow the accounts: `oi`, `count`, `cum`, `last_funding_update`, `twap`,
`paused`, `risk`, `phase` are fields of Market; `position` and `margin_vault` are the Position
account and its token account; `insurance` and `treasury` join the two totals of InsuranceFund and
Treasury with the balance of their vault; `wallet` is what users hold; `index` is the
oracle's account; `clock` is the chain's time.  The history variable `unbooked` counts tokens sent into the two vaults
by no instruction of the program.

What the model keeps exactly because properties turn on it: which balance a handler loads
before a transfer and uses after it (`Payable`, `LiquidationSplit`, `modify_position`), the
direction of every rounding (`TruncDiv`, `Share`), saturating against checked subtraction
(`Monus` against the guards), and that shorts take their funding snapshot from the short
accumulator but settle on the long one.

In `Oracle` the variables follow the accounts in the same way: `publisher` with `bond_vault`,
`update` (the PriceUpdate accounts), `registry`, `index`, `challenge` with the escrow that
belongs to it, and `treasury_vault`, which is the engine's.  `written` is a history variable, the time
of the last aggregation, kept apart from the program's own `finalized_at` (here `index.at`)
so that finality can be compared with what really happened.  `Elapse` moves the clock by any of `Durations`.
Aggregation takes any multiset of the day's updates (`chosen`), since the caller lists the accounts
and nothing forbids a repetition.

Not modelled in `Oracle`: fields nothing reads, the enlargement of accounts and the admin hand-over
(both in `Operations`), tokens somebody donates to a bond vault, and
payees outside `Users`.  `finalize_registry_update` is counted up to MAX_VERSION only.

In `Protocol` a step is an instruction of one program, and the other's accounts stay: the programs never call each
other.  `Engine` is `PerpEngine` with the oracle's index in the place of its own, the oracle's clock counted from
`initialize_market`, and what the oracle has paid into the treasury vault as the part of `unbooked` that concerns it.
The steps of the engine's environment are gone from its next-state relation; that the oracle's instructions are such steps
is the property `ImplementsEngine`.  The one simplification is that nobody uses the same USDC account for a bond and a
position (`wallet` and `purse` are apart).

Not modelled in the engine's modules: rent and account creation, events, `opened_at`, `pause_reason`,
`entry_index_price` (written, never read by the program), the two-step admin hand-over (it
touches nothing else; in `Operations`), and integer widths: all products in the
program are checked, so overflow only makes an instruction revert.  In `Oracle` the one narrowing that is not checked, the
`as u32` of a verdict's deviation (568-571), is left out as well: a deviation beyond 32 bits needs a price 400 000 times the index.  Conservation of tokens is what the SPL token program guarantees and is not stated as a property.

### The services

**One await is one step.**  Between two awaits JavaScript and the crank's single task run without
interruption, so such a stretch is one action; at an await everybody else may act.  Local
variables of a function that is awaiting are state (`tick`, `poll`, `target` ... `how`); they are lost at a restart,
files are not.  A call has three outcomes: it lands and is answered, it fails, or it lands and the answer is
lost; where both of the last two lead to the same local step, the effect of the instruction is what differs.

* `Keeper`: `tick[k]` holds what tick k read: market (`mkt`), index (`price`), the list
  (`todo`) and the position whose transaction is under way (`target`).  The market is that of the start of the tick, the position that of the
  list, the margin of the moment of the check.  Settlement and liquidation are the very actions of
  `PerpEngine`.  A vault that cannot be read is skipped (`ExamineFails`).  Of a settlement or liquidation that lands with its answer
  lost, nothing differs for the keeper: it catches the error and goes on either way.
* `Crank`: the cycle look - price - submit - aggregate - save.  Its submissions and aggregations are the actions of
  `Oracle`; `Next` of `Oracle` stands for everybody else.  A submission whose answer is lost lands and
  goes to saving.  `file` may be torn by a crash or error in the middle of a save, after which `Start` is not possible.  How each
  price came about (`how`) and when a source last answered (`seen`) are history variables.
* `Indexer`: positions are numbered (`born`) so that the model can tell two positions at one
  address apart, which the code cannot.  `forgotten` and `overlapped` are history variables.
* `Monitor`: the checks are a sequence of names with a truth that changes any time; one check is asked at a time.  `silent`
  is a history variable: news that never reached the operator.
* `Operations`: `run` is the place in the runbook; scripts are sequences of instruction records and
  `Instruction` is the effect on what the scripts depend on.  A script that fails is run again from its beginning.  The deployed
  programs' layouts (`compiled`), the accounts' sizes (`room`) and the layout they were last written with
  (`written`) are apart, and `Layout!Reading` says what a reader makes of them.

Not modelled of them: the indexer's copies of IndexState and Market and its HTTP endpoints; a line torn by a
crash in the middle of an append; what the monitor's checks compare, but for the equity check; the publisher's parsing of sources,
its Merkle root, and floating point in the decay (integer division instead); `verify`, `run` and
`daemon` (`run` and `daemon` are the crank's cycle without its second half); the scripts for devnet, localnet
and single-day repairs; the Squad's own approvals inside one acceptance.  In `Operations` anybody aggregates whenever the
accounts allow it, before the first publisher is registered too, when every price is stale (`AnyoneAggregates`).  That the two programs are
upgraded before the accounts are enlarged, and the index rewritten right after, is an assumption about the operator (`Runbook`): expand-to-50.ts can
be run at any time and docs/mainnet-runbook.md, which gives the order of the rest, says nothing of it.  With the engine upgraded later, `EngineReadsTheValue` is violated.

Not modelled at all: the scraper (one request in, parsed listings out, nothing kept; a request given up on is a source
that does not answer in `Crank`), the dashboard's pages, generated interface files.

The definitions are mapped to the lines they stand for.  The share of the repository's lines so mapped is small for two reasons: some
20 000 of its TypeScript lines are four copies of generated interface files, and most of the rest is user
interface; the rules are in the two Rust programs, which are mapped nearly throughout.

## 3. Runs

The engine's integers are scaled down so that TLC, whose integers have 32 bits, can hold the products: `SCALE` and `BPS`,
1 000 000 and 10 000 in the program, are 100; an index is around 100, a lot is 20, wallets
hold 40.  Fees (10%) and penalties (15%) are raised so that their rounding and splits matter at this size. `MaxSteps` bounds
the number of instructions of a behaviour (in the service runs: of what happens to the service from outside, never its
own steps); the other bounds are the input sets in each cfg.  Bounded behaviours stop, and so does the runbook at its end, hence CHECK_DEADLOCK FALSE.
Traders are interchangeable and `PerpAll` uses that symmetry; it checks no liveness, and its three action properties, ADLComparesAll,
NoGainByEntering and GrowingLongGainsNothing, are formulas over single steps that are themselves invariant under permuting traders.

| Run | Question | Why the bound reaches it |
|---|---|---|
| `PerpAll` | Books, open interest, counts, funding, collateral, entering, growing, closing, liquidation and deleveraging over every instruction | 7 steps from the launch, 5 from a market under way (`Underway`: the index published, two positions open), which is 8 instructions deep: openings, resizes, hours unsettled, a price move and both forced closes, against a fund of 4 tokens that a single winner drains; one and five hours pass at a time, so that funding, at the cap, takes up to a quarter of a notional and leaves margins below the liquidator's share |
| `OracleDays` | Do bonds, absence tiers, base prices and the feed survive every order of the oracle's instructions, does a majority of the updates listed decide each price, and can an open challenge be settled and a price all agree on not be slashed? | 5 steps from the start or from the launch of the feed (two active publishers with updates, nothing aggregated): aggregate, challenge, resolve, aggregate again, finalize; or a fortnight's absence, a slash, a return.  Prices 100, 106 and 130 lie in all four classes of the deviation schedule once medians are taken; durations 1, 4, 16 and 120 (a day has 4) cross the challenge window, one day, the second absence tier, and the shadow month with the last tier; bonds of 20 against challenge bonds of 5 make the halves round |
| `Protocol` | Is whatever the oracle does a step that the engine's model allows its environment? | 6 instructions of either program from a launch with two publishers' prices in: aggregate, trade, aggregate again or challenge, let the window or an absence pass, finalize or slash, settle, liquidate, close.  The refinement is checked against all amounts up to 25 (a bond and more) and all index values the prices give |
| `KeeperTicks` | Is what can be liquidated liquidated, and funding settled, in spite of stale snapshots? | Two overlapping ticks, two shorts that a price step or eight hours of funding make liquidatable, the liquidation of one of which the program may refuse for ever; 2 outside steps (price, hours, pause, close, restart) suffice for a stale decision and for a position that becomes liquidatable only through the tick's own settlement |
| `IndexerPolls` | Is every recorded opening accounted for, with the right economics? | Two polls that overlap, addresses used twice, a restart and failed appends; enough transactions for open, close, open, close at one address |
| `MonitorAlerts` | Does the operator know what the monitor found last? | Three checks, one of which takes silence for bad news; changes, restarts and lost messages in any order and number up to the bound |
| `CrankDays` | Is yesterday always submitted and aggregated in the end, is a stale price never fresher than it is, and does a fresh one lie among the newest sales that suffice? | 3 outside steps: days passing, others' aggregations of any day, deaths, failed saves; failing sources and calls are not bounded.  The sales are chosen so that the narrowest and the widest window give different prices; half is trimmed at either end, so that an
even number of sales leaves nothing and the next window decides; the aggregate source quotes a price or $0 |
| `Operations` | Do the scripts lead to the end from any failure, and is every state after the launch script harmless? | Everything is finite: failures, reruns and others' aggregations are unbounded.  Two slots grow to four, the least for which the value's place moves past the old account |

The other runs refute statements of the repository's comments and docs; each checks one property and
its counterexample is the evidence for a finding:

| Run | Statement refuted |
|---|---|
| `ClaimLiquidatable` | lib.rs:1235-1237, the liquidator's missing share is drawn from insurance: it is transferred out of the margin vault a second time, so the instruction reverts and the position stays |
| `ClaimLiqRemainder` | docs/perp-engine.md:165-169, the trader gets what is left after the PnL and the penalty: the PnL is not settled |
| `ClaimSuspension` | docs/oracle.md:185-187, an absence costs a quarter of the bond and a month's suspension, and only collusion everything: the suspended publisher may not submit, so that days later anybody slashes the rest for the same absence and removes him |
| `ClaimMirrors` | keeper/src/index.ts:10-11, the keeper computes equity as the program does: the interface file it ships has 25 constituents, the account 50, so that it takes bytes of prices for the index |

`KeeperTicks` gives the keeper an interface file that fits (25 and 25), so that what it shows is about the keeper's
own logic; `ClaimMirrors` gives it the one that is shipped.

### Fairness

The programs' instructions are all optional: nothing in `PerpEngine` or `Oracle` is fair, and what is checked
of them alone is safety. `SolventCanClose` is the form in which "can always leave" is stated: no check,
subtraction or transfer of close_position would fail (`CanClose`), not that somebody sends it.  The services are fair where the code
makes them so:

* a timer or loop goes on, every await comes back (the code has no way to cancel one, and client libraries time out), and a dead process is
  restarted: weak fairness of a tick's, poll's, cycle's or script's next step, whatever its outcome;
* of calls of one kind that are made again and again, not every one fails: strong fairness of the
  outcomes named in `KeeperFairness`, `CrankFairness`, `Fairness` (of `Indexer` and `Monitor`), `OpsFairness`.
  For the keeper it is about each trader's position, not about each place in the list: a position
  whose liquidation is always refused is allowed to be refused for ever, and the others must still be reached.

`CaughtUp` excepts a crank whose state file was torn, since no restart helps there (state.rs:45), and one whose aggregate source quotes $0
in every attempt from some time on, since the oracle refuses those; the fairness of submissions is only about those it would accept;
`ReportedInTheEnd` and `RecoveryReported` except lost messages, `RecoveryReported` also the checks for which silence is bad news.

### Divergences noted while reading

These were not turned into runs of their own; where a property bounds the effect it is named.  Of the engine:

* A decrease can be refused for want of insurance although lib.rs:627-628 says that its gain is capped at the insurance balance: the cap
  (630) is the balance loaded before the same instruction paid out funding, and where funding and gain together exceed it
  the second transfer fails.  Closing is not affected (`SolventCanClose`).
* docs/perp-engine.md:137 says that a position has half its initial margin to lose, and lib.rs:1072 that the reference favours its owner.  The
  reference is the worse of index and 5-minute average (1091), and the average moves with trades only: after the index has moved, a position
  opened at the new price can be liquidated at once.
* docs/perp-engine.md:118 says that no carry accrues while funding is paused.  set_pause leaves last_funding_update, and the first
  settlement afterwards charges the hours of the pause (1382), within `FundingWithinCap`.
* docs/oracle.md:128 and docs/perp-engine.md:104 say that funding is settled at final values.  settle_funding (1388) does not look at the
  status, so it charges at values that a second aggregation of the day replaces.
* state.rs:106-107 says that the treasury's totals match its vault.  The oracle pays its slashes into that vault and into no total; the
  model has them in `unbooked`, and `VaultsMatchBooks` says that this is all the difference.
* docs/perp-engine.md:194-197, the section lib.rs:1425 refers to, has deleveraging take the position of the *opposite* side with the highest profit per margin,
  and close it at the mark.  auto_deleverage takes the one with the highest profit as such among the positions of its *own* side (1481-1546), and
  reckons profits at the index.  What the code infers from its witnesses is `ADLComparesAll`; by what it ranks is as the code has it.
* lib.rs:552-566 says that blending entry prices leaves no free profit.  The mean it takes is arithmetic (weighted by size), while profits are relative to the
  entry price, so that the mean of two prices is too high by what separates it from the harmonic mean: a long that grows loses by
  that (`GrowingLongGainsNothing`), a short that grows gains by it.  And modify_position charges no fee, and truncates the loss of a decrease to zero if it is small, so
  that growing and then shrinking in small lots can end above the start.  That no round trip profits is therefore not a property of this program.
* auto_deleverage pays a reduced profit out of a fund that is below its floor where lib.rs:1444-1446
  says deleveraging recapitalises it; a trade is executed at the mark after it, docs/perp-engine.md:85 says at the average of
  the marks before and after; a decrease can be refused because the admin lowered the open-interest cap below
  what is open (lib.rs:512-528), where docs/perp-engine.md:212 has only trades that would breach the cap revert.

Of the oracle:

* docs/oracle.md:80 says that the index is immutable once the challenge window closes.  aggregate_day turns a final day
  provisional again (343); `IndexFeed` allows it, and promises only that what is called final has stood for a window.
* docs/oracle.md:149-151 says that a challenge is resolved within a day.  There is one IndexState, and once it is of another day no
  resolution is accepted (1428) until somebody aggregates the old day again.  `DisputesCanBeSettled` says that, with the oracle running and an update of the target to
  judge, nothing else stands in the way.
* docs/oracle.md:183-187 has suspensions of one and of six months.  No instruction ends one: activation starts from Shadow, and
  the suspended publisher may not submit (208).  What follows is the run `ClaimSuspension`.
* docs/oracle.md:186-187 slashes absence by a monthly quota, a quarter or three quarters of the days of a calendar month.  slash_for_liveness counts
  consecutive days since the last submission, with three tiers at 3, 7 and 14 days (lib.rs:730-747), so that who submits every other day is never slashed.
* docs/oracle.md:158 says that the challenger receives the slashed amount and his bond.  ResolveChallenge does not tie challenger_usdc_account to
  the challenger (1478-1481), so that they go to whatever account the sender of the resolution names: `payee` in `challenge_succeeds`.
* docs/oracle.md:155-156 says that after a successful challenge the price is recomputed without the refuted submission.  resolve_challenge
  leaves update and index as they are, and the price becomes final.
* A verdict compares with the index at the moment of resolution (547), which a
  re-aggregation may have changed since the challenge, and which contains the challenged price; where all updates of the day agree that cannot hurt (`AgreedNotSlashed`).  Deviations of 2, 5 and 10 per cent
  cost 10, 50 and 100 per cent of the bond, shared equally by challenger and treasury, where docs/oracle.md:183-189 has other
  bounds and also pays the other publishers; publishers
  are not filtered by standing when their updates are aggregated (docs/oracle.md:109); with too few updates constituents
  count as unchanged since their base (lib.rs:321-323) where docs/oracle.md:110 and :223 say last good price with decay.

Of the services: publisher/src/main.rs:957 submits a price of the aggregate source as it is, while one that decayed is raised to at least 1 (977).  "$0" is parsed as a price
(card_codex.rs:132-145), the program refuses all prices for a single 0 (oracle lib.rs:229-233), and every retry that reads the same page is refused again, so that a day may pass without prices; it
is the third case of `CaughtUp`.  A cycle that found a source but failed to submit still saves that it did (121): a retry
that finds the source silent submits the base price undecayed; `NeverFresherThanSeen` counts from the answer, so that it allows this.
init-mainnet.ts:9-10 says that trading stays disabled until the insurance fund is seeded.  Between initialize_market and the pause in a transaction of its own (288-297), and for as long as the script
stopped there, anybody can aggregate without any update, which gives the index the value of its base, and open positions against an empty
fund; `SeededAfterLaunch` begins where the script has ended.  The crank aggregates again whenever it cannot read the index's day, and whenever that day is not
exactly yesterday, also when it is later (publisher/src/main.rs:331), which restarts the challenge window; no
service or script ever sends finalize_day; the monitor counts a margin vault it cannot read as empty (monitor/src/index.ts:120-123), which makes a position being closed look like bad
debt, where the keeper skips it; its exemption for an oracle that is not live (97-100) is never used, since the program sets
no other status than Provisional and Final; a position closed and opened again between two polls leaves no line in the indexer's files, and after
a restart open positions are recorded as opened once more.  init-mainnet.ts:145-147 says that running it against the live
program would fail at `initialize_registry`, but safeRpc takes "already in use" for success (65-70), so the script goes on, writes the first
25 cards anew, pauses trading, and pays for it all.  aggregate-mainnet-postmigration.ts submits for today (67), the program
accepts yesterday only.  Its comment calls a zero index after the enlargement cosmetic (4-9); the engine refuses every
instruction that needs a price until the account is rewritten.  migrate-admin-mainnet.ts cannot be run again once the oracle's acceptance
landed (its first proposal is then refused); the engine's hand-over must be finished by hand.

## 4. Proofs

Assumptions: `ScaleAssumption`, `UsersAssumption`, `RiskAssumption` (what initialize_market and
update_risk_params validate), `MarketAssumption`, `InputAssumption` of the engine; `OracleAssumption`; `MethodologyAssumption`
and `CrankAssumption`; `IndexerAssumption` (finitely many addresses and polls); `ChecksAssumption`; `OperationsAssumption`.  They say that
parameters are natural numbers, those of the programs in the ranges the programs validate, and that sets which are counted or summed over are
finite.  The publisher's configuration validates nothing (config.rs:38-46): any percentages may be trimmed and any number of sales may be
enough; only the decay is taken to be a positive share.  Nothing bounds the number of users or the values.  TLC evaluates each of them.

Sums and means are folds over sets (MapThenSumSet), whose value is only characterised step by step.  `Sums` shows that the order
in which a fold picks does not matter and how a sum changes with its set and weights, by induction over finite sets.  That induction
(`FiniteInduction`) is over a set of subsets instead of a predicate, so that it needs no operator argument; the other
modules cite its lemmas.

Of the engine:

* `PerpEngine_types!TypeCorrect`: TypeOK is inductive as it stands.  The substance is that
  no vault, wallet, total or open interest goes below zero under any transfer order, and
  that entry prices of open positions stay positive, which later divisions need.  One lemma per
  instruction.
* `BooksCorrect`: inductive with TypeOK; each composition of settlements preserves
  vault = deposited - paid_out + unbooked.
* `InterestCorrect`: each instruction changes the notional of at most one trader.  The subtraction saturates in the
  code, so the step needs that a side's open interest is never less than what leaves it: a member of a sum is at most the sum (`InterestCovers`).
* `FundingCapHolds`: the strengthening needed is that
  `last_funding_update` is a multiple of HOUR not after the clock, so that the whole hours of a settlement add
  up to the whole hours of the total.
* `CountsCorrect`: exactness of the counts; each instruction adds or removes exactly
  one element of `OpenOn(side)`, or leaves both sets as they were.
* `ADLComparison`: from exact counts. The witnesses are distinct, on the candidate's side and not the
  candidate, and there are count - 1 of them, so by cardinality they are all the others.
* `EntryCosts`: opening is the only step after which a trader who had no position has one (`EntersByOpening`).  The position is
  opened at the mark of the open interest that includes it, so closing it at once would be at a mark moved back against the
  owner: the mark rises with the imbalance and the imbalance with the side's open interest, although both quotients round
  towards zero and the denominator has a floor (`MarkRises`, `ImbalanceRises`, `MarkAgainstEntrant`); the profit, truncated, is not
  above zero.  Nothing is owed from before because the short's snapshot is the one it is settled on,
  because both accumulators are always equal (lemma `FundingSymmetryHolds`): without that the step does not go through.
* `GrowthCosts`: the only step that makes a long larger is an increase (`GrowsByModifying`), after which its entry price is at least the
  weighted mean of old entry and mark, less one for rounding, and the mark it could be closed at has not moved, since that leaves the position out (`GrownLong`).  The
  profit at that mark is then at most what it was, because the arithmetic mean of two prices is not below the harmonic one
  (`BlendAgainstHarmonic`), up to the truncations of both profits and of the entry price (`TruncBounds`, `GrownPnl`).
* `BlockedByTopUpOnly`: from the types alone.  The split of a liquidation is taken apart into its three payments; each is the smaller
  of a share and what is left, so that the vault covers them all, unless the top-up, which came out of insurance, is
  asked of the vault once more (`TopUpBlocks`).
* `CollateralHolds`: from TypeOK; every instruction that lowers margin re-checks initial margin
  under the parameters of that moment, which are in AllRisks.
* `SolventOwnersLeave`: from types, open interest and collateral: the checked subtraction cannot fail because the position is part
  of the open interest, the mark price is positive, and the capped profit and the fee fit into the vault.  It holds under `MildParameters`, that the slippage
  factor is below one and the taker fee at most the initial margin, which lib.rs:34-48 does not demand: it admits a
  slippage factor of exactly 1 000 000, where a one-sided market has a mark price of zero, and any taker fee below 10 000.
  phases.rs installs 100 000 and 50 000; the instances that TLC runs satisfy it (`MildInstance`).  Without it the
  property is false: once the admin sets the slippage factor to one, a trader in a market that is all short cannot close.
* `KeepersAddNothing`: each keeper step is a step of the engine or a stutter, so every
  theorem about the engine's behaviours holds with any number of overlapping ticks; `BooksWithKeepers` is one instance.
  `CopiesAlwaysAgree`: in any state with the types of `TypeCorrect` the two equity checks are the same formula once the four
  cases of side and average are split.

Of the oracle, from `OracleAssumption` alone (numbers in the ranges `initialize` validates, finitely many
constituents).  All that do not depend on types or medians are proved of `AnySpec`, in which anything at all may be submitted as prices and any day with any list
aggregated; `Spec`, whose inputs are the sets of the cfg, is one case (`SpecIsAny`), the oracle under a crank another.

* `BondsHold`, `TiersHold`, `AttendanceProtects`: `Solid` joins the shapes of accounts and vaults with BondsBacked and
  the fact that challenges aim at keys of Publishers; every slash and refill is one `Slash`
  with an amount the vault holds.  `Attendance` adds what the properties leave out: the last submitted
  day of everybody is before today and not before any of his updates.  `TiersHold` adds that days
  and hence tiers only grow with the clock (monotonicity of division).
* `BasesHold`: an action property; median and index value stay unopened, only the shape of the
  registry is needed.
* `FeedImplemented`: each action maps to a step of `IndexFeed` or a stutter.  The invariant behind it
  is that `index.at` is `written` while the index is provisional.
* `DisputesSettle`, `AgreementProtects`: the invariant `Disputable` says what no field of a challenge or of the index says: whoever
  has an update has an account, a challenge is of an index that was written, and each price of the index lies between
  two that were submitted for its day (`WithinSubmitted`, by `MedianBetween`), which later updates for that day cannot undo.
  An open escrow is whole by `Fields`, and a slash is within the bond (`SlashWithinBond`), which the vault holds by `BondsBacked`.
* `FinalStands`, proved of `IndexFeed`, then speaks of the oracle too: a final value has stood for
  the whole challenge window.
* `TypesHold`: `Fields` adds to `Solid` the types of registry, index and challenges; the value of an index is a
  quotient of sums over the constituents (`ValueType`), and every price a median of prices (`MedianBetween`).
* `EngineImplemented`: of the oracle the engine sees three things, index, clock and payments into the treasury vault, and each instruction
  moves at most one of them, in a way the engine's model has an environment step for (`WhatTheEngineSees`); that needs an index value which
  is a natural number (`Fields`) and payments that are not negative (`DisputePays`, from `Solid`: a slash is part of the
  bond).  It is stated for an engine that takes any index value and any amount, `IndexValues = Nat` and `Amounts = Nat`;
  TLC, which must enumerate them, checks it with finite sets that are large enough.  With it
  the theorems about `PerpEngine!Spec` hold of the two programs together, and by `OracleKeepsWithMarket` those about the oracle do as well.
* `MedianResists`: of the prices listed for a constituent, at least half are at most the median and at least half not less, multiplicity counted (`RankedBetween`).
  Hence any majority of the listings has a price on either side of it.

Of the crank:

* `FreshnessHolds`: the invariant `Remembered` says that the last fresh days in memory and in the file are not
  after the last answer of a source, whatever became of the save, and that no source has answered for a day after the one being priced.
* `PricesAreRecent`: `Lowest` is a price of its argument (`LowestIsAPrice`); a mean of the prices that trimming leaves lies between two of them
  (`TrimmedMeanBetween`, from `Sums`), hence is not zero, so that a window is passed over only if it has too few sales or all of them are trimmed (`MeanNeedsRest`).  `Sourced` carries that to every price under way.
* `OracleKeepsWithCrank`: every step of crank and environment is a step of `AnySpec` or a stutter (`CrankIsOracle`), whatever
  the crank submits, so feed, bonds, tiers, attendance and base prices hold with the crank at work.

Of indexer, monitor and scripts:

* `RecordComplete`: `Pending` is a sum over polls of how often the rest of a poll's list holds a position (`PendingIsSum`); a step
  moves one unit from one term of the equation to another.
* `EconomicsCorrect`: by `RecordType` and `Derivable`, which says that numbers known or seen never exceed the newest of their address, and that what a poll
  misses is closed for good: its closing is the newest transaction of the address, or the address was used again.  Past an overlap of polls only the first half is claimed.
* `OperatorAlwaysKnows`, for any list of checks: the strengthening `Known` adds what message and map say in each phase of a
  pass, in particular that the answers under way are the tail of the list of checks, so that `Current` is the check whose answer is first.
* `AdminsCanSign` needs only that admin and pending admin are among the keys; the point is that an acceptance is
  signed by the vault.  `EngineNeverMisreads` and `SeededBeforeTrading` hold for any numbers of slots that differ by at least two.
  The invariant `Progress` is what holds at each stage and step of the runbook (which accounts exist, with which
  layout, whether trading is paused or the fund seeded, with aggregations by anybody at any time), and `GrownReadsZero` is the arithmetic: the new place of the value lies past the end of the old account.

Only model-checked: all liveness (`LiquidatedInTheEnd`, `FundingKeptUp`, `CatchesUp`, `ReportedInTheEnd`, `RecoveryReported`, `CaughtUp`,
`ReachesHandover`), since the prover has no rules for fairness (ENABLED).

## 5. Plan

Done: both programs, apart and together, the publisher's crank, keeper, indexer, monitor and the mainnet scripts, each with its
runs and theorems.  Left, in this order:

1. `Operations` with the devnet repair scripts that aggregate a single day again, and with the Squad's proposals as steps of their own.
2. A line of the indexer's files torn by a crash, and the dashboard's reading of such a file.
3. A bound on what a short gains by growing and any trader by shrinking in small lots, in terms of the number of resizes: the truncations of
   `GrownPnl` added up over a round trip.
