------------------------------- MODULE Oracle -------------------------------
(***************************************************************************)
(* The on-chain price oracle, programs/oracle/src/lib.rs: publishers with  *)
(* bonds, one price update per publisher and day, aggregation into the one *)
(* IndexState account, challenges, and slashing for absence.               *)
(*                                                                         *)
(* As in PerpEngine an instruction is atomic and is one action.  All of    *)
(* them may be sent by anybody, in any order, but those of the admin and   *)
(* submit_price_update.  Not modelled: rent, the fields nothing reads      *)
(* (total_submissions, successful_challenges_against, publisher_count,     *)
(* sale_counts, source_root, evidence, the results copied into a resolved  *)
(* Challenge), the two-step admin hand-over and the one-shot enlargement   *)
(* of accounts from 25 to 50 constituents.                                 *)
(***************************************************************************)
EXTENDS Integers, FiniteSets, FiniteSetsExt

CONSTANTS
  Publishers,          \* keys that may be registered
  Users,               \* owners of a USDC account: admin, challengers, payees
  Admin,               \* config.admin, who funds the bonds
  FUNDS,               \* what each user's account starts with
  Constituents,        \* slots of the registry (50 in the program)
  Cards,               \* identities (set, number, variant) a slot may hold
  Prices,              \* prices publishers submit and the admin enters
  UNIT,                \* fixed-point unit of the index (1_000_000)
  PUBLISHER_BOND, CHALLENGE_BOND, MIN_PUBLISHERS,
  WINDOW_START, WINDOW_END,  \* submission window, seconds into the day
  CHALLENGE_WINDOW,
  DAY,                 \* seconds of a day (86400)
  START,               \* Unix time of the first instruction
  MAX_REPEATS,         \* how often a caller lists the same update account
  MAX_VERSION,         \* how often the registry is committed
  Durations            \* seconds that may pass between two instructions

ASSUME OracleAssumption ==
  /\ Admin \in Users /\ FUNDS \in Nat
  /\ IsFiniteSet(Constituents) /\ Constituents # {}
  /\ Prices \subseteq Nat \ {0}
  /\ UNIT \in Nat \ {0}
  /\ PUBLISHER_BOND \in Nat \ {0} /\ CHALLENGE_BOND \in Nat \ {0}
  /\ MIN_PUBLISHERS \in Nat \ {0}
  /\ WINDOW_START \in Nat /\ WINDOW_END \in Nat
  /\ WINDOW_START < WINDOW_END /\ WINDOW_END <= DAY
  /\ CHALLENGE_WINDOW \in Nat \ {0}
  /\ DAY \in Nat \ {0} /\ START \in Nat /\ START >= DAY
  /\ Durations \subseteq Nat

Statuses == {"Shadow", "Active", "Suspended", "Removed"}
NoPublisher ==
  [status |-> "None", bond |-> 0, joined |-> 0, last_day |-> 0, tier |-> 0]
Accounts == [status: Statuses \cup {"None"}, bond: Nat, joined: Nat,
             last_day: Nat, tier: 0..3]
NoCard == "no card"

VARIABLES
  paused, treasury_set,  \* Config
  publisher,             \* Publisher account per key (NoPublisher: none)
  bond_vault,            \* balance of each publisher's bond vault
  update,                \* the PriceUpdate accounts, never closed
  registry,              \* ConstituentRegistry (live: initialised)
  index,                 \* IndexState; finalized_at is called `at`
  challenge,             \* Challenge accounts, never closed, with their escrow
  wallet,                \* balance of each user's USDC account
  treasury_vault,        \* balance of the engine's treasury vault
  clock,                 \* Clock::unix_timestamp
  written                \* history: when aggregate_day last wrote the index

config == <<paused, treasury_set>>
bonds  == <<publisher, bond_vault>>
feed   == <<index, written>>
tokens == <<wallet, treasury_vault>>
vars == <<config, bonds, update, registry, feed, challenge, tokens, clock>>

-----------------------------------------------------------------------------

Today == clock \div DAY
SecondsIntoDay == clock % DAY
Bps(amount, bps) == (amount * bps) \div 10000

(* Deviation of a price from the aggregated one: how much is slashed, if   *)
(* the challenge succeeds at all.                                          *)
deviation_to_slash_tier(deviation) ==
  IF deviation < 200 THEN 0
  ELSE IF deviation < 500 THEN 1000
  ELSE IF deviation < 1000 THEN 5000 ELSE 10000

days_absent_to_tier(days) ==
  IF days >= 14 THEN 3 ELSE IF days >= 7 THEN 2 ELSE IF days >= 3 THEN 1 ELSE 0

TierSlash == <<500, 2500, 10000>>

DaysAbsent(p) ==
  IF Today >= publisher[p].last_day THEN Today - publisher[p].last_day ELSE 0

(* What a slash of `bps` takes out of the bond recorded for a publisher.   *)
SlashedFrom(p, bps) == Bps(publisher[p].bond, bps)

Slash_VaultOnly(p, amount, status, tier) ==
  /\ bond_vault' = [bond_vault EXCEPT ![p] = @ - amount]
  /\ publisher' = [publisher EXCEPT ![p].status = status, ![p].tier = tier]
Slash(p, amount, status, tier) ==
  /\ bond_vault' = [bond_vault EXCEPT ![p] = @ - amount]
  /\ publisher' = [publisher EXCEPT ![p].bond = @ - amount,
                                    ![p].status = status, ![p].tier = tier]

-----------------------------------------------------------------------------
(* Aggregation.  The caller lists the update accounts to consider, in any  *)
(* number and with repetitions; `chosen` says how often each is listed.    *)

UpdatesOf_AnyDay(day) == update
UpdatesOf(day) == {u \in update : u.day = day}
Copies(chosen, S) == MapThenSumSet(LAMBDA u : chosen[u], S)

(* The k-th smallest of the listed prices of a constituent. *)
Ranked(chosen, c, k) ==
  Min({u.prices[c] : u \in {v \in DOMAIN chosen :
         Copies(chosen, {w \in DOMAIN chosen : w.prices[c] <= v.prices[c]}) >= k}})

Median_Mean(chosen, c) ==
  MapThenSumSet(LAMBDA u : chosen[u] * u.prices[c], DOMAIN chosen) \div Copies(chosen, DOMAIN chosen)
Median(chosen, c) ==
  LET n   == Copies(chosen, DOMAIN chosen)
      mid == n \div 2
  IN  IF n % 2 = 0
      THEN (Ranked(chosen, c, mid) + Ranked(chosen, c, mid + 1)) \div 2
      ELSE Ranked(chosen, c, mid + 1)

(* Zero, and so stale, with fewer listings than the configured minimum. *)
AggregatedPrices(chosen) ==
  [c \in Constituents |->
    IF Copies(chosen, DOMAIN chosen) < MIN_PUBLISHERS THEN 0 ELSE Median(chosen, c)]

(* A constituent without a base takes its first aggregated price. *)
Linked(prices) ==
  [c \in Constituents |-> IF registry.base[c] = 0 THEN prices[c] ELSE registry.base[c]]

(* 1000 x mean of price / base; a constituent without price counts as 1. *)
IndexValue(prices, base) ==
  LET ratio(c) == IF prices[c] = 0 \/ base[c] = 0
                  THEN UNIT ELSE (prices[c] * UNIT) \div base[c]
  IN  (1000 * MapThenSumSet(ratio, Constituents)) \div Cardinality(Constituents)

(* The IndexState aggregation writes; `at` starts the challenge window. *)
Provisional_StampKept(day, prices, value) ==
  [status |-> "Provisional", day |-> day, prices |-> prices, value |-> value,
   at |-> IF index.day = day THEN index.at ELSE clock]
Provisional(day, prices, value) ==
  [status |-> "Provisional", day |-> day, prices |-> prices, value |-> value,
   at |-> clock]

-----------------------------------------------------------------------------
(* Initial state: after `initialize`; the treasury vault already exists.   *)

Init ==
  /\ paused = FALSE /\ treasury_set = FALSE
  /\ publisher = [p \in Publishers |-> NoPublisher]
  /\ bond_vault = [p \in Publishers |-> 0]
  /\ update = {}
  /\ registry = [live |-> FALSE, card |-> [c \in Constituents |-> NoCard],
                 base |-> [c \in Constituents |-> 0],
                 version |-> 0, effective_day |-> 0]
  /\ index = [status |-> "None", day |-> 0, prices |-> [c \in Constituents |-> 0],
              value |-> 0, at |-> 0]
  /\ challenge = {}
  /\ wallet = [u \in Users |-> FUNDS]
  /\ treasury_vault = 0
  /\ clock = START
  /\ written = START

-----------------------------------------------------------------------------
(* Instructions of the admin.                                              *)

set_protocol_treasury ==
  /\ treasury_set' = TRUE
  /\ UNCHANGED <<paused, bonds, update, registry, feed, challenge, tokens, clock>>

register_publisher(p) ==
  /\ ~paused
  /\ publisher[p] = NoPublisher
  /\ wallet[Admin] >= PUBLISHER_BOND
  /\ wallet' = [wallet EXCEPT ![Admin] = @ - PUBLISHER_BOND]
  /\ bond_vault' = [bond_vault EXCEPT ![p] = @ + PUBLISHER_BOND]
  /\ publisher' = [publisher EXCEPT ![p] =
                    [status |-> "Shadow", bond |-> PUBLISHER_BOND,
                     joined |-> Today, last_day |-> 0, tier |-> 0]]
  /\ UNCHANGED <<config, update, registry, feed, challenge, treasury_vault, clock>>

(* A month in the shadow, counted from the registration. *)
ShadowOver(p) ==
  publisher[p].status = "Shadow" /\ Today - publisher[p].joined >= 30

activate_publisher(p) ==
  /\ ~paused
  /\ ShadowOver(p)
  /\ publisher' = [publisher EXCEPT ![p].status = "Active"]
  /\ UNCHANGED <<config, bond_vault, update, registry, feed, challenge, tokens, clock>>

initialize_registry ==
  /\ ~paused
  /\ ~registry.live
  /\ registry' = [registry EXCEPT !.live = TRUE]
  /\ UNCHANGED <<config, bonds, update, feed, challenge, tokens, clock>>

(* The base price of a card that stays in its slot cannot be entered anew. *)
BaseAfterUpdate_Entered(c, card, base) == base
BaseAfterUpdate(c, card, base) ==
  IF registry.card[c] = card THEN registry.base[c] ELSE base

update_constituent(c, card, base) ==
  /\ ~paused
  /\ registry.live
  /\ registry' = [registry EXCEPT !.card[c] = card,
                                  !.base[c] = BaseAfterUpdate(c, card, base)]
  /\ UNCHANGED <<config, bonds, update, feed, challenge, tokens, clock>>

finalize_registry_update(effective_day) ==
  /\ ~paused
  /\ registry.live
  /\ registry.version < MAX_VERSION
  /\ registry' = [registry EXCEPT !.version = @ + 1, !.effective_day = effective_day]
  /\ UNCHANGED <<config, bonds, update, feed, challenge, tokens, clock>>

emergency_pause(stop) ==
  /\ paused' = stop
  /\ UNCHANGED <<treasury_set, bonds, update, registry, feed, challenge, tokens, clock>>

-----------------------------------------------------------------------------
(* Daily prices.                                                           *)

(* A submission ends the absence: the tier slashed so far is forgotten.    *)
Present_DayKept(account, day) == [account EXCEPT !.tier = 0]
Present_TierKept(account, day) == [account EXCEPT !.last_day = day]
Present(account, day) == [account EXCEPT !.last_day = day, !.tier = 0]

(* The PriceUpdate account of a publisher and day can be created once, and *)
(* one price of zero refuses the whole submission.                         *)
submit_price_update(p, day, prices) ==
  /\ ~paused
  /\ publisher[p].status \in {"Active", "Shadow"}
  /\ day + 1 = Today
  /\ SecondsIntoDay >= WINDOW_START /\ SecondsIntoDay <= WINDOW_END
  /\ \A c \in Constituents : prices[c] > 0
  /\ ~\E u \in update : u.publisher = p /\ u.day = day
  /\ update' = update \cup {[publisher |-> p, day |-> day, prices |-> prices]}
  /\ publisher' = [publisher EXCEPT ![p] = Present(@, day)]
  /\ UNCHANGED <<config, bond_vault, registry, feed, challenge, tokens, clock>>

(* Any day, again and again, whatever the index's status. *)
aggregate_day(day, chosen) ==
  LET prices == AggregatedPrices(chosen)
      base   == Linked(prices)
  IN  /\ ~paused
      /\ registry.live
      /\ registry' = [registry EXCEPT !.base = base]
      /\ index' = Provisional(day, prices, IndexValue(prices, base))
      /\ written' = clock
      /\ UNCHANGED <<config, bonds, update, challenge, tokens, clock>>

finalize_day ==
  /\ ~paused
  /\ index.status = "Provisional"
  /\ clock - index.at >= CHALLENGE_WINDOW
  /\ index' = [index EXCEPT !.status = "Final", !.at = clock]
  /\ UNCHANGED <<config, bonds, update, registry, challenge, tokens, clock, written>>

-----------------------------------------------------------------------------
(* Challenges and slashing.                                                *)

(* One challenge per challenger, day and constituent; that the target is a *)
(* publisher who submitted that day is looked up only on resolution.       *)
open_challenge(u, p, c) ==
  /\ ~paused
  /\ index.status = "Provisional"
  /\ clock - index.at < CHALLENGE_WINDOW
  /\ wallet[u] >= CHALLENGE_BOND
  /\ ~\E x \in challenge : x.challenger = u /\ x.day = index.day /\ x.constituent = c
  /\ wallet' = [wallet EXCEPT ![u] = @ - CHALLENGE_BOND]
  /\ challenge' = challenge \cup
       {[challenger |-> u, target |-> p, day |-> index.day, constituent |-> c,
         status |-> "Open", escrow |-> CHALLENGE_BOND]}
  /\ UNCHANGED <<config, bonds, update, registry, feed, treasury_vault, clock>>

(* The index still is that of the challenged day, final or not, and the    *)
(* challenged publisher has an update for it.                              *)
Resolvable(x) ==
  /\ ~paused /\ treasury_set
  /\ x.status = "Open"
  /\ publisher[x.target] # NoPublisher
  /\ index.status # "None" /\ index.day = x.day
  /\ \E u \in update : u.publisher = x.target /\ u.day = x.day

(* Basis points to slash; 0 dismisses, as does a stale constituent.  The   *)
(* deviation's truncation to 32 bits (lib.rs:568-571) is left out.         *)
Verdict(x) ==
  LET agreed    == index.prices[x.constituent]
      submitted == (CHOOSE u \in update : u.publisher = x.target /\ u.day = x.day)
                     .prices[x.constituent]
      distance  == IF submitted > agreed THEN submitted - agreed ELSE agreed - submitted
  IN  IF agreed = 0 THEN 0 ELSE deviation_to_slash_tier((distance * 10000) \div agreed)

(* A resolution pays out the escrow and ends the challenge. *)
Resolved_StillOpen(x, status) ==
  challenge' = (challenge \ {x}) \cup {[x EXCEPT !.escrow = @ - CHALLENGE_BOND]}
Resolved(x, status) ==
  challenge' = (challenge \ {x}) \cup
                 {[x EXCEPT !.status = status, !.escrow = @ - CHALLENGE_BOND]}

StatusAfter(p, bps, amount) ==
  IF amount = 0 THEN publisher[p].status
  ELSE IF bps = 10000 THEN "Removed"
  ELSE IF bps = 5000 THEN "Suspended" ELSE publisher[p].status

(* Half of the slash and the bond go to the account the caller passes. *)
challenge_succeeds(x, payee) ==
  LET p == x.target
      amount == SlashedFrom(p, Verdict(x))
      share  == amount \div 2
  IN  /\ Resolvable(x)
      /\ Verdict(x) > 0
      /\ bond_vault[p] >= amount
      /\ Slash(p, amount, StatusAfter(p, Verdict(x), amount), publisher[p].tier)
      /\ wallet' = [wallet EXCEPT ![payee] = @ + share + CHALLENGE_BOND]
      /\ treasury_vault' = treasury_vault + amount - share
      /\ Resolved(x, "Succeeded")
      /\ UNCHANGED <<config, update, registry, feed, clock>>

(* The challenger's bond refills the publisher's and pays the treasury. *)
challenge_fails(x) ==
  LET share == CHALLENGE_BOND \div 2
  IN  /\ Resolvable(x)
      /\ Verdict(x) = 0
      /\ Slash(x.target, -share, publisher[x.target].status, publisher[x.target].tier)
      /\ treasury_vault' = treasury_vault + CHALLENGE_BOND - share
      /\ Resolved(x, "Failed")
      /\ UNCHANGED <<config, update, registry, feed, wallet, clock>>

slash_for_liveness(p) ==
  LET tier   == days_absent_to_tier(DaysAbsent(p))
      amount == SlashedFrom(p, TierSlash[tier])
  IN  /\ ~paused /\ treasury_set
      /\ publisher[p].status \in {"Active", "Suspended"}
      /\ tier > publisher[p].tier
      /\ bond_vault[p] >= amount
      /\ Slash(p, amount,
               IF tier = 3 THEN "Removed"
               ELSE IF tier = 2 THEN "Suspended" ELSE publisher[p].status, tier)
      /\ treasury_vault' = treasury_vault + amount
      /\ UNCHANGED <<config, update, registry, feed, challenge, wallet, clock>>

Elapse(seconds) ==
  /\ clock' = clock + seconds
  /\ UNCHANGED <<config, bonds, update, registry, feed, challenge, tokens>>

-----------------------------------------------------------------------------

(* Days worth aggregating: those with updates, and one without any. *)
AggregatedDays == {u.day : u \in update} \cup {Today}
PriceLists == [Constituents -> Prices]

AdminSteps ==
  \/ set_protocol_treasury
  \/ \E p \in Publishers : register_publisher(p) \/ activate_publisher(p)
  \/ initialize_registry
  \/ \E c \in Constituents, card \in Cards, base \in Prices \cup {0} :
       update_constituent(c, card, base)
  \/ finalize_registry_update(Today)
  \/ \E stop \in BOOLEAN : emergency_pause(stop)

FeedSteps ==
  \/ \E p \in Publishers, prices \in PriceLists : submit_price_update(p, Today - 1, prices)
  \/ \E day \in AggregatedDays :
       \E chosen \in [UpdatesOf(day) -> 0..MAX_REPEATS] : aggregate_day(day, chosen)
  \/ finalize_day

DisputeSteps ==
  \/ \E u \in Users, p \in Publishers, c \in Constituents : open_challenge(u, p, c)
  \/ \E x \in challenge :
       \/ \E payee \in Users : challenge_succeeds(x, payee)
       \/ challenge_fails(x)
  \/ \E p \in Publishers : slash_for_liveness(p)

Next == AdminSteps \/ FeedSteps \/ DisputeSteps \/ \E d \in Durations : Elapse(d)

Spec == Init /\ [][Next]_vars

-----------------------------------------------------------------------------
(* Properties.                                                             *)

(* Accounts hold what their fields can hold: no vault or bond is overdrawn *)
(* and no challenge's escrow is paid out twice.                            *)
TypeOK ==
  /\ paused \in BOOLEAN /\ treasury_set \in BOOLEAN
  /\ publisher \in [Publishers -> Accounts]
  /\ bond_vault \in [Publishers -> Nat]
  /\ \A u \in update : u.publisher \in Publishers /\ u.day \in Nat /\ u.prices \in PriceLists
  /\ registry.card \in [Constituents -> Cards \cup {NoCard}]
  /\ registry.base \in [Constituents -> Nat]
  /\ index.status \in {"None", "Provisional", "Final"}
  /\ index.prices \in [Constituents -> Nat] /\ index.value \in Nat /\ index.at \in Nat
  /\ \A x \in challenge : x.status \in {"Open", "Succeeded", "Failed"} /\ x.escrow \in Nat
  /\ wallet \in [Users -> Nat]
  /\ treasury_vault \in Nat /\ clock \in Nat

(* The bond on which slashes are computed is what the bond vault holds,    *)
(* through challenges won and lost, refills and liveness slashes in any    *)
(* order; so none of them can fail for want of tokens.                     *)
BondsBacked == \A p \in Publishers : bond_vault[p] = publisher[p].bond

(* The tier recorded for a publisher belongs to the present absence: it    *)
(* was reached by it, and a return wipes it out.                           *)
TierOfThisAbsence ==
  \A p \in Publishers : publisher[p].tier <= days_absent_to_tier(DaysAbsent(p))

(* Nobody with a price update for one of the two days before today is ever *)
(* slashed for being absent.                                               *)
PresentNotSlashed ==
  [][\A p \in Publishers : slash_for_liveness(p) =>
       \A u \in update : u.publisher = p => u.day + 2 < Today]_vars

(* Chain-linking: once a card in a slot has a base price, no aggregation,  *)
(* re-aggregation or registry update changes it while the card stays.      *)
BasePriceKept ==
  [][\A c \in Constituents :
       registry.base[c] # 0 /\ registry'.card[c] = registry.card[c]
         => registry'.base[c] = registry.base[c]]_vars

(* The price of a day lies between two submitted by whoever makes up the   *)
(* majority of the listings, however the caller of aggregate_day repeats   *)
(* updates or leaves them out.                                             *)
DecidedByMajority(chosen) ==
  \A most \in SUBSET {u \in DOMAIN chosen : chosen[u] > 0}, c \in Constituents :
    2 * Copies(chosen, most) > Copies(chosen, DOMAIN chosen) /\ index'.prices[c] # 0
      => /\ \E u \in most : u.prices[c] <= index'.prices[c]
         /\ \E u \in most : index'.prices[c] <= u.prices[c]

MajorityDecides ==
  [][index' # index =>
       \A day \in AggregatedDays : \A chosen \in [UpdatesOf(day) -> 0..MAX_REPEATS] :
         aggregate_day(day, chosen) => DecidedByMajority(chosen)]_vars

(* An open challenge can be resolved whenever the index still is of its    *)
(* day, the oracle runs and the target has submitted: through removals,    *)
(* other challenges and re-aggregations the account, the escrow that both  *)
(* verdicts pay out and the tokens of a slash are there.  (Once another    *)
(* day is aggregated it has to wait until somebody aggregates its own.)    *)
DisputesCanBeSettled ==
  \A x \in challenge :
    /\ x.status = "Open" /\ ~paused /\ treasury_set
    /\ index.day = x.day
    /\ \E u \in update : u.publisher = x.target /\ u.day = x.day
    => /\ Resolvable(x)
       /\ x.escrow = CHALLENGE_BOND
       /\ SlashedFrom(x.target, Verdict(x)) <= bond_vault[x.target]

(* Nobody loses a challenge over a price that everybody submitted for that *)
(* day, whatever was listed when the index was written, and written again  *)
(* between challenge and resolution.                                       *)
AgreedNotSlashed ==
  \A x \in challenge :
    /\ Resolvable(x)
    /\ \A u, v \in update :
         u.day = x.day /\ v.day = x.day => u.prices[x.constituent] = v.prices[x.constituent]
    => Verdict(x) = 0

(* The oracle implements the feed its readers rely on. *)
Feed == INSTANCE IndexFeed WITH
  WINDOW <- CHALLENGE_WINDOW, status <- index.status, value <- index.value,
  written <- written, now <- clock

ImplementsFeed == Feed!FeedSpec

-----------------------------------------------------------------------------
(* What a document of the repository says, and the program does not do.    *)

(* docs/oracle.md:183-187: an absence costs "25% of bond, 1-month          *)
(* suspension", and only collusion a "permanent removal".  So who has been *)
(* absent for less than a month, and is suspended, is not removed for it.  *)
SuspensionRunsItsMonth ==
  [][\A p \in Publishers :
       slash_for_liveness(p) /\ publisher[p].status = "Suspended" /\ DaysAbsent(p) < 30
         => publisher'[p].status = "Suspended"]_vars
=============================================================================
