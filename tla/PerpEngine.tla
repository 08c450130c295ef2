----------------------------- MODULE PerpEngine -----------------------------
(***************************************************************************)
(* The on-chain perpetual-futures program, programs/perp-engine/src/lib.rs.*)
(*                                                                         *)
(* A Solana transaction is atomic: a handler whose `require!` or token     *)
(* transfer fails leaves no trace.  Every instruction is therefore one     *)
(* action, whose guard holds exactly when the whole handler succeeds.      *)
(* Interleaving is the order of instructions of different signers, and of  *)
(* the oracle's updates of the IndexState account the handlers read.       *)
(*                                                                         *)
(* Tokens are the micro-USDC in SPL accounts: users' wallets, one margin   *)
(* vault per position, the insurance vault and the treasury vault.         *)
(* Not modelled: rent, account creation, events, opened_at, pause_reason,  *)
(* entry_index_price (written, never read by the program), and the two-    *)
(* step admin hand-over; admin instructions are those of market.admin.     *)
(***************************************************************************)
EXTENDS PerpMath, FiniteSets, FiniteSetsExt

CONSTANTS
  Users,             \* owners of a USDC account: traders, liquidators, admin
  Traders,           \* those that may hold a position
  FUNDS,             \* what each wallet starts with
  SEED,              \* insurance capital deposited at launch
  InitRisk,          \* risk parameters given to initialize_market
  PhaseRisk,         \* PhaseRisk[1], PhaseRisk[2]: the bundles of set_phase
  RiskChoices,       \* parameters update_risk_params may be called with
  CAP_CEILING,       \* no funding cap above it is ever installed
  OI_FLOOR, TAKER_FEE, PENALTY, MAX_POSITIONS, ADL_HAIRCUT,
  INSURANCE_FLOOR,   \* fund.floor, set once by initialize_insurance_fund
  HOUR,              \* seconds of an hour (3600)
  Sizes,             \* signed sizes and size changes instructions carry
  Amounts,           \* token amounts instructions carry
  IndexValues,       \* index values the oracle publishes
  Durations          \* seconds that may pass between two instructions

RiskParams == [initial_margin: Nat, maintenance_margin: Nat \ {0},
               max_oi: Nat \ {0}, max_position: Nat \ {0},
               funding_cap: Nat \ {0}, slippage: 0..SCALE]

AllRisks == {InitRisk, PhaseRisk[1], PhaseRisk[2]} \cup RiskChoices

ASSUME UsersAssumption ==
  /\ IsFiniteSet(Traders) /\ Traders \subseteq Users
  /\ FUNDS \in Nat /\ SEED \in Nat

(* What initialize_market and update_risk_params validate. *)
ASSUME RiskAssumption ==
  /\ AllRisks \subseteq RiskParams
  /\ CAP_CEILING \in Nat
  /\ \A r \in AllRisks : /\ r.initial_margin > r.maintenance_margin
                         /\ r.funding_cap < BPS
                         /\ r.funding_cap <= CAP_CEILING

ASSUME MarketAssumption ==
  /\ OI_FLOOR \in Nat \ {0}
  /\ TAKER_FEE \in Nat /\ TAKER_FEE < BPS
  /\ PENALTY \in Nat /\ PENALTY < BPS
  /\ MAX_POSITIONS \in Nat \ {0}
  /\ ADL_HAIRCUT \in 0..BPS
  /\ INSURANCE_FLOOR \in Nat
  /\ HOUR \in Nat \ {0}

ASSUME InputAssumption ==
  /\ Sizes \subseteq Int /\ Amounts \subseteq Nat /\ IndexValues \subseteq Nat
  /\ Durations \subseteq Nat

Sides == {"long", "short"}
NoPosition == [size |-> 0, entry_mark |-> 0, snapshot |-> 0]
Positions == [size: Int \ {0}, entry_mark: Nat \ {0}, snapshot: Int]

VARIABLES
  oi,                   \* long_oi, short_oi
  count,                \* long_position_count, short_position_count
  cum,                  \* cumulative_funding_long, cumulative_funding_short
  last_funding_update,
  twap,                 \* mark_twap_1h, mark_twap_5min
  paused,               \* trading_paused, funding_paused
  risk,                 \* the parameters set_phase and update_risk_params move
  phase,
  position,             \* Position account per trader (NoPosition: none)
  margin_vault,         \* balance of each position's margin vault
  insurance,            \* InsuranceFund totals and the insurance vault's balance
  treasury,             \* Treasury totals and the treasury vault's balance
  wallet,               \* balance of each user's USDC account
  index,                \* the oracle's IndexState: status and index_value
  clock,                \* Clock::unix_timestamp, 0 at initialize_market
  unbooked              \* history: tokens sent to the two vaults from outside

book     == <<oi, count, twap, position, margin_vault>>
funding  == <<cum, last_funding_update>>
admin    == <<paused, risk, phase>>
money    == <<insurance, treasury, wallet>>
external == <<index, clock, unbooked>>
vars == <<book, funding, admin, money, external>>

-----------------------------------------------------------------------------
(* Views of the state.                                                     *)

IsOpen(t) == position[t].size # 0
Side(size) == IF size > 0 THEN "long" ELSE "short"
Notional(t) == Abs(position[t].size)
OpenOn(side) == {t \in Traders : IsOpen(t) /\ Side(position[t].size) = side}

(* The handlers' check of the oracle account they read. *)
OracleUsable == index.status \in {"Provisional", "Final"} /\ index.value > 0

MarkAt(ois) ==
  compute_mark_price(index.value, ois["long"], ois["short"], OI_FLOOR, risk.slippage)
PnlAt(t, price) == PricePnl(position[t].size, position[t].entry_mark, price)

(* Every handler reads cumulative_funding_long, also for a short. *)
FundingOwed(t) ==
  position_funding_owed(cum["long"], position[t].snapshot, position[t].size)

(* A signed settlement with the insurance fund: tokens and totals. *)
Settle_Unbooked(fund, amount) ==
  IF amount >= 0
  THEN [fund EXCEPT !.vault = @ + amount]
  ELSE [fund EXCEPT !.vault = @ + amount, !.paid_out = @ - amount]
Settle(fund, amount) ==
  IF amount >= 0
  THEN [fund EXCEPT !.vault = @ + amount, !.deposited = @ + amount]
  ELSE [fund EXCEPT !.vault = @ + amount, !.paid_out = @ - amount]

Receive(t, amount) == [t EXCEPT !.vault = @ + amount, !.received = @ + amount]

Pay(accounts, user, amount) == [accounts EXCEPT ![user] = @ + amount]

update_mark_twaps(observation) ==
  twap' = [h1 |-> ema_update(twap.h1, observation, 16),
           m5 |-> ema_update(twap.m5, observation, 4)]

(* Position and margin vault are closed; SPL closes only an empty account. *)
CloseAccounts(t, residual) ==
  /\ residual = 0
  /\ position' = [position EXCEPT ![t] = NoPosition]
  /\ margin_vault' = [margin_vault EXCEPT ![t] = 0]

(* Open interest once the position of `t` has the size new_size. *)
ResizedOi_Added(t, new_size) ==
  [oi EXCEPT ![Side(position[t].size)] = @ + Abs(new_size)]
ResizedOi(t, new_size) ==
  [oi EXCEPT ![Side(position[t].size)] = @ - Notional(t) + Abs(new_size)]

(* What a gain of `amount` gets out of the insurance vault: no more than   *)
(* the balance its account had when the instruction was loaded.  A loss is *)
(* due in full.                                                            *)
Payable_Uncapped(amount) == amount
Payable(amount) == IF amount > 0 THEN Smaller(amount, insurance.vault) ELSE amount

(* Open interest and position count after `t` leaves the book. *)
LeaveBook_CountKept(t) ==
  LET side == Side(position[t].size)
  IN  /\ oi' = [oi EXCEPT ![side] = Monus(@, Notional(t))]
      /\ count' = count
LeaveBook(t) ==
  LET side == Side(position[t].size)
  IN  /\ oi' = [oi EXCEPT ![side] = Monus(@, Notional(t))]
      /\ count' = [count EXCEPT ![side] = Monus(@, 1)]

-----------------------------------------------------------------------------
(* Initial state: the program after initialize_market, the insurance and   *)
(* treasury initialisation and the launch deposit into insurance; the      *)
(* oracle's account has not been written yet.                              *)

Init ==
  /\ oi = [s \in Sides |-> 0]
  /\ count = [s \in Sides |-> 0]
  /\ cum = [s \in Sides |-> 0]
  /\ last_funding_update = 0
  /\ twap = [h1 |-> 0, m5 |-> 0]
  /\ paused = [trading |-> FALSE, funding |-> FALSE]
  /\ risk = InitRisk
  /\ phase = 0
  /\ position = [t \in Traders |-> NoPosition]
  /\ margin_vault = [t \in Traders |-> 0]
  /\ insurance = [vault |-> SEED, deposited |-> SEED, paid_out |-> 0]
  /\ treasury = [vault |-> 0, received |-> 0, paid_out |-> 0]
  /\ wallet = [u \in Users |-> FUNDS]
  /\ index = [status |-> "Provisional", value |-> 0]
  /\ clock = 0
  /\ unbooked = [insurance |-> 0, treasury |-> 0]

-----------------------------------------------------------------------------
(* Instructions of a trader.                                               *)

MeetsInitialMargin_Skipped(margin, abs_size) == TRUE
MeetsInitialMargin(margin, abs_size) == margin >= Share(abs_size, risk.initial_margin)

(* The trade moves the book before it is priced: the mark is that of the   *)
(* open interest after the trade, here and in modify and close.            *)
open_position(t, size, margin) ==
  LET abs_size == Abs(size)
      side     == Side(size)
      new_oi   == [oi EXCEPT ![side] = @ + abs_size]
      mark     == MarkAt(new_oi)
      fee      == Share(abs_size, TAKER_FEE)
      to_treasury == TreasuryShare(fee)
  IN  /\ ~paused.trading
      /\ size # 0
      /\ ~IsOpen(t)
      /\ abs_size <= risk.max_position
      /\ new_oi[side] <= risk.max_oi
      /\ count[side] + 1 <= MAX_POSITIONS
      /\ OracleUsable
      /\ mark > 0
      /\ MeetsInitialMargin(margin, abs_size)
      /\ wallet[t] >= margin + fee
      /\ wallet' = [wallet EXCEPT ![t] = @ - margin - fee]
      /\ margin_vault' = [margin_vault EXCEPT ![t] = margin]
      /\ treasury' = Receive(treasury, to_treasury)
      /\ insurance' = Settle(insurance, fee - to_treasury)
      /\ position' = [position EXCEPT ![t] =
                       [size |-> size, entry_mark |-> mark, snapshot |-> cum[side]]]
      /\ oi' = new_oi
      /\ count' = [count EXCEPT ![side] = @ + 1]
      /\ update_mark_twaps(mark)
      /\ UNCHANGED <<funding, admin, external>>

(* Profit or loss of the part of the position that a decrease closes. *)
Realized(t, delta, mark) == PricePnl(-delta, position[t].entry_mark, mark)

(* Funding is settled first, on the old size.  The balances checked and    *)
(* capped afterwards are those loaded before that transfer, while the      *)
(* transfers draw on the real ones.                                        *)
modify_position(t, delta) ==
  LET p        == position[t]
      new_size == p.size + delta
      grows    == Abs(new_size) > Abs(p.size)
      new_oi   == ResizedOi(t, new_size)
      mark     == MarkAt(new_oi)
      owed     == FundingOwed(t)
      settled  == IF grows THEN 0 ELSE Payable(Realized(t, delta, mark))
      fund     == Settle(insurance, owed)
      margin   == margin_vault[t] - owed + settled
  IN  /\ ~paused.trading
      /\ IsOpen(t)
      /\ delta # 0 /\ new_size # 0
      /\ Side(new_size) = Side(p.size)
      /\ Abs(new_size) <= risk.max_position
      /\ margin_vault[t] >= owed /\ fund.vault >= 0
      /\ oi[Side(p.size)] >= Notional(t)
      /\ new_oi[Side(p.size)] <= risk.max_oi
      /\ OracleUsable
      /\ mark > 0
      /\ p.entry_mark > 0
      /\ margin_vault[t] >= -settled
      /\ margin >= 0 /\ fund.vault >= settled
      /\ MeetsInitialMargin(margin, Abs(new_size))
      /\ margin_vault' = [margin_vault EXCEPT ![t] = margin]
      /\ insurance' = Settle(fund, -settled)
      /\ position' = [position EXCEPT ![t] =
           [size |-> new_size,
            entry_mark |-> IF grows
                           THEN BlendEntry(Abs(p.size), p.entry_mark, Abs(delta), mark)
                           ELSE p.entry_mark,
            snapshot |-> cum["long"]]]
      /\ oi' = new_oi
      /\ update_mark_twaps(mark)
      /\ UNCHANGED <<count, treasury, wallet, funding, admin, external>>

CloseMark(t) == MarkAt(ResizedOi(t, 0))
CloseFee(t) == Share(Notional(t), TAKER_FEE)

(* The fee's treasury share leaves the margin vault first; the insurance   *)
(* share is part of the profit or loss settled with the insurance fund.    *)
CloseMargin(t) == margin_vault[t] - TreasuryShare(CloseFee(t))
ClosePnl(t) ==
  PnlAt(t, CloseMark(t)) - FundingOwed(t) - (CloseFee(t) - TreasuryShare(CloseFee(t)))

(* No check, checked subtraction or transfer of close_position fails. *)
CanClose(t) ==
  LET effective_pnl == Payable(ClosePnl(t))
  IN  /\ ~paused.trading
      /\ IsOpen(t)
      /\ oi[Side(position[t].size)] >= Notional(t)
      /\ OracleUsable
      /\ CloseMark(t) > 0
      /\ position[t].entry_mark > 0
      /\ CloseMargin(t) >= 0
      /\ insurance.vault >= effective_pnl
      /\ CloseMargin(t) + effective_pnl >= 0

close_position(t) ==
  LET effective_pnl == Payable(ClosePnl(t))
      payout == CloseMargin(t) + effective_pnl
  IN  /\ CanClose(t)
      /\ wallet' = [wallet EXCEPT ![t] = @ + payout]
      /\ treasury' = Receive(treasury, TreasuryShare(CloseFee(t)))
      /\ insurance' = Settle(insurance, -effective_pnl)
      /\ CloseAccounts(t, CloseMargin(t) + effective_pnl - payout)
      /\ LeaveBook(t)
      /\ update_mark_twaps(CloseMark(t))
      /\ UNCHANGED <<funding, admin, external>>

add_margin(t, amount) ==
  /\ amount > 0
  /\ IsOpen(t)
  /\ wallet[t] >= amount
  /\ wallet' = [wallet EXCEPT ![t] = @ - amount]
  /\ margin_vault' = [margin_vault EXCEPT ![t] = @ + amount]
  /\ UNCHANGED <<oi, count, twap, position, insurance, treasury, funding, admin, external>>

(* What is left must cover initial margin twice: as bare collateral and as *)
(* equity at the current mark, net of funding.                             *)
withdraw_margin(t, amount) ==
  LET mark   == MarkAt(oi)
      left   == margin_vault[t] - amount
      equity == left + PnlAt(t, mark) - FundingOwed(t)
  IN  /\ amount > 0
      /\ ~paused.trading
      /\ IsOpen(t)
      /\ left >= 0
      /\ MeetsInitialMargin(left, Notional(t))
      /\ OracleUsable
      /\ mark > 0
      /\ position[t].entry_mark > 0
      /\ MeetsInitialMargin(equity, Notional(t))
      /\ margin_vault' = [margin_vault EXCEPT ![t] = left]
      /\ wallet' = [wallet EXCEPT ![t] = @ + amount]
      /\ UNCHANGED <<oi, count, twap, position, insurance, treasury, funding, admin, external>>

deposit_insurance(u, amount) ==
  /\ amount > 0
  /\ wallet[u] >= amount
  /\ wallet' = [wallet EXCEPT ![u] = @ - amount]
  /\ insurance' = Settle(insurance, amount)
  /\ UNCHANGED <<book, treasury, funding, admin, external>>

(* The recipient is any account the admin names. *)
withdraw_treasury(u, amount) ==
  /\ amount > 0
  /\ treasury.vault >= amount
  /\ treasury' = [treasury EXCEPT !.vault = @ - amount, !.paid_out = @ + amount]
  /\ wallet' = [wallet EXCEPT ![u] = @ + amount]
  /\ UNCHANGED <<book, insurance, funding, admin, external>>

-----------------------------------------------------------------------------
(* Instructions anyone may send: liquidation, funding, deleveraging.       *)

(* min(index, 5-minute average) for a long, max of them for a short. *)
LiqRefPrice(t) ==
  IF Side(position[t].size) = "long"
  THEN IF twap.m5 > 0 /\ twap.m5 < index.value THEN twap.m5 ELSE index.value
  ELSE IF twap.m5 > 0 /\ twap.m5 > index.value THEN twap.m5 ELSE index.value

LiqEquity(t) == margin_vault[t] + PnlAt(t, LiqRefPrice(t)) - FundingOwed(t)

Liquidatable(t) ==
  /\ IsOpen(t) /\ OracleUsable
  /\ LiqEquity(t) < Share(Notional(t), risk.maintenance_margin)

(* Insurance gets its part of the penalty as far as the vault reaches. *)
InsurancePart_Unbounded(share, available) == share
InsurancePart(share, available) == Smaller(share, available)

(* Who gets what.  Funding moves first; the penalty comes out of what is   *)
(* then in the vault; the rest, whatever the price did, is the trader's.   *)
(* A liquidator's share the vault cannot cover is paid from the insurance  *)
(* balance loaded at the start, and that top-up is then part of the amount *)
(* transferred out of the margin vault as well.                            *)
LiquidationSplit(t) ==
  LET owed      == FundingOwed(t)
      flow      == IF owed >= 0 THEN Smaller(owed, margin_vault[t])
                                ELSE -Smaller(-owed, insurance.vault)
      margin    == margin_vault[t] - flow
      penalty   == Share(Notional(t), PENALTY)
      liq_share == penalty \div 3
      from_margin == Smaller(liq_share, margin)
      to_insurance == InsurancePart(penalty - liq_share, margin - from_margin)
      topup     == Smaller(liq_share - from_margin, insurance.vault)
  IN  [flow         |-> flow,
       margin       |-> margin,
       topup        |-> topup,
       liq_payout   |-> from_margin + topup,
       to_insurance |-> to_insurance,
       to_trader    |-> margin - from_margin - to_insurance]

(* The SPL transfers of the split, in the handler's order, all succeed. *)
TransfersSucceed(t) ==
  LET s == LiquidationSplit(t)
  IN  /\ insurance.vault + s.flow >= s.topup
      /\ s.margin >= s.liq_payout
      /\ s.margin - s.liq_payout >= s.to_insurance
      /\ s.margin - s.liq_payout - s.to_insurance >= s.to_trader

liquidate(t, liquidator) ==
  LET s == LiquidationSplit(t)
  IN  /\ Liquidatable(t)
      /\ TransfersSucceed(t)
      /\ insurance' = Settle(Settle(Settle(insurance, s.flow), -s.topup), s.to_insurance)
      /\ wallet' = Pay(Pay(wallet, liquidator, s.topup + s.liq_payout), t, s.to_trader)
      /\ CloseAccounts(t, s.margin - s.liq_payout - s.to_insurance - s.to_trader)
      /\ LeaveBook(t)
      /\ UNCHANGED <<twap, treasury, funding, admin, external>>

(* Whole hours since the last update accrue at the present rate; before a  *)
(* first trade set the average, they pass without accrual.                 *)
AccruedBoth(accrual) == [s \in Sides |-> cum["long"] + accrual]

settle_funding ==
  LET elapsed == clock - last_funding_update
      hours   == elapsed \div HOUR
  IN  /\ ~paused.funding
      /\ elapsed >= HOUR
      /\ index.value > 0
      /\ cum' = IF twap.h1 > 0
                THEN AccruedBoth(FundingAccrual(twap.h1, index.value, risk.funding_cap, hours))
                ELSE cum
      /\ last_funding_update' = last_funding_update + hours * HOUR
      /\ UNCHANGED <<book, money, admin, external>>

(* The caller lists every other position of the candidate's side, and none *)
(* of them may do better than the candidate at the index price.  That the  *)
(* list is complete is not looked up: it has count - 1 distinct entries.   *)
ProvesHighestPnl_Repeats(t, witnesses) ==
  \A i \in DOMAIN witnesses :
    LET w == witnesses[i]
    IN  /\ IsOpen(w) /\ Side(position[w].size) = Side(position[t].size)
        /\ w # t
        /\ PnlAt(t, index.value) >= PnlAt(w, index.value)
ProvesHighestPnl(t, witnesses) ==
  /\ Cardinality({witnesses[i] : i \in DOMAIN witnesses}) = Cardinality(DOMAIN witnesses)
  /\ \A i \in DOMAIN witnesses :
       LET w == witnesses[i]
       IN  /\ IsOpen(w) /\ Side(position[w].size) = Side(position[t].size)
           /\ w # t
           /\ PnlAt(t, index.value) >= PnlAt(w, index.value)

(* fund.total_deposited - fund.total_paid_out, the books, not the vault. *)
BelowFloor == Monus(insurance.deposited, insurance.paid_out) < INSURANCE_FLOOR

(* What insurance pays into the vault of a deleveraged winner. *)
ADLTopup(t) ==
  LET pnl == PnlAt(t, index.value)
  IN  IF pnl > 0 THEN Smaller(pnl - Share(pnl, ADL_HAIRCUT), insurance.vault) ELSE 0

auto_deleverage(t, witnesses) ==
  LET pnl     == PnlAt(t, index.value)
      balance == margin_vault[t] + ADLTopup(t)
      payout  == IF pnl >= 0 THEN balance ELSE Monus(balance, -pnl)
  IN  /\ BelowFloor
      /\ OracleUsable
      /\ IsOpen(t)
      /\ position[t].entry_mark > 0
      /\ count[Side(position[t].size)] >= 1
      /\ DOMAIN witnesses = 1..(count[Side(position[t].size)] - 1)
      /\ ProvesHighestPnl(t, witnesses)
      /\ insurance' = Settle(Settle(insurance, -ADLTopup(t)), balance - payout)
      /\ wallet' = [wallet EXCEPT ![t] = @ + payout]
      /\ CloseAccounts(t, 0)
      /\ LeaveBook(t)
      /\ UNCHANGED <<twap, treasury, funding, admin, external>>

-----------------------------------------------------------------------------
(* Instructions of the admin.                                              *)

set_pause(trading, fund) ==
  /\ paused' = [trading |-> trading, funding |-> fund]
  /\ UNCHANGED <<book, funding, risk, phase, money, external>>

set_phase_Unchecked(new_phase) ==
  /\ phase' = new_phase
  /\ risk' = IF new_phase \in {1, 2} THEN PhaseRisk[new_phase] ELSE risk
  /\ UNCHANGED <<book, funding, paused, money, external>>
set_phase(new_phase) ==
  /\ new_phase <= 3
  /\ phase' = new_phase
  /\ risk' = IF new_phase \in {1, 2} THEN PhaseRisk[new_phase] ELSE risk
  /\ UNCHANGED <<book, funding, paused, money, external>>

update_risk_params(params) ==
  /\ risk' = params
  /\ UNCHANGED <<book, funding, paused, phase, money, external>>

-----------------------------------------------------------------------------
(* Environment: the oracle program's IndexState, time, and token transfers *)
(* into the two vaults that no instruction of this program makes, among    *)
(* them the oracle program's slashes into the treasury vault.              *)

(* aggregate_day: any day may be aggregated, also one that was final. *)
IndexAggregated(value) ==
  /\ index' = [status |-> "Provisional", value |-> value]
  /\ UNCHANGED <<book, funding, admin, money, clock, unbooked>>

(* finalize_day *)
IndexFinalized ==
  /\ index.status = "Provisional"
  /\ index' = [index EXCEPT !.status = "Final"]
  /\ UNCHANGED <<book, funding, admin, money, clock, unbooked>>

Elapse(seconds) ==
  /\ clock' = clock + seconds
  /\ UNCHANGED <<book, funding, admin, money, index, unbooked>>

(* The oracle's resolve_challenge and slash_for_liveness. *)
OracleSlash(amount) ==
  /\ treasury' = [treasury EXCEPT !.vault = @ + amount]
  /\ unbooked' = [unbooked EXCEPT !.treasury = @ + amount]
  /\ UNCHANGED <<book, funding, admin, insurance, wallet, index, clock>>

(* A plain SPL transfer to the insurance vault's address. *)
Donation(amount) ==
  /\ insurance' = [insurance EXCEPT !.vault = @ + amount]
  /\ unbooked' = [unbooked EXCEPT !.insurance = @ + amount]
  /\ UNCHANGED <<book, funding, admin, treasury, wallet, index, clock>>

-----------------------------------------------------------------------------

WitnessLists(t) == [1..(count[Side(position[t].size)] - 1) -> Traders]

TraderSteps ==
  \E t \in Traders :
    \/ \E s \in Sizes, m \in Amounts : open_position(t, s, m)
    \/ \E s \in Sizes : modify_position(t, s)
    \/ close_position(t)
    \/ \E a \in Amounts : add_margin(t, a) \/ withdraw_margin(t, a)

PublicSteps ==
  \/ \E t \in Traders, u \in Users : liquidate(t, u)
  \/ settle_funding
  \/ \E t \in Traders : \E w \in WitnessLists(t) : auto_deleverage(t, w)
  \/ \E u \in Users, a \in Amounts : deposit_insurance(u, a)

AdminSteps ==
  \/ \E u \in Users, a \in Amounts : withdraw_treasury(u, a)
  \/ \E tr, fu \in BOOLEAN : set_pause(tr, fu)
  \/ \E n \in 0..4 : set_phase(n)
  \/ \E r \in RiskChoices : update_risk_params(r)

EnvironmentSteps ==
  \/ \E v \in IndexValues : IndexAggregated(v)
  \/ IndexFinalized
  \/ \E d \in Durations : Elapse(d)
  \/ \E a \in Amounts : OracleSlash(a) \/ Donation(a)

Next == TraderSteps \/ PublicSteps \/ AdminSteps \/ EnvironmentSteps

Spec == Init /\ [][Next]_vars

-----------------------------------------------------------------------------
(* Properties.                                                             *)

(* Every account holds a number of the sort its on-chain field can hold;   *)
(* in particular no vault, wallet, total or open interest goes negative.   *)
TypeOK ==
  /\ oi \in [Sides -> Nat]
  /\ count \in [Sides -> Nat]
  /\ cum \in [Sides -> Int]
  /\ last_funding_update \in Nat
  /\ twap \in [h1: Nat, m5: Nat]
  /\ paused \in [trading: BOOLEAN, funding: BOOLEAN]
  /\ risk \in AllRisks
  /\ phase \in 0..3
  /\ position \in [Traders -> Positions \cup {NoPosition}]
  /\ margin_vault \in [Traders -> Nat]
  /\ insurance \in [vault: Nat, deposited: Nat, paid_out: Nat]
  /\ treasury \in [vault: Nat, received: Nat, paid_out: Nat]
  /\ wallet \in [Users -> Nat]
  /\ index \in [status: {"Provisional", "Final"}, value: Nat]
  /\ clock \in Nat
  /\ unbooked \in [insurance: Nat, treasury: Nat]

(* The totals kept in the InsuranceFund and Treasury accounts explain the  *)
(* balance of their vaults to the unit, through every fee, sweep, top-up,  *)
(* penalty, haircut and withdrawal; all that is missing from the books is  *)
(* what came in by no instruction of this program.                         *)
VaultsMatchBooks ==
  /\ insurance.vault = insurance.deposited - insurance.paid_out + unbooked.insurance
  /\ treasury.vault = treasury.received - treasury.paid_out + unbooked.treasury

(* The open interest that prices every trade is the sum of the sizes of    *)
(* the positions really open on its side (the handlers only add and        *)
(* subtract, some of them saturating, and never recount).                  *)
OpenInterestIsSum ==
  \A s \in Sides : oi[s] = MapThenSumSet(Notional, OpenOn(s))

(* The position counts, from which auto_deleverage infers that its witness *)
(* list is complete, are exact and within the cap that keeps that list     *)
(* small enough for one transaction.                                       *)
CountsExact ==
  \A s \in Sides : count[s] = Cardinality(OpenOn(s)) /\ count[s] <= MAX_POSITIONS

(* auto_deleverage compares the candidate with the positions its caller    *)
(* lists, and infers from a count it keeps that the list is complete.  It  *)
(* is: whatever was opened, closed, liquidated or deleveraged before, and  *)
(* whatever list is passed, every other position of the side has been      *)
(* compared and none of another side.  (By what they are compared is       *)
(* ProvesHighestPnl, which differs from docs/perp-engine.md:194-197.)      *)
ADLComparesAll ==
  [][\A t \in Traders : \A w \in WitnessLists(t) :
       auto_deleverage(t, w) =>
         {w[i] : i \in DOMAIN w} = OpenOn(Side(position[t].size)) \ {t}]_vars

(* Raw collateral never falls below the initial margin of some parameter   *)
(* set the program admits: funding settlement, realised losses and         *)
(* withdrawals stop there, only closing a position takes the rest; no      *)
(* sequence of resizings reaches a leverage beyond the loosest of them.    *)
CollateralCoversInitialMargin ==
  \A t \in Traders : IsOpen(t) =>
    \E r \in AllRisks : margin_vault[t] >= Share(Notional(t), r.initial_margin)

(* However long nobody settles, and however far the average is from the    *)
(* index, the accumulator moves by at most the cap per whole hour passed.  *)
FundingWithinCap ==
  LET bound == CAP_CEILING * (SCALE \div BPS) * (last_funding_update \div HOUR)
  IN  /\ -bound <= cum["long"] /\ cum["long"] <= bound
      /\ last_funding_update <= clock

(* Equity of a position at the mark its close would be priced at. *)
CloseEquity(t) == CloseMargin(t) + ClosePnl(t)

(* What initialize_market and update_risk_params do not check: they admit  *)
(* a slippage factor of one, at which a market that is all short has mark  *)
(* zero, and a fee above the initial margin.  Both phases of the program   *)
(* keep far from either.                                                   *)
MildParameters ==
  \A r \in AllRisks : r.slippage < SCALE /\ TAKER_FEE <= r.initial_margin

(* While trading runs and there is an index, an owner whose position is    *)
(* worth something can always close it: no bookkeeping of other traders'   *)
(* exits and no empty insurance fund makes close_position revert.          *)
SolventCanClose ==
  \A t \in Traders :
    IsOpen(t) /\ ~paused.trading /\ OracleUsable /\ CloseEquity(t) >= 0 => CanClose(t)

(* What a position below maintenance margin may be kept open by: nothing   *)
(* but the top-up that is transferred twice, when the vault, after         *)
(* funding, is short of the liquidator's third of the penalty and          *)
(* insurance has a token.  Every other split of any vault can be paid.     *)
OnlyTopUpBlocksLiquidation ==
  \A t \in Traders : IsOpen(t) =>
    LET liq_share == Share(Notional(t), PENALTY) \div 3
    IN  TransfersSucceed(t) <=>
          LiquidationSplit(t).margin >= liq_share \/ insurance.vault = 0

(* Entering moves the mark against whoever enters, and funding is owed from *)
(* then on only: in no market, however tilted by the trades of others and  *)
(* however long unsettled, is what a trader has left after opening, with   *)
(* the position closed at once, more than before less both fees.           *)
NoGainByEntering ==
  [][\A t \in Traders : ~IsOpen(t) /\ IsOpen(t)' =>
       wallet[t]' + CloseEquity(t)' <= wallet[t] - 2 * CloseFee(t)']_vars

(* Growing a long is no gain either, at any mark, funding and margin: the  *)
(* position is worth, closed at once, what it was worth before, less the   *)
(* fee on what was added (what modify_position did before its v0.9 fix,    *)
(* growing at the old entry price, broke this).  Rounding gives back no    *)
(* more than one unit and what rounding the entry down is worth.  Of a     *)
(* short it does not hold: an arithmetic mean of entry prices lies above   *)
(* the harmonic one, to a short's advantage.                               *)
GrowingLongGainsNothing ==
  [][\A t \in Traders :
       LET grown    == position[t]'.size
           entry    == position[t]'.entry_mark
           rounding == 1 + (grown * CloseMark(t)') \div (entry * entry)
       IN  position[t].size \in 1..(grown - 1) =>
             CloseEquity(t)' <=
               CloseEquity(t) - (CloseFee(t)' - CloseFee(t)) + rounding]_vars

-----------------------------------------------------------------------------
(* What documents and comments of the repository say, and the program does *)
(* not do; each is refuted by a run of its own.                            *)

(* lib.rs:1235-1237: when margin cannot cover the penalties, the           *)
(* liquidator's deficit is drawn from insurance "to preserve the liquidator *)
(* incentive"; so a position below maintenance margin can be liquidated.   *)
LiquidatableCanBeLiquidated ==
  \A t \in Traders : Liquidatable(t) => TransfersSucceed(t)

(* docs/perp-engine.md:165-169: the position is closed at liq_ref_price    *)
(* and what remains "after closing PnL and penalty" is the trader's.       *)
LiquidationPaysRemainder ==
  [][\A t \in Traders, u \in Users :
       liquidate(t, u) => LiquidationSplit(t).to_trader <= Larger(0, LiqEquity(t))]_vars

=============================================================================
