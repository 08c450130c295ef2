---------------------------- MODULE MCPerpEngine ----------------------------
(***************************************************************************)
(* TLC instances of PerpEngine.  A run explores the first MaxSteps         *)
(* instructions of a market: MaxSteps is the one bound on behaviours, the  *)
(* others are the small input sets below.  Each specification keeps the    *)
(* instructions its questions are about; its behaviours are behaviours of  *)
(* PerpEngine's Spec.                                                      *)
(***************************************************************************)
EXTENDS PerpEngine, TLC

CONSTANTS t1, t2, t3, MaxSteps

VARIABLE steps

mcvars == <<vars, steps>>

(* 33% / 16% margins, 10% slippage, 5% funding cap, on a scale of 100. *)
Phase1 == [initial_margin |-> 33, maintenance_margin |-> 16, max_oi |-> 60,
           max_position |-> 40, funding_cap |-> 5, slippage |-> 10]
Phase2 == [Phase1 EXCEPT !.initial_margin = 20, !.maintenance_margin = 10,
                         !.max_oi = 100, !.slippage = 5]
Phases == <<Phase1, Phase2>>
NoRisks == {}
SomeRisks == {[Phase1 EXCEPT !.initial_margin = 25]}
TwoTraders == {t1, t2}
ThreeTraders == {t1, t2, t3}

(* The hypothesis under which SolventCanClose is proved. *)
ASSUME MildInstance == MildParameters

(* No instruction and no property tells one user from another. *)
UserSymmetry == Permutations(Users)

LotSizes == {20, -20}
ThreeIndexes == {80, 100, 130}
TwoIndexes == {100, 130}

Bounded(A) == steps < MaxSteps /\ A /\ steps' = steps + 1

MCInit == Init /\ steps = 0

Open     == Bounded(\E t \in Traders, sz \in Sizes, m \in Amounts : open_position(t, sz, m))
Modify   == Bounded(\E t \in Traders, sz \in Sizes : modify_position(t, sz))
Close    == Bounded(\E t \in Traders : close_position(t))
Add      == Bounded(\E t \in Traders, a \in Amounts : add_margin(t, a))
Withdraw == Bounded(\E t \in Traders, a \in Amounts : withdraw_margin(t, a))
Liquidation == Bounded(\E t \in Traders, u \in Users : liquidate(t, u))
Deleveraging ==
  Bounded(\E t \in Traders : \E w \in WitnessLists(t) : auto_deleverage(t, w))
FundingSettled == Bounded(settle_funding)
FundingPause   == Bounded(\E fu \in BOOLEAN : set_pause(FALSE, fu))
IndexMoves == Bounded(\E v \in IndexValues : IndexAggregated(v))
TimePasses == Bounded(\E d \in Durations : Elapse(d))

(* Trading: every instruction of a trader, under a moving index. *)
TradeNext == Open \/ Modify \/ Close \/ Add \/ Withdraw \/ IndexMoves

(* Forced closes: positions opened, then liquidated or deleveraged by      *)
(* others as the index moves.                                              *)
ForcedNext == Open \/ IndexMoves \/ Liquidation \/ Deleveraging
ForcedSpec == MCInit /\ [][ForcedNext]_mcvars

(* Funding: hours pass, are settled or not, while positions are opened,    *)
(* changed, closed and liquidated and the admin pauses and resumes.        *)
FundingNext ==
  \/ Open \/ Modify \/ Close \/ Liquidation
  \/ FundingSettled \/ FundingPause \/ TimePasses \/ IndexMoves
FundingSpec == MCInit /\ [][FundingNext]_mcvars

(* A market under way, a second place to start from: the index came in at  *)
(* 100, a lot was opened long at 100 and a lot short at 95, 7 of margin    *)
(* each.  Three instructions lead here from MCInit in the run PerpAll.     *)
Underway ==
  \E a, b \in Traders :
    /\ a # b
    /\ LET each(value) == [s \in Sides |-> value]
       IN  oi = each(20) /\ count = each(1) /\ cum = each(0)
    /\ twap = [h1 |-> 95, m5 |-> 96]
    /\ position = [t \in Traders |->
         CASE t = a -> [size |-> 20, entry_mark |-> 100, snapshot |-> 0]
           [] t = b -> [size |-> -20, entry_mark |-> 95, snapshot |-> 0]
           [] OTHER -> NoPosition]
    /\ margin_vault = [t \in Traders |-> IF t \in {a, b} THEN 7 ELSE 0]
    /\ wallet = [u \in Users |-> IF u \in {a, b} THEN FUNDS - 9 ELSE FUNDS]
    /\ insurance = [vault |-> SEED + 2, deposited |-> SEED + 2, paid_out |-> 0]
    /\ treasury = [vault |-> 2, received |-> 2, paid_out |-> 0]
    /\ index = [status |-> "Provisional", value |-> 100]
    /\ paused = [trading |-> FALSE, funding |-> FALSE]
    /\ risk = InitRisk /\ phase = 0
    /\ last_funding_update = 0 /\ clock = 0
    /\ unbooked = [insurance |-> 0, treasury |-> 0]

(* Everything: the four groups of Next, taken apart.                       *)
AllNext ==
  \/ TradeNext \/ Liquidation \/ Deleveraging \/ FundingSettled \/ TimePasses
  \/ Bounded(\E u \in Users, a \in Amounts : deposit_insurance(u, a))
  \/ Bounded(\E u \in Users, a \in Amounts : withdraw_treasury(u, a))
  \/ Bounded(\E tr, fu \in BOOLEAN : set_pause(tr, fu))
  \/ Bounded(\E n \in 0..4 : set_phase(n))
  \/ Bounded(\E r \in RiskChoices : update_risk_params(r))
  \/ Bounded(IndexFinalized)
  \/ Bounded(\E a \in Amounts : OracleSlash(a))
  \/ Bounded(\E a \in Amounts : Donation(a))
AllSpec == (MCInit \/ (Underway /\ steps = 2)) /\ [][AllNext]_mcvars
=============================================================================
