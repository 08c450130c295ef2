----------------------------- MODULE MCProtocol -----------------------------
(***************************************************************************)
(* TLC instance of Protocol.  The market is launched with the feed: two    *)
(* active publishers have submitted their prices, nothing is aggregated    *)
(* and nobody has traded.  At most MaxSteps instructions of either program *)
(* follow.                                                                 *)
(***************************************************************************)
EXTENDS Protocol, MCOracle

CONSTANTS t1, t2

protocolvars == <<protocol, steps>>

OneTrader == {t1}
TwoClients == {t1, t2}
Phase1 == [initial_margin |-> 33, maintenance_margin |-> 16, max_oi |-> 60,
           max_position |-> 40, funding_cap |-> 5, slippage |-> 10]
Phases == <<Phase1, [Phase1 EXCEPT !.max_oi = 100]>>
NoRisks == {}
Lot == {20}

(* With prices of 100 to 130 the index is at most 1.3 times its base. *)
RoundValues == {1000 * k : k \in 0..20}
SmallAmounts == 0..25
Margin == 7

ByOracle(A) == Bounded(OracleStep(A))
ByEngine(A) == Bounded(EngineStep(A))

Aggregation ==
  ByOracle(\E day \in AggregatedDays :
             \E chosen \in [UpdatesOf(day) -> 0..1] : aggregate_day(day, chosen))
Finalization == ByOracle(finalize_day)
Challenging ==
  ByOracle(\E p \in Publishers, c \in Constituents : open_challenge(Admin, p, c))
Resolution ==
  ByOracle(\E x \in challenge : challenge_succeeds(x, x.challenger) \/ challenge_fails(x))
Absence == ByOracle(\E p \in Publishers : slash_for_liveness(p))
TimePasses == ByOracle(\E d \in Durations : Elapse(d))

Trading ==
  ByEngine(\E t \in Traders :
             \/ \E s \in Sizes : Engine!open_position(t, s, Margin)
             \/ Engine!close_position(t))
FundingSettled == ByEngine(Engine!settle_funding)
Liquidation == ByEngine(\E t \in Traders, u \in Clients : Engine!liquidate(t, u))
Collection == ByEngine(Engine!withdraw_treasury(t2, 1))
Gift == Bounded(Donation(1))

LaunchTogether == Launch /\ donated = 0 /\ Engine!Init /\ steps = 0

SharedNext ==
  \/ Aggregation
  \/ Finalization
  \/ Challenging
  \/ Resolution
  \/ Absence
  \/ TimePasses
  \/ Trading
  \/ FundingSettled
  \/ Liquidation
  \/ Collection
  \/ Gift
SharedSpec == LaunchTogether /\ [][SharedNext]_protocolvars
=============================================================================
