------------------------------ MODULE MCKeeper ------------------------------
(***************************************************************************)
(* TLC instance of Keeper: a market with two open shorts, whose index      *)
(* moves, whose hours pass and whose funding is paused and resumed in at   *)
(* most MaxSteps steps, while ticks overlap, fail and are restarted.       *)
(***************************************************************************)
EXTENDS Keeper, TLC

CONSTANTS t1, t2, k1, k2, MaxSteps

VARIABLE steps

mcvars == <<keepervars, steps>>

Phase1 == [initial_margin |-> 33, maintenance_margin |-> 16, max_oi |-> 60,
           max_position |-> 40, funding_cap |-> 5, slippage |-> 10]
Phases == <<Phase1, Phase1>>
NoRisks == {}
Shorts == {-20}
TwoTraders == {t1, t2}
TwoTicks == {k1, k2}

EngineMoves(A) == steps < MaxSteps /\ A /\ UNCHANGED tick /\ steps' = steps + 1

(* The market after the index was published at 100 and both traders opened *)
(* a short of 20, t1 with a margin of 7 and then t2 with a margin of 10.   *)
Launch ==
  /\ oi = [long |-> 0, short |-> 40]
  /\ count = [long |-> 0, short |-> 2]
  /\ cum = [s \in Sides |-> 0]
  /\ last_funding_update = 0
  /\ twap = [h1 |-> 94, m5 |-> 93]
  /\ paused = [trading |-> FALSE, funding |-> FALSE]
  /\ risk = InitRisk
  /\ phase = 0
  /\ position = [t \in Traders |->
       [size |-> -20, entry_mark |-> IF t = t1 THEN 95 ELSE 90, snapshot |-> 0]]
  /\ margin_vault = [t \in Traders |-> IF t = t1 THEN 7 ELSE 10]
  /\ insurance = [vault |-> SEED + 2, deposited |-> SEED + 2, paid_out |-> 0]
  /\ treasury = [vault |-> 2, received |-> 2, paid_out |-> 0]
  /\ wallet = [u \in Users |-> IF u = t1 THEN FUNDS - 9 ELSE FUNDS - 12]
  /\ index = [status |-> "Provisional", value |-> 100]
  /\ clock = 0
  /\ unbooked = [insurance |-> 0, treasury |-> 0]
  /\ tick = [k \in Ticks |-> NoTick]

MCInit == Launch /\ steps = 0

MCNext ==
  \/ KeeperSteps /\ UNCHANGED steps
  \/ steps < MaxSteps /\ Restart /\ steps' = steps + 1
  \/ EngineMoves(\E t \in Traders : close_position(t))
  \/ EngineMoves(\E v \in IndexValues : IndexAggregated(v))
  \/ EngineMoves(\E d \in Durations : Elapse(d))
  \/ EngineMoves(\E fu \in BOOLEAN : set_pause(FALSE, fu))

MCSpec == MCInit /\ [][MCNext]_mcvars /\ KeeperFairness
=============================================================================
