------------------------------ MODULE MCCrank -------------------------------
(***************************************************************************)
(* TLC instance of Crank.  The feed has been launched (its publisher is     *)
(* active, the registry filled, nothing aggregated yet) and the crank is   *)
(* about to be started for the first time.  Whatever happens to it from    *)
(* outside is bounded by MaxSteps: days that pass, what others do to the   *)
(* oracle, its deaths and its failing saves.  Its own steps, the failing   *)
(* calls among them, are not bounded.                                      *)
(***************************************************************************)
EXTENDS Crank

CONSTANTS p1, c1, pikachu, MaxSteps

VARIABLE steps

mcvars == <<crankvars, steps>>

OnePublisher == {p1}
OneSlot == {c1}
OneCard == {pikachu}

ThreeWindows == <<7, 14, 30>>

Sale(price, age) == [price |-> price, shipping |-> 0, age |-> age, fits |-> TRUE]
OfAge(n, price, age) == [i \in 1..n |-> Sale(price, age)]

(* Nothing; too few; three sales this week before four older, dearer ones  *)
(* and one nobody pays for its shipping; four sales this week, which the   *)
(* two halves trimmed leave nothing of, and three older ones.              *)
Answers ==
  {<<>>,
   OfAge(2, 100, 20),
   OfAge(3, 100, 3) \o OfAge(4, 160, 10) \o <<[Sale(10, 1) EXCEPT !.shipping = 20]>>,
   OfAge(4, 100, 3) \o OfAge(3, 160, 10)}

Launch ==
  LET today == 32
  IN  /\ paused = FALSE /\ treasury_set = TRUE
      /\ publisher = [p \in Publishers |->
           [status |-> "Active", bond |-> PUBLISHER_BOND, joined |-> 1,
            last_day |-> 0, tier |-> 0]]
      /\ bond_vault = [p \in Publishers |-> PUBLISHER_BOND]
      /\ update = {}
      /\ registry = [live |-> TRUE, card |-> [c \in Constituents |-> pikachu],
                     base |-> [c \in Constituents |-> 120],
                     version |-> 1, effective_day |-> 1]
      /\ index = [status |-> "None", day |-> 0, prices |-> [c \in Constituents |-> 0],
                  value |-> 0, at |-> 0]
      /\ challenge = {}
      /\ wallet = [u \in Users |-> FUNDS]
      /\ treasury_vault = 0
      /\ clock = today * DAY
      /\ written = START

MCInit == Launch /\ CrankInit /\ steps = 0

Free(A) == A /\ UNCHANGED steps
Bounded(A) == steps < MaxSteps /\ A /\ steps' = steps + 1

(* What matters to a crank: time passes, and anybody may aggregate any day. *)
Others ==
  \/ \E day \in AggregatedDays : aggregate_day(day, [u \in UpdatesOf(day) |-> 1])
  \/ \E d \in Durations : Elapse(d)

MCNext ==
  \/ Free(Start)
  \/ Free(LookFinds)
  \/ Free(LookFindsNothing)
  \/ Free(LookFails)
  \/ Free(RegistryFails)
  \/ Free(\E c \in Constituents : PricedFresh(c))
  \/ Free(\E c \in Constituents : PricedByQuote(c))
  \/ Free(\E c \in Constituents : PricedStale(c))
  \/ Free(\E next \in {"aggregating", "saving"} : SubmitLands(next))
  \/ Free(SubmitFails)
  \/ Free(IndexIsOnTarget)
  \/ Free(IndexIsElsewhere)
  \/ Free(IndexReadFails)
  \/ Free(AggregateLands("saving"))
  \/ Free(AggregateFails)
  \/ Free(Saves)
  \/ Bounded(SaveFails)
  \/ Bounded(Dies)
  \/ Bounded(Others /\ UNCHANGED process)

MCSpec == MCInit /\ [][MCNext]_mcvars /\ CrankFairness
=============================================================================
