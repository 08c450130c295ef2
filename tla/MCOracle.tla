------------------------------ MODULE MCOracle ------------------------------
(***************************************************************************)
(* TLC instance of Oracle.  Behaviours of at most MaxSteps instructions    *)
(* start either at the program's initial state or at the launch of the     *)
(* feed, a state the program reaches in ten instructions or so: two        *)
(* publishers bonded, through their shadow month and active, with their    *)
(* first prices submitted, the registry filled and nothing aggregated yet. *)
(***************************************************************************)
EXTENDS Oracle, TLC

CONSTANTS p1, p2, u1, u2, c1, c2, pikachu, mew, MaxSteps

VARIABLE steps

mcvars == <<vars, steps>>

TwoPublishers == {p1, p2}
TwoUsers == {u1, u2}
OneSlot == {c1}
TwoCards == {pikachu, mew}

(* The update of a publisher for `day` with the same price everywhere. *)
FlatUpdate(p, day, price) ==
  [publisher |-> p, day |-> day, prices |-> [c \in Constituents |-> price]]

Launch ==
  LET today == 32
  IN  /\ paused = FALSE /\ treasury_set = TRUE
      /\ publisher = [p \in Publishers |->
           [status |-> "Active", bond |-> PUBLISHER_BOND, joined |-> 1,
            last_day |-> today - 2, tier |-> 0]]
      /\ bond_vault = [p \in Publishers |-> PUBLISHER_BOND]
      /\ \E low, high \in Prices :
           /\ low <= high
           /\ update = {FlatUpdate(p1, today - 2, low), FlatUpdate(p2, today - 2, high)}
      /\ registry = [live |-> TRUE, card |-> [c \in Constituents |-> pikachu],
                     base |-> [c \in Constituents |-> 0],
                     version |-> 1, effective_day |-> 1]
      /\ index = [status |-> "None", day |-> 0, prices |-> [c \in Constituents |-> 0],
                  value |-> 0, at |-> 0]
      /\ challenge = {}
      /\ wallet = [u \in Users |-> IF u = Admin THEN FUNDS - 2 * PUBLISHER_BOND ELSE FUNDS]
      /\ treasury_vault = 0
      /\ clock = today * DAY
      /\ written = START

MCInit == (Init \/ Launch) /\ steps = 0

Bounded(A) == steps < MaxSteps /\ A /\ steps' = steps + 1

MCNext ==
  \/ Bounded(set_protocol_treasury)
  \/ Bounded(\E p \in Publishers : register_publisher(p))
  \/ Bounded(\E p \in Publishers : activate_publisher(p))
  \/ Bounded(initialize_registry)
  \/ Bounded(\E c \in Constituents, card \in Cards, base \in Prices \cup {0} :
               update_constituent(c, card, base))
  \/ Bounded(finalize_registry_update(Today))
  \/ Bounded(\E stop \in BOOLEAN : emergency_pause(stop))
  \/ Bounded(\E p \in Publishers, prices \in PriceLists :
               submit_price_update(p, Today - 1, prices))
  \/ Bounded(\E day \in AggregatedDays :
               \E chosen \in [UpdatesOf(day) -> 0..MAX_REPEATS] : aggregate_day(day, chosen))
  \/ Bounded(finalize_day)
  \/ Bounded(\E u \in Users, p \in Publishers, c \in Constituents : open_challenge(u, p, c))
  \/ Bounded(\E x \in challenge, payee \in Users : challenge_succeeds(x, payee))
  \/ Bounded(\E x \in challenge : challenge_fails(x))
  \/ Bounded(\E p \in Publishers : slash_for_liveness(p))
  \/ Bounded(\E d \in Durations : Elapse(d))

MCSpec == MCInit /\ [][MCNext]_mcvars
=============================================================================
