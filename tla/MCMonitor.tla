----------------------------- MODULE MCMonitor ------------------------------
(***************************************************************************)
(* TLC instance of Monitor: two checks of the chain and the indexer's      *)
(* health page; at most MaxChanges changes of the world, restarts and lost *)
(* messages; passes go on for ever.                                        *)
(***************************************************************************)
EXTENDS Monitor

CONSTANT MaxChanges

VARIABLE changes

mcvars == <<vars, changes>>

ThreeChecks == <<"oracle", "funding", "indexer">>

Rare(A) == changes < MaxChanges /\ A /\ changes' = changes + 1

MCInit == Init /\ changes = 0

MCNext ==
  \/ (\E i \in DOMAIN CHECKS : Asks(i)) /\ UNCHANGED changes
  \/ PassFails /\ UNCHANGED changes
  \/ (Briefs(TRUE) \/ Reports(TRUE) \/ Wakes) /\ UNCHANGED changes
  \/ Rare(Briefs(FALSE))
  \/ Rare(Reports(FALSE))
  \/ Rare(Restarts)
  \/ Rare(\E c \in Names : Changes(c))

MCSpec == MCInit /\ [][MCNext]_mcvars /\ Fairness
=============================================================================
