----------------------------- MODULE MCIndexer ------------------------------
(***************************************************************************)
(* TLC instance of Indexer: at most MaxTxs transactions of the traders and *)
(* MaxFaults restarts and failed appends; polls go on for ever.            *)
(***************************************************************************)
EXTENDS Indexer

CONSTANTS MaxTxs, MaxFaults

VARIABLE faults

mcvars == <<vars, faults>>

MCInit == Init /\ faults = 0

Trade(A) == MapThenSumSet(LAMBDA k : Len(txs[k]), Keys) < MaxTxs /\ A /\ UNCHANGED faults

Fault(A) == faults < MaxFaults /\ A /\ faults' = faults + 1

MCNext ==
  \/ Trade(\E k \in Keys : OpenPosition(k))
  \/ Trade(\E k \in Keys : MoveMargin(k))
  \/ Trade(\E k \in Keys : ClosePosition(k))
  \/ \E p \in Polls : ListRead(p) /\ UNCHANGED faults
  \/ \E p \in Polls : ListFails(p) /\ UNCHANGED faults
  \/ \E p \in Polls : ListArrives(p) /\ UNCHANGED faults
  \/ \E p \in Polls : CloseDerived(p) /\ UNCHANGED faults
  \/ \E p \in Polls : CloseUnderived(p) /\ UNCHANGED faults
  \/ Fault(\E p \in Polls : AppendOpenFails(p))
  \/ Fault(\E p \in Polls : AppendCloseFails(p))
  \/ Fault(Restart)

MCSpec == MCInit /\ [][MCNext]_mcvars /\ Fairness
=============================================================================
