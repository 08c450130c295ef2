------------------------------ MODULE Indexer -------------------------------
(***************************************************************************)
(* The indexer's record of positions, services/indexer/src/index.ts.       *)
(*                                                                         *)
(* The program emits no events.  Every POSITION_POLL_MS a timer starts a   *)
(* poll, whether or not earlier polls have ended; Polls are those that may *)
(* be under way together.  A poll lists the open positions, appends an     *)
(* opening for each it did not know, takes those that have vanished out of *)
(* its memory, and then looks up one after the other the newest            *)
(* transaction of each of them to append its closing.  Memory is the       *)
(* process's own; the files survive it.                                    *)
(*                                                                         *)
(* A position is known by its address, which a trader's next position has  *)
(* again.  The model numbers the positions opened, which the code cannot.  *)
(*                                                                         *)
(* Not modelled: the copies of the IndexState and Market accounts appended *)
(* on every notification, the HTTP endpoints that serve the files, and a   *)
(* line torn by a crash in the middle of an append.                        *)
(***************************************************************************)
EXTENDS Naturals, Sequences, FiniteSets, FiniteSetsExt, SequencesExt

CONSTANTS
  Keys,    \* addresses of position accounts
  Polls    \* polls under way at the same time

ASSUME IndexerAssumption == IsFiniteSet(Keys) /\ IsFiniteSet(Polls)

VARIABLES
  txs,        \* the transactions on each address: kind and number of position
  born,       \* positions opened so far
  known,      \* the map `known`: number of the position last seen, 0: none
  poll,       \* what each poll under way holds in its local variables
  opens,      \* lines of opens.jsonl per address
  closes,     \* lines of closes.jsonl per address
  booked,     \* what closes.jsonl says: address, position, economics
  forgotten,  \* history: closings that were lost from memory, per address
  overlapped  \* history: a poll was started before another had ended

chain == <<txs, born>>
files == <<opens, closes, booked>>
vars == <<chain, known, poll, files, forgotten, overlapped>>

NoTx == [kind |-> "none", id |-> 0]
NewestTx(k) == IF txs[k] = <<>> THEN NoTx ELSE Last(txs[k])

(* The number of the position that is open at an address, 0 if none is. *)
OpenAt(k) == IF NewestTx(k).kind \in {"none", "close"} THEN 0 ELSE NewestTx(k).id

Idle == [pc |-> "idle", seen |-> [k \in Keys |-> 0], todo |-> <<>>]

Init ==
  /\ txs = [k \in Keys |-> <<>>]
  /\ born = 0
  /\ known = [k \in Keys |-> 0]
  /\ poll = [p \in Polls |-> Idle]
  /\ opens = [k \in Keys |-> 0]
  /\ closes = [k \in Keys |-> 0]
  /\ booked = {}
  /\ forgotten = [k \in Keys |-> 0]
  /\ overlapped = FALSE

-----------------------------------------------------------------------------
(* The chain.                                                              *)

Transact(k, kind, id) ==
  /\ txs' = [txs EXCEPT ![k] = Append(@, [kind |-> kind, id |-> id])]
  /\ UNCHANGED <<known, poll, files, forgotten, overlapped>>

OpenPosition(k) ==
  /\ OpenAt(k) = 0
  /\ born' = born + 1
  /\ Transact(k, "open", born + 1)

(* add_margin or withdraw_margin: moves the trader's USDC as a close does. *)
MoveMargin(k) == OpenAt(k) # 0 /\ Transact(k, "margin", OpenAt(k)) /\ UNCHANGED born

(* close_position, liquidate or auto_deleverage *)
ClosePosition(k) == OpenAt(k) # 0 /\ Transact(k, "close", OpenAt(k)) /\ UNCHANGED born

-----------------------------------------------------------------------------
(* A poll.                                                                 *)

(* The RPC node reads the list; its answer is under way. *)
ListRead(p) ==
  /\ poll[p].pc = "idle"
  /\ poll' = [poll EXCEPT ![p] = [@ EXCEPT !.pc = "listed",
                                           !.seen = [k \in Keys |-> OpenAt(k)]]]
  /\ overlapped' = (overlapped \/ \E q \in Polls \ {p} : poll[q].pc # "idle")
  /\ UNCHANGED <<chain, known, files, forgotten>>

ListFails(p) ==
  /\ poll[p].pc = "listed"
  /\ poll' = [poll EXCEPT ![p] = Idle]
  /\ UNCHANGED <<chain, known, files, forgotten, overlapped>>

(* Lines are appended for addresses that were not in the map. *)
AppendOpens(entered) ==
  opens' = [k \in Keys |-> IF k \in entered /\ known[k] = 0 THEN opens[k] + 1 ELSE opens[k]]

Vanished(seen) == {k \in Keys : known[k] # 0 /\ seen[k] = 0}

(* What the map is once all of `seen` has been set and the vanished deleted. *)
Remembered_Kept(seen) == [k \in Keys |-> IF seen[k] = 0 THEN known[k] ELSE seen[k]]
Remembered_First(seen) ==
  [k \in Keys |-> IF seen[k] # 0 /\ known[k] # 0 THEN known[k] ELSE seen[k]]
Remembered(seen) == seen

(* One uninterrupted stretch of code: opens, the map, and the list of what *)
(* has vanished, before the first of them is looked up.                    *)
ListArrives(p) ==
  LET seen == poll[p].seen
  IN  /\ poll[p].pc = "listed"
      /\ AppendOpens({k \in Keys : seen[k] # 0})
      /\ known' = Remembered(seen)
      /\ \E order \in SetToSeqs({[key |-> k, id |-> known[k]] : k \in Vanished(seen)}) :
           poll' = [poll EXCEPT ![p] = IF order = <<>> THEN Idle
                                       ELSE [@ EXCEPT !.pc = "closing", !.todo = order]]
      /\ UNCHANGED <<chain, closes, booked, forgotten, overlapped>>

(* An append throws: the poll ends among the openings; what it had entered *)
(* stays entered, and nothing is looked for that has vanished.             *)
AppendOpenFails(p) ==
  LET seen == poll[p].seen
  IN  /\ poll[p].pc = "listed"
      /\ \E entered \in SUBSET {k \in Keys : seen[k] # 0} :
           /\ \E k \in Keys \ entered : seen[k] # 0 /\ known[k] = 0
           /\ AppendOpens(entered)
           /\ known' = [k \in Keys |-> IF k \in entered THEN seen[k] ELSE known[k]]
      /\ poll' = [poll EXCEPT ![p] = Idle]
      /\ UNCHANGED <<chain, closes, booked, forgotten, overlapped>>

(* Economics are read off the newest transaction of the address at the     *)
(* moment of the lookup: one that moves the trader's USDC and has a margin *)
(* vault to begin with, which an opening has not.                          *)
Economics_SecondNewest(k) ==
  LET n == Len(txs[k])
  IN  IF n > 1 /\ txs[k][n - 1].kind \in {"margin", "close"} THEN txs[k][n - 1] ELSE NoTx
Economics(k) ==
  IF NewestTx(k).kind \in {"margin", "close"} THEN NewestTx(k) ELSE NoTx

NextClosing(p) ==
  LET rest == Tail(poll[p].todo)
  IN  poll' = [poll EXCEPT ![p] = IF rest = <<>> THEN Idle ELSE [@ EXCEPT !.todo = rest]]

AppendClose(p, econ) ==
  LET last == Head(poll[p].todo)
  IN  /\ poll[p].pc = "closing"
      /\ closes' = [closes EXCEPT ![last.key] = @ + 1]
      /\ booked' = booked \cup {[key |-> last.key, id |-> last.id, econ |-> econ]}
      /\ NextClosing(p)
      /\ UNCHANGED <<chain, known, opens, forgotten, overlapped>>

CloseDerived(p) == poll[p].pc = "closing" /\ AppendClose(p, Economics(Head(poll[p].todo).key))

(* The lookup fails or finds no transaction: recorded without economics. *)
CloseUnderived(p) == AppendClose(p, NoTx)

LostBy(p, k) == Cardinality({i \in DOMAIN poll[p].todo : poll[p].todo[i].key = k})

(* The append throws: the poll ends, the rest of its list with it. *)
AppendCloseFails(p) ==
  /\ poll[p].pc = "closing"
  /\ poll' = [poll EXCEPT ![p] = Idle]
  /\ forgotten' = [k \in Keys |-> forgotten[k] + LostBy(p, k)]
  /\ UNCHANGED <<chain, known, files, overlapped>>

Pending(k) == MapThenSumSet(LAMBDA p : LostBy(p, k), Polls)

Restart ==
  /\ known' = [k \in Keys |-> 0]
  /\ poll' = [p \in Polls |-> Idle]
  /\ forgotten' = [k \in Keys |->
       forgotten[k] + Pending(k) + IF known[k] # 0 THEN 1 ELSE 0]
  /\ UNCHANGED <<chain, files, overlapped>>

-----------------------------------------------------------------------------

ChainSteps == \E k \in Keys : OpenPosition(k) \/ MoveMargin(k) \/ ClosePosition(k)

PollSteps(p) ==
  \/ ListRead(p) \/ ListFails(p) \/ ListArrives(p)
  \/ CloseDerived(p) \/ CloseUnderived(p)

Faults == Restart \/ \E p \in Polls : AppendOpenFails(p) \/ AppendCloseFails(p)

Next == ChainSteps \/ (\E p \in Polls : PollSteps(p)) \/ Faults

(* The timer goes on, every await comes back, and not every list fails. *)
Fairness ==
  \A p \in Polls : WF_vars(PollSteps(p)) /\ SF_vars(ListArrives(p))

Spec == Init /\ [][Next]_vars /\ Fairness

-----------------------------------------------------------------------------
(* Properties.                                                             *)

(* Every opening in the file is accounted for, whatever polls overlap,     *)
(* arrive late or fail: its closing is in the file, or on the list of      *)
(* exactly one poll, or the position is in memory, or the closing was in   *)
(* memory when the process or an append failed.  No closing is recorded    *)
(* twice and none without an opening.                                      *)
OpeningsAccountedFor ==
  \A k \in Keys :
    opens[k] = closes[k] + Pending(k) + forgotten[k] + IF known[k] # 0 THEN 1 ELSE 0

(* The economics of a record are those of the closing transaction of the   *)
(* position it names, unless the address was used again before the lookup  *)
(* or polls have overlapped.                                               *)
EconomicsAreOfTheClose ==
  \A r \in booked :
    \/ r.econ \in {NoTx, [kind |-> "close", id |-> r.id]}
    \/ \E i \in DOMAIN txs[r.key] : txs[r.key][i].id > r.id
    \/ overlapped

(* When the traders pause, the record catches up: the map is the open      *)
(* positions and no closing is left to look up.                            *)
CatchesUp == <>[](\A k \in Keys : known[k] = OpenAt(k) /\ Pending(k) = 0)

=============================================================================
