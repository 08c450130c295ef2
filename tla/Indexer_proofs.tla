--------------------------- MODULE Indexer_proofs ---------------------------
(***************************************************************************)
(* The indexer's record is complete and its economics are those of the     *)
(* closings, for any addresses and any number of overlapping polls.        *)
(***************************************************************************)
EXTENDS Indexer, Sums, FunctionTheorems, SequenceTheorems

-----------------------------------------------------------------------------
(* Lists of closings to look up.                                           *)

Entries == [key: Keys, id: Nat]
LostIn(todo, k) == Cardinality({i \in DOMAIN todo : todo[i].key = k})

LEMMA LostType ==
  ASSUME NEW todo \in Seq(Entries), NEW k
  PROVE  /\ IsFiniteSet({i \in DOMAIN todo : todo[i].key = k})
         /\ LostIn(todo, k) \in Nat
<1>1. DOMAIN todo = 1..Len(todo) /\ Len(todo) \in Nat
  BY LenProperties
<1>2. IsFiniteSet(1..Len(todo))
  BY <1>1, FS_Interval
<1>3. IsFiniteSet({i \in DOMAIN todo : todo[i].key = k})
  BY <1>1, <1>2, FS_Subset
<1>. QED  BY <1>3, FS_CardinalityType DEF LostIn

LEMMA LostEmpty ==
  ASSUME NEW k
  PROVE  LostIn(<<>>, k) = 0
<1>1. {i \in DOMAIN <<>> : <<>>[i].key = k} = {}
  OBVIOUS
<1>. QED  BY <1>1, FS_EmptySet DEF LostIn

(* The head of a list is one closing less to look up. *)
LEMMA LostTail ==
  ASSUME NEW todo \in Seq(Entries), todo # <<>>, NEW k
  PROVE  /\ Head(todo) \in Entries /\ Tail(todo) \in Seq(Entries)
         /\ LostIn(todo, k) = LostIn(Tail(todo), k) + IF Head(todo).key = k THEN 1 ELSE 0
<1>. DEFINE rest == Tail(todo)
            here == {i \in DOMAIN todo : todo[i].key = k}
            there == {i \in DOMAIN rest : rest[i].key = k}
            shift == [i \in there |-> i + 1]
<1>1. /\ Head(todo) \in Entries /\ rest \in Seq(Entries)
      /\ Len(rest) = Len(todo) - 1
      /\ \A i \in 1..Len(rest) : rest[i] = todo[i + 1]
      /\ Head(todo) = todo[1]
  BY HeadTailProperties
<1>2. DOMAIN todo = 1..Len(todo) /\ DOMAIN rest = 1..Len(rest) /\ Len(todo) \in Nat \ {0}
  BY <1>1, LenProperties, EmptySeq
<1>. HIDE DEF rest
<1>3. shift \in Bijection(there, here \ {1})
  <2>1. shift \in [there -> here \ {1}]
    BY <1>1, <1>2
  <2>2. \A i, j \in there : shift[i] = shift[j] => i = j
    BY <1>2
  <2>3. ASSUME NEW j \in here \ {1} PROVE \E i \in there : shift[i] = j
    <3>1. j - 1 \in there
      BY <1>1, <1>2, <2>3
    <3>. QED  BY <3>1, <1>2
  <2>. HIDE DEF shift, here, there
  <2>. QED  BY <2>1, <2>2, <2>3, Fun_IsBij
<1>4. IsFiniteSet(there) /\ IsFiniteSet(here)
  BY <1>1, LostType
<1>5. Cardinality(here \ {1}) = Cardinality(there)
  <2>. HIDE DEF shift, here, there
  <2>. QED  BY <1>3, <1>4, FS_Bijection DEF ExistsBijection
<1>6. Cardinality(here) = Cardinality(here \ {1}) + IF 1 \in here THEN 1 ELSE 0
  <2>1. Cardinality(here) \in Nat
    BY <1>4, FS_CardinalityType
  <2>2. Cardinality(here \ {1}) = IF 1 \in here THEN Cardinality(here) - 1 ELSE Cardinality(here)
    <3>. HIDE DEF here
    <3>. QED  BY <1>4, FS_RemoveElement
  <2>. HIDE DEF here
  <2>. QED  BY <2>1, <2>2
<1>7. 1 \in here <=> Head(todo).key = k
  BY <1>1, <1>2
<1>. HIDE DEF here, there
<1>8. Cardinality(here) = Cardinality(there) + IF Head(todo).key = k THEN 1 ELSE 0
  BY <1>5, <1>6, <1>7
<1>. QED  BY <1>1, <1>8 DEF LostIn, here, there, rest

Listed(V, m) == {[key |-> k, id |-> m[k]] : k \in V}

(* In whatever order the vanished are listed, each of them is on the list  *)
(* once.                                                                   *)
LEMMA ListedIs ==
  ASSUME NEW V \in SUBSET Keys, NEW m \in [Keys -> Nat],
         NEW order \in SetToSeqs(Listed(V, m))
  PROVE  /\ order \in Seq(Entries)
         /\ \A i \in DOMAIN order : order[i].key \in V /\ order[i].id = m[order[i].key]
         /\ \A i, j \in DOMAIN order : order[i].key = order[j].key => i = j
         /\ \A k \in V : \E i \in DOMAIN order : order[i].key = k
<1>. DEFINE entry == [k \in V |-> [key |-> k, id |-> m[k]]]
            S == Listed(V, m)
            n == Cardinality(S)
<1>. USE DEF Listed
<1>1. IsFiniteSet(V)
  BY IndexerAssumption, FS_Subset
<1>2. IsFiniteSet(S) /\ n \in Nat
  <2>1. entry \in Surjection(V, S)
    BY DEF Surjection
  <2>. QED  BY <1>1, <2>1, FS_Surjection, FS_CardinalityType
<1>3. order \in [1..n -> S] /\ \A i, j \in 1..n : i # j => order[i] # order[j]
  BY DEF SetToSeqs
<1>4. S \subseteq Entries
  BY DEF Entries
<1>5. order \in Seq(Entries)
  <2>. HIDE DEF S, n
  <2>1. order \in [1..n -> Entries]
    BY <1>3, <1>4
  <2>. QED  BY <1>2, <2>1
<1>6. \A i \in 1..n : order[i].key \in V /\ order[i].id = m[order[i].key]
  BY <1>3
<1>7. \A x, y \in S : x.key = y.key => x = y
  OBVIOUS
<1>8. \A i, j \in 1..n : order[i].key = order[j].key => i = j
  <2>. HIDE DEF S, n
  <2>. QED  BY <1>3, <1>7
<1>9. \A s \in S : \E i \in 1..n : order[i] = s
  <2>1. IsFiniteSet(1..n) /\ Cardinality(1..n) = n
    BY <1>2, FS_Interval
  <2>2. order \in Injection(1..n, S)
    <3>. HIDE DEF S, n
    <3>. QED  BY <1>3, Fun_IsInj
  <2>3. order \in Surjection(1..n, S)
    <3>. HIDE DEF S
    <3>. QED  BY <1>2, <2>1, <2>2, FS_Injection
  <2>. QED  BY <2>3 DEF Surjection
<1>10. DOMAIN order = 1..n
  BY <1>3
<1>11. ASSUME NEW k \in V PROVE \E i \in DOMAIN order : order[i].key = k
  <2>1. [key |-> k, id |-> m[k]] \in S
    OBVIOUS
  <2>. QED  BY <1>9, <1>10, <2>1
<1>. HIDE DEF S, n
<1>. QED  BY <1>5, <1>6, <1>8, <1>10, <1>11

LEMMA ListedFrom ==
  ASSUME NEW V, NEW m, NEW order \in SetToSeqs(Listed(V, m))
  PROVE  \A i \in DOMAIN order : order[i].key \in V /\ order[i].id = m[order[i].key]
<1>. DEFINE n == Cardinality(Listed(V, m))
<1>1. order \in [1..n -> Listed(V, m)]
  BY DEF SetToSeqs
<1>. HIDE DEF n
<1>. QED  BY <1>1 DEF Listed

LEMMA ListedOnce ==
  ASSUME NEW V, V \in SUBSET Keys, NEW m, m \in [Keys -> Nat],
         NEW order, order \in SetToSeqs(Listed(V, m)), NEW k
  PROVE  LostIn(order, k) = IF k \in V THEN 1 ELSE 0
<1>1. /\ \A i \in DOMAIN order : order[i].key \in V
      /\ \A i, j \in DOMAIN order : order[i].key = order[j].key => i = j
      /\ \A v \in V : \E i \in DOMAIN order : order[i].key = v
  BY ListedIs
<1>. DEFINE here == {i \in DOMAIN order : order[i].key = k}
<1>2. CASE k \in V
  <2>1. PICK i \in DOMAIN order : order[i].key = k
    BY <1>1, <1>2
  <2>2. here = {i}
    BY <1>1, <2>1
  <2>. QED  BY <1>2, <2>2, FS_Singleton DEF LostIn
<1>3. CASE k \notin V
  <2>1. here = {}
    BY <1>1, <1>3
  <2>. QED  BY <1>3, <2>1, FS_EmptySet DEF LostIn
<1>. QED  BY <1>2, <1>3

(* What is on the lists of all polls is a sum over the polls. *)
Losses(polls, k) == [p \in Polls |-> LostIn(polls[p].todo, k)]

LEMMA PendingIsSum == \A k \in Keys : Pending(k) = SumOf(Losses(poll, k), Polls)
<1>. SUFFICES ASSUME NEW k \in Keys
              PROVE  Pending(k) = SumOf(Losses(poll, k), Polls)
  OBVIOUS
<1>. DEFINE w == Losses(poll, k)
            Is(g) == g = [s \in SUBSET Polls |->
                            IF s = {} THEN 0 ELSE LostBy(Pick(s), k) + g[s \ {Pick(s)}]]
            fold == CHOOSE g : Is(g)
<1>1. IsFiniteSet(Polls)
  BY IndexerAssumption
<1>2. ASSUME NEW g PROVE Is(g) <=> Adds(w, Polls, g)
  <2>1. ASSUME NEW s \in SUBSET Polls, s # {} PROVE LostBy(Pick(s), k) = w[Pick(s)]
    BY <2>1, PickIn DEF LostBy, LostIn, Losses
  <2>. HIDE DEF w
  <2>. QED  BY <2>1 DEF Adds
<1>3. Is(fold)
  <2>1. \E g : Is(g)
    BY <1>1, <1>2, AddsExists
  <2>. HIDE DEF Is
  <2>. QED  BY <2>1
<1>4. fold[Polls] = SumOf(w, Polls)
  <2>. HIDE DEF fold, Is, w
  <2>1. Adds(w, Polls, fold)
    BY <1>2, <1>3
  <2>. QED  BY <1>1, <2>1, AddsIsSum
<1>5. Pending(k) = fold[Polls]
  BY DEF Pending, MapThenSumSet, MapThenFoldSet, Pick
<1>. QED  BY <1>4, <1>5

LEMMA PendingNext == (\A k \in Keys : Pending(k) = SumOf(Losses(poll, k), Polls))'
BY PendingIsSum, PTL
-----------------------------------------------------------------------------
(* What the variables hold; only a poll that looks up closings has a list. *)

Txs == [kind: {"open", "margin", "close"}, id: Nat]
PollStates == [pc: {"idle", "listed", "closing"}, seen: [Keys -> Nat], todo: Seq(Entries)]

RecordType ==
  /\ born \in Nat
  /\ txs \in [Keys -> Seq(Txs)]
  /\ known \in [Keys -> Nat]
  /\ opens \in [Keys -> Nat] /\ closes \in [Keys -> Nat] /\ forgotten \in [Keys -> Nat]
  /\ poll \in [Polls -> PollStates]
  /\ \A p \in Polls : poll[p].pc = "closing" <=> poll[p].todo # <<>>

LEMMA NewestType ==
  ASSUME RecordType, NEW k \in Keys
  PROVE  /\ Len(txs[k]) \in Nat /\ DOMAIN txs[k] = 1..Len(txs[k])
         /\ txs[k] # <<>> => /\ Len(txs[k]) \in 1..Len(txs[k])
                             /\ NewestTx(k) = txs[k][Len(txs[k])]
                             /\ NewestTx(k) \in Txs
         /\ NewestTx(k).id \in Nat /\ OpenAt(k) \in Nat
         /\ OpenAt(k) # 0 => OpenAt(k) = NewestTx(k).id
<1>1. txs[k] \in Seq(Txs)
  BY DEF RecordType
<1>2. Len(txs[k]) \in Nat /\ DOMAIN txs[k] = 1..Len(txs[k])
  BY <1>1, LenProperties
<1>3. ASSUME txs[k] # <<>>
      PROVE  /\ Len(txs[k]) \in 1..Len(txs[k]) /\ NewestTx(k) = txs[k][Len(txs[k])]
             /\ NewestTx(k) \in Txs
  <2>1. Len(txs[k]) \in 1..Len(txs[k])
    BY <1>1, <1>2, <1>3, EmptySeq
  <2>2. txs[k][Len(txs[k])] \in Txs
    BY <1>1, <2>1, ElementOfSeq
  <2>. QED  BY <1>3, <2>1, <2>2 DEF NewestTx, Last
<1>4. NewestTx(k).id \in Nat
  <2>1. txs[k] = <<>> => NewestTx(k).id = 0
    BY DEF NewestTx, NoTx
  <2>2. txs[k] # <<>> => NewestTx(k).id \in Nat
    BY <1>3 DEF Txs
  <2>. QED  BY <2>1, <2>2
<1>. QED  BY <1>2, <1>3, <1>4 DEF OpenAt

LEMMA IdleType == Idle \in PollStates /\ Idle.todo = <<>> /\ Idle.pc = "idle"
<1>1. <<>> \in Seq(Entries)
  BY EmptySeq
<1>. QED  BY <1>1 DEF Idle, PollStates

(* A poll's new state is of its type. *)
LEMMA PollType ==
  ASSUME RecordType, NEW p \in Polls, NEW q \in PollStates,
         q.pc = "closing" <=> q.todo # <<>>, poll' = [poll EXCEPT ![p] = q]
  PROVE  /\ poll' \in [Polls -> PollStates]
         /\ \A r \in Polls : poll'[r].pc = "closing" <=> poll'[r].todo # <<>>
  BY DEF RecordType

LEMMA RecordTypeInit == Init => RecordType
<1>. SUFFICES ASSUME Init PROVE RecordType
  OBVIOUS
<1>1. <<>> \in Seq(Txs)
  BY EmptySeq
<1>. QED  BY <1>1, IdleType DEF Init, RecordType

LEMMA TransactType ==
  ASSUME RecordType, NEW k \in Keys, NEW kind \in {"open", "margin", "close"}, NEW id \in Nat,
         Transact(k, kind, id), born' \in Nat
  PROVE  RecordType'
<1>1. txs[k] \in Seq(Txs) /\ [kind |-> kind, id |-> id] \in Txs
  BY DEF RecordType, Txs
<1>2. Append(txs[k], [kind |-> kind, id |-> id]) \in Seq(Txs)
  BY <1>1
<1>3. txs' \in [Keys -> Seq(Txs)]
  BY <1>2 DEF Transact, RecordType
<1>. QED  BY <1>3 DEF Transact, RecordType, files

(* The outcome of an answered list, per address, and of the next lookup.   *)
LEMMA ArrivesIs ==
  ASSUME RecordType, NEW p \in Polls, ListArrives(p)
  PROVE  LET seen == poll[p].seen
         IN  /\ seen \in [Keys -> Nat] /\ poll[p].todo = <<>>
             /\ Vanished(seen) \in SUBSET Keys
             /\ \E order \in SetToSeqs(Listed(Vanished(seen), known)),
                   q \in PollStates :
                  /\ poll' = [poll EXCEPT ![p] = q]
                  /\ q.todo = order /\ (q.pc = "closing" <=> q.todo # <<>>)
                  /\ q.pc # "listed" /\ q.seen \in {poll[p].seen, Idle.seen}
<1>. DEFINE seen == poll[p].seen
<1>1. seen \in [Keys -> Nat] /\ poll[p] \in PollStates /\ poll[p].todo = <<>>
  BY DEF RecordType, PollStates, ListArrives
<1>2. Vanished(seen) \in SUBSET Keys
  BY DEF Vanished
<1>3. PICK order \in SetToSeqs(Listed(Vanished(seen), known)) :
        poll' = [poll EXCEPT ![p] = IF order = <<>> THEN Idle
                                    ELSE [poll[p] EXCEPT !.pc = "closing", !.todo = order]]
  BY DEF ListArrives, Listed
<1>4. order \in Seq(Entries)
  <2>1. known \in [Keys -> Nat]
    BY DEF RecordType
  <2>. QED  BY <1>2, <1>3, <2>1, ListedIs
<1>. DEFINE q == IF order = <<>> THEN Idle
                 ELSE [poll[p] EXCEPT !.pc = "closing", !.todo = order]
<1>5. /\ q \in PollStates /\ q.todo = order /\ (q.pc = "closing" <=> q.todo # <<>>)
      /\ q.pc # "listed" /\ q.seen \in {poll[p].seen, Idle.seen}
  BY <1>1, <1>4, IdleType DEF PollStates
<1>. QED  BY <1>1, <1>2, <1>3, <1>5

LEMMA NextClosingIs ==
  ASSUME RecordType, NEW p \in Polls, poll[p].pc = "closing", NextClosing(p)
  PROVE  /\ poll[p].todo \in Seq(Entries) /\ poll[p].todo # <<>>
         /\ \E q \in PollStates : /\ poll' = [poll EXCEPT ![p] = q]
                                  /\ q.todo = Tail(poll[p].todo)
                                  /\ q.pc = "closing" <=> q.todo # <<>>
                                  /\ q.pc # "listed"
                                  /\ q.seen \in {poll[p].seen, Idle.seen}
<1>. DEFINE rest == Tail(poll[p].todo)
            q == IF rest = <<>> THEN Idle ELSE [poll[p] EXCEPT !.todo = rest]
<1>1. poll[p].todo \in Seq(Entries) /\ poll[p].todo # <<>> /\ poll[p] \in PollStates
  BY DEF RecordType, PollStates
<1>2. rest \in Seq(Entries)
  BY <1>1, HeadTailProperties
<1>3. poll' = [poll EXCEPT ![p] = q]
  BY DEF NextClosing, RecordType
<1>. HIDE DEF rest
<1>4. /\ q \in PollStates /\ q.todo = rest /\ (q.pc = "closing" <=> q.todo # <<>>)
      /\ q.pc # "listed" /\ q.seen \in {poll[p].seen, Idle.seen}
  BY <1>1, <1>2, IdleType DEF PollStates
<1>. QED  BY <1>1, <1>3, <1>4 DEF rest

LEMMA RecordTypeNext ==
  ASSUME RecordType, [Next]_vars
  PROVE  RecordType'
<1>1. ASSUME NEW k \in Keys, OpenPosition(k) \/ MoveMargin(k) \/ ClosePosition(k)
      PROVE  RecordType'
  <2>1. born \in Nat /\ born + 1 \in Nat /\ OpenAt(k) \in Nat
    BY NewestType DEF RecordType
  <2>. QED  BY <1>1, <2>1, TransactType DEF OpenPosition, MoveMargin, ClosePosition
<1>2. ASSUME NEW p \in Polls, ListRead(p)
      PROVE  RecordType'
  <2>. DEFINE now == [k \in Keys |-> OpenAt(k)]
              q == [poll[p] EXCEPT !.pc = "listed", !.seen = now]
  <2>1. now \in [Keys -> Nat]
    BY NewestType
  <2>2. poll[p] \in PollStates /\ poll[p].todo = <<>>
    BY <1>2 DEF RecordType, ListRead
  <2>3. q \in PollStates /\ (q.pc = "closing" <=> q.todo # <<>>)
    <3>. HIDE DEF now
    <3>. QED  BY <2>1, <2>2 DEF PollStates
  <2>4. poll' = [poll EXCEPT ![p] = q]
    BY <1>2 DEF ListRead
  <2>5. /\ poll' \in [Polls -> PollStates]
        /\ \A r \in Polls : poll'[r].pc = "closing" <=> poll'[r].todo # <<>>
    <3>. HIDE DEF q
    <3>. QED  BY <2>3, <2>4, PollType
  <2>. QED  BY <1>2, <2>5 DEF ListRead, RecordType, chain, files
<1>3. ASSUME NEW p \in Polls, ListFails(p) \/ AppendOpenFails(p) \/ AppendCloseFails(p)
      PROVE  RecordType'
  <2>1. /\ poll' \in [Polls -> PollStates]
        /\ \A r \in Polls : poll'[r].pc = "closing" <=> poll'[r].todo # <<>>
    BY <1>3, IdleType, PollType DEF ListFails, AppendOpenFails, AppendCloseFails
  <2>2. opens' \in [Keys -> Nat]
    <3>1. CASE AppendOpenFails(p)
      BY <3>1 DEF RecordType, AppendOpenFails, AppendOpens
    <3>. QED  BY <1>3, <3>1 DEF RecordType, ListFails, AppendCloseFails, files
  <2>3. known' \in [Keys -> Nat]
    <3>1. poll[p].seen \in [Keys -> Nat]
      BY DEF RecordType, PollStates
    <3>. QED  BY <1>3, <3>1 DEF RecordType, ListFails, AppendOpenFails, AppendCloseFails
  <2>4. forgotten' \in [Keys -> Nat]
    <3>1. ASSUME NEW k \in Keys PROVE LostBy(p, k) \in Nat
      <4>1. poll[p].todo \in Seq(Entries) /\ LostBy(p, k) = LostIn(poll[p].todo, k)
        BY DEF RecordType, PollStates, LostBy, LostIn
      <4>. QED  BY <4>1, LostType
    <3>2. forgotten \in [Keys -> Nat]
      BY DEF RecordType
    <3>3. CASE AppendCloseFails(p)
      <4>1. forgotten' = [k \in Keys |-> forgotten[k] + LostBy(p, k)]
        BY <3>3 DEF AppendCloseFails
      <4>2. \A k \in Keys : forgotten[k] + LostBy(p, k) \in Nat
        BY <3>1, <3>2
      <4>. QED  BY <4>1, <4>2
    <3>4. CASE ListFails(p) \/ AppendOpenFails(p)
      BY <3>2, <3>4 DEF ListFails, AppendOpenFails
    <3>. QED  BY <1>3, <3>3, <3>4
  <2>. QED
    BY <1>3, <2>1, <2>2, <2>3, <2>4
       DEF RecordType, ListFails, AppendOpenFails, AppendCloseFails, chain, files
<1>4. ASSUME NEW p \in Polls, ListArrives(p)
      PROVE  RecordType'
  <2>1. /\ poll' \in [Polls -> PollStates]
        /\ \A r \in Polls : poll'[r].pc = "closing" <=> poll'[r].todo # <<>>
    BY <1>4, ArrivesIs, PollType
  <2>2. opens' \in [Keys -> Nat]
    BY <1>4 DEF RecordType, ListArrives, AppendOpens
  <2>3. known' \in [Keys -> Nat]
    BY <1>4, ArrivesIs DEF ListArrives, Remembered
  <2>. QED  BY <1>4, <2>1, <2>2, <2>3 DEF RecordType, ListArrives, chain
<1>5. ASSUME NEW p \in Polls, NEW econ, AppendClose(p, econ)
      PROVE  RecordType'
  <2>1. /\ poll' \in [Polls -> PollStates]
        /\ \A r \in Polls : poll'[r].pc = "closing" <=> poll'[r].todo # <<>>
    BY <1>5, NextClosingIs, PollType DEF AppendClose
  <2>2. closes' \in [Keys -> Nat]
    <3>1. \A k \in Keys : closes[k] + 1 \in Nat
      BY DEF RecordType
    <3>. QED  BY <1>5, <3>1 DEF AppendClose, RecordType
  <2>. QED  BY <1>5, <2>1, <2>2 DEF RecordType, AppendClose, chain
<1>6. ASSUME Restart
      PROVE  RecordType'
  <2>1. ASSUME NEW k \in Keys PROVE Pending(k) \in Nat
    <3>1. \A p \in Polls : Losses(poll, k)[p] \in Nat
      BY LostType DEF RecordType, PollStates, Losses
    <3>. QED  BY <3>1, IndexerAssumption, PendingIsSum, SumType
  <2>2. forgotten' \in [Keys -> Nat]
    BY <1>6, <2>1 DEF Restart, RecordType
  <2>3. /\ poll' \in [Polls -> PollStates]
        /\ \A r \in Polls : poll'[r].pc = "closing" <=> poll'[r].todo # <<>>
    BY <1>6, IdleType DEF Restart
  <2>. QED  BY <1>6, <2>2, <2>3 DEF Restart, RecordType, chain, files
<1>7. CASE UNCHANGED vars
  BY <1>7 DEF RecordType, vars, chain, files
<1>. QED  BY <1>1, <1>2, <1>3, <1>4, <1>5, <1>6, <1>7
          DEF Next, ChainSteps, PollSteps, Faults, CloseDerived, CloseUnderived
-----------------------------------------------------------------------------
(* Every opening is accounted for.                                         *)

LEMMA PendingType ==
  ASSUME RecordType, NEW k \in Keys
  PROVE  Pending(k) \in Nat
<1>1. ASSUME NEW p \in Polls PROVE Losses(poll, k)[p] \in Nat
  <2>1. poll[p].todo \in Seq(Entries)
    BY DEF RecordType, PollStates
  <2>. QED  BY <2>1, LostType DEF Losses
<1>. QED  BY <1>1, IndexerAssumption, PendingIsSum, SumType

(* One poll changes its list: what is pending changes by that. *)
LEMMA PendingMoves ==
  ASSUME RecordType, NEW p \in Polls, NEW q \in PollStates, poll' = [poll EXCEPT ![p] = q],
         NEW k \in Keys
  PROVE  Pending(k)' = Pending(k) - LostIn(poll[p].todo, k) + LostIn(q.todo, k)
<1>. DEFINE w == Losses(poll, k)
            v == Losses(poll', k)
<1>1. poll'[p] = q /\ \A r \in Polls \ {p} : poll'[r] = poll[r]
  BY DEF RecordType
<1>2. \A r \in Polls : poll[r].todo \in Seq(Entries) /\ poll'[r].todo \in Seq(Entries)
  BY <1>1 DEF RecordType, PollStates
<1>3. ASSUME NEW r \in Polls PROVE w[r] \in Int /\ v[r] \in Int
  <2>1. LostIn(poll[r].todo, k) \in Nat /\ LostIn(poll'[r].todo, k) \in Nat
    BY <1>2, LostType
  <2>. QED  BY <2>1 DEF Losses
<1>4. /\ \A r \in Polls \ {p} : v[r] = w[r]
      /\ w[p] = LostIn(poll[p].todo, k) /\ v[p] = LostIn(q.todo, k)
  BY <1>1 DEF Losses
<1>5. IsFiniteSet(Polls)
  BY IndexerAssumption
<1>6. SumOf(v, Polls) = SumOf(w, Polls) - w[p] + v[p]
  <2>1. /\ \A r \in Polls : w[r] \in Int /\ v[r] \in Int
        /\ \A r \in Polls \ {p} : v[r] = w[r]
    BY <1>3, <1>4
  <2>. HIDE DEF v, w
  <2>. QED  BY ONLY <1>5, <2>1, p \in Polls, SumUpdate
<1>7. Pending(k)' = SumOf(v, Polls)
  BY PendingNext DEF Losses
<1>8. Pending(k) = SumOf(w, Polls)
  BY PendingIsSum
<1>. HIDE DEF v, w
<1>. QED  BY <1>4, <1>6, <1>7, <1>8

(* A poll that had and has nothing to look up changes nothing. *)
LEMMA PendingStays ==
  ASSUME RecordType, NEW p \in Polls, NEW q \in PollStates, poll' = [poll EXCEPT ![p] = q],
         poll[p].todo = <<>>, q.todo = <<>>
  PROVE  \A k \in Keys : Pending(k)' = Pending(k)
<1>1. ASSUME NEW k \in Keys PROVE Pending(k)' = Pending(k)
  <2>1. LostIn(poll[p].todo, k) = 0 /\ LostIn(q.todo, k) = 0
    BY LostEmpty
  <2>2. Pending(k)' = Pending(k) - LostIn(poll[p].todo, k) + LostIn(q.todo, k)
    BY PendingMoves
  <2>. QED  BY <2>1, <2>2, PendingType
<1>. QED  BY <1>1

(* After a restart no poll is under way. *)
LEMMA PendingCleared ==
  ASSUME poll' = [p \in Polls |-> Idle], NEW k \in Keys
  PROVE  Pending(k)' = 0
<1>. DEFINE v == Losses(poll', k)
<1>1. \A p \in Polls : v[p] \in 0..0
  BY IdleType, LostEmpty DEF Losses
<1>2. 0 * Cardinality(Polls) <= SumOf(v, Polls) /\ SumOf(v, Polls) <= 0 * Cardinality(Polls)
  <2>. HIDE DEF v
  <2>. QED  BY <1>1, IndexerAssumption, SumBetween
<1>3. Cardinality(Polls) \in Nat
  BY IndexerAssumption, FS_CardinalityType
<1>4. SumOf(v, Polls) \in Int
  <2>1. \A p \in Polls : v[p] \in Int
    BY <1>1
  <2>. HIDE DEF v
  <2>. QED  BY <2>1, IndexerAssumption, SumType
<1>5. Pending(k)' = SumOf(v, Polls)
  BY PendingNext DEF Losses
<1>. HIDE DEF v
<1>. QED  BY <1>2, <1>3, <1>4, <1>5

Held(k) == IF known[k] # 0 THEN 1 ELSE 0

(* A step changes both sides of the account of an address alike. *)
LEMMA AccountNext ==
  ASSUME RecordType, OpeningsAccountedFor, [Next]_vars
  PROVE  OpeningsAccountedFor'
<1>. DEFINE Accounted(k) == opens[k] = closes[k] + Pending(k) + forgotten[k] + Held(k)
            Goal == \A k \in Keys : Accounted(k)'
<1>a. ASSUME NEW k \in Keys
      PROVE  /\ opens[k] \in Nat /\ closes[k] \in Nat /\ Pending(k) \in Nat
             /\ forgotten[k] \in Nat /\ Held(k) \in {0, 1} /\ Accounted(k)
  BY PendingType DEF RecordType, OpeningsAccountedFor, Held
<1>b. SUFFICES Goal
  BY DEF OpeningsAccountedFor, Held
<1>1. ASSUME UNCHANGED <<poll, opens, closes, forgotten, known>>
      PROVE  Goal
  <2>1. \A k \in Keys : Pending(k)' = Pending(k)
    BY <1>1, PendingIsSum, PendingNext DEF Losses
  <2>. QED  BY <1>1, <1>a, <2>1 DEF Held
<1>2. ASSUME NEW p \in Polls, ListRead(p) \/ ListFails(p)
      PROVE  Goal
  <2>1. poll[p] \in PollStates /\ poll[p].todo = <<>>
    BY <1>2 DEF RecordType, ListRead, ListFails
  <2>2. \E q \in PollStates : q.todo = <<>> /\ poll' = [poll EXCEPT ![p] = q]
    <3>1. CASE ListRead(p)
      <4>. DEFINE now == [k \in Keys |-> OpenAt(k)]
                  q == [poll[p] EXCEPT !.pc = "listed", !.seen = now]
      <4>1. now \in [Keys -> Nat]
        BY NewestType
      <4>2. poll' = [poll EXCEPT ![p] = q]
        BY <3>1 DEF ListRead
      <4>3. q \in PollStates /\ q.todo = <<>>
        <5>. HIDE DEF now
        <5>. QED  BY <2>1, <4>1 DEF PollStates
      <4>. QED  BY <4>2, <4>3
    <3>2. CASE ListFails(p)
      BY <3>2, IdleType DEF ListFails
    <3>. QED  BY <1>2, <3>1, <3>2
  <2>3. \A k \in Keys : Pending(k)' = Pending(k)
    BY <2>1, <2>2, PendingStays
  <2>4. UNCHANGED <<opens, closes, forgotten, known>>
    BY <1>2 DEF ListRead, ListFails, files
  <2>. QED  BY <1>a, <2>3, <2>4 DEF Held
<1>3. ASSUME NEW p \in Polls, ListArrives(p)
      PROVE  Goal
  <2>. DEFINE seen == poll[p].seen
  <2>1. /\ seen \in [Keys -> Nat] /\ poll[p].todo = <<>>
        /\ Vanished(seen) \in SUBSET Keys
    BY <1>3, ArrivesIs
  <2>2. PICK order \in SetToSeqs(Listed(Vanished(seen), known)), q \in PollStates :
          poll' = [poll EXCEPT ![p] = q] /\ q.todo = order
    BY <1>3, ArrivesIs
  <2>3. ASSUME NEW k \in Keys
        PROVE  Pending(k)' = Pending(k) + IF known[k] # 0 /\ seen[k] = 0 THEN 1 ELSE 0
    <3>. DEFINE gone == Vanished(seen)
    <3>1. known \in [Keys -> Nat]
      BY DEF RecordType
    <3>2. LostIn(order, k) = IF k \in Vanished(seen) THEN 1 ELSE 0
      <4>1. gone \in SUBSET Keys /\ order \in SetToSeqs(Listed(gone, known))
        BY <2>1, <2>2
      <4>. HIDE DEF gone
      <4>2. \A i \in Keys : LostIn(order, i) = IF i \in gone THEN 1 ELSE 0
        BY <3>1, <4>1, ListedOnce
      <4>. QED  BY <4>2 DEF gone
    <3>3. Pending(k)' = Pending(k) - LostIn(poll[p].todo, k) + LostIn(q.todo, k)
      BY <2>2, PendingMoves
    <3>5. LostIn(poll[p].todo, k) = 0 /\ LostIn(q.todo, k) = LostIn(order, k)
      BY <2>1, <2>2, LostEmpty
    <3>4. k \in Vanished(seen) <=> known[k] # 0 /\ seen[k] = 0
      BY DEF Vanished
    <3>. QED  BY <1>a, <3>2, <3>3, <3>4, <3>5
  <2>4. ASSUME NEW k \in Keys
        PROVE  /\ opens'[k] = IF seen[k] # 0 /\ known[k] = 0 THEN opens[k] + 1 ELSE opens[k]
               /\ known'[k] = seen[k]
               /\ closes'[k] = closes[k] /\ forgotten'[k] = forgotten[k]
    BY <1>3 DEF ListArrives, AppendOpens, Remembered
  <2>. HIDE DEF seen
  <2>. QED  BY <1>a, <2>3, <2>4 DEF Held
<1>4. ASSUME NEW p \in Polls, AppendOpenFails(p)
      PROVE  Goal
  <2>. DEFINE seen == poll[p].seen
  <2>1. poll[p].todo = <<>>
    BY <1>4 DEF RecordType, AppendOpenFails
  <2>2. \A k \in Keys : Pending(k)' = Pending(k)
    BY <1>4, <2>1, IdleType, PendingStays DEF AppendOpenFails
  <2>3. PICK entered \in SUBSET {k \in Keys : seen[k] # 0} :
          /\ AppendOpens(entered)
          /\ known' = [k \in Keys |-> IF k \in entered THEN seen[k] ELSE known[k]]
    BY <1>4 DEF AppendOpenFails
  <2>4. ASSUME NEW k \in Keys
        PROVE  /\ opens'[k] = IF k \in entered /\ known[k] = 0 THEN opens[k] + 1 ELSE opens[k]
               /\ known'[k] = IF k \in entered THEN seen[k] ELSE known[k]
               /\ k \in entered => seen[k] # 0
               /\ closes'[k] = closes[k] /\ forgotten'[k] = forgotten[k]
    BY <1>4, <2>3 DEF AppendOpenFails, AppendOpens
  <2>. HIDE DEF seen
  <2>. QED  BY <1>a, <2>2, <2>4 DEF Held
<1>5. ASSUME NEW p \in Polls, NEW econ, AppendClose(p, econ)
      PROVE  Goal
  <2>. DEFINE todo == poll[p].todo
  <2>1. todo \in Seq(Entries) /\ todo # <<>> /\ poll[p].pc = "closing"
    BY <1>5, NextClosingIs DEF AppendClose
  <2>2. PICK q \in PollStates : poll' = [poll EXCEPT ![p] = q] /\ q.todo = Tail(todo)
    BY <1>5, NextClosingIs DEF AppendClose
  <2>3. Head(todo).key \in Keys
    BY <2>1, LostTail DEF Entries
  <2>4. ASSUME NEW k \in Keys
        PROVE  Pending(k)' = Pending(k) - IF Head(todo).key = k THEN 1 ELSE 0
    <3>1. Pending(k)' = Pending(k) - LostIn(todo, k) + LostIn(Tail(todo), k)
      BY <2>2, PendingMoves
    <3>2. LostIn(todo, k) = LostIn(Tail(todo), k) + IF Head(todo).key = k THEN 1 ELSE 0
      BY <2>1, LostTail
    <3>3. LostIn(Tail(todo), k) \in Nat
      BY <2>1, LostTail, LostType
    <3>. QED  BY <1>a, <3>1, <3>2, <3>3
  <2>5. ASSUME NEW k \in Keys
        PROVE  /\ closes'[k] = IF Head(todo).key = k THEN closes[k] + 1 ELSE closes[k]
               /\ opens'[k] = opens[k] /\ forgotten'[k] = forgotten[k] /\ known'[k] = known[k]
    BY <1>5, <2>3 DEF AppendClose, RecordType
  <2>6. ASSUME NEW k \in Keys PROVE Accounted(k)'
    <3>1. Held(k)' = Held(k)
      BY <2>5 DEF Held
    <3>2. CASE Head(todo).key = k
      <4>1. Pending(k)' = Pending(k) - 1 /\ closes'[k] = closes[k] + 1
        BY <2>4, <2>5, <3>2
      <4>. QED  BY <1>a, <2>5, <3>1, <4>1
    <3>3. CASE Head(todo).key # k
      <4>1. Pending(k)' = Pending(k) /\ closes'[k] = closes[k]
        BY <1>a, <2>4, <2>5, <3>3
      <4>. QED  BY <1>a, <2>5, <3>1, <4>1
    <3>. QED  BY <3>2, <3>3
  <2>. QED  BY <2>6
<1>6. ASSUME NEW p \in Polls, AppendCloseFails(p)
      PROVE  Goal
  <2>1. ASSUME NEW k \in Keys
        PROVE  /\ LostBy(p, k) \in Nat
               /\ Pending(k)' = Pending(k) - LostBy(p, k)
    <3>1. poll[p].todo \in Seq(Entries) /\ LostBy(p, k) = LostIn(poll[p].todo, k)
      BY DEF RecordType, PollStates, LostBy, LostIn
    <3>2. LostBy(p, k) \in Nat
      BY <3>1, LostType
    <3>3. poll' = [poll EXCEPT ![p] = Idle]
      BY <1>6 DEF AppendCloseFails
    <3>4. Pending(k)' = Pending(k) - LostIn(poll[p].todo, k) + LostIn(Idle.todo, k)
      BY <3>3, IdleType, PendingMoves
    <3>5. LostIn(Idle.todo, k) = 0
      BY IdleType, LostEmpty
    <3>. QED  BY <1>a, <3>1, <3>2, <3>4, <3>5
  <2>2. ASSUME NEW k \in Keys
        PROVE  /\ forgotten'[k] = forgotten[k] + LostBy(p, k)
               /\ opens'[k] = opens[k] /\ closes'[k] = closes[k] /\ known'[k] = known[k]
    BY <1>6 DEF AppendCloseFails, files
  <2>3. ASSUME NEW k \in Keys PROVE Accounted(k)'
    <3>1. Held(k)' = Held(k)
      BY <2>2 DEF Held
    <3>. QED  BY <1>a, <2>1, <2>2, <3>1
  <2>. QED  BY <2>3
<1>7. ASSUME Restart
      PROVE  Goal
  <2>1. ASSUME NEW k \in Keys
        PROVE  /\ Pending(k)' = 0 /\ known'[k] = 0
               /\ forgotten'[k] = forgotten[k] + Pending(k) + Held(k)
               /\ opens'[k] = opens[k] /\ closes'[k] = closes[k]
    BY <1>7, PendingCleared DEF Restart, files, Held
  <2>. QED  BY <1>a, <2>1 DEF Held
<1>8. CASE ChainSteps
  BY <1>1, <1>8 DEF ChainSteps, OpenPosition, MoveMargin, ClosePosition, Transact, files
<1>9. CASE UNCHANGED vars
  BY <1>1, <1>9 DEF vars, files
<1>. QED  BY <1>2, <1>3, <1>4, <1>5, <1>6, <1>7, <1>8, <1>9
          DEF Next, PollSteps, Faults, CloseDerived, CloseUnderived

LEMMA AccountInit == Init => OpeningsAccountedFor
<1>. SUFFICES ASSUME Init, NEW k \in Keys
              PROVE  opens[k] = closes[k] + Pending(k) + forgotten[k]
                                + IF known[k] # 0 THEN 1 ELSE 0
  BY DEF OpeningsAccountedFor
<1>. DEFINE w == Losses(poll, k)
<1>1. \A p \in Polls : w[p] \in 0..0
  BY IdleType, LostEmpty DEF Losses, Init
<1>2. 0 * Cardinality(Polls) <= SumOf(w, Polls) /\ SumOf(w, Polls) <= 0 * Cardinality(Polls)
  <2>. HIDE DEF w
  <2>. QED  BY <1>1, IndexerAssumption, SumBetween
<1>3. Cardinality(Polls) \in Nat /\ Pending(k) \in Nat
  BY IndexerAssumption, FS_CardinalityType, RecordTypeInit, PendingType
<1>4. Pending(k) = SumOf(w, Polls)
  BY PendingIsSum
<1>. HIDE DEF w
<1>5. Pending(k) = 0
  BY <1>2, <1>3, <1>4
<1>. QED  BY <1>5 DEF Init

(* Completeness of the record, with any number of polls that overlap, fail *)
(* or arrive late and any restarts (pollPositions): every opening has its  *)
(* closing in the file, on one list, in memory, or among those a failure   *)
(* took from memory, and no closing is recorded twice.                     *)
THEOREM RecordComplete == Spec => []OpeningsAccountedFor
<1>1. RecordType /\ OpeningsAccountedFor /\ [Next]_vars
        => RecordType' /\ OpeningsAccountedFor'
  BY RecordTypeNext, AccountNext
<1>. QED  BY RecordTypeInit, AccountInit, <1>1, PTL DEF Spec
-----------------------------------------------------------------------------
(* Economics.  A position that a poll misses is closed for good: its       *)
(* closing is the newest transaction of its address, or the address was    *)
(* used again.  As long as polls do not overlap, that is still so when the *)
(* poll looks the closing up.                                              *)

UsedAgain(k, id) == \E i \in DOMAIN txs[k] : txs[k][i].id > id
Closed(k, id) == UsedAgain(k, id) \/ NewestTx(k) = [kind |-> "close", id |-> id]

Numbered ==
  \A k \in Keys :
    /\ \A i \in DOMAIN txs[k] : txs[k][i].id \in 1..born
    /\ known[k] <= NewestTx(k).id
    /\ \A p \in Polls : poll[p].seen[k] <= NewestTx(k).id

Addressed == \A r \in booked : r.key \in Keys

Alone == \A p, q \in Polls : p # q => poll[p].pc = "idle" \/ poll[q].pc = "idle"

MissedAreClosed ==
  /\ \A p \in Polls, k \in Keys :
       poll[p].pc = "listed" /\ known[k] # 0 /\ poll[p].seen[k] = 0 => Closed(k, known[k])
  /\ \A p \in Polls : \A i \in DOMAIN poll[p].todo :
       Closed(poll[p].todo[i].key, poll[p].todo[i].id)

Derivable ==
  /\ Numbered /\ Addressed /\ EconomicsAreOfTheClose
  /\ overlapped \/ (Alone /\ MissedAreClosed)

(* One transaction more on an address. *)
LEMMA TransactIs ==
  ASSUME RecordType, NEW k \in Keys, NEW kind, NEW id, Transact(k, kind, id)
  PROVE  /\ \A j \in Keys \ {k} : txs'[j] = txs[j]
         /\ NewestTx(k)' = [kind |-> kind, id |-> id]
         /\ DOMAIN txs'[k] = 1..(Len(txs[k]) + 1)
         /\ \A i \in DOMAIN txs[k] : i \in DOMAIN txs'[k] /\ txs'[k][i] = txs[k][i]
         /\ \A i \in DOMAIN txs'[k] : i \notin DOMAIN txs[k] =>
              txs'[k][i] = [kind |-> kind, id |-> id]
<1>. DEFINE new == [kind |-> kind, id |-> id]
<1>1. txs[k] \in Seq(Txs) /\ Len(txs[k]) \in Nat /\ DOMAIN txs[k] = 1..Len(txs[k])
  BY LenProperties DEF RecordType
<1>2. txs'[k] = Append(txs[k], new) /\ \A j \in Keys \ {k} : txs'[j] = txs[j]
  BY DEF Transact, RecordType
<1>. HIDE DEF new
<1>3. \A s \in Seq(Txs) : /\ Len(Append(s, new)) = Len(s) + 1
                          /\ DOMAIN Append(s, new) = 1..(Len(s) + 1)
                          /\ \A i \in 1..Len(s) : Append(s, new)[i] = s[i]
                          /\ Append(s, new)[Len(s) + 1] = new
                          /\ Append(s, new) # <<>>
  OBVIOUS
<1>4. /\ DOMAIN txs'[k] = 1..(Len(txs[k]) + 1) /\ Len(txs'[k]) = Len(txs[k]) + 1
      /\ \A i \in 1..Len(txs[k]) : txs'[k][i] = txs[k][i]
      /\ txs'[k][Len(txs[k]) + 1] = new /\ txs'[k] # <<>>
  BY <1>1, <1>2, <1>3
<1>5. NewestTx(k)' = new
  BY <1>4 DEF NewestTx, Last
<1>6. \A i \in DOMAIN txs[k] : i \in DOMAIN txs'[k] /\ txs'[k][i] = txs[k][i]
  BY <1>1, <1>4
<1>7. \A i \in DOMAIN txs'[k] : i \notin DOMAIN txs[k] => txs'[k][i] = new
  BY <1>1, <1>4
<1>. QED  BY <1>2, <1>4, <1>5, <1>6, <1>7 DEF new

LEMMA TransactNewest ==
  ASSUME RecordType, NEW k \in Keys, NEW kind, NEW id, NEW tx,
         Transact(k, kind, id), tx = [kind |-> kind, id |-> id]
  PROVE  NewestTx(k)' = tx
  BY TransactIs

(* The newest transaction is the highest-numbered one there is. *)
LEMMA NewestNumbered ==
  ASSUME RecordType, Numbered, NEW k \in Keys
  PROVE  /\ born \in Nat /\ NewestTx(k).id \in 0..born
         /\ txs[k] # <<>> => NewestTx(k).id # 0
         /\ \A id \in Nat : NewestTx(k).id > id => UsedAgain(k, id)
<1>1. CASE txs[k] = <<>>
  BY <1>1 DEF NewestTx, NoTx, RecordType
<1>2. CASE txs[k] # <<>>
  <2>1. Len(txs[k]) \in DOMAIN txs[k] /\ NewestTx(k) = txs[k][Len(txs[k])]
    BY <1>2, NewestType
  <2>2. NewestTx(k).id \in 1..born /\ born \in Nat
    BY <2>1 DEF Numbered, RecordType
  <2>. QED  BY <2>1, <2>2 DEF UsedAgain
<1>. QED  BY <1>1, <1>2

(* What the traders do keeps all of this. *)
LEMMA TradeKeeps ==
  ASSUME RecordType, Derivable, NEW k \in Keys,
         OpenPosition(k) \/ MoveMargin(k) \/ ClosePosition(k)
  PROVE  Derivable'
<1>. DEFINE new == NewestTx(k)'
<1>1. PICK kind, id : /\ Transact(k, kind, id)
                      /\ new = [kind |-> kind, id |-> id]
                      /\ \/ id = born + 1 /\ born' = born + 1
                         \/ id = NewestTx(k).id /\ NewestTx(k).kind # "close" /\ born' = born
                      /\ id \in 1..born'
  <2>1. CASE OpenPosition(k)
    <3>1. PICK id : id = born + 1 /\ Transact(k, "open", id)
      BY <2>1 DEF OpenPosition, Transact
    <3>2. born' = born + 1 /\ born \in Nat
      BY <2>1 DEF OpenPosition, RecordType
    <3>3. new = [kind |-> "open", id |-> id]
      <4>1. PICK tx : tx = [kind |-> "open", id |-> id]
        OBVIOUS
      <4>. QED  BY <3>1, <4>1, TransactNewest
    <3>. QED  BY <3>1, <3>2, <3>3
  <2>2. ASSUME NEW kind, NEW id, OpenAt(k) # 0, Transact(k, kind, id), id = OpenAt(k),
               born' = born
        PROVE  /\ new = [kind |-> kind, id |-> id]
               /\ id = NewestTx(k).id /\ NewestTx(k).kind # "close" /\ id \in 1..born'
    <3>1. OpenAt(k) = NewestTx(k).id /\ NewestTx(k).kind # "close"
      BY <2>2, NewestType DEF OpenAt
    <3>2. new = [kind |-> kind, id |-> id]
      <4>1. PICK tx : tx = [kind |-> kind, id |-> id]
        OBVIOUS
      <4>. QED  BY <2>2, <4>1, TransactNewest
    <3>3. OpenAt(k) \in 1..born'
      BY <2>2, <3>1, NewestNumbered DEF Derivable
    <3>. QED  BY <2>2, <3>1, <3>2, <3>3
  <2>3. CASE MoveMargin(k)
    <3>1. \E id : id = OpenAt(k) /\ Transact(k, "margin", id)
      BY <2>3 DEF MoveMargin, Transact
    <3>2. OpenAt(k) # 0 /\ born' = born
      BY <2>3 DEF MoveMargin
    <3>. QED  BY <2>2, <3>1, <3>2
  <2>4. CASE ClosePosition(k)
    <3>1. \E id : id = OpenAt(k) /\ Transact(k, "close", id)
      BY <2>4 DEF ClosePosition, Transact
    <3>2. OpenAt(k) # 0 /\ born' = born
      BY <2>4 DEF ClosePosition
    <3>. QED  BY <2>2, <3>1, <3>2
  <2>. QED  BY <2>1, <2>3, <2>4
<1>2. /\ \A j \in Keys \ {k} : txs'[j] = txs[j]
      /\ \A i \in DOMAIN txs[k] : i \in DOMAIN txs'[k] /\ txs'[k][i] = txs[k][i]
      /\ \A i \in DOMAIN txs'[k] : i \notin DOMAIN txs[k] => txs'[k][i] = new
      /\ DOMAIN txs'[k] = 1..(Len(txs[k]) + 1)
  BY <1>1, TransactIs
<1>3. UNCHANGED <<known, poll, booked, overlapped>>
  BY <1>1 DEF Transact, files
<1>4. \A j \in Keys \ {k} : NewestTx(j)' = NewestTx(j)
  BY <1>2 DEF NewestTx, NoTx, Last
<1>5. /\ born \in Nat /\ born' \in Nat /\ born <= born' /\ new.id = id
      /\ \A j \in Keys : NewestTx(j).id \in 0..born
      /\ \A j \in Keys : NewestTx(j)'.id \in Nat /\ NewestTx(j).id <= NewestTx(j)'.id
  <2>1. \A j \in Keys : NewestTx(j).id \in 0..born /\ born \in Nat
    BY NewestNumbered DEF Derivable
  <2>2. new.id = id /\ id \in Nat /\ born' \in Nat /\ born <= born'
    BY <1>1, <2>1
  <2>3. NewestTx(k).id <= id
    BY <1>1, <2>1
  <2>. QED  BY <1>4, <2>1, <2>2, <2>3
<1>6. ASSUME NEW j \in Keys, NEW n, UsedAgain(j, n)
      PROVE  UsedAgain(j, n)'
  BY <1>2, <1>6 DEF UsedAgain
<1>7. ASSUME NEW j \in Keys, NEW n \in Nat, Closed(j, n)
      PROVE  Closed(j, n)'
  <2>1. CASE UsedAgain(j, n)
    BY <1>6, <2>1 DEF Closed
  <2>2. CASE NewestTx(j) = [kind |-> "close", id |-> n] /\ j # k
    BY <1>4, <2>2 DEF Closed
  <2>3. CASE NewestTx(j) = [kind |-> "close", id |-> n] /\ j = k
    <3>1. new.id > n
      BY <1>1, <1>5, <2>3
    <3>2. Len(txs[k]) + 1 \in DOMAIN txs'[k] /\ Len(txs[k]) + 1 \notin DOMAIN txs[k]
      BY <1>2, NewestType
    <3>. QED  BY <1>2, <2>3, <3>1, <3>2 DEF Closed, UsedAgain
  <2>. QED  BY <1>7, <2>1, <2>2, <2>3 DEF Closed
<1>8. Numbered'
  <2>1. ASSUME NEW j \in Keys, NEW i \in DOMAIN txs'[j]
        PROVE  txs'[j][i].id \in 1..born'
    <3>1. \A n \in DOMAIN txs[j] : txs[j][n].id \in 1..born'
      BY <1>5 DEF Derivable, Numbered
    <3>. QED  BY <1>1, <1>2, <1>5, <2>1, <3>1
  <2>2. ASSUME NEW j \in Keys
        PROVE  /\ known[j] <= NewestTx(j)'.id
               /\ \A p \in Polls : poll[p].seen[j] <= NewestTx(j)'.id
    <3>1. \A a \in Nat : a <= NewestTx(j).id => a <= NewestTx(j)'.id
      BY <1>5
    <3>2. known[j] \in Nat /\ \A p \in Polls : poll[p].seen[j] \in Nat
      BY DEF RecordType, PollStates
    <3>. QED  BY <3>1, <3>2 DEF Derivable, Numbered
  <2>. QED  BY <1>3, <2>1, <2>2 DEF Numbered
<1>9. EconomicsAreOfTheClose'
  <2>1. ASSUME NEW r \in booked, ~overlapped
        PROVE  \/ r.econ \in {NoTx, [kind |-> "close", id |-> r.id]}
               \/ \E i \in DOMAIN txs'[r.key] : txs'[r.key][i].id > r.id
    <3>1. CASE \E i \in DOMAIN txs[r.key] : txs[r.key][i].id > r.id
      <4>1. r.key \in Keys
        BY DEF Derivable, Addressed
      <4>. QED  BY <1>2, <3>1, <4>1
    <3>. QED  BY <2>1, <3>1 DEF Derivable, EconomicsAreOfTheClose
  <2>. QED  BY <1>3, <2>1 DEF EconomicsAreOfTheClose
<1>10. MissedAreClosed => MissedAreClosed'
  <2>. SUFFICES ASSUME MissedAreClosed PROVE MissedAreClosed'
    OBVIOUS
  <2>1. ASSUME NEW p \in Polls, NEW j \in Keys,
               poll[p].pc = "listed", known[j] # 0, poll[p].seen[j] = 0
        PROVE  Closed(j, known[j])'
    <3>1. Closed(j, known[j]) /\ known[j] \in Nat
      BY <2>1 DEF MissedAreClosed, RecordType
    <3>. QED  BY <1>3, <1>7, <3>1
  <2>2. ASSUME NEW p \in Polls, NEW i \in DOMAIN poll[p].todo
        PROVE  Closed(poll[p].todo[i].key, poll[p].todo[i].id)'
    <3>1. poll[p].todo \in Seq(Entries)
      BY DEF RecordType, PollStates
    <3>2. poll[p].todo[i] \in Entries
      BY <2>2, <3>1, LenProperties, ElementOfSeq
    <3>3. Closed(poll[p].todo[i].key, poll[p].todo[i].id)
      BY DEF MissedAreClosed
    <3>. QED  BY <1>3, <1>7, <3>2, <3>3 DEF Entries
  <2>. QED  BY <1>3, <2>1, <2>2 DEF MissedAreClosed
<1>11. (Alone => Alone') /\ Addressed'
  BY <1>3 DEF Alone, Derivable, Addressed
<1>. QED  BY <1>3, <1>8, <1>9, <1>10, <1>11 DEF Derivable

(* What a poll does to a record whose chain stands still. *)
LEMMA StillChain ==
  ASSUME UNCHANGED txs
  PROVE  /\ \A k \in Keys : NewestTx(k)' = NewestTx(k)
         /\ \A k \in Keys, n \in Nat : Closed(k, n) => Closed(k, n)'
         /\ UNCHANGED <<booked, overlapped>> /\ EconomicsAreOfTheClose
              => EconomicsAreOfTheClose'
<1>1. ASSUME NEW k \in Keys PROVE NewestTx(k)' = NewestTx(k)
  BY DEF NewestTx, NoTx, Last
<1>2. ASSUME NEW k \in Keys, NEW n \in Nat, Closed(k, n) PROVE Closed(k, n)'
  BY <1>1, <1>2 DEF Closed, UsedAgain
<1>3. ASSUME UNCHANGED <<booked, overlapped>>, EconomicsAreOfTheClose
      PROVE  EconomicsAreOfTheClose'
  BY <1>3 DEF EconomicsAreOfTheClose, NoTx
<1>. QED  BY <1>1, <1>2, <1>3

LEMMA ListsType ==
  ASSUME RecordType, NEW p \in Polls, NEW i \in DOMAIN poll[p].todo
  PROVE  poll[p].todo[i].key \in Keys /\ poll[p].todo[i].id \in Nat
<1>1. poll[p].todo \in Seq(Entries)
  BY DEF RecordType, PollStates
<1>2. poll[p].todo[i] \in Entries
  BY <1>1, LenProperties, ElementOfSeq
<1>. QED  BY <1>2 DEF Entries

(* A step of a poll under way: as long as it is alone, only what is on its *)
(* own list matters.                                                       *)
LEMMA PollKeeps ==
  ASSUME RecordType, Derivable, NEW p \in Polls, NEW q \in PollStates,
         poll' = [poll EXCEPT ![p] = q], poll[p].pc # "idle", q.pc # "listed",
         UNCHANGED <<txs, born, overlapped>>,
         \A k \in Keys : known'[k] <= NewestTx(k).id,
         q.seen \in {poll[p].seen, Idle.seen},
         Addressed', EconomicsAreOfTheClose',
         overlapped \/ \A i \in DOMAIN q.todo : /\ q.todo[i].key \in Keys /\ q.todo[i].id \in Nat
                                                /\ Closed(q.todo[i].key, q.todo[i].id)
  PROVE  Derivable'
<1>1. poll'[p] = q /\ \A r \in Polls \ {p} : poll'[r] = poll[r]
  BY DEF RecordType
<1>2. Numbered'
  <2>1. ASSUME NEW k \in Keys, NEW r \in Polls
        PROVE  poll'[r].seen[k] <= NewestTx(k).id
    <3>1. NewestTx(k).id \in Nat /\ Idle.seen[k] = 0
      BY NewestType DEF Idle
    <3>2. CASE r = p
      BY <1>1, <3>1, <3>2 DEF Derivable, Numbered
    <3>3. CASE r # p
      BY <1>1, <3>3 DEF Derivable, Numbered
    <3>. QED  BY <3>2, <3>3
  <2>2. \A k \in Keys : \A i \in DOMAIN txs'[k] : txs'[k][i].id \in 1..born'
    BY DEF Derivable, Numbered
  <2>. QED  BY <2>1, <2>2, StillChain DEF Numbered
<1>3. CASE overlapped
  BY <1>2, <1>3 DEF Derivable
<1>4. CASE ~overlapped
  <2>1. \A r \in Polls \ {p} : poll[r].pc = "idle"
    BY <1>4 DEF Derivable, Alone
  <2>2. Alone'
    BY <1>1, <2>1 DEF Alone
  <2>3. ASSUME NEW r \in Polls PROVE poll'[r].pc # "listed"
    BY <1>1, <2>1
  <2>4. ASSUME NEW r \in Polls, NEW i \in DOMAIN poll'[r].todo, NEW key, NEW id,
               key = poll'[r].todo[i].key, id = poll'[r].todo[i].id
        PROVE  Closed(key, id)'
    <3>1. CASE r = p
      <4>1. poll'[r] = q
        BY <1>1, <3>1
      <4>2. key \in Keys /\ id \in Nat /\ Closed(key, id)
        BY <1>4, <2>4, <4>1
      <4>. QED  BY <4>2, StillChain
    <3>2. CASE r # p
      <4>1. poll'[r] = poll[r] /\ i \in DOMAIN poll[r].todo
        BY <1>1, <2>4, <3>2
      <4>2. key \in Keys /\ id \in Nat
        BY <2>4, <4>1, ListsType
      <4>3. Closed(key, id)
        BY <1>4, <2>4, <4>1 DEF Derivable, MissedAreClosed
      <4>. QED  BY <4>2, <4>3, StillChain
    <3>. QED  BY <3>1, <3>2
  <2>5. MissedAreClosed'
    <3>1. \A r \in Polls : \A i \in DOMAIN poll'[r].todo :
            Closed(poll[r].todo[i].key, poll[r].todo[i].id)'
      <4>1. ASSUME NEW r \in Polls, NEW i \in DOMAIN poll'[r].todo
            PROVE  Closed(poll[r].todo[i].key, poll[r].todo[i].id)'
        <5>1. PICK key, id : key = poll'[r].todo[i].key /\ id = poll'[r].todo[i].id
          OBVIOUS
        <5>2. Closed(key, id)'
          BY <2>4, <5>1
        <5>. QED  BY ONLY <5>1, <5>2 DEF Closed, UsedAgain, NewestTx, NoTx
      <4>. QED  BY <4>1
    <3>. QED  BY <2>3, <3>1 DEF MissedAreClosed
  <2>. QED  BY <1>2, <2>2, <2>5 DEF Derivable
<1>. QED  BY <1>3, <1>4

LEMMA DerivableInit == Init => Derivable
<1>. SUFFICES ASSUME Init PROVE Derivable
  OBVIOUS
<1>1. \A k \in Keys : txs[k] = <<>> /\ NewestTx(k) = NoTx /\ known[k] = 0
  BY DEF Init, NewestTx
<1>2. \A p \in Polls : poll[p] = Idle
  BY DEF Init
<1>3. Numbered
  BY <1>1, <1>2 DEF Numbered, NoTx, Idle
<1>4. Addressed /\ EconomicsAreOfTheClose
  BY DEF Init, Addressed, EconomicsAreOfTheClose
<1>5. Alone /\ MissedAreClosed
  BY <1>2, IdleType DEF Alone, MissedAreClosed
<1>. QED  BY <1>3, <1>4, <1>5 DEF Derivable

(* A poll reads the list: what it misses has been closed. *)
LEMMA ListReadKeeps ==
  ASSUME RecordType, Derivable, NEW p \in Polls, ListRead(p)
  PROVE  Derivable'
<1>. DEFINE now == [k \in Keys |-> OpenAt(k)]
<1>1. /\ poll'[p].pc = "listed" /\ poll'[p].seen = now /\ poll'[p].todo = poll[p].todo
      /\ \A r \in Polls \ {p} : poll'[r] = poll[r]
  BY DEF ListRead, RecordType, PollStates
<1>2. /\ UNCHANGED <<txs, born, known, booked>> /\ (overlapped => overlapped')
      /\ ~overlapped' => \A r \in Polls \ {p} : poll[r].pc = "idle"
  BY DEF ListRead, chain, files
<1>3. Numbered'
  <2>1. ASSUME NEW k \in Keys, NEW r \in Polls
        PROVE  poll'[r].seen[k] <= NewestTx(k).id
    <3>1. NewestTx(k).id \in Nat /\ now[k] = OpenAt(k) /\ OpenAt(k) <= NewestTx(k).id
      BY NewestType
    <3>2. CASE r = p
      <4>. HIDE DEF now
      <4>. QED  BY <1>1, <3>1, <3>2
    <3>3. CASE r # p
      BY <1>1, <3>3 DEF Derivable, Numbered
    <3>. QED  BY <3>2, <3>3
  <2>2. \A k \in Keys : /\ \A i \in DOMAIN txs'[k] : txs'[k][i].id \in 1..born'
                        /\ known'[k] <= NewestTx(k).id
    BY <1>2 DEF Derivable, Numbered
  <2>. QED  BY <1>2, <2>1, <2>2, StillChain DEF Numbered
<1>4. Addressed' /\ EconomicsAreOfTheClose'
  BY <1>2 DEF Derivable, Addressed, EconomicsAreOfTheClose, NoTx
<1>5. ASSUME ~overlapped' PROVE Alone' /\ MissedAreClosed'
  <2>1. Alone'
    BY <1>1, <1>2, <1>5 DEF Alone
  <2>2. ASSUME NEW k \in Keys, known[k] # 0, now[k] = 0
        PROVE  Closed(k, known[k])
    <3>1. /\ known[k] \in Nat /\ known[k] <= NewestTx(k).id /\ NewestTx(k).id \in Nat
          /\ OpenAt(k) = 0
      BY <2>2, NewestType DEF RecordType, Derivable, Numbered
    <3>2. NewestTx(k).id > known[k] => UsedAgain(k, known[k])
      BY <3>1, NewestNumbered DEF Derivable
    <3>3. NewestTx(k).kind = "close" /\ NewestTx(k) \in Txs
      <4>1. NewestTx(k).id # 0
        BY <2>2, <3>1
      <4>2. NewestTx(k) \in Txs
        BY <4>1, NewestType DEF NewestTx, NoTx
      <4>3. NewestTx(k).kind \in {"none", "close"}
        BY <3>1, <4>1 DEF OpenAt
      <4>. QED  BY <4>2, <4>3 DEF Txs
    <3>4. NewestTx(k) = [kind |-> "close", id |-> NewestTx(k).id]
      BY <3>3 DEF Txs
    <3>. QED  BY <3>1, <3>2, <3>4 DEF Closed
  <2>3. ASSUME NEW r \in Polls, NEW k \in Keys, NEW id,
               poll'[r].pc = "listed", known[k] # 0, poll'[r].seen[k] = 0, id = known[k]
        PROVE  Closed(k, id)'
    <3>1. Closed(k, id) /\ id \in Nat
      BY <1>1, <1>2, <1>5, <2>2, <2>3 DEF RecordType
    <3>. QED  BY <1>2, <3>1, StillChain
  <2>4. ASSUME NEW r \in Polls, NEW i \in DOMAIN poll'[r].todo, NEW key, NEW id,
               key = poll'[r].todo[i].key, id = poll'[r].todo[i].id
        PROVE  Closed(key, id)'
    <3>1. poll'[r].todo = poll[r].todo
      BY <1>1
    <3>2. Closed(key, id)
      BY <1>2, <1>5, <2>4, <3>1 DEF Derivable, MissedAreClosed
    <3>3. key \in Keys /\ id \in Nat
      BY <2>4, <3>1, ListsType
    <3>. QED  BY <1>2, <3>2, <3>3, StillChain
  <2>5. \A r \in Polls, k \in Keys :
          poll'[r].pc = "listed" /\ known[k] # 0 /\ poll'[r].seen[k] = 0
            => Closed(k, known[k])'
    BY <1>2, <2>3 DEF Closed, UsedAgain, NewestTx, NoTx
  <2>6. \A r \in Polls : \A i \in DOMAIN poll'[r].todo :
          Closed(poll[r].todo[i].key, poll[r].todo[i].id)'
    BY <2>4 DEF Closed, UsedAgain, NewestTx, NoTx
  <2>. QED  BY <1>2, <2>1, <2>5, <2>6 DEF MissedAreClosed
<1>. QED  BY <1>3, <1>4, <1>5 DEF Derivable

(* A poll that fails leaves nothing to be looked up. *)
LEMMA FailureKeeps ==
  ASSUME RecordType, Derivable, NEW p \in Polls,
         ListFails(p) \/ AppendOpenFails(p) \/ AppendCloseFails(p)
  PROVE  Derivable'
<1>. DEFINE seen == poll[p].seen
<1>1. /\ poll' = [poll EXCEPT ![p] = Idle] /\ poll[p].pc # "idle"
      /\ UNCHANGED <<txs, born, booked, overlapped>>
  BY DEF ListFails, AppendOpenFails, AppendCloseFails, chain, files
<1>2. \A k \in Keys : known'[k] \in {known[k], seen[k]}
  BY DEF ListFails, AppendOpenFails, AppendCloseFails, RecordType
<1>3. \A k \in Keys : known'[k] <= NewestTx(k).id
  BY <1>2 DEF Derivable, Numbered
<1>4. Addressed' /\ EconomicsAreOfTheClose'
  BY <1>1 DEF Derivable, Addressed, EconomicsAreOfTheClose, NoTx
<1>5. Idle \in PollStates /\ Idle.pc = "idle" /\ DOMAIN Idle.todo = {}
  BY IdleType
<1>. QED  BY <1>1, <1>3, <1>4, <1>5, PollKeeps

(* The answer to a list: what the poll goes on to look up has been closed. *)
LEMMA ArrivalKeeps ==
  ASSUME RecordType, Derivable, NEW p \in Polls, ListArrives(p)
  PROVE  Derivable'
<1>. DEFINE seen == poll[p].seen
<1>1. /\ seen \in [Keys -> Nat] /\ Vanished(seen) \in SUBSET Keys
      /\ poll[p].pc = "listed" /\ known' = seen
      /\ UNCHANGED <<txs, born, booked, overlapped>>
  BY ArrivesIs DEF ListArrives, Remembered, chain
<1>2. PICK order \in SetToSeqs(Listed(Vanished(seen), known)), q \in PollStates :
        /\ poll' = [poll EXCEPT ![p] = q] /\ q.todo = order
        /\ q.pc # "listed" /\ q.seen \in {poll[p].seen, Idle.seen}
  BY ArrivesIs
<1>3. \A i \in DOMAIN order : /\ order[i].key \in Vanished(seen)
                              /\ order[i].id = known[order[i].key]
  <2>. DEFINE gone == Vanished(seen)
  <2>1. known \in [Keys -> Nat] /\ gone \in SUBSET Keys /\ order \in SetToSeqs(Listed(gone, known))
    BY <1>1, <1>2 DEF RecordType
  <2>. HIDE DEF gone
  <2>2. \A i \in DOMAIN order : order[i].key \in gone /\ order[i].id = known[order[i].key]
    BY <2>1, ListedFrom
  <2>. QED  BY <2>2 DEF gone
<1>4. overlapped \/ \A i \in DOMAIN q.todo : /\ q.todo[i].key \in Keys /\ q.todo[i].id \in Nat
                                             /\ Closed(q.todo[i].key, q.todo[i].id)
  <2>1. ASSUME ~overlapped, NEW i \in DOMAIN order
        PROVE  /\ order[i].key \in Keys /\ order[i].id \in Nat
               /\ Closed(order[i].key, order[i].id)
    <3>1. /\ order[i].key \in Keys /\ known[order[i].key] # 0 /\ seen[order[i].key] = 0
          /\ order[i].id = known[order[i].key]
      BY <1>3 DEF Vanished
    <3>2. Closed(order[i].key, known[order[i].key])
      BY <1>1, <2>1, <3>1 DEF Derivable, MissedAreClosed
    <3>. QED  BY <3>1, <3>2 DEF RecordType
  <2>. QED  BY <1>2, <2>1
<1>5. \A k \in Keys : known'[k] <= NewestTx(k).id
  BY <1>1 DEF Derivable, Numbered
<1>6. Addressed' /\ EconomicsAreOfTheClose'
  BY <1>1 DEF Derivable, Addressed, EconomicsAreOfTheClose, NoTx
<1>. QED  BY <1>1, <1>2, <1>4, <1>5, <1>6, PollKeeps

(* A closing is recorded with what its lookup found. *)
LEMMA ClosingKeeps ==
  ASSUME RecordType, Derivable, NEW p \in Polls, CloseDerived(p) \/ CloseUnderived(p)
  PROVE  Derivable'
<1>. DEFINE todo == poll[p].todo
            last == Head(poll[p].todo)
<1>1. PICK econ : AppendClose(p, econ) /\ econ \in {NoTx, Economics(last.key)}
  BY DEF CloseDerived, CloseUnderived
<1>2. /\ poll[p].pc = "closing" /\ NextClosing(p)
      /\ booked' = booked \cup {[key |-> last.key, id |-> last.id, econ |-> econ]}
      /\ UNCHANGED <<txs, born, known, overlapped>>
  BY <1>1 DEF AppendClose, chain
<1>3. todo \in Seq(Entries) /\ todo # <<>>
  BY <1>2, NextClosingIs
<1>4. PICK q \in PollStates : /\ poll' = [poll EXCEPT ![p] = q] /\ q.todo = Tail(todo)
                             /\ q.pc # "listed" /\ q.seen \in {poll[p].seen, Idle.seen}
  BY <1>2, NextClosingIs
<1>5. /\ 1 \in DOMAIN todo /\ last = todo[1]
      /\ \A i \in DOMAIN Tail(todo) : i + 1 \in DOMAIN todo /\ Tail(todo)[i] = todo[i + 1]
      /\ last.key \in Keys /\ last.id \in Nat
  BY <1>3, HeadTailProperties, LenProperties, EmptySeq, ListsType
<1>6. overlapped \/ \A i \in DOMAIN q.todo : /\ q.todo[i].key \in Keys /\ q.todo[i].id \in Nat
                                             /\ Closed(q.todo[i].key, q.todo[i].id)
  <2>1. ASSUME ~overlapped, NEW i \in DOMAIN todo
        PROVE  /\ todo[i].key \in Keys /\ todo[i].id \in Nat
               /\ Closed(todo[i].key, todo[i].id)
    BY <2>1, ListsType DEF Derivable, MissedAreClosed
  <2>. QED  BY <1>4, <1>5, <2>1
<1>7. Addressed'
  BY <1>2, <1>5 DEF Derivable, Addressed
<1>8. EconomicsAreOfTheClose'
  <2>1. ASSUME ~overlapped
        PROVE  econ \in {NoTx, [kind |-> "close", id |-> last.id]} \/ UsedAgain(last.key, last.id)
    <3>1. UsedAgain(last.key, last.id) \/ NewestTx(last.key) = [kind |-> "close", id |-> last.id]
      BY <1>5, <2>1 DEF Derivable, MissedAreClosed, Closed
    <3>. QED  BY <1>1, <3>1 DEF Economics
  <2>2. ASSUME NEW r \in booked', ~overlapped
        PROVE  \/ r.econ \in {NoTx, [kind |-> "close", id |-> r.id]}
               \/ \E i \in DOMAIN txs[r.key] : txs[r.key][i].id > r.id
    <3>1. CASE r \in booked
      BY <2>2, <3>1 DEF Derivable, EconomicsAreOfTheClose
    <3>2. CASE r = [key |-> last.key, id |-> last.id, econ |-> econ]
      BY <2>1, <2>2, <3>2 DEF UsedAgain
    <3>. QED  BY <1>2, <3>1, <3>2
  <2>. QED  BY <1>2, <2>2 DEF EconomicsAreOfTheClose, NoTx
<1>9. \A k \in Keys : known'[k] <= NewestTx(k).id
  BY <1>2 DEF Derivable, Numbered
<1>10. poll[p].pc # "idle" /\ UNCHANGED <<txs, born, overlapped>>
  BY <1>2
<1>. QED  BY <1>4, <1>6, <1>7, <1>8, <1>9, <1>10, PollKeeps

LEMMA RestartKeeps ==
  ASSUME RecordType, Derivable, Restart
  PROVE  Derivable'
<1>1. /\ \A k \in Keys : known'[k] = 0
      /\ \A p \in Polls : poll'[p] = Idle
      /\ UNCHANGED <<txs, born, booked, overlapped>>
  BY DEF Restart, chain, files
<1>2. Numbered'
  <2>1. \A k \in Keys, p \in Polls : poll'[p].seen[k] = 0
    BY <1>1 DEF Idle
  <2>2. \A k \in Keys : NewestTx(k).id \in Nat
    BY NewestType
  <2>3. \A k \in Keys : \A i \in DOMAIN txs'[k] : txs'[k][i].id \in 1..born'
    BY <1>1 DEF Derivable, Numbered
  <2>. QED  BY <1>1, <2>1, <2>2, <2>3, StillChain DEF Numbered
<1>3. Addressed' /\ EconomicsAreOfTheClose'
  BY <1>1 DEF Derivable, Addressed, EconomicsAreOfTheClose, NoTx
<1>4. Alone' /\ MissedAreClosed'
  BY <1>1, IdleType DEF Alone, MissedAreClosed
<1>. QED  BY <1>2, <1>3, <1>4 DEF Derivable

LEMMA DerivableNext ==
  ASSUME RecordType, Derivable, [Next]_vars
  PROVE  Derivable'
<1>1. CASE ChainSteps
  BY <1>1, TradeKeeps DEF ChainSteps
<1>2. CASE \E p \in Polls : PollSteps(p)
  BY <1>2, ListReadKeeps, FailureKeeps, ArrivalKeeps, ClosingKeeps DEF PollSteps
<1>3. CASE Faults
  BY <1>3, FailureKeeps, RestartKeeps DEF Faults
<1>4. CASE UNCHANGED vars
  BY <1>4 DEF vars, chain, files, Derivable, Numbered, Addressed, EconomicsAreOfTheClose,
              Alone, MissedAreClosed, Closed, UsedAgain, NewestTx, NoTx
<1>. QED  BY <1>1, <1>2, <1>3, <1>4 DEF Next

(* The economics in a closing's line are those of the transaction that     *)
(* closed the position it names (deriveClose), for any polls and restarts  *)
(* as long as polls have not overlapped and the address was not used again *)
(* before the lookup.                                                      *)
THEOREM EconomicsCorrect == Spec => []EconomicsAreOfTheClose
<1>1. RecordType /\ Derivable /\ [Next]_vars => RecordType' /\ Derivable'
  BY RecordTypeNext, DerivableNext
<1>2. Derivable => EconomicsAreOfTheClose
  BY DEF Derivable
<1>. QED  BY RecordTypeInit, DerivableInit, <1>1, <1>2, PTL DEF Spec
=============================================================================
