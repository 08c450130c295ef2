---------------------------- MODULE Crank_proofs -----------------------------
(***************************************************************************)
(* What holds of a publisher's crank for any sources, constituents and     *)
(* windows, and whatever fails, is repeated or is lost: what it remembers  *)
(* of the sources, and where its fresh prices lie.                         *)
(***************************************************************************)
EXTENDS Crank, Oracle_proofs

-----------------------------------------------------------------------------
(* Freshness.  The record of a constituent never names a later day than    *)
(* the last one a source answered for, neither in memory nor in the file,  *)
(* and no source has answered for a day later than the cycle's.            *)

Timed == clock \in Nat /\ clock >= DAY

Records ==
  /\ DOMAIN how = Constituents
  /\ fresh \in [Constituents -> Nat]
  /\ file.fresh \in [Constituents -> Nat]
  /\ seen \in [Constituents -> Nat]
  /\ target \in Nat

SeenBefore(day) == \A c \in Constituents : seen[c] <= day

NoneFresher ==
  /\ \A c \in Constituents : fresh[c] <= seen[c] /\ file.fresh[c] <= seen[c]
  /\ SeenBefore(Today - 1)
  /\ pc = "pricing" => target <= Today - 1 /\ SeenBefore(target)

Remembered == Timed /\ Records /\ NoneFresher /\ NeverFresherThanSeen

(* The oracle's clock does not run backwards, whoever acts on it. *)
LEMMA TodayNext ==
  ASSUME Timed, clock' = clock \/ \E d \in Durations : Elapse(d)
  PROVE  Timed' /\ Today \in Nat \ {0} /\ Today' \in Nat /\ Today <= Today'
<1>1. clock' \in Nat /\ clock <= clock' /\ DAY \in Nat \ {0} /\ clock \in Nat
  BY OracleAssumption DEF Timed, Elapse
<1>2. \A later \in Nat : clock <= later =>
        clock \div DAY \in Nat /\ clock \div DAY <= later \div DAY
  BY <1>1, DivMonotone
<1>3. \A later \in Nat : later \div DAY \in Nat
  BY <1>1
<1>4. Today \in Nat \ {0}
  BY TodayPositive DEF Timed, TodayType
<1>5. clock' >= DAY
  BY <1>1 DEF Timed
<1>. QED  BY <1>1, <1>2, <1>3, <1>4, <1>5 DEF Today, Timed

(* What a step of the crank leaves alone or moves of all this. *)
LEMMA ClockOfCrank ==
  ASSUME [CrankNext]_crankvars
  PROVE  \/ clock' = clock
         \/ (\E d \in Durations : Elapse(d)) /\ UNCHANGED process
<1>1. CASE CrankSteps
  BY <1>1 DEF CrankSteps, Start, LookSteps, LookFinds, LookFindsNothing, LookFails, BeginCycle,
              RegistryFails, PriceSteps, PricedFresh, PricedByQuote, PricedStale, Priced,
              SubmitLands, submit_price_update, SubmitFails, IndexIsOnTarget, IndexIsElsewhere,
              IndexReadFails, IndexReadAs, AggregateLands, aggregate_day, AggregateFails,
              Saves, SaveFails, vars
<1>2. CASE Dies
  BY <1>2 DEF Dies, vars
<1>3. CASE Next /\ UNCHANGED process
  <2>1. \/ clock' = clock
        \/ \E d \in Durations : Elapse(d)
    <3>1. CASE \E p \in Publishers : register_publisher(p) \/ activate_publisher(p)
      BY <3>1 DEF register_publisher, activate_publisher
    <3>. QED
      BY <1>3, Instructions, <3>1
         DEF submit_price_update, open_challenge, challenge_succeeds, challenge_fails,
             slash_for_liveness, AnyNext
  <2>. QED  BY <1>3, <2>1
<1>4. CASE UNCHANGED crankvars
  BY <1>4 DEF crankvars, vars
<1>. QED  BY <1>1, <1>2, <1>3, <1>4 DEF CrankNext

LEMMA RememberedInit == Init /\ CrankInit => Remembered
<1>. SUFFICES ASSUME Init, CrankInit PROVE Remembered
  OBVIOUS
<1>1. Timed
  BY OracleAssumption DEF Init, Timed
<1>2. Today \in Nat \ {0}
  BY <1>1, TodayPositive DEF Timed, TodayType
<1>3. Records
  BY DEF CrankInit, Records, Blank, Unknown
<1>4. \A c \in Constituents : how[c].from = "nothing" /\ fresh[c] = 0
                              /\ file.fresh[c] = 0 /\ seen[c] = 0
  BY DEF CrankInit, Blank, Unknown
<1>5. pc = "down"
  BY DEF CrankInit
<1>6. NoneFresher
  BY <1>2, <1>4, <1>5 DEF NoneFresher, SeenBefore
<1>. QED  BY <1>1, <1>3, <1>4, <1>6 DEF Remembered, NeverFresherThanSeen

(* A step that prices nothing: the record is kept, read from the file or   *)
(* given up, and a cycle goes on, begins or ends.                          *)
LEMMA NothingPriced ==
  ASSUME Timed, Records, NoneFresher, NeverFresherThanSeen,
         clock' = clock, seen' = seen,
         fresh' \in {fresh, file.fresh, Blank},
         file'.fresh \in {fresh, file.fresh, Blank},
         \/ UNCHANGED <<target, how>> /\ (pc' = "pricing" => pc = "pricing")
         \/ target' = 0 /\ how' = Unknown /\ pc' # "pricing"
         \/ target' = Today - 1 /\ how' = Unknown
  PROVE  Records' /\ NoneFresher' /\ NeverFresherThanSeen'
<1>1. Today \in Nat \ {0} /\ Today' = Today
  BY TodayPositive DEF Timed, TodayType, Today
<1>2. \A c \in Constituents : Blank[c] = 0 /\ Unknown[c].from = "nothing"
  BY DEF Blank, Unknown
<1>3. Blank \in [Constituents -> Nat] /\ DOMAIN Unknown = Constituents
  BY DEF Blank, Unknown
<1>4. Records'
  BY <1>1, <1>3 DEF Records
<1>5. \A c \in Constituents : fresh'[c] <= seen'[c] /\ file'.fresh[c] <= seen'[c]
  BY <1>2 DEF Records, NoneFresher
<1>6. SeenBefore(Today - 1)'
  BY <1>1 DEF SeenBefore, NoneFresher
<1>7. pc' = "pricing" => target' <= Today' - 1 /\ SeenBefore(target)'
  BY <1>1 DEF SeenBefore, NoneFresher, Records
<1>8. NeverFresherThanSeen'
  BY <1>2 DEF NeverFresherThanSeen
<1>. QED  BY <1>4, <1>5, <1>6, <1>7, <1>8 DEF NoneFresher

(* A source answers: the constituent is fresh as of the cycle's day. *)
LEMMA AnsweredIsFresh ==
  ASSUME Timed, Records, NoneFresher, NeverFresherThanSeen, pc = "pricing",
         NEW c \in Constituents, NEW price, NEW from, from.from # "decay",
         Priced(c, price, from), Fresh(c)
  PROVE  Records' /\ NoneFresher' /\ NeverFresherThanSeen'
<1>1. Today \in Nat \ {0} /\ Today' = Today /\ target' = target /\ file' = file
  BY TodayPositive DEF Timed, TodayType, Today, Priced, vars
<1>2. target <= Today - 1 /\ SeenBefore(target)
  BY DEF NoneFresher
<1>3. \A d \in Constituents : /\ fresh'[d] = IF d = c THEN target ELSE fresh[d]
                              /\ seen'[d] = IF d = c THEN target ELSE seen[d]
                              /\ how'[d] = IF d = c THEN from ELSE how[d]
  BY DEF Fresh, Priced, Records
<1>4. Records'
  BY <1>1 DEF Records, Fresh, Priced
<1>5. NoneFresher'
  BY <1>1, <1>2, <1>3 DEF NoneFresher, SeenBefore, Records
<1>6. NeverFresherThanSeen'
  BY <1>1, <1>3 DEF NeverFresherThanSeen
<1>. QED  BY <1>4, <1>5, <1>6

(* No source answers: the record decides for how many days to decay. *)
LEMMA DecayedByRecord ==
  ASSUME Timed, Records, NoneFresher, NeverFresherThanSeen,
         NEW c \in Constituents, PricedStale(c)
  PROVE  Records' /\ NoneFresher' /\ NeverFresherThanSeen'
<1>. DEFINE days == days_since_fresh(c)
            from == [from |-> "decay", days |-> days, recorded |-> fresh[c] # 0]
<1>1. /\ UNCHANGED <<target, file, fresh, seen, clock>> /\ pc = "pricing"
      /\ how' = [how EXCEPT ![c] = from]
  BY DEF PricedStale, FreshAfterDecay, Priced, vars
<1>2. Today' = Today
  BY <1>1 DEF Today
<1>3. Records'
  BY <1>1 DEF Records
<1>4. NoneFresher'
  BY <1>1, <1>2 DEF NoneFresher, SeenBefore
<1>5. fresh[c] # 0 => days >= target - seen[c]
  BY DEF days_since_fresh, Records, NoneFresher
<1>6. \A d \in Constituents : how'[d] = IF d = c THEN from ELSE how[d]
  BY <1>1 DEF Records
<1>7. NeverFresherThanSeen'
  <2>1. from.days = days /\ (from.recorded => fresh[c] # 0)
    BY Zenon
  <2>. HIDE DEF days, from
  <2>. QED  BY <1>1, <1>5, <1>6, <2>1 DEF NeverFresherThanSeen
<1>. QED  BY <1>3, <1>4, <1>7

LEMMA RememberedNext ==
  ASSUME Remembered, [CrankNext]_crankvars
  PROVE  Remembered'
<1>. DEFINE Goal == Records' /\ NoneFresher' /\ NeverFresherThanSeen'
<1>. USE DEF Remembered
<1>1. CASE clock' = clock /\ CrankSteps
  <2>0. Timed'
    BY <1>1, TodayNext
  <2>1. CASE Start
    BY <1>1, <2>0, <2>1, NothingPriced DEF Start, local
  <2>2. CASE LookSteps
    BY <1>1, <2>0, <2>2, NothingPriced DEF LookSteps, LookFinds, LookFindsNothing, LookFails, BeginCycle
  <2>3. CASE RegistryFails \/ SubmitFails \/ AggregateFails
    BY <1>1, <2>0, <2>3, NothingPriced DEF RegistryFails, SubmitFails, AggregateFails, CycleFails, local
  <2>4. ASSUME NEW c \in Constituents, PriceSteps(c)
        PROVE  Goal
    <3>1. CASE PricedFresh(c)
      <4>1. PICK listings \in Listings :
              Priced(c, PriceOf[listings], [from |-> "sales", listings |-> listings])
        BY <3>1 DEF PricedFresh
      <4>. QED  BY <3>1, <4>1, AnsweredIsFresh DEF PricedFresh
    <3>2. CASE PricedByQuote(c)
      <4>1. PICK quote : Priced(c, quote, [from |-> "quote"])
        BY <3>2 DEF PricedByQuote
      <4>. QED  BY <3>2, <4>1, AnsweredIsFresh DEF PricedByQuote
    <3>3. CASE PricedStale(c)
      BY <3>3, DecayedByRecord
    <3>. QED  BY <2>4, <3>1, <3>2, <3>3 DEF PriceSteps
  <2>5. CASE SubmitLands("aggregating") \/ SubmitLands("saving")
    BY <1>1, <2>0, <2>5, NothingPriced DEF SubmitLands, local
  <2>6. CASE IndexIsOnTarget \/ IndexIsElsewhere \/ IndexReadFails
    BY <1>1, <2>0, <2>6, NothingPriced
       DEF IndexIsOnTarget, IndexIsElsewhere, IndexReadFails, IndexReadAs, local
  <2>7. CASE AggregateLands("saving")
    BY <1>1, <2>0, <2>7, NothingPriced DEF AggregateLands, local
  <2>8. CASE Saves \/ SaveFails
    BY <1>1, <2>0, <2>8, NothingPriced DEF Saves, SaveFails, Forget
  <2>9. Goal
    BY <1>1, <2>1, <2>2, <2>3, <2>4, <2>5, <2>6, <2>7, <2>8 DEF CrankSteps
  <2>. QED  BY <2>0, <2>9
<1>2. CASE clock' = clock /\ Dies
  <2>1. Goal
    BY <1>2, NothingPriced DEF Dies, Forget
  <2>. QED  BY <1>2, <2>1, TodayNext
<1>3. CASE /\ clock' = clock \/ \E d \in Durations : Elapse(d)
           /\ UNCHANGED process
  <2>1. Timed' /\ Today \in Nat /\ Today' \in Nat /\ Today <= Today'
    BY <1>3, TodayNext
  <2>2. UNCHANGED <<pc, target, how, fresh, file, seen>>
    BY <1>3 DEF process, local
  <2>3. Records' /\ NeverFresherThanSeen'
    BY <2>2 DEF Records, NeverFresherThanSeen
  <2>4. NoneFresher'
    <3>1. SeenBefore(Today - 1)'
      BY <2>1, <2>2 DEF Records, NoneFresher, SeenBefore
    <3>2. ASSUME pc' = "pricing"
          PROVE  target' <= Today' - 1 /\ SeenBefore(target)'
      <4>1. target \in Nat /\ target <= Today - 1 /\ SeenBefore(target)
        BY <2>2, <3>2 DEF NoneFresher, Records
      <4>2. SeenBefore(target)'
        BY <2>2, <4>1 DEF SeenBefore
      <4>3. \A day \in Nat : Today <= day => target <= day - 1
        BY <2>1, <4>1
      <4>4. target <= Today' - 1
        BY <2>1, <4>3
      <4>. QED  BY <2>2, <4>2, <4>4
    <3>3. \A c \in Constituents : fresh'[c] <= seen'[c] /\ file'.fresh[c] <= seen'[c]
      BY <2>2 DEF NoneFresher
    <3>. QED  BY <3>1, <3>2, <3>3 DEF NoneFresher
  <2>. QED  BY <2>1, <2>3, <2>4
<1>. QED  BY <1>1, <1>2, <1>3, ClockOfCrank DEF CrankNext, crankvars, vars

LEMMA RememberedHolds == CrankSpec => []Remembered
  BY RememberedInit, RememberedNext, PTL DEF CrankSpec

(* The crank decays a stale price by no fewer days than have passed since  *)
(* a source answered, through failing cycles, crashes and a state file     *)
(* that is old, torn or missing (run_cycle and state.rs).                  *)
THEOREM FreshnessHolds == CrankSpec => []NeverFresherThanSeen
<1>1. Remembered => NeverFresherThanSeen
  BY DEF Remembered
<1>. QED  BY <1>1, RememberedHolds, PTL

-----------------------------------------------------------------------------
(* With a crank at work the oracle does what it can do without: the crank  *)
(* submits under the publisher's key and aggregates like anybody, though   *)
(* with prices and lists of its own.                                       *)

LEMMA CrankStepIsOracle ==
  ASSUME Remembered, [CrankNext]_crankvars
  PROVE  [AnyNext]_vars
<1>1. CASE CrankSteps
  <2>1. ASSUME NEW next, SubmitLands(next) PROVE AnyNext
    <3>1. submit_price_update(own, target, priced) /\ own \in Publishers
      BY <2>1, CrankAssumption DEF SubmitLands
    <3>2. target = Today - 1
      <4>1. target \in Nat /\ Today \in Nat /\ target + 1 = Today
        BY <3>1, TodayPositive DEF submit_price_update, Remembered, Records, Timed, TodayType
      <4>. QED  BY <4>1
    <3>. QED  BY <3>1, <3>2 DEF AnyNext
  <2>2. ASSUME NEW next, AggregateLands(next) PROVE AnyNext
    BY <2>2 DEF AggregateLands, AnyNext
  <2>3. CASE ~(\E next : SubmitLands(next) \/ AggregateLands(next))
    BY <1>1, <2>3
       DEF CrankSteps, Start, LookSteps, LookFinds, LookFindsNothing, LookFails, BeginCycle,
           RegistryFails, PriceSteps, PricedFresh, PricedByQuote, PricedStale, Priced,
           SubmitFails, IndexIsOnTarget, IndexIsElsewhere, IndexReadFails, IndexReadAs,
           AggregateFails, Saves, SaveFails
  <2>. QED  BY <2>1, <2>2, <2>3
<1>2. CASE Dies
  BY <1>2 DEF Dies
<1>3. CASE Next
  BY <1>3 DEF AnyNext
<1>4. CASE UNCHANGED crankvars
  BY <1>4 DEF crankvars
<1>. QED  BY <1>1, <1>2, <1>3, <1>4 DEF CrankNext

LEMMA CrankIsOracle == CrankSpec => AnySpec
  BY RememberedHolds, CrankStepIsOracle, PTL DEF CrankSpec, AnySpec

(* With a crank of one publisher, whatever its sources say and whatever    *)
(* fails, crashes or is sent twice: bonds stay backed, absence and base    *)
(* prices keep their meaning, and the index is still the feed its readers  *)
(* rely on (main.rs run_daily, crank_cycle).                               *)
THEOREM OracleKeepsWithCrank ==
  CrankSpec => /\ ImplementsFeed /\ BasePriceKept /\ PresentNotSlashed
               /\ []BondsBacked /\ []TierOfThisAbsence
  BY CrankIsOracle, FeedAny, BasesAny, AttendanceAny, BondsAny, TiersAny, PTL

-----------------------------------------------------------------------------
(* Fresh prices.  Every rank of the sorted prices is held by one of them,  *)
(* so that a mean of some ranks lies between two prices, however many are  *)
(* trimmed at either end; and the window whose prices they are is the      *)
(* first that has enough of them and is not trimmed away.                  *)

LEMMA LowestIsAPrice ==
  ASSUME NEW prices, IsFiniteSet(DOMAIN prices), \A i \in DOMAIN prices : prices[i] \in Nat,
         NEW k \in Nat \ {0}, k <= Cardinality(DOMAIN prices)
  PROVE  \E i \in DOMAIN prices : Lowest(prices, k) = prices[i]
<1>. DEFINE D == DOMAIN prices
            upto(j) == {l \in D : prices[l] <= prices[j]}
            held == {j \in D : Cardinality(upto(j)) >= k}
            low == {prices[i] : i \in held}
<1>1. held # {}
  <2>1. D # {}
    BY FS_EmptySet
  <2>2. PICK j \in D : \A l \in D : prices[l] <= prices[j]
    BY <2>1, Extremes
  <2>3. upto(j) = D
    BY <2>2
  <2>. QED  BY <2>3, FS_CardinalityType
<1>2. IsFiniteSet(held) /\ \A i \in held : prices[i] \in Int
  <2>1. held \subseteq D
    OBVIOUS
  <2>. HIDE DEF held
  <2>2. \A i \in held : prices[i] \in Int
    BY <2>1
  <2>3. IsFiniteSet(D)
    OBVIOUS
  <2>. QED  BY <2>1, <2>2, <2>3, FS_Subset
<1>3. PICK j \in held : \A i \in held : prices[j] <= prices[i]
  <2>. HIDE DEF held
  <2>. QED  BY <1>1, <1>2, Extremes
<1>4. Lowest(prices, k) = Min(low)
  BY DEF Lowest
<1>5. Min(low) \in low
  <2>1. \E x \in low : \A y \in low : x <= y
    BY <1>3
  <2>. HIDE DEF low
  <2>. QED  BY <2>1 DEF Min
<1>6. PICK i \in held : Min(low) = prices[i]
  <2>. HIDE DEF held
  <2>. QED  BY <1>5
<1>. QED  BY <1>4, <1>6

(* A mean of numbers between two bounds lies between them. *)
LEMMA MeanBetween ==
  ASSUME NEW sum \in Nat, NEW n \in Nat \ {0}, NEW lo \in Nat, NEW hi \in Nat,
         lo * n <= sum, sum <= hi * n
  PROVE  lo <= sum \div n /\ sum \div n <= hi
<1>1. \A a \in Nat : (a * n) \div n = a
  <2>. TAKE a \in Nat
  <2>. DEFINE q == (a * n) \div n
  <2>1. q \in Nat /\ n * q <= a * n /\ a * n < n * (q + 1)
    OBVIOUS
  <2>. HIDE DEF q
  <2>2. ASSUME q + 1 <= a PROVE FALSE
    <3>1. n * (q + 1) <= n * a /\ n * a = a * n
      BY <2>1, <2>2
    <3>. QED  BY <2>1, <3>1
  <2>3. ASSUME a + 1 <= q PROVE FALSE
    <3>1. n * (a + 1) <= n * q /\ n * (a + 1) = a * n + n
      BY <2>1, <2>3
    <3>. QED  BY <2>1, <3>1
  <2>4. q = a
    BY <2>1, <2>2, <2>3
  <2>. QED  BY <2>4 DEF q
<1>2. lo * n \in Nat /\ hi * n \in Nat
  OBVIOUS
<1>. QED  BY <1>1, <1>2, DivMonotone

LEMMA TrimType == \A n \in Nat : TopTrim(n) \in Nat /\ BottomTrim(n) \in Nat
<1>. SUFFICES ASSUME NEW n \in Nat PROVE TopTrim(n) \in Nat /\ BottomTrim(n) \in Nat
  OBVIOUS
<1>1. \A a \in Nat : a \div 100 \in Nat
  OBVIOUS
<1>2. n * TRIM_TOP \in Nat /\ n * TRIM_BOTTOM \in Nat
  <2>1. TRIM_TOP \in Nat /\ TRIM_BOTTOM \in Nat
    BY MethodologyAssumption
  <2>. QED  BY <2>1
<1>. QED  BY <1>1, <1>2 DEF TopTrim, BottomTrim

(* Where there is a mean, trimming has left something. *)
LEMMA MeanNeedsRest ==
  ASSUME NEW prices, IsFiniteSet(DOMAIN prices), trimmed_mean(prices) # NoPrice
  PROVE  TopTrim(Cardinality(DOMAIN prices)) + BottomTrim(Cardinality(DOMAIN prices))
           < Cardinality(DOMAIN prices)
<1>. DEFINE n == Cardinality(DOMAIN prices)
<1>1. n \in Nat
  BY FS_CardinalityType
<1>2. (BottomTrim(n) + 1)..(n - TopTrim(n)) # {}
  BY DEF trimmed_mean
<1>. HIDE DEF n
<1>3. TopTrim(n) + BottomTrim(n) < n
  BY <1>1, <1>2, TrimType
<1>. QED  BY <1>3 DEF n

LEMMA TrimmedMeanBetween ==
  ASSUME NEW prices, IsFiniteSet(DOMAIN prices), \A i \in DOMAIN prices : prices[i] \in Nat,
         TopTrim(Cardinality(DOMAIN prices)) + BottomTrim(Cardinality(DOMAIN prices))
           < Cardinality(DOMAIN prices)
  PROVE  \E i, j \in DOMAIN prices : prices[i] <= trimmed_mean(prices)
                                     /\ trimmed_mean(prices) <= prices[j]
<1>. DEFINE D == DOMAIN prices
            n == Cardinality(D)
            top == TopTrim(n)
            bottom == BottomTrim(n)
            kept == (bottom + 1)..(n - top)
            w == [k \in kept |-> Lowest(prices, k)]
            lowest(k) == Lowest(prices, k)
            Is(g) == g = [s \in SUBSET kept |->
                            IF s = {} THEN 0 ELSE lowest(Pick(s)) + g[s \ {Pick(s)}]]
            fold == CHOOSE g : Is(g)
<1>1. n \in Nat
  BY FS_CardinalityType
<1>2. top \in Nat /\ bottom \in Nat
  <2>. HIDE DEF n
  <2>. QED  BY <1>1, TrimType
<1>3. kept # {} /\ trimmed_mean(prices) = MapThenSumSet(LAMBDA k : Lowest(prices, k), kept) \div Cardinality(kept)
  <2>1. kept # {}
    <3>1. top + bottom < n
      OBVIOUS
    <3>. HIDE DEF n, top, bottom
    <3>2. bottom + 1 \in kept
      BY <1>1, <1>2, <3>1
    <3>. QED  BY <3>2
  <2>. QED  BY <2>1 DEF trimmed_mean
<1>4. IsFiniteSet(kept) /\ Cardinality(kept) \in Nat \ {0}
  <2>1. IsFiniteSet(kept)
    <3>. HIDE DEF n, top, bottom
    <3>. QED  BY <1>1, <1>2, FS_Interval
  <2>. HIDE DEF kept
  <2>. QED  BY <1>3, <2>1, FS_EmptySet, FS_CardinalityType
<1>5. ASSUME NEW k \in kept PROVE \E i \in D : w[k] = prices[i]
  <2>1. k \in Nat \ {0} /\ k <= n
    <3>. HIDE DEF n, top, bottom
    <3>. QED  BY <1>1, <1>2
  <2>. QED  BY <2>1, LowestIsAPrice
<1>6. ASSUME NEW g PROVE Is(g) <=> Adds(w, kept, g)
  <2>1. ASSUME NEW s \in SUBSET kept, s # {} PROVE lowest(Pick(s)) = w[Pick(s)]
    <3>1. Pick(s) \in kept
      BY <2>1, PickIn
    <3>. HIDE DEF kept
    <3>. QED  BY <3>1
  <2>. HIDE DEF w, lowest, kept
  <2>. QED  BY <2>1 DEF Adds
<1>7. Is(fold)
  <2>1. \E g : Is(g)
    <3>. HIDE DEF Is, w, kept
    <3>. QED  BY <1>4, <1>6, AddsExists
  <2>. HIDE DEF Is
  <2>. QED  BY <2>1
<1>8. fold[kept] = SumOf(w, kept)
  <2>. HIDE DEF fold, Is, w, kept
  <2>1. Adds(w, kept, fold)
    BY <1>6, <1>7
  <2>. QED  BY <1>4, <2>1, AddsIsSum
<1>9. trimmed_mean(prices) = fold[kept] \div Cardinality(kept)
  <2>. HIDE DEF kept
  <2>. QED  BY <1>3 DEF MapThenSumSet, MapThenFoldSet, Pick
<1>. HIDE DEF fold, w, kept, n
<1>10. \E i, j \in D : \A k \in kept : w[k] \in prices[i]..prices[j]
  <2>1. D # {}
    BY <1>3, <1>5
  <2>2. PICK i \in D : \A l \in D : prices[i] <= prices[l]
    BY <2>1, Extremes
  <2>3. PICK j \in D : \A l \in D : prices[l] <= prices[j]
    BY <2>1, Extremes
  <2>4. ASSUME NEW k \in kept PROVE w[k] \in prices[i]..prices[j]
    <3>1. PICK l \in D : w[k] = prices[l]
      BY <1>5
    <3>2. prices[i] \in Nat /\ prices[j] \in Nat /\ prices[l] \in Nat
      OBVIOUS
    <3>. QED  BY <2>2, <2>3, <3>1, <3>2
  <2>. QED  BY <2>4
<1>11. PICK i \in D, j \in D : \A k \in kept : w[k] \in prices[i]..prices[j]
  BY <1>10
<1>12. /\ prices[i] \in Nat /\ prices[j] \in Nat
       /\ prices[i] * Cardinality(kept) <= SumOf(w, kept)
       /\ SumOf(w, kept) <= prices[j] * Cardinality(kept)
  <2>1. PICK lo \in Nat, hi \in Nat : lo = prices[i] /\ hi = prices[j]
    OBVIOUS
  <2>2. lo * Cardinality(kept) <= SumOf(w, kept) /\ SumOf(w, kept) <= hi * Cardinality(kept)
    <3>1. lo \in Int /\ hi \in Int /\ \A k \in kept : w[k] \in lo..hi
      BY <1>11, <2>1
    <3>. QED  BY <1>4, <3>1, SumBetween
  <2>. QED  BY <2>1, <2>2
<1>13. SumOf(w, kept) \in Nat
  <2>1. \A k \in kept : w[k] \in Nat
    BY <1>11, <1>12
  <2>. QED  BY <1>4, <2>1, SumType
<1>14. /\ prices[i] <= SumOf(w, kept) \div Cardinality(kept)
       /\ SumOf(w, kept) \div Cardinality(kept) <= prices[j]
  BY <1>4, <1>12, <1>13, MeanBetween
<1>. QED  BY <1>8, <1>9, <1>14

(* What PricedByRecentSales says of one price and the answer it came from. *)
RecentPrice(listings, price) ==
  \E i \in DOMAIN WINDOWS :
    LET Recent(j) == InWindow(listings, WINDOWS[j])
        sold      == {listings[l].price : l \in Recent(i)}
        Suffices(j) == SampleSuffices(Cardinality(Recent(j)))
    IN  /\ Suffices(i) /\ \A j \in 1..(i - 1) : ~Suffices(j)
        /\ \E low, high \in sold : low <= price /\ price <= high

LEMMA ConstituentIsRecent ==
  ASSUME NEW listings \in Listings, compute_constituent(listings) # NoPrice
  PROVE  RecentPrice(listings, compute_constituent(listings))
<1>. DEFINE price == compute_constituent(listings)
            Recent(j) == InWindow(listings, WINDOWS[j])
            i == Min(Enough(listings))
            prices == PricesOf(listings, Recent(i))
<1>1. DOMAIN WINDOWS = 1..Len(WINDOWS) /\ Len(WINDOWS) \in Nat
  BY MethodologyAssumption
<1>2. Enough(listings) # {} /\ price = trimmed_mean(prices)
  BY DEF compute_constituent, MeanOf
<1>3. i \in Enough(listings) /\ \A j \in Enough(listings) : i <= j
  <2>. DEFINE E == Enough(listings)
              f == [j \in E |-> j]
  <2>1. E \subseteq 1..Len(WINDOWS)
    BY <1>1 DEF Enough
  <2>2. IsFiniteSet(E) /\ \A j \in E : f[j] \in Int
    <3>1. IsFiniteSet(1..Len(WINDOWS))
      BY <1>1, FS_Interval
    <3>2. IsFiniteSet(E)
      <4>. HIDE DEF E
      <4>. QED  BY <2>1, <3>1, FS_Subset
    <3>3. \A j \in E : j \in Int
      BY <1>1, <2>1
    <3>. HIDE DEF E
    <3>. QED  BY <3>2, <3>3
  <2>3. \E j \in E : \A l \in E : f[j] <= f[l]
    <3>. HIDE DEF E, f
    <3>1. E # {}
      BY <1>2 DEF E
    <3>. QED  BY <2>2, <3>1, Extremes
  <2>4. \E j \in E : \A l \in E : j <= l
    BY <2>3
  <2>. HIDE DEF E
  <2>5. Min(E) \in E /\ \A l \in E : Min(E) <= l
    BY <2>4 DEF Min
  <2>. QED  BY <2>5 DEF E
<1>. HIDE DEF i
<1>4. \A j \in DOMAIN WINDOWS : Recent(j) \subseteq DOMAIN listings /\ IsFiniteSet(Recent(j))
  <2>1. IsFiniteSet(DOMAIN listings)
    BY CrankAssumption
  <2>2. \A j : Recent(j) \subseteq DOMAIN listings
    BY DEF InWindow, apply_filters
  <2>. QED  BY <2>1, <2>2, FS_Subset
<1>5. i \in DOMAIN WINDOWS /\ SampleSuffices(Cardinality(Recent(i)))
  <2>1. /\ i \in DOMAIN WINDOWS /\ Cardinality(Recent(i)) >= MIN_SAMPLE
        /\ trimmed_mean(prices) # NoPrice
    BY <1>3 DEF Enough, MeanOf
  <2>2. DOMAIN prices = Recent(i) /\ IsFiniteSet(Recent(i))
    BY <1>4, <2>1 DEF PricesOf
  <2>. QED  BY <2>1, <2>2, MeanNeedsRest DEF SampleSuffices
<1>6. \A j \in 1..(i - 1) : ~SampleSuffices(Cardinality(Recent(j)))
  <2>. SUFFICES ASSUME NEW j \in 1..(i - 1), SampleSuffices(Cardinality(Recent(j)))
                PROVE  FALSE
    OBVIOUS
  <2>. DEFINE older == PricesOf(listings, Recent(j))
  <2>1. j \in DOMAIN WINDOWS /\ j < i /\ j \in Int /\ i \in Int
    BY <1>1, <1>5
  <2>2. j \notin Enough(listings)
    BY <1>3, <2>1
  <2>3. trimmed_mean(older) = NoPrice
    BY <2>1, <2>2 DEF Enough, MeanOf, SampleSuffices
  <2>4. /\ DOMAIN older = Recent(j) /\ IsFiniteSet(Recent(j))
        /\ \A l \in Recent(j) : older[l] = listings[l].price
    BY <1>4, <2>1 DEF PricesOf
  <2>5. \A l \in Recent(j) : older[l] \in Nat /\ older[l] > 0
    BY <1>4, <2>1, <2>4, CrankAssumption DEF InWindow, apply_filters, shipping_ratio_ok
  <2>6. \E l, h \in DOMAIN older : older[l] <= trimmed_mean(older) /\ trimmed_mean(older) <= older[h]
    <3>. HIDE DEF older
    <3>. QED  BY <2>4, <2>5, TrimmedMeanBetween DEF SampleSuffices
  <2>. HIDE DEF older
  <2>. QED  BY <2>3, <2>4, <2>5, <2>6 DEF NoPrice
<1>7. DOMAIN prices = Recent(i) /\ \A l \in Recent(i) : prices[l] = listings[l].price
  BY DEF PricesOf
<1>8. \E l, h \in Recent(i) : listings[l].price <= price /\ price <= listings[h].price
  <2>1. IsFiniteSet(DOMAIN prices) /\ \A l \in DOMAIN prices : prices[l] \in Nat
    BY <1>4, <1>5, <1>7, CrankAssumption
  <2>2. TopTrim(Cardinality(DOMAIN prices)) + BottomTrim(Cardinality(DOMAIN prices))
          < Cardinality(DOMAIN prices)
    BY <1>5, <1>7 DEF SampleSuffices
  <2>. HIDE DEF prices, price
  <2>3. \E l, h \in DOMAIN prices : prices[l] <= price /\ price <= prices[h]
    BY <1>2, <2>1, <2>2, TrimmedMeanBetween
  <2>. QED  BY <1>7, <2>3
<1>. HIDE DEF price
<1>. QED  BY <1>5, <1>6, <1>8 DEF RecentPrice, price

(* Prices and their histories are kept for the constituents, and those     *)
(* that came from sales came from recent ones.                             *)
Sourced ==
  /\ DOMAIN how = Constituents /\ DOMAIN priced = Constituents
  /\ \A c \in Constituents : how[c].from = "sales" => RecentPrice(how[c].listings, priced[c])

LEMMA PricedSourced ==
  ASSUME Sourced, NEW c \in Constituents, NEW price, NEW from, Priced(c, price, from),
         from.from = "sales" => RecentPrice(from.listings, price)
  PROVE  Sourced'
<1>1. \A d \in Constituents : /\ how'[d] = IF d = c THEN from ELSE how[d]
                              /\ priced'[d] = IF d = c THEN price ELSE priced[d]
  BY DEF Priced, Sourced
<1>2. DOMAIN how' = Constituents /\ DOMAIN priced' = Constituents
  BY DEF Priced, Sourced
<1>3. ASSUME NEW d \in Constituents, how'[d].from = "sales"
      PROVE  RecentPrice(how'[d].listings, priced'[d])
  <2>1. CASE d = c
    BY <1>1, <1>3, <2>1
  <2>2. CASE d # c
    BY <1>1, <1>3, <2>2 DEF Sourced
  <2>. QED  BY <2>1, <2>2
<1>4. \A d \in Constituents : (how[d].from = "sales")' => RecentPrice(how[d].listings, priced[d])'
  BY <1>3 DEF RecentPrice
<1>. QED  BY <1>2, <1>4 DEF Sourced

LEMMA SourcedInit == CrankInit => Sourced
  BY DEF CrankInit, Sourced, Unknown, Unpriced

LEMMA SourcedNext ==
  ASSUME Sourced, [CrankNext]_crankvars
  PROVE  Sourced'
<1>1. ASSUME UNCHANGED <<how, priced>> PROVE Sourced'
  BY <1>1 DEF Sourced, RecentPrice
<1>2. ASSUME how' = Unknown, priced' = Unpriced PROVE Sourced'
  BY <1>2 DEF Sourced, Unknown, Unpriced
<1>3. CASE CrankSteps
  <2>1. CASE LookSteps
    BY <1>2, <2>1 DEF LookSteps, LookFinds, LookFindsNothing, LookFails, BeginCycle
  <2>2. ASSUME NEW c \in Constituents, PriceSteps(c)
        PROVE  Sourced'
    <3>1. CASE PricedFresh(c)
      <4>1. PICK listings \in Listings :
              /\ PriceOf[listings] # NoPrice
              /\ Priced(c, PriceOf[listings], [from |-> "sales", listings |-> listings])
        BY <3>1 DEF PricedFresh
      <4>2. RecentPrice(listings, PriceOf[listings])
        BY <4>1, ConstituentIsRecent DEF PriceOf
      <4>. QED  BY <4>1, <4>2, PricedSourced
    <3>2. CASE PricedByQuote(c)
      <4>1. PICK quote : Priced(c, quote, [from |-> "quote"])
        BY <3>2 DEF PricedByQuote
      <4>. QED  BY <4>1, PricedSourced
    <3>3. CASE PricedStale(c)
      BY <3>3, PricedSourced DEF PricedStale
    <3>. QED  BY <2>2, <3>1, <3>2, <3>3 DEF PriceSteps
  <2>3. CASE Saves \/ SaveFails
    BY <1>2, <2>3 DEF Saves, SaveFails, Forget
  <2>4. CASE \/ Start \/ RegistryFails \/ SubmitFails \/ AggregateFails
             \/ SubmitLands("aggregating") \/ SubmitLands("saving")
             \/ IndexIsOnTarget \/ IndexIsElsewhere \/ IndexReadFails
             \/ AggregateLands("saving")
    BY <1>1, <2>4 DEF Start, RegistryFails, SubmitFails, AggregateFails, SubmitLands,
                      IndexIsOnTarget, IndexIsElsewhere, IndexReadFails, IndexReadAs,
                      AggregateLands, local
  <2>. QED  BY <1>3, <2>1, <2>2, <2>3, <2>4 DEF CrankSteps
<1>4. CASE Dies
  BY <1>2, <1>4 DEF Dies, Forget
<1>5. CASE UNCHANGED process
  BY <1>1, <1>5 DEF process, local
<1>. QED  BY <1>3, <1>4, <1>5 DEF CrankNext, crankvars

(* A fresh price lies among the sales of the narrowest window that has     *)
(* enough of them, whatever the sources answer and whatever percentages    *)
(* the configuration trims (methodology.rs).                               *)
THEOREM PricesAreRecent == CrankSpec => []PricedByRecentSales
<1>1. Sourced => PricedByRecentSales
  BY DEF Sourced, RecentPrice, PricedByRecentSales
<1>. QED  BY SourcedInit, SourcedNext, <1>1, PTL DEF CrankSpec
=============================================================================
