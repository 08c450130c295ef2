---------------------------- MODULE Oracle_proofs ----------------------------
(***************************************************************************)
(* The safety of Oracle for every value of its constants: bonds are        *)
(* backed, only absent publishers are slashed for absence, base prices are *)
(* kept, the program implements IndexFeed, accounts keep their types, the  *)
(* majority of the listings decides each price, challenges can be settled, *)
(* and with the market beside it the oracle is the environment the engine  *)
(* takes it for.  The sections before `Aggregation` leave median and index *)
(* value unopened.                                                         *)
(***************************************************************************)
EXTENDS Protocol, Sums

(* Later times are of later days, or of the same one. *)
LEMMA DivMonotone ==
  ASSUME NEW a \in Nat, NEW b \in Nat, a <= b, NEW d \in Nat \ {0}
  PROVE  /\ a \div d \in Nat /\ a \div d <= b \div d
         /\ d \div d = 1
<1>. DEFINE q == a \div d
            r == b \div d
<1>1. q \in Nat /\ r \in Nat /\ d \div d = 1
  OBVIOUS
<1>2. d * q <= a
  OBVIOUS
<1>3. b < d * (r + 1)
  OBVIOUS
<1>. HIDE DEF q, r
<1>4. ASSUME r + 1 <= q PROVE FALSE
  <2>1. d * (r + 1) <= d * q /\ d * (r + 1) \in Nat /\ d * q \in Nat
    BY <1>1, <1>4
  <2>. QED  BY <1>2, <1>3, <2>1
<1>5. q <= r
  BY <1>1, <1>4
<1>. QED  BY <1>1, <1>5 DEF q, r

(* What bears on slashing: accounts, their vaults, and whose updates are   *)
(* for which days.                                                         *)
Targeted(challenges) ==
  \A x \in challenges : "target" \in DOMAIN x /\ x.target \in Publishers

Solid ==
  /\ publisher \in [Publishers -> Accounts]
  /\ bond_vault \in [Publishers -> Nat]
  /\ BondsBacked
  /\ Targeted(challenge)

(* Time, and that the last submitted day is that of the latest update. *)
Attendance ==
  /\ clock \in Nat /\ clock >= DAY
  /\ \A p \in Publishers : publisher[p].last_day < Today
  /\ \A u \in update : /\ u.publisher \in Publishers /\ u.day \in Nat
                       /\ u.day <= publisher[u.publisher].last_day

TodayType == Today \in Nat \ {0}

LEMMA TodayPositive ==
  ASSUME clock \in Nat, clock >= DAY
  PROVE  TodayType
<1>1. DAY \in Nat \ {0}
  BY OracleAssumption
<1>2. DAY \div DAY = 1 /\ DAY \div DAY <= clock \div DAY
  BY <1>1, DivMonotone
<1>3. clock \div DAY \in Nat
  BY <1>1, DivMonotone
<1>. QED  BY <1>2, <1>3 DEF Today, TodayType

LEMMA AbsenceTiers ==
  ASSUME NEW d \in Nat, NEW e \in Nat, d <= e
  PROVE  /\ days_absent_to_tier(d) \in 0..3
         /\ days_absent_to_tier(d) <= days_absent_to_tier(e)
         /\ days_absent_to_tier(d) > 0 => d >= 3
  BY DEF days_absent_to_tier

LEMMA NoPublisherType == NoPublisher \in Accounts
  BY DEF NoPublisher, Accounts

(* A slash within the vault's balance, or a refill (a negative slash),     *)
(* moves vault and recorded bond together.                                 *)
LEMMA SlashKeepsSolid ==
  ASSUME Solid, NEW p \in Publishers, NEW amount \in Int, bond_vault[p] >= amount,
         NEW status \in Statuses \cup {"None"}, NEW tier \in 0..3,
         Slash(p, amount, status, tier),
         Targeted(challenge')
  PROVE  /\ Solid'
         /\ \A q \in Publishers : publisher'[q].last_day = publisher[q].last_day
         /\ \A q \in Publishers : q # p => publisher'[q] = publisher[q]
         /\ publisher'[p].tier = tier
<1>. DEFINE account == publisher[p]
            left == account.bond - amount
<1>1. account \in Accounts /\ account.bond = bond_vault[p]
  BY DEF Solid, BondsBacked
<1>2. left \in Nat /\ left = bond_vault[p] - amount
  BY <1>1 DEF Accounts, Solid
<1>. DEFINE slashed == [account EXCEPT !.bond = left, !.status = status, !.tier = tier]
<1>3. /\ bond_vault' = [bond_vault EXCEPT ![p] = left]
      /\ publisher' = [publisher EXCEPT ![p] = slashed]
  BY <1>1, <1>2 DEF Slash, Solid
<1>4. /\ slashed \in Accounts /\ slashed.bond = left /\ slashed.tier = tier
      /\ slashed.last_day = account.last_day
  <2>. HIDE DEF left
  <2>. QED  BY <1>1, <1>2 DEF Accounts
<1>. HIDE DEF slashed, left
<1>5. bond_vault' \in [Publishers -> Nat] /\ publisher' \in [Publishers -> Accounts]
  BY <1>2, <1>3, <1>4 DEF Solid
<1>6. BondsBacked'
  BY <1>3, <1>4 DEF Solid, BondsBacked
<1>. QED  BY <1>3, <1>4, <1>5, <1>6 DEF Solid

(* Next draws what a publisher submits and what a caller aggregates from   *)
(* finite sets.  Whatever does not depend on that is proved with any       *)
(* prices, any day and any list, so that it also holds with a crank that   *)
(* submits what its sources say.                                           *)
AnyNext ==
  \/ Next
  \/ \E p \in Publishers : \E prices : submit_price_update(p, Today - 1, prices)
  \/ \E day, chosen : aggregate_day(day, chosen)

AnySpec == Init /\ [][AnyNext]_vars

LEMMA SpecIsAny == Spec => AnySpec
<1>1. [Next]_vars => [AnyNext]_vars
  BY DEF AnyNext
<1>. QED  BY <1>1, PTL DEF Spec, AnySpec

(* The instructions that touch publishers, bonds, updates, challenges or   *)
(* time; all others leave the four alone.                                  *)
LEMMA Instructions ==
  ASSUME [AnyNext]_vars
  PROVE  \/ \E p \in Publishers : register_publisher(p)
         \/ \E p \in Publishers : activate_publisher(p)
         \/ \E p \in Publishers : \E prices : submit_price_update(p, Today - 1, prices)
         \/ \E u \in Users, p \in Publishers, c \in Constituents : open_challenge(u, p, c)
         \/ \E x \in challenge, payee \in Users : challenge_succeeds(x, payee)
         \/ \E x \in challenge : challenge_fails(x)
         \/ \E p \in Publishers : slash_for_liveness(p)
         \/ \E d \in Durations : Elapse(d)
         \/ UNCHANGED <<bonds, update, challenge, clock>>
<1>1. CASE AdminSteps
  BY <1>1 DEF AdminSteps, set_protocol_treasury, initialize_registry, update_constituent,
              finalize_registry_update, emergency_pause
<1>2. CASE FeedSteps
  BY <1>2 DEF FeedSteps, aggregate_day, finalize_day
<1>3. CASE DisputeSteps
  BY <1>3 DEF DisputeSteps
<1>4. CASE UNCHANGED vars
  BY <1>4 DEF vars
<1>5. ASSUME NEW day, NEW chosen, aggregate_day(day, chosen)
      PROVE  UNCHANGED <<bonds, update, challenge, clock>>
  BY <1>5 DEF aggregate_day
<1>. QED  BY <1>1, <1>2, <1>3, <1>4, <1>5 DEF Next, AnyNext

LEMMA BpsType ==
  ASSUME NEW amount \in Nat, NEW bps \in Nat
  PROVE  Bps(amount, bps) \in Nat
<1>1. amount * bps \in Nat
  OBVIOUS
<1>. QED  BY <1>1 DEF Bps

LEMMA PresentType ==
  ASSUME NEW account \in Accounts, NEW day \in Nat
  PROVE  LET present == Present(account, day)
         IN  /\ present \in Accounts /\ present.bond = account.bond
             /\ present.last_day = day /\ present.tier = 0
<1>1. ASSUME NEW tier \in 0..3
      PROVE  LET present == [account EXCEPT !.last_day = day, !.tier = tier]
             IN  /\ present \in Accounts /\ present.bond = account.bond
                 /\ present.last_day = day /\ present.tier = tier
  BY DEF Accounts
<1>2. 0 \in 0..3
  OBVIOUS
<1>. QED  BY <1>1, <1>2 DEF Present

LEMMA VerdictType ==
  ASSUME NEW x
  PROVE  Verdict(x) \in {0, 1000, 5000, 10000}
<1>1. ASSUME NEW d PROVE deviation_to_slash_tier(d) \in {0, 1000, 5000, 10000}
  BY DEF deviation_to_slash_tier
<1>2. \E d : Verdict(x) \in {0, deviation_to_slash_tier(d)}
  <2>. DEFINE agreed == index.prices[x.constituent]
              submitted == (CHOOSE u \in update : u.publisher = x.target /\ u.day = x.day)
                             .prices[x.constituent]
              distance  == IF submitted > agreed THEN submitted - agreed
                                                 ELSE agreed - submitted
              d == (distance * 10000) \div agreed
  <2>1. Verdict(x) = IF agreed = 0 THEN 0 ELSE deviation_to_slash_tier(d)
    BY DEF Verdict
  <2>. HIDE DEF agreed, d
  <2>. QED  BY <2>1
<1>. QED  BY <1>1, <1>2

LEMMA SlashKeepsDays ==
  ASSUME Solid, NEW p, NEW amount, NEW status, NEW tier, Slash(p, amount, status, tier)
  PROVE  \A q \in Publishers : publisher'[q].last_day = publisher[q].last_day
  BY DEF Slash, Solid, Accounts

(* A succeeding challenge slashes within the bond. *)
LEMMA SucceedsIsSlash ==
  ASSUME Solid, NEW x \in challenge, NEW payee \in Users, challenge_succeeds(x, payee)
  PROVE  \E amount \in Int, status \in Statuses \cup {"None"} :
           /\ bond_vault[x.target] >= amount
           /\ Slash(x.target, amount, status, publisher[x.target].tier)
<1>. DEFINE bps == Verdict(x)
            amount == SlashedFrom(x.target, bps)
            status == StatusAfter(x.target, bps, amount)
<1>1. x.target \in Publishers /\ publisher[x.target] \in Accounts
  BY DEF Solid, Targeted
<1>2. amount \in Nat
  <2>1. bps \in Nat
    BY VerdictType
  <2>. HIDE DEF bps
  <2>. QED  BY <1>1, <2>1, BpsType DEF SlashedFrom, Accounts
<1>3. status \in Statuses \cup {"None"}
  BY <1>1 DEF StatusAfter, Accounts, Statuses
<1>4. bond_vault[x.target] >= amount /\ Slash(x.target, amount, status, publisher[x.target].tier)
  BY DEF challenge_succeeds
<1>. HIDE DEF amount, status
<1>. QED  BY <1>2, <1>3, <1>4

(* A failing one refills it by half the challenger's bond. *)
LEMMA FailsIsRefill ==
  ASSUME Solid, NEW x \in challenge, challenge_fails(x)
  PROVE  \E amount \in Int, status \in Statuses \cup {"None"} :
           /\ bond_vault[x.target] >= amount
           /\ Slash(x.target, amount, status, publisher[x.target].tier)
<1>. DEFINE share == CHALLENGE_BOND \div 2
<1>1. x.target \in Publishers /\ publisher[x.target] \in Accounts /\ bond_vault[x.target] \in Nat
  BY DEF Solid, Targeted
<1>2. share \in Nat /\ -share \in Int
  BY OracleAssumption
<1>3. Slash(x.target, -share, publisher[x.target].status, publisher[x.target].tier)
  BY DEF challenge_fails
<1>4. publisher[x.target].status \in Statuses \cup {"None"}
  BY <1>1 DEF Accounts
<1>5. bond_vault[x.target] >= -share
  BY <1>1, <1>2
<1>. HIDE DEF share
<1>. QED  BY <1>2, <1>3, <1>4, <1>5

(* So does a liveness slash, which also records the tier of the absence. *)
LEMMA LivenessIsSlash ==
  ASSUME Solid, NEW p \in Publishers, slash_for_liveness(p)
  PROVE  LET tier == days_absent_to_tier(DaysAbsent(p))
         IN  /\ tier \in 1..3
             /\ \E amount \in Int, status \in Statuses \cup {"None"} :
                  bond_vault[p] >= amount /\ Slash(p, amount, status, tier)
<1>. DEFINE tier == days_absent_to_tier(DaysAbsent(p))
            amount == SlashedFrom(p, TierSlash[tier])
            status == IF tier = 3 THEN "Removed"
                      ELSE IF tier = 2 THEN "Suspended" ELSE publisher[p].status
<1>1. publisher[p] \in Accounts
  BY DEF Solid
<1>2. tier \in 1..3
  <2>1. tier \in 0..3
    BY DEF days_absent_to_tier
  <2>2. tier > publisher[p].tier
    BY DEF slash_for_liveness
  <2>. HIDE DEF tier
  <2>. QED  BY <1>1, <2>1, <2>2 DEF Accounts
<1>3. amount \in Nat
  <2>1. TierSlash[tier] \in Nat
    <3>. HIDE DEF tier
    <3>. QED  BY <1>2 DEF TierSlash
  <2>. HIDE DEF tier
  <2>. QED  BY <1>1, <2>1, BpsType DEF SlashedFrom, Accounts
<1>4. status \in Statuses \cup {"None"}
  BY <1>1 DEF Accounts, Statuses
<1>5. bond_vault[p] >= amount /\ Slash(p, amount, status, tier)
  BY DEF slash_for_liveness
<1>. HIDE DEF amount, status, tier
<1>6. \E a \in Int, s \in Statuses \cup {"None"} : bond_vault[p] >= a /\ Slash(p, a, s, tier)
  BY <1>3, <1>4, <1>5
<1>. QED  BY <1>2, <1>6 DEF tier

LEMMA ResolvedTargets ==
  ASSUME Targeted(challenge), NEW y \in challenge, NEW status, Resolved(y, status)
  PROVE  Targeted(challenge')
<1>. DEFINE z == [y EXCEPT !.status = status, !.escrow = @ - CHALLENGE_BOND]
<1>1. challenge' = (challenge \ {y}) \cup {z}
  BY DEF Resolved
<1>2. "target" \in DOMAIN z /\ z.target = y.target
  BY DEF Targeted
<1>. HIDE DEF z
<1>. QED  BY <1>1, <1>2 DEF Targeted

-----------------------------------------------------------------------------
(* Bonds.                                                                  *)

LEMMA SolidInit == Init => Solid
<1>1. PUBLISHER_BOND \in Nat
  BY OracleAssumption
<1>. QED  BY <1>1, NoPublisherType DEF Init, Solid, Targeted, BondsBacked, NoPublisher

LEMMA RegisterSolid ==
  ASSUME Solid, Today \in Nat, NEW p \in Publishers, register_publisher(p)
  PROVE  Solid'
<1>. DEFINE account == [status |-> "Shadow", bond |-> PUBLISHER_BOND,
                        joined |-> Today, last_day |-> 0, tier |-> 0]
<1>1. PUBLISHER_BOND \in Nat /\ publisher[p] = NoPublisher /\ bond_vault[p] = 0
  BY OracleAssumption DEF register_publisher, Solid, BondsBacked, NoPublisher
<1>2. bond_vault' = [bond_vault EXCEPT ![p] = PUBLISHER_BOND]
  BY <1>1 DEF register_publisher, Solid
<1>3. publisher' = [publisher EXCEPT ![p] = account]
  BY DEF register_publisher
<1>4. account \in Accounts
  BY <1>1 DEF Accounts, Statuses
<1>5. account.bond = PUBLISHER_BOND /\ challenge' = challenge
  BY DEF register_publisher
<1>. HIDE DEF account
<1>6. /\ publisher' \in [Publishers -> Accounts]
      /\ bond_vault' \in [Publishers -> Nat]
  BY <1>1, <1>2, <1>3, <1>4 DEF Solid
<1>7. BondsBacked'
  BY <1>2, <1>3, <1>5 DEF Solid, BondsBacked
<1>. QED  BY <1>5, <1>6, <1>7 DEF Solid

(* Whatever a vault loses or gains, the bond it backs does too. *)
LEMMA SolidNext ==
  ASSUME Solid, Attendance, [AnyNext]_vars
  PROVE  Solid'
<1>0. TodayType
  BY TodayPositive DEF Attendance
<1>1. ASSUME NEW p \in Publishers, register_publisher(p)
      PROVE  Solid'
  BY <1>0, <1>1, RegisterSolid DEF TodayType
<1>2. ASSUME NEW p \in Publishers, activate_publisher(p)
      PROVE  Solid'
  <2>. DEFINE account == [publisher[p] EXCEPT !.status = "Active"]
  <2>1. account \in Accounts /\ account.bond = publisher[p].bond
    BY DEF Solid, Accounts, Statuses
  <2>2. publisher' = [publisher EXCEPT ![p] = account]
    BY <1>2 DEF activate_publisher, Solid
  <2>. HIDE DEF account
  <2>. QED  BY <1>2, <2>1, <2>2 DEF activate_publisher, Solid, BondsBacked
<1>3. ASSUME NEW p \in Publishers, NEW prices, submit_price_update(p, Today - 1, prices)
      PROVE  Solid'
  <2>. DEFINE day == Today - 1
              account == Present(publisher[p], day)
  <2>1. day \in Nat
    BY <1>0 DEF TodayType
  <2>2. publisher' = [publisher EXCEPT ![p] = account]
    BY <1>3 DEF submit_price_update, Solid
  <2>. HIDE DEF day
  <2>3. account \in Accounts /\ account.bond = publisher[p].bond
    BY <2>1, PresentType DEF Solid
  <2>. HIDE DEF account
  <2>. QED  BY <1>3, <2>2, <2>3 DEF submit_price_update, Solid, BondsBacked
<1>4. ASSUME NEW u \in Users, NEW p \in Publishers, NEW c \in Constituents,
             open_challenge(u, p, c)
      PROVE  Solid'
  BY <1>4 DEF open_challenge, bonds, Solid, Targeted, BondsBacked
<1>5. ASSUME NEW x \in challenge, NEW payee \in Users, challenge_succeeds(x, payee)
      PROVE  Solid'
  <2>1. PICK amount \in Int, status \in Statuses \cup {"None"} :
          /\ bond_vault[x.target] >= amount
          /\ Slash(x.target, amount, status, publisher[x.target].tier)
    BY <1>5, SucceedsIsSlash
  <2>2. x.target \in Publishers /\ publisher[x.target].tier \in 0..3
    BY DEF Solid, Targeted, Accounts
  <2>3. Targeted(challenge')
    BY <1>5, ResolvedTargets DEF challenge_succeeds, Solid
  <2>. QED  BY <2>1, <2>2, <2>3, SlashKeepsSolid
<1>6. ASSUME NEW x \in challenge, challenge_fails(x)
      PROVE  Solid'
  <2>1. PICK amount \in Int, status \in Statuses \cup {"None"} :
          /\ bond_vault[x.target] >= amount
          /\ Slash(x.target, amount, status, publisher[x.target].tier)
    BY <1>6, FailsIsRefill
  <2>2. x.target \in Publishers /\ publisher[x.target].tier \in 0..3
    BY DEF Solid, Targeted, Accounts
  <2>3. Targeted(challenge')
    BY <1>6, ResolvedTargets DEF challenge_fails, Solid
  <2>. QED  BY <2>1, <2>2, <2>3, SlashKeepsSolid
<1>7. ASSUME NEW p \in Publishers, slash_for_liveness(p)
      PROVE  Solid'
  <2>. DEFINE tier == days_absent_to_tier(DaysAbsent(p))
  <2>1. PICK amount \in Int, status \in Statuses \cup {"None"} :
          bond_vault[p] >= amount /\ Slash(p, amount, status, tier)
    BY <1>7, LivenessIsSlash
  <2>2. tier \in 0..3
    BY <1>7, LivenessIsSlash
  <2>3. Targeted(challenge')
    BY <1>7 DEF slash_for_liveness, Solid
  <2>. HIDE DEF tier
  <2>. QED  BY <2>1, <2>2, <2>3, SlashKeepsSolid
<1>8. ASSUME NEW d \in Durations, Elapse(d)
      PROVE  Solid'
  BY <1>8 DEF Elapse, bonds, Solid, BondsBacked
<1>9. CASE UNCHANGED <<bonds, update, challenge, clock>>
  BY <1>9 DEF bonds, Solid, BondsBacked
<1>. QED  BY <1>1, <1>2, <1>3, <1>4, <1>5, <1>6, <1>7, <1>8, <1>9, Instructions

-----------------------------------------------------------------------------
(* Attendance.                                                             *)

LEMMA AttendanceInit == Init => Attendance
<1>1. START \in Nat /\ START >= DAY
  BY OracleAssumption
<1>2. ASSUME clock = START PROVE TodayType
  BY <1>1, <1>2, TodayPositive
<1>. QED  BY <1>1, <1>2 DEF Init, Attendance, TodayType, NoPublisher

(* Instructions that leave accounts' last day, updates and time alone. *)
LEMMA AttendanceKept ==
  ASSUME Attendance, UNCHANGED <<update, clock>>,
         \A q \in Publishers : publisher'[q].last_day = publisher[q].last_day
  PROVE  Attendance'
  BY DEF Attendance, Today

LEMMA AttendanceNext ==
  ASSUME Solid, Attendance, [AnyNext]_vars
  PROVE  Attendance'
<1>0. TodayType
  BY TodayPositive DEF Attendance
<1>1. ASSUME NEW p \in Publishers, register_publisher(p)
      PROVE  Attendance'
  <2>1. publisher'[p].last_day = 0 /\ \A q \in Publishers : q # p => publisher'[q] = publisher[q]
    BY <1>1 DEF register_publisher, Solid
  <2>2. publisher[p].last_day = 0 /\ UNCHANGED <<update, clock>>
    BY <1>1 DEF register_publisher, NoPublisher
  <2>. QED  BY <2>1, <2>2, AttendanceKept
<1>2. ASSUME NEW p \in Publishers, activate_publisher(p)
      PROVE  Attendance'
  <2>1. /\ publisher'[p].last_day = publisher[p].last_day
        /\ \A q \in Publishers : q # p => publisher'[q] = publisher[q]
    BY <1>2 DEF activate_publisher, Solid, Accounts
  <2>. QED  BY <1>2, <2>1, AttendanceKept DEF activate_publisher
<1>3. ASSUME NEW p \in Publishers, NEW prices, submit_price_update(p, Today - 1, prices)
      PROVE  Attendance'
  <2>. DEFINE day == Today - 1
              account == Present(publisher[p], day)
              new == [publisher |-> p, day |-> day, prices |-> prices]
  <2>1. day \in Nat /\ day < Today /\ \A q \in Publishers : publisher[q].last_day <= day
    BY <1>0 DEF TodayType, Attendance, Solid, Accounts
  <2>2. publisher' = [publisher EXCEPT ![p] = account] /\ update' = update \cup {new}
    BY <1>3 DEF submit_price_update, Solid
  <2>3. clock' = clock /\ Today' = Today
    BY <1>3 DEF submit_price_update, Today
  <2>4. account.last_day = day
    <3>. HIDE DEF day
    <3>. QED  BY <2>1, PresentType DEF Solid
  <2>5. new.publisher = p /\ new.day = day
    OBVIOUS
  <2>. HIDE DEF account, new, day
  <2>6. \A q \in Publishers : publisher'[q].last_day < Today /\ publisher[q].last_day <= publisher'[q].last_day
    BY <2>1, <2>2, <2>4 DEF Solid, Attendance, Accounts
  <2>7. ASSUME NEW u \in update'
        PROVE  u.publisher \in Publishers /\ u.day \in Nat /\ u.day <= publisher'[u.publisher].last_day
    <3>1. CASE u \in update
      <4>1. u.publisher \in Publishers /\ u.day \in Nat /\ u.day <= publisher[u.publisher].last_day
        BY <3>1 DEF Attendance
      <4>2. publisher[u.publisher].last_day \in Nat /\ publisher'[u.publisher].last_day \in Nat
        BY <4>1, <2>1, <2>2, <2>4 DEF Solid, Accounts
      <4>. QED  BY <4>1, <4>2, <2>6
    <3>2. CASE u = new
      BY <3>2, <2>1, <2>2, <2>4, <2>5 DEF Solid
    <3>. QED  BY <2>2, <3>1, <3>2
  <2>. QED  BY <2>3, <2>6, <2>7 DEF Attendance
<1>4. ASSUME NEW u \in Users, NEW p \in Publishers, NEW c \in Constituents,
             open_challenge(u, p, c)
      PROVE  Attendance'
  BY <1>4, AttendanceKept DEF open_challenge, bonds
<1>5. ASSUME NEW x \in challenge, NEW payee \in Users, challenge_succeeds(x, payee)
      PROVE  Attendance'
  <2>1. PICK amount \in Int, status \in Statuses \cup {"None"} :
          /\ bond_vault[x.target] >= amount
          /\ Slash(x.target, amount, status, publisher[x.target].tier)
    BY <1>5, SucceedsIsSlash
  <2>. QED  BY <1>5, <2>1, AttendanceKept, SlashKeepsDays DEF challenge_succeeds
<1>6. ASSUME NEW x \in challenge, challenge_fails(x)
      PROVE  Attendance'
  <2>1. PICK amount \in Int, status \in Statuses \cup {"None"} :
          /\ bond_vault[x.target] >= amount
          /\ Slash(x.target, amount, status, publisher[x.target].tier)
    BY <1>6, FailsIsRefill
  <2>. QED  BY <1>6, <2>1, AttendanceKept, SlashKeepsDays DEF challenge_fails
<1>7. ASSUME NEW p \in Publishers, slash_for_liveness(p)
      PROVE  Attendance'
  <2>1. PICK amount, status, tier : Slash(p, amount, status, tier)
    BY <1>7, LivenessIsSlash
  <2>. QED  BY <1>7, <2>1, AttendanceKept, SlashKeepsDays DEF slash_for_liveness
<1>8. ASSUME NEW d \in Durations, Elapse(d)
      PROVE  Attendance'
  <2>1. d \in Nat /\ DAY \in Nat /\ clock \in Nat /\ clock >= DAY
    BY OracleAssumption DEF Attendance
  <2>2. /\ clock' \in Nat /\ clock <= clock' /\ clock' >= DAY
        /\ UNCHANGED <<publisher, update>>
    BY <1>8, <2>1 DEF Elapse, bonds
  <2>3. Today \in Nat /\ Today' \in Nat /\ Today <= Today'
    <3>1. DAY \in Nat \ {0}
      BY OracleAssumption
    <3>2. \A later \in Nat : clock <= later =>
            clock \div DAY \in Nat /\ clock \div DAY <= later \div DAY
      BY <2>1, <3>1, DivMonotone
    <3>3. \A later \in Nat : later \div DAY \in Nat
      BY <3>1
    <3>. QED  BY <2>2, <3>2, <3>3 DEF Today
  <2>. QED  BY <2>2, <2>3 DEF Attendance, Solid, Accounts
<1>9. CASE UNCHANGED <<bonds, update, challenge, clock>>
  BY <1>9, AttendanceKept DEF bonds
<1>. QED  BY <1>1, <1>2, <1>3, <1>4, <1>5, <1>6, <1>7, <1>8, <1>9, Instructions

LEMMA DaysAbsentType ==
  ASSUME Solid, Attendance, NEW p \in Publishers
  PROVE  DaysAbsent(p) \in Nat /\ DaysAbsent(p) = Today - publisher[p].last_day
<1>1. Today \in Nat \ {0}
  BY TodayPositive DEF Attendance, TodayType
<1>2. publisher[p].last_day \in Nat /\ publisher[p].last_day < Today
  BY DEF Solid, Accounts, Attendance
<1>. QED  BY <1>1, <1>2 DEF DaysAbsent

-----------------------------------------------------------------------------
(* Theorems.                                                               *)

(* Accounts and updates, in every behaviour: the strengthening the         *)
(* theorems about single steps start from.                                 *)
LEMMA AccountsHold == AnySpec => [](Solid /\ Attendance)
<1>1. Init => Solid /\ Attendance
  BY SolidInit, AttendanceInit
<1>2. Solid /\ Attendance /\ [AnyNext]_vars => (Solid /\ Attendance)'
  BY SolidNext, AttendanceNext
<1>. QED  BY <1>1, <1>2, PTL DEF AnySpec

LEMMA BondsAny == AnySpec => []BondsBacked
<1>1. Solid /\ Attendance => BondsBacked
  BY DEF Solid
<1>. QED  BY <1>1, AccountsHold, PTL

(* For any number of publishers and challengers, any bonds and any order   *)
(* of resolutions, refills and liveness slashes, each vault holds exactly  *)
(* the bond the next slash is computed on (programs/oracle resolve_        *)
(* challenge and slash_for_liveness).                                      *)
THEOREM BondsHold == Spec => []BondsBacked
  BY BondsAny, SpecIsAny, PTL

LEMMA AttendanceAny == AnySpec => PresentNotSlashed
<1>. DEFINE Absent == \A p \in Publishers : slash_for_liveness(p) =>
                        \A u \in update : u.publisher = p => u.day + 2 < Today
<1>1. ASSUME Solid, Attendance, [AnyNext]_vars
      PROVE  Absent
  <2>. SUFFICES ASSUME NEW p \in Publishers, slash_for_liveness(p),
                       NEW u \in update, u.publisher = p
                PROVE  u.day + 2 < Today
    OBVIOUS
  <2>1. Today \in Nat \ {0}
    BY <1>1, TodayPositive DEF Attendance, TodayType
  <2>2. DaysAbsent(p) \in Nat /\ DaysAbsent(p) = Today - publisher[p].last_day
    BY <1>1, DaysAbsentType
  <2>3. DaysAbsent(p) >= 3
    <3>1. days_absent_to_tier(DaysAbsent(p)) \in 1..3
      BY <1>1, LivenessIsSlash
    <3>. QED  BY <2>2, <3>1, AbsenceTiers
  <2>4. u.day \in Nat /\ u.day <= publisher[p].last_day /\ publisher[p].last_day \in Nat
    BY <1>1 DEF Attendance, Solid, Accounts
  <2>. QED  BY <2>1, <2>2, <2>3, <2>4
<1>2. ASSUME Solid, Attendance, [AnyNext]_vars
      PROVE  [Absent]_vars
  BY <1>1, <1>2
<1>. QED  BY <1>2, AccountsHold, PTL DEF AnySpec, PresentNotSlashed

(* A publisher with an update for yesterday or the day before is not       *)
(* slashed for absence, whoever calls slash_for_liveness and when.         *)
THEOREM AttendanceProtects == Spec => PresentNotSlashed
  BY AttendanceAny, SpecIsAny, PTL


(* The tier of an account against a day: what TierOfThisAbsence says of it. *)
Tiered(account, day) == account.tier <= days_absent_to_tier(day - account.last_day)

LEMMA TieredLater ==
  ASSUME NEW account \in Accounts, NEW day \in Nat, NEW later \in Nat,
         account.last_day < day, day <= later, Tiered(account, day)
  PROVE  Tiered(account, later)
<1>. DEFINE d == day - account.last_day
            e == later - account.last_day
<1>1. d \in Nat /\ e \in Nat /\ d <= e
  BY DEF Accounts
<1>2. account.tier <= days_absent_to_tier(d) /\ account.tier \in 0..3
  BY DEF Tiered, Accounts
<1>. HIDE DEF d, e
<1>3. account.tier <= days_absent_to_tier(e)
  <2>1. days_absent_to_tier(d) \in 0..3 /\ days_absent_to_tier(e) \in 0..3
    BY <1>1, AbsenceTiers
  <2>2. days_absent_to_tier(d) <= days_absent_to_tier(e)
    BY <1>1, AbsenceTiers
  <2>. QED  BY <1>2, <2>1, <2>2
<1>. QED  BY <1>3 DEF Tiered, e

LEMMA TierZero ==
  ASSUME NEW account, account.tier = 0, NEW day
  PROVE  Tiered(account, day)
<1>1. days_absent_to_tier(day - account.last_day) \in {0, 1, 2, 3}
  BY DEF days_absent_to_tier
<1>. QED  BY <1>1 DEF Tiered

LEMMA TieredIsTier ==
  ASSUME Solid, Attendance
  PROVE  TierOfThisAbsence <=> \A p \in Publishers : Tiered(publisher[p], Today)
  BY DaysAbsentType DEF TierOfThisAbsence, Tiered

LEMMA TierNext ==
  ASSUME Solid, Attendance, [AnyNext]_vars, \A p \in Publishers : Tiered(publisher[p], Today)
  PROVE  \A p \in Publishers : Tiered(publisher'[p], Today')
<1>. DEFINE Goal == \A p \in Publishers : Tiered(publisher'[p], Today')
<1>1. ASSUME NEW p \in Publishers, register_publisher(p)
      PROVE  Goal
  <2>1. publisher'[p].tier = 0 /\ \A q \in Publishers : q # p => publisher'[q] = publisher[q]
    BY <1>1 DEF register_publisher, Solid
  <2>2. Today' = Today
    BY <1>1 DEF register_publisher, Today
  <2>. QED  BY <2>1, <2>2, TierZero
<1>2. ASSUME NEW p \in Publishers, activate_publisher(p)
      PROVE  Goal
  <2>1. /\ publisher'[p].last_day = publisher[p].last_day /\ publisher'[p].tier = publisher[p].tier
        /\ \A q \in Publishers : q # p => publisher'[q] = publisher[q]
    BY <1>2 DEF activate_publisher, Solid, Accounts
  <2>2. Today' = Today
    BY <1>2 DEF activate_publisher, Today
  <2>. QED  BY <2>1, <2>2 DEF Tiered
<1>3. ASSUME NEW p \in Publishers, NEW prices, submit_price_update(p, Today - 1, prices)
      PROVE  Goal
  <2>1. /\ publisher'[p].tier = 0
        /\ \A q \in Publishers : q # p => publisher'[q] = publisher[q]
    BY <1>3 DEF submit_price_update, Present, Solid, Accounts
  <2>2. Today' = Today
    BY <1>3 DEF submit_price_update, Today
  <2>. QED  BY <2>1, <2>2, TierZero
<1>4. ASSUME NEW u \in Users, NEW p \in Publishers, NEW c \in Constituents,
             open_challenge(u, p, c)
      PROVE  Goal
  BY <1>4 DEF open_challenge, bonds, Today
<1>5. ASSUME NEW p \in Publishers, NEW amount \in Int, NEW status \in Statuses \cup {"None"},
             bond_vault[p] >= amount, Slash(p, amount, status, publisher[p].tier), clock' = clock
      PROVE  Goal
  <2>1. /\ publisher'[p].last_day = publisher[p].last_day /\ publisher'[p].tier = publisher[p].tier
        /\ \A q \in Publishers : q # p => publisher'[q] = publisher[q]
    BY <1>5 DEF Slash, Solid, Accounts
  <2>2. Today' = Today
    BY <1>5 DEF Today
  <2>. QED  BY <2>1, <2>2 DEF Tiered
<1>6. ASSUME NEW x \in challenge, NEW payee \in Users, challenge_succeeds(x, payee)
      PROVE  Goal
  <2>1. x.target \in Publishers /\ clock' = clock
    BY <1>6 DEF Solid, Targeted, challenge_succeeds
  <2>. QED  BY <1>5, <1>6, <2>1, SucceedsIsSlash
<1>7. ASSUME NEW x \in challenge, challenge_fails(x)
      PROVE  Goal
  <2>1. x.target \in Publishers /\ clock' = clock
    BY <1>7 DEF Solid, Targeted, challenge_fails
  <2>. QED  BY <1>5, <1>7, <2>1, FailsIsRefill
<1>8. ASSUME NEW p \in Publishers, slash_for_liveness(p)
      PROVE  Goal
  <2>. DEFINE tier == days_absent_to_tier(DaysAbsent(p))
  <2>1. PICK amount, status : Slash(p, amount, status, tier)
    BY <1>8, LivenessIsSlash
  <2>2. tier \in 1..3 /\ tier = days_absent_to_tier(Today - publisher[p].last_day)
    BY <1>8, LivenessIsSlash, DaysAbsentType
  <2>3. Today' = Today
    BY <1>8 DEF slash_for_liveness, Today
  <2>. HIDE DEF tier
  <2>4. /\ publisher'[p].last_day = publisher[p].last_day /\ publisher'[p].tier = tier
        /\ \A q \in Publishers : q # p => publisher'[q] = publisher[q]
    BY <2>1 DEF Slash, Solid, Accounts
  <2>. QED  BY <2>2, <2>3, <2>4 DEF Tiered
<1>9. ASSUME NEW d \in Durations, Elapse(d)
      PROVE  Goal
  <2>1. publisher' = publisher /\ Attendance' /\ Attendance
    BY <1>9, AttendanceNext DEF Elapse, bonds
  <2>2. Today \in Nat /\ Today' \in Nat /\ Today <= Today'
    <3>1. DAY \in Nat \ {0} /\ d \in Nat /\ clock \in Nat
      BY OracleAssumption DEF Attendance
    <3>2. clock' \in Nat /\ clock <= clock'
      BY <1>9, <3>1 DEF Elapse
    <3>3. \A later \in Nat : clock <= later =>
            clock \div DAY \in Nat /\ clock \div DAY <= later \div DAY
      BY <3>1, DivMonotone
    <3>4. \A later \in Nat : later \div DAY \in Nat
      BY <3>1
    <3>. QED  BY <3>2, <3>3, <3>4 DEF Today
  <2>3. \A p \in Publishers : publisher[p] \in Accounts /\ publisher[p].last_day < Today
    BY DEF Solid, Attendance
  <2>. HIDE DEF Goal
  <2>4. \A p \in Publishers : Tiered(publisher[p], Today')
    BY <2>2, <2>3, TieredLater
  <2>. QED  BY <2>1, <2>4 DEF Goal
<1>10. CASE UNCHANGED <<bonds, update, challenge, clock>>
  BY <1>10 DEF bonds, Today
<1>. QED  BY <1>1, <1>2, <1>3, <1>4, <1>6, <1>7, <1>8, <1>9, <1>10, Instructions

LEMMA TiersAny == AnySpec => []TierOfThisAbsence
<1>. DEFINE Inv == Solid /\ Attendance /\ TierOfThisAbsence
            AllTiered == \A p \in Publishers : Tiered(publisher[p], Today)
<1>a. Solid /\ Attendance /\ AllTiered => TierOfThisAbsence
  BY TieredIsTier
<1>b. (Solid /\ Attendance /\ AllTiered => TierOfThisAbsence)'
  BY <1>a, PTL
<1>1. Init => Inv
  <2>1. ASSUME Init PROVE \A p \in Publishers : Tiered(publisher[p], Today)
    BY <2>1, TierZero DEF Init, NoPublisher
  <2>. QED  BY <2>1, SolidInit, AttendanceInit, TieredIsTier
<1>2. Inv /\ [AnyNext]_vars => Inv'
  <2>. SUFFICES ASSUME Inv, [AnyNext]_vars PROVE Inv'
    OBVIOUS
  <2>1. Solid' /\ Attendance'
    BY SolidNext, AttendanceNext
  <2>2. \A p \in Publishers : Tiered(publisher'[p], Today')
    BY TierNext, TieredIsTier
  <2>3. TierOfThisAbsence'
    BY <1>b, <2>1, <2>2
  <2>. QED  BY <2>1, <2>3
<1>3. Inv => TierOfThisAbsence
  OBVIOUS
<1>. QED  BY <1>1, <1>2, <1>3, PTL DEF AnySpec

(* The tier a publisher was slashed for is one the present absence has     *)
(* reached: no slash is repeated within a tier of one absence, and none    *)
(* carries over from an earlier one (last_liveness_slash_tier).            *)
THEOREM TiersHold == Spec => []TierOfThisAbsence
  BY TiersAny, SpecIsAny, PTL

-----------------------------------------------------------------------------
(* Base prices and the feed.  Both need only the shape of two accounts.    *)

RegistryShape ==
  /\ registry = [live |-> registry.live, card |-> registry.card, base |-> registry.base,
                 version |-> registry.version, effective_day |-> registry.effective_day]
  /\ registry.card = [c \in Constituents |-> registry.card[c]]
  /\ registry.base = [c \in Constituents |-> registry.base[c]]

IndexShape ==
  /\ index = [status |-> index.status, day |-> index.day, prices |-> index.prices,
              value |-> index.value, at |-> index.at]
  /\ index.status = "Provisional" => index.at = written
  /\ written \in Nat /\ clock \in Nat

(* The instructions that touch registry, index or time. *)
LEMMA FeedInstructions ==
  ASSUME [AnyNext]_vars
  PROVE  \/ initialize_registry
         \/ \E c \in Constituents : \E card, base : update_constituent(c, card, base)
         \/ \E day : finalize_registry_update(day)
         \/ \E day, chosen : aggregate_day(day, chosen)
         \/ finalize_day
         \/ \E d \in Durations : Elapse(d)
         \/ UNCHANGED <<registry, feed, clock>>
<1>1. CASE AdminSteps
  BY <1>1 DEF AdminSteps, set_protocol_treasury, register_publisher, activate_publisher,
              emergency_pause
<1>2. CASE FeedSteps
  BY <1>2 DEF FeedSteps, submit_price_update
<1>3. CASE DisputeSteps
  BY <1>3 DEF DisputeSteps, open_challenge, challenge_succeeds, challenge_fails,
              slash_for_liveness
<1>4. CASE UNCHANGED vars
  BY <1>4 DEF vars
<1>5. ASSUME NEW p, NEW prices, submit_price_update(p, Today - 1, prices)
      PROVE  UNCHANGED <<registry, feed, clock>>
  BY <1>5 DEF submit_price_update
<1>. QED  BY <1>1, <1>2, <1>3, <1>4, <1>5 DEF Next, AnyNext

BaseKept ==
  \A c \in Constituents :
    registry.base[c] # 0 /\ registry'.card[c] = registry.card[c]
      => registry'.base[c] = registry.base[c]

LEMMA RegistryStep ==
  ASSUME RegistryShape, [AnyNext]_vars
  PROVE  RegistryShape' /\ BaseKept
<1>1. CASE initialize_registry
  BY <1>1 DEF initialize_registry, RegistryShape, BaseKept
<1>2. ASSUME NEW c \in Constituents, NEW card, NEW base, update_constituent(c, card, base)
      PROVE  RegistryShape' /\ BaseKept
  <2>. DEFINE cards == [registry.card EXCEPT ![c] = card]
              bases == [registry.base EXCEPT ![c] = BaseAfterUpdate(c, card, base)]
  <2>1. registry' = [live |-> registry.live, card |-> cards, base |-> bases,
                     version |-> registry.version,
                     effective_day |-> registry.effective_day]
    BY <1>2 DEF update_constituent, RegistryShape
  <2>2. /\ cards = [i \in Constituents |-> IF i = c THEN card ELSE registry.card[i]]
        /\ bases = [i \in Constituents |->
                      IF i = c THEN BaseAfterUpdate(c, card, base) ELSE registry.base[i]]
    BY DEF RegistryShape
  <2>3. RegistryShape'
    <3>. HIDE DEF cards, bases
    <3>. QED  BY <2>1, <2>2 DEF RegistryShape
  <2>4. BaseKept
    BY <2>1, <2>2 DEF BaseKept, BaseAfterUpdate
  <2>. QED  BY <2>3, <2>4
<1>3. ASSUME NEW day, finalize_registry_update(day)
      PROVE  RegistryShape' /\ BaseKept
  BY <1>3 DEF finalize_registry_update, RegistryShape, BaseKept
<1>4. ASSUME NEW day, NEW chosen, aggregate_day(day, chosen)
      PROVE  RegistryShape' /\ BaseKept
  <2>. DEFINE prices == AggregatedPrices(chosen)
              bases == Linked(prices)
  <2>1. registry' = [live |-> registry.live, card |-> registry.card, base |-> bases,
                     version |-> registry.version,
                     effective_day |-> registry.effective_day]
    BY <1>4 DEF aggregate_day, RegistryShape
  <2>2. bases = [i \in Constituents |->
                  IF registry.base[i] = 0 THEN prices[i] ELSE registry.base[i]]
    BY DEF Linked
  <2>. HIDE DEF bases, prices
  <2>. QED  BY <2>1, <2>2 DEF RegistryShape, BaseKept
<1>5. CASE UNCHANGED registry
  BY <1>5 DEF RegistryShape, BaseKept
<1>. QED  BY <1>1, <1>2, <1>3, <1>4, <1>5, FeedInstructions DEF finalize_day, Elapse

LEMMA BasesAny == AnySpec => BasePriceKept
<1>1. Init => RegistryShape
  BY DEF Init, RegistryShape
<1>2. RegistryShape /\ [AnyNext]_vars => RegistryShape' /\ [BaseKept]_vars
  BY RegistryStep
<1>. QED  BY <1>1, <1>2, PTL DEF AnySpec, BasePriceKept, BaseKept

(* Chain-linking holds for any registry and any prices: no re-aggregation  *)
(* and no update of the registry moves the base of a card that stays in    *)
(* its slot (aggregate_day and update_constituent).                        *)
THEOREM BasesHold == Spec => BasePriceKept
  BY BasesAny, SpecIsAny, PTL

LEMMA FeedStep ==
  ASSUME IndexShape, [AnyNext]_vars
  PROVE  IndexShape' /\ [Feed!FeedNext]_(Feed!feedVars)
<1>. USE DEF Feed!feedVars, Feed!FeedNext
<1>1. ASSUME NEW day, NEW chosen, aggregate_day(day, chosen)
      PROVE  IndexShape' /\ Feed!Write
  <2>. DEFINE prices == AggregatedPrices(chosen)
              value == IndexValue(prices, Linked(prices))
  <2>1. /\ index' = Provisional(day, prices, value)
        /\ written' = clock /\ clock' = clock
    BY <1>1 DEF aggregate_day
  <2>. HIDE DEF prices, value
  <2>. QED  BY <2>1 DEF Provisional, IndexShape, Feed!Write
<1>2. ASSUME finalize_day
      PROVE  IndexShape' /\ Feed!Finalize
  <2>1. /\ index.status = "Provisional" /\ clock - index.at >= CHALLENGE_WINDOW
        /\ UNCHANGED <<written, clock>>
    BY <1>2 DEF finalize_day
  <2>2. index' = [status |-> "Final", day |-> index.day, prices |-> index.prices,
                  value |-> index.value, at |-> clock]
    BY <1>2 DEF finalize_day, IndexShape
  <2>. QED  BY <2>1, <2>2 DEF IndexShape, Feed!Finalize
<1>3. ASSUME NEW d \in Durations, Elapse(d)
      PROVE  IndexShape' /\ Feed!Tick
  <2>1. d \in Nat /\ UNCHANGED <<index, written>> /\ clock' = clock + d
    BY <1>3, OracleAssumption DEF Elapse, feed
  <2>. QED  BY <2>1 DEF IndexShape, Feed!Tick
<1>4. CASE UNCHANGED <<feed, clock>>
  BY <1>4 DEF feed, IndexShape
<1>. QED  BY <1>1, <1>2, <1>3, <1>4, FeedInstructions
          DEF initialize_registry, update_constituent, finalize_registry_update

LEMMA FeedAny == AnySpec => ImplementsFeed
<1>1. Init => IndexShape /\ Feed!FeedInit
  BY OracleAssumption DEF Init, IndexShape, Feed!FeedInit
<1>2. IndexShape /\ [AnyNext]_vars => IndexShape' /\ [Feed!FeedNext]_(Feed!feedVars)
  BY FeedStep
<1>. QED  BY <1>1, <1>2, PTL DEF AnySpec, ImplementsFeed, Feed!FeedSpec

(* Whoever reads IndexState may rely on IndexFeed: with any publishers,    *)
(* challenges and re-aggregations, a value called final is the one written *)
(* a challenge window or more ago (aggregate_day and finalize_day).        *)
THEOREM FeedImplemented == Spec => ImplementsFeed
  BY FeedAny, SpecIsAny, PTL

(* What the abstract feed guarantees, for any challenge window and any     *)
(* program that implements it.                                             *)
LEMMA FeedStands == Feed!FeedSpec => []Feed!FinalHasStood
<1>. DEFINE Inv == clock \in Nat /\ written \in Nat /\ Feed!FinalHasStood
<1>. USE DEF Feed!FinalHasStood
<1>1. Feed!FeedInit => Inv
  BY DEF Feed!FeedInit
<1>2. Inv /\ [Feed!FeedNext]_(Feed!feedVars) => Inv'
  <2>. SUFFICES ASSUME Inv, [Feed!FeedNext]_(Feed!feedVars) PROVE Inv'
    OBVIOUS
  <2>1. CASE Feed!Write
    BY <2>1 DEF Feed!Write
  <2>2. CASE Feed!Finalize
    BY <2>2 DEF Feed!Finalize
  <2>3. CASE Feed!Tick
    <3>1. clock' \in Nat /\ clock' >= clock /\ written' = written /\ index'.status = index.status
      BY <2>3 DEF Feed!Tick
    <3>2. \A n, m, w \in Nat : m >= n /\ n - w >= CHALLENGE_WINDOW => m - w >= CHALLENGE_WINDOW
      BY OracleAssumption
    <3>3. clock - written >= CHALLENGE_WINDOW => clock' - written' >= CHALLENGE_WINDOW
      BY <3>1, <3>2
    <3>. QED  BY <3>1, <3>3
  <2>4. CASE UNCHANGED Feed!feedVars
    BY <2>4 DEF Feed!feedVars
  <2>. QED  BY <2>1, <2>2, <2>3, <2>4 DEF Feed!FeedNext
<1>. QED  BY <1>1, <1>2, PTL DEF Feed!FeedSpec

(* An index called final has stood for a challenge window: everybody had   *)
(* the time to challenge it (finalize_day).                                *)
THEOREM FinalStands == Spec => []Feed!FinalHasStood
  BY FeedImplemented, FeedStands, PTL DEF ImplementsFeed
-----------------------------------------------------------------------------
(* Aggregation.  The k-th smallest listed price is one of those listed;    *)
(* the majority of the listings has a price that is as low, and one that   *)
(* is as high.                                                             *)

LEMMA CopiesAre ==
  ASSUME NEW D, IsFiniteSet(D), NEW chosen \in [D -> Nat]
  PROVE  /\ \A S \in SUBSET D : Copies(chosen, S) \in Nat
         /\ \A S \in SUBSET D : Copies(chosen, D) = Copies(chosen, S) + Copies(chosen, D \ S)
         /\ \A S \in SUBSET D : \A T \in SUBSET S : Copies(chosen, T) <= Copies(chosen, S)
         /\ Copies(chosen, {}) = 0
<1>1. ASSUME NEW S \in SUBSET D
      PROVE  IsFiniteSet(S) /\ Copies(chosen, S) = SumOf(chosen, S) /\ SumOf(chosen, S) \in Nat
  <2>1. IsFiniteSet(S)
    BY FS_Subset
  <2>2. Copies(chosen, S) = Folded(chosen, S)
    BY DEF Copies, Folded
  <2>. QED  BY <2>1, <2>2, FoldedIsSum, SumType
<1>2. ASSUME NEW S \in SUBSET D, NEW T \in SUBSET S
      PROVE  Copies(chosen, S) = Copies(chosen, T) + Copies(chosen, S \ T)
  <2>1. SumOf(chosen, S) = SumOf(chosen, T) + SumOf(chosen, S \ T)
    BY <1>1, SumSplit
  <2>2. T \in SUBSET D /\ (S \ T) \in SUBSET D
    OBVIOUS
  <2>. QED  BY <1>1, <2>1, <2>2
<1>3. ASSUME NEW S \in SUBSET D, NEW T \in SUBSET S
      PROVE  Copies(chosen, T) <= Copies(chosen, S)
  <2>1. Copies(chosen, T) \in Nat /\ Copies(chosen, S \ T) \in Nat
    BY <1>1
  <2>. QED  BY <1>2, <2>1
<1>. QED  BY <1>1, <1>2, <1>3, SumEmpty

(* The update accounts with a price of at most `price` for a constituent. *)
UpTo(D, c, price) == {u \in D : u.prices[c] <= price}

LEMMA RankedIs ==
  ASSUME NEW D, IsFiniteSet(D), NEW chosen \in [D -> Nat], NEW c,
         \A u \in D : u.prices[c] \in Nat,
         NEW k \in Nat \ {0}, k <= Copies(chosen, D)
  PROVE  /\ \E u \in D : Ranked(chosen, c, k) = u.prices[c]
         /\ k <= Copies(chosen, UpTo(D, c, Ranked(chosen, c, k)))
         /\ \A u \in D : k <= Copies(chosen, UpTo(D, c, u.prices[c]))
                           => Ranked(chosen, c, k) <= u.prices[c]
<1>. DEFINE price == [u \in D |-> u.prices[c]]
            enough == {v \in D : Copies(chosen, UpTo(D, c, v.prices[c])) >= k}
            low == {u.prices[c] : u \in enough}
<1>1. \A S \in SUBSET D : Copies(chosen, S) \in Nat
  BY CopiesAre
<1>2. enough # {}
  <2>1. D # {}
    BY CopiesAre
  <2>2. PICK v \in D : \A u \in D : price[u] <= price[v]
    <3>1. \A u \in D : price[u] \in Int
      OBVIOUS
    <3>. HIDE DEF price
    <3>. QED  BY <2>1, <3>1, Extremes
  <2>3. UpTo(D, c, v.prices[c]) = D
    BY <2>2 DEF UpTo
  <2>. QED  BY <1>1, <2>3
<1>3. IsFiniteSet(enough)
  BY FS_Subset
<1>4. PICK v \in enough : \A u \in enough : price[v] <= price[u]
  <2>1. \A u \in enough : price[u] \in Int
    OBVIOUS
  <2>. HIDE DEF price, enough
  <2>. QED  BY <1>2, <1>3, <2>1, Extremes
<1>5. Ranked(chosen, c, k) = Min(low)
  BY DEF Ranked, UpTo
<1>6. Min(low) \in low /\ \A x \in low : Min(low) <= x
  <2>1. \E x \in low : \A y \in low : x <= y
    BY <1>4
  <2>. HIDE DEF low
  <2>. QED  BY <2>1 DEF Min
<1>7. PICK u \in enough : Ranked(chosen, c, k) = u.prices[c]
  BY <1>5, <1>6
<1>8. k <= Copies(chosen, UpTo(D, c, u.prices[c]))
  BY <1>1 DEF UpTo
<1>9. ASSUME NEW x \in D, k <= Copies(chosen, UpTo(D, c, x.prices[c]))
      PROVE  Ranked(chosen, c, k) <= x.prices[c]
  <2>1. Copies(chosen, UpTo(D, c, x.prices[c])) \in Nat
    BY <1>1 DEF UpTo
  <2>2. x \in enough
    BY <1>9, <2>1
  <2>. QED  BY <1>5, <1>6, <2>2
<1>. HIDE DEF enough
<1>10. u \in D
  BY DEF enough
<1>. QED  BY <1>7, <1>8, <1>9, <1>10

(* A rank that the listings of H reach, and those of all others do not,    *)
(* has a price between two of H.                                           *)
LEMMA RankedBetween ==
  ASSUME NEW D, IsFiniteSet(D), NEW chosen \in [D -> Nat], NEW c,
         \A u \in D : u.prices[c] \in Nat,
         NEW H \in SUBSET D, NEW k \in Nat \ {0},
         k <= Copies(chosen, H), Copies(chosen, D) - Copies(chosen, H) < k
  PROVE  /\ Ranked(chosen, c, k) \in Nat
         /\ \E u \in H : u.prices[c] <= Ranked(chosen, c, k)
         /\ \E u \in H : Ranked(chosen, c, k) <= u.prices[c]
<1>. DEFINE r == Ranked(chosen, c, k)
            price == [u \in D |-> u.prices[c]]
<1>1. /\ \A S \in SUBSET D : Copies(chosen, S) \in Nat
      /\ Copies(chosen, D) = Copies(chosen, H) + Copies(chosen, D \ H)
      /\ \A S \in SUBSET D : \A T \in SUBSET S : Copies(chosen, T) <= Copies(chosen, S)
      /\ Copies(chosen, {}) = 0
  BY CopiesAre
<1>2. /\ Copies(chosen, D) \in Nat /\ Copies(chosen, H) \in Nat /\ Copies(chosen, D \ H) \in Nat
      /\ k <= Copies(chosen, D)
  <2>1. D \in SUBSET D /\ (D \ H) \in SUBSET D
    OBVIOUS
  <2>2. Copies(chosen, D) \in Nat /\ Copies(chosen, H) \in Nat /\ Copies(chosen, D \ H) \in Nat
    BY <1>1, <2>1
  <2>. QED  BY <1>1, <2>2
<1>3. /\ \E u \in D : r = u.prices[c]
      /\ k <= Copies(chosen, UpTo(D, c, r))
      /\ \A u \in D : k <= Copies(chosen, UpTo(D, c, u.prices[c])) => r <= u.prices[c]
  BY <1>2, RankedIs
<1>4. r \in Nat
  BY <1>3
<1>. HIDE DEF r
<1>5. ASSUME \A u \in H : ~(u.prices[c] <= r)
      PROVE  FALSE
  <2>1. UpTo(D, c, r) \in SUBSET (D \ H) /\ (D \ H) \in SUBSET D
    BY <1>5 DEF UpTo
  <2>2. Copies(chosen, UpTo(D, c, r)) <= Copies(chosen, D \ H)
    BY <1>1, <2>1
  <2>3. Copies(chosen, UpTo(D, c, r)) \in Nat
    BY <1>1, <2>1
  <2>4. Copies(chosen, D \ H) < k
    BY <1>1, <1>2
  <2>. QED  BY <1>2, <1>3, <2>2, <2>3, <2>4
<1>6. \E u \in H : r <= u.prices[c]
  <2>1. H # {}
    BY <1>1, <1>2
  <2>2. PICK v \in H : \A u \in H : price[u] <= price[v]
    <3>1. IsFiniteSet(H) /\ \A u \in H : price[u] \in Int
      BY FS_Subset
    <3>. HIDE DEF price
    <3>. QED  BY <2>1, <3>1, Extremes
  <2>3. H \in SUBSET UpTo(D, c, v.prices[c]) /\ UpTo(D, c, v.prices[c]) \in SUBSET D
    BY <2>2 DEF UpTo
  <2>4. Copies(chosen, H) <= Copies(chosen, UpTo(D, c, v.prices[c]))
    BY <1>1, <2>3
  <2>5. Copies(chosen, UpTo(D, c, v.prices[c])) \in Nat
    BY <1>1, <2>3
  <2>6. k <= Copies(chosen, UpTo(D, c, v.prices[c]))
    BY <1>2, <2>4, <2>5
  <2>. QED  BY <1>3, <2>6
<1>. QED  BY <1>4, <1>5, <1>6 DEF r

(* The median lies between two prices of any majority of the listings.     *)
LEMMA MedianBetween ==
  ASSUME NEW D, IsFiniteSet(D), NEW chosen \in [D -> Nat], NEW c,
         \A u \in D : u.prices[c] \in Nat,
         NEW H \in SUBSET D, 2 * Copies(chosen, H) > Copies(chosen, D)
  PROVE  /\ Median(chosen, c) \in Nat
         /\ \E u \in H : u.prices[c] <= Median(chosen, c)
         /\ \E u \in H : Median(chosen, c) <= u.prices[c]
<1>. DEFINE n == Copies(chosen, D)
            h == Copies(chosen, H)
            mid == n \div 2
            R(k) == Ranked(chosen, c, k)
            Fits(a) == /\ a \in Nat
                       /\ \E u \in H : u.prices[c] <= a
                       /\ \E u \in H : a <= u.prices[c]
<1>1. n \in Nat /\ h \in Nat /\ h <= n /\ 2 * h > n
  BY CopiesAre
<1>2. Median(chosen, c) = IF n % 2 = 0 THEN (R(mid) + R(mid + 1)) \div 2 ELSE R(mid + 1)
  BY DEF Median
<1>3. ASSUME NEW k \in Nat \ {0}, k <= h, n - h < k
      PROVE  Fits(R(k))
  BY <1>3, RankedBetween
<1>. HIDE DEF n, h, R
<1>4. mid \in Nat /\ mid + 1 \in Nat \ {0} /\ mid + 1 <= h /\ n - h < mid + 1
  BY <1>1
<1>5. n % 2 = 0 => mid \in Nat \ {0} /\ mid <= h /\ n - h < mid
  BY <1>1
<1>. HIDE DEF mid
<1>6. CASE n % 2 = 0
  <2>1. PICK a, b : a = R(mid) /\ b = R(mid + 1)
    OBVIOUS
  <2>2. Fits(a) /\ Fits(b)
    BY <1>3, <1>4, <1>5, <1>6, <2>1
  <2>3. PICK m : m = (a + b) \div 2
    OBVIOUS
  <2>4. /\ m \in Nat
        /\ a <= b => a <= m /\ m <= b
        /\ b <= a => b <= m /\ m <= a
    BY <2>2, <2>3
  <2>5. \E u \in H : u.prices[c] <= m
    BY <2>2, <2>4
  <2>6. \E u \in H : m <= u.prices[c]
    BY <2>2, <2>4
  <2>. QED  BY <1>2, <1>6, <2>1, <2>3, <2>4, <2>5, <2>6
<1>7. CASE n % 2 # 0
  BY <1>2, <1>3, <1>4, <1>7
<1>. QED  BY <1>6, <1>7
-----------------------------------------------------------------------------
(* Types.  Every account's fields stay what they can hold.                 *)

LEMMA ChosenIs ==
  ASSUME IsFiniteSet(update), \A u \in update : u.prices \in PriceLists,
         NEW day, NEW chosen \in [UpdatesOf(day) -> 0..MAX_REPEATS]
  PROVE  /\ IsFiniteSet(DOMAIN chosen) /\ chosen \in [DOMAIN chosen -> Nat]
         /\ DOMAIN chosen \subseteq update
         /\ \A c \in Constituents : \A u \in DOMAIN chosen : u.prices[c] \in Nat
<1>1. DOMAIN chosen = UpdatesOf(day) /\ UpdatesOf(day) \subseteq update
  BY DEF UpdatesOf
<1>2. IsFiniteSet(DOMAIN chosen)
  BY <1>1, FS_Subset
<1>3. Prices \subseteq Nat
  BY OracleAssumption
<1>4. \A c \in Constituents : \A u \in DOMAIN chosen : u.prices[c] \in Nat
  BY <1>1, <1>3 DEF PriceLists
<1>5. chosen \in [DOMAIN chosen -> Nat]
  <2>1. \A u \in UpdatesOf(day) : chosen[u] \in Nat
    OBVIOUS
  <2>. QED  BY <1>1, <2>1
<1>. QED  BY <1>1, <1>2, <1>4, <1>5

LEMMA PricesType ==
  ASSUME IsFiniteSet(update), \A u \in update : u.prices \in PriceLists,
         NEW day, NEW chosen \in [UpdatesOf(day) -> 0..MAX_REPEATS]
  PROVE  AggregatedPrices(chosen) \in [Constituents -> Nat]
<1>. DEFINE D == DOMAIN chosen
<1>1. /\ IsFiniteSet(D) /\ chosen \in [D -> Nat]
      /\ \A c \in Constituents : \A u \in D : u.prices[c] \in Nat
  BY ChosenIs
<1>2. Copies(chosen, D) \in Nat /\ MIN_PUBLISHERS \in Nat \ {0}
  BY <1>1, CopiesAre, OracleAssumption
<1>. HIDE DEF D
<1>3. ASSUME NEW c \in Constituents, ~(Copies(chosen, D) < MIN_PUBLISHERS)
      PROVE  Median(chosen, c) \in Nat
  <2>1. 2 * Copies(chosen, D) > Copies(chosen, D)
    BY <1>2, <1>3
  <2>. QED  BY <1>1, <2>1, MedianBetween
<1>. QED  BY <1>3 DEF AggregatedPrices, D

LEMMA ValueType ==
  ASSUME NEW prices \in [Constituents -> Nat], NEW base \in [Constituents -> Nat]
  PROVE  IndexValue(prices, base) \in Nat
<1>. DEFINE w == [c \in Constituents |->
                   IF prices[c] = 0 \/ base[c] = 0 THEN UNIT ELSE (prices[c] * UNIT) \div base[c]]
            ratio(c) == IF prices[c] = 0 \/ base[c] = 0
                        THEN UNIT ELSE (prices[c] * UNIT) \div base[c]
            Is(g) == g = [s \in SUBSET Constituents |->
                            IF s = {} THEN 0 ELSE ratio(Pick(s)) + g[s \ {Pick(s)}]]
            fold == CHOOSE g : Is(g)
<1>1. IsFiniteSet(Constituents) /\ Cardinality(Constituents) \in Nat \ {0} /\ UNIT \in Nat
  BY OracleAssumption, FS_CardinalityType, FS_EmptySet
<1>2. ASSUME NEW c \in Constituents PROVE w[c] \in Nat
  <2>1. prices[c] * UNIT \in Nat /\ base[c] \in Nat
    BY <1>1
  <2>2. \A a \in Nat, b \in Nat \ {0} : a \div b \in Nat
    OBVIOUS
  <2>. QED  BY <1>1, <2>1, <2>2
<1>3. ASSUME NEW g PROVE Is(g) <=> Adds(w, Constituents, g)
  <2>1. ASSUME NEW s \in SUBSET Constituents, s # {} PROVE ratio(Pick(s)) = w[Pick(s)]
    <3>1. Pick(s) \in Constituents
      BY <2>1, PickIn
    <3>. QED  BY <3>1
  <2>. HIDE DEF w, ratio
  <2>. QED  BY <2>1 DEF Adds
<1>4. Is(fold)
  <2>1. \E g : Is(g)
    BY <1>1, <1>3, AddsExists
  <2>. HIDE DEF Is
  <2>. QED  BY <2>1
<1>5. fold[Constituents] = SumOf(w, Constituents)
  <2>. HIDE DEF fold, Is, w
  <2>1. Adds(w, Constituents, fold)
    BY <1>3, <1>4
  <2>. QED  BY <1>1, <2>1, AddsIsSum
<1>6. IndexValue(prices, base) = (1000 * fold[Constituents]) \div Cardinality(Constituents)
  BY DEF IndexValue, MapThenSumSet, MapThenFoldSet, Pick
<1>7. SumOf(w, Constituents) \in Nat
  <2>. HIDE DEF w
  <2>. QED  BY <1>1, <1>2, SumType
<1>. HIDE DEF w, fold
<1>8. 1000 * SumOf(w, Constituents) \in Nat
  BY <1>7
<1>. QED  BY <1>1, <1>5, <1>6, <1>8

Registries == [live: BOOLEAN, card: [Constituents -> Cards \cup {NoCard}],
               base: [Constituents -> Nat], version: Nat, effective_day: Nat]
Indexes == [status: {"None", "Provisional", "Final"}, day: Nat,
            prices: [Constituents -> Nat], value: Nat, at: Nat]
Challenges == [challenger: Users, target: Publishers, day: Nat, constituent: Constituents,
               status: {"Open", "Succeeded", "Failed"}, escrow: Nat]

(* The accounts that Solid and Attendance do not speak of.  An open        *)
(* challenge still has its whole bond in escrow: only so a resolution can  *)
(* pay it out.                                                             *)
Fields ==
  /\ paused \in BOOLEAN /\ treasury_set \in BOOLEAN
  /\ IsFiniteSet(update) /\ \A u \in update : u.prices \in PriceLists
  /\ registry \in Registries
  /\ index \in Indexes
  /\ \A x \in challenge : x \in Challenges /\ (x.status = "Open" => x.escrow = CHALLENGE_BOND)
  /\ wallet \in [Users -> Nat] /\ treasury_vault \in Nat

LEMMA FieldsInit == Init => Fields
<1>. SUFFICES ASSUME Init PROVE Fields
  OBVIOUS
<1>1. FUNDS \in Nat
  BY OracleAssumption
<1>2. IsFiniteSet(update)
  BY FS_EmptySet DEF Init
<1>3. registry \in Registries
  BY DEF Init, Registries
<1>4. index \in Indexes
  BY DEF Init, Indexes
<1>. QED  BY <1>1, <1>2, <1>3, <1>4 DEF Init, Fields

LEMMA RegistryTyped ==
  ASSUME Fields, TodayType, NEW registered, registered = registry',
         \/ initialize_registry
         \/ \E c \in Constituents, card \in Cards, base \in Prices \cup {0} :
              update_constituent(c, card, base)
         \/ finalize_registry_update(Today)
  PROVE  registered \in Registries
<1>. USE DEF Registries
<1>1. registry \in Registries
  BY DEF Fields
<1>2. CASE initialize_registry
  BY <1>1, <1>2 DEF initialize_registry
<1>3. ASSUME NEW c \in Constituents, NEW card \in Cards, NEW base \in Prices \cup {0},
             update_constituent(c, card, base)
      PROVE  registered \in Registries
  <2>. DEFINE now == BaseAfterUpdate(c, card, base)
              cards == [registry.card EXCEPT ![c] = card]
              bases == [registry.base EXCEPT ![c] = now]
  <2>1. now \in Nat
    BY <1>1, OracleAssumption DEF BaseAfterUpdate
  <2>2. registered = [live |-> registry.live, card |-> cards, base |-> bases,
                      version |-> registry.version, effective_day |-> registry.effective_day]
    BY <1>1, <1>3 DEF update_constituent
  <2>3. cards \in [Constituents -> Cards \cup {NoCard}]
    BY <1>1
  <2>4. bases \in [Constituents -> Nat]
    <3>. HIDE DEF now
    <3>. QED  BY <1>1, <2>1
  <2>. HIDE DEF cards, bases
  <2>. QED  BY <1>1, <2>2, <2>3, <2>4
<1>4. CASE finalize_registry_update(Today)
  <2>1. PICK today \in Nat : today = Today
    BY DEF TodayType
  <2>2. PICK version \in Nat : version = registry.version + 1
    BY <1>1
  <2>3. registered = [registry EXCEPT !.version = version, !.effective_day = today]
    BY <1>1, <1>4, <2>1, <2>2 DEF finalize_registry_update
  <2>. QED  BY <1>1, <2>3
<1>. QED  BY <1>2, <1>3, <1>4

LEMMA AggregateTyped ==
  ASSUME Fields, Attendance, TodayType, NEW day \in AggregatedDays,
         NEW chosen \in [UpdatesOf(day) -> 0..MAX_REPEATS], aggregate_day(day, chosen)
  PROVE  Fields'
<1>. DEFINE prices == AggregatedPrices(chosen)
            base == Linked(prices)
            val == IndexValue(prices, base)
<1>1. prices \in [Constituents -> Nat] /\ registry \in Registries
  BY PricesType DEF Fields
<1>2. base \in [Constituents -> Nat]
  <2>. HIDE DEF prices
  <2>. QED  BY <1>1 DEF Linked, Registries
<1>. HIDE DEF base, prices
<1>3. val \in Nat
  BY <1>1, <1>2, ValueType
<1>4. day \in Nat /\ clock \in Nat
  BY DEF AggregatedDays, Attendance, TodayType
<1>5. registry' = [registry EXCEPT !.base = base] /\ index' = Provisional(day, prices, val)
  BY DEF aggregate_day, prices, base
<1>. HIDE DEF val
<1>6. registry' \in Registries
  BY <1>1, <1>2, <1>5 DEF Registries
<1>7. index' \in Indexes
  BY <1>1, <1>3, <1>4, <1>5 DEF Provisional, Indexes
<1>8. UNCHANGED <<paused, treasury_set, update, challenge, wallet, treasury_vault>>
  BY DEF aggregate_day, config, tokens
<1>. QED  BY <1>6, <1>7, <1>8 DEF Fields

(* Of an open challenge, resolved: its escrow has been paid out. *)
LEMMA ResolvedTyped ==
  ASSUME Fields, NEW x \in challenge, x.status = "Open",
         NEW status \in {"Succeeded", "Failed"}, Resolved(x, status)
  PROVE  \A y \in challenge' : /\ y \in Challenges
                               /\ y.status = "Open" => y.escrow = CHALLENGE_BOND
<1>. DEFINE z == [x EXCEPT !.status = status, !.escrow = 0]
<1>1. x \in Challenges /\ x.escrow = CHALLENGE_BOND /\ CHALLENGE_BOND \in Nat
  BY OracleAssumption DEF Fields
<1>2. challenge' = (challenge \ {x}) \cup {z}
  <2>1. x.escrow - CHALLENGE_BOND = 0
    BY <1>1
  <2>2. challenge' = (challenge \ {x}) \cup
                       {[x EXCEPT !.status = status, !.escrow = x.escrow - CHALLENGE_BOND]}
    BY <1>1 DEF Resolved, Challenges
  <2>. QED  BY <2>1, <2>2
<1>3. z \in Challenges /\ z.status # "Open"
  BY <1>1 DEF Challenges
<1>. HIDE DEF z
<1>. QED  BY <1>2, <1>3 DEF Fields

LEMMA DisputeTyped ==
  ASSUME Fields, Solid, DisputeSteps
  PROVE  Fields'
<1>0. CHALLENGE_BOND \in Nat
  BY OracleAssumption
<1>1. ASSUME NEW u \in Users, NEW p \in Publishers, NEW c \in Constituents,
             open_challenge(u, p, c)
      PROVE  Fields'
  <2>. DEFINE x == [challenger |-> u, target |-> p, day |-> index.day, constituent |-> c,
                    status |-> "Open", escrow |-> CHALLENGE_BOND]
  <2>1. index.day \in Nat
    BY DEF Fields, Indexes
  <2>2. x \in Challenges /\ x.escrow = CHALLENGE_BOND
    BY <1>0, <2>1 DEF Challenges
  <2>3. challenge' = challenge \cup {x}
    BY <1>1 DEF open_challenge
  <2>. HIDE DEF x
  <2>4. wallet' \in [Users -> Nat]
    BY <1>0, <1>1 DEF open_challenge, Fields
  <2>5. UNCHANGED <<paused, treasury_set, update, registry, index, treasury_vault>>
    BY <1>1 DEF open_challenge, config, feed
  <2>. QED  BY <2>2, <2>3, <2>4, <2>5 DEF Fields
<1>2. ASSUME NEW x \in challenge, NEW payee \in Users, challenge_succeeds(x, payee)
      PROVE  Fields'
  <2>. DEFINE amount == SlashedFrom(x.target, Verdict(x))
              share == amount \div 2
  <2>1. amount \in Nat
    <3>1. Verdict(x) \in Nat
      BY VerdictType
    <3>2. x.target \in Publishers
      BY DEF Solid, Targeted
    <3>3. publisher[x.target].bond \in Nat
      BY <3>2 DEF Solid, Accounts
    <3>. QED  BY <3>1, <3>3, BpsType DEF SlashedFrom
  <2>2. /\ wallet' = [wallet EXCEPT ![payee] = @ + share + CHALLENGE_BOND]
        /\ treasury_vault' = treasury_vault + amount - share
        /\ Resolved(x, "Succeeded") /\ x.status = "Open"
        /\ UNCHANGED <<paused, treasury_set, update, registry, index>>
    BY <1>2 DEF challenge_succeeds, Resolvable, config, feed
  <2>. HIDE DEF amount
  <2>3. share \in Nat /\ share <= amount
    BY <2>1
  <2>. HIDE DEF share
  <2>4. wallet' \in [Users -> Nat] /\ treasury_vault' \in Nat
    BY <1>0, <2>1, <2>2, <2>3 DEF Fields
  <2>5. \A y \in challenge' : y \in Challenges /\ (y.status = "Open" => y.escrow = CHALLENGE_BOND)
    BY <2>2, ResolvedTyped
  <2>. QED  BY <2>2, <2>4, <2>5 DEF Fields
<1>3. ASSUME NEW x \in challenge, challenge_fails(x)
      PROVE  Fields'
  <2>. DEFINE share == CHALLENGE_BOND \div 2
  <2>1. /\ treasury_vault' = treasury_vault + CHALLENGE_BOND - share
        /\ Resolved(x, "Failed") /\ x.status = "Open"
        /\ UNCHANGED <<paused, treasury_set, update, registry, index, wallet>>
    BY <1>3 DEF challenge_fails, Resolvable, config, feed
  <2>2. share \in Nat /\ share <= CHALLENGE_BOND
    BY <1>0
  <2>. HIDE DEF share
  <2>3. treasury_vault' \in Nat
    BY <1>0, <2>1, <2>2 DEF Fields
  <2>4. \A y \in challenge' : y \in Challenges /\ (y.status = "Open" => y.escrow = CHALLENGE_BOND)
    BY <2>1, ResolvedTyped
  <2>. QED  BY <2>1, <2>3, <2>4 DEF Fields
<1>4. ASSUME NEW p \in Publishers, slash_for_liveness(p)
      PROVE  Fields'
  <2>. DEFINE tier == days_absent_to_tier(DaysAbsent(p))
              amount == SlashedFrom(p, TierSlash[tier])
  <2>1. amount \in Nat
    <3>1. tier \in 1..3
      BY <1>4, LivenessIsSlash
    <3>2. TierSlash[tier] \in Nat
      <4>. HIDE DEF tier
      <4>. QED  BY <3>1 DEF TierSlash
    <3>3. publisher[p].bond \in Nat
      BY DEF Solid, Accounts
    <3>. HIDE DEF tier
    <3>. QED  BY <3>2, <3>3, BpsType DEF SlashedFrom
  <2>2. /\ treasury_vault' = treasury_vault + amount
        /\ UNCHANGED <<paused, treasury_set, update, registry, index, challenge, wallet>>
    BY <1>4 DEF slash_for_liveness, config, feed
  <2>. HIDE DEF amount
  <2>. QED  BY <2>1, <2>2 DEF Fields
<1>. QED  BY <1>1, <1>2, <1>3, <1>4 DEF DisputeSteps

LEMMA FieldsNext ==
  ASSUME Fields, Solid, Attendance, [Next]_vars
  PROVE  Fields'
<1>0. TodayType
  BY TodayPositive DEF Attendance
<1>1. CASE AdminSteps
  <2>1. registry' \in Registries
    <3>1. PICK registered : registered = registry'
      OBVIOUS
    <3>2. \/ registry' = registry
          \/ initialize_registry
          \/ \E c \in Constituents, card \in Cards, base \in Prices \cup {0} :
               update_constituent(c, card, base)
          \/ finalize_registry_update(Today)
      BY <1>1 DEF AdminSteps, set_protocol_treasury, register_publisher, activate_publisher,
                  emergency_pause
    <3>. QED  BY <1>0, <3>1, <3>2, RegistryTyped DEF Fields
  <2>2. /\ paused' \in BOOLEAN /\ treasury_set' \in BOOLEAN
        /\ wallet' \in [Users -> Nat]
        /\ UNCHANGED <<update, index, challenge, treasury_vault>>
    <3>1. ASSUME NEW p \in Publishers, register_publisher(p)
          PROVE  wallet' \in [Users -> Nat] /\ UNCHANGED <<config, update, index, challenge, treasury_vault>>
      BY <3>1, OracleAssumption DEF register_publisher, Fields, feed
    <3>. QED  BY <1>1, <3>1
              DEF AdminSteps, set_protocol_treasury, activate_publisher, initialize_registry,
                  update_constituent, finalize_registry_update, emergency_pause,
                  Fields, config, feed, tokens
  <2>. QED  BY <2>1, <2>2 DEF Fields
<1>2. CASE FeedSteps
  <2>1. ASSUME NEW p \in Publishers, NEW prices \in PriceLists,
               submit_price_update(p, Today - 1, prices)
        PROVE  Fields'
    <3>. DEFINE new == [publisher |-> p, day |-> Today - 1, prices |-> prices]
    <3>1. update' = update \cup {new} /\ new.prices \in PriceLists
      BY <2>1 DEF submit_price_update
    <3>. HIDE DEF new
    <3>2. IsFiniteSet(update')
      BY <3>1, FS_AddElement DEF Fields
    <3>3. UNCHANGED <<paused, treasury_set, registry, index, challenge, wallet, treasury_vault>>
      BY <2>1 DEF submit_price_update, config, feed, tokens
    <3>. QED  BY <3>1, <3>2, <3>3 DEF Fields
  <2>2. CASE finalize_day
    <3>1. index' \in Indexes
      BY <2>2 DEF finalize_day, Fields, Attendance, Indexes
    <3>2. UNCHANGED <<paused, treasury_set, update, registry, challenge, wallet, treasury_vault>>
      BY <2>2 DEF finalize_day, config, tokens
    <3>. QED  BY <3>1, <3>2 DEF Fields
  <2>. QED  BY <1>0, <1>2, <2>1, <2>2, AggregateTyped DEF FeedSteps
<1>3. CASE DisputeSteps
  BY <1>3, DisputeTyped
<1>4. CASE \E d \in Durations : Elapse(d)
  BY <1>4 DEF Elapse, config, feed, tokens, Fields
<1>5. CASE UNCHANGED vars
  BY <1>5 DEF vars, config, feed, tokens, Fields
<1>. QED  BY <1>1, <1>2, <1>3, <1>4, <1>5 DEF Next

(* Every account's fields keep their type: no bond, vault, wallet or       *)
(* escrow is overdrawn, whoever calls what in whatever order (programs/    *)
(* oracle, all instructions).                                              *)
THEOREM TypesHold == Spec => []TypeOK
<1>. DEFINE Inv == Solid /\ Attendance /\ Fields
<1>1. Init => Inv
  BY SolidInit, AttendanceInit, FieldsInit
<1>2. Inv /\ [Next]_vars => Inv'
  BY SolidNext, AttendanceNext, FieldsNext DEF AnyNext
<1>3. Inv => TypeOK
  <2>. SUFFICES ASSUME Inv PROVE TypeOK
    OBVIOUS
  <2>1. publisher \in [Publishers -> Accounts] /\ bond_vault \in [Publishers -> Nat]
    BY DEF Solid
  <2>2. /\ clock \in Nat
        /\ \A u \in update : u.publisher \in Publishers /\ u.day \in Nat /\ u.prices \in PriceLists
    BY DEF Attendance, Fields
  <2>3. /\ registry.card \in [Constituents -> Cards \cup {NoCard}]
        /\ registry.base \in [Constituents -> Nat]
    BY DEF Fields, Registries
  <2>4. /\ index.status \in {"None", "Provisional", "Final"}
        /\ index.prices \in [Constituents -> Nat] /\ index.value \in Nat /\ index.at \in Nat
    BY DEF Fields, Indexes
  <2>5. \A x \in challenge : x.status \in {"Open", "Succeeded", "Failed"} /\ x.escrow \in Nat
    BY DEF Fields, Challenges
  <2>. QED  BY <2>1, <2>2, <2>3, <2>4, <2>5 DEF Fields, TypeOK
<1>. QED  BY <1>1, <1>2, <1>3, PTL DEF Spec
-----------------------------------------------------------------------------
(* Who decides a price.                                                    *)

LEMMA MajorityPrice ==
  ASSUME Fields, NEW day \in AggregatedDays,
         NEW chosen \in [UpdatesOf(day) -> 0..MAX_REPEATS], aggregate_day(day, chosen)
  PROVE  DecidedByMajority(chosen)
<1>. DEFINE D == DOMAIN chosen
            prices == AggregatedPrices(chosen)
            val == IndexValue(prices, Linked(prices))
<1>. SUFFICES ASSUME NEW most \in SUBSET {u \in D : chosen[u] > 0}, NEW c \in Constituents,
                     2 * Copies(chosen, most) > Copies(chosen, D), index'.prices[c] # 0
              PROVE  /\ \E u \in most : u.prices[c] <= index'.prices[c]
                     /\ \E u \in most : index'.prices[c] <= u.prices[c]
  BY DEF DecidedByMajority
<1>1. /\ IsFiniteSet(D) /\ chosen \in [D -> Nat]
      /\ \A u \in D : u.prices[c] \in Nat
  BY ChosenIs DEF Fields
<1>2. index'.prices = prices
  <2>1. index' = Provisional(day, prices, val)
    BY DEF aggregate_day
  <2>. HIDE DEF prices, val
  <2>. QED  BY <2>1 DEF Provisional
<1>3. index'.prices[c] = Median(chosen, c)
  BY <1>2 DEF AggregatedPrices
<1>. HIDE DEF D, prices
<1>4. most \in SUBSET D /\ 2 * Copies(chosen, most) > Copies(chosen, D)
  OBVIOUS
<1>5. /\ \E u \in most : u.prices[c] <= Median(chosen, c)
      /\ \E u \in most : Median(chosen, c) <= u.prices[c]
  BY <1>1, <1>4, MedianBetween
<1>. QED  BY <1>3, <1>5

(* A day's price is decided by the majority of the listings: with any      *)
(* number of publishers, prices and repetitions it is neither below nor    *)
(* above all of theirs (aggregate_day).                                    *)
THEOREM MedianResists == Spec => MajorityDecides
<1>. DEFINE Inv == Solid /\ Attendance /\ Fields
            Decides == index' # index =>
                         \A day \in AggregatedDays :
                           \A chosen \in [UpdatesOf(day) -> 0..MAX_REPEATS] :
                             aggregate_day(day, chosen) => DecidedByMajority(chosen)
<1>1. Init => Inv
  BY SolidInit, AttendanceInit, FieldsInit
<1>2. Inv /\ [Next]_vars => Inv'
  BY SolidNext, AttendanceNext, FieldsNext DEF AnyNext
<1>3. Inv => [Decides]_vars
  BY MajorityPrice
<1>. QED  BY <1>1, <1>2, <1>3, PTL DEF Spec, MajorityDecides
-----------------------------------------------------------------------------
(* What a challenge meets when it is resolved.                             *)

SubmittedFor(day) == {u \in update : u.day = day}

(* Updates are of keys that have an account, a challenge is of an index    *)
(* that was written, and no price of the index is above or below all that  *)
(* were submitted for its day.                                             *)
Disputable ==
  /\ \A u \in update : publisher[u.publisher].status # "None"
  /\ challenge # {} => index.status # "None"
  /\ \A c \in Constituents : index.prices[c] # 0 =>
       \E u, v \in SubmittedFor(index.day) :
         u.prices[c] <= index.prices[c] /\ index.prices[c] <= v.prices[c]

(* No instruction takes an account away. *)
StatusKept(p) == publisher[p].status # "None" => publisher'[p].status # "None"

LEMMA StatusNext ==
  ASSUME Solid, [AnyNext]_vars, NEW p \in Publishers
  PROVE  StatusKept(p)
<1>1. ASSUME NEW q \in Publishers, NEW amount, NEW tier,
             NEW status \in {"Suspended", "Removed", publisher[q].status},
             Slash(q, amount, status, tier)
      PROVE  StatusKept(p)
  BY <1>1 DEF Slash, Solid, Accounts, StatusKept
<1>2. ASSUME NEW x \in challenge, NEW payee \in Users, challenge_succeeds(x, payee)
      PROVE  StatusKept(p)
  <2>. DEFINE amount == SlashedFrom(x.target, Verdict(x))
              status == StatusAfter(x.target, Verdict(x), amount)
  <2>1. status \in {"Suspended", "Removed", publisher[x.target].status}
    BY DEF StatusAfter
  <2>2. Slash(x.target, amount, status, publisher[x.target].tier) /\ x.target \in Publishers
    BY <1>2 DEF challenge_succeeds, Solid, Targeted
  <2>. HIDE DEF amount, status
  <2>. QED  BY <2>1, <2>2, <1>1
<1>3. ASSUME NEW x \in challenge, challenge_fails(x)
      PROVE  StatusKept(p)
  <2>. DEFINE share == CHALLENGE_BOND \div 2
  <2>1. /\ Slash(x.target, -share, publisher[x.target].status, publisher[x.target].tier)
        /\ x.target \in Publishers
    BY <1>3 DEF challenge_fails, Solid, Targeted
  <2>. HIDE DEF share
  <2>. QED  BY <2>1, <1>1
<1>4. ASSUME NEW q \in Publishers, slash_for_liveness(q)
      PROVE  StatusKept(p)
  <2>. DEFINE tier == days_absent_to_tier(DaysAbsent(q))
              amount == SlashedFrom(q, TierSlash[tier])
              status == IF tier = 3 THEN "Removed"
                        ELSE IF tier = 2 THEN "Suspended" ELSE publisher[q].status
  <2>1. status \in {"Suspended", "Removed", publisher[q].status}
    OBVIOUS
  <2>2. Slash(q, amount, status, tier)
    BY <1>4 DEF slash_for_liveness
  <2>. HIDE DEF amount, status, tier
  <2>. QED  BY <2>1, <2>2, <1>1
<1>5. ASSUME NEW q \in Publishers, NEW prices, submit_price_update(q, Today - 1, prices)
      PROVE  StatusKept(p)
  BY <1>5 DEF submit_price_update, Present, Solid, Accounts, StatusKept
<1>6. ASSUME NEW q \in Publishers, register_publisher(q) \/ activate_publisher(q)
      PROVE  StatusKept(p)
  BY <1>6 DEF register_publisher, activate_publisher, ShadowOver, NoPublisher, Solid, Accounts,
              StatusKept
<1>7. CASE UNCHANGED publisher
  BY <1>7 DEF StatusKept
<1>. QED  BY <1>2, <1>3, <1>4, <1>5, <1>6, <1>7, Instructions
          DEF open_challenge, Elapse, bonds

(* An aggregation's price of a constituent lies within the submitted ones. *)
LEMMA WithinSubmitted ==
  ASSUME Fields, NEW day, NEW chosen \in [UpdatesOf(day) -> 0..MAX_REPEATS],
         aggregate_day(day, chosen), NEW c \in Constituents, index'.prices[c] # 0
  PROVE  \E u, v \in SubmittedFor(index'.day) :
           u.prices[c] <= index'.prices[c] /\ index'.prices[c] <= v.prices[c]
<1>. DEFINE D == DOMAIN chosen
            prices == AggregatedPrices(chosen)
            val == IndexValue(prices, Linked(prices))
<1>1. /\ IsFiniteSet(D) /\ chosen \in [D -> Nat]
      /\ \A u \in D : u.prices[c] \in Nat
  BY ChosenIs DEF Fields
<1>2. index'.prices = prices /\ index'.day = day
  <2>1. index' = Provisional(day, prices, val)
    BY DEF aggregate_day
  <2>. HIDE DEF prices, val
  <2>. QED  BY <2>1 DEF Provisional
<1>3. D = SubmittedFor(day)
  BY DEF UpdatesOf, SubmittedFor
<1>4. /\ ~(Copies(chosen, D) < MIN_PUBLISHERS)
      /\ index'.prices[c] = Median(chosen, c)
  BY <1>2 DEF AggregatedPrices
<1>. HIDE DEF D, prices
<1>5. 2 * Copies(chosen, D) > Copies(chosen, D)
  <2>1. Copies(chosen, D) \in Nat /\ MIN_PUBLISHERS \in Nat \ {0}
    BY <1>1, CopiesAre, OracleAssumption
  <2>. QED  BY <1>4, <2>1
<1>6. /\ \E u \in D : u.prices[c] <= Median(chosen, c)
      /\ \E v \in D : Median(chosen, c) <= v.prices[c]
  BY <1>1, <1>5, MedianBetween
<1>. QED  BY <1>2, <1>3, <1>4, <1>6

(* What writes the index leaves updates and challenges alone. *)
LEMMA DisputableNext ==
  ASSUME Solid, Attendance, Fields, Disputable, [Next]_vars
  PROVE  Disputable'
<1>. DEFINE Priced(c) == index.prices[c] # 0 =>
                           \E u, v \in SubmittedFor(index.day) :
                             u.prices[c] <= index.prices[c] /\ index.prices[c] <= v.prices[c]
<1>1. ASSUME UNCHANGED update
      PROVE  \A u \in update' : publisher'[u.publisher].status # "None"
  BY <1>1, StatusNext DEF Disputable, Attendance, StatusKept, AnyNext
<1>2. ASSUME update \subseteq update', UNCHANGED index
      PROVE  \A c \in Constituents : Priced(c)'
  BY <1>2 DEF Disputable, SubmittedFor
<1>3. ASSUME NEW p \in Publishers, NEW prices, submit_price_update(p, Today - 1, prices)
      PROVE  Disputable'
  <2>. DEFINE new == [publisher |-> p, day |-> Today - 1, prices |-> prices]
  <2>1. update' = update \cup {new} /\ UNCHANGED <<index, challenge>>
    BY <1>3 DEF submit_price_update, feed
  <2>2. publisher[p].status # "None"
    BY <1>3 DEF submit_price_update
  <2>3. \A u \in update : u.publisher \in Publishers
    BY DEF Attendance
  <2>4. new.publisher = p
    OBVIOUS
  <2>. HIDE DEF new
  <2>5. \A u \in update' : publisher'[u.publisher].status # "None"
    BY <2>1, <2>2, <2>3, <2>4, StatusNext DEF Disputable, StatusKept, AnyNext
  <2>. QED  BY <1>2, <2>1, <2>5 DEF Disputable
<1>4. ASSUME NEW day, NEW chosen \in [UpdatesOf(day) -> 0..MAX_REPEATS],
             aggregate_day(day, chosen)
      PROVE  Disputable'
  <2>1. UNCHANGED update
    BY <1>4 DEF aggregate_day
  <2>2. index'.status = "Provisional"
    BY <1>4 DEF aggregate_day, Provisional
  <2>3. \A c \in Constituents : Priced(c)'
    BY <1>4, <2>1, WithinSubmitted DEF SubmittedFor
  <2>. QED  BY <1>1, <2>1, <2>2, <2>3 DEF Disputable
<1>5. CASE finalize_day
  <2>1. /\ UNCHANGED <<update, challenge>>
        /\ index'.status = "Final" /\ index'.day = index.day /\ index'.prices = index.prices
    BY <1>5 DEF finalize_day, Fields, Indexes
  <2>2. \A c \in Constituents : Priced(c)'
    BY <2>1 DEF Disputable, SubmittedFor
  <2>. QED  BY <1>1, <2>1, <2>2 DEF Disputable
<1>6. ASSUME UNCHANGED <<update, index>>, challenge' # {} => index.status # "None"
      PROVE  Disputable'
  BY <1>1, <1>2, <1>6 DEF Disputable
<1>7. CASE DisputeSteps
  <2>1. UNCHANGED <<update, index>>
    BY <1>7 DEF DisputeSteps, open_challenge, challenge_succeeds, challenge_fails,
                slash_for_liveness, feed
  <2>2. index.status # "None" \/ UNCHANGED challenge
    BY <1>7 DEF DisputeSteps, open_challenge, challenge_succeeds, challenge_fails,
                Resolvable, slash_for_liveness
  <2>. QED  BY <1>6, <2>1, <2>2 DEF Disputable
<1>8. CASE AdminSteps \/ (\E d \in Durations : Elapse(d)) \/ UNCHANGED vars
  <2>1. UNCHANGED <<update, index, challenge>>
    BY <1>8 DEF AdminSteps, set_protocol_treasury, register_publisher, activate_publisher,
                initialize_registry, update_constituent, finalize_registry_update,
                emergency_pause, Elapse, vars, feed
  <2>. QED  BY <1>6, <2>1 DEF Disputable
<1>. QED  BY <1>3, <1>4, <1>5, <1>7, <1>8 DEF Next, FeedSteps

(* A slash is a part of the bond. *)
LEMMA SlashWithinBond ==
  ASSUME Solid, NEW p \in Publishers, NEW bps \in {0, 1000, 5000, 10000}
  PROVE  SlashedFrom(p, bps) <= bond_vault[p]
<1>. DEFINE bond == publisher[p].bond
<1>1. bond \in Nat /\ bond = bond_vault[p]
  BY DEF Solid, Accounts, BondsBacked
<1>. HIDE DEF bond
<1>2. (bond * bps) \div 10000 <= bond
  BY <1>1
<1>. QED  BY <1>1, <1>2 DEF SlashedFrom, Bps, bond

LEMMA DisputesHold == Spec => [](Solid /\ Attendance /\ Fields /\ Disputable)
<1>1. Init => Solid /\ Attendance /\ Fields /\ Disputable
  <2>1. Init => Disputable
    BY DEF Init, Disputable
  <2>. QED  BY <2>1, SolidInit, AttendanceInit, FieldsInit
<1>2. /\ Solid /\ Attendance /\ Fields /\ Disputable
      /\ [Next]_vars
      => (Solid /\ Attendance /\ Fields /\ Disputable)'
  BY SolidNext, AttendanceNext, FieldsNext, DisputableNext DEF AnyNext
<1>. QED  BY <1>1, <1>2, PTL DEF Spec

(* For any bonds, publishers and challenges, and whatever slashes, refills *)
(* and removals came in between: a challenge that the index still allows   *)
(* to be resolved finds its escrow, the account and the tokens it needs    *)
(* (resolve_challenge).                                                    *)
THEOREM DisputesSettle == Spec => []DisputesCanBeSettled
<1>1. Solid /\ Attendance /\ Fields /\ Disputable => DisputesCanBeSettled
  <2>. SUFFICES ASSUME Solid, Attendance, Fields, Disputable,
                       NEW x \in challenge,
                       x.status = "Open", ~paused, treasury_set, index.day = x.day,
                       \E u \in update : u.publisher = x.target /\ u.day = x.day
                PROVE  /\ Resolvable(x)
                       /\ x.escrow = CHALLENGE_BOND
                       /\ SlashedFrom(x.target, Verdict(x)) <= bond_vault[x.target]
    BY DEF DisputesCanBeSettled
  <2>1. publisher[x.target] # NoPublisher
    BY DEF Disputable, NoPublisher
  <2>2. Resolvable(x)
    BY <2>1 DEF Resolvable, Disputable
  <2>3. x.escrow = CHALLENGE_BOND
    BY DEF Fields
  <2>4. SlashedFrom(x.target, Verdict(x)) <= bond_vault[x.target]
    BY VerdictType, SlashWithinBond DEF Solid, Targeted
  <2>. QED  BY <2>2, <2>3, <2>4
<1>. QED  BY <1>1, DisputesHold, PTL

(* With any number of publishers and any listings: whose price is that of  *)
(* everybody who submitted for the day keeps the whole bond                *)
(* (resolve_challenge on what aggregate_day wrote).                        *)
THEOREM AgreementProtects == Spec => []AgreedNotSlashed
<1>1. Fields /\ Disputable => AgreedNotSlashed
  <2>. SUFFICES ASSUME Fields, Disputable, NEW x \in challenge, Resolvable(x),
                       \A u, v \in update : u.day = x.day /\ v.day = x.day
                         => u.prices[x.constituent] = v.prices[x.constituent]
                PROVE  Verdict(x) = 0
    BY DEF AgreedNotSlashed
  <2>. DEFINE c == x.constituent
              agreed == index.prices[c]
              own == CHOOSE u \in update : u.publisher = x.target /\ u.day = x.day
              submitted == own.prices[c]
              distance == IF submitted > agreed THEN submitted - agreed ELSE agreed - submitted
  <2>1. c \in Constituents /\ agreed \in Nat
    BY DEF Fields, Challenges, Indexes
  <2>2. own \in update /\ own.day = x.day
    BY DEF Resolvable
  <2>3. submitted \in Nat
    BY <2>1, <2>2, OracleAssumption DEF Fields, PriceLists
  <2>4. Verdict(x) = IF agreed = 0 THEN 0
                     ELSE deviation_to_slash_tier((distance * 10000) \div agreed)
    BY DEF Verdict
  <2>5. ASSUME agreed # 0 PROVE submitted = agreed
    <3>. HIDE DEF own
    <3>1. PICK u, v \in SubmittedFor(index.day) :
            u.prices[c] <= agreed /\ agreed <= v.prices[c]
      BY <2>1, <2>5 DEF Disputable
    <3>2. u.prices[c] = submitted /\ v.prices[c] = submitted
      BY <2>2, <3>1 DEF SubmittedFor, Resolvable
    <3>. QED  BY <2>1, <2>3, <3>1, <3>2
  <2>. HIDE DEF agreed, submitted
  <2>6. ASSUME agreed # 0 PROVE (distance * 10000) \div agreed = 0
    <3>1. distance * 10000 = 0
      BY <2>1, <2>5, <2>6
    <3>2. 0 \div agreed = 0
      BY <2>1, <2>6
    <3>. QED  BY <3>1, <3>2
  <2>7. deviation_to_slash_tier(0) = 0
    BY DEF deviation_to_slash_tier
  <2>. QED  BY <2>4, <2>6, <2>7
<1>. QED  BY <1>1, DisputesHold, PTL
-----------------------------------------------------------------------------
(* The market at work beside the oracle.                                   *)

(* What a slash or a lost challenge pays the treasury is never negative,   *)
(* and neither touches index or time.                                      *)
LEMMA DisputePays ==
  ASSUME Solid, Fields, DisputeSteps
  PROVE  UNCHANGED <<index, clock>> /\ treasury_vault' - treasury_vault \in Nat
<1>1. treasury_vault \in Nat /\ CHALLENGE_BOND \in Nat
  BY OracleAssumption DEF Fields
<1>2. ASSUME NEW u \in Users, NEW p \in Publishers, NEW c \in Constituents,
             open_challenge(u, p, c)
      PROVE  UNCHANGED <<index, clock, treasury_vault>>
  BY <1>2 DEF open_challenge, feed
<1>3. ASSUME NEW x \in challenge, NEW payee \in Users, challenge_succeeds(x, payee)
      PROVE  UNCHANGED <<index, clock>> /\ treasury_vault' - treasury_vault \in Nat
  <2>. DEFINE amount == SlashedFrom(x.target, Verdict(x))
              share == amount \div 2
  <2>1. amount \in Nat
    <3>1. Verdict(x) \in Nat
      BY VerdictType
    <3>2. x.target \in Publishers
      BY DEF Solid, Targeted
    <3>3. publisher[x.target].bond \in Nat
      BY <3>2 DEF Solid, Accounts
    <3>. QED  BY <3>1, <3>3, BpsType DEF SlashedFrom
  <2>2. UNCHANGED <<index, clock>> /\ treasury_vault' = treasury_vault + amount - share
    BY <1>3 DEF challenge_succeeds, feed
  <2>. HIDE DEF amount
  <2>3. share \in Nat /\ share <= amount
    BY <2>1
  <2>. HIDE DEF share
  <2>. QED  BY <1>1, <2>1, <2>2, <2>3
<1>4. ASSUME NEW x \in challenge, challenge_fails(x)
      PROVE  UNCHANGED <<index, clock>> /\ treasury_vault' - treasury_vault \in Nat
  <2>. DEFINE share == CHALLENGE_BOND \div 2
  <2>1. UNCHANGED <<index, clock>> /\ treasury_vault' = treasury_vault + CHALLENGE_BOND - share
    BY <1>4 DEF challenge_fails, feed
  <2>2. share \in Nat /\ share <= CHALLENGE_BOND
    BY <1>1
  <2>. HIDE DEF share
  <2>. QED  BY <1>1, <2>1, <2>2
<1>5. ASSUME NEW p \in Publishers, slash_for_liveness(p)
      PROVE  UNCHANGED <<index, clock>> /\ treasury_vault' - treasury_vault \in Nat
  <2>. DEFINE tier == days_absent_to_tier(DaysAbsent(p))
              amount == SlashedFrom(p, TierSlash[tier])
  <2>1. amount \in Nat
    <3>1. tier \in 1..3
      BY <1>5, LivenessIsSlash
    <3>2. TierSlash[tier] \in Nat
      <4>. HIDE DEF tier
      <4>. QED  BY <3>1 DEF TierSlash
    <3>3. publisher[p].bond \in Nat
      BY DEF Solid, Accounts
    <3>. HIDE DEF tier
    <3>. QED  BY <3>2, <3>3, BpsType DEF SlashedFrom
  <2>2. UNCHANGED <<index, clock>> /\ treasury_vault' = treasury_vault + amount
    BY <1>5 DEF slash_for_liveness, feed
  <2>. HIDE DEF amount
  <2>. QED  BY <1>1, <2>1, <2>2
<1>. QED  BY <1>1, <1>2, <1>3, <1>4, <1>5 DEF DisputeSteps

(* What an oracle instruction does to index, time and treasury vault. *)
LEMMA WhatTheEngineSees ==
  ASSUME Solid, Attendance, Fields, Next
  PROVE  \/ /\ \E value \in Nat : IndexRead' = [status |-> "Provisional", value |-> value]
            /\ UNCHANGED <<clock, treasury_vault>>
         \/ /\ IndexRead.status = "Provisional"
            /\ IndexRead' = [IndexRead EXCEPT !.status = "Final"]
            /\ UNCHANGED <<clock, treasury_vault>>
         \/ /\ \E d \in Durations : clock' = clock + d
            /\ UNCHANGED <<index, treasury_vault>>
         \/ /\ treasury_vault' - treasury_vault \in Nat
            /\ UNCHANGED <<index, clock>>
<1>1. treasury_vault \in Nat /\ treasury_vault - treasury_vault \in Nat
  BY DEF Fields
<1>2. CASE AdminSteps
  BY <1>1, <1>2 DEF AdminSteps, set_protocol_treasury, register_publisher, activate_publisher,
                    initialize_registry, update_constituent, finalize_registry_update,
                    emergency_pause, feed, tokens
<1>3. ASSUME NEW p \in Publishers, NEW prices, submit_price_update(p, Today - 1, prices)
      PROVE  UNCHANGED <<index, clock, treasury_vault>>
  BY <1>3 DEF submit_price_update, feed, tokens
<1>4. ASSUME NEW day \in AggregatedDays, NEW chosen \in [UpdatesOf(day) -> 0..MAX_REPEATS],
             aggregate_day(day, chosen)
      PROVE  /\ \E value \in Nat : IndexRead' = [status |-> "Provisional", value |-> value]
             /\ UNCHANGED <<clock, treasury_vault>>
  <2>. DEFINE prices == AggregatedPrices(chosen)
              val == IndexValue(prices, Linked(prices))
  <2>1. Fields'
    BY <1>4, AggregateTyped, TodayPositive DEF Attendance
  <2>2. index' = Provisional(day, prices, val) /\ UNCHANGED <<clock, treasury_vault>>
    BY <1>4 DEF aggregate_day, tokens
  <2>. HIDE DEF val, prices
  <2>3. index'.status = "Provisional" /\ index'.value \in Nat
    BY <2>1, <2>2 DEF Provisional, Fields, Indexes
  <2>. QED  BY <2>2, <2>3 DEF IndexRead
<1>5. CASE finalize_day
  <2>1. index.status = "Provisional" /\ index \in Indexes /\ UNCHANGED <<clock, treasury_vault>>
    BY <1>5 DEF finalize_day, tokens, Fields
  <2>2. index'.status = "Final" /\ index'.value = index.value
    BY <1>5, <2>1 DEF finalize_day, Indexes
  <2>. QED  BY <2>1, <2>2 DEF IndexRead
<1>6. CASE FeedSteps
  BY <1>1, <1>3, <1>4, <1>5, <1>6 DEF FeedSteps
<1>7. CASE DisputeSteps
  BY <1>7, DisputePays
<1>8. CASE \E d \in Durations : Elapse(d)
  BY <1>8 DEF Elapse, feed, tokens
<1>. QED  BY <1>2, <1>6, <1>7, <1>8 DEF Next

LEMMA OracleIsEnvironment ==
  ASSUME Solid, Attendance, Fields, IndexValues = Nat, Amounts = Nat, OracleStep(Next)
  PROVE  [Engine!Next]_(Engine!vars)
<1>. USE DEF Engine!book, Engine!funding, Engine!admin, Engine!money, Engine!external
<1>1. /\ UNCHANGED <<Engine!book, Engine!funding, Engine!admin, insurance, purse, donated>>
      /\ UNCHANGED treasury_vault => UNCHANGED treasury
      /\ ~ UNCHANGED treasury_vault
           => treasury' = [treasury EXCEPT !.vault = @ + (treasury_vault' - treasury_vault)]
  BY DEF OracleStep, market, TreasuryReceives
<1>2. ASSUME NEW value \in Nat, IndexRead' = [status |-> "Provisional", value |-> value],
             UNCHANGED <<clock, treasury_vault>>
      PROVE  Engine!EnvironmentSteps
  <2>1. Engine!IndexAggregated(value)
    BY <1>1, <1>2 DEF Engine!IndexAggregated
  <2>. QED  BY <2>1 DEF Engine!EnvironmentSteps
<1>3. ASSUME IndexRead.status = "Provisional", IndexRead' = [IndexRead EXCEPT !.status = "Final"],
             UNCHANGED <<clock, treasury_vault>>
      PROVE  Engine!EnvironmentSteps
  BY <1>1, <1>3 DEF Engine!EnvironmentSteps, Engine!IndexFinalized
<1>4. ASSUME NEW d \in Durations, clock' = clock + d, UNCHANGED <<index, treasury_vault>>
      PROVE  Engine!EnvironmentSteps
  <2>1. clock \in Nat /\ START \in Nat /\ d \in Nat
    BY OracleAssumption DEF Attendance
  <2>2. clock' - START = clock - START + d
    BY <1>4, <2>1
  <2>3. Engine!Elapse(d)
    BY <1>1, <1>4, <2>2 DEF Engine!Elapse, IndexRead
  <2>. QED  BY <2>3 DEF Engine!EnvironmentSteps
<1>5. ASSUME treasury_vault' - treasury_vault \in Nat, UNCHANGED <<index, clock>>
      PROVE  Engine!EnvironmentSteps \/ UNCHANGED Engine!vars
  <2>1. CASE UNCHANGED treasury_vault
    BY <1>1, <1>5, <2>1 DEF Engine!vars, IndexRead
  <2>2. CASE ~ UNCHANGED treasury_vault
    <3>. DEFINE amount == treasury_vault' - treasury_vault
    <3>1. treasury_vault \in Nat /\ treasury_vault' \in Nat
      BY FieldsNext DEF Fields, OracleStep
    <3>2. treasury_vault' = treasury_vault + amount
      <4>1. \A paid, now \in Nat : now = paid + (now - paid)
        OBVIOUS
      <4>. QED  BY <3>1, <4>1
    <3>3. Engine!OracleSlash(amount)
      <4>. HIDE DEF amount
      <4>. QED  BY <1>1, <1>5, <2>2, <3>2 DEF Engine!OracleSlash, IndexRead, amount
    <3>. QED  BY <1>5, <3>3 DEF Engine!EnvironmentSteps
  <2>. QED  BY <2>1, <2>2
<1>6. Next
  BY DEF OracleStep
<1>. QED  BY <1>2, <1>3, <1>4, <1>5, <1>6, WhatTheEngineSees DEF Engine!Next

(* The oracle, from the market's side: every instruction of it is one of   *)
(* the steps PerpEngine allows its environment, with any publishers,       *)
(* prices and disputes; so the engine's theorems hold with this oracle at  *)
(* work (IndexState and the treasury vault are all the two share).         *)
THEOREM EngineImplemented ==
  ASSUME IndexValues = Nat, Amounts = Nat
  PROVE  ProtocolSpec => ImplementsEngine
<1>. DEFINE Inv == Solid /\ Attendance /\ Fields
<1>1. ProtocolInit => Inv /\ Engine!Init
  BY SolidInit, AttendanceInit, FieldsInit DEF ProtocolInit
<1>2. [ProtocolNext]_protocol => [Next]_vars
  BY DEF ProtocolNext, protocol, OracleStep, EngineStep, Donation
<1>3. Inv /\ [ProtocolNext]_protocol => Inv'
  BY <1>2, SolidNext, AttendanceNext, FieldsNext DEF AnyNext
<1>4. Inv /\ [ProtocolNext]_protocol => [Engine!Next]_(Engine!vars)
  <2>. SUFFICES ASSUME Inv, [ProtocolNext]_protocol PROVE [Engine!Next]_(Engine!vars)
    OBVIOUS
  <2>1. CASE OracleStep(Next)
    BY <2>1, OracleIsEnvironment
  <2>2. CASE EngineStep(Engine!TraderSteps) \/ EngineStep(Engine!PublicSteps)
             \/ EngineStep(Engine!AdminSteps)
    BY <2>2 DEF EngineStep, Engine!Next
  <2>3. ASSUME NEW a \in Amounts, Donation(a) PROVE Engine!Next
    BY <2>3 DEF Donation, Engine!Next, Engine!EnvironmentSteps
  <2>4. CASE UNCHANGED protocol
    BY <2>4 DEF protocol, vars, market, config, bonds, feed, tokens, Engine!vars, Engine!book,
                Engine!funding, Engine!admin, Engine!money, Engine!external, IndexRead
  <2>. QED  BY <2>1, <2>2, <2>3, <2>4 DEF ProtocolNext
<1>. QED  BY <1>1, <1>3, <1>4, PTL DEF ProtocolSpec, ImplementsEngine, Engine!Spec

(* And from its own side: the market takes nothing from it, so bonds,      *)
(* tiers, attendance, base prices, feed and medians are as they are        *)
(* without one.                                                            *)
THEOREM OracleKeepsWithMarket == ProtocolSpec => Spec
<1>1. ProtocolInit => Init
  BY DEF ProtocolInit
<1>2. [ProtocolNext]_protocol => [Next]_vars
  BY DEF ProtocolNext, protocol, OracleStep, EngineStep, Donation
<1>. QED  BY <1>1, <1>2, PTL DEF ProtocolSpec, Spec
=============================================================================
