------------------------------- MODULE Crank --------------------------------
(***************************************************************************)
(* A publisher's crank, services/publisher/src/main.rs and state.rs, at    *)
(* work on the oracle: a process that polls, submits the prices of         *)
(* yesterday if it has not, aggregates that day if the index is not on it, *)
(* and saves after every cycle which day each constituent was last seen    *)
(* at a price.                                                             *)
(*                                                                         *)
(* Every await is a point where the clock may move, others may act on the  *)
(* oracle, and the process may die.  Memory dies with it; the file stays,  *)
(* unless it was being overwritten.  A call may fail, and a transaction    *)
(* may land although its answer is lost.                                   *)
(*                                                                         *)
(* The commands run and daemon are the same cycle without aggregation and  *)
(* once a day; verify changes nothing.                                     *)
(***************************************************************************)
EXTENDS Oracle, Methodology

CONSTANTS
  own,        \* the key of this publisher
  Listings,   \* what the listing source may answer for a constituent
  Quotes      \* the prices the aggregate source may quote, "$0" among them

ASSUME CrankAssumption ==
  /\ own \in Publishers /\ Quotes \subseteq Nat
  /\ \A listings \in Listings :
       IsFiniteSet(DOMAIN listings) /\ \A i \in DOMAIN listings : listings[i].price \in Nat

VARIABLES
  pc,        \* where the process is; "down": it is not running
  target,    \* the day the cycle is about
  bases,     \* base prices of the registry as the cycle read them
  priced,    \* the cycle's prices so far, NotYet: none
  fresh,     \* last_fresh_day in memory, 0: no record
  file,      \* the state file: "none", "whole" or "torn", and what it says
  how,       \* history: how the cycle came to each price
  seen       \* history: the last day a source answered for each constituent

local == <<target, bases, priced, how>>
process == <<pc, local, fresh, file, seen>>
crankvars == <<vars, process>>

NotYet == -1

Blank == [c \in Constituents |-> 0]
Unpriced == [c \in Constituents |-> NotYet]
Unknown == [c \in Constituents |-> [from |-> "nothing"]]

CrankInit ==
  /\ pc = "down"
  /\ target = 0 /\ bases = Blank /\ priced = Unpriced /\ how = Unknown
  /\ fresh = Blank
  /\ file = [state |-> "none", fresh |-> Blank]
  /\ seen = Blank

(* The variables of a cycle end with it. *)
Forget == target' = 0 /\ bases' = Blank /\ priced' = Unpriced /\ how' = Unknown

OwnUpdates(day) == {u \in update : u.publisher = own /\ u.day = day}

-----------------------------------------------------------------------------

(* A file that does not parse ends the process before it has begun. *)
Start ==
  /\ pc = "down" /\ file.state # "torn"
  /\ pc' = "asleep"
  /\ fresh' = file.fresh
  /\ UNCHANGED <<vars, local, file, seen>>

(* A new cycle looks for the account of its own update of yesterday. *)
BeginCycle(next) ==
  /\ pc = "asleep"
  /\ pc' = next
  /\ target' = Today - 1
  /\ priced' = Unpriced
  /\ bases' = registry.base
  /\ how' = Unknown
  /\ UNCHANGED <<vars, fresh, file, seen>>

LookFinds_Done == OwnUpdates(Today - 1) # {} /\ BeginCycle("saving")
LookFinds == OwnUpdates(Today - 1) # {} /\ BeginCycle("aggregating")
LookFindsNothing == OwnUpdates(Today - 1) = {} /\ BeginCycle("pricing")
(* Any error of the read counts as not found. *)
LookFails == BeginCycle("pricing")

(* An error inside the cycle: it ends, and what it learned is saved. *)
CycleFails == pc' = "saving"

RegistryFails ==
  /\ pc = "pricing" /\ priced = Unpriced
  /\ CycleFails
  /\ UNCHANGED <<vars, local, fresh, file, seen>>

Priced(c, price, from) ==
  /\ priced[c] = NotYet
  /\ priced' = [priced EXCEPT ![c] = price]
  /\ how' = [how EXCEPT ![c] = from]
  /\ pc' = IF \A d \in Constituents \ {c} : priced[d] # NotYet THEN "submitting" ELSE pc
  /\ UNCHANGED <<vars, target, bases, file>>

Fresh(c) ==
  /\ fresh' = [fresh EXCEPT ![c] = target]
  /\ seen' = [seen EXCEPT ![c] = target]

(* What the program makes of each answer of the listing source. *)
PriceOf == [listings \in Listings |-> compute_constituent(listings)]

(* The listing source answers with enough sales. *)
PricedFresh(c) ==
  /\ pc = "pricing"
  /\ \E listings \in Listings :
       /\ PriceOf[listings] # NoPrice
       /\ Priced(c, PriceOf[listings], [from |-> "sales", listings |-> listings])
  /\ Fresh(c)

(* It does not, fails or is given up on; the aggregate source has a price, *)
(* which is taken as it is quoted.                                         *)
PricedByQuote(c) ==
  /\ pc = "pricing"
  /\ \E quote \in Quotes : Priced(c, quote, [from |-> "quote"])
  /\ Fresh(c)

days_since_fresh(c) ==
  IF fresh[c] = 0 THEN 1 ELSE IF target > fresh[c] THEN target - fresh[c] ELSE 0

(* What the record says after neither source had an answer: what it said. *)
FreshAfterDecay_Recorded(c) == [fresh EXCEPT ![c] = target]
FreshAfterDecay(c) == fresh

PricedStale(c) ==
  LET days    == days_since_fresh(c)
      decayed == apply_decay(bases[c], days)
  IN  /\ pc = "pricing"
      /\ Priced(c, IF decayed = 0 THEN 1 ELSE decayed,
                [from |-> "decay", days |-> days, recorded |-> fresh[c] # 0])
      /\ fresh' = FreshAfterDecay(c)
      /\ UNCHANGED seen

SubmitLands(next) ==
  /\ pc = "submitting"
  /\ submit_price_update(own, target, priced)
  /\ pc' = next
  /\ UNCHANGED <<local, fresh, file, seen>>

(* Refused by the program, or never arrived. *)
SubmitFails ==
  /\ pc = "submitting"
  /\ CycleFails
  /\ UNCHANGED <<vars, local, fresh, file, seen>>

(* The day of the index is read; an error counts as another day. *)
IndexReadAs(days, next) ==
  /\ pc = "aggregating"
  /\ index.day \in days
  /\ pc' = next
  /\ UNCHANGED <<vars, local, fresh, file, seen>>

IndexIsOnTarget == index.status # "None" /\ IndexReadAs({target}, "saving")
IndexIsElsewhere == (index.status = "None" \/ index.day # target) /\ IndexReadAs({index.day}, "sending")
IndexReadFails == IndexReadAs({index.day}, "sending")

(* Its own update is the only one it lists; without it there is no such    *)
(* account, and the transaction fails.                                     *)
AggregateLands(next) ==
  /\ pc = "sending"
  /\ OwnUpdates(target) # {}
  /\ aggregate_day(target, [u \in OwnUpdates(target) |-> 1])
  /\ pc' = next
  /\ UNCHANGED <<local, fresh, file, seen>>

AggregateFails ==
  /\ pc = "sending"
  /\ CycleFails
  /\ UNCHANGED <<vars, local, fresh, file, seen>>

Saves ==
  /\ pc = "saving"
  /\ file' = [state |-> "whole", fresh |-> fresh]
  /\ pc' = "asleep"
  /\ Forget
  /\ UNCHANGED <<vars, fresh, seen>>

(* Only a warning is logged; the file may have been truncated already. *)
SaveFails ==
  /\ pc = "saving"
  /\ file' \in {file, [state |-> "torn", fresh |-> Blank]}
  /\ pc' = "asleep"
  /\ Forget
  /\ UNCHANGED <<vars, fresh, seen>>

(* The process is killed, between two awaits or in the middle of a save. *)
Dies ==
  /\ pc # "down"
  /\ pc' = "down"
  /\ file' \in {file} \cup (IF pc = "saving"
                            THEN {[state |-> "whole", fresh |-> fresh],
                                  [state |-> "torn", fresh |-> Blank]} ELSE {})
  /\ Forget
  /\ fresh' = Blank
  /\ UNCHANGED <<vars, seen>>

-----------------------------------------------------------------------------

LookSteps == LookFinds \/ LookFindsNothing \/ LookFails

PriceSteps(c) == PricedFresh(c) \/ PricedByQuote(c) \/ PricedStale(c)

CrankSteps ==
  \/ Start \/ LookSteps \/ RegistryFails
  \/ \E c \in Constituents : PriceSteps(c)
  \/ SubmitLands("aggregating") \/ SubmitLands("saving") \/ SubmitFails
  \/ IndexIsOnTarget \/ IndexIsElsewhere \/ IndexReadFails
  \/ AggregateLands("saving") \/ AggregateFails
  \/ Saves \/ SaveFails

CrankNext == CrankSteps \/ Dies \/ (Next /\ UNCHANGED process)

CrankSpec == Init /\ CrankInit /\ [][CrankNext]_crankvars

(* The process is restarted and its loop goes on, and of the calls that    *)
(* are made again and again not every one fails.                           *)
CrankFairness ==
  /\ WF_crankvars(CrankSteps)
  /\ SF_crankvars(LookFinds)
  /\ SF_crankvars(\E c \in Constituents : PriceSteps(c))
  /\ SF_crankvars(\E next \in {"aggregating", "saving"} : SubmitLands(next))
  /\ SF_crankvars(AggregateLands("saving"))

-----------------------------------------------------------------------------
(* Properties.                                                             *)

(* A stale price is never decayed by fewer days than have passed since a   *)
(* source last answered for it, whatever cycles failed, were repeated, or  *)
(* were lost to a crash or to a file that could not be written; the one    *)
(* exception is a slot without any record, which counts as one day old.    *)
NeverFresherThanSeen ==
  \A c \in Constituents :
    how[c].from = "decay" /\ how[c].recorded => how[c].days >= target - seen[c]

(* A sample of this size is large enough and not trimmed away. *)
SampleSuffices(n) == n >= MIN_SAMPLE /\ TopTrim(n) + BottomTrim(n) < n

(* A fresh price lies among the sales of the narrowest window that has     *)
(* enough of them, of which trimming leaves any: older sales do not weigh  *)
(* in while newer ones suffice, whatever the two percentages are.          *)
PricedByRecentSales ==
  \A c \in Constituents : how[c].from = "sales" =>
    \E i \in DOMAIN WINDOWS :
      LET Recent(j) == InWindow(how[c].listings, WINDOWS[j])
          sold      == {how[c].listings[l].price : l \in Recent(i)}
          Suffices(j) == SampleSuffices(Cardinality(Recent(j)))
      IN  /\ Suffices(i) /\ \A j \in 1..(i - 1) : ~Suffices(j)
          /\ \E low, high \in sold : low <= priced[c] /\ priced[c] <= high

(* When the day does not change any more, yesterday is submitted and       *)
(* aggregated in the end, whatever failed before and whoever else writes   *)
(* the index.  Two things keep the crank from it for good: a torn state    *)
(* file, and a quote of "$0" in all of its attempts, since the program     *)
(* refuses the prices of all constituents for it.                          *)
CaughtUp ==
  \/ <>[](index.status # "None" /\ index.day = Today - 1 /\ OwnUpdates(Today - 1) # {})
  \/ <>[](pc = "down" /\ file.state = "torn")
  \/ /\ []<>(pc = "submitting")
     /\ <>[](pc = "submitting" => \E c \in Constituents : priced[c] = 0 /\ how[c].from = "quote")

=============================================================================
