------------------------- MODULE Operations_proofs --------------------------
(***************************************************************************)
(* The procedures are safe at every point where they may stop, for any     *)
(* number of constituents before and after the enlargement.                *)
(***************************************************************************)
EXTENDS Operations, SequenceTheorems, TLAPS

(***************************************************************************)
(* Governance.                                                             *)
(***************************************************************************)
AdminType == admin \in [Programs -> {deploy, vault}]

LEMMA AdminStep == AdminType /\ [OpsNext]_opsvars => AdminType'
<1>. SUFFICES ASSUME AdminType, [OpsNext]_opsvars PROVE AdminType'
  OBVIOUS
<1>. USE DEF AdminType
<1>1. ASSUME NEW i, Instruction(i) PROVE AdminType'
  <2>1. CASE i.op = "accept_admin_transfer" /\ accept_admin_transfer(i.program, vault)
    BY <2>1 DEF accept_admin_transfer
  <2>2. CASE i.op = "propose_admin_transfer" /\ propose_admin_transfer(i.program, deploy, run.to)
    BY <2>2 DEF propose_admin_transfer
  <2>3. CASE UNCHANGED governance
    BY <2>3 DEF governance
  <2>. QED
    BY <1>1, <2>1, <2>2, <2>3
    DEF Instruction, create, update_constituent, finalize_registry_update,
        set_protocol_treasury, set_pause, aggregate_day, expand_constituents,
        deposit_insurance, upgrade
<1>2. CASE RunScript \/ Refused \/ Fails \/ AnyoneAggregates \/ UNCHANGED opsvars
  BY <1>2 DEF RunScript, Refused, Fails, AnyoneAggregates, aggregate_day, governance, opsvars
<1>3. CASE Lands \/ LandsUnanswered
  BY <1>1, <1>3 DEF Lands, LandsUnanswered
<1>. QED  BY <1>2, <1>3 DEF OpsNext

(* Whichever key is proposed, and wherever a hand-over stops, the programs *)
(* are administered by the first key or by the vault (propose_admin_       *)
(* transfer and accept_admin_transfer of both programs).                   *)
THEOREM AdminsCanSign == OpsSpec => []NeverOrphaned
<1>1. OpsInit => AdminType
  BY DEF OpsInit, AdminType
<1>2. AdminType => NeverOrphaned
  BY DEF AdminType, NeverOrphaned
<1>. QED  BY <1>1, <1>2, AdminStep, PTL DEF OpsSpec

(***************************************************************************)
(* Layouts: which fields readers compiled for other numbers find.          *)
(***************************************************************************)

(* A reader of the enlarged layout finds only the zeros that the           *)
(* enlargement appended, from two additional constituents on.              *)
LEMMA GrownReadsZero ==
  ASSUME NEW old \in Nat, NEW new \in Nat, new >= old + 2
  PROVE  Reading(new, old, new) = "zero"
  BY DEF Reading, SIZE, VALUE_AT

LEMMA SmallFails ==
  ASSUME NEW old \in Nat, NEW new \in Nat, new > old, NEW written
  PROVE  Reading(new, written, old) = "fails"
  BY DEF Reading, SIZE, VALUE_AT

(***************************************************************************)
(* What is in the scripts.                                                 *)
(***************************************************************************)
Creating == [op: {"create"}, what: {"config", "registry", "fund", "treasury", "market"}]
Updating == [op: {"update_constituent"}, slot: Nat]
Setting == [op: {"finalize_registry_update", "set_protocol_treasury"}]
Launching == Creating \cup Updating \cup Setting

LEMMA SlotsAreUpdates ==
  ASSUME NEW from \in Nat, NEW to \in Nat, to >= from
  PROVE  Slots(from, to) \in Seq(Updating) /\ Len(Slots(from, to)) = to - from
<1>1. to - from \in Nat
  OBVIOUS
<1>2. \A i \in 1..(to - from) :
        [op |-> "update_constituent", slot |-> from + i - 1] \in Updating
  BY DEF Updating
<1>. QED  BY <1>1, <1>2 DEF Slots

(* The launch creates accounts and fills slots; its last step pauses. *)
LEMMA SetupShape == Setup \in Seq(Launching)
<1>. DEFINE first == <<Create("config"), Create("registry")>>
            cards == Slots(0, OLD_SLOTS)
            last  == <<Commit, Create("fund"), Create("treasury"),
                       [op |-> "set_protocol_treasury"], Create("market")>>
<1>1. first \in Seq(Launching) /\ last \in Seq(Launching)
  BY DEF Launching, Creating, Setting, Create, Commit
<1>2. cards \in Seq(Launching)
  BY SlotsAreUpdates, OperationsAssumption, SeqMonotonic DEF Launching
<1>3. Setup = (first \o cards) \o last
  BY DEF Setup
<1>. QED  BY <1>1, <1>2, <1>3, ConcatProperties

LEMMA InitMainnetSteps ==
  /\ Len(InitMainnet) \in Nat \ {0}
  /\ InitMainnet[Len(InitMainnet)] = Pause(TRUE)
  /\ \A k \in 1..Len(InitMainnet) :
       k # Len(InitMainnet) => InitMainnet[k] \in Launching
<1>. DEFINE S == Launching \cup {Pause(TRUE)}
            last == <<Pause(TRUE)>>
<1>1. Setup \in Seq(S)
  <2>1. Launching \subseteq S
    OBVIOUS
  <2>. HIDE DEF S
  <2>. QED  BY <2>1, SetupShape, SeqMonotonic
<1>2. last \in Seq(S) /\ Len(last) = 1 /\ last[1] = Pause(TRUE)
  OBVIOUS
<1>3. Len(Setup) \in Nat /\ \A k \in 1..Len(Setup) : Setup[k] \in Launching
  BY SetupShape, LenProperties, ElementOfSeq
<1>. HIDE DEF S, last
<1>4. /\ Len(Setup \o last) = Len(Setup) + 1
      /\ \A i \in 1..(Len(Setup) + 1) :
           (Setup \o last)[i] = IF i <= Len(Setup) THEN Setup[i] ELSE last[i - Len(Setup)]
  <2>1. /\ Len(Setup \o last) = Len(Setup) + Len(last)
        /\ \A i \in 1..(Len(Setup) + Len(last)) :
             (Setup \o last)[i] = IF i <= Len(Setup) THEN Setup[i] ELSE last[i - Len(Setup)]
    BY <1>1, <1>2, ConcatProperties, Zenon
  <2>. QED  BY <1>2, <2>1
<1>5. InitMainnet = Setup \o last
  BY DEF InitMainnet, last
<1>6. InitMainnet[Len(Setup) + 1] = last[1]
  BY <1>3, <1>4, <1>5
<1>7. \A k \in 1..Len(InitMainnet) :
        k # Len(InitMainnet) => k \in 1..Len(Setup) /\ InitMainnet[k] = Setup[k]
  BY <1>3, <1>4, <1>5
<1>8. Len(InitMainnet) = Len(Setup) + 1
  BY <1>4, <1>5
<1>9. InitMainnet[Len(InitMainnet)] = Pause(TRUE)
  BY <1>2, <1>6, <1>8
<1>10. Len(InitMainnet) \in Nat \ {0}
  BY <1>3, <1>8
<1>11. \A k \in 1..Len(InitMainnet) : k # Len(InitMainnet) => InitMainnet[k] \in Launching
  BY <1>3, <1>7
<1>. QED  BY <1>9, <1>10, <1>11

LEMMA ExpandSteps ==
  /\ Len(ExpandTo50) \in Nat \ {0}
  /\ \A k \in 1..Len(ExpandTo50) :
       ExpandTo50[k].op \in {"expand_constituents", "update_constituent",
                             "finalize_registry_update", "set_protocol_treasury"}
<1>. DEFINE Expanding == [op: {"expand_constituents"}]
            S == Expanding \cup Updating \cup Setting
            first == <<[op |-> "expand_constituents"]>>
            cards == Slots(OLD_SLOTS, NEW_SLOTS)
            last  == <<Commit>>
<1>1. first \in Seq(S) /\ last \in Seq(S) /\ Len(first) = 1
  BY DEF Setting, Commit
<1>2. cards \in Seq(S)
  BY SlotsAreUpdates, OperationsAssumption, SeqMonotonic
<1>3. ExpandTo50 = (first \o cards) \o last
  BY DEF ExpandTo50
<1>4. ExpandTo50 \in Seq(S) /\ Len(ExpandTo50) > 0
  <2>. HIDE DEF first, cards, last, S
  <2>1. first \o cards \in Seq(S) /\ Len(first \o cards) > 0
    BY <1>1, <1>2, ConcatProperties, LenProperties
  <2>. QED  BY <1>1, <1>3, <2>1, ConcatProperties, LenProperties
<1>5. \A i \in S : i.op \in {"expand_constituents", "update_constituent",
                              "finalize_registry_update", "set_protocol_treasury"}
  <2>1. \A i \in Expanding : i.op = "expand_constituents"
    OBVIOUS
  <2>2. \A i \in Updating : i.op = "update_constituent"
    BY DEF Updating
  <2>3. \A i \in Setting : i.op \in {"finalize_registry_update", "set_protocol_treasury"}
    BY DEF Setting
  <2>. QED  BY <2>1, <2>2, <2>3
<1>. QED  BY <1>4, <1>5, LenProperties, ElementOfSeq
LEMMA RunbookShape ==
  /\ Len(Runbook) = 9
  /\ Runbook[1] = InitMainnet      /\ Runbook[2] = RegisterPublisher
  /\ Runbook[3] = <<Aggregate>>    /\ Runbook[5] = ExpandTo50
  /\ Runbook[4] = <<Upgrade("oracle"), Upgrade("engine")>>
  /\ Runbook[6] = <<Aggregate>>    /\ Runbook[7] = SeedInsurance
  /\ Runbook[8] = EnableTrading    /\ Runbook[9] = MigrateAdmin
  BY DEF Runbook

(* What the script of stage s may send, as far as anything depends on it. *)
Sent(s, i) ==
  /\ i.op = "create" => /\ s \in 1..2
                        /\ i.what \in {"registry", "market"} => s = 1
  /\ i.op = "upgrade" => s = 4
  /\ i.op = "expand_constituents" => s = 5
  /\ i.op = "set_pause" => \/ s = 1 /\ i.on = TRUE
                           \/ s = 8
  /\ s = 7 => i.op = "deposit_insurance"

LEMMA LaunchingSteps ==
  \A i \in Launching : i.op \notin {"upgrade", "expand_constituents", "set_pause"}
  BY DEF Launching, Creating, Updating, Setting

LEMMA Steps ==
  ASSUME NEW s \in 1..9
  PROVE  /\ Len(Runbook[s]) \in Nat \ {0}
         /\ \A k \in 1..Len(Runbook[s]) : Sent(s, Runbook[s][k])
<1>1. CASE s = 1
  <2>1. \A i \in Launching : Sent(s, i)
    BY <1>1, LaunchingSteps DEF Sent
  <2>2. Sent(s, Pause(TRUE))
    BY <1>1 DEF Sent, Pause
  <2>. QED  BY <1>1, <2>1, <2>2, RunbookShape, InitMainnetSteps
<1>2. CASE s = 2
  <2>1. Sent(s, Create("publisher"))
    BY <1>2 DEF Sent, Create
  <2>. QED  BY <1>2, <2>1, RunbookShape DEF RegisterPublisher
<1>3. CASE s = 3 \/ s = 6
  <2>1. Sent(s, Aggregate) /\ Runbook[s] = <<Aggregate>>
    BY <1>3, RunbookShape DEF Sent, Aggregate
  <2>. QED  BY <2>1
<1>4. CASE s = 4
  <2>1. Sent(s, Upgrade("oracle")) /\ Sent(s, Upgrade("engine"))
    BY <1>4 DEF Sent, Upgrade
  <2>. QED  BY <1>4, <2>1, RunbookShape
<1>5. CASE s = 5
  <2>1. \A i : i.op \in {"expand_constituents", "update_constituent",
                         "finalize_registry_update", "set_protocol_treasury"} => Sent(s, i)
    BY <1>5 DEF Sent
  <2>. QED  BY <1>5, <2>1, RunbookShape, ExpandSteps
<1>6. CASE s = 7
  <2>1. Sent(s, [op |-> "deposit_insurance"])
    BY <1>6 DEF Sent
  <2>. QED  BY <1>6, <2>1, RunbookShape DEF SeedInsurance
<1>7. CASE s = 8
  <2>1. Sent(s, Pause(FALSE))
    BY <1>7 DEF Sent, Pause
  <2>2. Runbook[s] = <<Pause(FALSE)>>
    BY <1>7, RunbookShape DEF EnableTrading
  <2>3. Len(Runbook[s]) = 1
    BY <2>2
  <2>4. Runbook[s][1] = Pause(FALSE)
    BY <2>2
  <2>5. Sent(s, Runbook[s][1])
    BY <2>1, <2>4, Zenon
  <2>. QED  BY <2>3, <2>5
<1>8. CASE s = 9
  <2>1. \A i : i.op \in {"propose_admin_transfer", "accept_admin_transfer"} => Sent(s, i)
    BY <1>8 DEF Sent
  <2>2. /\ Len(MigrateAdmin) = 4
        /\ MigrateAdmin[1].op = "propose_admin_transfer"
        /\ MigrateAdmin[2].op = "propose_admin_transfer"
        /\ MigrateAdmin[3].op = "accept_admin_transfer"
        /\ MigrateAdmin[4].op = "accept_admin_transfer"
    BY DEF MigrateAdmin
  <2>3. \A k \in 1..4 : Sent(s, MigrateAdmin[k])
    BY <2>1, <2>2
  <2>4. Runbook[s] = MigrateAdmin
    BY <1>8, RunbookShape
  <2>5. Len(Runbook[s]) = 4 /\ \A k \in 1..4 : Sent(s, Runbook[s][k])
    BY <2>2, <2>3, <2>4
  <2>. QED  BY <2>5
<1>. QED  BY <1>1, <1>2, <1>3, <1>4, <1>5, <1>6, <1>7, <1>8

(* With which step launch, upgrade and seeding end. *)
LEMMA LastSteps ==
  /\ Runbook[1][Len(Runbook[1])] = Pause(TRUE)
  /\ Runbook[4][Len(Runbook[4])] = Upgrade("engine")
  BY RunbookShape, InitMainnetSteps

(***************************************************************************)
(* How far the runbook has come, and what is the case then.                *)
(***************************************************************************)
Rooms == {0, OLD_SLOTS, NEW_SLOTS}

Types ==
  /\ compiled \in [Programs -> {OLD_SLOTS, NEW_SLOTS}]
  /\ registry = [room |-> registry.room, cards |-> registry.cards]
  /\ registry.room \in Rooms
  /\ index \in [room: Rooms, written: Rooms]
  /\ index.room # 0 => index.written # 0

Staged(s) ==
  /\ s <= 3 => compiled = [p \in Programs |-> OLD_SLOTS]
  /\ s <= 4 => /\ registry.room # NEW_SLOTS
               /\ index.room # NEW_SLOTS /\ index.written # NEW_SLOTS
  /\ s >= 5 => compiled["engine"] = NEW_SLOTS
  /\ s \in 2..7 => paused
  /\ s >= 8 => seeded

RunType ==
  /\ run \in [stage: 1..10, step: Nat, to: Keys]
  /\ run.step # 0 => run.stage \in 1..9 /\ run.step \in 1..Len(Runbook[run.stage])

Progress == Types /\ RunType /\ Staged(run.stage)

(* An aggregation may come at any time, and waits for the registry to have *)
(* the room the program expects.                                           *)
LEMMA AggregationKeeps ==
  ASSUME NEW CONSTANT s \in 1..10, Types, Staged(s), aggregate_day
  PROVE  Types' /\ Staged(s)'
<1>1. /\ UNCHANGED <<compiled, created, registry, paused, seeded>>
      /\ index' = [room |-> compiled["oracle"], written |-> compiled["oracle"]]
      /\ registry.room = compiled["oracle"]
  BY DEF aggregate_day, Loads, governance
<1>2. compiled["oracle"] \in {OLD_SLOTS, NEW_SLOTS} /\ OLD_SLOTS # 0 /\ NEW_SLOTS # 0
  BY OperationsAssumption DEF Types, Programs
<1>. QED  BY <1>1, <1>2 DEF Types, Staged, Rooms

(* What the instructions of the script of stage s leave as it is there. *)
LEMMA InstructionKeeps ==
  ASSUME NEW CONSTANT s \in 1..9, Types, Staged(s),
         NEW i, Sent(s, i), Instruction(i)
  PROVE  Types' /\ Staged(s)'
<1>. USE OperationsAssumption DEF Types, Staged, Sent, Rooms, governance, accounts
<1>1. CASE i.op = "create" /\ create(i.what)
  BY <1>1 DEF create, Programs
<1>2. CASE i.op = "update_constituent" /\ update_constituent(i.slot)
  BY <1>2 DEF update_constituent
<1>3. CASE i.op = "finalize_registry_update" /\ finalize_registry_update
  BY <1>3 DEF finalize_registry_update
<1>4. CASE i.op = "set_protocol_treasury" /\ set_protocol_treasury
  BY <1>4 DEF set_protocol_treasury
<1>5. CASE i.op = "set_pause" /\ set_pause(i.on)
  BY <1>5 DEF set_pause
<1>6. CASE i.op = "aggregate_day" /\ aggregate_day
  BY <1>6, AggregationKeeps
<1>7. CASE i.op = "expand_constituents" /\ expand_constituents
  BY <1>7 DEF expand_constituents
<1>8. CASE i.op = "deposit_insurance" /\ deposit_insurance
  BY <1>8 DEF deposit_insurance
<1>9. CASE i.op = "upgrade" /\ upgrade(i.program)
  <2>1. s = 4
    BY <1>9 DEF Sent
  <2>2. compiled' \in [Programs -> {OLD_SLOTS, NEW_SLOTS}]
    BY <1>9 DEF upgrade, Types
  <2>3. UNCHANGED accounts
    BY <1>9 DEF upgrade
  <2>. QED  BY <2>1, <2>2, <2>3 DEF Types, Staged, accounts
<1>10. CASE i.op = "propose_admin_transfer" /\ propose_admin_transfer(i.program, deploy, run.to)
  BY <1>10 DEF propose_admin_transfer
<1>11. CASE i.op = "accept_admin_transfer" /\ accept_admin_transfer(i.program, vault)
  BY <1>11 DEF accept_admin_transfer
<1>. QED
  BY <1>1, <1>2, <1>3, <1>4, <1>5, <1>6, <1>7, <1>8, <1>9, <1>10, <1>11 DEF Instruction
LEMMA LastStepDone ==
  ASSUME NEW CONSTANT s \in 1..9, Types, NEW k \in 1..Len(Runbook[s]),
         Instruction(Runbook[s][k]), s = 7 \/ k = Len(Runbook[s])
  PROVE  /\ s = 1 => paused'
         /\ s = 4 => compiled'["engine"] = NEW_SLOTS
         /\ s = 7 => seeded'
<1>1. CASE s = 1
  <2>1. k = Len(Runbook[1]) /\ Instruction(Runbook[1][k])
    BY <1>1
  <2>2. Instruction(Pause(TRUE))
    BY <2>1, LastSteps, Zenon
  <2>. QED  BY <1>1, <2>2 DEF Instruction, Pause, set_pause
<1>2. CASE s = 4
  <2>1. Instruction(Upgrade("engine"))
    BY <1>2, LastSteps
  <2>. QED  BY <1>2, <2>1 DEF Instruction, Upgrade, upgrade, Types, Programs
<1>3. CASE s = 7
  <2>1. Runbook[s][k].op = "deposit_insurance"
    BY <1>3, Steps DEF Sent
  <2>. QED  BY <1>3, <2>1 DEF Instruction, deposit_insurance
<1>. QED  BY <1>1, <1>2, <1>3

LEMMA ProgressInit == OpsInit => Progress
<1>. SUFFICES ASSUME OpsInit PROVE Progress
  OBVIOUS
<1>. USE OperationsAssumption DEF OpsInit
<1>1. Types
  BY DEF Types, Rooms
<1>2. Staged(run.stage)
  BY DEF Staged
<1>3. RunType
  BY DEF Keys, RunType
<1>. QED  BY <1>1, <1>2, <1>3 DEF Progress
LEMMA RunStarts ==
  ASSUME RunType, RunScript
  PROVE  RunType' /\ run'.stage = run.stage /\ UNCHANGED <<compiled, accounts>>
<1>1. PICK to \in Keys : run' = [run EXCEPT !.step = 1, !.to = to]
  BY DEF RunScript, Keys
<1>2. run.stage \in 1..9
  BY RunbookShape DEF RunScript, RunType
<1>3. 1 \in 1..Len(Runbook[run.stage])
  <2>1. Len(Runbook[run.stage]) \in Nat \ {0}
    BY <1>2, Steps
  <2>. QED  BY <2>1
<1>4. /\ run' \in [stage: 1..10, step: Nat, to: Keys]
      /\ run'.stage = run.stage /\ run'.step = 1
  BY <1>1 DEF RunType
<1>5. UNCHANGED <<compiled, accounts>>
  BY DEF RunScript
<1>. QED  BY <1>2, <1>3, <1>4, <1>5 DEF RunType

(* A stage is left only by way of the last step of its script. *)
LEMMA RunGoesOn ==
  ASSUME RunType, Running, GoesOn
  PROVE  /\ RunType'
         /\ \/ run'.stage = run.stage
            \/ run.step = Len(Runbook[run.stage]) /\ run'.stage = run.stage + 1
<1>1. run.stage \in 1..9 /\ run.step \in 1..Len(Runbook[run.stage])
  BY DEF RunType, Running
<1>2. Len(Runbook[run.stage]) \in Nat
  BY <1>1, Steps
<1>3. CASE run.step < Len(Runbook[run.stage])
  <2>1. run' = [run EXCEPT !.step = run.step + 1]
    BY <1>3 DEF GoesOn, Script
  <2>. QED  BY <1>1, <1>2, <1>3, <2>1 DEF RunType
<1>4. CASE run.step = Len(Runbook[run.stage])
  <2>1. run' = [run EXCEPT !.stage = run.stage + 1, !.step = 0]
    BY <1>2, <1>4 DEF GoesOn, Script
  <2>2. run.stage + 1 \in 1..10
    BY <1>1
  <2>3. /\ run' \in [stage: 1..10, step: Nat, to: Keys]
        /\ run'.stage = run.stage + 1 /\ run'.step = 0
    BY <2>1, <2>2 DEF RunType
  <2>. QED  BY <1>4, <2>3 DEF RunType
<1>. QED  BY <1>1, <1>2, <1>3, <1>4

LEMMA RunStops ==
  ASSUME RunType, Stops
  PROVE  RunType' /\ run'.stage = run.stage
  BY DEF RunType, Stops

LEMMA ProgressStep == Progress /\ [OpsNext]_opsvars => Progress'
<1>. SUFFICES ASSUME Progress, [OpsNext]_opsvars PROVE Progress'
  OBVIOUS
<1>1. Types /\ RunType /\ Staged(run.stage) /\ run.stage \in 1..10
  BY DEF Progress, RunType
<1>2. ASSUME UNCHANGED <<compiled, accounts>>
      PROVE  Types' /\ \A s \in 1..10 : Staged(s) => Staged(s)'
  BY <1>1, <1>2 DEF accounts, Types, Staged
<1>3. ASSUME Types', RunType', \A s \in 1..10 : Staged(s) => Staged(s)',
             run'.stage = run.stage
      PROVE  Progress'
  BY <1>1, <1>3 DEF Progress, Staged
<1>4. ASSUME Running
      PROVE  run.stage \in 1..9 /\ run.step \in 1..Len(Runbook[run.stage])
  BY <1>1, <1>4 DEF RunType, Running
<1>5. ASSUME Running, Instruction(Current)
      PROVE  Types' /\ \A s \in 1..10 : s = run.stage => Staged(s)'
  <2>1. Sent(run.stage, Current)
    BY <1>4, <1>5, Steps DEF Current, Script
  <2>2. ASSUME NEW CONSTANT s \in 1..9, s = run.stage
        PROVE  Types' /\ Staged(s)'
    BY <1>1, <1>5, <2>1, <2>2, InstructionKeeps
  <2>. QED  BY <1>4, <1>5, <2>2
<1>6. CASE RunScript
  BY <1>1, <1>2, <1>3, <1>6, RunStarts
<1>7. CASE Lands
  <2>1. Running /\ Instruction(Current) /\ GoesOn
    BY <1>7 DEF Lands
  <2>2. RunType'
    BY <1>1, <2>1, RunGoesOn
  <2>3. CASE run'.stage = run.stage
    BY <1>1, <1>5, <2>1, <2>2, <2>3 DEF Progress, Staged
  <2>4. CASE run.step = Len(Runbook[run.stage]) /\ run'.stage = run.stage + 1
    <3>1. /\ run.stage = 1 => paused'
          /\ run.stage = 4 => compiled'["engine"] = NEW_SLOTS
          /\ run.stage = 7 => seeded'
      <4>1. ASSUME NEW CONSTANT s \in 1..9, s = run.stage
            PROVE  /\ s = 1 => paused'
                   /\ s = 4 => compiled'["engine"] = NEW_SLOTS
                   /\ s = 7 => seeded'
        BY <1>1, <1>4, <2>1, <2>4, <4>1, LastStepDone DEF Current, Script
      <4>. QED  BY <1>4, <2>1, <4>1
    <3>2. run.stage \in 1..9
      BY <1>4, <2>1
    <3>3. Types' /\ \A s \in 1..10 : s = run.stage => Staged(s)'
      BY <1>5, <2>1
    <3>4. Staged(run.stage)'
      BY <2>4, <3>1, <3>2, <3>3 DEF Staged
    <3>. QED  BY <2>2, <3>3, <3>4 DEF Progress
  <2>. QED  BY <1>1, <2>1, <2>3, <2>4, RunGoesOn
<1>8. CASE LandsUnanswered
  <2>1. Running /\ Instruction(Current) /\ Stops
    BY <1>8 DEF LandsUnanswered
  <2>. QED  BY <1>1, <1>3, <1>5, <2>1, RunStops DEF Progress, Staged
<1>9. CASE Refused
  <2>1. /\ Running /\ AlreadyInUse(Current) /\ GoesOn
        /\ UNCHANGED <<compiled, accounts>>
    BY <1>9 DEF Refused, Tolerated
  <2>2. Types' /\ \A s \in 1..10 : Staged(s) => Staged(s)'
    BY <1>2, <2>1
  <2>3. RunType'
    BY <1>1, <2>1, RunGoesOn
  <2>4. CASE run'.stage = run.stage
    BY <1>3, <2>2, <2>3, <2>4
  <2>5. CASE run.step = Len(Runbook[run.stage]) /\ run'.stage = run.stage + 1
    <3>1. run.stage \in 1..9 /\ Current = Runbook[run.stage][run.step]
      BY <1>4, <2>1 DEF Current, Script
    <3>2. Sent(run.stage, Current) /\ Current.op = "create"
      BY <1>4, <2>1, <3>1, Steps DEF AlreadyInUse
    <3>3. run.stage # 1
      <4>1. Pause(TRUE).op = "set_pause"
        BY DEF Pause
      <4>. QED  BY <2>5, <3>1, <3>2, <4>1, LastSteps
    <3>4. run.stage = 2 /\ run'.stage = 3
      BY <2>5, <3>1, <3>2, <3>3 DEF Sent
    <3>5. Staged(2)'
      BY <1>1, <2>2, <3>4
    <3>. QED  BY <2>2, <2>3, <3>4, <3>5 DEF Progress, Staged
  <2>. QED  BY <1>1, <2>1, <2>4, <2>5, RunGoesOn
<1>10. CASE Fails
  <2>1. Stops /\ UNCHANGED <<compiled, accounts>>
    BY <1>10 DEF Fails
  <2>. QED  BY <1>1, <1>2, <1>3, <2>1, RunStops
<1>11. CASE AnyoneAggregates
  <2>1. aggregate_day /\ UNCHANGED run
    BY <1>11 DEF AnyoneAggregates
  <2>2. ASSUME NEW CONSTANT s \in 1..10, Staged(s)
        PROVE  Types' /\ Staged(s)'
    BY <1>1, <2>1, <2>2, AggregationKeeps
  <2>3. RunType' /\ run'.stage = run.stage
    BY <1>1, <2>1 DEF RunType
  <2>4. Types'
    BY <1>1, <2>2
  <2>. QED  BY <1>3, <2>2, <2>3, <2>4
<1>12. CASE UNCHANGED opsvars
  <2>1. UNCHANGED <<compiled, accounts>> /\ UNCHANGED run
    BY <1>12 DEF opsvars
  <2>2. RunType' /\ run'.stage = run.stage
    BY <1>1, <2>1 DEF RunType
  <2>. QED  BY <1>2, <1>3, <2>1, <2>2
<1>. QED  BY <1>6, <1>7, <1>8, <1>9, <1>10, <1>11, <1>12 DEF OpsNext
LEMMA ProgressHolds == OpsSpec => []Progress
  BY ProgressInit, ProgressStep, PTL DEF OpsSpec

LEMMA ProgressReads == Progress => EngineReadsTheValue
<1>. SUFFICES ASSUME Progress, index.room # 0
              PROVE  Reading(compiled["engine"], index.written, index.room) # "other"
  BY DEF EngineReadsTheValue, EngineReading
<1>1. /\ compiled["engine"] \in {OLD_SLOTS, NEW_SLOTS}
      /\ index.room \in Rooms /\ index.written \in Rooms /\ index.written # 0
  BY DEF Progress, Types, Programs
<1>2. OLD_SLOTS \in Nat /\ NEW_SLOTS \in Nat /\ NEW_SLOTS >= OLD_SLOTS + 2
  BY OperationsAssumption
<1>3. CASE compiled["engine"] = index.written
  BY <1>3 DEF Reading
<1>4. CASE compiled["engine"] = NEW_SLOTS /\ index.written = OLD_SLOTS
  <2>1. Reading(NEW_SLOTS, OLD_SLOTS, NEW_SLOTS) = "zero"
    BY <1>2, GrownReadsZero
  <2>2. Reading(NEW_SLOTS, OLD_SLOTS, OLD_SLOTS) = "fails"
    BY <1>2, SmallFails
  <2>. QED  BY <1>1, <1>4, <2>1, <2>2 DEF Rooms
<1>5. CASE compiled["engine"] = OLD_SLOTS /\ index.written = NEW_SLOTS
  <2>1. run.stage \in 1..10 /\ run.stage >= 5
    BY <1>5 DEF Progress, RunType, Staged
  <2>2. compiled["engine"] = NEW_SLOTS
    BY <2>1 DEF Progress, Staged
  <2>. QED  BY <1>2, <1>5, <2>2
<1>. QED  BY <1>1, <1>3, <1>4, <1>5 DEF Rooms

(* At no point of upgrade, enlargement and rewriting, with any step lost,  *)
(* repeated or cut short, does the engine take other bytes for the index   *)
(* value (the realloc of expand_constituents and the order of the          *)
(* runbook), whatever the two numbers of constituents.                     *)
THEOREM EngineNeverMisreads == OpsSpec => []EngineReadsTheValue
  BY ProgressHolds, ProgressReads, PTL

LEMMA ProgressSeeded == Progress => SeededAfterLaunch
<1>. SUFFICES ASSUME Progress, run.stage > 1, ~paused PROVE seeded
  BY DEF SeededAfterLaunch
<1>1. run.stage \in 2..10
  BY DEF Progress, RunType
<1>. QED  BY <1>1 DEF Progress, Staged

(* After init-mainnet nobody trades before the insurance fund is seeded,   *)
(* wherever the scripts stop, however often they are run again and whoever *)
(* aggregates meanwhile (init-mainnet, deposit-insurance-mainnet and       *)
(* set-pause-mainnet).                                                     *)
THEOREM SeededBeforeTrading == OpsSpec => []SeededAfterLaunch
  BY ProgressHolds, ProgressSeeded, PTL
=============================================================================
