----------------------------- MODULE Operations -----------------------------
(***************************************************************************)
(* The operator's procedures on mainnet, services/dashboard/scripts: one   *)
(* script after the other, each a sequence of transactions awaited one by  *)
(* one.  A transaction may be refused, may never arrive, and may land      *)
(* although its answer is lost; the script then ends with an error, and    *)
(* the operator runs it again from its beginning until it ends well.       *)
(* Meanwhile anybody aggregates, which takes no publisher and no update.   *)
(*                                                                         *)
(* What the scripts act on is modelled as far as they can tell: which      *)
(* accounts exist, who administers the two programs (the two-step          *)
(* hand-over), which layout programs and accounts have, whether trading is *)
(* paused and whether the insurance fund was seeded.  The instructions     *)
(* themselves are in Oracle and PerpEngine.                                *)
(***************************************************************************)
EXTENDS Layout, Sequences

CONSTANTS
  deploy, vault, typo,   \* the first admin, the Squad's vault, a key nobody holds
  OLD_SLOTS, NEW_SLOTS               \* constituents before and after the enlargement

ASSUME OperationsAssumption ==
  /\ deploy # vault /\ typo \notin {deploy, vault}
  /\ OLD_SLOTS \in Nat \ {0} /\ NEW_SLOTS \in Nat /\ NEW_SLOTS >= OLD_SLOTS + 2

NoKey == "11111111111111111111111111111111"    \* Pubkey::default()
Keys == {deploy, vault, typo}
Programs == {"oracle", "engine"}

VARIABLES
  admin, pending,   \* Config's and Market's admin and pending_admin
  compiled,         \* constituents each deployed program was compiled for
  created,          \* accounts that exist
  registry,         \* its room, and the slots that hold a card
  index,            \* its room, and the layout it was last written with (0: none)
  paused,           \* market.trading_paused
  seeded,           \* deposit_insurance has succeeded
  run               \* stage of the runbook, step of its script (0: not running), file

governance == <<admin, pending>>
accounts == <<created, registry, index, paused, seeded>>
opsvars == <<governance, compiled, accounts, run>>

-----------------------------------------------------------------------------
(* The scripts.                                                            *)

Create(what) == [op |-> "create", what |-> what]
Slots(from, to) == [i \in 1..(to - from) |-> [op |-> "update_constituent", slot |-> from + i - 1]]
Commit == [op |-> "finalize_registry_update"]
Pause(on) == [op |-> "set_pause", on |-> on]
Aggregate == [op |-> "aggregate_day"]

Setup ==
  <<Create("config"), Create("registry")>> \o Slots(0, OLD_SLOTS) \o
  <<Commit, Create("fund"), Create("treasury"), [op |-> "set_protocol_treasury"],
    Create("market")>>
InitMainnet_Unpaused == Setup
InitMainnet == Setup \o <<Pause(TRUE)>>

RegisterPublisher == <<Create("publisher")>>
ExpandTo50 == <<[op |-> "expand_constituents"]>> \o Slots(OLD_SLOTS, NEW_SLOTS) \o <<Commit>>
SeedInsurance == <<[op |-> "deposit_insurance"]>>
EnableTrading == <<Pause(FALSE)>>

Upgrade(program) == [op |-> "upgrade", program |-> program]

MigrateAdmin ==
  <<[op |-> "propose_admin_transfer", program |-> "oracle"],
    [op |-> "propose_admin_transfer", program |-> "engine"],
    [op |-> "accept_admin_transfer", program |-> "oracle"],
    [op |-> "accept_admin_transfer", program |-> "engine"]>>

(* Launch, seeding, opening and hand-over come in the order that           *)
(* docs/mainnet-runbook.md gives them.  Where the enlargement comes among  *)
(* them is the operator's, and so is that both programs are upgraded       *)
(* before it and the index rewritten after it: no document says so.        *)
Runbook_EngineLater ==
  <<InitMainnet, RegisterPublisher, <<Aggregate>>,
    <<Upgrade("oracle")>>, ExpandTo50, <<Aggregate>>, <<Upgrade("engine")>>,
    SeedInsurance, EnableTrading, MigrateAdmin>>
Runbook ==
  <<InitMainnet, RegisterPublisher, <<Aggregate>>,
    <<Upgrade("oracle"), Upgrade("engine")>>, ExpandTo50, <<Aggregate>>,
    SeedInsurance, EnableTrading, MigrateAdmin>>

Handover == Len(Runbook)

-----------------------------------------------------------------------------
(* The instructions, as far as the scripts depend on them.                 *)

OpsInit ==
  /\ admin = [p \in Programs |-> deploy] /\ pending = [p \in Programs |-> NoKey]
  /\ compiled = [p \in Programs |-> OLD_SLOTS]
  /\ created = {}
  /\ registry = [room |-> 0, cards |-> {}]
  /\ index = [room |-> 0, written |-> 0]
  /\ paused = FALSE /\ seeded = FALSE
  /\ run = [stage |-> 1, step |-> 0, to |-> vault]

(* The only refusal safeRpc takes for a success: the account exists. *)
AlreadyInUse(i) == i.op = "create" /\ i.what \in created

create(what) ==
  /\ what \notin created
  /\ created' = created \cup {what}
  /\ registry' = IF what = "registry" THEN [registry EXCEPT !.room = compiled["oracle"]] ELSE registry
  /\ paused' = IF what = "market" THEN FALSE ELSE paused
  /\ UNCHANGED <<governance, compiled, index, seeded>>

(* The registry can be loaded only at the size the program has for it. *)
Loads == "registry" \in created /\ registry.room = compiled["oracle"]

update_constituent(slot) ==
  /\ admin["oracle"] = deploy /\ Loads /\ slot < compiled["oracle"]
  /\ registry' = [registry EXCEPT !.cards = @ \cup {slot}]
  /\ UNCHANGED <<governance, compiled, created, index, paused, seeded>>

(* What they set is in Oracle; here only whether they are accepted. *)
finalize_registry_update ==
  admin["oracle"] = deploy /\ Loads /\ UNCHANGED <<governance, compiled, accounts>>
set_protocol_treasury ==
  admin["oracle"] = deploy /\ UNCHANGED <<governance, compiled, accounts>>

set_pause(on) ==
  /\ admin["engine"] = deploy /\ "market" \in created
  /\ paused' = on
  /\ UNCHANGED <<governance, compiled, created, registry, index, seeded>>

(* Rewrites the whole account, which is created by the first aggregation;  *)
(* without any update every price is stale and the value is that of base.  *)
aggregate_day ==
  /\ "config" \in created /\ Loads
  /\ index.room \in {0, compiled["oracle"]}
  /\ index' = [room |-> compiled["oracle"], written |-> compiled["oracle"]]
  /\ UNCHANGED <<governance, compiled, created, registry, paused, seeded>>

(* Only bytes are added; an account that has its room already is left. *)
expand_constituents ==
  /\ admin["oracle"] = deploy /\ compiled["oracle"] = NEW_SLOTS
  /\ "registry" \in created /\ index.room # 0
  /\ registry' = [registry EXCEPT !.room = NEW_SLOTS]
  /\ index' = [index EXCEPT !.room = NEW_SLOTS]
  /\ UNCHANGED <<governance, compiled, created, paused, seeded>>

deposit_insurance ==
  /\ "fund" \in created
  /\ seeded' = TRUE
  /\ UNCHANGED <<governance, compiled, created, registry, index, paused>>

upgrade(program) ==
  /\ compiled' = [compiled EXCEPT ![program] = NEW_SLOTS]
  /\ UNCHANGED <<governance, accounts>>

propose_admin_transfer_AtOnce(program, signer, to) ==
  /\ admin[program] = signer
  /\ admin' = [admin EXCEPT ![program] = to]
  /\ UNCHANGED <<pending, compiled, accounts>>
propose_admin_transfer(program, signer, to) ==
  /\ admin[program] = signer
  /\ pending' = [pending EXCEPT ![program] = to]
  /\ UNCHANGED <<admin, compiled, accounts>>

accept_admin_transfer(program, signer) ==
  /\ pending[program] = signer /\ pending[program] # NoKey
  /\ admin' = [admin EXCEPT ![program] = pending[program]]
  /\ pending' = [pending EXCEPT ![program] = NoKey]
  /\ UNCHANGED <<compiled, accounts>>

(* The Squad signs as its vault, whatever was proposed. *)
Instruction(i) ==
  \/ i.op = "create" /\ create(i.what)
  \/ i.op = "update_constituent" /\ update_constituent(i.slot)
  \/ i.op = "finalize_registry_update" /\ finalize_registry_update
  \/ i.op = "set_protocol_treasury" /\ set_protocol_treasury
  \/ i.op = "set_pause" /\ set_pause(i.on)
  \/ i.op = "aggregate_day" /\ aggregate_day
  \/ i.op = "expand_constituents" /\ expand_constituents
  \/ i.op = "deposit_insurance" /\ deposit_insurance
  \/ i.op = "upgrade" /\ upgrade(i.program)
  \/ i.op = "propose_admin_transfer" /\ propose_admin_transfer(i.program, deploy, run.to)
  \/ i.op = "accept_admin_transfer" /\ accept_admin_transfer(i.program, vault)

-----------------------------------------------------------------------------
(* The operator.                                                           *)

Script == Runbook[run.stage]
Running == run.step # 0
Current == Script[run.step]

(* The vault's address comes from a file, which may be the wrong one. *)
RunScript ==
  /\ ~Running /\ run.stage <= Len(Runbook)
  /\ \E to \in IF run.stage = Handover THEN {vault, typo} ELSE {vault} :
       run' = [run EXCEPT !.step = 1, !.to = to]
  /\ UNCHANGED <<governance, compiled, accounts>>

GoesOn ==
  run' = IF run.step < Len(Script) THEN [run EXCEPT !.step = @ + 1]
         ELSE [run EXCEPT !.stage = @ + 1, !.step = 0]
Stops == run' = [run EXCEPT !.step = 0]

Lands == Running /\ Instruction(Current) /\ GoesOn
LandsUnanswered == Running /\ Instruction(Current) /\ Stops

(* init-mainnet's safeRpc goes on after a refusal of this kind, and the    *)
(* registration asks first; every other script ends.                       *)
Tolerated_Never(i) == FALSE
Tolerated(i) == AlreadyInUse(i)

Refused ==
  /\ Running /\ AlreadyInUse(Current)
  /\ IF Tolerated(Current) THEN GoesOn ELSE Stops
  /\ UNCHANGED <<governance, compiled, accounts>>

(* Never sent, lost on its way, or refused for any other reason. *)
Fails ==
  /\ Running /\ Stops
  /\ UNCHANGED <<governance, compiled, accounts>>

(* The caller is any signer: a crank, or somebody passing by. *)
AnyoneAggregates == aggregate_day /\ UNCHANGED run

OpsNext == RunScript \/ Lands \/ LandsUnanswered \/ Refused \/ Fails \/ AnyoneAggregates

OpsSpec == OpsInit /\ [][OpsNext]_opsvars

(* The operator does not give up, and of the times the same step is tried  *)
(* not every one fails.                                                    *)
Answered(k) == run.step = k /\ (Lands \/ Refused)

OpsFairness ==
  /\ WF_opsvars(RunScript)
  /\ WF_opsvars(Lands \/ LandsUnanswered \/ Refused \/ Fails)
  /\ \A k \in 1..(OLD_SLOTS + NEW_SLOTS + 10) : SF_opsvars(Answered(k))

-----------------------------------------------------------------------------
(* Properties.                                                             *)

(* What the engine reads in the index account; 0 is refused by all of its  *)
(* instructions, as is an account that cannot be decoded.                  *)
EngineReading ==
  IF index.room = 0 THEN "fails" ELSE Reading(compiled["engine"], index.written, index.room)

(* Neither program ever has an admin who cannot sign, whichever key is     *)
(* proposed and wherever the hand-over stops; it may stop with the two     *)
(* programs under different admins.                                        *)
NeverOrphaned == \A p \in Programs : admin[p] \in {deploy, vault}

(* No price the engine would trade or liquidate at is ever put together    *)
(* from other fields of the account, at any point of upgrade, enlargement  *)
(* and rewriting.                                                          *)
EngineReadsTheValue == EngineReading # "other"

(* Once init-mainnet has ended well, positions can be opened only against  *)
(* a seeded insurance fund, wherever later scripts stop and whoever        *)
(* aggregates.  While it has not, they can be: a market is created         *)
(* unpaused, and the script may end there.                                 *)
SeededAfterLaunch ==
  run.stage > 1 /\ ~paused /\ EngineReading = "value" => seeded

(* Wherever the scripts fail, run again they come to the hand-over, with   *)
(* the whole registry filled and the market open.                          *)
ReachesHandover ==
  <>(run.stage = Handover /\ registry.cards = 0..(NEW_SLOTS - 1) /\ ~paused /\ EngineReading = "value")
=============================================================================
