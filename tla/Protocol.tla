------------------------------ MODULE Protocol ------------------------------
(***************************************************************************)
(* The two programs on one chain, programs/oracle and programs/perp-engine.*)
(* They never call each other.  They share the clock, the IndexState       *)
(* account, which the oracle writes and the engine's handlers read, and    *)
(* the engine's treasury vault, into which both pay.  PerpEngine takes     *)
(* what the oracle does as steps of an environment; here these steps are   *)
(* the oracle's own instructions, and ImplementsEngine says that they are  *)
(* what the engine takes them for.                                         *)
(*                                                                         *)
(* Not modelled: one user with both a bond or challenge and a position in  *)
(* the same USDC account; `purse` are the accounts of the engine's users.  *)
(***************************************************************************)
EXTENDS Oracle

CONSTANTS
  Clients,           \* the engine's users
  SCALE, BPS, Traders, SEED, InitRisk, PhaseRisk, RiskChoices, CAP_CEILING,
  OI_FLOOR, TAKER_FEE, PENALTY, MAX_POSITIONS, ADL_HAIRCUT, INSURANCE_FLOOR,
  HOUR, Sizes, Amounts, IndexValues

VARIABLES
  oi, count, cum, last_funding_update, twap, market_paused, risk, phase,
  position, margin_vault, insurance, treasury, purse,
  donated            \* history: tokens sent to the insurance vault from outside

market == <<oi, count, cum, last_funding_update, twap, market_paused, risk, phase,
            position, margin_vault, insurance, purse, donated>>
protocol == <<vars, market, treasury>>

(* IndexState as the engine decodes it.  Before the first aggregation the  *)
(* account does not exist, no handler that needs a price succeeds, and the *)
(* engine's model has a value of 0 instead.                                *)
IndexRead ==
  [status |-> IF index.status = "None" THEN "Provisional" ELSE index.status,
   value |-> index.value]

Engine == INSTANCE PerpEngine WITH
  Users <- Clients, paused <- market_paused, wallet <- purse,
  index <- IndexRead, clock <- clock - START,
  unbooked <- [insurance |-> donated, treasury |-> treasury_vault]

-----------------------------------------------------------------------------

(* `initialize_market` comes with the oracle's first instruction. *)
ProtocolInit == Init /\ donated = 0 /\ Engine!Init

(* What the oracle has paid into the treasury vault arrives there, in no   *)
(* total of the engine's.                                                  *)
TreasuryReceives_Booked(amount) ==
  treasury' = [treasury EXCEPT !.vault = @ + amount, !.received = @ + amount]
TreasuryReceives(amount) ==
  treasury' = [treasury EXCEPT !.vault = @ + amount]

OracleStep(A) ==
  /\ A
  /\ IF UNCHANGED treasury_vault
     THEN UNCHANGED treasury
     ELSE TreasuryReceives(treasury_vault' - treasury_vault)
  /\ UNCHANGED market

EngineStep(A) == UNCHANGED <<vars, donated>> /\ A

(* A plain SPL transfer to the insurance vault's address. *)
Donation(amount) ==
  /\ donated' = donated + amount
  /\ UNCHANGED vars
  /\ Engine!Donation(amount)

ProtocolNext ==
  \/ OracleStep(Next)
  \/ EngineStep(Engine!TraderSteps)
  \/ EngineStep(Engine!PublicSteps)
  \/ EngineStep(Engine!AdminSteps)
  \/ \E a \in Amounts : Donation(a)

ProtocolSpec == ProtocolInit /\ [][ProtocolNext]_protocol

-----------------------------------------------------------------------------

(* Whatever the oracle does, its aggregations, re-aggregations and         *)
(* finalizations, its slashes and lost challenge bonds, and the days that  *)
(* pass, is to the engine one of the steps its own model allows: so what   *)
(* is shown of the engine holds with this oracle at work.                  *)
ImplementsEngine == Engine!Spec

=============================================================================
