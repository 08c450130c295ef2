--------------------------- MODULE Monitor_proofs ---------------------------
(***************************************************************************)
(* What the operator believes, for any list of checks.                     *)
(***************************************************************************)
EXTENDS Monitor, TLAPS

(* Both maps have an entry for every check. *)
Beliefs ==
  /\ lastStatus = [c \in Names |-> lastStatus[c]]
  /\ told = [c \in Names |-> told[c]]

Known == Beliefs /\ OperatorKnows

LEMMA KnownInit == Init => Known
  BY DEF Init, Known, Beliefs, OperatorKnows, NoAnswers, Unknown

(* The summary of a first pass: all answers at once. *)
LEMMA BriefsKeep ==
  ASSUME Known, NEW delivered \in BOOLEAN, Briefs(delivered)
  PROVE  OperatorKnows'
<1>1. CASE delivered
  <2>1. told' = lastStatus'
    BY <1>1 DEF Briefs
  <2>. QED  BY <2>1 DEF OperatorKnows
<1>2. CASE ~delivered
  <2>1. silent' = Names
    BY <1>2 DEF Briefs
  <2>. QED  BY <2>1 DEF OperatorKnows
<1>. QED  BY <1>1, <1>2

(* Later passes: one answer, and nothing about the other checks. *)
LEMMA ReportsKeep ==
  ASSUME Known, NEW delivered \in BOOLEAN, Reports(delivered)
  PROVE  OperatorKnows'
<1>. DEFINE c == Current
            answer == Head(answers)
            message == WorthAMessage(c, answer)
<1>1. SUFFICES ASSUME NEW d \in Names
               PROVE  d \in silent' \/ lastStatus'[d] = Unknown \/ told'[d] = lastStatus'[d]
  BY DEF OperatorKnows
<1>2. d \in silent \/ lastStatus[d] = Unknown \/ told[d] = lastStatus[d]
  BY DEF Known, OperatorKnows
<1>3. lastStatus' = [lastStatus EXCEPT ![c] = {answer}]
  BY DEF Reports
<1>4. /\ told' = IF message /\ delivered THEN [told EXCEPT ![c] = {answer}] ELSE told
      /\ silent' = IF message /\ delivered THEN silent \ {c}
                   ELSE IF message \/ lastStatus[c] = Unknown THEN silent \cup {c} ELSE silent
  BY DEF Reports
<1>5. message <=> lastStatus[c] # Unknown /\ lastStatus[c] # {answer}
  BY DEF WorthAMessage
<1>. HIDE DEF c, answer, message
<1>6. CASE d = c
  BY <1>2, <1>3, <1>4, <1>5, <1>6 DEF Known, Beliefs
<1>7. CASE d # c
  BY <1>2, <1>3, <1>4, <1>7 DEF Known, Beliefs
<1>. QED  BY <1>6, <1>7
LEMMA BeliefsKeep ==
  ASSUME Beliefs, [Next]_vars
  PROVE  Beliefs'
<1>1. ASSUME NEW delivered \in BOOLEAN, Briefs(delivered)
      PROVE  Beliefs'
  BY <1>1 DEF Briefs, Beliefs
<1>2. ASSUME NEW delivered \in BOOLEAN, Reports(delivered)
      PROVE  Beliefs'
  BY <1>2 DEF Reports, Beliefs
<1>3. CASE Restarts
  BY <1>3 DEF Restarts, Beliefs, NoAnswers
<1>4. CASE UNCHANGED <<lastStatus, told>>
  BY <1>4 DEF Beliefs
<1>. QED
  BY <1>1, <1>2, <1>3, <1>4
  DEF Next, MonitorSteps, Asks, PassFails, Wakes, Changes, vars

LEMMA KnownStep == Known /\ [Next]_vars => Known'
<1>. SUFFICES ASSUME Known, [Next]_vars PROVE OperatorKnows'
  BY BeliefsKeep DEF Known
<1>1. ASSUME NEW delivered \in BOOLEAN, Briefs(delivered) \/ Reports(delivered)
      PROVE  OperatorKnows'
  BY <1>1, BriefsKeep, ReportsKeep
<1>2. CASE Restarts
  BY <1>2 DEF Restarts, OperatorKnows, NoAnswers
<1>3. CASE UNCHANGED <<lastStatus, told, silent>>
  BY <1>3 DEF Known, OperatorKnows
<1>. QED
  BY <1>1, <1>2, <1>3
  DEF Next, MonitorSteps, Asks, PassFails, Wakes, Changes, vars

(* Through flapping checks, abandoned passes, lost messages and restarts   *)
(* the operator believes of every check what the monitor found last, or    *)
(* was never told (the lastStatus map of the cycle), for any checks.       *)
THEOREM OperatorAlwaysKnows == Spec => []OperatorKnows
<1>1. Known => OperatorKnows
  BY DEF Known
<1>. QED  BY <1>1, KnownInit, KnownStep, PTL DEF Spec
=============================================================================
