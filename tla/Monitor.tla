------------------------------ MODULE Monitor -------------------------------
(***************************************************************************)
(* The health monitor, services/monitor/src/index.ts.                      *)
(*                                                                         *)
(* Whether the protocol is in order is asked of one outcome after another, *)
(* each at its own moment.  The first pass after a start is summed up in   *)
(* one message to the operator; afterwards a message goes out only where   *)
(* the answer differs from the last one.  Reading the chain may throw,     *)
(* which abandons the pass; a message may get lost, which nobody notices.  *)
(*                                                                         *)
(* The equity check behind bad_debt is isLiquidatable of module Keeper.    *)
(* Its exemption for an oracle that is not live never applies: the program *)
(* sets no status but Provisional and Final.                               *)
(***************************************************************************)
EXTENDS Naturals, Sequences, SequencesExt

CONSTANTS
  CHECKS,    \* the names of the checks, in the order they are made
  Fallible   \* those that take an unanswered question for a bad answer

ASSUME ChecksAssumption == CHECKS \in Seq(STRING) /\ Fallible \subseteq ToSet(CHECKS)

Names == ToSet(CHECKS)

Unknown == {}     \* as an answer: none yet; any other is {TRUE} or {FALSE}

VARIABLES
  truth,       \* whether each outcome is in order now
  pc,          \* "checking", "telling", "asleep"
  briefed,     \* FALSE during the first pass after a start
  answers,     \* the answers of this pass so far
  lastStatus,  \* the map of the same name
  told,        \* what the operator has last been told
  silent       \* history: news of a check that never reached the operator

vars == <<truth, pc, briefed, answers, lastStatus, told, silent>>

NoAnswers == [c \in Names |-> Unknown]

Init ==
  /\ truth = [c \in Names |-> TRUE]
  /\ pc = "checking"
  /\ briefed = FALSE
  /\ answers = <<>>
  /\ lastStatus = NoAnswers
  /\ told = NoAnswers
  /\ silent = {}

-----------------------------------------------------------------------------

Changes(c) ==
  /\ truth' = [truth EXCEPT ![c] = ~@]
  /\ UNCHANGED <<pc, briefed, answers, lastStatus, told, silent>>

(* A balance or a health page that cannot be read is not an error but a    *)
(* bad answer.                                                             *)
Answers_FailOpen(c) == {truth[c]} \cup (IF c \in Fallible THEN {TRUE} ELSE {})
Answers_FailClosed(c) == {truth[c], FALSE}
Answers(c) == {truth[c]} \cup (IF c \in Fallible THEN {FALSE} ELSE {})

(* The next question is asked and answered. *)
Asks(i) ==
  /\ pc = "checking"
  /\ i = Len(answers) + 1
  /\ \E answer \in Answers(CHECKS[i]) : answers' = Append(answers, answer)
  /\ pc' = IF i = Len(CHECKS) THEN "telling" ELSE "checking"
  /\ UNCHANGED <<truth, briefed, lastStatus, told, silent>>

(* A read throws.  In the first pass the operator is told so much, and the *)
(* map stays empty; later the pass counts for nothing.                     *)
PassFails ==
  /\ pc = "checking"
  /\ pc' = "asleep"
  /\ briefed' = TRUE
  /\ answers' = <<>>
  /\ UNCHANGED <<truth, lastStatus, told, silent>>

(* The summary of the first pass, with every answer. *)
Briefs(delivered) ==
  /\ pc = "telling" /\ ~briefed
  /\ lastStatus' = [c \in Names |-> {answers[CHOOSE i \in DOMAIN CHECKS : CHECKS[i] = c]}]
  /\ told' = IF delivered THEN lastStatus' ELSE told
  /\ silent' = IF delivered THEN {} ELSE Names
  /\ briefed' = TRUE
  /\ pc' = "asleep"
  /\ answers' = <<>>
  /\ UNCHANGED truth

(* The answers still to be dealt with are those at the end of the list. *)
Current == CHECKS[Len(CHECKS) - Len(answers) + 1]

WorthAMessage_FailureOnly(c, answer) == lastStatus[c] # Unknown /\ lastStatus[c] = {TRUE} /\ ~answer
WorthAMessage(c, answer) == lastStatus[c] # Unknown /\ lastStatus[c] # {answer}

(* One check after the other: a message if the answer is another than the  *)
(* last time; the map is updated whether or not the message arrived.       *)
Reports(delivered) ==
  LET c == Current
      answer == Head(answers)
      message == WorthAMessage(c, answer)
  IN  /\ pc = "telling" /\ briefed
      /\ message \/ delivered
      /\ told' = IF message /\ delivered THEN [told EXCEPT ![c] = {answer}] ELSE told
      /\ silent' = IF message /\ delivered THEN silent \ {c}
                   ELSE IF message \/ lastStatus[c] = Unknown THEN silent \cup {c} ELSE silent
      /\ lastStatus' = [lastStatus EXCEPT ![c] = {answer}]
      /\ answers' = Tail(answers)
      /\ pc' = IF Len(answers) = 1 THEN "asleep" ELSE "telling"
      /\ UNCHANGED <<truth, briefed>>

Wakes ==
  /\ pc = "asleep"
  /\ pc' = "checking"
  /\ UNCHANGED <<truth, briefed, answers, lastStatus, told, silent>>

Restarts ==
  /\ pc' = "checking"
  /\ briefed' = FALSE
  /\ answers' = <<>>
  /\ lastStatus' = NoAnswers
  /\ UNCHANGED <<truth, told, silent>>

-----------------------------------------------------------------------------

MonitorSteps ==
  \/ \E i \in DOMAIN CHECKS : Asks(i)
  \/ PassFails
  \/ \E delivered \in BOOLEAN : Briefs(delivered) \/ Reports(delivered)
  \/ Wakes

Next == MonitorSteps \/ Restarts \/ \E c \in Names : Changes(c)

(* The loop goes on, and not every pass is abandoned at the same read. *)
Fairness ==
  /\ WF_vars(MonitorSteps)
  /\ \A i \in DOMAIN CHECKS : SF_vars(Asks(i))

Spec == Init /\ [][Next]_vars /\ Fairness

-----------------------------------------------------------------------------
(* Properties.                                                             *)

(* The operator believes of every check what the monitor found last,       *)
(* through flapping checks, abandoned passes and restarts, except where a  *)
(* message was lost or the first answer came after a first pass that had   *)
(* failed: of those nobody was ever told.                                  *)
OperatorKnows ==
  \A c \in Names :
    c \in silent \/ lastStatus[c] = Unknown \/ told[c] = lastStatus[c]

(* Of what stays broken the operator knows in the end and from then on, or *)
(* the last news of it was lost: an earlier outage of which he was told    *)
(* does not stand for the one that lasts.                                  *)
ReportedInTheEnd ==
  \A c \in Names : <>[](~truth[c]) => <>[](told[c] = {FALSE} \/ c \in silent)

(* And a recovery, where no unanswered question counts as a bad answer. *)
RecoveryReported ==
  \A c \in Names \ Fallible : <>[](truth[c]) => <>[](told[c] = {TRUE} \/ c \in silent)

=============================================================================
