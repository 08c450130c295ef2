----------------------------- MODULE IndexFeed ------------------------------
(***************************************************************************)
(* What a reader of the oracle's IndexState account may rely on, whatever  *)
(* publishers, challengers and callers of the oracle do: a value is        *)
(* replaced only by a new provisional one, and it is called final only     *)
(* after it has stood unreplaced for a whole challenge window.             *)
(***************************************************************************)
EXTENDS Integers

CONSTANT WINDOW   \* seconds of the challenge window

VARIABLES
  status,    \* "None" before the first aggregation, "Provisional", "Final"
  value,     \* what a reader sees
  written,   \* when the value was last written
  now

feedVars == <<status, value, written, now>>

FeedInit == status = "None" /\ now \in Nat /\ written \in Nat

(* A new value of any size; it need not be that of a later day. *)
Write ==
  /\ status' = "Provisional"
  /\ written' = now
  /\ now' = now

Finalize ==
  /\ status = "Provisional"
  /\ now - written >= WINDOW
  /\ status' = "Final"
  /\ UNCHANGED <<value, written, now>>

Tick ==
  /\ now' \in Nat /\ now' >= now
  /\ UNCHANGED <<status, value, written>>

FeedNext == Write \/ Finalize \/ Tick

FeedSpec == FeedInit /\ [][FeedNext]_feedVars

(* A value called final has stood for at least the challenge window, so    *)
(* that everybody had the time to challenge the value the engine uses.     *)
FinalHasStood == status = "Final" => now - written >= WINDOW
=============================================================================
