---------------------------- MODULE MCOperations ----------------------------
(***************************************************************************)
(* TLC instance of Operations: two slots before the enlargement and four   *)
(* after it.  Scripts may fail and be run again any number of times.       *)
(***************************************************************************)
EXTENDS Operations

MCSpec == OpsSpec /\ OpsFairness
=============================================================================
