------------------------------- MODULE Layout -------------------------------
(***************************************************************************)
(* Where the fields of the oracle's IndexState account lie, which depends  *)
(* on the number of constituents it was compiled for, and what a reader    *)
(* compiled for another number makes of it: the programs read it with the  *)
(* layout they were built with, the services with that of the interface    *)
(* files they ship.                                                        *)
(***************************************************************************)
EXTENDS Naturals

(* Discriminator, day and status; the aggregated prices; their statuses.   *)
VALUE_AT(n) == (8 + 4 + 1) + 8 * n + n

(* The value, finalized_at and the bump end the account. *)
SIZE(n) == VALUE_AT(n) + 8 + 8 + 1

(* The bytes 0..SIZE(written) - 1 were written with one layout, and the    *)
(* account was then enlarged to SIZE(room) bytes with zeros.               *)
Reading(reader, written, room) ==
  IF SIZE(reader) > SIZE(room) THEN "fails"
  ELSE IF reader = written THEN "value"
  ELSE IF VALUE_AT(reader) >= SIZE(written) THEN "zero"
  ELSE "other"    \* bytes of prices, statuses or times
=============================================================================
