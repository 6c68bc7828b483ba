--------------------------- MODULE MCOutgoingSend ---------------------------
(***************************************************************************)
(* OutgoingSend on instances small enough for TLC.                         *)
(***************************************************************************)
EXTENDS OutgoingSend
=============================================================================
