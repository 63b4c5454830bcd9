------------------------------- MODULE MCMukv -------------------------------
(***************************************************************************)
(* Mukv with records of up to two bytes, the empty one included.           *)
(***************************************************************************)
EXTENDS Mukv

MCByte == {7, 8}
MCValue == {<<>>, <<7>>, <<7, 8>>}
=============================================================================
