----------------------------- MODULE MCPathRepo -----------------------------
(***************************************************************************)
(* PathRepo on small instances: a directory with one entry; and the same   *)
(* with a place to copy both to.                                           *)
(***************************************************************************)
EXTENDS PathRepo

MCPath == {<<1>>, <<1, 1>>}
MCCopyPath == {<<1>>, <<1, 1>>, <<2>>, <<2, 1>>}
=============================================================================
