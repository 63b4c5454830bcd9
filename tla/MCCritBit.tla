----------------------------- MODULE MCCritBit ------------------------------
(***************************************************************************)
(* CritBit with paths that share prefixes and differ in high, in low and   *)
(* in several bits of a byte: "a", "a/a", "a/b", "a-", "b", "c" and one    *)
(* with a byte above 127 ('/' is 47, '-' is 45, 'a' is 97).  Walks ask for *)
(* these, for everything, and for prefixes that are not strings.           *)
(***************************************************************************)
EXTENDS CritBit

MCStr == {<<97>>, <<97, 47, 97>>, <<97, 47, 98>>, <<97, 45>>, <<98>>, <<99>>,
          <<195, 97>>}
MCPrefix == MCStr \cup {<<>>, <<97, 47>>, <<195>>, <<100>>}
=============================================================================
