---------------------------- MODULE MCPropStore -----------------------------
(***************************************************************************)
(* PropStore with three records, two of which hold the same properties.    *)
(***************************************************************************)
EXTENDS PropStore

CONSTANTS i1, i2, i3, a, b

MCId == {i1, i2, i3}
MCProps == {a, b}
MCContent == [id \in MCId |-> IF id = i3 THEN b ELSE a]
=============================================================================
