------------------------------- MODULE KVMap --------------------------------
(***************************************************************************)
(* What mukv.h promises: a map from keys to byte strings.  Mukv.tla        *)
(* implements it with an append-only file.                                 *)
(***************************************************************************)
CONSTANTS Key, Value, NoValue

VARIABLES
    map,       \* key |-> its value, NoValue if it has none
    fetched,   \* if the last call was a fetch: its key and what it returned
    failed     \* the file could not be read or written

kvvars == <<map, fetched, failed>>

KVInit ==
    /\ map = [k \in Key |-> NoValue]
    /\ fetched = NoValue
    /\ failed = FALSE

Assign(k, v) ==
    /\ map' = [map EXCEPT ![k] = v]
    /\ fetched' = NoValue
    /\ UNCHANGED failed

Fetch(k) ==
    /\ fetched' = <<k, map[k]>>
    /\ UNCHANGED <<map, failed>>

Break ==
    /\ failed' = TRUE
    /\ fetched' = NoValue
    /\ UNCHANGED map

KVNext ==
    /\ ~failed
    /\ \/ \E k \in Key :
             \/ \E v \in Value \cup {NoValue} : Assign(k, v)
             \/ Fetch(k)
       \/ Break

KVSpec == KVInit /\ [][KVNext]_kvvars
=============================================================================
