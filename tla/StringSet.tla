----------------------------- MODULE StringSet ------------------------------
(***************************************************************************)
(* What critbit.h promises: a set of strings that can be walked by prefix. *)
(* CritBit.tla implements it with a crit-bit tree.                         *)
(***************************************************************************)
EXTENDS Integers, Sequences, SequencesExt

CONSTANTS Str, Prefix, ENOMEM

VARIABLES
    elems,    \* the strings of the set
    result    \* the last call, what it returned and the strings it visited

ssvars == <<elems, result>>

Returned(call, value) ==
    result' = [call |-> call, ret |-> value, visited |-> <<>>]

\* strcmp(s, t) < 0: a prefix, or a smaller byte at the first difference.
StrLess(s, t) ==
    \/ IsStrictPrefix(s, t)
    \/ \E i \in 1 .. Len(s) : /\ i <= Len(t)
                              /\ s[i] < t[i]
                              /\ \A j \in 1 .. i - 1 : s[j] = t[j]

Matching(prefix) == {s \in elems : IsPrefix(prefix, s)}

SSInit ==
    /\ elems = {}
    /\ result = [call |-> <<"make">>, ret |-> 0, visited |-> <<>>]

Insert(s) ==
    /\ elems' = elems \cup {s}
    /\ Returned(<<"insert", s>>, IF s \in elems THEN 1 ELSE 0)

OutOfMemory(s) ==
    /\ Returned(<<"insert", s>>, ENOMEM)
    /\ UNCHANGED elems

Delete(s) ==
    /\ elems' = elems \ {s}
    /\ Returned(<<"delete", s>>, IF s \in elems THEN 0 ELSE 1)

Lookup(s) ==
    /\ Returned(<<"contains", s>>, IF s \in elems THEN 1 ELSE 0)
    /\ UNCHANGED elems

Clear == elems' = {} /\ Returned(<<"clear">>, 0)

\* "Calls callback for all strings in tree with the given prefix", in strcmp()
\* order.  If no string has the prefix the callback may see others instead:
\* callers must ask only for prefixes that occur.
Walk(prefix) ==
    LET visited == result'.visited
    IN  /\ result' = [call |-> <<"walk", prefix>>, ret |-> 0,
                      visited |-> visited]
        /\ visited \in Seq(elems)
        /\ Matching(prefix) # {} =>
              /\ ToSet(visited) = Matching(prefix)
              /\ \A i, j \in DOMAIN visited :
                    i < j => StrLess(visited[i], visited[j])
        /\ UNCHANGED elems

SSNext ==
    \/ \E s \in Str : Insert(s) \/ Delete(s) \/ Lookup(s) \/ OutOfMemory(s)
    \/ \E prefix \in Prefix : Walk(prefix)
    \/ Clear

SSSpec == SSInit /\ [][SSNext]_ssvars
=============================================================================
