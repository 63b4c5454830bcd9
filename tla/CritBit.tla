------------------------------ MODULE CritBit -------------------------------
(***************************************************************************)
(* lib/critbit89/critbit.c: the trees of strings that path_repo.c keeps    *)
(* the paths of a revision in.                                             *)
(*                                                                         *)
(* A string is the sequence of its bytes, without the terminating zero.  A *)
(* leaf holds a string; an inner node holds the place of the first bit in  *)
(* which the strings below it differ (otherbits has all bits set but this  *)
(* one), and has two children, for the strings with the bit clear and set. *)
(*                                                                         *)
(* A node is found at its address: the indices into child[] on the way     *)
(* from tree->root to it, so that a node is above another one if its       *)
(* address is a prefix of the other's.  Writing to a pointer in child[]    *)
(* gives everything below it other addresses.                              *)
(***************************************************************************)
EXTENDS Integers, Sequences, SequencesExt, FiniteSets, FiniteSetsExt

CONSTANTS
    Str,       \* the strings that are inserted, deleted and looked up
    Prefix,    \* the prefixes that are walked
    ENOMEM

ASSUME StrAssumption == Str \cup Prefix \subseteq Seq(1 .. 255)
ASSUME ENOMEMAssumption == ENOMEM \in Int \ {0, 1}

VARIABLES
    tree,      \* the node at every address; none if tree->root is NULL
    result     \* the last call, what it returned and the strings it visited

vars == <<tree, result>>

Nodes == DOMAIN tree
Below(at) == {x \in Nodes : IsPrefix(at, x)}

Returned(call, value) ==
    result' = [call |-> call, ret |-> value, visited |-> <<>>]

Leaf(s) == [leaf |-> TRUE, str |-> s]
Node(byte, bit) == [leaf |-> FALSE, byte |-> byte, bit |-> bit]

\* The byte at an offset; behind the string c stays 0.
ByteAt(s, byte) == IF byte < Len(s) THEN s[byte + 1] ELSE 0

\* (1 + (otherbits | c)) >> 8
Direction(s, byte, bit) == (ByteAt(s, byte) \div 2^bit) % 2

\* The walk from the root to a leaf that all operations begin with: the nodes
\* it comes by, and the leaf where it ends.
Way(s) ==
    {x \in Nodes : \A p \in Nodes :
        IsStrictPrefix(p, x) =>
            x[Len(p) + 1] = Direction(s, tree[p].byte, tree[p].bit)}
Descend(s) == CHOOSE x \in Way(s) : tree[x].leaf

Present(s) == Nodes # {} /\ tree[Descend(s)].str = s
-----------------------------------------------------------------------------
\* cb_tree_make()
Init ==
    /\ tree = <<>>
    /\ result = [call |-> <<"make">>, ret |-> 0, visited |-> <<>>]

\* A slip: if the bytes after the end of the string are not compared, a
\* string is taken for present if a longer one is.
ComparesPrefix(s) ==
    /\ Returned(<<"contains", s>>,
                IF Nodes # {} /\ IsPrefix(s, tree[Descend(s)].str)
                THEN 1 ELSE 0)
    /\ UNCHANGED tree

cb_tree_contains(s) ==
    /\ Returned(<<"contains", s>>, IF Present(s) THEN 1 ELSE 0)
    /\ UNCHANGED tree

\* newbyte and the bit left over in newotherbits: the first difference.
FirstByte(s, t) ==
    Min({i \in 0 .. Len(s) : ByteAt(s, i) # ByteAt(t, i)})
HighestBit(s, t, byte) ==
    Max({b \in 0 .. 7 : Direction(s, byte, b) # Direction(t, byte, b)})

\* A slip in the place of a new node: bits of the same byte are not compared.
StopsByByte(p, byte, bit) == p.leaf \/ p.byte > byte

\* Where the last loop of cb_tree_insert() breaks off: a leaf, or a node that
\* splits at a later place.
Stops(p, byte, bit) ==
    p.leaf \/ p.byte > byte \/ (p.byte = byte /\ p.bit < bit)

\* wherep after that loop: the first such node on the way down.
Place(s, byte, bit) ==
    CHOOSE x \in Way(s) :
        /\ Stops(tree[x], byte, bit)
        /\ \A p \in Way(s) : Stops(tree[p], byte, bit) => IsPrefix(x, p)

\* A new node with the leaf of s as one child takes the place of another
\* node, which becomes the child in the newdirection.
Link(at, s, byte, bit, newdirection) ==
    LET k == Len(at) + 1
        x1 == Append(at, 1 - newdirection)
        moved == {InsertAt(x, k, newdirection) : x \in Below(at)}
    IN  [x \in (Nodes \ Below(at)) \cup moved \cup {at, x1} |->
            IF x = at THEN Node(byte, bit)
            ELSE IF x = x1 THEN Leaf(s)
            ELSE IF x \in moved THEN tree[RemoveAt(x, k)]
            ELSE tree[x]]

cb_tree_insert(s) ==
    \/ /\ Nodes = {}
       /\ tree' = [x \in {<<>>} |-> Leaf(s)]
       /\ Returned(<<"insert", s>>, 0)
    \/ /\ Present(s)
       /\ Returned(<<"insert", s>>, 1)
       /\ UNCHANGED tree
    \/ /\ Nodes # {} /\ ~Present(s)
       /\ LET near == tree[Descend(s)].str
              byte == FirstByte(s, near)
              bit == HighestBit(s, near, byte)
          IN  tree' = Link(Place(s, byte, bit), s, byte, bit,
                           Direction(near, byte, bit))
       /\ Returned(<<"insert", s>>, 0)

\* Either allocation of cb_tree_insert() fails; nothing is linked yet.
insert_fault(s) ==
    /\ ~Present(s)
    /\ Returned(<<"insert", s>>, ENOMEM)
    /\ UNCHANGED tree

\* *whereq = q->child[1 - direction]: the sibling of a leaf takes the place of
\* their parent q.
Unlink(leaf) ==
    LET k == Len(leaf)
        direction == Last(leaf)
        q == Front(leaf)
        moved == {RemoveAt(x, k) : x \in Below(Append(q, 1 - direction))}
    IN  [x \in (Nodes \ Below(q)) \cup moved |->
            IF x \in moved THEN tree[InsertAt(x, k, 1 - direction)]
            ELSE tree[x]]

cb_tree_delete(s) ==
    \/ /\ ~Present(s)
       /\ Returned(<<"delete", s>>, 1)
       /\ UNCHANGED tree
    \/ /\ Present(s)
       /\ tree' = IF Descend(s) = <<>> THEN <<>> ELSE Unlink(Descend(s))
       /\ Returned(<<"delete", s>>, 0)

cb_tree_clear ==
    /\ tree' = <<>>
    /\ Returned(<<"clear">>, 0)

\* The lowest node on the way to the prefix that is reached by one of the
\* prefix's own bytes.
Top(prefix) ==
    LET reached == {x \in Way(prefix) :
                      x = <<>> \/ tree[Front(x)].byte < Len(prefix)}
    IN  CHOOSE x \in reached : \A y \in reached : IsPrefix(y, x)

\* cbt_traverse_prefixed() descends into child[0] first: a leaf's turn comes
\* after those to the left of it.
LeftOf(x, y) ==
    \E i \in 1 .. Len(x) : /\ i <= Len(y)
                           /\ x[i] < y[i]
                           /\ \A j \in 1 .. i - 1 : x[j] = y[j]
Traverse(top) ==
    LET leaves == {x \in Below(top) : tree[x].leaf}
        Turn(x) == Cardinality({y \in leaves : LeftOf(y, x)})
    IN  [i \in 1 .. Cardinality(leaves) |->
            tree[CHOOSE x \in leaves : Turn(x) = i - 1].str]

cb_tree_walk_prefixed(prefix) ==
    /\ result' = [call |-> <<"walk", prefix>>, ret |-> 0,
                  visited |-> IF Nodes = {} THEN <<>>
                              ELSE Traverse(Top(prefix))]
    /\ UNCHANGED tree

Next ==
    \/ \E s \in Str : \/ cb_tree_contains(s)
                      \/ cb_tree_insert(s)
                      \/ insert_fault(s)
                      \/ cb_tree_delete(s)
    \/ \E prefix \in Prefix : cb_tree_walk_prefixed(prefix)
    \/ cb_tree_clear

Spec == Init /\ [][Next]_vars
-----------------------------------------------------------------------------
(***************************************************************************)
(* Properties                                                              *)
(***************************************************************************)

\* Two strings agree up to a place.
AgreeUpTo(s, t, byte, bit) ==
    /\ \A i \in 0 .. byte - 1 : ByteAt(s, i) = ByteAt(t, i)
    /\ \A b \in bit + 1 .. 7 : Direction(s, byte, b) = Direction(t, byte, b)

\* What every operation relies on (critbit.c:158,209): the strings
\* below a node agree up to its place, and differ there as the children say;
\* so places come in order on every way down, and the tree is determined by
\* its set of strings, not by the order in which they came and went.
SplitsAtFirstDifference ==
    \A p \in Nodes : \A x, y \in Nodes :
        /\ IsStrictPrefix(p, x) /\ IsStrictPrefix(p, y)
        /\ tree[x].leaf /\ tree[y].leaf
        => /\ ~tree[p].leaf
           /\ Direction(tree[x].str, tree[p].byte, tree[p].bit) = x[Len(p) + 1]
           /\ AgreeUpTo(tree[x].str, tree[y].str, tree[p].byte, tree[p].bit)

\* The tree implements a set of strings: what was inserted is found until it
\* is deleted, nothing else is, and a walk visits exactly the strings with the
\* prefix, in order, if there are any (critbit.h).
SS == INSTANCE StringSet
        WITH elems <- {tree[x].str : x \in {y \in Nodes : tree[y].leaf}}
ImplementsStringSet == SS!SSSpec
=============================================================================
