----------------------------- MODULE PathTrees ------------------------------
(***************************************************************************)
(* The trees that rsvndump's path repository stores: sets of paths.  A     *)
(* path is the sequence of its components, so that the test for a '/' (or  *)
(* the end of the string) behind a matching prefix, which path_repo.c and  *)
(* log.c make on strings, is the prefix relation on sequences.             *)
(***************************************************************************)
EXTENDS Integers, Sequences, SequencesExt

\* pr_tree_to_array(): every path of the tree that is `path' or lies below it.
pr_tree_to_array(tree, path) == {q \in tree : IsPrefix(path, q)}

\* The name that q, which lies at or below src, gets when src is copied to dst.
Renamed(q, src, dst) == dst \o SubSeq(q, Len(src) + 1, Len(q))

\* The paths that a copy of src, taken from the given tree, creates at dst.
CopiedPaths(tree, src, dst) ==
    {Renamed(q, src, dst) : q \in pr_tree_to_array(tree, src)}

\* strcmp() order of paths, as far as it can matter: a parent sorts before
\* its children, siblings by their names (names are numbers in the models).
Before(p, q) ==
    \/ IsStrictPrefix(p, q)
    \/ \E i \in 1 .. Len(p) :
          /\ i <= Len(q)
          /\ p[i] < q[i]
          /\ \A j \in 1 .. (i - 1) : p[j] = q[j]
=============================================================================
