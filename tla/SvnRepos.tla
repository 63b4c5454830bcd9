------------------------------ MODULE SvnRepos ------------------------------
(***************************************************************************)
(* Subversion, as far as rsvndump can see it (external): a repository that *)
(* users commit to, its log, and "svnadmin load", which turns the records  *)
(* of a dump file into a repository again.                                 *)
(*                                                                         *)
(* A tree maps the paths that exist to nodes.  A path is the sequence of   *)
(* its names.  File contents, property names and values are abstract.      *)
(***************************************************************************)
EXTENDS Integers, Sequences, SequencesExt, PathTrees

CONSTANTS
    Path,        \* the paths that users may create
    Text,        \* contents of files
    NewText,     \* contents that users add files with
    Prop,        \* names of properties
    Imports,     \* trees that the first commit may consist of
    MaxRev,      \* bound: youngest revision
    MaxOps       \* bound: operations of users after the first commit

ASSUME BoundsAssumption ==
    NewText \subseteq Text /\ MaxRev \in Nat /\ MaxOps \in Nat

Root == <<>>

\* A set of paths with all the directories that they are in.
IsTree(paths) == \A p \in paths : \A n \in 0 .. Len(p) : SubSeq(p, 1, n) \in paths

VARIABLES
    repo,       \* the trees of the revisions, from revision 0 on
    txn,        \* tree of the commit that is being prepared
    changes,    \* its changed paths: action, and source if it is a copy
    ops         \* operations so far

svnvars == <<repo, txn, changes, ops>>

NoPath == <<-1>>
NoText == "none"        \* no file
Empty == "empty"        \* the content that a delta for a new file applies to
Garbage == "garbage"    \* a delta was applied to something else

\* The value 0 of a property stands for its absence.
PropValue == 0 .. 1
NoProps == [n \in Prop |-> 0]

Dir(props) == [kind |-> "dir", props |-> props, text |-> NoText]
File(props, text) == [kind |-> "file", props |-> props, text |-> text]
EmptyTree == [p \in {Root} |-> Dir(NoProps)]

Node == {n \in [kind : {"dir", "file"}, props : [Prop -> PropValue],
                 text : Text \cup {NoText}] : n.kind = "file" <=> n.text # NoText}

ASSUME TextAssumption == Text \cap {NoText, Empty, Garbage} = {}

ASSUME PathAssumption ==
    /\ Path \subseteq Seq(Nat) \ {Root}
    /\ \A tree \in Imports :
         /\ Root \in DOMAIN tree /\ DOMAIN tree \subseteq Path \cup {Root}
         /\ IsTree(DOMAIN tree)
         /\ \A p \in DOMAIN tree : tree[p] \in Node

Put(f, x, v) == [y \in DOMAIN f \cup {x} |-> IF y = x THEN v ELSE f[y]]
IsDir(t, p) == p \in DOMAIN t /\ t[p].kind = "dir"
Within(t, p) == pr_tree_to_array(DOMAIN t, p)
Cut(t, p) == [q \in DOMAIN t \ Within(t, p) |-> t[q]]

\* The tree with what is at src in another tree copied to dst.
Graft(t, s, src, dst) ==
    LET new == CopiedPaths(DOMAIN s, src, dst)
    IN  [q \in DOMAIN Cut(t, dst) \cup new |->
            IF q \in new THEN s[Renamed(q, dst, src)] ELSE t[q]]

Youngest == Len(repo) - 1
Tree(rev) == repo[rev + 1]
-----------------------------------------------------------------------------
(***************************************************************************)
(* Commits                                                                 *)
(***************************************************************************)

Change(action, src, rev) == [action |-> action, from |-> src, rev |-> rev]

\* What is added where something was deleted in the same commit replaces it.
LogAdd(p, src, rev) ==
    Put(changes, p, Change(IF p \in DOMAIN changes THEN "R" ELSE "A", src, rev))

LogModify(p) ==
    IF p \in DOMAIN changes THEN changes ELSE Put(changes, p, Change("M", NoPath, 0))

\* Nothing is left of what was added, or changed below, in the same commit.
LogDelete(p) ==
    LET rest == [q \in DOMAIN changes \ Within(changes, p) |-> changes[q]]
        added == p \in DOMAIN changes /\ changes[p].action = "A"
    IN  IF added THEN rest ELSE Put(rest, p, Change("D", NoPath, 0))

MayCreate(p) ==
    /\ p \in Path \ DOMAIN txn
    /\ IsDir(txn, Front(p))

UserAdd(p, node) ==
    /\ MayCreate(p)
    /\ txn' = Put(txn, p, node)
    /\ changes' = LogAdd(p, NoPath, 0)

UserCopy(src, rev, dst) ==
    /\ src \in DOMAIN Tree(rev) \ {Root}
    /\ MayCreate(dst)
    /\ CopiedPaths(DOMAIN Tree(rev), src, dst) \subseteq Path
    /\ txn' = Graft(txn, Tree(rev), src, dst)
    /\ changes' = LogAdd(dst, src, rev)

UserDelete(p) ==
    /\ p \in DOMAIN txn \ {Root}
    /\ txn' = Cut(txn, p)
    /\ changes' = LogDelete(p)

UserSetText(p, text) ==
    /\ p \in DOMAIN txn
    /\ txn[p].kind = "file" /\ txn[p].text # text
    /\ txn' = [txn EXCEPT ![p].text = text]
    /\ changes' = LogModify(p)

UserSetProp(p, name) ==
    /\ p \in DOMAIN txn
    /\ txn' = [txn EXCEPT ![p].props[name] = 1 - @]
    /\ changes' = LogModify(p)

UserOp ==
    \/ \E p \in Path :
         \/ UserAdd(p, Dir(NoProps))
         \/ \E t \in NewText : UserAdd(p, File(NoProps, t))
         \/ \E src \in Path, rev \in 1 .. Youngest : UserCopy(src, rev, p)
         \/ UserDelete(p)
         \/ \E t \in Text : UserSetText(p, t)
    \/ \E p \in Path \cup {Root}, name \in Prop : UserSetProp(p, name)

\* The first commit adds a whole tree.
Import(tree) ==
    /\ txn' = tree
    /\ changes' = [p \in DOMAIN tree \ {Root} |-> Change("A", NoPath, 0)]
-----------------------------------------------------------------------------
(***************************************************************************)
(* svnadmin load                                                           *)
(***************************************************************************)

\* A delta only makes sense for the content it was made from; one against the
\* empty content has no reference to its base.
ApplyDelta(delta, content) ==
    IF delta.base \in {Empty, content} THEN delta.target ELSE Garbage

\* "Prop-delta: true" changes the properties that are listed, otherwise the
\* listed ones are all there are.
LoadProps(block, props) ==
    [n \in Prop |->
        IF n \in block.del THEN 0
        ELSE IF block.set[n] # 0 THEN block.set[n]
        ELSE IF block.delta THEN props[n] ELSE 0]

NoBlock == [delta |-> TRUE, set |-> NoProps, del |-> {}]
NoDelta == [base |-> NoText, target |-> NoText]

\* The node that a record leaves, given the one it starts from.
LoadNode(r, node) ==
    [node EXCEPT !.props = LoadProps(r.props, @),
                 !.text = IF r.text = NoDelta THEN @ ELSE ApplyDelta(r.text, @)]

\* Whether a record can be applied to a tree, given the revisions before.
Loadable(r, tree, before) ==
    CASE r.action = "delete" -> r.path \in DOMAIN tree
      [] r.action = "change" -> r.path \in DOMAIN tree
      [] r.action = "add" ->
           /\ IsDir(tree, Front(r.path))
           /\ IF r.from = NoPath THEN r.path \notin DOMAIN tree
              ELSE /\ r.rev \in 0 .. Len(before) - 1
                   /\ r.from \in DOMAIN before[r.rev + 1]

New(kind) == IF kind = "dir" THEN Dir(NoProps) ELSE File(NoProps, Empty)

LoadRecord(r, tree, before) ==
    CASE r.action = "delete" -> Cut(tree, r.path)
      [] r.action = "change" -> [tree EXCEPT ![r.path] = LoadNode(r, @)]
      [] r.action = "add" ->
           LET t == IF r.from = NoPath THEN Put(tree, r.path, New(r.kind))
                    ELSE Graft(tree, before[r.rev + 1], r.from, r.path)
           IN  [t EXCEPT ![r.path] = LoadNode(r, @)]

\* The records of a revision, one after the other: the tree, if they all apply.
NotLoaded == <<>>
Load(records, before) ==
    LET load[i \in 0 .. Len(records)] ==
          IF i = 0 THEN Last(before)
          ELSE IF load[i - 1] # NotLoaded /\ Loadable(records[i], load[i - 1], before)
          THEN LoadRecord(records[i], load[i - 1], before)
          ELSE NotLoaded
    IN  load[Len(records)]
=============================================================================
