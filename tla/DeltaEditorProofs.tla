------------------------- MODULE DeltaEditorProofs --------------------------
(***************************************************************************)
(* Proofs about DeltaEditor.tla: whatever users commit and in whatever     *)
(* order the server describes it, the node batons of an edit form a tree.  *)
(*                                                                         *)
(* TypeOK is not inductive: that a new node lies below the current one     *)
(* needs that the paths of all trees are sequences (Committed, Placed),    *)
(* and that the action of a node that is in the log is one of the four     *)
(* needs that the log's are (ActionsKnown).                                *)
(*                                                                         *)
(* The other parts are about what is kept from revision to revision.       *)
(* FollowInv says how the commit in preparation relates to the log and how *)
(* the server's walk relates to the trees; Tracked, that the path          *)
(* repository follows the walk; KeepInv, that the local copies and the     *)
(* stored properties do; RemoveInv, that nothing else is kept.             *)
(***************************************************************************)
EXTENDS DeltaEditor, Lemmas

Known == Path \cup {Root}
Actions == {"A", "M", "R", "D"}

CopyInfo == {"NONE", "COPY", "FAILED", "FAILED_OUTSIDE"}
Fields == {"path", "parent", "cp_info", "action", "kind", "props"}

IsList(s) == \E S : s \in Seq(S)

ActionsKnown ==
    /\ DOMAIN changes \subseteq Known
    /\ \A p \in DOMAIN changes : changes[p].action \in Actions

Committed ==
    /\ req \in Requests
    /\ IsList(repo) /\ repo # <<>>
    /\ DOMAIN txn \subseteq Known
    /\ \A i \in DOMAIN repo : DOMAIN repo[i] \subseteq Known
    /\ ActionsKnown

NodesOK ==
    /\ IsList(nodes)
    /\ \A i \in DOMAIN nodes :
         /\ nodes[i].path \in Seq(Nat) /\ Fields \subseteq DOMAIN nodes[i]
         /\ nodes[i].cp_info \in CopyInfo /\ nodes[i].action \in Actions
         /\ i = 1 => nodes[i].path = Root
         /\ i # 1 => /\ nodes[i].parent \in 1 .. i - 1
                     /\ nodes[nodes[i].parent].path = Front(nodes[i].path)

OpenOK ==
    /\ open \in Seq(Nat)
    /\ \A i \in DOMAIN open :
         /\ open[i] \in DOMAIN nodes
         /\ Len(nodes[open[i]].path) = i - 1
         /\ i > 1 => nodes[open[i]].parent = open[i - 1]

Placed ==
    /\ phase \in {"commit", "drive", "load", "failed"} /\ status \in {"ok", "failed"}
    /\ DOMAIN srv \subseteq Seq(Nat)

Inv == Committed /\ NodesOK /\ OpenOK /\ Placed

LEMMA KnownPaths == Known \subseteq Seq(Nat)
<1>1. <<>> \in Seq(Nat)
  OBVIOUS
<1> QED BY <1>1, PathAssumption DEF Known, Root

\* The names that are left when the session's prefix is stripped.
LEMMA StrippedType ==
    ASSUME req \in Requests, NEW p \in Seq(Nat), IsPrefix(req.prefix, p)
    PROVE  Stripped(p) \in Seq(Nat) /\ req.prefix \o Stripped(p) = p
<1> DEFINE x == req.prefix
           s == SubSeq(p, Len(x) + 1, Len(p))
<1>1. x \in Seq(Nat)
  BY RequestsAssumption
<1>2. Len(x) <= Len(p) /\ SubSeq(x, 1, Len(x)) = SubSeq(p, 1, Len(x))
  BY DEF IsPrefix
<1> HIDE DEF x
<1>3. s \in Seq(Nat) /\ Len(s) = Len(p) - Len(x)
      /\ \A i \in 1 .. Len(s) : s[i] = p[Len(x) + i]
  BY <1>1, <1>2
<1>4. \A i \in 1 .. Len(x) : x[i] = p[i]
  <2> TAKE i \in 1 .. Len(x)
  <2>1. SubSeq(x, 1, Len(x))[i] = x[i] /\ SubSeq(p, 1, Len(x))[i] = p[i]
    BY <1>1, <1>2
  <2> QED BY <1>2, <2>1
<1> HIDE DEF s
<1>5. x \o s \in Seq(Nat) /\ Len(x \o s) = Len(p)
  BY <1>1, <1>2, <1>3
<1>6. ASSUME NEW i \in 1 .. Len(p) PROVE (x \o s)[i] = p[i]
  <2>1. (x \o s)[i] = IF i <= Len(x) THEN x[i] ELSE s[i - Len(x)]
    BY <1>1, <1>2, <1>3, ConcatProperties
  <2>2. CASE i <= Len(x)
    BY <1>1, <1>4, <2>1, <2>2
  <2>3. CASE ~(i <= Len(x))
    <3>1. i - Len(x) \in 1 .. Len(s)
      BY <1>1, <1>3, <2>3
    <3>2. s[i - Len(x)] = p[Len(x) + (i - Len(x))]
      BY <1>3, <3>1
    <3>3. Len(x) + (i - Len(x)) = i
      BY <1>1
    <3> QED BY <2>1, <2>3, <3>2, <3>3
  <2> QED BY <2>2, <2>3
<1>7. x \o s = p
  BY <1>5, <1>6, SeqEqual
<1> QED BY <1>3, <1>7 DEF x, s, Stripped

LEMMA SessionPaths ==
    ASSUME req \in Requests, NEW t, DOMAIN t \subseteq Seq(Nat)
    PROVE  /\ DOMAIN InSession(t) \subseteq Seq(Nat)
           /\ \A q \in DOMAIN InSession(t) :
                \E p \in DOMAIN t : InSession(t)[q] = t[p]
<1> SUFFICES ASSUME NEW q \in DOMAIN InSession(t)
             PROVE  /\ q \in Seq(Nat)
                    /\ \E p \in DOMAIN t : InSession(t)[q] = t[p]
  OBVIOUS
<1>1. PICK p \in Within(t, req.prefix) : q = Stripped(p)
  BY DEF InSession
<1>2. p \in DOMAIN t /\ p \in Seq(Nat) /\ IsPrefix(req.prefix, p)
  BY <1>1 DEF Within, pr_tree_to_array
<1>3. q \in Seq(Nat) /\ req.prefix \o q = p
  BY <1>1, <1>2, StrippedType
<1>4. InSession(t)[q] = t[req.prefix \o q]
  BY DEF InSession
<1> QED BY <1>2, <1>3, <1>4

LEMMA ListFacts ==
    ASSUME NEW s, IsList(s), NEW x
    PROVE  /\ Len(s) \in Nat /\ DOMAIN s = 1 .. Len(s)
           /\ s # <<>> => Len(s) \in DOMAIN s
           /\ IsList(Append(s, x)) /\ Append(s, x) # <<>>
           /\ DOMAIN Append(s, x) = 1 .. Len(s) + 1
           /\ Len(Append(s, x)) = Len(s) + 1
           /\ Append(s, x)[Len(s) + 1] = x
           /\ \A i \in 1 .. Len(s) : Append(s, x)[i] = s[i]
<1>1. PICK S : s \in Seq(S)
  BY DEF IsList
<1>2. s \in Seq(S \cup {x})
  BY <1>1
<1>3. Append(s, x) \in Seq(S \cup {x})
  BY <1>2
<1> QED BY <1>1, <1>2, <1>3 DEF IsList

LEMMA TargetPaths ==
    ASSUME Committed
    PROVE  DOMAIN Target \subseteq Seq(Nat)
<1>1. Len(repo) \in DOMAIN repo /\ Len(repo) \in Nat
  BY ListFacts DEF Committed
<1>2. Tree(Youngest) = repo[Len(repo)]
  BY <1>1 DEF Tree, Youngest
<1>3. DOMAIN Tree(Youngest) \subseteq Seq(Nat)
  BY <1>1, <1>2, KnownPaths DEF Committed
<1> QED BY <1>3, SessionPaths DEF Target, SessionTree, Committed

LEMMA LogActions ==
    ASSUME Committed, NEW q \in DOMAIN log_receiver
    PROVE  log_receiver[q].action \in Actions
<1>1. CASE req.encoded
  <2>1. log_receiver = <<>>
    BY <1>1 DEF log_receiver
  <2> QED BY <2>1
<1>2. CASE ~req.encoded
  <2>1. log_receiver = InSession(changes)
    BY <1>2 DEF log_receiver
  <2>2. \E p \in DOMAIN changes : InSession(changes)[q] = changes[p]
    BY <2>1, SessionPaths, KnownPaths DEF Committed, ActionsKnown
  <2> QED BY <2>1, <2>2 DEF Committed, ActionsKnown
<1> QED BY <1>1, <1>2
-----------------------------------------------------------------------------
(***************************************************************************)
(* Commits                                                                 *)
(***************************************************************************)

\* Whether a table of changed paths is as ActionsKnown says.
IsLog(f) == DOMAIN f \subseteq Known /\ \A q \in DOMAIN f : f[q].action \in Actions

LEMMA PutLog ==
    ASSUME NEW f, IsLog(f), NEW p \in Known, NEW a \in Actions, NEW src, NEW rev
    PROVE  IsLog(Put(f, p, Change(a, src, rev)))
BY DEF IsLog, Put, Change

\* What users do keeps to the known paths, and the log to the four actions.
LEMMA UserSteps ==
    ASSUME DOMAIN txn \subseteq Known, ActionsKnown, UserOp
    PROVE  DOMAIN txn' \subseteq Known /\ ActionsKnown'
<1>0. IsLog(changes) /\ (IsLog(changes') => ActionsKnown')
  BY DEF ActionsKnown, IsLog
<1>1. ASSUME NEW p \in Known, NEW src, NEW rev
      PROVE  IsLog(LogAdd(p, src, rev)) /\ IsLog(LogModify(p))
  <2>1. "A" \in Actions /\ "R" \in Actions /\ "M" \in Actions
    BY DEF Actions
  <2> QED BY <1>0, <2>1, PutLog DEF LogAdd, LogModify
<1>2. ASSUME NEW p \in Path, NEW node, UserAdd(p, node)
      PROVE  DOMAIN txn' \subseteq Known /\ ActionsKnown'
  <2>1. p \in Known /\ DOMAIN txn' = DOMAIN txn \cup {p}
    BY <1>2 DEF UserAdd, Put, Known
  <2>2. changes' = LogAdd(p, NoPath, 0)
    BY <1>2 DEF UserAdd
  <2> QED BY <1>0, <1>1, <2>1, <2>2
<1>3. ASSUME NEW p \in Path, NEW src, NEW rev, UserCopy(src, rev, p)
      PROVE  DOMAIN txn' \subseteq Known /\ ActionsKnown'
  <2>1. DOMAIN txn' \subseteq Known
    BY <1>3 DEF UserCopy, Graft, Cut, Known
  <2>2. p \in Known /\ changes' = LogAdd(p, src, rev)
    BY <1>3 DEF UserCopy, Known
  <2> QED BY <1>0, <1>1, <2>1, <2>2
<1>4. ASSUME NEW p \in Path, UserDelete(p)
      PROVE  DOMAIN txn' \subseteq Known /\ ActionsKnown'
  <2>1. DOMAIN txn' \subseteq Known
    BY <1>4 DEF UserDelete, Cut
  <2> DEFINE rest == [q \in DOMAIN changes \ Within(changes, p) |-> changes[q]]
  <2>2. IsLog(rest)
    BY <1>0 DEF IsLog
  <2>3. changes' = rest \/ changes' = Put(rest, p, Change("D", NoPath, 0))
    BY <1>4 DEF UserDelete, LogDelete
  <2>4. p \in Known /\ "D" \in Actions
    BY DEF Known, Actions
  <2> HIDE DEF rest
  <2> QED BY <1>0, <2>1, <2>2, <2>3, <2>4, PutLog
<1>5. ASSUME NEW p \in Path, NEW t, UserSetText(p, t)
      PROVE  DOMAIN txn' \subseteq Known /\ ActionsKnown'
  <2>1. p \in Known /\ DOMAIN txn' = DOMAIN txn /\ changes' = LogModify(p)
    BY <1>5 DEF UserSetText, Known
  <2> QED BY <1>0, <1>1, <2>1
<1>6. ASSUME NEW p \in Known, NEW name, UserSetProp(p, name)
      PROVE  DOMAIN txn' \subseteq Known /\ ActionsKnown'
  <2>1. DOMAIN txn' = DOMAIN txn /\ changes' = LogModify(p)
    BY <1>6 DEF UserSetProp
  <2> QED BY <1>0, <1>1, <2>1
<1> QED BY <1>2, <1>3, <1>4, <1>5, <1>6 DEF UserOp, Known

LEMMA CommitStep == Inv /\ Commit => Inv'
<1> SUFFICES ASSUME Committed, NodesOK, OpenOK, Placed, Commit PROVE Inv'
  BY DEF Inv
<1>1. UNCHANGED <<txn, req, nodes, open, status>> /\ repo' = Append(repo, txn)
  BY DEF Commit
<1>2. (phase' = "drive" \/ phase' = "commit") /\ (srv' = srv \/ srv' = EmptyTree)
  BY DEF Commit
<1>3. DOMAIN EmptyTree \subseteq Seq(Nat)
  <2>1. Root \in Seq(Nat)
    BY KnownPaths DEF Known
  <2> QED BY <2>1 DEF EmptyTree
<1>4. ActionsKnown'
  <2>1. IsLog(changes)
    BY DEF Committed, ActionsKnown, IsLog
  <2>2. IsLog(<<>>)
    BY DEF IsLog
  <2>3. IsLog(Reported)
    <3>1. "D" \in Actions
      BY DEF Actions
    <3> QED BY <2>1, <3>1 DEF Reported, IsLog, Known, Change
  <2>4. changes' = Reported \/ changes' = <<>>
    BY DEF Commit
  <2> QED BY <2>2, <2>3, <2>4 DEF IsLog, ActionsKnown
<1>5. Committed'
  <2>1. /\ IsList(repo') /\ repo' # <<>>
        /\ \A i \in DOMAIN repo' : DOMAIN repo'[i] \subseteq Known
    BY <1>1, ListFacts DEF Committed
  <2> QED BY <1>1, <1>4, <2>1 DEF Committed
<1>6. NodesOK' /\ OpenOK'
  BY <1>1 DEF NodesOK, OpenOK
<1>7. Placed'
  BY <1>1, <1>2, <1>3 DEF Placed
<1> QED BY <1>5, <1>6, <1>7 DEF Inv

LEMMA EditStep == Inv /\ Edit => Inv'
<1> SUFFICES ASSUME Committed, NodesOK, OpenOK, Placed, Edit PROVE Inv'
  BY DEF Inv
<1>1. UNCHANGED <<repo, req, phase, nodes, open, srv, status>>
  BY DEF Edit, editor, result
<1>2. CASE Youngest = 0
  <2>1. PICK tree \in Imports : Import(tree)
    BY <1>2 DEF Edit
  <2>2. DOMAIN txn' \subseteq Known
    BY <2>1, PathAssumption DEF Import, Known
  <2>3. IsLog(changes')
    <3>1. "A" \in Actions
      BY DEF Actions
    <3> QED BY <2>1, <3>1, PathAssumption DEF Import, IsLog, Known, Change
  <2>4. Committed' /\ NodesOK' /\ OpenOK' /\ Placed'
    BY <1>1, <2>2, <2>3 DEF Committed, NodesOK, OpenOK, Placed, ActionsKnown, IsLog
  <2> QED BY <2>4 DEF Inv
<1>3. CASE Youngest # 0
  <2>1. UserOp
    BY <1>3 DEF Edit
  <2>2. DOMAIN txn' \subseteq Known /\ ActionsKnown'
    BY <2>1, UserSteps DEF Committed
  <2>3. Committed' /\ NodesOK' /\ OpenOK' /\ Placed'
    BY <1>1, <2>2 DEF Committed, NodesOK, OpenOK, Placed
  <2> QED BY <2>3 DEF Inv
<1> QED BY <1>2, <1>3

LEMMA EndStep == Inv /\ EndRevision => Inv'
<1> SUFFICES ASSUME Committed, NodesOK, OpenOK, Placed, EndRevision PROVE Inv'
  BY DEF Inv
<1>1. /\ UNCHANGED <<repo, txn, req, nodes, open, srv>>
      /\ changes' = <<>> /\ phase' = "commit"
      /\ status' \in {"ok", "failed"}
  BY DEF EndRevision, Placed
<1>2. ActionsKnown'
  BY <1>1 DEF ActionsKnown
<1>3. Committed' /\ NodesOK' /\ OpenOK' /\ Placed'
  BY <1>1, <1>2 DEF Committed, NodesOK, OpenOK, Placed
<1> QED BY <1>3 DEF Inv
-----------------------------------------------------------------------------
(***************************************************************************)
(* The editor's functions                                                  *)
(***************************************************************************)

\* The current node, and where a child of it is.
LEMMA CurFacts ==
    ASSUME NodesOK, OpenOK, open # <<>>
    PROVE  /\ Len(open) \in DOMAIN open /\ Len(open) \in Nat
           /\ Last(open) \in DOMAIN nodes /\ Last(open) \in Nat
           /\ Cur.path \in Seq(Nat) /\ Len(Cur.path) = Len(open) - 1
           /\ Cur.cp_info \in CopyInfo
<1>1. Len(open) \in DOMAIN open /\ Len(open) \in Nat
  BY DEF OpenOK
<1> QED BY <1>1 DEF NodesOK, OpenOK, Last, Cur

\* A new node below the current one, which is opened or not.
LEMMA NewNode ==
    ASSUME NodesOK, OpenOK, open # <<>>,
           NEW n, nodes' = Append(nodes, n), Fields \subseteq DOMAIN n,
           n.path \in Seq(Nat), n.path # <<>>, Front(n.path) = Cur.path,
           n.parent = Last(open),
           n.cp_info \in CopyInfo, n.action \in Actions,
           open' = open \/ open' = Append(open, Len(nodes) + 1)
    PROVE  NodesOK' /\ OpenOK'
<1> DEFINE k == Len(nodes) + 1
<1>1. /\ Len(nodes) \in Nat /\ DOMAIN nodes = 1 .. Len(nodes)
      /\ IsList(nodes') /\ DOMAIN nodes' = 1 .. k
      /\ nodes'[k] = n
      /\ \A i \in 1 .. Len(nodes) : nodes'[i] = nodes[i]
  BY ListFacts DEF NodesOK
<1>2. /\ Last(open) \in 1 .. Len(nodes) /\ Cur = nodes[Last(open)]
      /\ Len(Cur.path) = Len(open) - 1 /\ Len(open) \in Nat
  BY <1>1, CurFacts DEF Cur
<1>3. Len(n.path) = Len(open)
  <2>1. Len(Front(n.path)) = Len(n.path) - 1
    BY DEF Front
  <2> QED BY <1>2, <2>1
<1>4. NodesOK'
  <2> SUFFICES ASSUME NEW i \in 1 .. k
               PROVE  /\ nodes'[i].path \in Seq(Nat) /\ Fields \subseteq DOMAIN nodes'[i]
                      /\ nodes'[i].cp_info \in CopyInfo /\ nodes'[i].action \in Actions
                      /\ i = 1 => nodes'[i].path = Root
                      /\ i # 1 => /\ nodes'[i].parent \in 1 .. i - 1
                                  /\ nodes'[nodes'[i].parent].path = Front(nodes'[i].path)
    BY <1>1 DEF NodesOK
  <2>1. CASE i \in 1 .. Len(nodes)
    <3>1. nodes'[i] = nodes[i] /\ i \in DOMAIN nodes
      BY <1>1, <2>1
    <3>2. i # 1 => /\ nodes[i].parent \in 1 .. i - 1
                   /\ nodes'[nodes[i].parent] = nodes[nodes[i].parent]
      BY <1>1, <2>1, <3>1 DEF NodesOK
    <3> QED BY <3>1, <3>2 DEF NodesOK
  <2>2. CASE i = k
    <3>1. nodes'[i] = n /\ nodes'[Last(open)] = nodes[Last(open)] /\ i # 1
          /\ Last(open) \in 1 .. i - 1
      BY <1>1, <1>2, <2>2
    <3> QED BY <1>2, <3>1
  <2> QED BY <1>1, <2>1, <2>2
<1>5. \A i \in DOMAIN open : /\ open[i] \in DOMAIN nodes'
                             /\ Len(nodes'[open[i]].path) = i - 1
                             /\ i > 1 => nodes'[open[i]].parent = open[i - 1]
  BY <1>1 DEF OpenOK
<1>6. CASE open' = open
  BY <1>4, <1>5, <1>6 DEF OpenOK
<1>7. CASE open' = Append(open, k)
  <2>1. /\ open' \in Seq(Nat) /\ DOMAIN open' = 1 .. Len(open) + 1
        /\ DOMAIN open = 1 .. Len(open)
        /\ open'[Len(open) + 1] = k
        /\ \A i \in 1 .. Len(open) : open'[i] = open[i]
    BY <1>1, <1>7 DEF OpenOK
  <2>2. ASSUME NEW i \in 1 .. Len(open) + 1
        PROVE  /\ open'[i] \in DOMAIN nodes'
               /\ Len(nodes'[open'[i]].path) = i - 1
               /\ i > 1 => nodes'[open'[i]].parent = open'[i - 1]
    <3>1. CASE i \in 1 .. Len(open)
      <4>1. open'[i] = open[i] /\ i \in DOMAIN open
        BY <2>1, <3>1
      <4>2. i > 1 => open'[i - 1] = open[i - 1]
        <5>1. i > 1 => i - 1 \in 1 .. Len(open)
          BY <1>2, <3>1
        <5> QED BY <2>1, <5>1
      <4> QED BY <1>5, <4>1, <4>2
    <3>2. CASE i = Len(open) + 1
      <4>1. open'[i] = k /\ nodes'[k] = n /\ k \in DOMAIN nodes'
        BY <1>1, <2>1, <3>2
      <4>2. open'[i - 1] = Last(open)
        <5>1. i - 1 = Len(open) /\ Len(open) \in 1 .. Len(open)
          BY <1>2, <3>2, CurFacts
        <5> QED BY <2>1, <5>1 DEF Last
      <4> QED BY <1>2, <1>3, <3>2, <4>1, <4>2
    <3>3. i \in 1 .. Len(open) \/ i = Len(open) + 1
      <4>1. Len(open) \in Nat
        BY <1>2
      <4> QED BY <4>1
    <3> QED BY <3>1, <3>2, <3>3
  <2> QED BY <1>4, <2>1, <2>2 DEF OpenOK
<1> QED BY <1>6, <1>7

\* A change of the current node that leaves its place in the tree.
LEMMA ChangedNode ==
    ASSUME NodesOK, OpenOK, open # <<>>, NEW n, Fields \subseteq DOMAIN n,
           nodes' = [nodes EXCEPT ![Last(open)] = n], open' = open,
           n.path = Cur.path, n.parent = Cur.parent,
           n.cp_info = Cur.cp_info, n.action = Cur.action
    PROVE  NodesOK' /\ OpenOK'
<1>1. Last(open) \in DOMAIN nodes
  BY CurFacts
<1>2. DOMAIN nodes' = DOMAIN nodes /\ IsList(nodes')
  <2>1. PICK S : nodes \in Seq(S)
    BY DEF NodesOK, IsList
  <2>2. nodes' \in Seq(S \cup {n})
    BY <1>1, <2>1
  <2> QED BY <2>2 DEF IsList
<1>3. \A i \in DOMAIN nodes :
        /\ nodes'[i].path = nodes[i].path /\ nodes'[i].parent = nodes[i].parent
        /\ nodes'[i].cp_info = nodes[i].cp_info
        /\ nodes'[i].action = nodes[i].action
        /\ Fields \subseteq DOMAIN nodes'[i]
  BY <1>1 DEF Cur, NodesOK
<1>4. DOMAIN nodes = 1 .. Len(nodes) /\ Len(nodes) \in Nat
  BY ListFacts DEF NodesOK
<1>5. \A i \in DOMAIN nodes :
        i # 1 => nodes'[nodes[i].parent].path = nodes[nodes[i].parent].path
  BY <1>3, <1>4 DEF NodesOK
<1> QED BY <1>2, <1>3, <1>5 DEF NodesOK, OpenOK

LEMMA EntriesPaths ==
    ASSUME Inv, open # <<>>, NEW q \in Entries
    PROVE  q \in Seq(Nat) /\ q # <<>> /\ Front(q) = Cur.path
BY TargetPaths DEF Entries, Inv, Placed, Root

\* A step that only concerns the editor's data.
LEMMA CalledStep ==
    ASSUME Inv, Called, NodesOK', OpenOK', DOMAIN srv' \subseteq Seq(Nat)
    PROVE  Inv'
BY DEF Inv, Called, svnvars, result, Committed, ActionsKnown, Placed

LEMMA OpenRootStep == Inv /\ de_open_root => Inv'
<1> SUFFICES ASSUME Inv, de_open_root PROVE Inv'
  OBVIOUS
<1> DEFINE n == delta_create_node_no_parent(Root, "unset", "M")
<1>1. nodes' = <<n>> /\ open' = <<1>> /\ srv' = srv /\ Called
  BY DEF de_open_root
<1>2. /\ n.path = <<>> /\ n.cp_info = "NONE" /\ n.action = "M"
      /\ Fields \subseteq DOMAIN n
  BY DEF delta_create_node_no_parent, Fields, Root
<1> HIDE DEF n
<1>3. <<>> \in Seq(Nat) /\ Len(<<>>) = 0 /\ nodes' \in Seq({n}) /\ open' \in Seq(Nat)
  BY <1>1
<1>4. DOMAIN nodes' = {1} /\ nodes'[1] = n /\ DOMAIN open' = {1} /\ open'[1] = 1
  BY <1>1
<1>5. NodesOK'
  <2>1. IsList(nodes')
    BY <1>3 DEF IsList
  <2>2. nodes'[1].cp_info \in CopyInfo /\ nodes'[1].action \in Actions
    BY <1>2, <1>4 DEF CopyInfo, Actions
  <2> QED BY <1>2, <1>3, <1>4, <2>1, <2>2 DEF NodesOK, Root
<1>6. OpenOK'
  BY <1>2, <1>3, <1>4 DEF OpenOK
<1> QED BY <1>1, <1>5, <1>6, CalledStep DEF Inv, Placed

LEMMA DeleteStep == ASSUME Inv, NEW q, de_delete_entry(q) PROVE Inv'
<1> DEFINE n == [delta_create_node(q, "none", "D") EXCEPT !.needed = TRUE]
<1>1. /\ open # <<>> /\ q \in Entries /\ Called
      /\ nodes' = Append(nodes, n) /\ open' = open /\ srv' = Cut(srv, q)
  BY DEF de_delete_entry, Ready
<1>2. /\ n.path = q /\ n.parent = Last(open) /\ n.cp_info = Cur.cp_info
      /\ n.action = "D" /\ Fields \subseteq DOMAIN n
  BY DEF delta_create_node, delta_create_node_no_parent, Fields, Cur
<1> HIDE DEF n
<1>3. q \in Seq(Nat) /\ q # <<>> /\ Front(q) = Cur.path
  BY <1>1, EntriesPaths
<1>4. Cur.cp_info \in CopyInfo /\ "D" \in Actions
  BY <1>1, CurFacts DEF Inv, Actions
<1>5. NodesOK' /\ OpenOK'
  BY <1>1, <1>2, <1>3, <1>4, NewNode DEF Inv
<1>6. DOMAIN srv' \subseteq Seq(Nat)
  BY <1>1 DEF Cut, Inv, Placed
<1> QED BY <1>1, <1>5, <1>6, CalledStep

LEMMA AddStep == ASSUME Inv, NEW q, NEW kind, AddNode(q, kind) PROVE Inv'
<1> DEFINE c == [delta_create_node(q, kind, "A") EXCEPT !.needed = TRUE]
           f == FromLog(c)
           n == IF kind = "file" /\ Failed(f) THEN [f EXCEPT !.action = "A"] ELSE f
<1>1. /\ phase = "drive" /\ open # <<>> /\ q \in Entries
      /\ phase' \in {phase, "failed"} /\ UNCHANGED <<svnvars, req, result>>
      /\ nodes' = Append(nodes, n) /\ open' = Append(open, Len(nodes) + 1)
      /\ srv' = Put(srv, q, New(kind))
  BY DEF AddNode, Ready, Opened
<1>2. q \in Seq(Nat) /\ q # <<>> /\ Front(q) = Cur.path
  BY <1>1, EntriesPaths
<1>3. Cur.cp_info \in CopyInfo
  BY <1>1, CurFacts DEF Inv
<1>4. /\ c.path = q /\ c.parent = Last(open) /\ c.cp_info = Cur.cp_info
      /\ c.action = "A" /\ Fields \subseteq DOMAIN c
  BY DEF delta_create_node, delta_create_node_no_parent, Fields, Cur
<1> HIDE DEF c
<1>5. /\ f.path = q /\ f.parent = Last(open) /\ f.cp_info \in CopyInfo
      /\ f.action \in Actions /\ Fields \subseteq DOMAIN f
  <2>1. CASE q \notin DOMAIN log_receiver
    BY <1>3, <1>4, <2>1 DEF FromLog, Actions
  <2>2. CASE q \in DOMAIN log_receiver
    <3>1. log_receiver[q].action \in Actions
      BY <2>2, LogActions DEF Inv
    <3>2. f = [c EXCEPT !.action = log_receiver[q].action,
                        !.from = log_receiver[q].from,
                        !.rev = log_receiver[q].rev,
                        !.cp_info = IF Failed(c) THEN @ ELSE "NONE"]
      BY <1>4, <2>2 DEF FromLog
    <3> HIDE DEF f
    <3> QED BY <1>3, <1>4, <3>1, <3>2 DEF Fields, CopyInfo
  <2> QED BY <2>1, <2>2
<1> HIDE DEF f
<1>6. /\ n.path = q /\ n.parent = Last(open) /\ n.cp_info \in CopyInfo
      /\ n.action \in Actions /\ Fields \subseteq DOMAIN n
  BY <1>5 DEF Fields, Actions
<1> HIDE DEF n
<1>7. NodesOK' /\ OpenOK'
  BY <1>1, <1>2, <1>6, NewNode DEF Inv
<1>8. DOMAIN srv' \subseteq Seq(Nat)
  BY <1>1, <1>2 DEF Put, Inv, Placed
<1> QED BY <1>1, <1>7, <1>8
        DEF Inv, svnvars, result, Committed, ActionsKnown, Placed

LEMMA OpenStep == ASSUME Inv, NEW q, NEW kind, OpenNode(q, kind) PROVE Inv'
<1> DEFINE n == [delta_create_node(q, kind, "M") EXCEPT !.props = property_load(q)]
<1>1. /\ open # <<>> /\ q \in Entries /\ Called /\ srv' = srv
      /\ nodes' = Append(nodes, n) /\ open' = Append(open, Len(nodes) + 1)
  BY DEF OpenNode, Ready, Opened
<1>2. /\ n.path = q /\ n.parent = Last(open) /\ n.cp_info = Cur.cp_info
      /\ n.action = "M" /\ Fields \subseteq DOMAIN n
  BY DEF delta_create_node, delta_create_node_no_parent, Fields, Cur
<1> HIDE DEF n
<1>3. q \in Seq(Nat) /\ q # <<>> /\ Front(q) = Cur.path
  BY <1>1, EntriesPaths
<1>4. Cur.cp_info \in CopyInfo /\ "M" \in Actions
  BY <1>1, CurFacts DEF Inv, Actions
<1>5. NodesOK' /\ OpenOK'
  BY <1>1, <1>2, <1>3, <1>4, NewNode DEF Inv
<1> QED BY <1>1, <1>5, CalledStep DEF Inv, Placed

LEMMA PropStep == ASSUME Inv, NEW name, NEW file, ChangeProp(name, file) PROVE Inv'
<1> DEFINE value == Target[Cur.path].props[name]
           n == WithProp(Cur, name, value)
<1>1. /\ open # <<>> /\ Called /\ open' = open /\ DOMAIN srv' = DOMAIN srv
      /\ nodes' = [nodes EXCEPT ![Last(open)] = n]
  <2>1. /\ open # <<>> /\ Called /\ open' = open
        /\ nodes' = [nodes EXCEPT ![Last(open)] = n]
    BY Zenon DEF ChangeProp, Cur
  <2>2. srv' = [srv EXCEPT ![Cur.path].props[name] = value]
    BY Zenon DEF ChangeProp
  <2> QED BY <2>1, <2>2
<1>2. Fields \subseteq DOMAIN Cur
  BY <1>1, CurFacts DEF Inv, NodesOK, Cur
<1>3. /\ n.path = Cur.path /\ n.parent = Cur.parent
      /\ n.cp_info = Cur.cp_info /\ n.action = Cur.action
      /\ Fields \subseteq DOMAIN n
  BY <1>2 DEF Fields, WithProp
<1> HIDE DEF n
<1>4. NodesOK' /\ OpenOK'
  BY <1>1, <1>3, ChangedNode DEF Inv
<1> QED BY <1>1, <1>4, CalledStep DEF Inv, Placed

LEMMA TextStep == ASSUME Inv, de_apply_textdelta PROVE Inv'
<1> DEFINE old == IF Cur.path \in DOMAIN delta_hash THEN delta_hash[Cur.path] ELSE NoText
           new == ApplyDelta([base |-> srv[Cur.path].text,
                              target |-> Target[Cur.path].text], old)
           n == [Cur EXCEPT !.file = new, !.old = old, !.md5 = new,
                            !.applied = TRUE, !.needed = TRUE]
<1>1. /\ open # <<>> /\ Called /\ open' = open /\ DOMAIN srv' = DOMAIN srv
      /\ nodes' = [nodes EXCEPT ![Last(open)] = n]
  BY DEF de_apply_textdelta, Ready, Cur
<1> HIDE DEF old, new
<1>2. Fields \subseteq DOMAIN Cur
  BY <1>1, CurFacts DEF Inv, NodesOK, Cur
<1>3. /\ n.path = Cur.path /\ n.parent = Cur.parent
      /\ n.cp_info = Cur.cp_info /\ n.action = Cur.action
      /\ Fields \subseteq DOMAIN n
  BY <1>2 DEF Fields
<1> HIDE DEF n
<1>4. NodesOK' /\ OpenOK'
  BY <1>1, <1>3, ChangedNode DEF Inv
<1> QED BY <1>1, <1>4, CalledStep DEF Inv, Placed

LEMMA CloseStep == ASSUME Inv, open # <<>>, CloseNode PROVE Inv'
<1>1. Called /\ nodes' = nodes /\ srv' = srv /\ open' = Front(open)
  BY DEF CloseNode
<1>2. Len(open) \in Nat \ {0} /\ open \in Seq(Nat) /\ DOMAIN open = 1 .. Len(open)
  BY DEF Inv, OpenOK
<1>3. /\ open' \in Seq(Nat) /\ DOMAIN open' = 1 .. Len(open) - 1
      /\ \A i \in 1 .. Len(open) - 1 : open'[i] = open[i]
  BY <1>1, <1>2 DEF Front
<1>4. NodesOK'
  BY <1>1 DEF Inv, NodesOK
<1>5. OpenOK'
  <2> SUFFICES ASSUME NEW i \in DOMAIN open'
               PROVE  /\ open'[i] \in DOMAIN nodes
                      /\ Len(nodes[open'[i]].path) = i - 1
                      /\ i > 1 => nodes[open'[i]].parent = open'[i - 1]
    BY <1>1, <1>3 DEF OpenOK
  <2>1. i \in DOMAIN open /\ open'[i] = open[i]
    BY <1>2, <1>3
  <2>2. i > 1 => open'[i - 1] = open[i - 1]
    <3>1. i > 1 => i - 1 \in 1 .. Len(open) - 1
      BY <1>2, <1>3
    <3> QED BY <1>3, <3>1
  <2> QED BY <2>1, <2>2 DEF Inv, OpenOK
<1> QED BY <1>1, <1>4, <1>5, CalledStep DEF Inv, Placed

LEMMA CloseEditStep == ASSUME Inv, de_close_edit PROVE Inv'
<1>1. /\ UNCHANGED <<repo, txn, changes, req, open, srv, status>>
      /\ nodes' = <<>> /\ open = <<>> /\ phase' = "load"
  BY DEF de_close_edit, svnvars, result
<1>2. Committed' /\ Placed'
  BY <1>1 DEF Inv, Committed, ActionsKnown, Placed
<1>3. DOMAIN nodes' = {} /\ DOMAIN open' = {} /\ nodes' \in Seq(Nat) /\ open' \in Seq(Nat)
  BY <1>1
<1>4. NodesOK'
  BY <1>3 DEF NodesOK, IsList
<1>5. OpenOK'
  BY <1>3 DEF OpenOK
<1> QED BY <1>2, <1>4, <1>5 DEF Inv
-----------------------------------------------------------------------------
LEMMA InvInit == Init => Inv
<1> SUFFICES ASSUME Init PROVE Inv
  OBVIOUS
<1>1. DOMAIN EmptyTree \subseteq Known /\ DOMAIN EmptyTree \subseteq Seq(Nat)
  BY KnownPaths DEF EmptyTree, Known
<1>2. /\ req \in Requests /\ repo = <<EmptyTree>> /\ txn = EmptyTree
      /\ changes = <<>> /\ nodes = <<>> /\ open = <<>> /\ srv = EmptyTree
      /\ phase = "commit" /\ status = "ok"
  BY DEF Init
<1> HIDE DEF EmptyTree
<1>3. /\ repo \in Seq({EmptyTree}) /\ repo # <<>>
      /\ DOMAIN repo = {1} /\ repo[1] = EmptyTree
  BY <1>2
<1>4. ActionsKnown
  BY <1>2 DEF ActionsKnown
<1>5. Committed
  BY <1>1, <1>2, <1>3, <1>4 DEF Committed, IsList
<1>6. DOMAIN nodes = {} /\ DOMAIN open = {} /\ nodes \in Seq(Nat) /\ open \in Seq(Nat)
  BY <1>2
<1>7. NodesOK /\ OpenOK
  BY <1>6 DEF NodesOK, OpenOK, IsList
<1>8. Placed
  BY <1>1, <1>2 DEF Placed
<1> QED BY <1>5, <1>7, <1>8 DEF Inv

LEMMA InvNext == Inv /\ [Next]_vars => Inv'
<1> SUFFICES ASSUME Inv, [Next]_vars PROVE Inv'
  OBVIOUS
<1>1. CASE Edit
  BY <1>1, EditStep
<1>2. CASE Commit
  BY <1>2, CommitStep
<1>3. CASE de_open_root
  BY <1>3, OpenRootStep
<1>4. CASE de_apply_textdelta
  BY <1>4, TextStep
<1>5. ASSUME NEW q, de_delete_entry(q) PROVE Inv'
  BY <1>5, DeleteStep
<1>6. ASSUME NEW q, de_add_directory(q) \/ de_add_file(q) PROVE Inv'
  BY <1>6, AddStep DEF de_add_directory, de_add_file
<1>7. ASSUME NEW q, de_open_directory(q) \/ de_open_file(q) PROVE Inv'
  BY <1>7, OpenStep DEF de_open_directory, de_open_file
<1>8. ASSUME NEW name, de_change_dir_prop(name) \/ de_change_file_prop(name)
      PROVE  Inv'
  BY <1>8, PropStep DEF de_change_dir_prop, de_change_file_prop
<1>9. CASE de_close_file \/ de_close_directory
  BY <1>9, CloseStep DEF de_close_file, de_close_directory, Ready
<1>10. CASE de_close_edit
  BY <1>10, CloseEditStep
<1>11. CASE EndRevision
  BY <1>11, EndStep
<1>12. CASE UNCHANGED vars
  BY <1>12 DEF vars, svnvars, editor, result, Inv, Committed, ActionsKnown,
               NodesOK, OpenOK, Placed
<1> QED BY <1>1, <1>2, <1>3, <1>4, <1>5, <1>6, <1>7, <1>8, <1>9, <1>10, <1>11,
           <1>12 DEF Next, Drive

\* The nodes of an edit form a tree, parents before children, whose paths grow
\* by one name per level, and the open ones are a path in it: what
\* delta_create_node() builds from the callbacks and delta_dump_node_recursive()
\* walks (delta.c:160, 1330), for every history of commits and every order in
\* which the server describes a revision.
THEOREM DeltaTypeOK == Spec => []TypeOK
<1>1. Inv => TypeOK
  BY DEF Inv, TypeOK, NodesOK, OpenOK, Placed, CopyInfo, Actions
<1> QED BY <1>1, InvInit, InvNext, PTL DEF Spec

-----------------------------------------------------------------------------
(***************************************************************************)
(* Paths and trees                                                         *)
(***************************************************************************)

\* All that is above something in a tree is in the tree, and nothing else
\* needs to be checked.
LEMMA TreeUp ==
    ASSUME NEW S, S \subseteq Seq(Nat), IsTree(S), NEW p \in S,
           NEW c \in Seq(Nat), IsPrefix(c, p)
    PROVE  c \in S
<1>1. p \in Seq(Nat) /\ Len(c) \in Nat /\ Len(p) \in Nat /\ Len(c) <= Len(p)
  BY PrefixAt
<1>2. SubSeq(p, 1, Len(c)) \in S
  BY <1>1 DEF IsTree
<1>3. /\ SubSeq(p, 1, Len(c)) \in Seq(Nat) /\ Len(SubSeq(p, 1, Len(c))) = Len(c)
      /\ \A i \in 1 .. Len(c) : SubSeq(p, 1, Len(c))[i] = p[i]
  BY <1>1
<1>4. \A i \in 1 .. Len(c) : c[i] = p[i]
  BY <1>1, PrefixAt
<1>5. c = SubSeq(p, 1, Len(c))
  BY <1>3, <1>4, SeqEqual
<1> QED BY <1>2, <1>5

LEMMA TreeIf ==
    ASSUME NEW S, S \subseteq Seq(Nat),
           \A p \in S : \A c \in Seq(Nat) : IsPrefix(c, p) => c \in S
    PROVE  IsTree(S)
<1> SUFFICES ASSUME NEW p \in S, NEW n \in 0 .. Len(p) PROVE SubSeq(p, 1, n) \in S
  BY DEF IsTree
<1> DEFINE c == SubSeq(p, 1, n)
<1>1. p \in Seq(Nat) /\ Len(p) \in Nat /\ n \in Nat /\ n <= Len(p)
  OBVIOUS
<1>2. c \in Seq(Nat) /\ Len(c) = n /\ \A i \in 1 .. n : c[i] = p[i]
  BY <1>1
<1> HIDE DEF c
<1>3. IsPrefix(c, p)
  BY <1>1, <1>2, PrefixAt
<1> QED BY <1>2, <1>3 DEF c

LEMMA FrontFacts ==
    ASSUME NEW p \in Seq(Nat), p # Root
    PROVE  /\ Front(p) \in Seq(Nat) /\ Len(Front(p)) = Len(p) - 1
           /\ IsPrefix(Front(p), p)
           /\ \A c \in Seq(Nat) : IsPrefix(c, p) => c = p \/ IsPrefix(c, Front(p))
<1>1. Len(p) \in Nat /\ Len(p) # 0
  BY DEF Root
<1>2. /\ Front(p) \in Seq(Nat) /\ Len(Front(p)) = Len(p) - 1
      /\ \A i \in 1 .. Len(p) - 1 : Front(p)[i] = p[i]
  <2> DEFINE n == Len(p) - 1
  <2>1. n \in Nat /\ n <= Len(p)
    BY <1>1
  <2> HIDE DEF n
  <2>2. /\ SubSeq(p, 1, n) \in Seq(Nat) /\ Len(SubSeq(p, 1, n)) = n
        /\ \A i \in 1 .. n : SubSeq(p, 1, n)[i] = p[i]
    BY <2>1
  <2> QED BY <2>2 DEF Front, n
<1>3. IsPrefix(Front(p), p)
  <2>1. Len(p) - 1 <= Len(p)
    BY <1>1
  <2> QED BY <1>2, <2>1, PrefixAt
<1>4. ASSUME NEW c \in Seq(Nat), IsPrefix(c, p), c # p PROVE IsPrefix(c, Front(p))
  <2>1. Len(c) \in Nat /\ Len(c) <= Len(p)
    BY <1>4, PrefixAt
  <2>2. ~(Len(p) <= Len(c))
    BY <1>4, PrefixEqual
  <2>3. Len(c) <= Len(p) - 1
    BY <1>1, <2>1, <2>2
  <2>4. \A i \in 1 .. Len(c) : c[i] = p[i]
    BY <1>4, PrefixAt
  <2>5. \A i \in 1 .. Len(c) : c[i] = Front(p)[i]
    BY <1>1, <1>2, <2>1, <2>3, <2>4
  <2> QED BY <1>2, <2>3, <2>5, PrefixAt
<1> QED BY <1>2, <1>3, <1>4

LEMMA TreePut ==
    ASSUME NEW S, S \subseteq Seq(Nat), IsTree(S),
           NEW p \in Seq(Nat), p # Root, Front(p) \in S
    PROVE  IsTree(S \cup {p})
<1>1. ASSUME NEW q \in S \cup {p}, NEW c \in Seq(Nat), IsPrefix(c, q)
      PROVE  c \in S \cup {p}
  <2>1. CASE q = p
    <3>1. c = p \/ IsPrefix(c, Front(p))
      BY <1>1, <2>1, FrontFacts
    <3> QED BY <3>1, TreeUp
  <2>2. CASE q \in S
    BY <1>1, <2>2, TreeUp
  <2> QED BY <2>1, <2>2
<1> QED BY <1>1, TreeIf

LEMMA TreeCut ==
    ASSUME NEW S, S \subseteq Seq(Nat), IsTree(S), NEW p \in Seq(Nat)
    PROVE  IsTree(S \ pr_tree_to_array(S, p))
<1> DEFINE R == S \ pr_tree_to_array(S, p)
<1>1. R \subseteq Seq(Nat) /\ \A q : q \in R <=> q \in S /\ ~IsPrefix(p, q)
  BY DEF pr_tree_to_array
<1> HIDE DEF R
<1>2. ASSUME NEW q \in R, NEW c \in Seq(Nat), IsPrefix(c, q) PROVE c \in R
  <2>1. q \in S /\ ~IsPrefix(p, q) /\ q \in Seq(Nat)
    BY <1>1
  <2>2. c \in S
    BY <1>2, <2>1, TreeUp
  <2>3. ~IsPrefix(p, c)
    BY <1>2, <2>1, PrefixTrans
  <2> QED BY <1>1, <2>2, <2>3
<1> QED BY <1>1, <1>2, TreeIf DEF R

LEMMA ConcatFacts ==
    ASSUME NEW x \in Seq(Nat), NEW q \in Seq(Nat)
    PROVE  /\ x \o q \in Seq(Nat) /\ Len(x \o q) = Len(x) + Len(q)
           /\ \A i \in 1 .. Len(x) : (x \o q)[i] = x[i]
           /\ \A i \in 1 .. Len(q) : (x \o q)[Len(x) + i] = q[i]
           /\ IsPrefix(x, x \o q)
<1>1. Len(x) \in Nat /\ Len(q) \in Nat
  OBVIOUS
<1>2. x \o q \in Seq(Nat) /\ Len(x \o q) = Len(x) + Len(q)
  BY ConcatProperties
<1>3. \A i \in 1 .. Len(x) + Len(q) :
        (x \o q)[i] = IF i <= Len(x) THEN x[i] ELSE q[i - Len(x)]
  BY ConcatProperties
<1>4. ASSUME NEW i \in 1 .. Len(x) PROVE (x \o q)[i] = x[i]
  <2>1. i \in 1 .. Len(x) + Len(q) /\ i <= Len(x)
    BY <1>1
  <2> QED BY <1>3, <2>1
<1>5. ASSUME NEW i \in 1 .. Len(q) PROVE (x \o q)[Len(x) + i] = q[i]
  <2> DEFINE j == Len(x) + i
  <2>1. j \in 1 .. Len(x) + Len(q) /\ ~(j <= Len(x)) /\ j - Len(x) = i
    BY <1>1
  <2> HIDE DEF j
  <2>2. (x \o q)[j] = q[j - Len(x)]
    BY <1>3, <2>1
  <2> QED BY <2>1, <2>2 DEF j
<1>6. Len(x) <= Len(x \o q)
  BY <1>1, <1>2
<1>7. IsPrefix(x, x \o q)
  BY <1>2, <1>4, <1>6, PrefixAt
<1> QED BY <1>2, <1>4, <1>5, <1>7

LEMMA ConcatPrefix ==
    ASSUME NEW x \in Seq(Nat), NEW c \in Seq(Nat), NEW q \in Seq(Nat), IsPrefix(c, q)
    PROVE  IsPrefix(x \o c, x \o q)
<1> DEFINE u == x \o c
           v == x \o q
<1>1. Len(x) \in Nat /\ Len(c) \in Nat /\ Len(q) \in Nat /\ Len(c) <= Len(q)
      /\ \A i \in 1 .. Len(c) : c[i] = q[i]
  BY PrefixAt
<1>2. /\ u \in Seq(Nat) /\ Len(u) = Len(x) + Len(c)
      /\ \A i \in 1 .. Len(x) : u[i] = x[i]
      /\ \A i \in 1 .. Len(c) : u[Len(x) + i] = c[i]
  BY ConcatFacts
<1>3. /\ v \in Seq(Nat) /\ Len(v) = Len(x) + Len(q)
      /\ \A i \in 1 .. Len(x) : v[i] = x[i]
      /\ \A i \in 1 .. Len(q) : v[Len(x) + i] = q[i]
  BY ConcatFacts
<1> HIDE DEF u, v
<1>4. Len(u) <= Len(v)
  BY <1>1, <1>2, <1>3
<1>5. ASSUME NEW i \in 1 .. Len(u) PROVE u[i] = v[i]
  <2>1. CASE i \in 1 .. Len(x)
    BY <1>2, <1>3, <2>1
  <2>2. CASE i \notin 1 .. Len(x)
    <3> DEFINE j == i - Len(x)
    <3>1. j \in 1 .. Len(c) /\ j \in 1 .. Len(q) /\ i = Len(x) + j
      BY <1>1, <1>2, <2>2
    <3> HIDE DEF j
    <3>2. u[Len(x) + j] = c[j] /\ v[Len(x) + j] = q[j] /\ c[j] = q[j]
      BY <1>1, <1>2, <1>3, <3>1
    <3> QED BY <3>1, <3>2
  <2> QED BY <2>1, <2>2
<1> QED BY <1>2, <1>3, <1>4, <1>5, PrefixAt DEF u, v

\* What is behind a prefix.
LEMMA RestFacts ==
    ASSUME NEW x \in Seq(Nat), NEW p \in Seq(Nat), IsPrefix(x, p)
    PROVE  LET s == SubSeq(p, Len(x) + 1, Len(p)) IN
           /\ s \in Seq(Nat) /\ Len(s) = Len(p) - Len(x)
           /\ \A i \in 1 .. Len(s) : s[i] = p[Len(x) + i]
<1>1. Len(x) \in Nat /\ Len(p) \in Nat /\ Len(x) <= Len(p)
  BY PrefixAt
<1> QED BY <1>1

LEMMA RestOfConcat ==
    ASSUME NEW x \in Seq(Nat), NEW q \in Seq(Nat)
    PROVE  SubSeq(x \o q, Len(x) + 1, Len(x \o q)) = q
<1> DEFINE p == x \o q
           s == SubSeq(p, Len(x) + 1, Len(p))
<1>1. /\ p \in Seq(Nat) /\ Len(p) = Len(x) + Len(q) /\ IsPrefix(x, p)
      /\ \A i \in 1 .. Len(q) : p[Len(x) + i] = q[i]
  BY ConcatFacts
<1> HIDE DEF p
<1>2. /\ s \in Seq(Nat) /\ Len(s) = Len(p) - Len(x)
      /\ \A i \in 1 .. Len(s) : s[i] = p[Len(x) + i]
  BY <1>1, RestFacts
<1> HIDE DEF s
<1>3. Len(s) = Len(q)
  <2>1. Len(x) \in Nat /\ Len(q) \in Nat
    OBVIOUS
  <2> QED BY <1>1, <1>2, <2>1
<1>4. \A i \in 1 .. Len(q) : s[i] = q[i]
  BY <1>1, <1>2, <1>3
<1>5. s = q
  BY <1>2, <1>3, <1>4, SeqEqual
<1> QED BY <1>5 DEF s, p

LEMMA InSessionIff ==
    ASSUME req \in Requests, NEW t, DOMAIN t \subseteq Seq(Nat), NEW q
    PROVE  q \in DOMAIN InSession(t) <=> q \in Seq(Nat) /\ req.prefix \o q \in DOMAIN t
<1> DEFINE x == req.prefix
<1>1. x \in Seq(Nat)
  BY RequestsAssumption
<1>2. DOMAIN InSession(t) = {Stripped(p) : p \in Within(t, x)}
  BY DEF InSession
<1>3. \A p : p \in Within(t, x) <=> p \in DOMAIN t /\ IsPrefix(x, p)
  BY DEF Within, pr_tree_to_array
<1> HIDE DEF x
<1>4. ASSUME q \in DOMAIN InSession(t) PROVE q \in Seq(Nat) /\ x \o q \in DOMAIN t
  <2>1. PICK p \in Within(t, x) : q = Stripped(p)
    BY <1>2, <1>4
  <2> QED BY <1>3, <2>1, StrippedType DEF x
<1>5. ASSUME q \in Seq(Nat), x \o q \in DOMAIN t PROVE q \in DOMAIN InSession(t)
  <2>1. x \o q \in Within(t, x)
    BY <1>1, <1>3, <1>5, ConcatFacts
  <2>2. Stripped(x \o q) = q
    BY <1>1, <1>5, RestOfConcat DEF Stripped, x
  <2> QED BY <1>2, <2>1, <2>2
<1> QED BY <1>4, <1>5 DEF x

LEMMA SessionIsTree ==
    ASSUME req \in Requests, NEW t, DOMAIN t \subseteq Seq(Nat), IsTree(DOMAIN t)
    PROVE  IsTree(DOMAIN InSession(t))
<1> DEFINE S == DOMAIN InSession(t)
           x == req.prefix
<1>1. x \in Seq(Nat)
  BY RequestsAssumption
<1>2. \A q : q \in S <=> q \in Seq(Nat) /\ x \o q \in DOMAIN t
  BY InSessionIff
<1> HIDE DEF S, x
<1>3. ASSUME NEW q \in S, NEW c \in Seq(Nat), IsPrefix(c, q) PROVE c \in S
  <2>1. q \in Seq(Nat) /\ x \o q \in DOMAIN t
    BY <1>2
  <2>2. IsPrefix(x \o c, x \o q) /\ x \o c \in Seq(Nat)
    BY <1>1, <1>3, <2>1, ConcatPrefix, ConcatFacts
  <2>3. x \o c \in DOMAIN t
    BY <2>1, <2>2, TreeUp
  <2> QED BY <1>2, <2>3
<1>4. S \subseteq Seq(Nat)
  BY <1>2
<1> QED BY <1>3, <1>4, TreeIf DEF S

\* The session's paths depend only on what is within its prefix.
LEMMA SessionSame ==
    ASSUME req \in Requests, NEW t, NEW u,
           DOMAIN t \subseteq Seq(Nat), DOMAIN u \subseteq Seq(Nat),
           \A q \in Seq(Nat) : IsPrefix(req.prefix, q) => (q \in DOMAIN t <=> q \in DOMAIN u)
    PROVE  DOMAIN InSession(t) = DOMAIN InSession(u)
<1> DEFINE x == req.prefix
<1>1. x \in Seq(Nat)
  BY RequestsAssumption
<1>2. ASSUME NEW q PROVE q \in DOMAIN InSession(t) <=> q \in DOMAIN InSession(u)
  <2>1. q \in DOMAIN InSession(t) <=> q \in Seq(Nat) /\ x \o q \in DOMAIN t
    BY InSessionIff
  <2>2. q \in DOMAIN InSession(u) <=> q \in Seq(Nat) /\ x \o q \in DOMAIN u
    BY InSessionIff
  <2>3. q \in Seq(Nat) => x \o q \in Seq(Nat) /\ IsPrefix(x, x \o q)
    BY <1>1, ConcatFacts
  <2> QED BY <2>1, <2>2, <2>3
<1>3. \A q : q \in DOMAIN InSession(t) <=> q \in DOMAIN InSession(u)
  BY <1>2
<1> QED BY <1>3

LEMMA SessionNone ==
    ASSUME req \in Requests, NEW t, DOMAIN t \subseteq Seq(Nat), IsTree(DOMAIN t),
           req.prefix \notin DOMAIN t
    PROVE  DOMAIN InSession(t) = {}
<1> DEFINE x == req.prefix
<1>1. x \in Seq(Nat)
  BY RequestsAssumption
<1>2. ASSUME NEW q \in DOMAIN InSession(t) PROVE FALSE
  <2>1. q \in Seq(Nat) /\ x \o q \in DOMAIN t
    BY InSessionIff
  <2>2. IsPrefix(x, x \o q)
    BY <1>1, <2>1, ConcatFacts
  <2> QED BY <1>1, <2>1, <2>2, TreeUp
<1> QED BY <1>2

\* What a path at or below src is when src is copied to dst.
RenamedIs(r, q, src, dst) ==
    /\ r \in Seq(Nat) /\ Len(r) = Len(dst) + (Len(q) - Len(src))
    /\ IsPrefix(dst, r)
    /\ \A i \in 1 .. Len(dst) : r[i] = dst[i]
    /\ \A i \in 1 .. Len(q) - Len(src) : r[Len(dst) + i] = q[Len(src) + i]

LEMMA RenamedFacts ==
    ASSUME NEW q \in Seq(Nat), NEW src \in Seq(Nat), NEW dst \in Seq(Nat),
           IsPrefix(src, q)
    PROVE  RenamedIs(Renamed(q, src, dst), q, src, dst)
<1> DEFINE s == SubSeq(q, Len(src) + 1, Len(q))
<1>1. /\ s \in Seq(Nat) /\ Len(s) = Len(q) - Len(src)
      /\ \A i \in 1 .. Len(s) : s[i] = q[Len(src) + i]
  BY RestFacts
<1> HIDE DEF s
<1>2. /\ dst \o s \in Seq(Nat) /\ Len(dst \o s) = Len(dst) + Len(s)
      /\ \A i \in 1 .. Len(dst) : (dst \o s)[i] = dst[i]
      /\ \A i \in 1 .. Len(s) : (dst \o s)[Len(dst) + i] = s[i]
      /\ IsPrefix(dst, dst \o s)
  BY <1>1, ConcatFacts
<1> QED BY <1>1, <1>2 DEF Renamed, s, RenamedIs

\* A copy of a part of a tree makes a tree again.
LEMMA TreeCopy ==
    ASSUME NEW S, S \subseteq Seq(Nat), IsTree(S), NEW U, U \subseteq Seq(Nat), IsTree(U),
           NEW src \in U, NEW dst \in Seq(Nat), dst # Root, Front(dst) \in S
    PROVE  /\ IsTree(S \cup CopiedPaths(U, src, dst))
           /\ \A q \in CopiedPaths(U, src, dst) : q \in Seq(Nat) /\ IsPrefix(dst, q)
           /\ dst \in CopiedPaths(U, src, dst)
<1> DEFINE new == CopiedPaths(U, src, dst)
<1>1. \A r : r \in new <=> \E q \in U : IsPrefix(src, q) /\ r = Renamed(q, src, dst)
  BY DEF CopiedPaths, pr_tree_to_array
<1> HIDE DEF new
<1>2. src \in Seq(Nat) /\ Len(src) \in Nat /\ Len(dst) \in Nat
  OBVIOUS
<1>3. ASSUME NEW r \in new PROVE r \in Seq(Nat) /\ IsPrefix(dst, r)
  <2>1. PICK q \in U : IsPrefix(src, q) /\ r = Renamed(q, src, dst)
    BY <1>1
  <2>2. RenamedIs(r, q, src, dst)
    BY <1>2, <2>1, RenamedFacts
  <2> QED BY <2>2 DEF RenamedIs
<1>4. ASSUME NEW r \in new, NEW c \in Seq(Nat), IsPrefix(c, r), IsPrefix(dst, c)
      PROVE  c \in new
  <2>1. PICK q \in U : IsPrefix(src, q) /\ r = Renamed(q, src, dst)
    BY <1>1
  <2>2. q \in Seq(Nat) /\ Len(q) \in Nat /\ Len(src) <= Len(q)
    BY <1>2, <2>1, PrefixAt
  <2>3. /\ r \in Seq(Nat) /\ Len(r) = Len(dst) + (Len(q) - Len(src))
        /\ \A i \in 1 .. Len(q) - Len(src) : r[Len(dst) + i] = q[Len(src) + i]
    <3>1. RenamedIs(r, q, src, dst)
      BY <1>2, <2>1, <2>2, RenamedFacts
    <3> QED BY <3>1 DEF RenamedIs
  <2>4. /\ Len(c) \in Nat /\ Len(c) <= Len(r)
        /\ \A i \in 1 .. Len(c) : c[i] = r[i]
    BY <1>4, <2>3, PrefixAt
  <2>5. Len(dst) <= Len(c) /\ \A i \in 1 .. Len(dst) : dst[i] = c[i]
    BY <1>4, PrefixAt
  <2> DEFINE n == Len(c) - Len(dst)
             m == Len(src) + n
             d == SubSeq(q, 1, m)
  <2>6. n \in Nat /\ m \in Nat /\ m <= Len(q) /\ Len(src) <= m
        /\ n <= Len(q) - Len(src)
    BY <1>2, <2>2, <2>3, <2>4, <2>5
  <2>7. d \in U
    BY <2>6 DEF IsTree
  <2>8. d \in Seq(Nat) /\ Len(d) = m /\ \A i \in 1 .. m : d[i] = q[i]
    <3> HIDE DEF m
    <3> QED BY <2>2, <2>6
  <2> HIDE DEF d
  <2>9. IsPrefix(src, d)
    <3>1. \A i \in 1 .. Len(src) : src[i] = q[i]
      BY <1>2, <2>1, <2>2, PrefixAt
    <3>2. ASSUME NEW i \in 1 .. Len(src) PROVE src[i] = d[i]
      <4> HIDE DEF m
      <4>1. i \in 1 .. m
        BY <1>2, <2>6
      <4> QED BY <2>8, <3>1, <4>1
    <3> QED BY <1>2, <2>6, <2>8, <3>2, PrefixAt
  <2> DEFINE e == Renamed(d, src, dst)
  <2>10. /\ e \in Seq(Nat) /\ Len(e) = Len(dst) + (Len(d) - Len(src))
         /\ \A i \in 1 .. Len(dst) : e[i] = dst[i]
         /\ \A i \in 1 .. Len(d) - Len(src) : e[Len(dst) + i] = d[Len(src) + i]
    <3>1. RenamedIs(e, d, src, dst)
      BY <1>2, <2>8, <2>9, RenamedFacts
    <3> HIDE DEF e
    <3> QED BY <3>1 DEF RenamedIs
  <2> HIDE DEF e
  <2>11. Len(d) - Len(src) = n /\ Len(e) = Len(c)
    BY <1>2, <2>4, <2>6, <2>8, <2>10
  <2>12. ASSUME NEW i \in 1 .. Len(c) PROVE e[i] = c[i]
    <3>1. CASE i \in 1 .. Len(dst)
      BY <2>5, <2>10, <3>1
    <3>2. CASE i \notin 1 .. Len(dst)
      <4> DEFINE j == i - Len(dst)
      <4>1. /\ j \in 1 .. n /\ i = Len(dst) + j /\ j \in 1 .. Len(q) - Len(src)
            /\ Len(src) + j \in 1 .. m
        BY <1>2, <2>4, <2>6, <3>2
      <4> HIDE DEF j, n, m
      <4>2. e[Len(dst) + j] = d[Len(src) + j]
        BY <2>10, <2>11, <4>1
      <4>3. d[Len(src) + j] = q[Len(src) + j]
        BY <2>8, <4>1
      <4>4. r[Len(dst) + j] = q[Len(src) + j]
        BY <2>3, <4>1
      <4> QED BY <2>4, <4>1, <4>2, <4>3, <4>4
    <3> QED BY <3>1, <3>2
  <2>13. e = c
    BY <2>10, <2>11, <2>12, SeqEqual
  <2> QED BY <1>1, <2>7, <2>9, <2>13 DEF e
<1>5. dst \in new
  <2>1. IsPrefix(src, src)
    BY <1>2, PrefixSelf
  <2> DEFINE r == Renamed(src, src, dst)
  <2>2. /\ r \in Seq(Nat) /\ Len(r) = Len(dst) + (Len(src) - Len(src))
        /\ IsPrefix(dst, r)
    BY <1>2, <2>1, RenamedFacts DEF RenamedIs
  <2>3. r \in new
    BY <1>1, <2>1
  <2> HIDE DEF r
  <2>4. Len(r) <= Len(dst)
    BY <1>2, <2>2
  <2>5. dst = r
    BY <2>2, <2>4, PrefixEqual
  <2> QED BY <2>3, <2>5
<1>6. ASSUME NEW r \in S \cup new, NEW c \in Seq(Nat), IsPrefix(c, r)
      PROVE  c \in S \cup new
  <2>1. CASE r \in S
    BY <1>6, <2>1, TreeUp
  <2>2. CASE r \in new
    <3>1. r \in Seq(Nat) /\ IsPrefix(dst, r)
      BY <1>3, <2>2
    <3>2. CASE IsPrefix(dst, c)
      BY <1>4, <1>6, <2>2, <3>2
    <3>3. CASE IsPrefix(c, dst)
      <4>1. c = dst \/ IsPrefix(c, Front(dst))
        BY <3>3, FrontFacts
      <4> QED BY <1>5, <4>1, TreeUp
    <3> QED BY <1>6, <3>1, <3>2, <3>3, PrefixLinear
  <2> QED BY <2>1, <2>2
<1>7. S \cup new \subseteq Seq(Nat)
  BY <1>3
<1>8. IsTree(S \cup new)
  BY <1>6, <1>7, TreeIf
<1> QED BY <1>3, <1>5, <1>8 DEF new

\* A copy to a place and back is where it was.
LEMMA RenamedBack ==
    ASSUME NEW q \in Seq(Nat), NEW src \in Seq(Nat), NEW dst \in Seq(Nat),
           IsPrefix(src, q)
    PROVE  Renamed(Renamed(q, src, dst), dst, src) = q
<1> DEFINE s == SubSeq(q, Len(src) + 1, Len(q))
           r == src \o s
<1>1. s \in Seq(Nat)
  BY RestFacts
<1>2. SubSeq(dst \o s, Len(dst) + 1, Len(dst \o s)) = s
  BY <1>1, RestOfConcat
<1>3. Renamed(Renamed(q, src, dst), dst, src) = r
  BY <1>2 DEF Renamed
<1>4. Renamed(q, src, src) = r
  BY DEF Renamed
<1> HIDE DEF r
<1>5. RenamedIs(r, q, src, src)
  BY <1>4, RenamedFacts
<1>6. /\ Len(src) \in Nat /\ Len(q) \in Nat /\ Len(src) <= Len(q)
      /\ \A i \in 1 .. Len(src) : src[i] = q[i]
  BY PrefixAt
<1>7. r \in Seq(Nat) /\ Len(r) = Len(src) + (Len(q) - Len(src))
      /\ (\A i \in 1 .. Len(src) : r[i] = src[i])
      /\ (\A i \in 1 .. Len(q) - Len(src) : r[Len(src) + i] = q[Len(src) + i])
  BY <1>5 DEF RenamedIs
<1>8. Len(r) = Len(q)
  BY <1>6, <1>7
<1>9. ASSUME NEW i \in 1 .. Len(q) PROVE r[i] = q[i]
  <2>1. CASE i \in 1 .. Len(src)
    BY <1>6, <1>7, <2>1
  <2>2. CASE i \notin 1 .. Len(src)
    <3> DEFINE j == i - Len(src)
    <3>1. j \in 1 .. Len(q) - Len(src) /\ i = Len(src) + j
      BY <1>6, <2>2
    <3> HIDE DEF j
    <3> QED BY <1>7, <3>1
  <2> QED BY <2>1, <2>2
<1>10. r = q
  BY <1>7, <1>8, <1>9, SeqEqual
<1> QED BY <1>3, <1>10

-----------------------------------------------------------------------------
(***************************************************************************)
(* The log explains what users did.  t and b are the trees of the commit   *)
(* and of the revision it is based on, f its changed paths, x the dumped   *)
(* directory.                                                              *)
(***************************************************************************)

Differs(t, b, q) ==
    \/ ~(q \in DOMAIN t <=> q \in DOMAIN b)
    \/ q \in DOMAIN t /\ q \in DOMAIN b /\ t[q] # b[q]

\* A path that differs is in the log, or is part of something that was added,
\* replaced or deleted.
Covers(t, b, f) ==
    \A q \in Seq(Nat) \ {Root} :
        Differs(t, b, q) =>
            \E c \in DOMAIN f : IsPrefix(c, q) /\ (c = q \/ f[c].action # "M")

Removes(f, c) == f[c].action \in {"R", "D"}

\* A node that is gone, or of the other kind, is at or below something that was
\* replaced or deleted.
RemovesOld(t, b, f) ==
    \A q \in Seq(Nat) \ {Root} :
        q \in DOMAIN b /\ ~(q \in DOMAIN t /\ t[q].kind = b[q].kind) =>
            \E c \in DOMAIN f : IsPrefix(c, q) /\ Removes(f, c)

\* What the log calls added was not there, or only before something above it
\* was replaced.
AddsNew(b, f) ==
    \A p \in DOMAIN f :
        f[p].action = "A" /\ p \in DOMAIN b =>
            \E c \in DOMAIN f : IsStrictPrefix(c, p) /\ Removes(f, c)

\* What the log calls deleted is gone from a directory that is there, and what
\* it calls replaced is there.
LogTrue(t, f) ==
    \A c \in DOMAIN f :
        /\ f[c].action = "D" => c # Root /\ c \notin DOMAIN t /\ Front(c) \in DOMAIN t
        /\ f[c].action = "R" => c \in DOMAIN t

\* The dumped directory stays where it is.
StaysInPlace(t, b, f, x) ==
    x \in DOMAIN b =>
        x \in DOMAIN t /\ \A c \in DOMAIN f : IsStrictPrefix(c, x) => f[c].action = "M"

Explains(t, b, f, x) ==
    /\ Covers(t, b, f) /\ RemovesOld(t, b, f) /\ AddsNew(b, f) /\ LogTrue(t, f)
    /\ StaysInPlace(t, b, f, x)

LEMMA NothingChanged ==
    ASSUME NEW t, NEW x
    PROVE  Explains(t, t, <<>>, x)
BY DEF Explains, Covers, Differs, RemovesOld, AddsNew, LogTrue, StaysInPlace

LEMMA AddExplained ==
    ASSUME NEW t, NEW b, NEW f, NEW x \in Seq(Nat), Explains(t, b, f, x),
           DOMAIN t \subseteq Seq(Nat), IsTree(DOMAIN t), DOMAIN f \subseteq Seq(Nat),
           NEW p \in Seq(Nat) \ {Root}, p \notin DOMAIN t,
           NEW new, p \in new, \A q \in new : q \in Seq(Nat) /\ IsPrefix(p, q),
           NEW u, DOMAIN u = DOMAIN t \cup new,
           \A q \in DOMAIN t : q \notin new => u[q] = t[q],
           NEW v, v.action = IF p \in DOMAIN f THEN "R" ELSE "A"
    PROVE  Explains(u, b, Put(f, p, v), x)
<1> DEFINE g == Put(f, p, v)
<1>1. /\ DOMAIN g = DOMAIN f \cup {p} /\ g[p] = v
      /\ \A c \in DOMAIN f : c # p => g[c] = f[c]
  BY DEF Put
<1>2. g[p].action \notin {"M", "D"}
  BY <1>1
<1> HIDE DEF g
<1>3. \A c \in DOMAIN f : /\ f[c].action # "M" => c \in DOMAIN g /\ g[c].action # "M"
                          /\ Removes(f, c) => c \in DOMAIN g /\ Removes(g, c)
  BY <1>1, <1>2 DEF Removes
<1>4. Covers(u, b, g)
  <2> SUFFICES ASSUME NEW q \in Seq(Nat) \ {Root}, Differs(u, b, q)
               PROVE  \E c \in DOMAIN g : IsPrefix(c, q) /\ (c = q \/ g[c].action # "M")
    BY DEF Covers
  <2>1. CASE q \in new
    BY <1>1, <1>2, <2>1
  <2>2. CASE q \notin new
    <3>1. Differs(t, b, q)
      BY <2>2 DEF Differs
    <3>2. PICK c \in DOMAIN f : IsPrefix(c, q) /\ (c = q \/ f[c].action # "M")
      BY <3>1 DEF Explains, Covers
    <3> QED BY <1>1, <1>3, <3>2
  <2> QED BY <2>1, <2>2
<1>5. RemovesOld(u, b, g)
  <2> SUFFICES ASSUME NEW q \in Seq(Nat) \ {Root}, q \in DOMAIN b,
                      ~(q \in DOMAIN u /\ u[q].kind = b[q].kind)
               PROVE  \E c \in DOMAIN g : IsPrefix(c, q) /\ Removes(g, c)
    BY DEF RemovesOld
  <2>1. ~(q \in DOMAIN t /\ t[q].kind = b[q].kind)
    <3>1. q \in DOMAIN t => q \notin new
      BY TreeUp
    <3> QED BY <3>1
  <2>2. PICK c \in DOMAIN f : IsPrefix(c, q) /\ Removes(f, c)
    BY <2>1 DEF Explains, RemovesOld
  <2> QED BY <1>3, <2>2
<1>6. AddsNew(b, g)
  <2> SUFFICES ASSUME NEW r \in DOMAIN g, g[r].action = "A", r \in DOMAIN b
               PROVE  \E c \in DOMAIN g : IsStrictPrefix(c, r) /\ Removes(g, c)
    BY DEF AddsNew
  <2>1. CASE r = p
    <3>1. p \notin DOMAIN f
      BY <1>1, <2>1
    <3>2. PICK c \in DOMAIN f : IsPrefix(c, p) /\ Removes(f, c)
      BY <2>1 DEF Explains, RemovesOld
    <3> QED BY <1>3, <2>1, <3>1, <3>2 DEF IsStrictPrefix
  <2>2. CASE r # p
    <3>1. r \in DOMAIN f /\ f[r].action = "A"
      BY <1>1, <2>2
    <3>2. PICK c \in DOMAIN f : IsStrictPrefix(c, r) /\ Removes(f, c)
      BY <3>1 DEF Explains, AddsNew
    <3> QED BY <1>3, <3>2
  <2> QED BY <2>1, <2>2
<1>7. LogTrue(u, g)
  <2>1. ASSUME NEW c \in DOMAIN g, g[c].action = "D"
        PROVE  c # Root /\ c \notin DOMAIN u /\ Front(c) \in DOMAIN u
    <3>1. c # p /\ c \in DOMAIN f /\ f[c].action = "D" /\ c \in Seq(Nat)
      BY <1>1, <1>2, <2>1
    <3>2. c # Root /\ c \notin DOMAIN t /\ Front(c) \in DOMAIN t
      BY <3>1 DEF Explains, LogTrue
    <3>3. c \notin new
      <4> SUFFICES ASSUME c \in new PROVE FALSE
        OBVIOUS
      <4>1. IsPrefix(p, Front(c))
        BY <3>1, <3>2, FrontFacts
      <4> QED BY <3>2, <4>1, TreeUp
    <3> QED BY <3>2, <3>3
  <2>2. ASSUME NEW c \in DOMAIN g, g[c].action = "R" PROVE c \in DOMAIN u
    BY <1>1, <2>2 DEF Explains, LogTrue
  <2> QED BY <2>1, <2>2 DEF LogTrue
<1>8. StaysInPlace(u, b, g, x)
  <2> SUFFICES ASSUME x \in DOMAIN b
               PROVE  /\ x \in DOMAIN u
                      /\ \A c \in DOMAIN g : IsStrictPrefix(c, x) => g[c].action = "M"
    BY DEF StaysInPlace
  <2>1. x \in DOMAIN t /\ \A c \in DOMAIN f : IsStrictPrefix(c, x) => f[c].action = "M"
    BY DEF Explains, StaysInPlace
  <2>2. ~IsPrefix(p, x)
    BY <2>1, TreeUp
  <2> QED BY <1>1, <2>1, <2>2 DEF IsStrictPrefix
<1> QED BY <1>4, <1>5, <1>6, <1>7, <1>8 DEF Explains, g

LEMMA ModifyExplained ==
    ASSUME NEW t, NEW b, NEW f, NEW x \in Seq(Nat), Explains(t, b, f, x),
           NEW p \in Seq(Nat), NEW u, DOMAIN u = DOMAIN t,
           \A q \in DOMAIN t : (q # p => u[q] = t[q]) /\ u[q].kind = t[q].kind,
           NEW v, v.action = "M",
           NEW g, g = IF p \in DOMAIN f THEN f ELSE Put(f, p, v)
    PROVE  Explains(u, b, g, x)
<1>1. /\ DOMAIN g = DOMAIN f \cup {p}
      /\ \A c \in DOMAIN f : g[c] = f[c]
      /\ p \notin DOMAIN f => g[p].action = "M"
  BY DEF Put
<1>2. Covers(u, b, g)
  <2> SUFFICES ASSUME NEW q \in Seq(Nat) \ {Root}, Differs(u, b, q)
               PROVE  \E c \in DOMAIN g : IsPrefix(c, q) /\ (c = q \/ g[c].action # "M")
    BY DEF Covers
  <2>1. CASE q = p
    BY <1>1, <2>1, PrefixSelf
  <2>2. CASE q # p
    <3>1. Differs(t, b, q)
      BY <2>2 DEF Differs
    <3> QED BY <1>1, <3>1 DEF Explains, Covers
  <2> QED BY <2>1, <2>2
<1>3. RemovesOld(u, b, g)
  BY <1>1 DEF Explains, RemovesOld, Removes
<1>4. AddsNew(b, g)
  BY <1>1 DEF Explains, AddsNew, Removes
<1>5. LogTrue(u, g)
  BY <1>1 DEF Explains, LogTrue
<1>6. StaysInPlace(u, b, g, x)
  BY <1>1 DEF Explains, StaysInPlace
<1> QED BY <1>2, <1>3, <1>4, <1>5, <1>6 DEF Explains

LEMMA DeleteExplained ==
    ASSUME NEW t, NEW b, NEW f, NEW x \in Seq(Nat), Explains(t, b, f, x),
           DOMAIN t \subseteq Seq(Nat), IsTree(DOMAIN t),
           DOMAIN b \subseteq Seq(Nat), IsTree(DOMAIN b),
           DOMAIN f \subseteq Seq(Nat), NEW p \in DOMAIN t \ {Root},
           NEW u, \A q \in Seq(Nat) : q \in DOMAIN u <=> q \in DOMAIN t /\ ~IsPrefix(p, q),
           \A q \in DOMAIN u : u[q] = t[q], x \in DOMAIN b => x \in DOMAIN u,
           NEW g, DOMAIN g \subseteq Seq(Nat),
           \A c \in Seq(Nat) : c \in DOMAIN f /\ ~IsPrefix(p, c) =>
                                 c \in DOMAIN g /\ g[c] = f[c],
           \A c \in DOMAIN g : (c \in DOMAIN f /\ ~IsPrefix(p, c)) \/ c = p,
           p \in DOMAIN g => g[p].action = "D",
           p \notin DOMAIN g => p \in DOMAIN f /\ f[p].action = "A"
    PROVE  Explains(u, b, g, x)
<1>1. p \in Seq(Nat) /\ p # Root
  OBVIOUS
<1>2. IsPrefix(p, p)
  BY PrefixSelf
<1>3. \A c \in Seq(Nat) : IsStrictPrefix(c, p) => ~IsPrefix(p, c) /\ IsPrefix(c, p)
  <2> SUFFICES ASSUME NEW c \in Seq(Nat), IsPrefix(c, p), c # p PROVE ~IsPrefix(p, c)
    BY DEF IsStrictPrefix
  <2>1. ~(Len(p) <= Len(c))
    BY <1>1, PrefixEqual
  <2> QED BY <1>1, <2>1, PrefixAt
<1>4. ASSUME NEW q \in Seq(Nat), IsPrefix(p, q), q \in DOMAIN b
      PROVE  \E c \in DOMAIN g : IsPrefix(c, q) /\ Removes(g, c)
  <2>1. p \in DOMAIN b
    BY <1>1, <1>4, TreeUp
  <2>2. CASE p \in DOMAIN g
    BY <1>4, <2>2 DEF Removes
  <2>3. CASE p \notin DOMAIN g
    <3>1. PICK c \in DOMAIN f : IsStrictPrefix(c, p) /\ Removes(f, c)
      BY <2>1, <2>3 DEF Explains, AddsNew
    <3>2. c \in Seq(Nat) /\ ~IsPrefix(p, c) /\ IsPrefix(c, p)
      BY <1>3, <3>1
    <3>3. IsPrefix(c, q)
      BY <1>1, <1>4, <3>2, PrefixTrans
    <3> QED BY <3>1, <3>2, <3>3 DEF Removes
  <2> QED BY <2>2, <2>3
<1>5. Covers(u, b, g)
  <2> SUFFICES ASSUME NEW q \in Seq(Nat) \ {Root}, Differs(u, b, q)
               PROVE  \E c \in DOMAIN g : IsPrefix(c, q) /\ (c = q \/ g[c].action # "M")
    BY DEF Covers
  <2>1. CASE ~IsPrefix(p, q)
    <3>1. Differs(t, b, q)
      BY <2>1 DEF Differs
    <3>2. PICK c \in DOMAIN f : IsPrefix(c, q) /\ (c = q \/ f[c].action # "M")
      BY <3>1 DEF Explains, Covers
    <3>3. ~IsPrefix(p, c)
      BY <1>1, <2>1, <3>2, PrefixTrans
    <3> QED BY <3>2, <3>3
  <2>2. CASE IsPrefix(p, q)
    <3>1. q \in DOMAIN b
      BY <2>2 DEF Differs
    <3> QED BY <1>4, <2>2, <3>1 DEF Removes
  <2> QED BY <2>1, <2>2
<1>6. RemovesOld(u, b, g)
  <2> SUFFICES ASSUME NEW q \in Seq(Nat) \ {Root}, q \in DOMAIN b,
                      ~(q \in DOMAIN u /\ u[q].kind = b[q].kind)
               PROVE  \E c \in DOMAIN g : IsPrefix(c, q) /\ Removes(g, c)
    BY DEF RemovesOld
  <2>1. CASE ~IsPrefix(p, q)
    <3>1. PICK c \in DOMAIN f : IsPrefix(c, q) /\ Removes(f, c)
      BY <2>1 DEF Explains, RemovesOld
    <3>2. ~IsPrefix(p, c)
      BY <1>1, <2>1, <3>1, PrefixTrans
    <3> QED BY <3>1, <3>2 DEF Removes
  <2> QED BY <1>4, <2>1
<1>7. AddsNew(b, g)
  <2> SUFFICES ASSUME NEW r \in DOMAIN g, g[r].action = "A", r \in DOMAIN b
               PROVE  \E c \in DOMAIN g : IsStrictPrefix(c, r) /\ Removes(g, c)
    BY DEF AddsNew
  <2>1. r \in DOMAIN f /\ ~IsPrefix(p, r) /\ r \in Seq(Nat) /\ f[r].action = "A"
    <3>1. r # p
      OBVIOUS
    <3> QED BY <3>1
  <2>2. PICK c \in DOMAIN f : IsStrictPrefix(c, r) /\ Removes(f, c)
    BY <2>1 DEF Explains, AddsNew
  <2>3. c \in Seq(Nat) /\ ~IsPrefix(p, c)
    BY <1>1, <2>1, <2>2, PrefixTrans DEF IsStrictPrefix
  <2> QED BY <2>2, <2>3 DEF Removes
<1>8. LogTrue(u, g)
  <2>1. ASSUME NEW c \in Seq(Nat) \ {Root}, Front(c) \in DOMAIN t, c = p \/ ~IsPrefix(p, c)
        PROVE  Front(c) \in DOMAIN u
    <3>1. Front(c) \in Seq(Nat) /\ IsPrefix(Front(c), c) /\ Len(Front(c)) = Len(c) - 1
      BY <2>1, FrontFacts
    <3>2. ~IsPrefix(p, Front(c))
      <4>1. CASE c = p
        <5>1. Len(p) \in Nat
          BY <1>1
        <5>2. ~(Len(p) <= Len(p) - 1)
          BY <5>1
        <5> QED BY <1>1, <3>1, <4>1, <5>2, PrefixAt
      <4>2. CASE ~IsPrefix(p, c)
        BY <1>1, <2>1, <3>1, <4>2, PrefixTrans
      <4> QED BY <2>1, <4>1, <4>2
    <3> QED BY <2>1, <3>1, <3>2
  <2>2. ASSUME NEW c \in DOMAIN g, g[c].action = "D"
        PROVE  c # Root /\ c \notin DOMAIN u /\ Front(c) \in DOMAIN u
    <3>1. CASE c = p
      <4>1. Front(p) \in DOMAIN t
        BY <1>1, FrontFacts, TreeUp
      <4> QED BY <1>1, <1>2, <2>1, <3>1, <4>1
    <3>2. CASE c # p
      <4>1. c \in DOMAIN f /\ ~IsPrefix(p, c) /\ c \in Seq(Nat) /\ f[c].action = "D"
        BY <2>2, <3>2
      <4>2. c # Root /\ c \notin DOMAIN t /\ Front(c) \in DOMAIN t
        BY <4>1 DEF Explains, LogTrue
      <4> QED BY <2>1, <4>1, <4>2
    <3> QED BY <3>1, <3>2
  <2>3. ASSUME NEW c \in DOMAIN g, g[c].action = "R" PROVE c \in DOMAIN u
    <3>1. c \in DOMAIN f /\ ~IsPrefix(p, c) /\ c \in Seq(Nat) /\ f[c].action = "R"
      <4>1. c # p
        BY <2>3
      <4> QED BY <2>3, <4>1
    <3> QED BY <3>1 DEF Explains, LogTrue
  <2> QED BY <2>2, <2>3 DEF LogTrue
<1>9. StaysInPlace(u, b, g, x)
  <2> SUFFICES ASSUME x \in DOMAIN b
               PROVE  \A c \in DOMAIN g : IsStrictPrefix(c, x) => g[c].action = "M"
    BY DEF StaysInPlace
  <2>1. ~IsPrefix(p, x)
    OBVIOUS
  <2>2. \A c \in DOMAIN f : IsStrictPrefix(c, x) => f[c].action = "M"
    BY DEF Explains, StaysInPlace
  <2> QED BY <2>1, <2>2 DEF IsStrictPrefix
<1> QED BY <1>5, <1>6, <1>7, <1>8, <1>9 DEF Explains

\* A revision that changed nothing within the dumped directory has the same
\* nodes there.
LEMMA Untouched ==
    ASSUME NEW t, NEW b, NEW f, NEW x \in Seq(Nat) \ {Root}, Explains(t, b, f, x),
           x \in DOMAIN b,
           DOMAIN f \subseteq Seq(Nat), \A c \in DOMAIN f : ~IsPrefix(x, c)
    PROVE  \A q \in Seq(Nat) : IsPrefix(x, q) => ~Differs(t, b, q)
<1> SUFFICES ASSUME NEW q \in Seq(Nat), IsPrefix(x, q), Differs(t, b, q)
             PROVE  FALSE
  OBVIOUS
<1>1. q # Root
  <2>1. Len(x) \in Nat /\ Len(x) # 0 /\ Len(x) <= Len(q)
    BY PrefixAt DEF Root
  <2>2. Len(Root) = 0
    BY DEF Root
  <2> QED BY <2>1, <2>2
<1>2. PICK c \in DOMAIN f : IsPrefix(c, q) /\ (c = q \/ f[c].action # "M")
  BY <1>1 DEF Explains, Covers
<1>3. c \in Seq(Nat) /\ ~IsPrefix(x, c) /\ f[c].action # "M"
  BY <1>2
<1>4. IsPrefix(c, x)
  BY <1>2, <1>3, PrefixLinear
<1>5. IsStrictPrefix(c, x)
  BY <1>3, <1>4 DEF IsStrictPrefix
<1> QED BY <1>3, <1>5 DEF Explains, StaysInPlace

Sound(t) == IsTree(DOMAIN t) /\ \A p \in DOMAIN t : t[p] \in Node

Trees ==
    /\ Sound(txn) /\ \A i \in DOMAIN repo : Sound(repo[i])
    /\ DOMAIN repo[1] = {Root}
    /\ \A t \in {txn, Base} : req.prefix \in DOMAIN t => t[req.prefix].kind = "dir"

Explained ==
    IF phase = "commit"
    THEN Explains(txn, Base, changes, req.prefix)
    ELSE /\ txn = Base
         /\ \A c \in DOMAIN changes : changes[c].action = "D" => c \notin DOMAIN txn

LEMMA BaseFacts ==
    ASSUME Committed, Trees
    PROVE  /\ Len(repo) \in Nat \ {0} /\ Youngest \in Nat /\ Base = repo[Len(repo)]
           /\ DOMAIN Base \subseteq Seq(Nat) /\ IsTree(DOMAIN Base) /\ Sound(Base)
           /\ DOMAIN txn \subseteq Seq(Nat) /\ IsTree(DOMAIN txn) /\ Sound(txn)
           /\ DOMAIN changes \subseteq Seq(Nat)
           /\ req.prefix \in Seq(Nat)
<1>1. Len(repo) \in DOMAIN repo /\ Len(repo) \in Nat /\ DOMAIN repo = 1 .. Len(repo)
  BY ListFacts DEF Committed
<1>2. Len(repo) # 0
  BY <1>1
<1>3. Base = repo[Len(repo)] /\ Youngest \in Nat
  BY <1>1, <1>2 DEF Base, Tree, Youngest
<1>4. DOMAIN Base \subseteq Seq(Nat) /\ Sound(Base)
  BY <1>1, <1>3, KnownPaths DEF Committed, Trees
<1>5. req.prefix \in Seq(Nat)
  BY RequestsAssumption DEF Committed
<1>6. DOMAIN txn \subseteq Seq(Nat) /\ DOMAIN changes \subseteq Seq(Nat)
  BY KnownPaths DEF Committed, ActionsKnown
<1> QED BY <1>1, <1>2, <1>3, <1>4, <1>5, <1>6 DEF Trees, Sound

LEMMA NodeFacts ==
    /\ NoProps \in [Prop -> PropValue] /\ Dir(NoProps) \in Node
    /\ \A t \in Text : File(NoProps, t) \in Node
    /\ \A n \in Node, t \in Text : n.kind = "file" => [n EXCEPT !.text = t] \in Node
    /\ \A n \in Node, name \in Prop : [n EXCEPT !.props[name] = 1 - @] \in Node
<1>1. NoProps \in [Prop -> PropValue]
  BY DEF NoProps, PropValue
<1>2. Dir(NoProps) \in Node
  BY <1>1 DEF Dir, Node
<1>3. \A t \in Text : t # NoText
  BY TextAssumption
<1>4. \A t \in Text : File(NoProps, t) \in Node
  BY <1>1, <1>3 DEF File, Node
<1>5. \A n \in Node, t \in Text : n.kind = "file" => [n EXCEPT !.text = t] \in Node
  BY <1>3 DEF Node
<1>6. ASSUME NEW n \in Node, NEW name \in Prop
      PROVE  [n EXCEPT !.props[name] = 1 - @] \in Node
  <2>1. n.props \in [Prop -> PropValue] /\ n.props[name] \in 0 .. 1
    BY DEF Node, PropValue
  <2>2. 1 - n.props[name] \in PropValue
    BY <2>1 DEF PropValue
  <2>3. [n.props EXCEPT ![name] = 1 - @] \in [Prop -> PropValue]
    BY <2>1, <2>2
  <2> QED BY <2>3 DEF Node
<1> QED BY <1>1, <1>2, <1>4, <1>5, <1>6

LEMMA UserExplained ==
    ASSUME Committed, Trees, Explains(txn, Base, changes, req.prefix),
           UserOp, req.prefix \in DOMAIN Base => req.prefix \in DOMAIN txn'
    PROVE  Sound(txn') /\ Explains(txn', Base, changes', req.prefix)
<1> DEFINE x == req.prefix
           T == DOMAIN txn
           Goal == Sound(txn') /\ Explains(txn', Base, changes', x)
<1>1. /\ T \subseteq Seq(Nat) /\ IsTree(T) /\ DOMAIN Base \subseteq Seq(Nat)
      /\ IsTree(DOMAIN Base) /\ \A p \in T : txn[p] \in Node
      /\ x \in Seq(Nat) /\ DOMAIN changes \subseteq Seq(Nat)
  BY BaseFacts DEF Sound
<1>2. Explains(txn, Base, changes, x) /\ (x \in DOMAIN Base => x \in DOMAIN txn')
  OBVIOUS
<1>3. ASSUME NEW p \in Path PROVE p \in Seq(Nat) \ {Root}
  BY PathAssumption
<1> HIDE DEF x
<1>4. ASSUME NEW p \in Path, p \notin T, NEW src, NEW rev,
             NEW new, p \in new, \A q \in new : q \in Seq(Nat) /\ IsPrefix(p, q),
             DOMAIN txn' = T \cup new, \A q \in T : q \notin new => txn'[q] = txn[q]
      PROVE  Explains(txn', Base, LogAdd(p, src, rev), x)
  <2> DEFINE v == Change(IF p \in DOMAIN changes THEN "R" ELSE "A", src, rev)
  <2>1. v.action = IF p \in DOMAIN changes THEN "R" ELSE "A"
    BY DEF Change
  <2>2. LogAdd(p, src, rev) = Put(changes, p, v)
    BY DEF LogAdd
  <2> HIDE DEF v
  <2>3. p \in Seq(Nat) \ {Root}
    BY <1>3
  <2>4. Explains(txn', Base, Put(changes, p, v), x)
    BY <1>1, <1>2, <1>4, <2>1, <2>3, AddExplained
  <2> QED BY <2>2, <2>4
<1>5. ASSUME NEW p \in Seq(Nat), DOMAIN txn' = T, txn'[p].kind = txn[p].kind,
             \A q \in T : q # p => txn'[q] = txn[q]
      PROVE  Explains(txn', Base, LogModify(p), x)
  <2> DEFINE v == Change("M", NoPath, 0)
  <2>1. v.action = "M"
    BY DEF Change
  <2>2. LogModify(p) = IF p \in DOMAIN changes THEN changes ELSE Put(changes, p, v)
    BY DEF LogModify
  <2> HIDE DEF v
  <2> QED BY <1>1, <1>2, <1>5, <2>1, <2>2, ModifyExplained
<1>6. ASSUME NEW p \in Path, NEW node \in Node, UserAdd(p, node) PROVE Goal
  <2>1. /\ p \notin T /\ Front(p) \in T /\ DOMAIN txn' = T \cup {p}
        /\ \A q \in T : q # p => txn'[q] = txn[q]
        /\ txn'[p] = node /\ changes' = LogAdd(p, NoPath, 0)
    BY <1>6 DEF UserAdd, MayCreate, IsDir, Put
  <2>2. \A q \in {p} : q \in Seq(Nat) /\ IsPrefix(p, q)
    BY <1>3, PrefixSelf
  <2>3. Explains(txn', Base, LogAdd(p, NoPath, 0), x)
    BY <1>4, <2>1, <2>2
  <2>4. IsTree(T \cup {p})
    BY <1>1, <1>3, <2>1, TreePut
  <2>5. Sound(txn')
    BY <1>1, <2>1, <2>4 DEF Sound
  <2> QED BY <2>1, <2>3, <2>5
<1>7. ASSUME NEW p \in Path, NEW src \in Path, NEW rev \in 1 .. Youngest,
             UserCopy(src, rev, p)
      PROVE  Goal
  <2> DEFINE s == Tree(rev)
             U == DOMAIN s
             new == CopiedPaths(U, src, p)
  <2>1. /\ src \in U /\ p \notin T /\ Front(p) \in T /\ changes' = LogAdd(p, src, rev)
    BY <1>7 DEF UserCopy, MayCreate, IsDir
  <2>2. U \subseteq Seq(Nat) /\ IsTree(U) /\ \A q \in U : s[q] \in Node
    <3>1. Len(repo) \in Nat /\ DOMAIN repo = 1 .. Len(repo)
      BY ListFacts DEF Committed
    <3>2. rev + 1 \in DOMAIN repo
      BY <3>1 DEF Youngest
    <3> QED BY <3>2, KnownPaths DEF Committed, Trees, Sound, Tree
  <2>3. Within(txn, p) = {}
    <3>1. ASSUME NEW q \in Within(txn, p) PROVE FALSE
      <4>1. q \in T /\ IsPrefix(p, q)
        BY DEF Within, pr_tree_to_array
      <4> QED BY <1>1, <1>3, <2>1, <4>1, TreeUp
    <3> QED BY <3>1
  <2>4. /\ DOMAIN txn' = T \cup new
        /\ \A q \in T : q \notin new => txn'[q] = txn[q]
        /\ \A q \in new : txn'[q] = s[Renamed(q, p, src)]
    BY <1>7, <2>3 DEF UserCopy, Graft, Cut
  <2> HIDE DEF s
  <2>5. /\ IsTree(T \cup new) /\ p \in new
        /\ \A q \in new : q \in Seq(Nat) /\ IsPrefix(p, q)
    BY <1>1, <1>3, <2>1, <2>2, TreeCopy
  <2>6. \A q \in new : Renamed(q, p, src) \in U
    <3> SUFFICES ASSUME NEW r \in pr_tree_to_array(U, src)
                 PROVE  Renamed(Renamed(r, src, p), p, src) = r /\ r \in U
      BY DEF CopiedPaths
    <3>1. r \in U /\ r \in Seq(Nat) /\ IsPrefix(src, r) /\ p \in Seq(Nat) /\ src \in Seq(Nat)
      BY <1>3, <2>2 DEF pr_tree_to_array
    <3> QED BY <3>1, RenamedBack
  <2> HIDE DEF new
  <2>7. Explains(txn', Base, LogAdd(p, src, rev), x)
    BY <1>4, <2>1, <2>4, <2>5
  <2>8. Sound(txn')
    <3>1. \A q \in DOMAIN txn' : txn'[q] \in Node
      BY <1>1, <2>2, <2>4, <2>6
    <3> QED BY <2>4, <2>5, <3>1 DEF Sound
  <2> QED BY <2>1, <2>7, <2>8
<1>8. ASSUME NEW p \in Path, UserDelete(p) PROVE Goal
  <2> DEFINE g == LogDelete(p)
  <2>1. /\ p \in T \ {Root} /\ changes' = g
        /\ DOMAIN txn' = T \ pr_tree_to_array(T, p) /\ \A q \in DOMAIN txn' : txn'[q] = txn[q]
    BY <1>8 DEF UserDelete, Cut, Within
  <2>2. Sound(txn')
    BY <1>1, <1>3, <2>1, TreeCut DEF Sound
  <2>3. \A q \in Seq(Nat) : q \in DOMAIN txn' <=> q \in T /\ ~IsPrefix(p, q)
    BY <2>1 DEF pr_tree_to_array
  <2> DEFINE rest == [q \in DOMAIN changes \ Within(changes, p) |-> changes[q]]
  <2>4. /\ \A q : q \in DOMAIN rest <=> q \in DOMAIN changes /\ ~IsPrefix(p, q)
        /\ \A q \in DOMAIN rest : rest[q] = changes[q]
    BY DEF Within, pr_tree_to_array
  <2>5. \/ g = rest /\ p \in DOMAIN changes /\ changes[p].action = "A"
        \/ g = Put(rest, p, Change("D", NoPath, 0))
    BY DEF LogDelete
  <2> HIDE DEF g, rest
  <2>6. p \in Seq(Nat) /\ IsPrefix(p, p)
    BY <1>3, PrefixSelf
  <2>7. /\ \A c \in Seq(Nat) : c \in DOMAIN changes /\ ~IsPrefix(p, c) =>
                                 c \in DOMAIN g /\ g[c] = changes[c]
        /\ \A c \in DOMAIN g : (c \in DOMAIN changes /\ ~IsPrefix(p, c)) \/ c = p
        /\ p \in DOMAIN g => g[p].action = "D"
        /\ p \notin DOMAIN g => p \in DOMAIN changes /\ changes[p].action = "A"
        /\ DOMAIN g \subseteq Seq(Nat)
    <3>1. CASE g = rest /\ p \in DOMAIN changes /\ changes[p].action = "A"
      BY <1>1, <2>4, <2>6, <3>1
    <3>2. CASE g = Put(rest, p, Change("D", NoPath, 0))
      <4>1. /\ DOMAIN g = DOMAIN rest \cup {p} /\ g[p].action = "D"
            /\ \A c \in DOMAIN rest : c # p => g[c] = rest[c]
        BY <3>2 DEF Put, Change
      <4> QED BY <1>1, <2>4, <2>6, <4>1
    <3> QED BY <2>5, <3>1, <3>2
  <2>8. Explains(txn', Base, g, x)
    BY <1>1, <1>2, <2>1, <2>3, <2>7, DeleteExplained
  <2> QED BY <2>1, <2>2, <2>8
<1>9. ASSUME NEW p \in Path, NEW t \in Text, UserSetText(p, t) PROVE Goal
  <2>1. /\ p \in T /\ txn[p].kind = "file" /\ changes' = LogModify(p)
        /\ txn' = [txn EXCEPT ![p] = [@ EXCEPT !.text = t]]
    BY <1>9 DEF UserSetText
  <2>2. /\ DOMAIN txn' = T /\ txn'[p] = [txn[p] EXCEPT !.text = t]
        /\ \A q \in T : q # p => txn'[q] = txn[q]
    BY <2>1
  <2>3. txn'[p] \in Node
    BY <1>1, <2>1, <2>2, NodeFacts
  <2>5. txn'[p].kind = txn[p].kind
    BY <1>1, <2>1, <2>2 DEF Node
  <2>4. Sound(txn')
    BY <1>1, <2>2, <2>3 DEF Sound
  <2> QED BY <1>3, <1>5, <2>1, <2>2, <2>4, <2>5
<1>10. ASSUME NEW p \in Path \cup {Root}, NEW name \in Prop, UserSetProp(p, name)
       PROVE  Goal
  <2>1. /\ p \in T /\ changes' = LogModify(p)
        /\ txn' = [txn EXCEPT ![p].props[name] = 1 - @]
    BY <1>10, Zenon DEF UserSetProp
  <2>2. /\ DOMAIN txn' = T /\ txn'[p] = [txn[p] EXCEPT !.props[name] = 1 - @]
        /\ \A q \in T : q # p => txn'[q] = txn[q]
    BY <2>1
  <2>3. txn'[p] \in Node
    BY <1>1, <2>1, <2>2, NodeFacts
  <2>5. txn'[p].kind = txn[p].kind
    BY <1>1, <2>1, <2>2 DEF Node
  <2>4. Sound(txn')
    BY <1>1, <2>2, <2>3 DEF Sound
  <2> QED BY <1>1, <1>5, <2>1, <2>2, <2>4, <2>5
<1>11. Goal
  <2>1. /\ Dir(NoProps) \in Node /\ NewText \subseteq Text
        /\ \A t \in Text : File(NoProps, t) \in Node
    BY NodeFacts, BoundsAssumption
  <2> QED BY <1>6, <1>7, <1>8, <1>9, <1>10, <2>1 DEF UserOp
<1> QED BY <1>11 DEF x

LEMMA ImportExplained ==
    ASSUME Committed, Trees, Youngest = 0, NEW tree \in Imports, Import(tree)
    PROVE  Sound(txn') /\ Explains(txn', Base, changes', req.prefix)
<1>1. DOMAIN Base = {Root}
  <2>1. Base = repo[1]
    BY DEF Base, Tree
  <2> QED BY <2>1 DEF Trees
<1>2. /\ txn' = tree /\ Root \in DOMAIN tree /\ Sound(tree)
      /\ DOMAIN changes' = DOMAIN tree \ {Root}
      /\ \A p \in DOMAIN changes' : changes'[p].action = "A"
  BY PathAssumption DEF Import, Change, Sound
<1>3. Covers(txn', Base, changes')
  <2> SUFFICES ASSUME NEW q \in Seq(Nat) \ {Root}, Differs(txn', Base, q)
               PROVE  q \in DOMAIN changes' /\ IsPrefix(q, q)
    BY DEF Covers
  <2> QED BY <1>1, <1>2, PrefixSelf DEF Differs
<1>4. /\ AddsNew(Base, changes') /\ LogTrue(txn', changes')
      /\ RemovesOld(txn', Base, changes')
  BY <1>1, <1>2 DEF AddsNew, LogTrue, RemovesOld
<1>5. StaysInPlace(txn', Base, changes', req.prefix)
  <2> SUFFICES ASSUME req.prefix = Root, NEW c \in DOMAIN changes', IsStrictPrefix(c, Root)
               PROVE  FALSE
    BY <1>1, <1>2 DEF StaysInPlace
  <2>1. c \in Seq(Nat) /\ Root \in Seq(Nat) /\ Len(Root) = 0 /\ Len(c) \in Nat
    <3>1. DOMAIN tree \subseteq Known
      BY PathAssumption DEF Known
    <3>2. c \in Seq(Nat) /\ Root \in Seq(Nat)
      BY <1>2, <3>1, KnownPaths
    <3> QED BY <3>2 DEF Root
  <2>2. IsPrefix(c, Root) /\ c # Root
    BY DEF IsStrictPrefix
  <2>3. Len(Root) <= Len(c)
    BY <2>1
  <2> QED BY <2>1, <2>2, <2>3, PrefixEqual
<1> QED BY <1>2, <1>3, <1>4, <1>5 DEF Explains

-----------------------------------------------------------------------------
(***************************************************************************)
(* The path repository follows the server                                  *)
(***************************************************************************)

\* The paths of the youngest revision in the session, and those that the server
\* has described so far.
Current == DOMAIN SessionTree(Youngest) \ {Root}
Described == DOMAIN srv \ {Root}

\* The server has described everything but, perhaps, the root's properties.
Agree == Described = Current /\ \A q \in Current : srv[q] = Target[q]

\* The server works inside of what it has described, and comes back to the root
\* when everything is.
Walk ==
    /\ IsTree(DOMAIN srv) /\ Root \in DOMAIN srv
    /\ phase # "drive" => nodes = <<>> /\ open = <<>>
    /\ \A i \in DOMAIN nodes : nodes[i].path = Root => nodes[i].kind # "file"
    /\ \A i \in DOMAIN open : nodes[open[i]].path \in DOMAIN srv
    /\ (phase = "load" \/ nodes # <<>>) /\ open = <<>> => Agree

\* The directory exists and the range of the dump, or the revision that an
\* incremental dump runs dry, is reached.
Begun == Youngest + 1 >= req.start /\ req.prefix \in DOMAIN Base

Started ==
    /\ phase # "commit" => Begun
    /\ phase = "commit" /\ driven => Begun /\ Agree

FollowInv == Trees /\ Explained /\ Walk /\ Started

\* During an edit, the repository's new tree is what the server has described,
\* unless it is a dry run, whose tree has been prepared from the log.
Tracked ==
    /\ IsList(hist) /\ hist # <<>>
    /\ phase # "commit" => IF dry THEN Last(hist) = Current ELSE work = Described
    /\ phase = "commit" /\ driven => work = Current /\ Last(hist) = Current
    /\ phase = "commit" /\ ~driven =>
         IF req.incremental
         THEN work = Current /\ Last(hist) = Current /\ (Begun => Current = {})
         ELSE work = {}

LEMMA TopFacts ==
    ASSUME NEW p \in Seq(Nat), p # Root
    PROVE  \E q \in Seq(Nat) : q # Root /\ Front(q) = Root /\ IsPrefix(q, p)
<1> DEFINE q == SubSeq(p, 1, 1)
<1>1. Len(p) \in Nat /\ Len(p) # 0
  BY DEF Root
<1>2. 1 <= Len(p)
  BY <1>1
<1>3. q \in Seq(Nat) /\ Len(q) = 1 /\ q[1] = p[1]
  BY <1>1, <1>2
<1> HIDE DEF q
<1>4. q # Root
  <2>1. Len(Root) = 0
    BY DEF Root
  <2>2. Len(q) = 1
    BY <1>3
  <2>3. ASSUME q = Root PROVE FALSE
    <3>1. Len(q) = Len(Root)
      BY <2>3
    <3> QED BY <2>1, <2>2, <3>1
  <2> QED BY <2>3
<1>5. Front(q) = Root
  <2>1. Front(q) \in Seq(Nat) /\ Len(Front(q)) = 0
    BY <1>3, <1>4, FrontFacts
  <2> QED BY <2>1 DEF Root
<1>6. IsPrefix(q, p)
  BY <1>2, <1>3, PrefixAt
<1> QED BY <1>3, <1>4, <1>5, <1>6

LEMMA TargetIsTree ==
    ASSUME Committed, Trees
    PROVE  IsTree(DOMAIN Target) /\ DOMAIN Target \subseteq Seq(Nat)
           /\ Current = DOMAIN Target \ {Root} /\ Target = InSession(Base)
<1>1. Target = InSession(Base) /\ Current = DOMAIN Target \ {Root}
  BY DEF Target, SessionTree, Base, Current
<1> QED BY <1>1, BaseFacts, SessionIsTree, TargetPaths DEF Committed

\* When the root is closed, nothing that differs is left.
LEMMA RootClosed ==
    ASSUME Committed, Trees, Placed, Walk, Cur.path = Root, Entries = {}
    PROVE  Agree
<1> DEFINE S == DOMAIN srv
           T == DOMAIN Target
<1>1. IsTree(S) /\ S \subseteq Seq(Nat) /\ IsTree(T) /\ T \subseteq Seq(Nat)
  BY TargetIsTree DEF Walk, Placed
<1>2. \A q \in S \cup T : q # Root /\ Front(q) = Root => Same(q)
  BY DEF Entries
<1>3. \A q, p : Same(q) /\ IsPrefix(q, p) =>
                   (p \in S <=> p \in T) /\ (p \in S => srv[p] = Target[p])
  BY DEF Same, Within, pr_tree_to_array
<1>4. Described = S \ {Root} /\ Current = T \ {Root}
  BY TargetIsTree DEF Described
<1> HIDE DEF S, T
<1>5. ASSUME NEW p \in S \cup T, p # Root
      PROVE  (p \in S <=> p \in T) /\ (p \in S => srv[p] = Target[p])
  <2>1. PICK q \in Seq(Nat) : q # Root /\ Front(q) = Root /\ IsPrefix(q, p)
    BY <1>1, <1>5, TopFacts
  <2>2. q \in S \cup T
    BY <1>1, <2>1, TreeUp
  <2> QED BY <1>2, <1>3, <2>1, <2>2
<1> QED BY <1>4, <1>5 DEF Agree

\* A call of one of the editor's functions.
LEMMA CalledFollows ==
    ASSUME Inv, FollowInv, Called, phase = "drive", Walk',
           Tracked /\ ~dry => work' = Described'
    PROVE  FollowInv' /\ (Tracked => Tracked')
<1>1. UNCHANGED <<repo, txn, changes, req, phase, dry, driven, hist>>
  BY DEF Called, svnvars, result
<1>2. Trees' /\ Explained'
  BY <1>1 DEF FollowInv, Trees, Explained, Base, Tree, Youngest
<1>3. Current' = Current /\ Begun' = Begun
  BY <1>1 DEF Current, Begun, Base, SessionTree, InSession, Tree, Youngest, Within,
              Stripped
<1>4. Started' /\ (Tracked => Tracked')
  BY <1>1, <1>3 DEF FollowInv, Started, Tracked
<1> QED BY <1>2, <1>4 DEF FollowInv

\* A new node, which is opened or not.
LEMMA WalkAppend ==
    ASSUME Inv, Walk, phase = "drive", phase' = phase, open # <<>>,
           NEW n, nodes' = Append(nodes, n), n.path # Root,
           \/ open' = open
           \/ open' = Append(open, Len(nodes) + 1) /\ n.path \in DOMAIN srv',
           IsTree(DOMAIN srv'), Root \in DOMAIN srv',
           \A i \in DOMAIN open : nodes[open[i]].path \in DOMAIN srv'
    PROVE  Walk'
<1> DEFINE k == Len(nodes) + 1
<1>1. /\ Len(nodes) \in Nat /\ DOMAIN nodes = 1 .. Len(nodes)
      /\ DOMAIN nodes' = 1 .. k /\ nodes'[k] = n
      /\ \A i \in 1 .. Len(nodes) : nodes'[i] = nodes[i]
  BY ListFacts DEF Inv, NodesOK
<1>2. ASSUME NEW i \in DOMAIN nodes', nodes'[i].path = Root
      PROVE  nodes'[i].kind # "file"
  <2>1. i \in 1 .. Len(nodes)
    BY <1>1, <1>2
  <2> QED BY <1>1, <1>2, <2>1 DEF Walk
<1>3. open \in Seq(Nat) /\ \A i \in DOMAIN open : open[i] \in 1 .. Len(nodes)
  BY <1>1 DEF Inv, OpenOK
<1>4. open' # <<>> /\ \A i \in DOMAIN open' : nodes'[open'[i]].path \in DOMAIN srv'
  <2>1. CASE open' = open
    BY <1>1, <1>3, <2>1
  <2>2. CASE open' = Append(open, k) /\ n.path \in DOMAIN srv'
    <3>1. /\ DOMAIN open' = 1 .. Len(open) + 1 /\ DOMAIN open = 1 .. Len(open)
          /\ Len(open) \in Nat /\ open'[Len(open) + 1] = k
          /\ \A i \in 1 .. Len(open) : open'[i] = open[i]
      BY <1>1, <1>3, <2>2
    <3>2. ASSUME NEW i \in DOMAIN open' PROVE nodes'[open'[i]].path \in DOMAIN srv'
      <4>1. i \in 1 .. Len(open) \/ i = Len(open) + 1
        BY <3>1
      <4> QED BY <1>1, <1>3, <2>2, <3>1, <4>1
    <3>3. open' # <<>>
      BY <3>1
    <3> QED BY <3>2, <3>3
  <2> QED BY <2>1, <2>2
<1> QED BY <1>2, <1>4 DEF Walk

\* A change of the current node.
LEMMA WalkChanged ==
    ASSUME Inv, Walk, phase = "drive", phase' = phase, open # <<>>, open' = open,
           NEW n, nodes' = [nodes EXCEPT ![Last(open)] = n],
           n.path = Cur.path, n.kind = Cur.kind, DOMAIN srv' = DOMAIN srv
    PROVE  Walk'
<1>1. Last(open) \in DOMAIN nodes
  BY CurFacts DEF Inv
<1>2. DOMAIN nodes' = DOMAIN nodes
      /\ \A i \in DOMAIN nodes : /\ nodes'[i].path = nodes[i].path
                                 /\ nodes'[i].kind = nodes[i].kind
  BY <1>1 DEF Cur
<1>3. \A i \in DOMAIN open : open[i] \in DOMAIN nodes
  BY DEF Inv, OpenOK
<1> QED BY <1>2, <1>3 DEF Walk

\* Where the current node and the others that are open are.
LEMMA OpenPaths ==
    ASSUME Inv, Walk, open # <<>>, NEW q \in Entries
    PROVE  /\ Cur.path \in DOMAIN srv
           /\ \A i \in DOMAIN open : /\ nodes[open[i]].path \in DOMAIN srv
                                     /\ ~IsPrefix(q, nodes[open[i]].path)
           /\ ~IsPrefix(q, Root)
           /\ q \in Seq(Nat) /\ q # Root /\ Front(q) = Cur.path
<1>1. q \in Seq(Nat) /\ q # Root /\ Front(q) = Cur.path
  BY EntriesPaths DEF Root
<1>2. /\ Len(open) \in DOMAIN open /\ Len(open) \in Nat /\ Len(Cur.path) = Len(open) - 1
      /\ DOMAIN open = 1 .. Len(open)
  BY CurFacts DEF Inv, OpenOK
<1>3. Cur.path \in DOMAIN srv
  BY <1>2 DEF Walk, Cur, Last
<1>4. Len(q) = Len(open) /\ Len(q) # 0
  <2>1. Len(Front(q)) = Len(q) - 1 /\ Len(q) \in Nat
    BY <1>1, FrontFacts
  <2>2. Len(q) # 0
    BY <1>1 DEF Root
  <2>3. Len(q) - 1 = Len(open) - 1 /\ Len(open) \in Nat
    BY <1>1, <1>2, <2>1
  <2> HIDE <1>1, <1>2
  <2> QED BY <2>1, <2>2, <2>3
<1>5. ASSUME NEW i \in DOMAIN open PROVE ~IsPrefix(q, nodes[open[i]].path)
  <2>1. /\ nodes[open[i]].path \in Seq(Nat) /\ Len(nodes[open[i]].path) = i - 1
    BY DEF Inv, OpenOK, NodesOK
  <2>2. ~(Len(q) <= i - 1)
    <3>1. Len(open) \in Nat /\ i \in 1 .. Len(open)
      BY <1>2
    <3>2. ~(Len(open) <= i - 1)
      BY <3>1
    <3> QED BY <1>4, <3>2
  <2> QED BY <1>1, <2>1, <2>2, PrefixAt
<1>6. ~IsPrefix(q, Root)
  <2>1. Root \in Seq(Nat) /\ Len(Root) = 0
    BY KnownPaths DEF Known, Root
  <2>2. ~(Len(q) <= 0)
    <3>1. Len(q) \in Nat
      BY <1>1
    <3> QED BY <1>4, <3>1
  <2> QED BY <1>1, <2>1, <2>2, PrefixAt
<1> QED BY <1>1, <1>3, <1>5, <1>6 DEF Walk

LEMMA OpenRootFollows ==
    ASSUME Inv, FollowInv, de_open_root
    PROVE  FollowInv' /\ (Tracked => Tracked')
<1> DEFINE n == delta_create_node_no_parent(Root, "unset", "M")
<1>1. /\ phase = "drive" /\ nodes' = <<n>> /\ open' = <<1>> /\ srv' = srv /\ work' = work
      /\ Called
  BY DEF de_open_root
<1>2. n.path = Root /\ n.kind # "file"
  BY DEF delta_create_node_no_parent
<1> HIDE DEF n
<1>3. /\ DOMAIN nodes' = {1} /\ nodes'[1] = n /\ DOMAIN open' = {1} /\ open'[1] = 1
      /\ open' # <<>>
  BY <1>1
<1>4. Walk /\ phase' = phase
  BY <1>1 DEF FollowInv, Called
<1>5. Walk'
  BY <1>1, <1>2, <1>3, <1>4 DEF Walk
<1>6. Tracked /\ ~dry => work' = Described'
  BY <1>1 DEF Tracked, Described
<1> QED BY <1>1, <1>5, <1>6, CalledFollows

LEMMA DeleteFollows ==
    ASSUME Inv, FollowInv, NEW q, de_delete_entry(q)
    PROVE  FollowInv' /\ (Tracked => Tracked')
<1> DEFINE n == [delta_create_node(q, "none", "D") EXCEPT !.needed = TRUE]
<1>1. /\ phase = "drive" /\ open # <<>> /\ q \in Entries /\ Called
      /\ nodes' = Append(nodes, n) /\ open' = open /\ srv' = Cut(srv, q)
      /\ work' = DeletedFromRepo(q)
  BY DEF de_delete_entry, Ready
<1>2. n.path = q
  BY DEF delta_create_node, delta_create_node_no_parent
<1> HIDE DEF n
<1>3. Walk /\ phase' = phase
  BY <1>1 DEF FollowInv, Called
<1>4. /\ \A i \in DOMAIN open : /\ nodes[open[i]].path \in DOMAIN srv
                                /\ ~IsPrefix(q, nodes[open[i]].path)
      /\ ~IsPrefix(q, Root) /\ q \in Seq(Nat) /\ q # Root
  BY <1>1, <1>3, OpenPaths
<1>5. /\ DOMAIN srv' = DOMAIN srv \ pr_tree_to_array(DOMAIN srv, q)
      /\ \A p : p \in DOMAIN srv' <=> p \in DOMAIN srv /\ ~IsPrefix(q, p)
  BY <1>1 DEF Cut, Within, pr_tree_to_array
<1>6. IsTree(DOMAIN srv')
  BY <1>3, <1>4, <1>5, TreeCut DEF Walk, Inv, Placed
<1>7. Root \in DOMAIN srv' /\ \A i \in DOMAIN open : nodes[open[i]].path \in DOMAIN srv'
  BY <1>3, <1>4, <1>5 DEF Walk
<1>8. Walk'
  BY <1>1, <1>2, <1>3, <1>4, <1>6, <1>7, WalkAppend
<1>9. ASSUME Tracked, ~dry PROVE work' = Described'
  <2>1. work = Described /\ work' = work \ pr_tree_to_array(work, q)
    BY <1>1, <1>9 DEF Tracked, DeletedFromRepo
  <2>2. \A p : p \in Described' <=> p \in Described /\ ~IsPrefix(q, p)
    BY <1>5 DEF Described
  <2>3. \A p : p \in work' <=> p \in work /\ ~IsPrefix(q, p)
    BY <2>1 DEF pr_tree_to_array
  <2> QED BY <2>1, <2>2, <2>3
<1> QED BY <1>1, <1>8, <1>9, CalledFollows

\* An addition that is not refused; none is if the working tree is what the server
\* has described.
LEMMA NotRefused ==
    ASSUME NEW q, NEW kind, AddNode(q, kind)
    PROVE  /\ phase' # "failed" => Called
           /\ Tracked => phase' # "failed"
<1>1. /\ phase = "drive" /\ q \notin DOMAIN srv
      /\ phase' = IF ~dry /\ q \in work THEN "failed" ELSE phase
      /\ UNCHANGED <<svnvars, req, dry, driven, out, result>>
  BY DEF AddNode, Ready
<1>2. phase' # "failed" => Called
  BY <1>1 DEF Called
<1>3. Tracked /\ ~dry => q \notin work
  BY <1>1 DEF Tracked, Described
<1> QED BY <1>1, <1>2, <1>3

LEMMA AddFollows ==
    ASSUME Inv, FollowInv, NEW q, NEW kind, AddNode(q, kind), phase' # "failed"
    PROVE  FollowInv' /\ (Tracked => Tracked')
<1> DEFINE c == [delta_create_node(q, kind, "A") EXCEPT !.needed = TRUE]
           f == FromLog(c)
           n == IF kind = "file" /\ Failed(f) THEN [f EXCEPT !.action = "A"] ELSE f
<1>1. /\ phase = "drive" /\ open # <<>> /\ q \in Entries /\ Called
      /\ nodes' = Append(nodes, n) /\ open' = Append(open, Len(nodes) + 1)
      /\ srv' = Put(srv, q, New(kind)) /\ work' = IF dry THEN work ELSE work \cup {q}
  BY NotRefused DEF AddNode, Ready, Opened
<1>2. n.path = q
  <2>1. c.path = q /\ "path" \in DOMAIN c
    BY DEF delta_create_node, delta_create_node_no_parent
  <2> HIDE DEF c
  <2>2. f.path = q /\ "path" \in DOMAIN f
    BY <2>1 DEF FromLog
  <2> HIDE DEF f
  <2> QED BY <2>2
<1> HIDE DEF n
<1>3. Walk /\ phase' = phase
  BY <1>1 DEF FollowInv, Called
<1>4. /\ \A i \in DOMAIN open : nodes[open[i]].path \in DOMAIN srv
      /\ Cur.path \in DOMAIN srv /\ q \in Seq(Nat) /\ q # Root /\ Front(q) = Cur.path
  BY <1>1, <1>3, OpenPaths
<1>5. DOMAIN srv' = DOMAIN srv \cup {q}
  BY <1>1 DEF Put
<1>6. IsTree(DOMAIN srv')
  BY <1>3, <1>4, <1>5, TreePut DEF Walk, Inv, Placed
<1>7. /\ Root \in DOMAIN srv' /\ n.path \in DOMAIN srv'
      /\ \A i \in DOMAIN open : nodes[open[i]].path \in DOMAIN srv'
  BY <1>2, <1>3, <1>4, <1>5 DEF Walk
<1>8. Walk'
  BY <1>1, <1>2, <1>3, <1>4, <1>6, <1>7, WalkAppend
<1>9. ASSUME Tracked, ~dry PROVE work' = Described'
  <2>1. work = Described /\ work' = work \cup {q}
    BY <1>1, <1>9 DEF Tracked
  <2>2. Described' = Described \cup {q}
    BY <1>4, <1>5 DEF Described
  <2> QED BY <2>1, <2>2
<1> QED BY <1>1, <1>8, <1>9, CalledFollows

LEMMA OpenFollows ==
    ASSUME Inv, FollowInv, NEW q, NEW kind, OpenNode(q, kind)
    PROVE  FollowInv' /\ (Tracked => Tracked')
<1> DEFINE n == [delta_create_node(q, kind, "M") EXCEPT !.props = property_load(q)]
<1>1. /\ phase = "drive" /\ open # <<>> /\ q \in Entries /\ q \in DOMAIN srv /\ Called
      /\ srv' = srv /\ work' = work
      /\ nodes' = Append(nodes, n) /\ open' = Append(open, Len(nodes) + 1)
  BY DEF OpenNode, Ready, Opened, Kept
<1>2. n.path = q
  BY DEF delta_create_node, delta_create_node_no_parent
<1> HIDE DEF n
<1>3. Walk /\ phase' = phase
  BY <1>1 DEF FollowInv, Called
<1>4. (\A i \in DOMAIN open : nodes[open[i]].path \in DOMAIN srv) /\ q # Root
  BY <1>1, <1>3, OpenPaths
<1>5. IsTree(DOMAIN srv') /\ Root \in DOMAIN srv'
  BY <1>1, <1>3 DEF Walk
<1>6. Walk'
  BY <1>1, <1>2, <1>3, <1>4, <1>5, WalkAppend
<1>7. Tracked /\ ~dry => work' = Described'
  BY <1>1 DEF Tracked, Described
<1> QED BY <1>1, <1>6, <1>7, CalledFollows

LEMMA PropFollows ==
    ASSUME Inv, FollowInv, NEW name, NEW file, ChangeProp(name, file)
    PROVE  FollowInv' /\ (Tracked => Tracked')
<1> DEFINE value == Target[Cur.path].props[name]
           n == WithProp(Cur, name, value)
<1>1. /\ phase = "drive" /\ open # <<>> /\ Called /\ open' = open /\ work' = work
      /\ DOMAIN srv' = DOMAIN srv /\ nodes' = [nodes EXCEPT ![Last(open)] = n]
  <2>1. /\ phase = "drive" /\ open # <<>> /\ Called /\ open' = open
        /\ nodes' = [nodes EXCEPT ![Last(open)] = n]
    BY Zenon DEF ChangeProp, Cur
  <2>2. srv' = [srv EXCEPT ![Cur.path].props[name] = value] /\ work' = work
    BY Zenon DEF ChangeProp
  <2> QED BY <2>1, <2>2
<1>2. Fields \subseteq DOMAIN Cur
  BY <1>1, CurFacts DEF Inv, NodesOK, Cur
<1>3. n.path = Cur.path /\ n.kind = Cur.kind
  BY <1>2 DEF Fields, WithProp
<1> HIDE DEF n
<1>4. Walk /\ phase' = phase
  BY <1>1 DEF FollowInv, Called
<1>5. Walk'
  BY <1>1, <1>3, <1>4, WalkChanged
<1>6. Tracked /\ ~dry => work' = Described'
  BY <1>1 DEF Tracked, Described
<1> QED BY <1>1, <1>5, <1>6, CalledFollows

LEMMA TextFollows ==
    ASSUME Inv, FollowInv, de_apply_textdelta
    PROVE  FollowInv' /\ (Tracked => Tracked')
<1> DEFINE old == IF Cur.path \in DOMAIN delta_hash THEN delta_hash[Cur.path] ELSE NoText
           new == ApplyDelta([base |-> srv[Cur.path].text,
                              target |-> Target[Cur.path].text], old)
           n == [Cur EXCEPT !.file = new, !.old = old, !.md5 = new,
                            !.applied = TRUE, !.needed = TRUE]
<1>1. /\ phase = "drive" /\ open # <<>> /\ Called /\ open' = open /\ work' = work
      /\ DOMAIN srv' = DOMAIN srv /\ nodes' = [nodes EXCEPT ![Last(open)] = n]
  BY DEF de_apply_textdelta, Ready, Cur
<1> HIDE DEF old, new
<1>2. Fields \subseteq DOMAIN Cur
  BY <1>1, CurFacts DEF Inv, NodesOK, Cur
<1>3. n.path = Cur.path /\ n.kind = Cur.kind
  BY <1>2 DEF Fields
<1> HIDE DEF n
<1>4. Walk /\ phase' = phase
  BY <1>1 DEF FollowInv, Called
<1>5. Walk'
  BY <1>1, <1>3, <1>4, WalkChanged
<1>6. Tracked /\ ~dry => work' = Described'
  BY <1>1 DEF Tracked, Described
<1> QED BY <1>1, <1>5, <1>6, CalledFollows

LEMMA CloseFollows ==
    ASSUME Inv, FollowInv, de_close_file \/ de_close_directory
    PROVE  FollowInv' /\ (Tracked => Tracked')
<1>1. /\ phase = "drive" /\ open # <<>> /\ Called /\ nodes' = nodes /\ srv' = srv
      /\ work' = work /\ open' = Front(open)
      /\ Cur.kind = "file" \/ Entries = {}
  BY DEF de_close_file, de_close_directory, Ready, CloseNode
<1>2. Walk /\ phase' = phase /\ Trees /\ Committed /\ Placed
  BY <1>1 DEF FollowInv, Called, Inv
<1>3. Len(open) \in Nat \ {0} /\ open \in Seq(Nat) /\ DOMAIN open = 1 .. Len(open)
  BY <1>1 DEF Inv, OpenOK
<1>4. /\ open' \in Seq(Nat) /\ Len(open') = Len(open) - 1
      /\ DOMAIN open' = 1 .. Len(open) - 1
      /\ \A i \in 1 .. Len(open) - 1 : open'[i] = open[i]
  BY <1>1, <1>3 DEF Front
<1>5. \A i \in DOMAIN open' : nodes'[open'[i]].path \in DOMAIN srv'
  <2>1. \A i \in DOMAIN open' : i \in DOMAIN open /\ open'[i] = open[i]
    BY <1>3, <1>4
  <2> QED BY <1>1, <1>2, <2>1 DEF Walk
<1>6. Agree' = Agree /\ Described' = Described
  BY <1>1 DEF Called, svnvars, Agree, Target, Current, Described, SessionTree, InSession,
              Tree, Youngest, Within, Stripped
<1>7. ASSUME open' = <<>> PROVE Agree
  <2>1. Len(open) = 1
    <3>1. Len(open') = 0
      BY <1>7
    <3>2. Len(open) - 1 = 0 /\ Len(open) \in Nat
      BY <1>3, <1>4, <3>1
    <3> HIDE <1>3, <1>4
    <3> QED BY <3>2
  <2>2. Cur.path = Root /\ Last(open) \in DOMAIN nodes
    <3>1. Cur.path \in Seq(Nat) /\ Len(Cur.path) = 0 /\ Last(open) \in DOMAIN nodes
      BY <1>1, <2>1, CurFacts DEF Inv
    <3> QED BY <3>1 DEF Root
  <2>3. Cur.kind # "file"
    BY <1>2, <2>2 DEF Walk, Cur
  <2> QED BY <1>1, <1>2, <2>2, <2>3, RootClosed
<1>8. Walk'
  BY <1>1, <1>2, <1>5, <1>6, <1>7 DEF Walk
<1>9. Tracked /\ ~dry => work' = Described'
  BY <1>1, <1>6 DEF Tracked
<1> QED BY <1>1, <1>8, <1>9, CalledFollows

LEMMA CloseEditFollows ==
    ASSUME Inv, FollowInv, de_close_edit
    PROVE  FollowInv' /\ (Tracked => Tracked')
<1>1. /\ UNCHANGED <<repo, txn, changes, req, dry, driven, open, srv, work, hist>>
      /\ phase = "drive" /\ nodes # <<>> /\ open = <<>>
      /\ nodes' = <<>> /\ phase' = "load"
  BY DEF de_close_edit, svnvars, result
<1>2. /\ Agree' = Agree /\ Begun' = Begun /\ Base' = Base
      /\ Current' = Current /\ Described' = Described
  BY <1>1 DEF Agree, Target, Current, Described, Begun, Base, SessionTree, InSession,
              Tree, Youngest, Within, Stripped
<1>3. Trees' /\ Explained'
  BY <1>1, <1>2 DEF FollowInv, Trees, Explained
<1>4. DOMAIN nodes' = {} /\ DOMAIN open' = {}
  BY <1>1
<1>5. Walk'
  BY <1>1, <1>2, <1>4 DEF FollowInv, Walk
<1>6. Started' /\ (Tracked => Tracked')
  BY <1>1, <1>2 DEF FollowInv, Started, Tracked
<1> QED BY <1>3, <1>5, <1>6 DEF FollowInv

LEMMA EndFollows ==
    ASSUME Inv, FollowInv, EndRevision
    PROVE  FollowInv' /\ (Tracked => Tracked')
<1>1. /\ UNCHANGED <<repo, txn, req, nodes, open, srv>>
      /\ phase = "load" /\ phase' = "commit" /\ driven' = TRUE /\ changes' = <<>>
      /\ IF dry THEN work' = Last(hist) /\ hist' = hist
         ELSE hist' = Append(hist, work) /\ work' = work
  BY DEF EndRevision
<1>2. /\ Agree' = Agree /\ Begun' = Begun /\ Base' = Base
      /\ Current' = Current /\ Described' = Described
  BY <1>1 DEF Agree, Target, Current, Described, Begun, Base, SessionTree, InSession,
              Tree, Youngest, Within, Stripped
<1>3. Trees'
  BY <1>1, <1>2 DEF FollowInv, Trees
<1>4. Explained'
  <2>1. txn = Base
    BY <1>1 DEF FollowInv, Explained
  <2>2. Explains(txn, txn, <<>>, req.prefix)
    BY NothingChanged
  <2> QED BY <1>1, <1>2, <2>1, <2>2 DEF Explained
<1>5. Agree /\ Begun /\ nodes = <<>> /\ open = <<>>
  BY <1>1 DEF FollowInv, Walk, Started
<1>6. Walk' /\ Started'
  BY <1>1, <1>2, <1>5 DEF FollowInv, Walk, Started
<1>7. ASSUME Tracked PROVE Tracked'
  <2>1. IsList(hist) /\ hist # <<>>
        /\ IF dry THEN Last(hist) = Current ELSE work = Described
    BY <1>1, <1>7 DEF Tracked
  <2>2. IsList(hist') /\ hist' # <<>> /\ Last(hist') = Current /\ work' = Current
    <3>1. CASE dry
      BY <1>1, <2>1, <3>1
    <3>2. CASE ~dry
      <4>1. hist' = Append(hist, Current) /\ work' = Current
        BY <1>1, <1>5, <2>1, <3>2 DEF Agree
      <4> QED BY <2>1, <4>1, ListFacts DEF Last
    <3> QED BY <3>1, <3>2
  <2> QED BY <1>1, <1>2, <2>2 DEF Tracked
<1> QED BY <1>3, <1>4, <1>6, <1>7 DEF FollowInv

LEMMA EditFollows ==
    ASSUME Inv, FollowInv, Edit
    PROVE  FollowInv' /\ (Tracked => Tracked')
<1>1. /\ UNCHANGED <<repo, req, phase, dry, driven, nodes, open, srv, work, hist>>
      /\ phase = "commit"
      /\ req.prefix \in DOMAIN Base \cup DOMAIN txn' => IsDir(txn', req.prefix)
  BY DEF Edit, editor, result
<1>2. /\ Agree' = Agree /\ Begun' = Begun /\ Base' = Base
      /\ Current' = Current /\ Described' = Described
  BY <1>1 DEF Agree, Target, Current, Described, Begun, Base, SessionTree, InSession,
              Tree, Youngest, Within, Stripped
<1>3. Walk' /\ Started' /\ (Tracked => Tracked')
  BY <1>1, <1>2 DEF FollowInv, Walk, Started, Tracked
<1>4. Committed /\ Trees /\ Explains(txn, Base, changes, req.prefix)
  BY <1>1 DEF Inv, FollowInv, Explained
<1>5. Sound(txn') /\ Explains(txn', Base, changes', req.prefix)
  <2>1. CASE Youngest = 0
    <3>1. PICK tree \in Imports : Import(tree)
      BY <2>1 DEF Edit
    <3> QED BY <1>4, <2>1, <3>1, ImportExplained
  <2>2. CASE Youngest # 0
    <3>1. UserOp /\ (req.prefix \in DOMAIN Base => req.prefix \in DOMAIN txn')
      BY <2>2 DEF Edit, IsDir
    <3> QED BY <1>4, <3>1, UserExplained
  <2> QED BY <2>1, <2>2
<1>6. req.prefix \in DOMAIN txn' => txn'[req.prefix].kind = "dir"
  BY <1>1 DEF IsDir
<1>7. Trees' /\ Explained'
  BY <1>1, <1>2, <1>4, <1>5, <1>6 DEF Trees, Sound, Explained
<1> QED BY <1>3, <1>7 DEF FollowInv

\* What some servers add to the log is deleted and gone.
LEMMA ReportedFacts ==
    \A c \in DOMAIN Reported : /\ c \in DOMAIN changes \/ c \notin DOMAIN txn
                               /\ c \in DOMAIN changes => Reported[c] = changes[c]
<1>1. CASE ~req.chatty
  BY <1>1 DEF Reported
<1>2. CASE req.chatty
  <2> DEFINE gone == {q \in Path \ DOMAIN txn :
                        /\ \E d \in DOMAIN changes :
                             changes[d].action = "D" /\ IsStrictPrefix(d, q)
                        /\ q \in DOMAIN Base \/ \E c \in Copies : CopiedFrom(c, q)}
  <2>1. \A q \in gone : q \notin DOMAIN txn
    OBVIOUS
  <2>2. Reported = [q \in DOMAIN changes \cup gone |->
                      IF q \in DOMAIN changes THEN changes[q] ELSE Change("D", NoPath, 0)]
    BY <1>2 DEF Reported
  <2> HIDE DEF gone
  <2> QED BY <2>1, <2>2
<1> QED BY <1>1, <1>2

\* A commit that is not driven changes nothing in the session, and one that is
\* driven starts from what the path repository has: the tree of the revision
\* before, or nothing.
LEMMA CommitFollows ==
    ASSUME Inv, FollowInv, Commit
    PROVE  FollowInv' /\ ("above" \notin Allowed /\ Tracked => Tracked')
<1> DEFINE x == req.prefix
           rev == Youngest + 1
           touched == x = Root \/ x \notin DOMAIN Base \/ Within(changes, x) # {}
           before == rev < req.start
           start_mid == req.incremental /\ before
           mid == start_mid /\ rev = req.start - 1
           exists == x \in DOMAIN txn
           drive == exists /\ IF before THEN mid ELSE touched
           After == DOMAIN InSession(txn) \ {Root}
<1>1. /\ phase = "commit" /\ (rev = req.start => exists)
      /\ UNCHANGED <<txn, req, driven, nodes, open>> /\ repo' = Append(repo, txn)
      /\ dry' = mid /\ srv' = (IF driven THEN srv ELSE EmptyTree)
      /\ phase' = (IF drive THEN "drive" ELSE "commit")
      /\ changes' = (IF drive THEN Reported ELSE <<>>)
      /\ Kinds \subseteq Allowed
  BY DEF Commit
<1>2. IF start_mid /\ exists /\ touched
      THEN hist' = Append(hist, path_repo_commit_log) /\ work' = path_repo_commit_log
      ELSE IF req.keep /\ ~drive
      THEN hist' = Append(hist, work) /\ work' = work
      ELSE hist' = hist /\ work' = work
  BY DEF Commit
<1>3. Committed /\ Trees /\ Walk /\ Started /\ Explains(txn, Base, changes, x)
  BY <1>1 DEF Inv, FollowInv, Explained
<1>4. /\ Len(repo) \in Nat \ {0} /\ Youngest \in Nat
      /\ DOMAIN Base \subseteq Seq(Nat) /\ IsTree(DOMAIN Base)
      /\ DOMAIN txn \subseteq Seq(Nat) /\ IsTree(DOMAIN txn)
      /\ DOMAIN changes \subseteq Seq(Nat) /\ x \in Seq(Nat)
  BY <1>3, BaseFacts DEF Trees
<1>5. /\ req \in Requests /\ req.start \in Nat /\ (req.keep => req.start = 0)
      /\ req.incremental => req.start > 0
  BY <1>3, RequestsAssumption DEF Committed
<1>6. Youngest' = rev /\ Base' = txn
  <2>1. Len(repo') = Len(repo) + 1 /\ repo'[Len(repo) + 1] = txn
    BY <1>1, <1>3, ListFacts DEF Committed
  <2>2. Youngest' = Len(repo)
    BY <1>4, <2>1 DEF Youngest
  <2>3. Base' = repo'[Len(repo) + 1]
    BY <2>2 DEF Base, Tree
  <2>4. rev = Len(repo)
    BY <1>4 DEF Youngest
  <2> QED BY <2>1, <2>2, <2>3, <2>4
<1>7. /\ Current = DOMAIN InSession(Base) \ {Root} /\ Current' = After
      /\ Target = InSession(Base) /\ Target' = InSession(txn)
  <2>1. Current = DOMAIN InSession(Base) \ {Root}
    BY DEF Current, SessionTree, Base
  <2>2. Current' = DOMAIN InSession(txn)' \ {Root}
    BY <1>1, <1>6 DEF Current, SessionTree, Base
  <2>3. InSession(txn)' = InSession(txn)
    BY <1>1 DEF InSession, Within, Stripped
  <2>4. Target = InSession(Base) /\ Target' = InSession(txn)'
    BY <1>1, <1>6 DEF Target, SessionTree, Base
  <2> QED BY <2>1, <2>2, <2>3, <2>4
<1>8. Begun' <=> rev + 1 >= req.start /\ exists
  BY <1>1, <1>6 DEF Begun
<1>9. x \in DOMAIN Base => exists
  BY <1>3 DEF Explains, StaysInPlace
<1>10. ~touched => After = Current /\ \A q \in Current : Target'[q] = Target[q]
  <2> SUFFICES ASSUME ~touched
               PROVE  After = Current /\ \A q \in Current : Target'[q] = Target[q]
    OBVIOUS
  <2>1. x \in DOMAIN Base /\ x # Root /\ \A c \in DOMAIN changes : ~IsPrefix(x, c)
    BY DEF Within, pr_tree_to_array
  <2>2. \A q \in Seq(Nat) : IsPrefix(x, q) => ~Differs(txn, Base, q)
    BY <1>3, <1>4, <2>1, Untouched
  <2>3. DOMAIN InSession(txn) = DOMAIN InSession(Base)
    BY <1>4, <1>5, <2>2, SessionSame DEF Differs
  <2>4. ASSUME NEW q \in Current PROVE Target'[q] = Target[q]
    <3>1. q \in Seq(Nat) /\ x \o q \in DOMAIN Base /\ q \in DOMAIN InSession(Base)
      BY <1>4, <1>5, <1>7, InSessionIff
    <3>2. x \o q \in Seq(Nat) /\ IsPrefix(x, x \o q)
      BY <1>4, <3>1, ConcatFacts
    <3>3. txn[x \o q] = Base[x \o q]
      BY <2>2, <3>1, <3>2 DEF Differs
    <3>4. InSession(txn)[q] = txn[x \o q] /\ InSession(Base)[q] = Base[x \o q]
      BY <2>3, <3>1 DEF InSession
    <3> QED BY <1>7, <3>3, <3>4
  <2> QED BY <1>7, <2>3, <2>4
<1>11. x \notin DOMAIN Base => Current = {}
  BY <1>4, <1>5, <1>7, SessionNone
<1>12. ~exists => After = {}
  BY <1>4, <1>5, SessionNone
<1>13. "above" \notin Allowed /\ start_mid /\ exists => path_repo_commit_log = After
  <2> SUFFICES ASSUME "above" \notin Allowed, start_mid, exists
               PROVE  path_repo_commit_log = After
    OBVIOUS
  <2>1. ~FromAbove
    <3>1. "above" \in SpecialKinds
      BY DEF SpecialKinds
    <3>2. FromAbove => "above" \in Kinds
      BY <3>1 DEF Kinds
    <3> QED BY <1>1, <3>2
  <2> QED BY <2>1 DEF path_repo_commit_log
<1> HIDE DEF x, rev, After
<1>14. rev \in Nat /\ (Begun <=> rev >= req.start /\ x \in DOMAIN Base)
  BY <1>4, <1>5 DEF Begun, rev, x
<1>15. driven => Begun /\ Agree
  BY <1>1, <1>3 DEF Started
<1>16. Described' = IF driven THEN Described ELSE {}
  BY <1>1 DEF Described, EmptyTree
<1>17. ~drive /\ driven => ~start_mid /\ ~touched
  BY <1>5, <1>9, <1>14, <1>15
<1>18. Started'
  <2>1. CASE drive /\ mid
    <3>1. phase' = "drive" /\ Begun'
      BY <1>1, <1>5, <1>8, <1>14, <2>1
    <3> QED BY <3>1 DEF Started
  <2>2. CASE drive /\ ~mid
    <3>1. exists /\ ~before /\ phase' = "drive"
      BY <1>1, <2>2
    <3>2. Begun'
      BY <1>5, <1>8, <1>14, <3>1
    <3> QED BY <3>1, <3>2 DEF Started
  <2>3. CASE ~drive /\ driven
    <3>1. rev >= req.start /\ exists
      BY <1>9, <1>14, <1>15, <2>3
    <3>2. Begun'
      BY <1>5, <1>8, <1>14, <3>1
    <3>3. srv' = srv /\ Described = Current /\ (\A q \in Current : srv[q] = Target[q])
      BY <1>1, <1>15, <2>3 DEF Agree
    <3>4. Current' = Current /\ Described' = Described
          /\ \A q \in Current : Target'[q] = Target[q]
      BY <1>7, <1>10, <1>16, <1>17, <2>3
    <3>5. Agree'
      BY <3>3, <3>4 DEF Agree
    <3> QED BY <1>1, <2>3, <3>2, <3>5 DEF Started
  <2>4. CASE ~drive /\ ~driven
    <3>1. phase' = "commit" /\ ~driven'
      BY <1>1, <2>4
    <3> QED BY <3>1 DEF Started
  <2> QED BY <2>1, <2>2, <2>3, <2>4
<1>19. ASSUME "above" \notin Allowed, Tracked PROVE Tracked'
  <2>1. /\ IsList(hist) /\ hist # <<>>
        /\ driven => Described = Current /\ work = Current /\ Last(hist) = Current
        /\ ~driven /\ req.incremental =>
             work = Current /\ Last(hist) = Current /\ (Begun => Current = {})
        /\ ~driven /\ ~req.incremental => work = {}
    BY <1>1, <1>15, <1>19 DEF Tracked, Agree
  <2>2. IsList(hist') /\ hist' # <<>>
    <3>1. hist' = hist \/ \E h : hist' = Append(hist, h)
      BY <1>2
    <3>2. ASSUME NEW h PROVE IsList(Append(hist, h)) /\ Append(hist, h) # <<>>
      BY <2>1, ListFacts
    <3> QED BY <2>1, <3>1, <3>2
  <2>3. ASSUME NEW h PROVE Last(Append(hist, h)) = h
    BY <2>1, ListFacts DEF Last
  <2>4. CASE drive /\ mid
    <3>1. start_mid /\ exists /\ phase' = "drive" /\ dry' = TRUE
      BY <1>1, <2>4
    <3>2. ~driven /\ ~req.keep
      BY <1>5, <1>14, <1>15, <3>1
    <3>3. Last(hist') = After
      <4>1. CASE touched
        BY <1>2, <1>13, <1>19, <2>3, <3>1, <4>1
      <4>2. CASE ~touched
        BY <1>2, <1>10, <2>1, <3>1, <3>2, <4>2
      <4> QED BY <4>1, <4>2
    <3> QED BY <1>7, <2>2, <3>1, <3>3 DEF Tracked
  <2>5. CASE drive /\ ~mid
    <3>1. exists /\ ~before /\ touched /\ ~start_mid /\ phase' = "drive" /\ dry' = FALSE
      BY <1>1, <2>5
    <3>2. rev >= req.start
      BY <1>5, <1>14, <3>1
    <3>3. work' = work
      BY <1>2, <2>5, <3>1
    <3>4. work = Described'
      BY <1>11, <1>14, <1>16, <2>1, <3>2
    <3> QED BY <2>2, <3>1, <3>3, <3>4 DEF Tracked
  <2>6. CASE ~drive /\ driven
    <3>1. ~start_mid /\ ~touched /\ phase' = "commit" /\ driven'
      BY <1>1, <1>17, <2>6
    <3>2. work' = Current /\ Last(hist') = Current
      BY <1>2, <2>1, <2>3, <2>6, <3>1
    <3>3. Current' = Current
      BY <1>7, <1>10, <3>1
    <3> QED BY <2>2, <3>1, <3>2, <3>3 DEF Tracked
  <2>7. CASE ~drive /\ ~driven /\ ~req.incremental
    <3>1. work' = work /\ work = {} /\ phase' = "commit" /\ ~driven' /\ ~req.incremental'
      BY <1>1, <1>2, <2>1, <2>7
    <3> QED BY <2>2, <3>1 DEF Tracked
  <2>8. CASE ~drive /\ ~driven /\ req.incremental
    <3>1. phase' = "commit" /\ ~driven' /\ req'.incremental /\ ~req.keep
      BY <1>1, <1>5, <2>8
    <3>2. work = Current /\ Last(hist) = Current /\ (Begun => Current = {})
      BY <2>1, <2>8
    <3>3. Begun' => After = {}
      <4>1. CASE ~exists
        BY <1>12, <4>1
      <4>2. CASE exists /\ before
        <5>1. ~(rev = req.start - 1)
          BY <2>8, <4>2
        <5>2. ~(rev + 1 >= req.start)
          BY <1>5, <1>14, <4>2, <5>1
        <5> QED BY <1>8, <5>2
      <4>3. CASE exists /\ ~before
        <5>1. rev >= req.start /\ ~touched
          BY <1>5, <1>14, <2>8, <4>3
        <5> QED BY <1>10, <1>14, <3>2, <5>1
      <4> QED BY <4>1, <4>2, <4>3
    <3>4. work' = After /\ Last(hist') = After
      <4>1. CASE exists /\ touched
        <5>1. start_mid
          BY <2>8, <4>1
        <5> QED BY <1>2, <1>13, <1>19, <2>3, <4>1, <5>1
      <4>2. CASE ~touched
        BY <1>2, <1>10, <3>1, <3>2, <4>2
      <4>3. CASE ~exists
        BY <1>2, <1>9, <1>11, <1>12, <3>1, <3>2, <4>3
      <4> QED BY <4>1, <4>2, <4>3
    <3> QED BY <1>7, <2>2, <3>1, <3>3, <3>4 DEF Tracked
  <2> QED BY <2>4, <2>5, <2>6, <2>7, <2>8
<1>20. Trees'
  <2>1. /\ DOMAIN repo' = 1 .. Len(repo) + 1 /\ DOMAIN repo = 1 .. Len(repo)
        /\ repo'[Len(repo) + 1] = txn
        /\ \A i \in 1 .. Len(repo) : repo'[i] = repo[i]
    BY <1>1, <1>3, ListFacts DEF Committed
  <2>2. 1 \in 1 .. Len(repo)
    BY <1>4
  <2>3. \A i \in DOMAIN repo' : i \in DOMAIN repo \/ i = Len(repo) + 1
    BY <1>4, <2>1
  <2>4. /\ \A i \in DOMAIN repo' : Sound(repo'[i])
        /\ DOMAIN repo'[1] = {Root} /\ Sound(txn')
    BY <1>1, <1>3, <2>1, <2>2, <2>3 DEF Trees
  <2>5. \A u \in {txn', Base'} : req'.prefix \in DOMAIN u => u[req'.prefix].kind = "dir"
    BY <1>1, <1>3, <1>6 DEF Trees
  <2> QED BY <2>4, <2>5 DEF Trees, Sound
<1>21. Explained'
  <2>1. CASE drive
    <3>1. \A c \in DOMAIN changes : changes[c].action = "D" => c \notin DOMAIN txn
      BY <1>3 DEF Explains, LogTrue
    <3>2. \A c \in DOMAIN Reported : Reported[c].action = "D" => c \notin DOMAIN txn
      BY <3>1, ReportedFacts
    <3>3. phase' # "commit" /\ changes' = Reported /\ txn' = txn /\ Base' = txn
      BY <1>1, <1>6, <2>1
    <3> QED BY <3>2, <3>3 DEF Explained
  <2>2. CASE ~drive
    <3>1. Explains(txn, txn, <<>>, req.prefix)
      BY NothingChanged
    <3> QED BY <1>1, <1>6, <2>2, <3>1 DEF Explained
  <2> QED BY <2>1, <2>2
<1>22. Walk'
  <2>1. nodes' = <<>> /\ open' = <<>> /\ phase' # "load"
    BY <1>1, <1>3 DEF Walk
  <2>2. IsTree(DOMAIN srv') /\ Root \in DOMAIN srv'
    <3>1. DOMAIN EmptyTree = {Root} /\ DOMAIN repo[1] = {Root} /\ 1 \in DOMAIN repo
      BY <1>3, <1>4, ListFacts DEF EmptyTree, Trees, Committed
    <3>2. IsTree(DOMAIN EmptyTree)
      BY <1>3, <3>1 DEF Trees, Sound
    <3> QED BY <1>1, <1>3, <3>1, <3>2 DEF Walk
  <2>3. DOMAIN nodes' = {} /\ DOMAIN open' = {}
    BY <2>1
  <2> QED BY <2>1, <2>2, <2>3 DEF Walk
<1> QED BY <1>18, <1>19, <1>20, <1>21, <1>22 DEF FollowInv

LEMMA FollowInit == Init => FollowInv /\ Tracked
<1> SUFFICES ASSUME Init PROVE FollowInv /\ Tracked
  OBVIOUS
<1>1. /\ req \in Requests /\ repo = <<EmptyTree>> /\ txn = EmptyTree /\ phase = "commit"
      /\ driven = FALSE /\ changes = <<>> /\ nodes = <<>> /\ open = <<>>
      /\ srv = EmptyTree /\ work = {} /\ hist = <<{}>>
  BY DEF Init
<1>2. DOMAIN EmptyTree = {Root} /\ EmptyTree[Root] = Dir(NoProps)
  BY DEF EmptyTree
<1> HIDE DEF EmptyTree
<1>3. /\ DOMAIN repo = {1} /\ repo[1] = EmptyTree /\ Youngest = 0 /\ Base = EmptyTree
      /\ hist \in Seq({{}}) /\ hist # <<>> /\ Last(hist) = {}
  BY <1>1 DEF Youngest, Base, Tree, Last
<1>4. IsTree({Root})
  <2>1. Root \in Seq(Nat) /\ Len(Root) = 0
    BY KnownPaths DEF Known, Root
  <2>2. \A n \in 0 .. 0 : SubSeq(Root, 1, n) = Root
    BY DEF Root
  <2> QED BY <2>1, <2>2 DEF IsTree
<1>5. Trees
  <2>1. Sound(EmptyTree)
    BY <1>2, <1>4, NodeFacts DEF Sound
  <2>2. EmptyTree[Root].kind = "dir"
    BY <1>2 DEF Dir
  <2> QED BY <1>1, <1>2, <1>3, <2>1, <2>2 DEF Trees
<1>6. Explained
  BY <1>1, <1>3, NothingChanged DEF Explained
<1>7. Walk
  BY <1>1, <1>2, <1>4 DEF Walk
<1>8. Current = {}
  <2>1. Current = DOMAIN InSession(EmptyTree) \ {Root}
    BY <1>3 DEF Current, SessionTree, Base
  <2>2. req.prefix \in Seq(Nat) /\ Root \in Seq(Nat) /\ Len(Root) = 0
    BY <1>1, RequestsAssumption, KnownPaths DEF Known, Root
  <2>3. ASSUME NEW q \in DOMAIN InSession(EmptyTree) PROVE q = Root
    <3>1. q \in Seq(Nat) /\ req.prefix \o q = Root
      BY <1>1, <1>2, <2>2, <2>3, InSessionIff
    <3>2. Len(req.prefix) + Len(q) = 0
      BY <2>2, <3>1, ConcatFacts
    <3>3. Len(q) \in Nat /\ Len(req.prefix) \in Nat
      BY <2>2, <3>1
    <3>4. Len(q) = 0
      BY <3>2, <3>3
    <3> QED BY <3>1, <3>4 DEF Root
  <2> QED BY <2>1, <2>3
<1>9. Tracked
  BY <1>1, <1>3, <1>8 DEF Tracked, IsList
<1>10. Started
  BY <1>1 DEF Started
<1> QED BY <1>5, <1>6, <1>7, <1>9, <1>10 DEF FollowInv

\* An addition has been refused; then there is nothing more to do.
Refused == phase = "failed"

LEMMA FailedStays ==
    ASSUME phase = "failed", [Next]_vars
    PROVE  phase' = "failed"
<1>1. CASE Edit \/ Commit
  BY <1>1 DEF Edit, Commit
<1>2. CASE Drive
  <2>1. ~Ready
    BY DEF Ready
  <2>2. ~de_open_root /\ ~de_close_edit /\ ~EndRevision
    BY DEF de_open_root, de_close_edit, EndRevision
  <2>3. ~de_close_file /\ ~de_close_directory /\ ~de_apply_textdelta
    BY <2>1 DEF de_close_file, de_close_directory, de_apply_textdelta
  <2>4. \A name : ~de_change_dir_prop(name) /\ ~de_change_file_prop(name)
    BY DEF de_change_dir_prop, de_change_file_prop, ChangeProp
  <2>5. \A q : ~de_delete_entry(q) /\ ~de_open_directory(q) /\ ~de_open_file(q)
    BY <2>1 DEF de_delete_entry, de_open_directory, de_open_file, OpenNode
  <2>6. \A q : ~de_add_directory(q) /\ ~de_add_file(q)
    BY <2>1 DEF de_add_directory, de_add_file, AddNode
  <2> QED BY <1>2, <2>2, <2>3, <2>4, <2>5, <2>6 DEF Drive
<1>3. CASE UNCHANGED vars
  BY <1>3 DEF vars
<1> QED BY <1>1, <1>2, <1>3 DEF Next

\* And no addition is refused while the path repository keeps up.
LEMMA NoneRefused ==
    ASSUME Tracked, phase # "failed", [Next]_vars
    PROVE  phase' # "failed"
<1>1. Called => phase' = phase
  BY DEF Called
<1>2. CASE Edit \/ Commit \/ de_close_edit \/ EndRevision
  BY <1>2 DEF Edit, Commit, de_close_edit, EndRevision
<1>3. CASE de_open_root \/ de_apply_textdelta
  BY <1>1, <1>3 DEF de_open_root, de_apply_textdelta
<1>4. ASSUME NEW q, de_delete_entry(q) \/ de_open_directory(q) \/ de_open_file(q)
      PROVE  phase' # "failed"
  BY <1>1, <1>4 DEF de_delete_entry, de_open_directory, de_open_file, OpenNode
<1>5. ASSUME NEW q, de_add_directory(q) \/ de_add_file(q)
      PROVE  phase' # "failed"
  BY <1>5, NotRefused DEF de_add_directory, de_add_file
<1>6. ASSUME NEW name, de_change_dir_prop(name) \/ de_change_file_prop(name)
      PROVE  phase' # "failed"
  BY <1>1, <1>6 DEF de_change_dir_prop, de_change_file_prop, ChangeProp
<1>7. CASE de_close_file \/ de_close_directory
  BY <1>1, <1>7 DEF de_close_file, de_close_directory, CloseNode
<1>8. CASE UNCHANGED vars
  BY <1>8 DEF vars
<1> QED BY <1>2, <1>3, <1>4, <1>5, <1>6, <1>7, <1>8 DEF Next, Drive

LEMMA FollowNext ==
    ASSUME Inv, FollowInv, [Next]_vars, phase' # "failed"
    PROVE  FollowInv' /\ ("above" \notin Allowed /\ Tracked => Tracked')
<1> DEFINE Goal == FollowInv' /\ (Tracked => Tracked')
<1>1. CASE Edit
  BY <1>1, EditFollows
<1>2. CASE Commit
  BY <1>2, CommitFollows
<1>3. CASE de_open_root
  BY <1>3, OpenRootFollows
<1>4. CASE de_apply_textdelta
  BY <1>4, TextFollows
<1>5. ASSUME NEW q, de_delete_entry(q) PROVE Goal
  BY <1>5, DeleteFollows
<1>6. ASSUME NEW q, de_add_directory(q) \/ de_add_file(q) PROVE Goal
  BY <1>6, AddFollows DEF de_add_directory, de_add_file
<1>7. ASSUME NEW q, de_open_directory(q) \/ de_open_file(q) PROVE Goal
  BY <1>7, OpenFollows DEF de_open_directory, de_open_file
<1>8. ASSUME NEW name, de_change_dir_prop(name) \/ de_change_file_prop(name)
      PROVE  Goal
  BY <1>8, PropFollows DEF de_change_dir_prop, de_change_file_prop
<1>9. CASE de_close_file \/ de_close_directory
  BY <1>9, CloseFollows
<1>10. CASE de_close_edit
  BY <1>10, CloseEditFollows
<1>11. CASE EndRevision
  BY <1>11, EndFollows
<1>12. CASE UNCHANGED vars
  <2>1. UNCHANGED <<repo, txn, changes, req, phase, dry, driven, nodes, open, srv,
                    work, hist>>
    BY <1>12 DEF vars, svnvars, editor, result
  <2>2. /\ Agree' = Agree /\ Begun' = Begun /\ Base' = Base
        /\ Current' = Current /\ Described' = Described
    BY <2>1 DEF Agree, Target, Current, Described, Begun, Base, SessionTree, InSession,
                Tree, Youngest, Within, Stripped
  <2> QED BY <2>1, <2>2 DEF FollowInv, Trees, Explained, Walk, Started, Tracked
<1> QED BY <1>1, <1>2, <1>3, <1>4, <1>5, <1>6, <1>7, <1>8, <1>9, <1>10, <1>11,
           <1>12 DEF Next, Drive

\* After every revision that was dumped, and every one that was not because it is
\* not in the log of the dumped directory, the tree of the path repository is the
\* one of the revision (delta.c:988, 1043, 1184; path_repo.c:414, 431; dump.c:549):
\* the calls of path_repo_add() and path_repo_delete() in the editor's functions
\* reproduce every difference that a server can describe, in whatever order, and
\* the dry run leaves the prepared tree as it was.  So no addition is refused for
\* a path that the tree has already.  This holds for all commits
\* but one kind: an incremental dump of a directory that came with a copy of one
\* above it, which the filter of the log hides (log.c:94).
THEOREM DeltaHistoryMatches ==
    ASSUME "above" \notin Allowed
    PROVE  Spec => []HistoryMatches
<1>1. ~Refused /\ FollowInv /\ Tracked => HistoryMatches
  BY DEF Refused, Tracked, HistoryMatches, Idle, Current
<1>2. ~Refused /\ Inv /\ FollowInv /\ Tracked /\ [Next]_vars =>
          ~Refused' /\ FollowInv' /\ Tracked'
  BY FollowNext, NoneRefused DEF Refused
<1>3. Init => ~Refused
  BY DEF Init, Refused
<1> QED BY <1>1, <1>2, <1>3, InvInit, InvNext, FollowInit, PTL DEF Spec

-----------------------------------------------------------------------------
(***************************************************************************)
(* So does what the editor keeps of every node                             *)
(***************************************************************************)

\* Nodes as the callbacks describe them: a new file is empty until its content
\* comes.
ServedNode == [kind : {"dir", "file"}, props : [Prop -> PropValue],
               text : Text \cup {NoText, Empty}]

\* The server only enters what will stay, and calls a file a file.
Served ==
    /\ \A q \in DOMAIN srv \ {Root} : srv[q] \in ServedNode
    /\ \A i \in DOMAIN open :
         /\ nodes[open[i]].path # Root =>
              nodes[open[i]].kind = srv[nodes[open[i]].path].kind
         /\ \A p \in Seq(Nat) \ {Root} : IsPrefix(p, nodes[open[i]].path) => Kept(p)

\* The content that the server has described is in the local copy.
CopiesFollow ==
    \A q \in DOMAIN srv \ {Root} :
        srv[q].kind = "file" /\ srv[q].text # Empty =>
            q \in DOMAIN delta_hash /\ delta_hash[q] = srv[q].text

\* The properties that the server has described are in the node while it is open,
\* and in the storage when it is not.  What will be deleted does not count, nor
\* does what has lost a property.
InNode(q) == \E i \in DOMAIN open : nodes[open[i]].path = q
PropsFollow ==
    \A q \in DOMAIN srv \ {Root} :
        Kept(q) /\ req.prefix \o q \notin dropped =>
            /\ \A i \in DOMAIN open :
                 nodes[open[i]].path = q => nodes[open[i]].props = srv[q].props
            /\ InNode(q) \/ (q \in DOMAIN saved /\ saved[q] = srv[q].props)

\* What is going to lose a property is known to.
LossesNoted ==
    \A q \in DOMAIN srv \ {Root}, n \in Prop :
        Kept(q) /\ srv[q].props[n] # 0 /\ Target[q].props[n] = 0 =>
            req.prefix \o q \in dropped

KeepInv == Served /\ CopiesFollow /\ PropsFollow /\ LossesNoted

\* The local copy of a file that is gone is removed with a directory that is
\* deleted, or because the log has the file itself.
Gone(q) ==
    /\ srv[q].kind = "file" /\ ~Kept(q)
    /\ \A p \in Seq(Nat) \ {Root} : IsStrictPrefix(p, q) => Kept(p)

Removal ==
    phase = "drive" => \A q \in DOMAIN srv \ {Root} : Gone(q) => q \in DeletedPaths

OnlyFiles ==
    /\ \A q \in DOMAIN delta_hash :
         \/ q \in DOMAIN srv \ {Root} /\ srv[q].kind = "file"
         \/ phase = "drive" /\ q \in DeletedPaths
    /\ phase = "commit" /\ ~driven => DOMAIN delta_hash = {}

\* Without changed paths there is nothing to go by.
RemoveInv == ~req.encoded => Removal /\ OnlyFiles

LEMMA CalledSame ==
    ASSUME Called
    PROVE  /\ UNCHANGED <<svnvars, req, phase, dry, driven, result, dropped, changes>>
           /\ Target' = Target /\ DeletedPaths' = DeletedPaths
<1>1. UNCHANGED <<svnvars, req, phase, dry, driven, result, dropped, changes, repo>>
  BY DEF Called, svnvars, result
<1> QED BY <1>1 DEF Target, SessionTree, InSession, Tree, Youngest, Within, Stripped,
                    DeletedPaths, log_receiver

\* The nodes of the youngest revision.
LEMMA TargetNodes ==
    ASSUME Committed, Trees
    PROVE  \A q \in DOMAIN Target :
             /\ q \in Seq(Nat) /\ req.prefix \o q \in DOMAIN Base
             /\ Target[q] = Base[req.prefix \o q] /\ Target[q] \in Node
<1>1. Target = InSession(Base) /\ req \in Requests
  BY TargetIsTree DEF Committed
<1> SUFFICES ASSUME NEW q \in DOMAIN InSession(Base)
             PROVE  /\ q \in Seq(Nat) /\ req.prefix \o q \in DOMAIN Base
                    /\ InSession(Base)[q] = Base[req.prefix \o q]
                    /\ InSession(Base)[q] \in Node
  BY <1>1
<1>2. q \in Seq(Nat) /\ req.prefix \o q \in DOMAIN Base
  BY <1>1, BaseFacts, InSessionIff
<1>3. InSession(Base)[q] = Base[req.prefix \o q]
  BY DEF InSession
<1> QED BY <1>2, <1>3, BaseFacts DEF Sound

\* The places of the open nodes differ.
LEMMA OpenUnique ==
    ASSUME OpenOK, NEW i \in DOMAIN open, NEW j \in DOMAIN open,
           nodes[open[i]].path = nodes[open[j]].path
    PROVE  i = j
<1>1. i \in Nat /\ j \in Nat
  BY DEF OpenOK
<1>2. Len(nodes[open[i]].path) = i - 1 /\ Len(nodes[open[j]].path) = j - 1
  BY DEF OpenOK
<1>3. i - 1 = j - 1
  BY <1>2
<1> QED BY <1>1, <1>3

LEMMA LastOpen ==
    ASSUME Inv, open # <<>>
    PROVE  /\ Len(open) \in DOMAIN open /\ Last(open) = open[Len(open)]
           /\ Cur = nodes[open[Len(open)]] /\ Last(open) \in DOMAIN nodes
<1>1. Len(open) \in DOMAIN open /\ Last(open) = open[Len(open)]
  BY DEF Inv, OpenOK, Last
<1> QED BY <1>1 DEF Cur, Inv, OpenOK

\* What is said of the open nodes is said of the new ones, too, if one is appended.
LEMMA OpenAppended ==
    ASSUME Inv, NEW n, nodes' = Append(nodes, n)
    PROVE  /\ \A i \in DOMAIN open : nodes'[open[i]] = nodes[open[i]]
           /\ nodes'[Len(nodes) + 1] = n
           /\ open' = Append(open, Len(nodes) + 1) =>
                /\ \A i \in DOMAIN open : i \in DOMAIN open' /\ open'[i] = open[i]
                /\ \E k \in DOMAIN open' : open'[k] = Len(nodes) + 1
                /\ \A i \in DOMAIN open' : i \in DOMAIN open \/ open'[i] = Len(nodes) + 1
<1>1. /\ Len(nodes) \in Nat /\ DOMAIN nodes = 1 .. Len(nodes)
      /\ nodes'[Len(nodes) + 1] = n
      /\ \A i \in 1 .. Len(nodes) : nodes'[i] = nodes[i]
  BY ListFacts DEF Inv, NodesOK
<1>2. open \in Seq(Nat) /\ \A i \in DOMAIN open : open[i] \in 1 .. Len(nodes)
  BY <1>1 DEF Inv, OpenOK
<1>3. ASSUME open' = Append(open, Len(nodes) + 1)
      PROVE  /\ \A i \in DOMAIN open : i \in DOMAIN open' /\ open'[i] = open[i]
             /\ \E k \in DOMAIN open' : open'[k] = Len(nodes) + 1
             /\ \A i \in DOMAIN open' : i \in DOMAIN open \/ open'[i] = Len(nodes) + 1
  <2>1. /\ DOMAIN open' = 1 .. Len(open) + 1 /\ DOMAIN open = 1 .. Len(open)
        /\ Len(open) \in Nat /\ open'[Len(open) + 1] = Len(nodes) + 1
        /\ \A i \in 1 .. Len(open) : open'[i] = open[i]
    BY <1>1, <1>2, <1>3
  <2>2. Len(open) + 1 \in DOMAIN open'
    BY <2>1
  <2>3. \A i \in DOMAIN open' : i \in DOMAIN open \/ i = Len(open) + 1
    BY <2>1
  <2>4. \A i \in DOMAIN open : i \in DOMAIN open'
    BY <2>1
  <2> QED BY <2>1, <2>2, <2>3, <2>4
<1> QED BY <1>1, <1>2, <1>3

LEMMA OpenRootKeeps ==
    ASSUME Inv, FollowInv, KeepInv, de_open_root
    PROVE  KeepInv' /\ (RemoveInv => RemoveInv')
<1> DEFINE n == delta_create_node_no_parent(Root, "unset", "M")
<1>1. /\ nodes = <<>> /\ nodes' = <<n>> /\ open' = <<1>> /\ Called
      /\ UNCHANGED <<srv, saved, delta_hash>>
  BY DEF de_open_root
<1>2. n.path = Root
  BY DEF delta_create_node_no_parent
<1> HIDE DEF n
<1>3. DOMAIN open' = {1} /\ nodes'[open'[1]].path = Root
  BY <1>1, <1>2
<1>4. DOMAIN open = {}
  <2>1. DOMAIN nodes = {}
    BY <1>1
  <2> QED BY <2>1 DEF Inv, OpenOK
<1>5. /\ req' = req /\ phase' = phase /\ driven' = driven /\ dropped' = dropped
      /\ Target' = Target /\ DeletedPaths' = DeletedPaths
  BY <1>1, CalledSame
<1>6. \A q : Kept(q)' <=> Kept(q)
  BY <1>1, <1>5 DEF Kept
<1>7. \A p \in Seq(Nat) \ {Root} : ~IsPrefix(p, Root)
  <2>1. Root \in Seq(Nat) /\ Len(Root) = 0
    BY KnownPaths DEF Known, Root
  <2>2. ASSUME NEW p \in Seq(Nat) \ {Root} PROVE ~(Len(p) <= 0)
    <3>1. Len(p) \in Nat /\ Len(p) # 0
      BY DEF Root
    <3> QED BY <3>1
  <2> QED BY <2>1, <2>2, PrefixAt
<1>8. Served'
  BY <1>1, <1>3, <1>7 DEF KeepInv, Served
<1>9. CopiesFollow' /\ LossesNoted'
  BY <1>1, <1>5, <1>6 DEF KeepInv, CopiesFollow, LossesNoted
<1>10. PropsFollow'
  BY <1>1, <1>3, <1>4, <1>5, <1>6 DEF KeepInv, PropsFollow, InNode
<1>11. RemoveInv => RemoveInv'
  BY <1>1, <1>5, <1>6 DEF RemoveInv, Removal, Gone, OnlyFiles
<1> QED BY <1>8, <1>9, <1>10, <1>11 DEF KeepInv

LEMMA DeleteKeeps ==
    ASSUME Inv, FollowInv, KeepInv, NEW d, de_delete_entry(d)
    PROVE  KeepInv' /\ (RemoveInv => RemoveInv')
<1> DEFINE n == [delta_create_node(d, "none", "D") EXCEPT !.needed = TRUE]
<1>1. /\ phase = "drive" /\ open # <<>> /\ d \in Entries /\ Called
      /\ nodes' = Append(nodes, n) /\ open' = open /\ srv' = Cut(srv, d)
      /\ d \in DOMAIN srv /\ ~Kept(d)
      /\ delta_hash' = Without(delta_hash, Below(delta_hash, d))
      /\ saved' = Without(saved, {d} \cup Below(delta_hash, d))
  BY DEF de_delete_entry, Ready
<1> HIDE DEF n
<1>2. Walk /\ DOMAIN srv \subseteq Seq(Nat)
  BY DEF FollowInv, Inv, Placed
<1>3. /\ \A i \in DOMAIN open : ~IsPrefix(d, nodes[open[i]].path)
      /\ d \in Seq(Nat) /\ d # Root /\ Front(d) = Cur.path /\ IsPrefix(d, d)
  BY <1>1, <1>2, OpenPaths, PrefixSelf
<1>4. \A i \in DOMAIN open : nodes'[open[i]] = nodes[open[i]]
  BY <1>1, OpenAppended
<1>5. /\ req' = req /\ phase' = phase /\ driven' = driven /\ dropped' = dropped
      /\ Target' = Target /\ DeletedPaths' = DeletedPaths
  BY <1>1, CalledSame
<1>6. \A q : /\ q \in DOMAIN srv' <=> q \in DOMAIN srv /\ ~IsPrefix(d, q)
             /\ q \in DOMAIN srv' => srv'[q] = srv[q]
  BY <1>1 DEF Cut, Within, pr_tree_to_array
<1>7. \A q : Kept(q)' <=> Kept(q) /\ ~IsPrefix(d, q)
  BY <1>5, <1>6 DEF Kept
<1>8. \A q : ~IsPrefix(d, q) =>
               /\ q \in DOMAIN delta_hash =>
                    q \in DOMAIN delta_hash' /\ delta_hash'[q] = delta_hash[q]
               /\ q \in DOMAIN saved => q \in DOMAIN saved' /\ saved'[q] = saved[q]
  BY <1>1, <1>3 DEF Without, Below, IsStrictPrefix
<1>9. Served'
  <2>1. ASSUME NEW i \in DOMAIN open, NEW p \in Seq(Nat) \ {Root},
               IsPrefix(p, nodes[open[i]].path)
        PROVE  Kept(p) /\ ~IsPrefix(d, p)
    <3>1. Kept(p) /\ nodes[open[i]].path \in Seq(Nat)
      BY <2>1 DEF KeepInv, Served, Inv, OpenOK, NodesOK
    <3> QED BY <1>3, <2>1, <3>1, PrefixTrans
  <2>2. \A i \in DOMAIN open : nodes[open[i]].path \in DOMAIN srv'
    BY <1>2, <1>3, <1>6 DEF Walk
  <2>3. \A q \in DOMAIN srv' \ {Root} : srv'[q] \in ServedNode
    BY <1>6 DEF KeepInv, Served
  <2>4. ASSUME NEW i \in DOMAIN open', nodes'[open'[i]].path # Root
        PROVE  nodes'[open'[i]].kind = srv'[nodes'[open'[i]].path].kind
    <3> DEFINE o == nodes[open[i]]
    <3>1. i \in DOMAIN open /\ nodes'[open'[i]] = o
      BY <1>1, <1>4, <2>4
    <3>2. o.path # Root /\ o.path \in DOMAIN srv'
      BY <2>2, <2>4, <3>1
    <3>3. o.kind = srv[o.path].kind
      BY <3>1, <3>2 DEF KeepInv, Served
    <3> HIDE DEF o
    <3> QED BY <1>6, <3>1, <3>2, <3>3
  <2>5. ASSUME NEW i \in DOMAIN open', NEW p \in Seq(Nat) \ {Root},
               IsPrefix(p, nodes'[open'[i]].path)
        PROVE  Kept(p)'
    BY <1>1, <1>4, <1>7, <2>1, <2>5
  <2> QED BY <2>3, <2>4, <2>5 DEF Served
<1>10. CopiesFollow' /\ LossesNoted'
  BY <1>5, <1>6, <1>7, <1>8 DEF KeepInv, CopiesFollow, LossesNoted
<1>11. PropsFollow'
  <2> SUFFICES ASSUME NEW q \in DOMAIN srv' \ {Root}, Kept(q)',
                      req'.prefix \o q \notin dropped'
               PROVE  /\ \A i \in DOMAIN open' : nodes'[open'[i]].path = q =>
                                               nodes'[open'[i]].props = srv'[q].props
                      /\ InNode(q)' \/ (q \in DOMAIN saved' /\ saved'[q] = srv'[q].props)
    BY DEF PropsFollow
  <2>1. /\ \A i \in DOMAIN open : nodes[open[i]].path = q =>
                                 nodes[open[i]].props = srv[q].props
        /\ InNode(q) \/ (q \in DOMAIN saved /\ saved[q] = srv[q].props)
    BY <1>5, <1>6, <1>7 DEF KeepInv, PropsFollow
  <2>2. InNode(q) => InNode(q)'
    BY <1>1, <1>4 DEF InNode
  <2> QED BY <1>1, <1>4, <1>6, <1>8, <2>1, <2>2
<1>12. ASSUME RemoveInv, ~req.encoded PROVE Removal' /\ OnlyFiles'
  <2>1. Removal /\ OnlyFiles
    BY <1>12 DEF RemoveInv
  <2>2. \A q \in DOMAIN srv' : Gone(q)' => Gone(q)
    BY <1>6, <1>7 DEF Gone
  <2>3. Removal'
    BY <1>5, <1>6, <2>1, <2>2 DEF Removal
  <2>4. ASSUME srv[d].kind = "file" PROVE d \in DeletedPaths
    <3>1. ASSUME NEW p \in Seq(Nat) \ {Root}, IsStrictPrefix(p, d) PROVE Kept(p)
      <4>1. IsPrefix(p, Cur.path)
        BY <1>3, <3>1, FrontFacts DEF IsStrictPrefix
      <4> QED BY <1>1, <4>1, LastOpen DEF KeepInv, Served
    <3> QED BY <1>1, <1>3, <2>1, <2>4, <3>1 DEF Removal, Gone
  <2>5. ASSUME NEW q \in DOMAIN delta_hash'
        PROVE  (q \in DOMAIN srv' \ {Root} /\ srv'[q].kind = "file") \/ q \in DeletedPaths
    <3>1. q \in DOMAIN delta_hash /\ ~IsStrictPrefix(d, q)
      BY <1>1, <2>5 DEF Without, Below
    <3>2. CASE q \in DeletedPaths
      BY <3>2
    <3>3. CASE q \in DOMAIN srv \ {Root} /\ srv[q].kind = "file"
      <4>1. CASE q = d
        BY <2>4, <3>3, <4>1
      <4>2. CASE q # d
        BY <1>6, <3>1, <3>3, <4>2 DEF IsStrictPrefix
      <4> QED BY <4>1, <4>2
    <3> QED BY <2>1, <3>1, <3>2, <3>3 DEF OnlyFiles
  <2> QED BY <1>1, <1>5, <2>3, <2>5 DEF OnlyFiles
<1> QED BY <1>5, <1>9, <1>10, <1>11, <1>12 DEF KeepInv, RemoveInv

LEMMA AddKeeps ==
    ASSUME Inv, FollowInv, KeepInv, NEW a, NEW kind, AddNode(a, kind), phase' # "failed"
    PROVE  KeepInv' /\ (RemoveInv => RemoveInv')
<1> DEFINE c == [delta_create_node(a, kind, "A") EXCEPT !.needed = TRUE]
           f == FromLog(c)
           n == IF kind = "file" /\ Failed(f) THEN [f EXCEPT !.action = "A"] ELSE f
           k == Len(nodes) + 1
<1>1. /\ phase = "drive" /\ open # <<>> /\ a \in Entries /\ a \notin DOMAIN srv
      /\ Target[a].kind = kind /\ Called
      /\ nodes' = Append(nodes, n) /\ open' = Append(open, k)
      /\ srv' = Put(srv, a, New(kind)) /\ saved' = saved /\ delta_hash' = delta_hash
  BY NotRefused DEF AddNode, Ready, Opened
<1>2. n.path = a /\ n.kind = kind /\ n.props = NoProps
  <2>1. /\ c.path = a /\ c.kind = kind /\ c.props = NoProps
        /\ {"path", "kind", "props"} \subseteq DOMAIN c
    BY DEF delta_create_node, delta_create_node_no_parent
  <2> HIDE DEF c
  <2>2. /\ f.path = a /\ f.kind = kind /\ f.props = NoProps
        /\ {"path", "kind", "props"} \subseteq DOMAIN f
    BY <2>1 DEF FromLog
  <2> HIDE DEF f
  <2> QED BY <2>2
<1> HIDE DEF n
<1>3. Walk /\ DOMAIN srv \subseteq Seq(Nat) /\ Committed /\ Trees
  BY DEF FollowInv, Inv, Placed
<1>4. /\ \A i \in DOMAIN open : nodes[open[i]].path \in DOMAIN srv
      /\ a \in Seq(Nat) /\ a # Root /\ Front(a) = Cur.path
  BY <1>1, <1>3, OpenPaths
<1>5. /\ req' = req /\ phase' = phase /\ driven' = driven /\ dropped' = dropped
      /\ Target' = Target /\ DeletedPaths' = DeletedPaths
  BY <1>1, CalledSame
<1>6. a \in DOMAIN Target /\ kind \in {"dir", "file"}
  <2>1. a \in DOMAIN Target
    BY <1>1 DEF Entries
  <2> QED BY <1>1, <1>3, <2>1, TargetNodes DEF Node
<1>7. /\ New(kind) \in ServedNode /\ New(kind).kind = kind /\ New(kind).props = NoProps
      /\ kind = "file" => New(kind).text = Empty
  BY <1>6, NodeFacts DEF New, Dir, File, ServedNode
<1>8. /\ DOMAIN srv' = DOMAIN srv \cup {a} /\ srv'[a] = New(kind)
      /\ \A q \in DOMAIN srv : srv'[q] = srv[q]
  BY <1>1 DEF Put
<1>9. \A q : Kept(q)' <=> Kept(q) \/ q = a
  BY <1>1, <1>5, <1>6, <1>7, <1>8 DEF Kept
<1>10. /\ \A i \in DOMAIN open : i \in DOMAIN open' /\ nodes'[open'[i]] = nodes[open[i]]
       /\ \A i \in DOMAIN open' : i \in DOMAIN open \/ nodes'[open'[i]] = n
       /\ \E i \in DOMAIN open' : nodes'[open'[i]] = n
  BY <1>1, OpenAppended
<1>11. Served'
  <2>1. \A q \in DOMAIN srv' \ {Root} : srv'[q] \in ServedNode
    BY <1>7, <1>8 DEF KeepInv, Served
  <2>2. ASSUME NEW i \in DOMAIN open', nodes'[open'[i]].path # Root
        PROVE  nodes'[open'[i]].kind = srv'[nodes'[open'[i]].path].kind
    <3>1. CASE nodes'[open'[i]] = n
      BY <1>2, <1>7, <1>8, <3>1
    <3>2. CASE i \in DOMAIN open
      BY <1>4, <1>8, <1>10, <2>2, <3>2 DEF KeepInv, Served
    <3> QED BY <1>10, <3>1, <3>2
  <2>3. ASSUME NEW i \in DOMAIN open', NEW p \in Seq(Nat) \ {Root},
               IsPrefix(p, nodes'[open'[i]].path)
        PROVE  Kept(p)'
    <3>1. CASE nodes'[open'[i]] = n
      <4>1. p = a \/ IsPrefix(p, Cur.path)
        BY <1>2, <1>4, <2>3, <3>1, FrontFacts
      <4>2. IsPrefix(p, Cur.path) => Kept(p)
        BY <1>1, LastOpen DEF KeepInv, Served
      <4> QED BY <1>9, <4>1, <4>2
    <3>2. CASE i \in DOMAIN open
      BY <1>9, <1>10, <2>3, <3>2 DEF KeepInv, Served
    <3> QED BY <1>10, <3>1, <3>2
  <2> QED BY <2>1, <2>2, <2>3 DEF Served
<1>12. CopiesFollow'
  BY <1>1, <1>7, <1>8 DEF KeepInv, CopiesFollow
<1>13. LossesNoted'
  <2> SUFFICES ASSUME NEW q \in DOMAIN srv' \ {Root}, NEW m \in Prop, Kept(q)',
                      srv'[q].props[m] # 0, Target[q].props[m] = 0
               PROVE  req.prefix \o q \in dropped
    BY <1>5 DEF LossesNoted
  <2>1. q # a
    BY <1>7, <1>8 DEF NoProps
  <2> QED BY <1>8, <1>9, <2>1 DEF KeepInv, LossesNoted
<1>14. PropsFollow'
  <2> SUFFICES ASSUME NEW q \in DOMAIN srv' \ {Root}, Kept(q)',
                      req'.prefix \o q \notin dropped'
               PROVE  /\ \A i \in DOMAIN open' : nodes'[open'[i]].path = q =>
                                               nodes'[open'[i]].props = srv'[q].props
                      /\ InNode(q)' \/ (q \in DOMAIN saved' /\ saved'[q] = srv'[q].props)
    BY DEF PropsFollow
  <2>1. CASE q = a
    <3>1. InNode(q)'
      BY <1>2, <1>10, <2>1 DEF InNode
    <3>2. ASSUME NEW i \in DOMAIN open', nodes'[open'[i]].path = q
          PROVE  nodes'[open'[i]].props = srv'[q].props
      <4>1. i \notin DOMAIN open
        BY <1>1, <1>4, <1>10, <2>1, <3>2
      <4> QED BY <1>2, <1>7, <1>8, <1>10, <2>1, <4>1
    <3> QED BY <3>1, <3>2
  <2>2. CASE q # a
    <3>1. q \in DOMAIN srv \ {Root} /\ Kept(q) /\ req.prefix \o q \notin dropped
      BY <1>5, <1>8, <1>9, <2>2
    <3>2. /\ \A i \in DOMAIN open : nodes[open[i]].path = q =>
                                   nodes[open[i]].props = srv[q].props
          /\ InNode(q) \/ (q \in DOMAIN saved /\ saved[q] = srv[q].props)
      BY <3>1 DEF KeepInv, PropsFollow
    <3>3. InNode(q) => InNode(q)'
      BY <1>10 DEF InNode
    <3>4. ASSUME NEW i \in DOMAIN open', nodes'[open'[i]].path = q
          PROVE  nodes'[open'[i]].props = srv'[q].props
      BY <1>2, <1>8, <1>10, <2>2, <3>1, <3>2, <3>4
    <3> QED BY <1>1, <1>8, <3>1, <3>2, <3>3, <3>4
  <2> QED BY <2>1, <2>2
<1>15. ASSUME RemoveInv, ~req.encoded PROVE Removal' /\ OnlyFiles'
  <2>1. Removal /\ OnlyFiles
    BY <1>15 DEF RemoveInv
  <2>2. ASSUME NEW q \in DOMAIN srv' \ {Root}, Gone(q)' PROVE q \in DeletedPaths
    <3>1. q \in DOMAIN srv /\ ~Kept(q) /\ srv[q].kind = "file" /\ q \in Seq(Nat)
      BY <1>3, <1>8, <1>9, <2>2 DEF Gone
    <3>2. ASSUME NEW p \in Seq(Nat) \ {Root}, IsStrictPrefix(p, q) PROVE Kept(p)
      <4>1. p # a
        BY <1>1, <1>3, <3>1, <3>2, TreeUp DEF Walk, IsStrictPrefix
      <4> QED BY <1>9, <2>2, <3>2, <4>1 DEF Gone
    <3> QED BY <1>1, <2>1, <3>1, <3>2 DEF Removal, Gone
  <2>3. OnlyFiles'
    BY <1>1, <1>5, <1>8, <2>1 DEF OnlyFiles
  <2> QED BY <1>5, <2>2, <2>3 DEF Removal
<1> QED BY <1>5, <1>11, <1>12, <1>13, <1>14, <1>15 DEF KeepInv, RemoveInv

LEMMA OpenKeeps ==
    ASSUME Inv, FollowInv, KeepInv, NEW a, NEW kind, OpenNode(a, kind)
    PROVE  KeepInv' /\ (RemoveInv => RemoveInv')
<1> DEFINE n == [delta_create_node(a, kind, "M") EXCEPT !.props = property_load(a)]
           k == Len(nodes) + 1
<1>1. /\ phase = "drive" /\ open # <<>> /\ a \in Entries /\ Kept(a)
      /\ Target[a].kind = kind /\ Called
      /\ nodes' = Append(nodes, n) /\ open' = Append(open, k)
      /\ srv' = srv /\ saved' = Without(saved, {a}) /\ delta_hash' = delta_hash
  BY DEF OpenNode, Ready, Opened
<1>2. n.path = a /\ n.kind = kind /\ n.props = property_load(a)
  BY DEF delta_create_node, delta_create_node_no_parent
<1> HIDE DEF n
<1>3. Walk /\ srv[a].kind = kind
  BY <1>1 DEF FollowInv, Kept
<1>4. /\ \A i \in DOMAIN open : ~IsPrefix(a, nodes[open[i]].path)
      /\ a \in Seq(Nat) /\ a # Root /\ Front(a) = Cur.path /\ IsPrefix(a, a)
  BY <1>1, <1>3, OpenPaths, PrefixSelf
<1>5. /\ req' = req /\ phase' = phase /\ driven' = driven /\ dropped' = dropped
      /\ Target' = Target /\ DeletedPaths' = DeletedPaths
  BY <1>1, CalledSame
<1>6. \A q : Kept(q)' <=> Kept(q)
  BY <1>1, <1>5 DEF Kept
<1>7. /\ \A i \in DOMAIN open : i \in DOMAIN open' /\ nodes'[open'[i]] = nodes[open[i]]
      /\ \A i \in DOMAIN open' : i \in DOMAIN open \/ nodes'[open'[i]] = n
      /\ \E i \in DOMAIN open' : nodes'[open'[i]] = n
  BY <1>1, OpenAppended
<1>8. Served'
  <2>1. \A q \in DOMAIN srv' \ {Root} : srv'[q] \in ServedNode
    BY <1>1 DEF KeepInv, Served
  <2>2. ASSUME NEW i \in DOMAIN open', nodes'[open'[i]].path # Root
        PROVE  nodes'[open'[i]].kind = srv'[nodes'[open'[i]].path].kind
    BY <1>1, <1>2, <1>3, <1>7, <2>2 DEF KeepInv, Served
  <2>3. ASSUME NEW i \in DOMAIN open', NEW p \in Seq(Nat) \ {Root},
               IsPrefix(p, nodes'[open'[i]].path)
        PROVE  Kept(p)'
    <3>1. CASE nodes'[open'[i]] = n
      <4>1. p = a \/ IsPrefix(p, Cur.path)
        BY <1>2, <1>4, <2>3, <3>1, FrontFacts
      <4>2. IsPrefix(p, Cur.path) => Kept(p)
        BY <1>1, LastOpen DEF KeepInv, Served
      <4> QED BY <1>1, <1>6, <4>1, <4>2
    <3>2. CASE i \in DOMAIN open
      BY <1>6, <1>7, <2>3, <3>2 DEF KeepInv, Served
    <3> QED BY <1>7, <3>1, <3>2
  <2> QED BY <2>1, <2>2, <2>3 DEF Served
<1>9. CopiesFollow' /\ LossesNoted'
  BY <1>1, <1>5, <1>6 DEF KeepInv, CopiesFollow, LossesNoted
<1>10. PropsFollow'
  <2> SUFFICES ASSUME NEW q \in DOMAIN srv' \ {Root}, Kept(q)',
                      req'.prefix \o q \notin dropped'
               PROVE  /\ \A i \in DOMAIN open' : nodes'[open'[i]].path = q =>
                                               nodes'[open'[i]].props = srv'[q].props
                      /\ InNode(q)' \/ (q \in DOMAIN saved' /\ saved'[q] = srv'[q].props)
    BY DEF PropsFollow
  <2>1. /\ \A i \in DOMAIN open : nodes[open[i]].path = q =>
                                 nodes[open[i]].props = srv[q].props
        /\ InNode(q) \/ (q \in DOMAIN saved /\ saved[q] = srv[q].props)
    BY <1>1, <1>5, <1>6 DEF KeepInv, PropsFollow
  <2>2. CASE q = a
    <3>1. ~InNode(a)
      BY <1>4 DEF InNode
    <3>2. property_load(a) = srv[a].props
      BY <2>1, <2>2, <3>1 DEF property_load
    <3>3. InNode(q)'
      BY <1>2, <1>7, <2>2 DEF InNode
    <3>4. ASSUME NEW i \in DOMAIN open', nodes'[open'[i]].path = q
          PROVE  nodes'[open'[i]].props = srv'[q].props
      BY <1>1, <1>2, <1>7, <2>1, <2>2, <3>2, <3>4
    <3> QED BY <3>3, <3>4
  <2>3. CASE q # a
    <3>1. InNode(q) => InNode(q)'
      BY <1>7 DEF InNode
    <3>2. q \in DOMAIN saved => q \in DOMAIN saved' /\ saved'[q] = saved[q]
      BY <1>1, <2>3 DEF Without
    <3>3. ASSUME NEW i \in DOMAIN open', nodes'[open'[i]].path = q
          PROVE  nodes'[open'[i]].props = srv'[q].props
      BY <1>1, <1>2, <1>7, <2>1, <2>3, <3>3
    <3> QED BY <1>1, <2>1, <3>1, <3>2, <3>3
  <2> QED BY <2>2, <2>3
<1>11. RemoveInv => RemoveInv'
  BY <1>1, <1>5, <1>6 DEF RemoveInv, Removal, Gone, OnlyFiles
<1> QED BY <1>8, <1>9, <1>10, <1>11 DEF KeepInv

\* A change of the current node leaves the places as they are.
LEMMA ChangedPlaces ==
    ASSUME Inv, open # <<>>, NEW n, nodes' = [nodes EXCEPT ![Last(open)] = n],
           n.path = Cur.path, n.kind = Cur.kind, open' = open
    PROVE  /\ \A i \in DOMAIN open : /\ nodes'[open[i]].path = nodes[open[i]].path
                                     /\ nodes'[open[i]].kind = nodes[open[i]].kind
           /\ \A i \in DOMAIN open : nodes[open[i]].path = Cur.path => nodes'[open[i]] = n
           /\ \A i \in DOMAIN open : nodes[open[i]].path # Cur.path =>
                                       nodes'[open[i]] = nodes[open[i]]
           /\ \A q : InNode(q)' <=> InNode(q)
<1>1. /\ Len(open) \in DOMAIN open /\ Last(open) = open[Len(open)]
      /\ Cur = nodes[open[Len(open)]] /\ Last(open) \in DOMAIN nodes
  BY LastOpen
<1>2. \A i \in DOMAIN open : nodes[open[i]].path = Cur.path => open[i] = Last(open)
  BY <1>1, OpenUnique DEF Inv
<1>3. \A i \in DOMAIN open : open[i] \in DOMAIN nodes
  BY DEF Inv, OpenOK
<1>4. \A i \in DOMAIN open : nodes[open[i]].path # Cur.path => open[i] # Last(open)
  BY <1>1
<1>5. \A i \in DOMAIN open : /\ open[i] = Last(open) => nodes'[open[i]] = n
                             /\ open[i] # Last(open) => nodes'[open[i]] = nodes[open[i]]
  BY <1>1, <1>3
<1>6. /\ \A i \in DOMAIN open : /\ nodes'[open[i]].path = nodes[open[i]].path
                                /\ nodes'[open[i]].kind = nodes[open[i]].kind
  BY <1>1, <1>5
<1>7. \A q : InNode(q)' <=> InNode(q)
  BY <1>6 DEF InNode
<1> QED BY <1>2, <1>4, <1>5, <1>6, <1>7

\* The place of the current node, unless it is the root.
LEMMA CurKept ==
    ASSUME Inv, FollowInv, KeepInv, open # <<>>, Cur.path # Root
    PROVE  /\ Cur.path \in DOMAIN srv \ {Root} /\ Kept(Cur.path)
           /\ Cur.path \in DOMAIN Target /\ Target[Cur.path] \in Node
           /\ srv[Cur.path] \in ServedNode /\ srv[Cur.path].kind = Cur.kind
<1>1. Len(open) \in DOMAIN open /\ Cur = nodes[open[Len(open)]]
  BY LastOpen
<1>2. Cur.path \in DOMAIN srv \ {Root} /\ Cur.path \in Seq(Nat)
  BY <1>1 DEF FollowInv, Walk, Inv, Placed
<1>3. Kept(Cur.path) /\ srv[Cur.path].kind = Cur.kind
  BY <1>1, <1>2, PrefixSelf DEF KeepInv, Served
<1>4. Cur.path \in DOMAIN Target
  BY <1>3 DEF Kept
<1> QED BY <1>2, <1>3, <1>4, TargetNodes DEF KeepInv, Served, FollowInv, Inv

LEMMA PropKeeps ==
    ASSUME Inv, FollowInv, KeepInv, NEW name \in Prop, NEW file, ChangeProp(name, file)
    PROVE  KeepInv' /\ (RemoveInv => RemoveInv')
<1> DEFINE c == Cur.path
           value == Target[c].props[name]
           n == WithProp(Cur, name, value)
<1>1. /\ phase = "drive" /\ open # <<>> /\ Called /\ open' = open
      /\ nodes' = [nodes EXCEPT ![Last(open)] = n] /\ name \in PropsLeft
      /\ saved' = saved /\ delta_hash' = delta_hash
  BY Zenon DEF ChangeProp, Cur
<1>2. srv' = [srv EXCEPT ![c].props[name] = value]
  BY Zenon DEF ChangeProp
<1>3. Fields \subseteq DOMAIN Cur
  BY <1>1, CurFacts DEF Inv, NodesOK, Cur
<1>4. /\ n.path = c /\ n.kind = Cur.kind
      /\ n.props = [Cur.props EXCEPT ![name] = IF value # 0 THEN value ELSE @]
  BY <1>3 DEF Fields, WithProp
<1>5. srv[c].props[name] # value
  BY <1>1 DEF PropsLeft
<1>6. /\ DOMAIN srv' = DOMAIN srv /\ \A q \in DOMAIN srv : q # c => srv'[q] = srv[q]
  BY <1>2
<1>7. c # Root => /\ c \in DOMAIN srv /\ Kept(c) /\ c \in DOMAIN Target
                  /\ value \in PropValue /\ srv[c] \in ServedNode
  BY <1>1, CurKept DEF Node
<1>8. ASSUME c # Root
      PROVE  /\ srv'[c] \in ServedNode /\ srv'[c].kind = srv[c].kind
             /\ srv'[c].text = srv[c].text
             /\ srv'[c].props = [srv[c].props EXCEPT ![name] = value]
  <2>1. srv'[c] = [srv[c] EXCEPT !.props[name] = value]
    BY <1>2, <1>7, <1>8
  <2>2. srv[c] \in ServedNode /\ value \in PropValue
    BY <1>7, <1>8
  <2> HIDE DEF value, c
  <2> QED BY <2>1, <2>2 DEF ServedNode
<1>9. /\ req' = req /\ phase' = phase /\ driven' = driven /\ dropped' = dropped
      /\ Target' = Target /\ DeletedPaths' = DeletedPaths
  BY <1>1, CalledSame
<1> HIDE DEF n, value, c
<1>10. \A q \in DOMAIN srv \ {Root} : srv'[q].kind = srv[q].kind /\ srv'[q].text = srv[q].text
  BY <1>6, <1>8
<1>11. \A q : q # Root => (Kept(q)' <=> Kept(q))
  BY <1>6, <1>9, <1>10 DEF Kept
<1>12. /\ \A i \in DOMAIN open : /\ nodes'[open[i]].path = nodes[open[i]].path
                                 /\ nodes'[open[i]].kind = nodes[open[i]].kind
       /\ \A i \in DOMAIN open : nodes[open[i]].path = c => nodes'[open[i]] = n
       /\ \A i \in DOMAIN open : nodes[open[i]].path # c =>
                                   nodes'[open[i]] = nodes[open[i]]
       /\ \A q : InNode(q)' <=> InNode(q)
  BY <1>1, <1>4, ChangedPlaces DEF c
<1>13. Served'
  <2>1. \A q \in DOMAIN srv' \ {Root} : srv'[q] \in ServedNode
    BY <1>6, <1>8 DEF KeepInv, Served
  <2>2. \A i \in DOMAIN open : nodes[open[i]].path \in DOMAIN srv
    BY DEF FollowInv, Walk
  <2>3. ASSUME NEW i \in DOMAIN open', nodes'[open'[i]].path # Root
        PROVE  nodes'[open'[i]].kind = srv'[nodes'[open'[i]].path].kind
    BY <1>1, <1>10, <1>12, <2>2, <2>3 DEF KeepInv, Served
  <2>4. ASSUME NEW i \in DOMAIN open', NEW p \in Seq(Nat) \ {Root},
               IsPrefix(p, nodes'[open'[i]].path)
        PROVE  Kept(p)'
    BY <1>1, <1>11, <1>12, <2>4 DEF KeepInv, Served
  <2> QED BY <2>1, <2>3, <2>4 DEF Served
<1>14. CopiesFollow'
  BY <1>1, <1>6, <1>10 DEF KeepInv, CopiesFollow
<1>15. c # Root /\ value = 0 => req.prefix \o c \in dropped
  BY <1>5, <1>7 DEF KeepInv, LossesNoted, value
<1>16. LossesNoted'
  <2> SUFFICES ASSUME NEW q \in DOMAIN srv' \ {Root}, NEW m \in Prop, Kept(q)',
                      srv'[q].props[m] # 0, Target[q].props[m] = 0
               PROVE  req.prefix \o q \in dropped
    BY <1>9 DEF LossesNoted
  <2>1. CASE q = c /\ m = name
    BY <1>15, <2>1 DEF value
  <2>2. CASE ~(q = c /\ m = name)
    <3>1. q = c => srv'[q].props[m] = srv[q].props[m]
      BY <1>7, <1>8, <2>2 DEF ServedNode
    <3>2. srv[q].props[m] # 0
      BY <1>6, <3>1
    <3> QED BY <1>6, <1>11, <3>2 DEF KeepInv, LossesNoted
  <2> QED BY <2>1, <2>2
<1>17. PropsFollow'
  <2> SUFFICES ASSUME NEW q \in DOMAIN srv' \ {Root}, Kept(q)',
                      req'.prefix \o q \notin dropped'
               PROVE  /\ \A i \in DOMAIN open' : nodes'[open'[i]].path = q =>
                                               nodes'[open'[i]].props = srv'[q].props
                      /\ InNode(q)' \/ (q \in DOMAIN saved' /\ saved'[q] = srv'[q].props)
    BY DEF PropsFollow
  <2>1. /\ \A i \in DOMAIN open : nodes[open[i]].path = q =>
                                 nodes[open[i]].props = srv[q].props
        /\ InNode(q) \/ (q \in DOMAIN saved /\ saved[q] = srv[q].props)
    BY <1>6, <1>9, <1>11 DEF KeepInv, PropsFollow
  <2>2. CASE q = c
    <3>1. InNode(c) /\ Cur.props = srv[c].props
      <4>1. Len(open) \in DOMAIN open /\ Cur = nodes[open[Len(open)]]
        BY <1>1, LastOpen
      <4> QED BY <2>1, <2>2, <4>1 DEF InNode, c
    <3>2. n.props = srv'[c].props
      BY <1>4, <1>8, <1>9, <1>15, <2>2, <3>1
    <3> QED BY <1>1, <1>12, <2>2, <3>1, <3>2
  <2>3. CASE q # c
    BY <1>1, <1>6, <1>12, <2>1, <2>3
  <2> QED BY <2>2, <2>3
<1>18. ASSUME RemoveInv, ~req.encoded PROVE Removal' /\ OnlyFiles'
  <2>1. Removal /\ OnlyFiles
    BY <1>18 DEF RemoveInv
  <2>2. \A q \in DOMAIN srv' \ {Root} : Gone(q)' => Gone(q)
    BY <1>6, <1>10, <1>11 DEF Gone
  <2> QED BY <1>1, <1>6, <1>9, <1>10, <2>1, <2>2 DEF Removal, OnlyFiles
<1> QED BY <1>9, <1>13, <1>14, <1>16, <1>17, <1>18 DEF KeepInv, RemoveInv

\* A delta for a new file has no base, and any other one the content that is in
\* the local copy.
LEMMA TextKeeps ==
    ASSUME Inv, FollowInv, KeepInv, de_apply_textdelta
    PROVE  KeepInv' /\ (RemoveInv => RemoveInv')
<1> DEFINE c == Cur.path
           old == IF c \in DOMAIN delta_hash THEN delta_hash[c] ELSE NoText
           new == ApplyDelta([base |-> srv[c].text, target |-> Target[c].text], old)
           n == [Cur EXCEPT !.file = new, !.old = old, !.md5 = new,
                            !.applied = TRUE, !.needed = TRUE]
<1>1. /\ phase = "drive" /\ open # <<>> /\ Called /\ open' = open /\ Cur.kind = "file"
      /\ nodes' = [nodes EXCEPT ![Last(open)] = n] /\ saved' = saved
      /\ delta_hash' = Put(delta_hash, c, new)
      /\ srv' = [srv EXCEPT ![c] = [@ EXCEPT !.text = Target[c].text]]
  BY DEF de_apply_textdelta, Ready, Cur
<1>2. c # Root
  <2>1. Last(open) \in DOMAIN nodes /\ Cur = nodes[Last(open)]
    BY <1>1, LastOpen DEF Cur
  <2> QED BY <1>1, <2>1 DEF FollowInv, Walk
<1>3. /\ c \in DOMAIN srv \ {Root} /\ Kept(c) /\ c \in DOMAIN Target
      /\ Target[c] \in Node /\ srv[c] \in ServedNode /\ srv[c].kind = "file"
  BY <1>1, <1>2, CurKept
<1>4. new = Target[c].text
  <2>1. CASE srv[c].text = Empty
    BY <2>1 DEF ApplyDelta
  <2>2. CASE srv[c].text # Empty
    <3>1. old = srv[c].text
      BY <1>3, <2>2 DEF KeepInv, CopiesFollow
    <3> QED BY <3>1 DEF ApplyDelta
  <2> QED BY <2>1, <2>2
<1> HIDE DEF old, new
<1>5. Fields \subseteq DOMAIN Cur
  BY <1>1, CurFacts DEF Inv, NodesOK, Cur
<1>6. n.path = c /\ n.kind = Cur.kind /\ n.props = Cur.props
  BY <1>5 DEF Fields
<1> HIDE DEF n
<1>7. /\ DOMAIN srv' = DOMAIN srv /\ (\A q \in DOMAIN srv : q # c => srv'[q] = srv[q])
      /\ srv'[c] = [srv[c] EXCEPT !.text = Target[c].text]
  BY <1>1, <1>3
<1>8. /\ srv'[c] \in ServedNode /\ srv'[c].kind = srv[c].kind
      /\ srv'[c].props = srv[c].props /\ srv'[c].text = Target[c].text
  <2> HIDE DEF c
  <2>1. Target[c].text \in Text \cup {NoText}
    BY <1>3 DEF Node
  <2> QED BY <1>3, <1>7, <2>1 DEF ServedNode
<1>9. /\ req' = req /\ phase' = phase /\ driven' = driven /\ dropped' = dropped
      /\ Target' = Target /\ DeletedPaths' = DeletedPaths
  BY <1>1, CalledSame
<1>10. /\ DOMAIN delta_hash' = DOMAIN delta_hash \cup {c}
       /\ delta_hash'[c] = Target[c].text
       /\ \A q \in DOMAIN delta_hash : q # c => delta_hash'[q] = delta_hash[q]
  BY <1>1, <1>4 DEF Put
<1>11. /\ \A i \in DOMAIN open : /\ nodes'[open[i]].path = nodes[open[i]].path
                                 /\ nodes'[open[i]].kind = nodes[open[i]].kind
       /\ \A i \in DOMAIN open : nodes[open[i]].path = c => nodes'[open[i]] = n
       /\ \A i \in DOMAIN open : nodes[open[i]].path # c =>
                                   nodes'[open[i]] = nodes[open[i]]
       /\ \A q : InNode(q)' <=> InNode(q)
  BY <1>1, <1>6, ChangedPlaces
<1> HIDE DEF c
<1>12. \A q \in DOMAIN srv : srv'[q].kind = srv[q].kind /\ srv'[q].props = srv[q].props
  BY <1>7, <1>8
<1>13. \A q : Kept(q)' <=> Kept(q)
  BY <1>7, <1>9, <1>12 DEF Kept
<1>14. Served'
  <2>1. \A q \in DOMAIN srv' \ {Root} : srv'[q] \in ServedNode
    BY <1>7, <1>8 DEF KeepInv, Served
  <2>2. \A i \in DOMAIN open : nodes[open[i]].path \in DOMAIN srv
    BY DEF FollowInv, Walk
  <2>3. ASSUME NEW i \in DOMAIN open', nodes'[open'[i]].path # Root
        PROVE  nodes'[open'[i]].kind = srv'[nodes'[open'[i]].path].kind
    BY <1>1, <1>11, <1>12, <2>2, <2>3 DEF KeepInv, Served
  <2>4. ASSUME NEW i \in DOMAIN open', NEW p \in Seq(Nat) \ {Root},
               IsPrefix(p, nodes'[open'[i]].path)
        PROVE  Kept(p)'
    BY <1>1, <1>11, <1>13, <2>4 DEF KeepInv, Served
  <2> QED BY <2>1, <2>3, <2>4 DEF Served
<1>15. CopiesFollow'
  BY <1>7, <1>8, <1>10 DEF KeepInv, CopiesFollow
<1>16. LossesNoted'
  BY <1>7, <1>9, <1>12, <1>13 DEF KeepInv, LossesNoted
<1>17. PropsFollow'
  <2> SUFFICES ASSUME NEW q \in DOMAIN srv' \ {Root}, Kept(q)',
                      req'.prefix \o q \notin dropped'
               PROVE  /\ \A i \in DOMAIN open' : nodes'[open'[i]].path = q =>
                                               nodes'[open'[i]].props = srv'[q].props
                      /\ InNode(q)' \/ (q \in DOMAIN saved' /\ saved'[q] = srv'[q].props)
    BY DEF PropsFollow
  <2>1. /\ \A i \in DOMAIN open : nodes[open[i]].path = q =>
                                 nodes[open[i]].props = srv[q].props
        /\ InNode(q) \/ (q \in DOMAIN saved /\ saved[q] = srv[q].props)
        /\ srv'[q].props = srv[q].props
    BY <1>7, <1>9, <1>12, <1>13 DEF KeepInv, PropsFollow
  <2>2. CASE q = c
    <3>1. n.props = srv'[q].props
      <4>1. Len(open) \in DOMAIN open /\ Cur = nodes[open[Len(open)]]
        BY <1>1, LastOpen
      <4> QED BY <1>6, <2>1, <2>2, <4>1 DEF c
    <3> QED BY <1>1, <1>11, <2>1, <2>2, <3>1
  <2>3. CASE q # c
    BY <1>1, <1>11, <2>1, <2>3
  <2> QED BY <2>2, <2>3
<1>18. ASSUME RemoveInv, ~req.encoded PROVE Removal' /\ OnlyFiles'
  <2>1. Removal /\ OnlyFiles
    BY <1>18 DEF RemoveInv
  <2>2. \A q \in DOMAIN srv' \ {Root} : Gone(q)' => Gone(q)
    BY <1>7, <1>12, <1>13 DEF Gone
  <2> QED BY <1>1, <1>3, <1>7, <1>9, <1>10, <1>12, <2>1, <2>2 DEF Removal, OnlyFiles
<1> QED BY <1>9, <1>14, <1>15, <1>16, <1>17, <1>18 DEF KeepInv, RemoveInv

LEMMA CloseKeeps ==
    ASSUME Inv, FollowInv, KeepInv, open # <<>>, CloseNode
    PROVE  KeepInv' /\ (RemoveInv => RemoveInv')
<1> DEFINE c == Cur.path
<1>1. /\ Called /\ nodes' = nodes /\ srv' = srv /\ delta_hash' = delta_hash
      /\ saved' = Put(saved, c, Cur.props) /\ open' = Front(open)
  BY DEF CloseNode
<1>2. /\ req' = req /\ phase' = phase /\ driven' = driven /\ dropped' = dropped
      /\ Target' = Target /\ DeletedPaths' = DeletedPaths
  BY <1>1, CalledSame
<1>3. Len(open) \in Nat \ {0} /\ open \in Seq(Nat) /\ DOMAIN open = 1 .. Len(open)
  BY DEF Inv, OpenOK
<1>4. /\ DOMAIN open' = 1 .. Len(open) - 1
      /\ \A i \in 1 .. Len(open) - 1 : open'[i] = open[i]
  BY <1>1, <1>3 DEF Front
<1>5. /\ \A i \in DOMAIN open' : i \in DOMAIN open /\ open'[i] = open[i]
      /\ \A i \in DOMAIN open : i # Len(open) => i \in DOMAIN open'
  BY <1>3, <1>4
<1>6. Len(open) \in DOMAIN open /\ Cur = nodes[open[Len(open)]]
  BY LastOpen
<1>7. \A q : Kept(q)' <=> Kept(q)
  BY <1>1, <1>2 DEF Kept
<1>8. /\ DOMAIN saved' = DOMAIN saved \cup {c} /\ saved'[c] = Cur.props
      /\ \A q \in DOMAIN saved : q # c => saved'[q] = saved[q]
  BY <1>1 DEF Put
<1>9. Served'
  <2>1. \A q \in DOMAIN srv' \ {Root} : srv'[q] \in ServedNode
    BY <1>1 DEF KeepInv, Served
  <2>2. ASSUME NEW i \in DOMAIN open', nodes'[open'[i]].path # Root
        PROVE  nodes'[open'[i]].kind = srv'[nodes'[open'[i]].path].kind
    BY <1>1, <1>5, <2>2 DEF KeepInv, Served
  <2>3. ASSUME NEW i \in DOMAIN open', NEW p \in Seq(Nat) \ {Root},
               IsPrefix(p, nodes'[open'[i]].path)
        PROVE  Kept(p)'
    BY <1>1, <1>5, <1>7, <2>3 DEF KeepInv, Served
  <2> QED BY <2>1, <2>2, <2>3 DEF Served
<1>10. CopiesFollow' /\ LossesNoted'
  BY <1>1, <1>2, <1>7 DEF KeepInv, CopiesFollow, LossesNoted
<1>11. PropsFollow'
  <2> SUFFICES ASSUME NEW q \in DOMAIN srv' \ {Root}, Kept(q)',
                      req'.prefix \o q \notin dropped'
               PROVE  /\ \A i \in DOMAIN open' : nodes'[open'[i]].path = q =>
                                               nodes'[open'[i]].props = srv'[q].props
                      /\ InNode(q)' \/ (q \in DOMAIN saved' /\ saved'[q] = srv'[q].props)
    BY DEF PropsFollow
  <2>1. /\ \A i \in DOMAIN open : nodes[open[i]].path = q =>
                                 nodes[open[i]].props = srv[q].props
        /\ InNode(q) \/ (q \in DOMAIN saved /\ saved[q] = srv[q].props)
    BY <1>1, <1>2, <1>7 DEF KeepInv, PropsFollow
  <2>2. \A i \in DOMAIN open' : nodes'[open'[i]].path = q =>
                                  nodes'[open'[i]].props = srv'[q].props
    BY <1>1, <1>5, <2>1
  <2>3. CASE q = c
    BY <1>1, <1>6, <1>8, <2>1, <2>2, <2>3
  <2>4. CASE q # c
    <3>1. InNode(q) => InNode(q)'
      BY <1>1, <1>5, <1>6, <2>4 DEF InNode
    <3> QED BY <1>1, <1>8, <2>1, <2>2, <2>4, <3>1
  <2> QED BY <2>3, <2>4
<1>12. RemoveInv => RemoveInv'
  BY <1>1, <1>2, <1>7 DEF RemoveInv, Removal, Gone, OnlyFiles
<1> QED BY <1>9, <1>10, <1>11, <1>12 DEF KeepInv

\* When the edit is closed, no file that is there is among the deleted paths.
LEMMA CloseEditKeeps ==
    ASSUME Inv, FollowInv, KeepInv, de_close_edit
    PROVE  KeepInv' /\ (RemoveInv => RemoveInv')
<1>1. /\ UNCHANGED <<repo, changes, req, driven, open, srv, saved, dropped>>
      /\ phase = "drive" /\ nodes # <<>> /\ open = <<>> /\ phase' = "load"
      /\ delta_hash' = Without(delta_hash, DeletedPaths)
  BY DEF de_close_edit, svnvars, result
<1>2. Target' = Target
  BY <1>1 DEF Target, SessionTree, InSession, Tree, Youngest, Within, Stripped
<1>3. \A q : Kept(q)' <=> Kept(q)
  BY <1>1, <1>2 DEF Kept
<1>4. DOMAIN open = {} /\ DOMAIN open' = {}
  BY <1>1
<1>5. Agree /\ Committed /\ Trees /\ Explained
  BY <1>1 DEF FollowInv, Walk, Inv
<1>6. ASSUME NEW q \in DOMAIN srv \ {Root}, q \in DeletedPaths PROVE FALSE
  <2>1. q \in DOMAIN Target
    BY <1>5, <1>6, TargetIsTree DEF Agree, Described
  <2>2. req.prefix \o q \in DOMAIN Base
    BY <1>5, <2>1, TargetNodes
  <2>3. q \in DOMAIN InSession(changes) /\ InSession(changes)[q].action = "D"
    <3>1. ~req.encoded
      <4>1. ASSUME req.encoded PROVE FALSE
        <5>1. log_receiver = <<>>
          BY <4>1 DEF log_receiver
        <5> QED BY <1>6, <5>1 DEF DeletedPaths
      <4> QED BY <4>1
    <3> QED BY <1>6, <3>1 DEF DeletedPaths, log_receiver
  <2>4. req.prefix \o q \in DOMAIN changes
    BY <1>5, <2>3, BaseFacts, InSessionIff DEF Committed
  <2>5. changes[req.prefix \o q].action = "D"
    BY <2>3 DEF InSession
  <2> QED BY <1>1, <1>5, <2>2, <2>4, <2>5 DEF Explained
<1>7. \A q \in DOMAIN srv \ {Root} : q \in DOMAIN delta_hash =>
         q \in DOMAIN delta_hash' /\ delta_hash'[q] = delta_hash[q]
  BY <1>1, <1>6 DEF Without
<1>8. Served' /\ CopiesFollow' /\ LossesNoted'
  BY <1>1, <1>2, <1>3, <1>4, <1>7 DEF KeepInv, Served, CopiesFollow, LossesNoted
<1>9. PropsFollow'
  BY <1>1, <1>3, <1>4 DEF KeepInv, PropsFollow, InNode
<1>10. ASSUME RemoveInv, ~req.encoded PROVE Removal' /\ OnlyFiles'
  <2>1. OnlyFiles
    BY <1>10 DEF RemoveInv
  <2>2. \A q \in DOMAIN delta_hash' : q \in DOMAIN delta_hash /\ q \notin DeletedPaths
    BY <1>1 DEF Without
  <2>3. OnlyFiles'
    BY <1>1, <2>1, <2>2 DEF OnlyFiles
  <2> QED BY <1>1, <2>3 DEF Removal
<1> QED BY <1>1, <1>8, <1>9, <1>10 DEF KeepInv, RemoveInv

\* Between the edits nothing changes but the log.
LEMMA IdleKeeps ==
    ASSUME Inv, FollowInv, KeepInv, Edit \/ EndRevision
    PROVE  KeepInv' /\ (RemoveInv => RemoveInv')
<1>1. /\ UNCHANGED <<repo, req, nodes, open, srv, saved, delta_hash, dropped>>
      /\ phase # "drive" /\ phase' = "commit"
      /\ (phase = "commit" /\ driven' = driven) \/ driven'
  BY DEF Edit, EndRevision, editor, result
<1>2. Target' = Target
  BY <1>1 DEF Target, SessionTree, InSession, Tree, Youngest, Within, Stripped
<1>3. \A q : Kept(q)' <=> Kept(q)
  BY <1>1, <1>2 DEF Kept
<1>4. \A q : InNode(q)' <=> InNode(q)
  BY <1>1 DEF InNode
<1>5. Served' /\ CopiesFollow' /\ LossesNoted'
  BY <1>1, <1>2, <1>3 DEF KeepInv, Served, CopiesFollow, LossesNoted
<1>6. PropsFollow'
  BY <1>1, <1>3, <1>4 DEF KeepInv, PropsFollow
<1>7. RemoveInv => RemoveInv'
  BY <1>1 DEF RemoveInv, Removal, OnlyFiles
<1> QED BY <1>5, <1>6, <1>7 DEF KeepInv

LEMMA PrefixCancel ==
    ASSUME NEW x \in Seq(Nat), NEW c \in Seq(Nat), NEW q \in Seq(Nat),
           IsPrefix(x \o c, x \o q)
    PROVE  IsPrefix(c, q)
<1> DEFINE u == x \o c
           v == x \o q
<1>1. /\ u \in Seq(Nat) /\ Len(u) = Len(x) + Len(c)
      /\ \A i \in 1 .. Len(c) : u[Len(x) + i] = c[i]
  BY ConcatFacts
<1>2. /\ v \in Seq(Nat) /\ Len(v) = Len(x) + Len(q)
      /\ \A i \in 1 .. Len(q) : v[Len(x) + i] = q[i]
  BY ConcatFacts
<1>3. Len(x) \in Nat /\ Len(c) \in Nat /\ Len(q) \in Nat
  OBVIOUS
<1> HIDE DEF u, v
<1>4. Len(u) <= Len(v) /\ \A i \in 1 .. Len(u) : u[i] = v[i]
  BY <1>1, <1>2, PrefixAt DEF u, v
<1>5. Len(c) <= Len(q)
  BY <1>1, <1>2, <1>3, <1>4
<1>6. ASSUME NEW i \in 1 .. Len(c) PROVE c[i] = q[i]
  <2>1. Len(x) + i \in 1 .. Len(u) /\ i \in 1 .. Len(q)
    BY <1>1, <1>3, <1>5
  <2> QED BY <1>1, <1>2, <1>4, <2>1
<1> QED BY <1>5, <1>6, PrefixAt

\* A file that goes from a directory that stays is in the log itself, unless it is
\* replaced by a directory or lost with what the directory replaces.
LEMMA RemovedFile ==
    ASSUME Committed, Trees, Explains(txn, Base, changes, req.prefix),
           Kinds \subseteq Allowed, "kind" \notin Allowed, "replaced" \notin Allowed,
           req.prefix \in DOMAIN Base,
           NEW q \in Seq(Nat) \ {Root}, req.prefix \o q \in DOMAIN Base,
           Base[req.prefix \o q].kind = "file", ~Opens(req.prefix \o q),
           \A p \in Seq(Nat) \ {Root} : IsStrictPrefix(p, q) => Opens(req.prefix \o p)
    PROVE  /\ req.prefix \o q \in DOMAIN changes
           /\ changes[req.prefix \o q].action = "D"
<1> DEFINE x == req.prefix
           r == x \o q
<1>1. x \in Seq(Nat) /\ DOMAIN changes \subseteq Seq(Nat) /\ req \in Requests
  BY BaseFacts DEF Committed
<1>2. /\ r \in Seq(Nat) /\ IsPrefix(x, r) /\ r # x /\ r # Root
  <2>1. r \in Seq(Nat) /\ IsPrefix(x, r) /\ Len(r) = Len(x) + Len(q)
    BY <1>1, ConcatFacts
  <2>2. Len(x) \in Nat /\ Len(q) \in Nat /\ Len(q) # 0
    BY <1>1 DEF Root
  <2>3. Len(r) # Len(x) /\ Len(r) # 0
    <3> HIDE DEF r, x
    <3> QED BY <2>1, <2>2
  <2>4. Len(Root) = 0
    BY DEF Root
  <2> HIDE DEF r, x
  <2> QED BY <2>1, <2>3, <2>4
<1>3. r \in DOMAIN Base /\ Base[r].kind = "file" /\ ~Opens(r)
  OBVIOUS
<1> HIDE DEF r
<1>4. PICK c \in DOMAIN changes : IsPrefix(c, r) /\ Removes(changes, c)
  BY <1>2, <1>3 DEF Explains, RemovesOld, Opens
<1>5. c \in Seq(Nat)
  BY <1>1, <1>4
<1>6. /\ changes[c].action = "D" => c \notin DOMAIN txn
      /\ changes[c].action = "R" => c \in DOMAIN txn
      /\ changes[c].action \in {"R", "D"}
  BY <1>4 DEF Explains, LogTrue, Removes
<1>7. x \in DOMAIN txn /\ ~IsStrictPrefix(c, x) /\ Opens(x)
  <2>1. x \in DOMAIN txn /\ ~IsStrictPrefix(c, x)
    BY <1>6 DEF Explains, StaysInPlace
  <2> QED BY <2>1 DEF Opens, Trees
<1>8. ASSUME IsStrictPrefix(c, r), Opens(c) PROVE FALSE
  <2>1. changes[c].action = "R"
    BY <1>6, <1>8 DEF Opens
  <2>2. "replaced" \in SpecialKinds
    BY DEF SpecialKinds
  <2>3. "replaced" \in Kinds
    BY <1>3, <1>4, <1>8, <2>1, <2>2 DEF Kinds
  <2> QED BY <2>3
<1>9. c # x
  BY <1>2, <1>4, <1>7, <1>8 DEF IsStrictPrefix
<1>10. IsPrefix(x, c)
  <2>1. IsPrefix(x, c) \/ IsPrefix(c, x)
    BY <1>1, <1>2, <1>4, <1>5, PrefixLinear
  <2> QED BY <1>7, <1>9, <2>1 DEF IsStrictPrefix
<1> DEFINE p == Stripped(c)
<1>11. p \in Seq(Nat) /\ x \o p = c
  BY <1>1, <1>5, <1>10, StrippedType
<1> HIDE DEF p
<1>12. p # Root
  <2>1. x \o Root = x
    BY <1>1 DEF Root
  <2> QED BY <1>9, <1>11, <2>1
<1>13. IsPrefix(p, q)
  BY <1>1, <1>4, <1>11, PrefixCancel DEF r
<1>14. CASE p # q
  <2>1. Opens(c)
    BY <1>11, <1>12, <1>13, <1>14 DEF IsStrictPrefix
  <2>2. c # r
    BY <1>3, <2>1
  <2> QED BY <1>4, <1>8, <2>1, <2>2 DEF IsStrictPrefix
<1>15. CASE p = q
  <2>1. c = r
    BY <1>11, <1>15 DEF r
  <2>2. changes[c].action # "R"
    <3> SUFFICES ASSUME changes[c].action = "R" PROVE FALSE
      OBVIOUS
    <3>1. c \in DOMAIN Base /\ c \in DOMAIN txn /\ Base[c].kind # txn[c].kind
      BY <1>3, <1>6, <2>1 DEF Opens
    <3>2. "kind" \in SpecialKinds
      BY DEF SpecialKinds
    <3>3. "kind" \in Kinds
      BY <1>4, <3>1, <3>2 DEF Kinds
    <3> QED BY <3>3
  <2> QED BY <1>4, <1>6, <2>1, <2>2 DEF r
<1> QED BY <1>14, <1>15

\* A commit that the server is asked for starts from what has been described.
LEMMA CommitKeeps ==
    ASSUME Inv, FollowInv, KeepInv, Commit
    PROVE  /\ KeepInv'
           /\ "kind" \notin Allowed /\ "replaced" \notin Allowed /\ RemoveInv => RemoveInv'
<1> DEFINE x == req.prefix
<1>1. /\ phase = "commit" /\ Kinds \subseteq Allowed /\ phase' \in {"commit", "drive"}
      /\ UNCHANGED <<txn, req, driven, nodes, open, saved, delta_hash>>
      /\ repo' = Append(repo, txn) /\ srv' = (IF driven THEN srv ELSE EmptyTree)
      /\ phase' = "drive" => changes' = Reported
      /\ dropped' = {q \in DOMAIN txn : Opens(q) /\ (q \in dropped \/ q \in Lost)}
  BY DEF Commit
<1>2. /\ Committed /\ Trees /\ Walk /\ Started /\ Explains(txn, Base, changes, x)
      /\ DOMAIN srv \subseteq Seq(Nat)
  BY <1>1 DEF Inv, FollowInv, Explained, Placed
<1>3. x \in Seq(Nat) /\ req \in Requests /\ DOMAIN txn \subseteq Seq(Nat)
      /\ DOMAIN changes \subseteq Seq(Nat)
  BY <1>2, BaseFacts DEF Committed
<1>4. Base' = txn /\ Target' = InSession(txn)
  <2>1. /\ Len(repo) \in Nat /\ Len(repo') = Len(repo) + 1
        /\ repo'[Len(repo) + 1] = txn
    BY <1>1, <1>2, ListFacts DEF Committed
  <2>2. Youngest' = Len(repo)
    BY <2>1 DEF Youngest
  <2>3. Base' = txn
    BY <2>1, <2>2 DEF Base, Tree
  <2>4. InSession(txn)' = InSession(txn)
    BY <1>1 DEF InSession, Within, Stripped
  <2>5. Target' = InSession(txn)'
    BY <1>1, <2>3 DEF Target, SessionTree, Base
  <2> QED BY <2>3, <2>4, <2>5
<1>5. open' = <<>> /\ open = <<>> /\ DOMAIN open' = {} /\ DOMAIN open = {}
  BY <1>1, <1>2 DEF Walk
<1>6. CASE ~driven
  <2>1. DOMAIN srv' = {Root}
    BY <1>1, <1>6 DEF EmptyTree
  <2>2. Served' /\ CopiesFollow' /\ PropsFollow' /\ LossesNoted'
    BY <1>5, <2>1 DEF Served, CopiesFollow, PropsFollow, LossesNoted
  <2>3. ASSUME RemoveInv, ~req.encoded PROVE Removal' /\ OnlyFiles'
    <3>1. DOMAIN delta_hash = {}
      BY <1>1, <1>6, <2>3 DEF RemoveInv, OnlyFiles
    <3> QED BY <1>1, <2>1, <3>1 DEF Removal, OnlyFiles
  <2> QED BY <1>1, <2>2, <2>3 DEF KeepInv, RemoveInv
<1>7. CASE driven
  <2>1. srv' = srv /\ Agree /\ Begun
    BY <1>1, <1>2, <1>7 DEF Started
  <2>2. ASSUME NEW q \in DOMAIN srv \ {Root}
        PROVE  /\ q \in Seq(Nat) /\ x \o q \in DOMAIN Base /\ srv[q] = Base[x \o q]
               /\ Kept(q)
    <3>1. q \in DOMAIN Target /\ srv[q] = Target[q]
      BY <1>2, <2>1, TargetIsTree DEF Agree, Described
    <3> QED BY <1>2, <3>1, TargetNodes DEF Kept
  <2>3. \A q : q \in DOMAIN Target' => Target'[q] = txn[x \o q]
    BY <1>4 DEF InSession
  <2>4. \A q : q \in DOMAIN Target' <=> q \in Seq(Nat) /\ x \o q \in DOMAIN txn
    BY <1>3, <1>4, InSessionIff
  <2>5. ASSUME NEW q \in DOMAIN srv \ {Root} PROVE Kept(q)' <=> Opens(x \o q)
    BY <2>1, <2>2, <2>3, <2>4 DEF Kept, Opens
  <2>6. Served' /\ CopiesFollow'
    BY <1>1, <1>5, <2>1 DEF KeepInv, Served, CopiesFollow
  <2>7. PropsFollow'
    <3> SUFFICES ASSUME NEW q \in DOMAIN srv \ {Root}, Kept(q)', x \o q \notin dropped'
                 PROVE  q \in DOMAIN saved /\ saved[q] = srv[q].props
      BY <1>1, <1>5, <2>1 DEF PropsFollow
    <3>1. Opens(x \o q) /\ x \o q \in DOMAIN txn
      BY <2>5 DEF Opens
    <3>2. x \o q \notin dropped
      BY <1>1, <3>1
    <3>3. Kept(q) /\ ~InNode(q)
      BY <1>5, <2>2 DEF InNode
    <3> QED BY <3>2, <3>3 DEF KeepInv, PropsFollow
  <2>8. LossesNoted'
    <3> SUFFICES ASSUME NEW q \in DOMAIN srv \ {Root}, NEW m \in Prop, Kept(q)',
                        srv[q].props[m] # 0, Target'[q].props[m] = 0
                 PROVE  x \o q \in dropped'
      BY <1>1, <2>1 DEF LossesNoted
    <3>1. Opens(x \o q) /\ x \o q \in DOMAIN txn /\ x \o q \in DOMAIN Base
      BY <2>5 DEF Opens
    <3>2. Base[x \o q].props[m] # 0 /\ txn[x \o q].props[m] = 0
      BY <2>2, <2>3, <2>4, <3>1
    <3>3. x \o q \in Lost
      BY <3>1, <3>2 DEF Lost, LostProps
    <3> QED BY <1>1, <3>1, <3>3
  <2>9. ASSUME "kind" \notin Allowed, "replaced" \notin Allowed, RemoveInv, ~req.encoded
        PROVE  Removal' /\ OnlyFiles'
    <3>1. ASSUME phase' = "drive", NEW q \in DOMAIN srv \ {Root}, Gone(q)'
          PROVE  q \in DeletedPaths'
      <4>1. srv[q].kind = "file" /\ ~Kept(q)'
            /\ \A p \in Seq(Nat) \ {Root} : IsStrictPrefix(p, q) => Kept(p)'
        BY <2>1, <3>1 DEF Gone
      <4>2. /\ q \in Seq(Nat) \ {Root} /\ x \o q \in DOMAIN Base
            /\ Base[x \o q].kind = "file" /\ ~Opens(x \o q)
        BY <2>2, <2>5, <3>1, <4>1
      <4>3. ASSUME NEW p \in Seq(Nat) \ {Root}, IsStrictPrefix(p, q)
            PROVE  Opens(x \o p)
        <5>1. Kept(p)' /\ p \in DOMAIN srv \ {Root}
          BY <2>1, <4>1, <4>3 DEF Kept
        <5> QED BY <2>5, <5>1
      <4>4. x \o q \in DOMAIN changes /\ changes[x \o q].action = "D"
        BY <1>1, <1>2, <2>1, <2>9, <4>2, <4>3, RemovedFile DEF Begun
      <4>5. /\ x \o q \in DOMAIN changes' /\ changes'[x \o q].action = "D"
            /\ DOMAIN changes' \subseteq Seq(Nat)
        <5>1. DOMAIN Reported \subseteq Seq(Nat) /\ DOMAIN changes \subseteq DOMAIN Reported
          BY <1>3, PathAssumption DEF Reported
        <5> QED BY <1>1, <3>1, <4>4, <5>1, ReportedFacts
      <4> DEFINE g == changes'
      <4>6. q \in DOMAIN InSession(g) /\ InSession(g)[q].action = "D"
        <5> HIDE DEF g
        <5>1. q \in DOMAIN InSession(g)
          BY <1>3, <4>2, <4>5, InSessionIff DEF g
        <5> QED BY <4>5, <5>1 DEF InSession, g
      <4>7. log_receiver' = InSession(g)
        BY <1>1, <2>9 DEF log_receiver, InSession, Within, Stripped
      <4> QED BY <4>6, <4>7 DEF DeletedPaths
    <3>2. OnlyFiles'
      BY <1>1, <1>7, <2>1, <2>9 DEF RemoveInv, OnlyFiles
    <3> QED BY <2>1, <3>1, <3>2 DEF Removal
  <2> QED BY <1>1, <2>6, <2>7, <2>8, <2>9 DEF KeepInv, RemoveInv
<1> QED BY <1>6, <1>7

LEMMA KeepInit == Init => KeepInv /\ RemoveInv
<1> SUFFICES ASSUME Init PROVE KeepInv /\ RemoveInv
  OBVIOUS
<1>1. DOMAIN srv = {Root} /\ DOMAIN open = {} /\ DOMAIN delta_hash = {} /\ phase # "drive"
  BY DEF Init, EmptyTree
<1>2. KeepInv
  BY <1>1 DEF KeepInv, Served, CopiesFollow, PropsFollow, LossesNoted
<1>3. RemoveInv
  BY <1>1 DEF RemoveInv, Removal, OnlyFiles
<1> QED BY <1>2, <1>3

LEMMA KeepNext ==
    ASSUME Inv, FollowInv, KeepInv, [Next]_vars, phase' # "failed"
    PROVE  /\ KeepInv'
           /\ "kind" \notin Allowed /\ "replaced" \notin Allowed /\ RemoveInv => RemoveInv'
<1> DEFINE Goal == KeepInv' /\ (RemoveInv => RemoveInv')
<1>1. CASE Edit \/ EndRevision
  BY <1>1, IdleKeeps
<1>2. CASE Commit
  BY <1>2, CommitKeeps
<1>3. CASE de_open_root
  BY <1>3, OpenRootKeeps
<1>4. CASE de_apply_textdelta
  BY <1>4, TextKeeps
<1>5. ASSUME NEW q, de_delete_entry(q) PROVE Goal
  BY <1>5, DeleteKeeps
<1>6. ASSUME NEW q, de_add_directory(q) \/ de_add_file(q) PROVE Goal
  BY <1>6, AddKeeps DEF de_add_directory, de_add_file
<1>7. ASSUME NEW q, de_open_directory(q) \/ de_open_file(q) PROVE Goal
  BY <1>7, OpenKeeps DEF de_open_directory, de_open_file
<1>8. ASSUME NEW name \in Prop, de_change_dir_prop(name) \/ de_change_file_prop(name)
      PROVE  Goal
  BY <1>8, PropKeeps DEF de_change_dir_prop, de_change_file_prop
<1>9. CASE de_close_file \/ de_close_directory
  <2>1. open # <<>> /\ CloseNode
    BY <1>9 DEF de_close_file, de_close_directory, Ready
  <2> QED BY <2>1, CloseKeeps
<1>10. CASE de_close_edit
  BY <1>10, CloseEditKeeps
<1>11. CASE UNCHANGED vars
  <2>1. UNCHANGED <<repo, changes, req, phase, driven, nodes, open, srv, saved,
                    delta_hash, dropped>>
    BY <1>11 DEF vars, svnvars, editor, result
  <2>2. Target' = Target /\ DeletedPaths' = DeletedPaths
    BY <2>1 DEF Target, SessionTree, InSession, Tree, Youngest, Within, Stripped,
                DeletedPaths, log_receiver
  <2>3. \A q : (Kept(q)' <=> Kept(q)) /\ (InNode(q)' <=> InNode(q))
    BY <2>1, <2>2 DEF Kept, InNode
  <2>4. Served' /\ CopiesFollow' /\ LossesNoted'
    BY <2>1, <2>2, <2>3 DEF KeepInv, Served, CopiesFollow, LossesNoted
  <2>5. PropsFollow'
    BY <2>1, <2>2, <2>3 DEF KeepInv, PropsFollow
  <2>6. RemoveInv => RemoveInv'
    BY <2>1, <2>2, <2>3 DEF RemoveInv, Removal, Gone, OnlyFiles
  <2> QED BY <2>4, <2>5, <2>6 DEF KeepInv
<1> QED BY <1>1, <1>2, <1>3, <1>4, <1>5, <1>6, <1>7, <1>8, <1>9, <1>10, <1>11
        DEF Next, Drive

\* The storage has the properties of every node of the last dumped revision, but
\* of the root and of nodes that have lost one ("Save properties for next time",
\* delta.c:1107 and 1301): what property_load() takes out when a node is opened,
\* the changes of the edit and what property_store() puts back add up to the
\* properties of the node, and property_delete() only takes those of nodes that
\* go.  This holds for every history of commits.
THEOREM DeltaPropsKept == Spec => []PropsKept
<1>1. Inv /\ FollowInv /\ KeepInv => PropsKept
  <2> SUFFICES ASSUME Inv, FollowInv, KeepInv, Idle,
                      NEW q \in DOMAIN SessionTree(Youngest) \ {Root},
                      req.prefix \o q \notin dropped
               PROVE  q \in DOMAIN saved /\ saved[q] = SessionTree(Youngest)[q].props
    BY DEF PropsKept
  <2>1. Agree /\ open = <<>> /\ DOMAIN open = {}
    BY DEF FollowInv, Started, Walk, Idle
  <2>2. q \in DOMAIN srv \ {Root} /\ srv[q] = SessionTree(Youngest)[q] /\ Kept(q)
    BY <2>1 DEF Agree, Described, Current, Target, Kept
  <2> QED BY <2>1, <2>2 DEF KeepInv, PropsFollow, InNode
<1>2. Refused => PropsKept
  BY DEF Refused, PropsKept, Idle
<1>3. Inv /\ (Refused \/ (FollowInv /\ KeepInv)) /\ [Next]_vars
      => Refused' \/ (FollowInv' /\ KeepInv')
  BY FollowNext, KeepNext, FailedStays DEF Refused
<1> QED BY <1>1, <1>2, <1>3, InvInit, InvNext, FollowInit, KeepInit, PTL DEF Spec

\* After every revision the local copy of every file of the dumped directory is at
\* hand, with the content of that revision ("we need to keep a local copy of every
\* file in the repository", delta.c:116): de_apply_textdelta() bases every delta
\* on the content it was made from (delta.c:1230), and neither de_delete_entry()
\* nor the loop over the changed paths (delta.c:950, 1341) removes the copy of a
\* file that is still there.  This holds for every history of commits.
THEOREM DeltaLocalCopiesRight == Spec => []LocalCopiesRight
<1>1. Inv /\ FollowInv /\ KeepInv => LocalCopiesRight
  <2> SUFFICES ASSUME Inv, FollowInv, KeepInv, Idle,
                      NEW q \in DOMAIN Target, Target[q].kind = "file"
               PROVE  q \in DOMAIN delta_hash /\ delta_hash[q] = Target[q].text
    BY DEF LocalCopiesRight, Target
  <2>1. Agree /\ Committed /\ Trees
    BY DEF FollowInv, Started, Idle, Inv
  <2>2. /\ q \in Seq(Nat) /\ req.prefix \o q \in DOMAIN Base
        /\ Target[q] = Base[req.prefix \o q] /\ Target[q] \in Node
    BY <2>1, TargetNodes
  <2>3. q # Root
    <3>1. req.prefix \o Root = req.prefix
      BY <2>1, BaseFacts DEF Root
    <3>2. req.prefix \in DOMAIN Base => Base[req.prefix].kind = "dir"
      BY <2>1 DEF Trees
    <3> QED BY <2>2, <3>1, <3>2
  <2>4. q \in DOMAIN srv \ {Root} /\ srv[q] = Target[q]
    BY <2>1, <2>3, TargetIsTree DEF Agree, Described
  <2>5. Target[q].text # Empty
    BY <2>2, TextAssumption DEF Node
  <2> QED BY <2>4, <2>5 DEF KeepInv, CopiesFollow
<1>2. Refused => LocalCopiesRight
  BY DEF Refused, LocalCopiesRight, Idle
<1>3. Inv /\ (Refused \/ (FollowInv /\ KeepInv)) /\ [Next]_vars
      => Refused' \/ (FollowInv' /\ KeepInv')
  BY FollowNext, KeepNext, FailedStays DEF Refused
<1> QED BY <1>1, <1>2, <1>3, InvInit, InvNext, FollowInit, KeepInit, PTL DEF Spec

\* And the table has no local copy of a file that is gone: it goes with the
\* directory that de_delete_entry() gets (delta.c:950), or because the log has the
\* file itself as deleted (delta.c:1341).  This holds for all commits but two kinds: a
\* file replaced by a directory, and one lost with a replaced directory that the
\* server opens; and unless the session has no changed paths.
THEOREM DeltaNoCopyLeft ==
    ASSUME "kind" \notin Allowed, "replaced" \notin Allowed
    PROVE  Spec => []NoCopyLeft
<1>1. Inv /\ FollowInv /\ KeepInv /\ RemoveInv => NoCopyLeft
  <2> SUFFICES ASSUME Inv, FollowInv, RemoveInv, Idle, ~req.encoded,
                      NEW q \in DOMAIN delta_hash
               PROVE  q \in DOMAIN Target /\ Target[q].kind = "file"
    BY DEF NoCopyLeft, Target
  <2>1. Agree /\ Committed /\ Trees
    BY DEF FollowInv, Started, Idle, Inv
  <2>2. q \in DOMAIN srv \ {Root} /\ srv[q].kind = "file"
    BY DEF RemoveInv, OnlyFiles, Idle
  <2> QED BY <2>1, <2>2, TargetIsTree DEF Agree, Described
<1>2. Refused => NoCopyLeft
  BY DEF Refused, NoCopyLeft, Idle
<1>3. Inv /\ (Refused \/ (FollowInv /\ KeepInv /\ RemoveInv))
        /\ [Next]_vars
      => Refused' \/ (FollowInv' /\ KeepInv' /\ RemoveInv')
  BY FollowNext, KeepNext, FailedStays DEF Refused
<1> QED BY <1>1, <1>2, <1>3, InvInit, InvNext, FollowInit, KeepInit, PTL DEF Spec
=============================================================================
