---------------------------- MODULE DeltaEditor -----------------------------
(***************************************************************************)
(* delta.c: the delta editor.  For every revision the server describes the *)
(* difference to the one before by calling the editor's functions, depth   *)
(* first; the editor collects them as nodes and writes the records of the  *)
(* dump when the edit is closed.                                           *)
(*                                                                         *)
(* The server does not say what was copied: the editor combines the        *)
(* callbacks with the log, with the path repository (hist and work, as     *)
(* VersionedTree.tla promises), with the property storage (saved, as       *)
(* PropMap.tla promises) and with two tables of its own.  The repository   *)
(* and the loader of the dump are in SvnRepos.tla; a revision is committed *)
(* just before it is dumped, which no part of the program can notice.      *)
(***************************************************************************)
EXTENDS SvnRepos

CONSTANTS
    Requests,    \* the requests to consider (options of the program)
    Longer,      \* pairs of names of which the second one begins with the first
    Allowed      \* which of the SpecialKinds of commits to consider

SpecialKinds == {"propdel", "rootprops", "copydel", "md5", "kind", "replaced",
                 "range", "rootcopy", "sibling", "late", "creation", "above"}
ASSUME AllowedAssumption == Allowed \subseteq SpecialKinds

\* Requests for which the numbers are right (see Dump.tla and PathRepo.tla).
ASSUME RequestsAssumption ==
    \A r \in Requests :
        /\ r.prefix \in Seq(Nat) /\ r.start \in Nat
        /\ r.prefix = Root => r.start = 0 \/ r.incremental
        /\ r.keep => r.start = 0
        /\ r.incremental => r.start > 0
        /\ r.encoded => r.prefix # Root /\ ~r.incremental

VARIABLES
    req,          \* the request; never changes
    phase,        \* "commit" by users, "drive" by the server, "load", "failed"
    dry,          \* DF_INITIAL_DRY_RUN
    driven,       \* whether the editor has been driven before
    logs,         \* revisions of the list of logs
    nodes,        \* node batons of this edit, in the order of their creation
    open,         \* the open ones, from the root on
    srv,          \* the tree that the callbacks have described so far
    work, hist,   \* the path repository
    saved,        \* the property storage
    delta_hash,   \* path |-> content of the local copy of the file
    md5_hash,     \* path |-> checksum, which is as good as the content
    out,          \* records of the revision
    loaded,       \* revisions of the loaded dump, from 0 on
    status,       \* "ok", or "failed" if a record could not be loaded
    dropped       \* paths whose node has lost a property (see Kinds)

editor == <<nodes, open, srv, work, saved, delta_hash, md5_hash, out>>
result == <<logs, hist, loaded, status, dropped>>
vars == <<svnvars, req, phase, dry, driven, editor, result>>

\* The tree, and the changed paths, below the URL of the session, named from
\* there: what the server does with a session's paths, and log_receiver(), which
\* strips the prefix.  The prefix is part of an encoded URL and the paths are
\* not: if there is something to encode in it, all changed paths are skipped.
Stripped(p) == SubSeq(p, Len(req.prefix) + 1, Len(p))
InSession(t) ==
    [q \in {Stripped(p) : p \in Within(t, req.prefix)} |-> t[req.prefix \o q]]
SessionTree(rev) == InSession(Tree(rev))
log_receiver == IF req.encoded THEN <<>> ELSE InSession(changes)

\* The dumped revision's number in the dump: that of its entry in the list.
local_revnum == IF req.keep THEN Youngest ELSE Len(logs) - 1

\* opts->start: log_get_range() sets it to the creation of a sub-directory, an
\* incremental dump to the revision of the dry run.
Creation == CHOOSE r \in 0 .. Youngest :
                /\ req.prefix \in DOMAIN Tree(r)
                /\ \A s \in 0 .. r - 1 : req.prefix \notin DOMAIN Tree(s)
opts_start ==
    IF req.incremental THEN req.start - 1
    ELSE IF req.start = 0 /\ req.prefix # Root THEN Creation
    ELSE req.start

\* "Check if we can use the information we already have".
Complete == req.prefix = Root /\ (opts_start = 0 \/ req.incremental)
-----------------------------------------------------------------------------
(***************************************************************************)
(* Nodes                                                                   *)
(***************************************************************************)

\* delta_create_node_no_parent(), and delta_create_node(), which registers the
\* node with its parent and inherits the copy information.
delta_create_node_no_parent(path, kind, action) ==
    [path |-> path, parent |-> 0, kind |-> kind, action |-> action,
     cp_info |-> "NONE", from |-> NoPath, rev |-> 0, rev_local |-> 0,
     props |-> NoProps, del |-> {}, file |-> NoText, old |-> NoText,
     md5 |-> NoText, applied |-> FALSE, needed |-> FALSE, changed |-> FALSE]

\* A slip in it: the node is registered with the root.
ChildOfRoot(path, kind, action) ==
    [delta_create_node_no_parent(path, kind, action)
        EXCEPT !.parent = Head(open), !.cp_info = nodes[Last(open)].cp_info]

delta_create_node(path, kind, action) ==
    [delta_create_node_no_parent(path, kind, action)
        EXCEPT !.parent = Last(open), !.cp_info = nodes[Last(open)].cp_info]

Failed(n) == n.cp_info \in {"FAILED", "FAILED_OUTSIDE"}

\* The path of one of the program's lookups exists in a revision.  A child of
\* the session's root is looked up as "/child" if it comes from
\* path_repo_check_parent(), and is never found.
path_repo_exists(path, rev) == rev >= 0 /\ path \in hist[rev + 1]
path_repo_check_parent(parent, child, rev) ==
    parent # Root /\ path_repo_exists(parent \o child, rev)

\* strncmp() with the prefix of the session does not look at the next character.
HasPrefix(path) ==
    \/ IsPrefix(req.prefix, path)
    \/ /\ req.prefix # Root /\ Len(path) >= Len(req.prefix)
       /\ Front(req.prefix) = SubSeq(path, 1, Len(req.prefix) - 1)
       /\ <<Last(req.prefix), path[Len(req.prefix)]>> \in Longer

\* What is left of a longer name is not the name of anything: a negative one.
delta_get_local_copyfrom_path(path) ==
    IF IsPrefix(req.prefix, path) THEN Stripped(path)
    ELSE <<-path[Len(req.prefix)]>> \o Stripped(path)

\* A slip: an exact match is passed over.
copyfrom_rev_before(original) ==
    IF req.keep THEN original - 1
    ELSE Max({i \in 0 .. Len(logs) - 2 : logs[i + 1] < original} \cup {-1})

\* The last entry of the list, but for the current one, that is not later than
\* the original revision; its index is its number in the dump.
delta_get_local_copyfrom_rev(original) ==
    IF req.keep THEN original
    ELSE Max({i \in 0 .. Len(logs) - 2 : logs[i + 1] <= original} \cup {-1})

\* delta_check_copy(): whether a node can be dumped as a copy.
delta_check_copy(n) ==
    LET rev == delta_get_local_copyfrom_rev(n.rev) IN
    IF (n.cp_info = "COPY" /\ n.from = NoPath) \/ Failed(n) THEN n
    ELSE IF n.from = NoPath THEN [n EXCEPT !.cp_info = "NONE"]
    ELSE IF Complete
    THEN [n EXCEPT !.cp_info = "COPY", !.rev_local = n.rev]
    ELSE IF ~((req.incremental \/ opts_start <= n.rev) /\ HasPrefix(n.from))
    THEN [n EXCEPT !.cp_info = "FAILED_OUTSIDE"]
    ELSE IF rev > 0
    THEN [n EXCEPT !.cp_info = "COPY", !.rev_local = rev]
    ELSE [n EXCEPT !.cp_info = "FAILED"]

\* The node's ancestors in the array of nodes, from the root on.
Ancestors(ns, n) ==
    {i \in DOMAIN ns : IsStrictPrefix(ns[i].path, n.path) /\ ns[i].action # "D"}
Nearest(ns, is) == CHOOSE i \in is : \A j \in is : Len(ns[j].path) <= Len(ns[i].path)

\* delta_check_action(): whether a 'modify' or 'replace' has to be an 'add'.
delta_check_action(ns, n) ==
    LET stops == {i \in Ancestors(ns, n) :
                    \/ ns[i].cp_info = "FAILED_OUTSIDE"
                    \/ ns[i].cp_info = "COPY" /\ ns[i].from # NoPath}
        stop == ns[Nearest(ns, stops)]
        present == path_repo_exists(n.path, local_revnum - 1)
        first == IF stops # {} THEN "A"
                 ELSE IF n.action = "R" /\ Failed(n)
                      /\ ~path_repo_check_parent(Front(n.path), <<Last(n.path)>>,
                                                 local_revnum - 1)
                 THEN "A" ELSE n.action
        action == IF first = "M" /\ local_revnum > 0 /\ ~present THEN "A" ELSE first
    IN
    IF n.action \notin {"R", "M"} \/ Complete THEN n.action
    ELSE IF stops # {} /\ stop.cp_info = "COPY"
    THEN IF path_repo_check_parent(delta_get_local_copyfrom_path(stop.from),
                SubSeq(n.path, Len(stop.path) + 1, Len(n.path)), stop.rev_local)
         THEN n.action ELSE "A"
    ELSE IF n.path = Root /\ action = "A" THEN "M" ELSE action

\* A slip: every child of a copied directory is taken for a part of the copy.
PropagatedAlways(ns, n) == ns[n.parent].cp_info

\* delta_propagate_copy(): the copy information for a child whose parent has
\* been dumped.  Every directory level of the source is looked up.
delta_propagate_copy(ns, n) ==
    LET parent == ns[n.parent]
        sources == {i \in Ancestors(ns, n) : ns[i].from # NoPath}
        source == ns[Nearest(ns, sources)]
        path == delta_get_local_copyfrom_path(source.from)
        rel == SubSeq(n.path, Len(source.path) + 1, Len(n.path))
        rev == delta_get_local_copyfrom_rev(source.rev)
        levels == path \o rel
        all == \A i \in 1 .. Len(levels) - 1 :
                  path_repo_check_parent(SubSeq(levels, 1, i), <<levels[i + 1]>>, rev)
    IN
    IF parent.cp_info # "COPY" \/ sources = {} THEN parent.cp_info
    ELSE IF ~HasPrefix(source.from) THEN "NONE"
    ELSE IF path # Root /\ all THEN "COPY" ELSE "NONE"
-----------------------------------------------------------------------------
(***************************************************************************)
(* Dumping: e holds the nodes, the records, the entries that have been     *)
(* dumped (path |-> node) and md5_hash while they are worked on.           *)
(***************************************************************************)

\* delta_mark_node(), and the end of delta_dump_node().
delta_mark_node(e, i, n, record) ==
    [nodes |-> [e.nodes EXCEPT ![i] = [n EXCEPT !.needed = FALSE]],
     out |-> Append(e.out, record),
     dumped |-> Put(e.dumped, n.path, n),
     md5 |-> IF n.kind = "file" THEN Put(e.md5, n.path, n.md5) ELSE e.md5]

Record(path, action, kind, from, rev, props, text) ==
    [path |-> path, action |-> action, kind |-> kind, from |-> from, rev |-> rev,
     props |-> props, text |-> text]

Deletion(path) == Record(path, "delete", "none", NoPath, 0, NoBlock, NoDelta)

\* The properties of a record: those that have not been deleted; in format 3,
\* which --deltas selects, also the names of the deleted ones.
Properties(n) ==
    [delta |-> req.deltas,
     set |-> [p \in Prop |-> IF p \in n.del THEN 0 ELSE n.props[p]],
     del |-> IF req.deltas THEN n.del ELSE {}]

dump_props(n) ==
    n.changed \/ n.action = "A" \/ Properties(n).set # NoProps \/ Properties(n).del # {}

\* delta_deltify_node(): a delta against the previous local copy, or against
\* nothing; delta_cat_file(): a full text is one against nothing.
delta_deltify_node(n) ==
    [base |-> IF req.deltas /\ n.old # NoText THEN n.old ELSE Empty,
     target |-> n.file]

\* The second half of delta_dump_node(): the record for a node.  "Maybe we
\* don't need to dump the contents" of a copied file.
DumpedRecord(n, md5) ==
    LET copied == n.cp_info = "COPY" /\ n.from # NoPath
        from == delta_get_local_copyfrom_path(n.from)
        same == from \in DOMAIN md5 /\ md5[from] = n.md5
        content == n.kind = "file"
                     /\ IF copied /\ n.action = "A" THEN ~same ELSE n.applied
        bare == copied /\ ~content /\ ~n.changed
    IN
    IF n.action = "D" THEN Deletion(n.path)
    ELSE Record(n.path, IF n.action = "A" THEN "add" ELSE "change", n.kind,
                IF copied THEN from ELSE NoPath, IF copied THEN n.rev_local ELSE 0,
                IF ~bare /\ dump_props(n) THEN Properties(n) ELSE NoBlock,
                IF content THEN delta_deltify_node(n) ELSE NoDelta)

\* The first half: nodes that need no record.
NotDumped(n) ==
    \/ dry
    \/ n.action = "M" /\ n.kind = "dir" /\ ~n.changed
    \/ n.cp_info = "COPY" /\ n.action = "A" /\ n.from = NoPath

\* delta_dump_replace(): a deletion, and the node once more as an addition that
\* does not use the copy information of its parent.
delta_dump_replace(e, i, n) ==
    LET m == delta_check_copy([n EXCEPT !.cp_info = "NONE", !.action = "A"])
    IN  delta_mark_node([e EXCEPT !.out = Append(@, Deletion(n.path))], i, m,
                        DumpedRecord(m, e.md5))

delta_dump_node(e, i) ==
    LET n == e.nodes[i]
        c == delta_check_copy(n)
        m == [c EXCEPT !.action = delta_check_action(e.nodes, c)]
    IN
    IF ~n.needed THEN e
    ELSE IF NotDumped(n) THEN [e EXCEPT !.nodes[i].needed = FALSE]
    ELSE IF m.action = "R" THEN delta_dump_replace(e, i, m)
    ELSE delta_mark_node(e, i, m, DumpedRecord(m, e.md5))

\* delta_dump_node_recursive() from the root.  The server works depth first and
\* a deleted node has no children, so that the walk (the node, then for every
\* child the propagation and its walk) is in the order of creation.
delta_dump_node_recursive(ns) ==
    LET start == [nodes |-> ns, out |-> <<>>, dumped |-> <<>>, md5 |-> md5_hash]
        Propagated(e, i) ==
            [e EXCEPT !.nodes[i].cp_info = delta_propagate_copy(e.nodes, e.nodes[i])]
        walk[i \in 0 .. Len(ns)] ==
            IF i = 0 THEN start
            ELSE IF i = 1 THEN delta_dump_node(walk[0], 1)
            ELSE delta_dump_node(Propagated(walk[i - 1], i), i)
    IN  walk[Len(ns)]

\* A slip: trees that are added in place of a copy are forgotten.
IgnoredIfDeleted(e, path) ==
    \/ \E q \in DOMAIN e.dumped : IsStrictPrefix(q, path) /\ q # Root
          /\ e.dumped[q].action = "D"
    \/ opts_start > 1 /\ Youngest = opts_start /\ path \notin Last(hist)

\* A deletion of the log that has not been dumped: part of a deleted tree or of
\* a tree that was added in place of a copy; or, in the first revision of a
\* range, of something that is not in the dump (the lookup is of the revision
\* in work, which looks like the last one: see PathRepo.tla).
Ignored(e, path) ==
    \/ \E q \in DOMAIN e.dumped : IsStrictPrefix(q, path) /\ q # Root
          /\ (e.dumped[q].action = "D" \/ Failed(e.dumped[q]))
    \/ opts_start > 1 /\ Youngest = opts_start /\ path \notin Last(hist)

\* The loop of de_close_edit() over the changed paths, in the order of a hash.
PostDump(e, paths) ==
    LET post[i \in 0 .. Len(paths)] ==
          IF i = 0 THEN e
          ELSE LET f == post[i - 1]
                   n == [delta_create_node_no_parent(paths[i], "none", "D")
                           EXCEPT !.needed = TRUE]
               IN  IF paths[i] \in DOMAIN f.dumped \/ Ignored(f, paths[i]) THEN f
                   ELSE delta_dump_node([f EXCEPT !.nodes = Append(@, n)],
                                        Len(f.nodes) + 1)
    IN  post[Len(paths)]
-----------------------------------------------------------------------------
(***************************************************************************)
(* The editor's functions, called by the server                            *)
(***************************************************************************)

Cur == nodes[Last(open)]
Target == SessionTree(Youngest)
Without(f, ps) == [p \in DOMAIN f \ ps |-> f[p]]

\* Names of the current node's properties that still have to be sent; they come
\* first.
PropsLeft == {n \in Prop : srv[Cur.path].props[n] # Target[Cur.path].props[n]}
Ready == phase = "drive" /\ open # <<>> /\ PropsLeft = {}

\* Entries of the current directory that differ.
Same(q) ==
    LET target == Target IN
    /\ Within(srv, q) = Within(target, q)
    /\ \A x \in Within(srv, q) : srv[x] = target[x]
Entries == {q \in DOMAIN srv \cup DOMAIN Target :
              /\ q # Root /\ Front(q) = Cur.path
              /\ ~Same(q)}
Kept(q) == q \in DOMAIN srv /\ q \in DOMAIN Target /\ srv[q].kind = Target[q].kind

Called == UNCHANGED <<svnvars, req, phase, dry, driven, out, result>>

\* The root's stored properties are not loaded, and its kind is not set: see
\* de_close_edit.
de_open_root ==
    /\ phase = "drive" /\ nodes = <<>>
    /\ nodes' = <<delta_create_node_no_parent(Root, "unset", "M")>>
    /\ open' = <<1>>
    /\ Called /\ UNCHANGED <<srv, work, saved, delta_hash, md5_hash>>

Opened(n) == nodes' = Append(nodes, n) /\ open' = Append(open, Len(nodes) + 1)

\* A slip: only the entries of the directory itself.
EntriesOf(f, q) == {p \in DOMAIN f : Len(p) = Len(q) + 1 /\ IsStrictPrefix(q, p)}

\* The paths in a table that begin with a path and a slash.
Below(f, q) == {p \in DOMAIN f : IsStrictPrefix(q, p)}

\* A slip: what is below stays in the tree.
DeletedAlone(q) == IF dry THEN work ELSE work \ {q}

\* path_repo_delete(), "This will delete all children, too"; not in a dry run.
DeletedFromRepo(q) == IF dry THEN work ELSE work \ pr_tree_to_array(work, q)

\* Everything below goes from the tables, but not the path's own local copy: it
\* might be a directory.  Properties of directories below are left, too.
de_delete_entry(q) ==
    /\ Ready /\ Cur.kind # "file"
    /\ q \in DOMAIN srv /\ ~Kept(q) /\ q \in Entries
    /\ nodes' = Append(nodes, [delta_create_node(q, "none", "D")
                                 EXCEPT !.needed = TRUE])
    /\ delta_hash' = Without(delta_hash, Below(delta_hash, q))
    /\ md5_hash' = Without(md5_hash, Below(md5_hash, q))
    /\ saved' = Without(saved, {q} \cup Below(delta_hash, q))
    /\ work' = DeletedFromRepo(q)
    /\ srv' = Cut(srv, q)
    /\ Called /\ UNCHANGED open

\* The log knows the action, and the copy source, of an added node.
FromLog(n) ==
    LET log == log_receiver IN
    IF n.path \notin DOMAIN log THEN n
    ELSE [n EXCEPT !.action = log[n.path].action,
                   !.from = log[n.path].from,
                   !.rev = log[n.path].rev,
                   !.cp_info = IF Failed(n) THEN @ ELSE "NONE"]

\* de_add_directory() and de_add_file(); a file that is part of a tree which
\* is dumped instead of being copied is always added.  If the path repository has
\* the path already, path_repo_add() fails, and with it the dump.
AddNode(q, kind) ==
    LET n == FromLog([delta_create_node(q, kind, "A") EXCEPT !.needed = TRUE]) IN
    /\ Ready /\ Cur.kind # "file"
    /\ q \notin DOMAIN srv /\ q \in Entries /\ Target[q].kind = kind
    /\ Opened(IF kind = "file" /\ Failed(n) THEN [n EXCEPT !.action = "A"] ELSE n)
    /\ work' = IF dry THEN work ELSE work \cup {q}
    /\ srv' = Put(srv, q, New(kind))
    /\ phase' = IF ~dry /\ q \in work THEN "failed" ELSE phase
    /\ UNCHANGED <<svnvars, req, dry, driven, saved, delta_hash, md5_hash, out,
                   result>>

de_add_directory(q) == AddNode(q, "dir")
de_add_file(q) == AddNode(q, "file")

\* A slip: the stored properties are not asked for.
LoadsNothing(q) == NoProps

\* property_load() hands the stored properties over to the node.
property_load(q) == IF q \in DOMAIN saved THEN saved[q] ELSE NoProps

OpenNode(q, kind) ==
    /\ Ready /\ Cur.kind # "file"
    /\ Kept(q) /\ q \in Entries /\ Target[q].kind = kind
    /\ Opened([delta_create_node(q, kind, "M") EXCEPT !.props = property_load(q)])
    /\ saved' = Without(saved, {q})
    /\ Called /\ UNCHANGED <<srv, work, delta_hash, md5_hash>>

de_open_directory(q) == OpenNode(q, "dir")
de_open_file(q) == OpenNode(q, "file")

\* A deleted property is only noted in del_properties.
WithProp(n, name, value) ==
    [n EXCEPT !.props[name] = IF value # 0 THEN value ELSE @,
              !.del = IF value # 0 THEN @ ELSE @ \cup {name},
              !.changed = TRUE, !.needed = TRUE]

\* de_change_dir_prop() and de_change_file_prop().
ChangeProp(name, file) ==
    LET value == Target[Cur.path].props[name] IN
    /\ phase = "drive" /\ open # <<>> /\ (Cur.kind = "file") = file
    /\ name \in PropsLeft
    /\ nodes' = [nodes EXCEPT ![Last(open)] = WithProp(@, name, value)]
    /\ srv' = [srv EXCEPT ![Cur.path].props[name] = value]
    /\ Called /\ UNCHANGED <<open, work, saved, delta_hash, md5_hash>>

de_change_dir_prop(name) == ChangeProp(name, FALSE)
de_change_file_prop(name) == ChangeProp(name, TRUE)

\* The server's delta is applied to the local copy, and makes a new one.
de_apply_textdelta ==
    LET p == Cur.path
        old == IF p \in DOMAIN delta_hash THEN delta_hash[p] ELSE NoText
        new == ApplyDelta([base |-> srv[p].text, target |-> Target[p].text], old)
    IN
    /\ Ready /\ Cur.kind = "file" /\ srv[p].text # Target[p].text
    /\ nodes' = [nodes EXCEPT ![Last(open)] =
                   [@ EXCEPT !.file = new, !.old = old, !.md5 = new,
                             !.applied = TRUE, !.needed = TRUE]]
    /\ delta_hash' = Put(delta_hash, p, new)
    /\ srv' = [srv EXCEPT ![p].text = Target[p].text]
    /\ Called /\ UNCHANGED <<open, work, saved, md5_hash>>

\* property_store() saves the properties for the next time.
CloseNode ==
    /\ saved' = Put(saved, Cur.path, Cur.props)
    /\ open' = Front(open)
    /\ Called /\ UNCHANGED <<nodes, srv, work, delta_hash, md5_hash>>

de_close_directory == Ready /\ Cur.kind # "file" /\ Entries = {} /\ CloseNode
de_close_file ==
    Ready /\ Cur.kind = "file" /\ srv[Cur.path].text = Target[Cur.path].text /\ CloseNode

\* A slip: so are the replaced ones.
DeletedOrReplaced == {p \in DOMAIN log_receiver : log_receiver[p].action \in {"D", "R"}}

\* The changed paths whose local copies are removed at the end.
DeletedPaths == {p \in DOMAIN log_receiver : log_receiver[p].action = "D"}

\* The root's kind is whatever the memory held.
de_close_edit ==
    /\ phase = "drive" /\ nodes # <<>> /\ open = <<>>
    /\ \E kind \in {"dir", "file"}, paths \in SetToSeqs(DeletedPaths) :
         LET e == PostDump(delta_dump_node_recursive(
                             [nodes EXCEPT ![1].kind = kind]), paths)
         IN  out' = e.out /\ md5_hash' = e.md5
    /\ delta_hash' = Without(delta_hash, DeletedPaths)
    /\ nodes' = <<>>
    /\ phase' = "load"
    /\ UNCHANGED <<svnvars, req, dry, driven, open, srv, work, saved, result>>
-----------------------------------------------------------------------------
(***************************************************************************)
(* Commits, and the part of dump() around the editor                       *)
(***************************************************************************)

Base == Tree(Youngest)
Copies == {c \in DOMAIN changes : changes[c].from # NoPath}

\* The node that q was copied from, if c is a copied path at or above it.
SourceTree(c) == Tree(changes[c].rev)
SourcePath(c, q) == Renamed(q, c, changes[c].from)
CopiedFrom(c, q) ==
    c \in Copies /\ IsPrefix(c, q) /\ SourcePath(c, q) \in DOMAIN SourceTree(c)

LostProps(old, new) == {n \in Prop : old.props[n] # 0 /\ new.props[n] = 0}
Lost == {q \in DOMAIN Base \cap DOMAIN txn : LostProps(Base[q], txn[q]) # {}}
Opens(q) == q \in DOMAIN Base /\ q \in DOMAIN txn /\ Base[q].kind = txn[q].kind

\* The dumped directory comes with a copy of one above it.  The log reports the
\* revision, but log_receiver() skips the path of the copy.
FromAbove ==
    /\ req.prefix \in DOMAIN txn \ DOMAIN Base
    /\ \E c \in Copies : IsStrictPrefix(c, req.prefix)

\* path_repo_commit_log(): what the log of a revision leaves in the path
\* repository, as PathRepo.tla describes it for paths that are in the log.
path_repo_commit_log ==
    {q \in DOMAIN InSession(txn) \ {Root} :
       FromAbove => \E c \in Within(changes, req.prefix) :
                      changes[c].action # "M" /\ IsPrefix(c, req.prefix \o q)}

\* Commits for which one of the properties does not hold: "propdel", a change of
\* a node after one of its properties was deleted; "rootprops", of a property of
\* the root when it has others; "copydel", a copy that loses a property in the
\* same commit; "md5", a copy with the content that its source got later; "kind",
\* a node replaced by one of the other kind; "replaced", a change inside a copy
\* that replaces a directory, or a file lost with a replaced directory; "range",
\* in the first revision of a range, a replacement or a directory that is left
\* without properties; "rootcopy", a copy of the session's root; "sibling", one
\* from a place whose name starts like that of the session.  And those that are
\* the subject of PathRepo.tla and Dump.tla: "late", a deletion in the first
\* revision of a range; "creation", of the directory when an incremental dump
\* starts; and "above", its creation by a copy from above before that.
Kinds ==
    LET root == req.prefix
        first == ~driven /\ ~(req.incremental /\ Youngest + 1 < req.start)
        actions == {changes[c].action : c \in Within(changes, root)}
    IN
    {k \in SpecialKinds :
       \/ k = "propdel" /\ \E q \in dropped : Opens(q) /\ Base[q] # txn[q]
       \/ k = "rootprops" /\ root \in DOMAIN Base /\ root \in DOMAIN txn
            /\ Base[root].props # txn[root].props
            /\ \E n \in Prop : Base[root].props[n] = 1 /\ txn[root].props[n] = 1
       \/ k = "copydel" /\ \E c \in Copies, q \in DOMAIN txn :
            /\ CopiedFrom(c, q)
            /\ LostProps(SourceTree(c)[SourcePath(c, q)], txn[q]) # {}
       \/ k = "md5" /\ \E c \in Copies :
            /\ txn[c].kind = "file" /\ txn[c].text # SourceTree(c)[changes[c].from].text
            /\ \E t \in {txn} \cup {Tree(r) : r \in changes[c].rev .. Youngest} :
                 /\ changes[c].from \in DOMAIN t
                 /\ t[changes[c].from].text = txn[c].text
       \/ k = "kind" /\ \E c \in DOMAIN changes :
            /\ changes[c].action = "R" /\ c \in DOMAIN Base
            /\ Base[c].kind # txn[c].kind
       \/ k = "replaced" /\ \E c \in DOMAIN changes :
            /\ changes[c].action = "R" /\ Opens(c)
            /\ \E q \in DOMAIN changes \cup DOMAIN Base :
                 /\ IsStrictPrefix(c, q)
                 /\ \/ c \in Copies /\ q \in DOMAIN changes
                    \/ q \in DOMAIN Base /\ Base[q].kind = "file" /\ ~Opens(q)
       \/ k = "range" /\ first /\ \E c \in Within(changes, root) \ {root} :
            \/ changes[c].action = "R"
            \/ changes[c].action = "M" /\ txn[c] = Dir(NoProps)
       \/ k = "rootcopy" /\ \E c \in Copies : changes[c].from = root
       \/ k = "sibling" /\ \E c \in Copies :
            HasPrefix(changes[c].from) /\ ~IsPrefix(root, changes[c].from)
       \/ k = "late" /\ first /\ Youngest > 0 /\ "D" \in actions
       \/ k = "creation" /\ req.incremental /\ Youngest + 1 = req.start
            /\ root \notin DOMAIN Base
       \/ k = "above" /\ req.incremental /\ Youngest + 1 < req.start /\ FromAbove}

\* Some servers also report the nodes of a deleted tree.
Reported ==
    IF ~req.chatty THEN changes
    ELSE LET gone == {q \in Path \ DOMAIN txn :
                        /\ \E d \in DOMAIN changes :
                             changes[d].action = "D" /\ IsStrictPrefix(d, q)
                        /\ q \in DOMAIN Base \/ \E c \in Copies : CopiedFrom(c, q)}
         IN  [q \in DOMAIN changes \cup gone |->
                IF q \in DOMAIN changes THEN changes[q] ELSE Change("D", NoPath, 0)]

Init ==
    /\ req \in Requests
    /\ repo = <<EmptyTree>> /\ txn = EmptyTree /\ changes = <<>> /\ ops = 0
    /\ phase = "commit" /\ dry = FALSE /\ driven = FALSE
    /\ logs = <<0>>
    /\ nodes = <<>> /\ open = <<>> /\ srv = EmptyTree
    /\ work = {} /\ hist = <<{}>> /\ saved = <<>>
    /\ delta_hash = <<>> /\ md5_hash = <<>>
    /\ out = <<>> /\ loaded = <<EmptyTree>> /\ status = "ok"
    /\ dropped = {}

\* What is dumped is a directory, and users never delete it.
Edit ==
    /\ phase = "commit" /\ status = "ok"
    /\ Youngest < MaxRev
    /\ IF Youngest = 0
       THEN \E tree \in Imports : changes = <<>> /\ Import(tree) /\ UNCHANGED ops
       ELSE ops < MaxOps /\ UserOp /\ ops' = ops + 1
    /\ req.prefix \in DOMAIN Base \cup DOMAIN txn' => IsDir(txn', req.prefix)
    /\ UNCHANGED <<repo, req, phase, dry, driven, editor, result>>

\* A commit, and what dump() does with it.  Before the range, an incremental
\* dump brings the path repository up to date, and runs the last revision dry;
\* --keep-revnums pads what is not in the log.
Commit ==
    LET rev == Youngest + 1
        touched == \/ req.prefix = Root \/ req.prefix \notin DOMAIN Base
                   \/ Within(changes, req.prefix) # {}
        before == rev < req.start
        start_mid == req.incremental /\ before
        mid == start_mid /\ rev = req.start - 1
        exists == req.prefix \in DOMAIN txn
        drive == exists /\ IF before THEN mid ELSE touched
        listed == touched /\ exists /\ (start_mid \/ ~before)
    IN
    /\ phase = "commit" /\ status = "ok" /\ changes # <<>>
    /\ rev = req.start => exists
    /\ Kinds \subseteq Allowed
    /\ repo' = Append(repo, txn)
    /\ changes' = IF drive THEN Reported ELSE <<>>
    /\ logs' = IF listed THEN Append(logs, rev) ELSE logs
    /\ dropped' = {q \in DOMAIN txn : Opens(q) /\ (q \in dropped \/ q \in Lost)}
    /\ IF start_mid /\ exists /\ touched
       THEN /\ hist' = Append(hist, path_repo_commit_log)
            /\ loaded' = Append(loaded, InSession(txn))
            /\ work' = path_repo_commit_log
       ELSE IF req.keep /\ ~drive
       THEN /\ hist' = Append(hist, work)
            /\ loaded' = Append(loaded, Last(loaded))
            /\ UNCHANGED work
       ELSE UNCHANGED <<hist, loaded, work>>
    /\ dry' = mid
    /\ srv' = IF driven THEN srv ELSE EmptyTree
    /\ phase' = IF drive THEN "drive" ELSE "commit"
    /\ UNCHANGED <<txn, ops, req, driven, nodes, open, saved, delta_hash, md5_hash,
                   out, status>>

\* path_repo_commit() or path_repo_discard(); and the dump is loaded.
EndRevision ==
    LET tree == Load(out, loaded) IN
    /\ phase = "load"
    /\ IF dry
       THEN work' = Last(hist) /\ UNCHANGED <<hist, loaded, status>>
       ELSE /\ hist' = Append(hist, work)
            /\ loaded' = IF tree = NotLoaded THEN loaded ELSE Append(loaded, tree)
            /\ status' = IF tree = NotLoaded THEN "failed" ELSE "ok"
            /\ UNCHANGED work
    /\ phase' = "commit"
    /\ dry' = FALSE
    /\ driven' = TRUE
    /\ out' = <<>>
    /\ changes' = <<>>
    /\ UNCHANGED <<repo, txn, ops, req, logs, dropped, nodes, open, srv, saved,
                   delta_hash, md5_hash>>

Drive ==
    \/ de_open_root \/ de_apply_textdelta
    \/ \E q \in DOMAIN srv \cup DOMAIN Target :
         \/ de_delete_entry(q)
         \/ de_add_directory(q) \/ de_add_file(q)
         \/ de_open_directory(q) \/ de_open_file(q)
    \/ \E name \in Prop : de_change_dir_prop(name) \/ de_change_file_prop(name)
    \/ de_close_file \/ de_close_directory \/ de_close_edit
    \/ EndRevision

Next == Edit \/ Commit \/ Drive

Spec == Init /\ [][Next]_vars
-----------------------------------------------------------------------------
(***************************************************************************)
(* Properties                                                              *)
(***************************************************************************)

\* The shape of the editor's data: the nodes of an edit form a tree, parents
\* before children, and the open ones are a path in it (delta.c:160, 1330).
TypeOK ==
    /\ phase \in {"commit", "drive", "load", "failed"} /\ status \in {"ok", "failed"}
    /\ \A i \in DOMAIN nodes :
         /\ nodes[i].cp_info \in {"NONE", "COPY", "FAILED", "FAILED_OUTSIDE"}
         /\ nodes[i].action \in {"A", "M", "R", "D"}
         /\ IF i = 1 THEN nodes[i].path = Root
            ELSE /\ nodes[i].parent \in 1 .. i - 1
                 /\ nodes[nodes[i].parent].path = Front(nodes[i].path)
    /\ \A i \in DOMAIN open :
         /\ open[i] \in DOMAIN nodes
         /\ Len(nodes[open[i]].path) = i - 1
         /\ i > 1 => nodes[open[i]].parent = open[i - 1]

Idle == phase = "commit" /\ driven

\* "dumps ... can always be loaded into a new repository" (doc/rsvndump.txt:70):
\* no record adds what exists, changes or deletes what does not, or copies from
\* what is not in the dump.
AlwaysLoads == status = "ok"

\* The loaded revision is the dumped one: same nodes, contents and properties,
\* whatever was copied, replaced or deleted, and however the copies were
\* resolved (tests/db/test_api.py compares the trees in the same way).
LoadedMatches ==
    Idle /\ status = "ok" => Last(loaded) = SessionTree(Youngest)

\* The tree of the path repository is the one of the revision, so that lookups
\* for later copies are right (path_repo_add() and path_repo_delete() in the
\* editor's functions), and no addition is refused because the path is there
\* already ("Unable to update local tree history", delta.c:1044, 1185).
HistoryMatches ==
    /\ phase # "failed"
    /\ Idle => Last(hist) = DOMAIN SessionTree(Youngest) \ {Root}

\* The local copy of every file is at hand, with the content that the next delta
\* for it is based on ("we need to keep a local copy of every file in the
\* repository", delta.c:116), however the file came to be where it is.
LocalCopiesRight ==
    LET tree == SessionTree(Youngest) IN
    Idle => \A q \in DOMAIN tree :
              tree[q].kind = "file" =>
                q \in DOMAIN delta_hash /\ delta_hash[q] = tree[q].text

\* And the table has none of a file that is gone.  Without changed paths, those of
\* deleted files stay.
NoCopyLeft ==
    LET tree == SessionTree(Youngest) IN
    Idle /\ ~req.encoded =>
        \A q \in DOMAIN delta_hash : q \in DOMAIN tree /\ tree[q].kind = "file"

\* "Save properties for next time" (delta.c:1107, 1301): the storage has the
\* properties of every node but the root, which never loads them, and nodes that
\* lost one.
PropsKept ==
    Idle => \A q \in DOMAIN SessionTree(Youngest) \ {Root} :
              req.prefix \o q \notin dropped =>
                q \in DOMAIN saved /\ saved[q] = SessionTree(Youngest)[q].props

\* What was copied within the dumped directory, from a revision that is in the
\* dump, is a copy in the dump, and of a tree that looks like the source: only
\* other copies are replaced by additions (doc/rsvndump.txt:166), unless the
\* session's prefix is an encoded one.
CopiesKept ==
    LET log == InSession(changes)
        Copied(p) == log[p].from # NoPath
        InDump(p) == /\ IsStrictPrefix(req.prefix, log[p].from)
                     /\ \E i \in 2 .. Len(logs) - 1 : logs[i] <= log[p].rev
        Plain(p) == /\ log[p].action = "A" /\ p \notin DOMAIN SessionTree(Youngest - 1)
                    /\ \A q \in DOMAIN log :
                         IsStrictPrefix(q, p) /\ Copied(q) => InDump(q)
        IsCopy(r, p) ==
            LET from == Stripped(log[p].from)
                there == loaded[r.rev + 1]
                source == SessionTree(log[p].rev)
            IN  /\ r.path = p /\ r.from = from
                /\ Within(there, from) = Within(source, from)
                /\ \A q \in Within(source, from) : there[q] = source[q]
    IN
    phase = "load" /\ ~dry /\ ~req.encoded =>
        \A p \in DOMAIN log :
            Copied(p) /\ InDump(p) /\ Plain(p) => \E i \in DOMAIN out : IsCopy(out[i], p)

\* "Don't dump the property if it has been deleted" (delta.c:750): no record
\* sets a property that the node does not have.
NoDeletedProps ==
    phase = "load" =>
        \A i \in DOMAIN out :
            out[i].path \in DOMAIN Target =>
                \A n \in Prop : out[i].props.set[n] \in {0, Target[out[i].path].props[n]}
=============================================================================
