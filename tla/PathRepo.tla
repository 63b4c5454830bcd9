------------------------------ MODULE PathRepo ------------------------------
(***************************************************************************)
(* path_repo.c: the versioned store of path names that delta.c asks        *)
(* whether a path existed at an earlier (local) revision.                  *)
(*                                                                         *)
(* The store keeps, in a key-value file, the list of additions and         *)
(* deletions of every revision that changed something, and a full snapshot *)
(* every SNAPSHOT_INTERVAL revisions; the working tree and the scheduled   *)
(* changes are in memory; trees of past revisions are rebuilt from the     *)
(* file and kept in a FIFO cache.                                          *)
(*                                                                         *)
(* The actions are the operations of path_repo.h in the order in which     *)
(* dump() and the delta editor call them: an incremental dump first feeds  *)
(* the logs of older revisions to path_repo_commit_log (phase "prepare"),  *)
(* then runs one revision dry and discards it ("dry"), then dumps          *)
(* ("dump"); every other dump starts in phase "dump".  An error return     *)
(* ends the dump ("failed").                                               *)
(***************************************************************************)
EXTENDS PathTrees, FiniteSets

CONSTANTS
    SNAPSHOT_INTERVAL,   \* path_repo.c:45
    CACHE_SIZE,          \* path_repo.c:46
    Path,                \* the paths that occur
    Modes,               \* kinds of dumps: a subset of AllModes
    First,               \* number of the first dumped revision in mode "late"
    MaxRev,              \* bound: last local revision
    MaxDelta             \* bound: operations scheduled for one revision

\* "full": from the first revision on; "late": not incremental, but the first
\* revision is > 1 (it has number 1 or, with --keep-revnums, its own one, and
\* those before are committed as padding); "mid": incremental, starting later than revision 0;
\* "gaps": the same of a sub-directory with --keep-revnums, where only the
\* revisions that touch the sub-directory are committed while preparing.
AllModes == {"full", "late", "mid", "gaps"}

ASSUME IntervalAssumption == SNAPSHOT_INTERVAL \in Nat \ {0}
ASSUME CacheAssumption == CACHE_SIZE \in Nat \ {0}
ASSUME PathAssumption == Path \subseteq Seq(Nat) /\ <<>> \notin Path
ASSUME FiniteAssumption == IsFiniteSet(Path)
ASSUME ModesAssumption == Modes \subseteq AllModes
ASSUME FirstAssumption == First \in Nat \ {0}
ASSUME BoundAssumption == MaxRev \in Nat /\ MaxDelta \in Nat

VARIABLES
    db,            \* revision |-> stored list of operations
    delta,         \* operations scheduled for the next commit
    tree,          \* working tree
    head,          \* last committed revision
    cache,         \* slot |-> [revision, tree]
    cache_index,   \* slot that the next miss will overwrite
    answer,        \* if the last call was a lookup: the revision and the tree
                   \* that it was answered from
    phase,         \* where dump() is
    logrev,        \* revision path_repo_commit_log is working on, or -1
    last,          \* last changed path it has handled, or <<>>
    mode           \* the kind of dump; never changes

vars == <<db, delta, tree, head, cache, cache_index, answer, phase, logrev,
          last, mode>>

Slots == 0 .. CACHE_SIZE - 1
Op == [action : {"+", "-"}, path : Path]
NoAnswer == [revision |-> -1, tree |-> {}]

\* The list of the same operation on each path of a set, as path_repo_delete()
\* pushes it.
OpsOn(action, paths) ==
    LET s == SetToSeq(paths)
    IN  [i \in 1 .. Len(s) |-> [action |-> action, path |-> s[i]]]

\* "Encodes a whole tree to a series of add operations".
pr_encode(t) == OpsOn("+", t)
-----------------------------------------------------------------------------
(***************************************************************************)
(* Reading the store                                                       *)
(***************************************************************************)

\* The list d mentions path p; the last operation of d on p adds it.
Touches(d, p) == \E i \in DOMAIN d : d[i].path = p
Adds(d, p) ==
    \E i \in DOMAIN d :
        /\ d[i] = [action |-> "+", path |-> p]
        /\ \A j \in DOMAIN d : j > i => d[j].path # p

\* pr_delta_apply(): runs a stored list over a tree, in order, so that the
\* last operation on a path decides (lemmas ApplyEmpty and ApplyAppend of
\* PathRepoProofs show that this is what the loop computes).
pr_delta_apply(t, d) ==
    {p \in Path : Adds(d, p) \/ (p \in t /\ ~Touches(d, p))}

\* revision & ~(SNAPSHOT_INTERVAL-1): the interval is a power of two, so this
\* rounds down to a multiple of it.
LastSnapshot(revision) == revision - (revision % SNAPSHOT_INTERVAL)

\* pr_reconstruct(): from the empty tree, apply the stored list of each
\* revision since the last snapshot; revisions without a list are skipped.
pr_reconstruct(store, revision) ==
    LET from == LastSnapshot(revision)
    IN  {p \in Path :
            \E r \in DOMAIN store \cap (from .. revision) :
                /\ Adds(store[r], p)
                /\ \A q \in DOMAIN store \cap ((r + 1) .. revision) :
                       ~Touches(store[q], p)}

\* pr_tree(): a slot that is labelled with the revision is used as it is (at
\* most one is, since only a miss writes a label); on a miss the tree is
\* rebuilt in the slot that is next in turn.
Hits(revision) == {i \in Slots : cache[i].revision = revision}

pr_tree(revision) ==
    IF Hits(revision) # {}
    THEN cache[CHOOSE i \in Hits(revision) : TRUE].tree
    ELSE pr_reconstruct(db, revision)

\* Two slips a change to pr_tree() could make: the index wraps one slot too
\* late; the slot gets the label of the newest revision.
LateWrap(revision) ==
    IF Hits(revision) # {}
    THEN UNCHANGED <<cache, cache_index>>
    ELSE /\ cache' = [cache EXCEPT ![cache_index] =
                        [revision |-> revision,
                         tree |-> pr_reconstruct(db, revision)]]
         /\ cache_index' = IF cache_index >= CACHE_SIZE
                           THEN 0 ELSE cache_index + 1

WrongLabel(revision) ==
    IF Hits(revision) # {}
    THEN UNCHANGED <<cache, cache_index>>
    ELSE /\ cache' = [cache EXCEPT ![cache_index] =
                        [revision |-> head,
                         tree |-> pr_reconstruct(db, revision)]]
         /\ cache_index' = IF cache_index + 1 >= CACHE_SIZE
                           THEN 0 ELSE cache_index + 1

pr_tree_cache(revision) ==
    IF Hits(revision) # {}
    THEN UNCHANGED <<cache, cache_index>>
    ELSE /\ cache' = [cache EXCEPT ![cache_index] =
                        [revision |-> revision,
                         tree |-> pr_reconstruct(db, revision)]]
         /\ cache_index' = IF cache_index + 1 >= CACHE_SIZE
                           THEN 0 ELSE cache_index + 1
-----------------------------------------------------------------------------
(***************************************************************************)
(* Scheduling and committing                                               *)
(***************************************************************************)

\* path_repo_create() and, for an incremental dump, the start of the
\* preparation in dump().
Init ==
    /\ db = [r \in {} |-> <<>>]
    /\ delta = <<>>
    /\ tree = {}
    /\ head = 0
    /\ cache = [i \in Slots |-> [revision |-> -1, tree |-> {}]]
    /\ cache_index = 0
    /\ answer = NoAnswer
    /\ mode \in Modes
    /\ phase = IF mode \in {"mid", "gaps"} THEN "prepare" ELSE "dump"
    /\ logrev = -1
    /\ last = <<>>

\* The delta editor runs in the dry run and while dumping, but not for padding.
Editing == phase = "dry" \/ (phase = "dump" /\ (mode = "late" => head + 1 >= First))

\* path_repo_add(), from add_directory() and add_file(), which do not call it
\* in the dry run.  The path is scheduled even if it is in the tree already,
\* but then the callback fails, and with it the dump.
path_repo_add(path) ==
    /\ phase = "dump" /\ Editing
    /\ Len(delta) < MaxDelta
    /\ delta' = Append(delta, [action |-> "+", path |-> path])
    /\ tree' = tree \cup {path}
    /\ phase' = IF path \in tree THEN "failed" ELSE phase
    /\ answer' = NoAnswer
    /\ UNCHANGED <<db, head, cache, cache_index, logrev, last, mode>>

\* A slip: only the path itself is recorded as deleted, not what is below it.
DeleteNotRecorded(path) ==
    /\ phase = "dump" /\ Editing
    /\ path \in tree
    /\ Len(delta) < MaxDelta
    /\ delta' = delta \o OpsOn("-", {path})
    /\ tree' = tree \ pr_tree_to_array(tree, path)
    /\ answer' = NoAnswer
    /\ UNCHANGED <<db, head, cache, cache_index, phase, logrev, last, mode>>

\* path_repo_delete(), from delete_entry() unless the run is dry: the path
\* and all below it.  The server deletes only what is there.
path_repo_delete(path) ==
    /\ phase = "dump" /\ Editing
    /\ path \in tree
    /\ Len(delta) < MaxDelta
    /\ LET gone == pr_tree_to_array(tree, path) IN
         /\ delta' = delta \o OpsOn("-", gone)
         /\ tree' = tree \ gone
    /\ answer' = NoAnswer
    /\ UNCHANGED <<db, head, cache, cache_index, phase, logrev, last, mode>>

\* path_repo_commit(): a snapshot is the whole tree as additions; a revision
\* without changes stores nothing unless it is a snapshot.
Snapshot(revision) == revision > 0 /\ revision % SNAPSHOT_INTERVAL = 0

\* Two slips: a revision without changes never writes its snapshot; the list
\* of changes is written where the snapshot should be.
SnapshotSkipped(revision) ==
    /\ IF delta = <<>>
       THEN UNCHANGED <<db, delta>>
       ELSE /\ db' = [r \in DOMAIN db \cup {revision} |->
                        IF r # revision THEN db[r]
                        ELSE IF Snapshot(revision) THEN pr_encode(tree)
                        ELSE delta]
            /\ delta' = <<>>
    /\ head' = revision
    /\ answer' = NoAnswer
    /\ UNCHANGED <<tree, cache, cache_index, phase, mode>>

DeltaForSnapshot(revision) ==
    /\ IF delta = <<>> /\ ~Snapshot(revision)
       THEN UNCHANGED <<db, delta>>
       ELSE /\ db' = [r \in DOMAIN db \cup {revision} |->
                        IF r # revision THEN db[r] ELSE delta]
            /\ delta' = <<>>
    /\ head' = revision
    /\ answer' = NoAnswer
    /\ UNCHANGED <<tree, cache, cache_index, phase, mode>>

Commit(revision) ==
    /\ IF delta = <<>> /\ ~Snapshot(revision)
       THEN UNCHANGED <<db, delta>>
       ELSE /\ db' = [r \in DOMAIN db \cup {revision} |->
                        IF r # revision THEN db[r]
                        ELSE IF Snapshot(revision) THEN pr_encode(tree)
                        ELSE delta]
            /\ delta' = <<>>
    /\ head' = revision
    /\ answer' = NoAnswer
    /\ UNCHANGED <<tree, cache, cache_index, phase, mode>>

\* dump() commits revision 0, which is empty, or the next revision.
path_repo_commit(revision) ==
    /\ phase = "dump"
    /\ \/ revision = head + 1
       \/ mode = "full" /\ revision = 0 /\ head = 0 /\ delta = <<>>
    /\ revision <= MaxRev
    /\ Commit(revision)
    /\ UNCHANGED <<logrev, last>>

\* path_repo_discard(): forget what was scheduled, rebuild the head.  The
\* dry run is over.
path_repo_discard ==
    /\ phase = "dry"
    /\ delta' = <<>>
    /\ tree' = pr_reconstruct(db, head)
    /\ phase' = "dump"
    /\ answer' = NoAnswer
    /\ UNCHANGED <<db, head, cache, cache_index, logrev, last, mode>>
-----------------------------------------------------------------------------
(***************************************************************************)
(* path_repo_commit_log(): the changed paths of one log entry, in sorted   *)
(* order, each handled in a step of its own                                *)
(***************************************************************************)

\* dump() walks the list of logs from revision 0 on, so the entries have
\* consecutive numbers, unless it uses the original ones.
path_repo_commit_log(revision) ==
    /\ phase = "prepare" /\ logrev = -1
    /\ \/ revision = 0 /\ head = 0 /\ tree = {}
       \/ revision = head + 1
       \/ mode = "gaps" /\ revision > head
    /\ logrev' = revision
    /\ last' = <<>>
    /\ answer' = NoAnswer
    /\ UNCHANGED <<db, delta, tree, head, cache, cache_index, phase, mode>>

\* Revision 0 has no changed paths; the others come sorted.
NextChange(path) ==
    /\ logrev > 0
    /\ last = <<>> \/ Before(last, path)
    /\ Len(delta) < MaxDelta
    /\ last' = path
    /\ answer' = NoAnswer

\* 'D' and 'R' delete, 'A' and 'R' add `paths', in this order.
Scheduled(action, path, paths) ==
    LET gone == IF action = "A" THEN {} ELSE pr_tree_to_array(tree, path) IN
    /\ action = "A" \/ path \in tree
    /\ delta' = (delta \o OpsOn("-", gone)) \o OpsOn("+", paths)
    /\ tree' = (tree \ gone) \cup paths

\* A change without a copy source; 'M' changes no path.
log_change(action, path) ==
    /\ NextChange(path)
    /\ IF action = "M"
       THEN UNCHANGED <<delta, tree>>
       ELSE Scheduled(action, path, IF action = "D" THEN {} ELSE {path})
    /\ UNCHANGED <<db, head, cache, cache_index, phase, logrev, mode>>

\* pr_fetch_paths(): what the server lists at and below the path in the
\* revision of the log (external), possibly nothing at all.
Listings(path) ==
    {S \in SUBSET pr_tree_to_array(Path, path) : S = {} \/ path \in S}

\* A copy from outside of the session's prefix.
log_copy_outside(action, path) ==
    /\ NextChange(path)
    /\ \E paths \in Listings(path) : Scheduled(action, path, paths)
    /\ UNCHANGED <<db, head, cache, cache_index, phase, logrev, mode>>

\* A copy from src as it was in an earlier revision; the server only reports
\* sources that existed, and the names that result must be in Path.
log_copy_inside(action, path, src, revision) ==
    /\ NextChange(path)
    /\ src \in pr_reconstruct(db, revision)
    /\ LET from == pr_tree(revision)
           paths == IF Cardinality(pr_tree_to_array(from, src)) = 1
                    THEN {path} ELSE CopiedPaths(from, src, path)
       IN  /\ paths \subseteq Path
           /\ Scheduled(action, path, paths)
    /\ pr_tree_cache(revision)
    /\ UNCHANGED <<db, head, phase, logrev, mode>>

\* path_repo_commit_log() ends with a commit.
log_commit ==
    /\ logrev >= 0
    /\ Commit(logrev)
    /\ logrev' = -1
    /\ last' = <<>>

\* All older logs are in: dump() starts the dry run.
StartDryRun ==
    /\ phase = "prepare" /\ logrev = -1
    /\ phase' = "dry"
    /\ answer' = NoAnswer
    /\ UNCHANGED <<db, delta, tree, head, cache, cache_index, logrev, last,
                   mode>>
-----------------------------------------------------------------------------
(***************************************************************************)
(* Lookups                                                                 *)
(***************************************************************************)

\* path_repo_exists() and path_repo_check_parent() ask the same tree whether
\* it contains a path; the path does not matter for what happens, so a lookup
\* here yields the tree itself.  Before revision 0 nothing exists.
Lookup(revision) ==
    /\ IF revision < 0
       THEN UNCHANGED <<cache, cache_index>>
       ELSE pr_tree_cache(revision)
    /\ answer' = [revision |-> revision,
                  tree |-> IF revision < 0 THEN {} ELSE pr_tree(revision)]
    /\ UNCHANGED <<db, delta, tree, head, phase, logrev, last, mode>>

\* delta.c asks for the revision before the one in work, and for sources of
\* copies: in both cases for a committed revision, or -1.
path_repo_exists(revision) ==
    /\ Editing
    /\ revision <= head
    /\ Lookup(revision)

\* de_close_edit() asks for the revision in work itself, if it is the first
\* one and the dump does not start at revision 0 or 1.
path_repo_exists_in_work ==
    /\ Editing
    /\ mode = "late"
    /\ head + 1 = First
    /\ Lookup(First)
-----------------------------------------------------------------------------
Next ==
    \/ \E p \in Path :
          \/ path_repo_add(p)
          \/ path_repo_delete(p)
    \/ \E r \in -1 .. head : path_repo_exists(r)
    \/ path_repo_exists_in_work
    \/ \E r \in 0 .. MaxRev : path_repo_commit(r) \/ path_repo_commit_log(r)
    \/ path_repo_discard
    \/ \E p \in Path :
          \/ \E a \in {"A", "D", "R", "M"} : log_change(a, p)
          \/ \E a \in {"A", "R"} : log_copy_outside(a, p)
          \/ \E a \in {"A", "R"}, src \in Path, r \in 0 .. head :
                log_copy_inside(a, p, src, r)
    \/ log_commit
    \/ StartDryRun

Spec == Init /\ [][Next]_vars
-----------------------------------------------------------------------------
(***************************************************************************)
(* Properties                                                              *)
(***************************************************************************)

\* The shape of path_repo_t (path_repo.c:66-91) and of the driver's state.
TypeOK ==
    /\ DOMAIN db \subseteq 0 .. head
    /\ \A r \in DOMAIN db : db[r] \in Seq(Op)
    /\ delta \in Seq(Op)
    /\ tree \subseteq Path
    /\ head \in Nat
    /\ cache \in [Slots -> [revision : Nat \cup {-1}, tree : SUBSET Path]]
    /\ cache_index \in Slots
    /\ answer \in [revision : Nat \cup {-1}, tree : SUBSET Path]
    /\ phase \in {"prepare", "dry", "dump", "failed"}
    /\ logrev \in Nat \cup {-1}
    /\ logrev # -1 => phase = "prepare" /\ logrev >= head
    /\ last \in Path \cup {<<>>}
    /\ mode \in Modes

\* Rebuilding the head from the file ("Start at position of last snapshot
\* and apply deltas", path_repo.c:228) and replaying what is scheduled gives
\* the working tree: what path_repo_discard() and the next snapshot rely on.
TreeTracksHead ==
    tree = pr_delta_apply(pr_reconstruct(db, head), delta)

\* pr_reconstruct() never starts at a snapshot that was not written: every
\* multiple of SNAPSHOT_INTERVAL up to the head has a record.
SnapshotsPresent ==
    \A m \in 1 .. head : Snapshot(m) => m \in DOMAIN db

\* A cache slot of pr_tree() holds the tree of a committed revision, namely
\* of the revision on its label: commits never make a slot stale.
CacheCoherent ==
    \A i \in Slots :
        \/ cache[i].revision = -1
        \/ /\ cache[i].revision <= head
           /\ cache[i].tree = pr_reconstruct(db, cache[i].revision)

\* "Checks if a path exists at a given revision" (path_repo.h): a lookup is
\* answered from the tree that the revision has in the store.
LookupsExact ==
    answer.revision \in 0 .. head =>
        answer.tree = pr_reconstruct(db, answer.revision)

\* The store implements the abstract versioned tree: committed trees never
\* change, a commit stores the working tree, a discard returns to the head,
\* lookups are exact.
VT == INSTANCE VersionedTree
        WITH hist <- [r \in 0 .. head |-> pr_reconstruct(db, r)],
             work <- tree
ImplementsVersionedTree == VT!VTSpec
=============================================================================
