--------------------------- MODULE VersionedTree ----------------------------
(***************************************************************************)
(* What the path repository promises to its callers (path_repo.h): an      *)
(* immutable tree of paths for every committed revision, one working tree  *)
(* that scheduled additions and deletions change, and lookups that are     *)
(* answered from the tree of the revision that is asked for.  Nothing is   *)
(* said of deltas, snapshots or caches: PathRepo.tla implements this.      *)
(***************************************************************************)
EXTENDS Integers

CONSTANT Path

VARIABLES
    hist,     \* revision |-> its tree, for the revisions 0 .. head
    head,     \* last committed revision
    work,     \* the tree the next commit will store
    answer    \* if the last operation was a lookup: its revision and tree

vtvars == <<hist, head, work, answer>>

NoAnswer == [revision |-> -1, tree |-> {}]

VTInit ==
    /\ head = 0
    /\ hist = [r \in 0 .. 0 |-> {}]
    /\ work = {}
    /\ answer = NoAnswer

\* Additions and deletions are scheduled: no committed tree changes.
Schedule ==
    /\ work' \in SUBSET Path
    /\ answer' = NoAnswer
    /\ UNCHANGED <<hist, head>>

\* Revisions that were skipped look like the head before them.
Commit ==
    /\ head' \in Int
    /\ head' > head \/ (head' = head /\ work = hist[head])
    /\ hist' = [r \in 0 .. head' |-> IF r <= head THEN hist[r]
                                     ELSE IF r < head' THEN hist[head]
                                     ELSE work]
    /\ answer' = NoAnswer
    /\ UNCHANGED work

Discard ==
    /\ work' = hist[head]
    /\ answer' = NoAnswer
    /\ UNCHANGED <<hist, head>>

\* Before revision 0 there is nothing.
Lookup(revision) ==
    /\ answer' = [revision |-> revision,
                  tree |-> IF revision < 0 THEN {} ELSE hist[revision]]
    /\ UNCHANGED <<hist, head, work>>

VTNext ==
    \/ Schedule
    \/ Commit
    \/ Discard
    \/ \E r \in -1 .. head : Lookup(r)

VTSpec == VTInit /\ [][VTNext]_vtvars
=============================================================================
