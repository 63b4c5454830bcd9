----------------------------- MODULE PropStore ------------------------------
(***************************************************************************)
(* property.c: the storage that keeps the properties of every node from    *)
(* the revision that closes it to the revision that opens it again.        *)
(*                                                                         *)
(* Equal property lists are stored once, in a key-value file, under the    *)
(* MD5 sum of their serialized form; paths refer to that record, the       *)
(* record counts its references, and records whose count has reached zero  *)
(* are removed when dump() has finished a revision.                        *)
(*                                                                         *)
(* The delta editor opens a node (and loads its properties, unless the     *)
(* node is new or the root), closes it (and stores them), deletes nodes,   *)
(* and dump() cleans up between two revisions, when no node is open.       *)
(***************************************************************************)
EXTENDS Integers, FiniteSets

CONSTANTS
    Path,       \* node paths
    Root,       \* the path of the root, whose properties are never loaded
    Id,         \* MD5 sums of serialized property lists
    Props,      \* non-empty property lists
    Content,    \* MD5 sum |-> the list that was serialized.  Not injective:
                \* the serialization follows the order of a hash table
    NoProps,    \* the empty property list
    MaxCount    \* bound: references of one record

ASSUME PathAssumption == IsFiniteSet(Path)
ASSUME RootAssumption == Root \in Path
ASSUME ContentAssumption == Content \in [Id -> Props]
ASSUME NoPropsAssumption == NoProps \notin Props
ASSUME CountAssumption == MaxCount \in Nat

VARIABLES
    entries,    \* path |-> the record it refers to
    refs,       \* record |-> number of references
    gc,         \* records whose count has reached zero
    db,         \* the file: record |-> property list
    open,       \* nodes that the editor has open
    call,       \* the editor's last call: its path and the properties passed
    status      \* "ok", "io" (file error) or "missing" (record not found)

vars == <<entries, refs, gc, db, open, call, status>>

\* Partial functions, as the hash tables and the file are.
Put(f, x, v) == [y \in DOMAIN f \cup {x} |-> IF y = x THEN v ELSE f[y]]
Drop(f, S) == [y \in DOMAIN f \ S |-> f[y]]
EmptyTable == [x \in {} |-> 0]

Call(op, p, props) == call' = [op |-> op, path |-> p, props |-> props]

CallType == [op : {"start", "load", "create", "store", "delete"},
             path : Path, props : Props \cup {NoProps}]

Users(id) == {p \in DOMAIN entries : entries[p] = id}
-----------------------------------------------------------------------------
\* property_storage_create()
Init ==
    /\ entries = EmptyTable
    /\ refs = EmptyTable
    /\ gc = {}
    /\ db = EmptyTable
    /\ open = {}
    /\ call = [op |-> "start", path |-> Root, props |-> NoProps]
    /\ status = "ok"

\* A slip in the function below: a count of zero does not qualify.
CollectBelowZero(p) ==
    LET id == entries[p] IN
    /\ entries' = Drop(entries, {p})
    /\ refs' = [refs EXCEPT ![id] = @ - 1]
    /\ gc' = IF refs[id] - 1 < 0 THEN gc \cup {id} ELSE gc

\* The end that property_load() and property_delete() have in common.
Dereference(p) ==
    LET id == entries[p] IN
    /\ entries' = Drop(entries, {p})
    /\ refs' = [refs EXCEPT ![id] = @ - 1]
    /\ gc' = IF refs[id] - 1 <= 0 THEN gc \cup {id} ELSE gc

\* de_open_directory() and de_open_file(): property_load().  If the record
\* cannot be read the dump ends.
property_load(p) ==
    /\ status = "ok"
    /\ p \notin open /\ p # Root
    /\ IF p \notin DOMAIN entries
       THEN /\ open' = open \cup {p}
            /\ Call("load", p, NoProps)
            /\ UNCHANGED <<entries, refs, gc, status>>
       ELSE IF entries[p] \notin DOMAIN db
       THEN /\ status' = "missing"
            /\ UNCHANGED <<entries, refs, gc, open, call>>
       ELSE /\ open' = open \cup {p}
            /\ Call("load", p, db[entries[p]])
            /\ Dereference(p)
            /\ UNCHANGED status
    /\ UNCHANGED db

\* de_add_directory(), de_add_file() and de_open_root() start with an empty
\* list and do not look at what is stored for the path.
create_node(p) ==
    /\ status = "ok"
    /\ p \notin open
    /\ open' = open \cup {p}
    /\ Call("create", p, NoProps)
    /\ UNCHANGED <<entries, refs, gc, db, status>>

\* A slip in property_store(): a further reference to a record that is already
\* stored is not counted.
OldNotCounted(p, id) ==
    /\ status = "ok"
    /\ p \in open
    /\ id \in DOMAIN refs => refs[id] < MaxCount
    /\ open' = open \ {p}
    /\ entries' = Put(entries, p, id)
    /\ refs' = IF id \in DOMAIN refs THEN refs ELSE Put(refs, id, 1)
    /\ db' = IF id \in DOMAIN refs THEN db ELSE Put(db, id, Content[id])
    /\ Call("store", p, Content[id])
    /\ UNCHANGED <<gc, status>>

\* de_close_directory() and de_close_file(): property_store().  An entry that
\* is already there is turned to the new record; the record it referred to
\* keeps its count.
property_store(p, id) ==
    /\ status = "ok"
    /\ p \in open
    /\ id \in DOMAIN refs => refs[id] < MaxCount
    /\ open' = open \ {p}
    /\ entries' = Put(entries, p, id)
    /\ refs' = Put(refs, id, IF id \in DOMAIN refs THEN refs[id] + 1 ELSE 1)
    /\ db' = IF id \in DOMAIN refs THEN db ELSE Put(db, id, Content[id])
    /\ Call("store", p, Content[id])
    /\ UNCHANGED <<gc, status>>

\* A slip in property_store(): the entry of a list that became empty stays.
EmptyKept(p) ==
    /\ status = "ok"
    /\ p \in open
    /\ open' = open \ {p}
    /\ Call("store", p, NoProps)
    /\ UNCHANGED <<entries, refs, gc, db, status>>

\* property_store() of an empty list: the entry goes, uncounted.
property_store_empty(p) ==
    /\ status = "ok"
    /\ p \in open
    /\ open' = open \ {p}
    /\ entries' = Drop(entries, {p})
    /\ Call("store", p, NoProps)
    /\ UNCHANGED <<refs, gc, db, status>>

\* de_delete_entry(): property_delete(), for the node and for the files below
\* it; the server deletes before it opens or adds.
property_delete(p) ==
    /\ status = "ok"
    /\ p \notin open /\ p # Root
    /\ IF p \in DOMAIN entries
       THEN Dereference(p)
       ELSE UNCHANGED <<entries, refs, gc>>
    /\ Call("delete", p, NoProps)
    /\ UNCHANGED <<db, open, status>>

\* Two slips in property_storage_cleanup(): the list of what was removed is
\* not cleared; the count is not looked at again.
ListKept ==
    /\ status = "ok"
    /\ open = {}
    /\ LET dead == {id \in gc : refs[id] <= 0} IN
         /\ refs' = Drop(refs, dead)
         /\ db' = Drop(db, dead)
    /\ UNCHANGED <<entries, gc, open, call, status>>

CleanupAll ==
    /\ status = "ok"
    /\ open = {}
    /\ refs' = Drop(refs, gc)
    /\ db' = Drop(db, gc)
    /\ gc' = {}
    /\ UNCHANGED <<entries, open, call, status>>

\* property_storage_cleanup(), after each revision: a record that was stored
\* again since it was collected is kept.
property_storage_cleanup ==
    /\ status = "ok"
    /\ open = {}
    /\ LET dead == {id \in gc : refs[id] <= 0} IN
         /\ refs' = Drop(refs, dead)
         /\ db' = Drop(db, dead)
    /\ gc' = {}
    /\ UNCHANGED <<entries, open, call, status>>

\* mukv_fetch() or mukv_store() fails: the callback returns an error and the
\* dump ends.  A new record has been entered in refs by then.
load_fault(p) ==
    /\ status = "ok"
    /\ p \notin open /\ p # Root
    /\ p \in DOMAIN entries
    /\ status' = "io"
    /\ UNCHANGED <<entries, refs, gc, db, open, call>>

store_fault(p, id) ==
    /\ status = "ok"
    /\ p \in open
    /\ id \notin DOMAIN refs
    /\ refs' = Put(refs, id, 0)
    /\ status' = "io"
    /\ UNCHANGED <<entries, gc, db, open, call>>
-----------------------------------------------------------------------------
Next ==
    \/ \E p \in Path :
          \/ property_load(p)
          \/ create_node(p)
          \/ \E id \in Id : property_store(p, id) \/ store_fault(p, id)
          \/ property_store_empty(p)
          \/ property_delete(p)
          \/ load_fault(p)
    \/ property_storage_cleanup

Spec == Init /\ [][Next]_vars
-----------------------------------------------------------------------------
(***************************************************************************)
(* Properties                                                              *)
(***************************************************************************)

\* The shape of property_storage_t (property.c:70-75).
TypeOK ==
    /\ DOMAIN entries \subseteq Path
    /\ \A p \in DOMAIN entries : entries[p] \in Id
    /\ DOMAIN refs \subseteq Id
    /\ \A id \in DOMAIN refs : refs[id] \in Int
    /\ gc \subseteq DOMAIN refs
    /\ DOMAIN db \subseteq Id
    /\ open \subseteq Path
    /\ call \in CallType
    /\ status \in {"ok", "io", "missing"}

\* The count of a record never falls below the number of paths that refer to
\* it, so that property_storage_cleanup() cannot remove a record (and free its
\* prop_ref_t) while an entry still points to it, whatever was stored, loaded,
\* overwritten and deleted before.
CountCovers ==
    /\ \A p \in DOMAIN entries : entries[p] \in DOMAIN refs
    /\ \A id \in DOMAIN refs : refs[id] >= Cardinality(Users(id))

\* Every entry leads to the properties it stands for, and property_load()
\* never misses a record.
NoDangling ==
    /\ status # "missing"
    /\ \A p \in DOMAIN entries :
          /\ entries[p] \in DOMAIN db
          /\ db[entries[p]] = Content[entries[p]]

\* A record without references is never forgotten: it waits in gc ("Entries
\* that reached zero reference count", property.c:75) for the next cleanup.
ZeroCollected ==
    status = "ok" => \A id \in DOMAIN refs : refs[id] <= 0 => id \in gc

\* The storage implements the abstract map of saved properties.
PM == INSTANCE PropMap
        WITH saved <- [p \in Path |-> IF p \in DOMAIN entries
                                      THEN Content[entries[p]]
                                      ELSE NoProps]
ImplementsPropMap == PM!PMSpec
=============================================================================
