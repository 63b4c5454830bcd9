-------------------------- MODULE PropStoreProofs ---------------------------
(***************************************************************************)
(* Proofs about PropStore.tla, for any set of paths and of records.        *)
(*                                                                         *)
(* The inductive invariant is Inv: entries lead to records that are in     *)
(* refs and in the file (Backed), and counts cover their users.  The       *)
(* counts are compared with the cardinality of sets of paths; the lemmas   *)
(* at the start say how these sets change.                                 *)
(***************************************************************************)
EXTENDS PropStore, FiniteSetTheorems, TLAPS

UsersIn(e, id) == {p \in DOMAIN e : e[p] = id}

\* The paths that refer to a record are finitely many.
LEMMA UsersFinite ==
    ASSUME NEW e, DOMAIN e \subseteq Path, NEW id
    PROVE  IsFiniteSet(UsersIn(e, id)) /\ Cardinality(UsersIn(e, id)) \in Nat
BY PathAssumption, FS_Subset, FS_CardinalityType DEF UsersIn

\* Dropping an entry takes one user from its record and none from the others.
LEMMA UsersDrop ==
    ASSUME NEW e, DOMAIN e \subseteq Path, NEW p \in DOMAIN e, NEW id
    PROVE  /\ id = e[p] => Cardinality(UsersIn(Drop(e, {p}), id))
                            = Cardinality(UsersIn(e, id)) - 1
           /\ id # e[p] => UsersIn(Drop(e, {p}), id) = UsersIn(e, id)
<1>1. UsersIn(Drop(e, {p}), id) = UsersIn(e, id) \ {p}
  BY DEF UsersIn, Drop
<1>2. IsFiniteSet(UsersIn(e, id))
  BY UsersFinite
<1>3. p \in UsersIn(e, id) <=> id = e[p]
  BY DEF UsersIn
<1>4. CASE id = e[p]
  BY <1>1, <1>2, <1>3, <1>4, FS_RemoveElement
<1>5. CASE id # e[p]
  BY <1>1, <1>3, <1>5
<1> QED BY <1>4, <1>5

\* Dropping an entry, present or not, never adds users.
LEMMA UsersDropMost ==
    ASSUME NEW e, DOMAIN e \subseteq Path, NEW p, NEW id
    PROVE  /\ UsersIn(Drop(e, {p}), id) \subseteq UsersIn(e, id)
           /\ Cardinality(UsersIn(Drop(e, {p}), id))
                <= Cardinality(UsersIn(e, id))
<1>1. UsersIn(Drop(e, {p}), id) \subseteq UsersIn(e, id)
  BY DEF UsersIn, Drop
<1>2. IsFiniteSet(UsersIn(e, id))
  BY UsersFinite
<1> QED BY <1>1, <1>2, FS_Subset

\* Storing an entry adds at most one user to its record, none to others.
LEMMA UsersPut ==
    ASSUME NEW e, DOMAIN e \subseteq Path, NEW p, NEW new, NEW id
    PROVE  /\ id = new => Cardinality(UsersIn(Put(e, p, new), id))
                            <= Cardinality(UsersIn(e, id)) + 1
           /\ id # new =>
                /\ UsersIn(Put(e, p, new), id) \subseteq UsersIn(e, id)
                /\ Cardinality(UsersIn(Put(e, p, new), id))
                     <= Cardinality(UsersIn(e, id))
<1>1. IsFiniteSet(UsersIn(e, id)) /\ Cardinality(UsersIn(e, id)) \in Nat
  BY UsersFinite
<1>2. CASE id = new
  <2>1. UsersIn(Put(e, p, new), id) = UsersIn(e, id) \cup {p}
    BY <1>2 DEF UsersIn, Put
  <2>2. Cardinality(UsersIn(e, id) \cup {p}) <= Cardinality(UsersIn(e, id)) + 1
    <3>1. CASE p \in UsersIn(e, id)
      BY <1>1, <3>1, FS_AddElement
    <3>2. CASE p \notin UsersIn(e, id)
      BY <1>1, <3>2, FS_AddElement
    <3> QED BY <3>1, <3>2
  <2> QED BY <2>1, <2>2, <1>2
<1>3. CASE id # new
  <2>1. UsersIn(Put(e, p, new), id) \subseteq UsersIn(e, id)
    BY <1>3 DEF UsersIn, Put
  <2> QED BY <2>1, <1>1, <1>3, FS_Subset
<1> QED BY <1>2, <1>3
-----------------------------------------------------------------------------
\* The file holds what was serialized, and a record is in refs exactly if it
\* is in the file (as long as no write has failed).
Backed ==
    /\ DOMAIN db \subseteq DOMAIN refs
    /\ status = "ok" => DOMAIN refs \subseteq DOMAIN db
    /\ \A id \in DOMAIN db : db[id] = Content[id]

Inv == TypeOK /\ Backed /\ NoDangling /\ CountCovers /\ ZeroCollected

LEMMA InvInit == Init => Inv
<1> SUFFICES ASSUME Init PROVE Inv
  OBVIOUS
<1>1. TypeOK /\ Backed /\ NoDangling /\ ZeroCollected
  BY RootAssumption DEF Init, CallType, TypeOK, Backed, NoDangling, ZeroCollected, EmptyTable
<1>2. CountCovers
  BY DEF Init, CountCovers, Users, EmptyTable
<1> QED BY <1>1, <1>2 DEF Inv

\* What a dereference does to the part of the state it changes.
LEMMA DereferenceInv ==
    ASSUME Inv, NEW p \in DOMAIN entries, Dereference(p),
           status = "ok", UNCHANGED <<db, status>>,
           open' \subseteq Path, call' \in CallType
    PROVE  Inv'
<1> DEFINE id == entries[p]
<1>1. /\ DOMAIN entries \subseteq Path
      /\ id \in DOMAIN refs /\ id \in DOMAIN db /\ id \in Id
  BY DEF Inv, TypeOK, NoDangling, Backed
<1>2. /\ entries' = Drop(entries, {p})
      /\ refs' = [refs EXCEPT ![id] = @ - 1]
      /\ gc' = IF refs[id] - 1 <= 0 THEN gc \cup {id} ELSE gc
  BY DEF Dereference
<1>3. /\ DOMAIN entries' = DOMAIN entries \ {p}
      /\ \A q \in DOMAIN entries' : entries'[q] = entries[q]
      /\ DOMAIN refs' = DOMAIN refs
  BY <1>2 DEF Drop
<1>4. TypeOK'
  <2>1. \A j \in DOMAIN refs' : refs'[j] \in Int
    BY <1>2, <1>3 DEF Inv, TypeOK
  <2>2. gc' \subseteq DOMAIN refs'
    BY <1>1, <1>2, <1>3 DEF Inv, TypeOK
  <2> QED BY <1>1, <1>3, <2>1, <2>2 DEF Inv, TypeOK
<1>5. Backed' /\ NoDangling'
  BY <1>3 DEF Inv, Backed, NoDangling
<1>6. ZeroCollected'
  BY <1>2, <1>3 DEF Inv, ZeroCollected, TypeOK
<1>7. CountCovers'
  <2>1. \A q \in DOMAIN entries' : entries'[q] \in DOMAIN refs'
    BY <1>3 DEF Inv, CountCovers
  <2> SUFFICES ASSUME NEW j \in DOMAIN refs'
               PROVE  refs'[j] >= Cardinality(Users(j)')
    BY <2>1 DEF CountCovers
  <2>2. Users(j) = UsersIn(entries, j) /\ Users(j)' = UsersIn(entries', j)
    BY DEF Users, UsersIn
  <2>3. j \in DOMAIN refs /\ refs[j] >= Cardinality(Users(j)) /\ refs[j] \in Int
    BY <1>3 DEF Inv, CountCovers, TypeOK
  <2>4. Cardinality(Users(j)) \in Nat
    BY <1>1, <2>2, UsersFinite
  <2>5. CASE j = id
    <3>1. Cardinality(Users(j)') = Cardinality(Users(j)) - 1
      BY <2>2, <2>5, <1>1, <1>2, UsersDrop
    <3>2. refs'[j] = refs[j] - 1
      BY <1>2, <2>3, <2>5
    <3> QED BY <3>1, <3>2, <2>3, <2>4
  <2>6. CASE j # id
    <3>1. Users(j)' = Users(j)
      BY <2>2, <2>6, <1>1, <1>2, UsersDrop
    <3>2. refs'[j] = refs[j]
      BY <1>2, <2>3, <2>6
    <3> QED BY <3>1, <3>2, <2>3
  <2> QED BY <2>5, <2>6
<1> QED BY <1>4, <1>5, <1>6, <1>7 DEF Inv

LEMMA LoadInv ==
    ASSUME Inv, NEW p \in Path, property_load(p)
    PROVE  Inv'
<1>1. CASE p \notin DOMAIN entries
  BY <1>1 DEF property_load, Call, CallType, Inv, TypeOK, Backed, NoDangling, CountCovers,
              ZeroCollected, Users
<1>2. CASE p \in DOMAIN entries
  <2>1. entries[p] \in DOMAIN db /\ db[entries[p]] = Content[entries[p]]
        /\ entries[p] \in Id
    BY <1>2 DEF Inv, NoDangling, TypeOK
  <2>2. /\ Dereference(p) /\ status = "ok" /\ UNCHANGED <<db, status>>
        /\ open' = open \cup {p} /\ call' = [op |-> "load", path |-> p, props |-> db[entries[p]]]
    BY <1>2, <2>1 DEF property_load, Call
  <2>3. open' \subseteq Path /\ call' \in CallType
    BY <2>1, <2>2, ContentAssumption DEF Inv, TypeOK, CallType
  <2> QED BY <1>2, <2>2, <2>3, DereferenceInv
<1> QED BY <1>1, <1>2

LEMMA StoreInv ==
    ASSUME Inv, NEW p \in Path, NEW id \in Id, property_store(p, id)
    PROVE  Inv'
<1>1. /\ entries' = Put(entries, p, id)
      /\ refs' = Put(refs, id, IF id \in DOMAIN refs THEN refs[id] + 1 ELSE 1)
      /\ db' = IF id \in DOMAIN refs THEN db ELSE Put(db, id, Content[id])
      /\ open' = open \ {p} /\ call' \in CallType
      /\ gc' = gc /\ status = "ok" /\ status' = "ok"
  BY ContentAssumption DEF property_store, Call, CallType
<1>2. /\ DOMAIN entries' = DOMAIN entries \cup {p}
      /\ \A q \in DOMAIN entries' :
            entries'[q] = IF q = p THEN id ELSE entries[q]
      /\ DOMAIN refs' = DOMAIN refs \cup {id}
      /\ \A j \in DOMAIN refs' : j # id => refs'[j] = refs[j]
      /\ refs'[id] = IF id \in DOMAIN refs THEN refs[id] + 1 ELSE 1
  BY <1>1 DEF Put
<1>3. DOMAIN refs = DOMAIN db
  BY <1>1 DEF Inv, Backed
<1>4. /\ DOMAIN db' = DOMAIN refs'
      /\ \A j \in DOMAIN db' : db'[j] = Content[j]
  BY <1>1, <1>2, <1>3 DEF Inv, Backed, Put
<1>5. TypeOK'
  <2>1. DOMAIN entries' \subseteq Path /\ DOMAIN refs' \subseteq Id
        /\ \A q \in DOMAIN entries' : entries'[q] \in Id
    BY <1>2 DEF Inv, TypeOK
  <2>2. \A j \in DOMAIN refs' : refs'[j] \in Int
    BY <1>2 DEF Inv, TypeOK
  <2>3. gc' \subseteq DOMAIN refs' /\ DOMAIN db' \subseteq Id
    BY <1>1, <1>2, <1>4, <2>1 DEF Inv, TypeOK
  <2> QED BY <1>1, <2>1, <2>2, <2>3 DEF Inv, TypeOK
<1>6. Backed'
  BY <1>1, <1>4 DEF Backed
<1>7. NoDangling'
  BY <1>1, <1>2, <1>3, <1>4 DEF Inv, NoDangling
<1>8. ZeroCollected'
  <2> SUFFICES ASSUME NEW j \in DOMAIN refs', refs'[j] <= 0
               PROVE  j \in gc'
    BY DEF ZeroCollected
  <2>1. j \in DOMAIN refs /\ refs[j] <= 0
    BY <1>2 DEF Inv, TypeOK
  <2> QED BY <2>1, <1>1 DEF Inv, ZeroCollected
<1>9. CountCovers'
  <2>1. \A q \in DOMAIN entries' : entries'[q] \in DOMAIN refs'
    BY <1>2 DEF Inv, CountCovers
  <2> SUFFICES ASSUME NEW j \in DOMAIN refs'
               PROVE  refs'[j] >= Cardinality(Users(j)')
    BY <2>1 DEF CountCovers
  <2>2. Users(j) = UsersIn(entries, j) /\ Users(j)' = UsersIn(entries', j)
    BY DEF Users, UsersIn
  <2>3. DOMAIN entries \subseteq Path /\ DOMAIN entries' \subseteq Path
    BY <1>5 DEF Inv, TypeOK
  <2>4. Cardinality(Users(j)) \in Nat /\ Cardinality(Users(j)') \in Nat
    BY <2>2, <2>3, UsersFinite
  <2>5. j \in DOMAIN refs => refs[j] >= Cardinality(Users(j)) /\ refs[j] \in Int
    BY DEF Inv, CountCovers, TypeOK
  <2>6. CASE j = id
    <3>1. Cardinality(Users(j)') <= Cardinality(Users(j)) + 1
      BY <2>2, <2>3, <2>6, <1>1, UsersPut
    <3>2. CASE j \in DOMAIN refs
      BY <3>1, <3>2, <2>4, <2>5, <2>6, <1>2
    <3>3. CASE j \notin DOMAIN refs
      <4>1. Users(j) = {}
        BY <3>3 DEF Inv, CountCovers, Users
      <4>2. Cardinality(Users(j)) = 0
        BY <4>1, FS_EmptySet
      <4> QED BY <3>1, <3>3, <4>2, <2>4, <2>6, <1>2
    <3> QED BY <3>2, <3>3
  <2>7. CASE j # id
    <3>1. Cardinality(Users(j)') <= Cardinality(Users(j))
      BY <2>2, <2>3, <2>7, <1>1, UsersPut
    <3>2. j \in DOMAIN refs /\ refs'[j] = refs[j]
      BY <2>7, <1>2
    <3> QED BY <3>1, <3>2, <2>4, <2>5
  <2> QED BY <2>6, <2>7
<1> QED BY <1>5, <1>6, <1>7, <1>8, <1>9 DEF Inv

LEMMA StoreEmptyInv ==
    ASSUME Inv, NEW p \in Path, property_store_empty(p)
    PROVE  Inv'
<1>1. /\ entries' = Drop(entries, {p})
      /\ refs' = refs /\ gc' = gc /\ db' = db /\ status' = status
      /\ open' = open \ {p} /\ call' \in CallType
  BY DEF property_store_empty, Call, CallType
<1>2. /\ DOMAIN entries' = DOMAIN entries \ {p}
      /\ \A q \in DOMAIN entries' : entries'[q] = entries[q]
  BY <1>1 DEF Drop
<1>3. TypeOK' /\ Backed' /\ NoDangling' /\ ZeroCollected'
  BY <1>1, <1>2 DEF Inv, TypeOK, Backed, NoDangling, ZeroCollected
<1>4. CountCovers'
  <2>1. \A q \in DOMAIN entries' : entries'[q] \in DOMAIN refs'
    BY <1>1, <1>2 DEF Inv, CountCovers
  <2> SUFFICES ASSUME NEW j \in DOMAIN refs
               PROVE  refs[j] >= Cardinality(Users(j)')
    BY <1>1, <2>1 DEF CountCovers
  <2>2. Users(j) = UsersIn(entries, j) /\ Users(j)' = UsersIn(entries', j)
    BY DEF Users, UsersIn
  <2>3. DOMAIN entries \subseteq Path /\ DOMAIN entries' \subseteq Path
    BY <1>3 DEF Inv, TypeOK
  <2>4. Cardinality(Users(j)) \in Nat /\ Cardinality(Users(j)') \in Nat
    BY <2>2, <2>3, UsersFinite
  <2>5. Cardinality(Users(j)') <= Cardinality(Users(j))
    BY <1>1, <2>2, <2>3, UsersDropMost
  <2>6. refs[j] >= Cardinality(Users(j)) /\ refs[j] \in Int
    BY DEF Inv, CountCovers, TypeOK
  <2> QED BY <2>4, <2>5, <2>6
<1> QED BY <1>3, <1>4 DEF Inv

LEMMA DeleteInv ==
    ASSUME Inv, NEW p \in Path, property_delete(p)
    PROVE  Inv'
<1>1. CASE p \notin DOMAIN entries
  BY <1>1 DEF property_delete, Call, CallType, Inv, TypeOK, Backed, NoDangling, CountCovers,
              ZeroCollected, Users
<1>2. CASE p \in DOMAIN entries
  <2>1. /\ Dereference(p) /\ status = "ok" /\ UNCHANGED <<db, status>>
        /\ open' \subseteq Path /\ call' \in CallType
    BY <1>2 DEF property_delete, Inv, TypeOK, Call, CallType
  <2> QED BY <1>2, <2>1, DereferenceInv
<1> QED BY <1>1, <1>2

\* The heart of the matter: a record that an entry refers to has a positive
\* count, so the cleanup passes it by.
LEMMA CleanupInv ==
    ASSUME Inv, property_storage_cleanup
    PROVE  Inv'
<1> DEFINE dead == {id \in gc : refs[id] <= 0}
<1>1. /\ refs' = Drop(refs, dead) /\ db' = Drop(db, dead) /\ gc' = {}
      /\ entries' = entries /\ open' = open /\ call' = call
      /\ status' = status /\ status = "ok"
  BY DEF property_storage_cleanup
<1>2. /\ DOMAIN refs' = DOMAIN refs \ dead
      /\ \A id \in DOMAIN refs' : refs'[id] = refs[id]
      /\ DOMAIN db' = DOMAIN db \ dead
      /\ \A id \in DOMAIN db' : db'[id] = db[id]
  BY <1>1 DEF Drop
<1>3. \A p \in DOMAIN entries : entries[p] \notin dead
  <2> SUFFICES ASSUME NEW p \in DOMAIN entries PROVE refs[entries[p]] > 0
    BY DEF Inv, TypeOK, CountCovers
  <2> DEFINE id == entries[p]
  <2>1. /\ id \in DOMAIN refs /\ refs[id] \in Int
        /\ refs[id] >= Cardinality(Users(id))
    BY DEF Inv, CountCovers, TypeOK
  <2>2. p \in Users(id) /\ Users(id) = UsersIn(entries, id)
    BY DEF Users, UsersIn
  <2>3. IsFiniteSet(Users(id)) /\ Cardinality(Users(id)) \in Nat
    BY <2>2, UsersFinite DEF Inv, TypeOK
  <2>4. Cardinality(Users(id)) # 0
    BY <2>2, <2>3, FS_EmptySet
  <2> HIDE DEF id
  <2>5. refs[id] > 0
    BY <2>1, <2>3, <2>4
  <2> QED BY <2>5 DEF id
<1>4. TypeOK' /\ Backed' /\ NoDangling'
  BY <1>1, <1>2, <1>3 DEF Inv, TypeOK, Backed, NoDangling
<1>5. ZeroCollected'
  <2> SUFFICES ASSUME NEW id \in DOMAIN refs', refs'[id] <= 0 PROVE FALSE
    BY DEF ZeroCollected
  <2>1. id \in DOMAIN refs /\ refs[id] <= 0 /\ id \notin dead
    BY <1>2
  <2>2. id \in gc
    BY <2>1, <1>1 DEF Inv, ZeroCollected
  <2> QED BY <2>1, <2>2
<1>6. CountCovers'
  BY <1>1, <1>2, <1>3 DEF Inv, CountCovers, Users
<1> QED BY <1>4, <1>5, <1>6 DEF Inv

LEMMA FaultInv ==
    ASSUME Inv, NEW p \in Path, NEW id \in Id, store_fault(p, id)
    PROVE  Inv'
<1>1. /\ refs' = Put(refs, id, 0) /\ id \notin DOMAIN refs /\ status' = "io"
      /\ UNCHANGED <<entries, gc, db, open, call>>
  BY DEF store_fault
<1>2. /\ DOMAIN refs' = DOMAIN refs \cup {id} /\ refs'[id] = 0
      /\ \A j \in DOMAIN refs : refs'[j] = refs[j]
  BY <1>1 DEF Put
<1>3. TypeOK' /\ Backed' /\ NoDangling' /\ ZeroCollected'
  BY <1>1, <1>2 DEF Inv, TypeOK, Backed, NoDangling, ZeroCollected
<1>4. Users(id) = {}
  BY <1>1 DEF Users, Inv, CountCovers
<1>5. CountCovers'
  BY <1>1, <1>2, <1>4, FS_EmptySet DEF Inv, CountCovers, Users
<1> QED BY <1>3, <1>5 DEF Inv

LEMMA InvNext == Inv /\ [Next]_vars => Inv'
<1> SUFFICES ASSUME Inv, [Next]_vars PROVE Inv'
  OBVIOUS
<1>1. ASSUME NEW p \in Path, create_node(p) PROVE Inv'
  BY <1>1 DEF create_node, Call, CallType, Inv, TypeOK, Backed, NoDangling,
              CountCovers, ZeroCollected, Users
<1>2. ASSUME NEW p \in Path, load_fault(p) PROVE Inv'
  BY <1>2 DEF load_fault, Inv, TypeOK, Backed, NoDangling, CountCovers,
              ZeroCollected, Users
<1>3. CASE UNCHANGED vars
  BY <1>3 DEF vars, Inv, TypeOK, Backed, NoDangling, CountCovers,
              ZeroCollected, Users
<1> QED BY <1>1, <1>2, <1>3, LoadInv, StoreInv, StoreEmptyInv, DeleteInv,
           CleanupInv, FaultInv DEF Next

\* For every set of paths and records: property_storage_cleanup() never
\* removes a record that an entry refers to, property_load() never misses
\* one, and no unreferenced record is forgotten by the garbage collection.
THEOREM PropStoreSafe ==
    Spec => [](TypeOK /\ CountCovers /\ NoDangling /\ ZeroCollected)
<1>1. Inv => TypeOK /\ CountCovers /\ NoDangling /\ ZeroCollected
  BY DEF Inv
<1> QED BY InvInit, InvNext, <1>1, PTL DEF Spec
-----------------------------------------------------------------------------
(***************************************************************************)
(* Refinement                                                              *)
(***************************************************************************)

\* The refinement mapping of PropStore, and how it changes with the entries.
Saved(e) == [p \in Path |-> IF p \in DOMAIN e THEN Content[e[p]] ELSE NoProps]

LEMMA SavedDrop ==
    ASSUME NEW e, NEW p \in Path
    PROVE  Saved(Drop(e, {p})) = [Saved(e) EXCEPT ![p] = NoProps]
BY DEF Saved, Drop

LEMMA SavedPut ==
    ASSUME NEW e, NEW p \in Path, NEW id
    PROVE  Saved(Put(e, p, id)) = [Saved(e) EXCEPT ![p] = Content[id]]
BY DEF Saved, Put

\* Every step is a step of the abstract map, or changes nothing in it.
LEMMA StepRefines ==
    ASSUME Inv, Next
    PROVE  [PM!PMNext]_(PM!pmvars)
<1>1. ASSUME NEW p \in Path, property_load(p) PROVE PM!PMNext
  <2>1. CASE p \notin DOMAIN entries
    <3>1. /\ entries' = entries /\ call' = [op |-> "load", path |-> p,
                                           props |-> NoProps]
          /\ status = "ok" /\ status' = status
      BY <1>1, <2>1 DEF property_load, Call
    <3>2. PM!Load(p)
      BY <2>1, <3>1 DEF PM!Load, PM!Call
    <3> QED BY <3>1, <3>2 DEF PM!PMNext
  <2>2. CASE p \in DOMAIN entries
    <3>1. entries[p] \in DOMAIN db /\ db[entries[p]] = Content[entries[p]]
      BY <2>2 DEF Inv, NoDangling
    <3>2. /\ entries' = Drop(entries, {p})
          /\ call' = [op |-> "load", path |-> p, props |-> Content[entries[p]]]
          /\ status = "ok" /\ status' = status
      BY <1>1, <2>2, <3>1 DEF property_load, Dereference, Call
    <3>3. Saved(entries') = [Saved(entries) EXCEPT ![p] = NoProps]
      BY <3>2, SavedDrop
    <3>4. Content[entries[p]] = Saved(entries)[p]
      BY <2>2 DEF Saved
    <3>5. PM!Load(p)
      BY <3>2, <3>3, <3>4 DEF Saved, PM!Load, PM!Call
    <3> QED BY <3>2, <3>5 DEF PM!PMNext
  <2> QED BY <2>1, <2>2
<1>2. ASSUME NEW p \in Path, create_node(p) PROVE PM!PMNext
  <2>1. PM!Create(p) /\ status = "ok" /\ status' = status
    BY <1>2 DEF create_node, Call, PM!Create, PM!Call
  <2> QED BY <2>1 DEF PM!PMNext
<1>3. ASSUME NEW p \in Path, NEW id \in Id, property_store(p, id)
      PROVE  PM!PMNext
  <2>1. /\ entries' = Put(entries, p, id)
        /\ call' = [op |-> "store", path |-> p, props |-> Content[id]]
        /\ status = "ok" /\ status' = status
    BY <1>3 DEF property_store, Call
  <2>2. Saved(entries') = [Saved(entries) EXCEPT ![p] = Content[id]]
    BY <2>1, SavedPut
  <2>3. Content[id] \in Props
    BY ContentAssumption
  <2>4. PM!Store(p, Content[id])
    BY <2>1, <2>2 DEF Saved, PM!Store, PM!Call
  <2> QED BY <2>1, <2>3, <2>4 DEF PM!PMNext
<1>4. ASSUME NEW p \in Path, property_store_empty(p) PROVE PM!PMNext
  <2>1. /\ entries' = Drop(entries, {p})
        /\ call' = [op |-> "store", path |-> p, props |-> NoProps]
        /\ status = "ok" /\ status' = status
    BY <1>4 DEF property_store_empty, Call
  <2>2. Saved(entries') = [Saved(entries) EXCEPT ![p] = NoProps]
    BY <2>1, SavedDrop
  <2>3. PM!Store(p, NoProps)
    BY <2>1, <2>2 DEF Saved, PM!Store, PM!Call
  <2> QED BY <2>1, <2>3 DEF PM!PMNext
<1>5. ASSUME NEW p \in Path, property_delete(p) PROVE PM!PMNext
  <2>1. /\ call' = [op |-> "delete", path |-> p, props |-> NoProps]
        /\ status = "ok" /\ status' = status
    BY <1>5 DEF property_delete, Call
  <2>2. Saved(entries') = [Saved(entries) EXCEPT ![p] = NoProps]
    <3>1. CASE p \notin DOMAIN entries
      <4>1. entries' = entries
        BY <1>5, <3>1 DEF property_delete
      <4> QED BY <3>1, <4>1 DEF Saved
    <3>2. CASE p \in DOMAIN entries
      <4>1. entries' = Drop(entries, {p})
        BY <1>5, <3>2 DEF property_delete, Dereference
      <4> QED BY <4>1, SavedDrop
    <3> QED BY <3>1, <3>2
  <2>3. PM!Delete(p)
    BY <2>1, <2>2 DEF Saved, PM!Delete, PM!Call
  <2> QED BY <2>1, <2>3 DEF PM!PMNext
<1>6. ASSUME property_storage_cleanup PROVE UNCHANGED PM!pmvars
  BY <1>6 DEF property_storage_cleanup, PM!pmvars
<1>7. ASSUME NEW p \in Path, load_fault(p) PROVE PM!PMNext
  BY <1>7 DEF load_fault, PM!PMNext, PM!Fault
<1>8. ASSUME NEW p \in Path, NEW id \in Id, store_fault(p, id)
      PROVE  PM!PMNext
  BY <1>8 DEF store_fault, PM!PMNext, PM!Fault
<1> QED BY <1>1, <1>2, <1>3, <1>4, <1>5, <1>6, <1>7, <1>8 DEF Next

\* The storage implements the abstract map: what a node was closed with is
\* what it is opened with, for every set of paths and records.
THEOREM PropStoreRefinesPropMap == Spec => ImplementsPropMap
<1>1. Init => PM!PMInit
  BY DEF Init, PM!PMInit, EmptyTable
<1>2. Inv /\ [Next]_vars => [PM!PMNext]_(PM!pmvars)
  <2> SUFFICES ASSUME Inv, [Next]_vars PROVE [PM!PMNext]_(PM!pmvars)
    OBVIOUS
  <2>1. CASE Next
    BY <2>1, StepRefines
  <2>2. CASE UNCHANGED vars
    BY <2>2 DEF vars, PM!pmvars
  <2> QED BY <2>1, <2>2
<1> QED BY InvInit, InvNext, <1>1, <1>2, PTL
        DEF Spec, ImplementsPropMap, PM!PMSpec
=============================================================================
