----------------------------- MODULE MukvProofs -----------------------------
(***************************************************************************)
(* Proofs about Mukv.tla, for any keys and values and without the bound on *)
(* the size of the file being of importance.                               *)
(***************************************************************************)
EXTENDS Mukv, TLAPS

\* Appending to the file leaves what lies within it as it is.
LEMMA AppendKeeps ==
    ASSUME NEW s \in Seq(Byte), NEW v \in Seq(Byte), NEW off \in Nat,
           NEW size \in Nat, off + size <= Len(s)
    PROVE  SubSeq(s \o v, off + 1, off + size) = SubSeq(s, off + 1, off + size)
<1>1. s \o v \in Seq(Byte) /\ Len(s \o v) = Len(s) + Len(v)
  OBVIOUS
<1>2. \A i \in 1 .. Len(s) : (s \o v)[i] = s[i]
  OBVIOUS
<1>3. /\ Len(SubSeq(s \o v, off + 1, off + size)) = size
      /\ Len(SubSeq(s, off + 1, off + size)) = size
  BY <1>1
<1>4. \A i \in 1 .. size :
        /\ SubSeq(s \o v, off + 1, off + size)[i] = (s \o v)[off + i]
        /\ SubSeq(s, off + 1, off + size)[i] = s[off + i]
  BY <1>1
<1>5. /\ SubSeq(s \o v, off + 1, off + size) \in Seq(Byte)
      /\ SubSeq(s, off + 1, off + size) \in Seq(Byte)
  BY <1>1
<1> QED BY <1>1, <1>2, <1>3, <1>4, <1>5

\* The record that was appended is read back.
LEMMA AppendReads ==
    ASSUME NEW s \in Seq(Byte), NEW v \in Seq(Byte)
    PROVE  SubSeq(s \o v, Len(s) + 1, Len(s) + Len(v)) = v
OBVIOUS

\* Reading within the file yields a byte string.
LEMMA ReadType ==
    ASSUME NEW s \in Seq(Byte), NEW off \in Nat, NEW size \in Nat,
           off + size <= Len(s)
    PROVE  SubSeq(s, off + 1, off + size) \in Seq(Byte)
OBVIOUS
-----------------------------------------------------------------------------
Inv == TypeOK /\ NeverUndefined

LEMMA InvInit == Init => Inv
<1> SUFFICES ASSUME Init PROVE Inv
  OBVIOUS
<1>1. failed \in BOOLEAN /\ undefined \in BOOLEAN /\ ~undefined
  BY Zenon DEF Init
<1>2. file \in Seq(Byte) /\ Len(file) = 0 /\ pos \in 0 .. Len(file)
  BY DEF Init
<1>3. DOMAIN index = {}
  BY DEF Init
<1>4. /\ last = "seek"
      /\ fetched \in (Key \X (Seq(Byte) \cup {NoValue})) \cup {NoValue}
  BY DEF Init
<1>5. TypeOK
  BY <1>1, <1>2, <1>3, <1>4 DEF TypeOK
<1>6. NeverUndefined
  BY <1>1, <1>4 DEF NeverUndefined
<1> QED BY <1>5, <1>6 DEF Inv

LEMMA StoreInv ==
    ASSUME Inv, NEW k \in Key, NEW v \in Value, mukv_store(k, v)
    PROVE  Inv'
<1>1. file \in Seq(Byte) /\ v \in Seq(Byte)
  BY ValueAssumption DEF Inv, TypeOK
<1>2. /\ file' = file \o v /\ file' \in Seq(Byte)
      /\ Len(file') = Len(file) + Len(v)
      /\ Len(file) \in Nat /\ Len(v) \in Nat
  BY <1>1 DEF mukv_store
<1>3. /\ DOMAIN index' = DOMAIN index \cup {k}
      /\ index'[k] = [off |-> Len(file), size |-> Len(v)]
      /\ \A j \in DOMAIN index' : j # k => index'[j] = index[j]
  BY DEF mukv_store
<1>4. \A j \in DOMAIN index' :
        /\ index'[j] \in [off : Nat, size : Nat]
        /\ index'[j].off + index'[j].size <= Len(file')
  <2> SUFFICES ASSUME NEW j \in DOMAIN index'
               PROVE  /\ index'[j] \in [off : Nat, size : Nat]
                      /\ index'[j].off + index'[j].size <= Len(file')
    OBVIOUS
  <2>1. CASE j = k
    BY <2>1, <1>2, <1>3
  <2>2. CASE j # k
    BY <2>2, <1>2, <1>3 DEF Inv, TypeOK
  <2> QED BY <2>1, <2>2
<1>5. TypeOK'
  BY <1>2, <1>3, <1>4 DEF mukv_store, Inv, TypeOK
<1>6. NeverUndefined'
  BY <1>2 DEF mukv_store, Inv, NeverUndefined
<1> QED BY <1>5, <1>6 DEF Inv

LEMMA FaultInv ==
    ASSUME Inv, NEW k \in Key, NEW v \in Value, store_fault(k, v)
    PROVE  Inv'
<1>1. file \in Seq(Byte) /\ v \in Seq(Byte)
  BY ValueAssumption DEF Inv, TypeOK
<1>2. PICK n \in 0 .. Len(v) - 1 :
        file' = file \o SubSeq(v, 1, n) /\ pos' = Len(file) + n
  BY DEF store_fault
<1>3. SubSeq(v, 1, n) \in Seq(Byte) /\ Len(SubSeq(v, 1, n)) = n
  BY <1>1, <1>2
<1>4. /\ file' \in Seq(Byte) /\ Len(file') = Len(file) + n
      /\ Len(file) \in Nat /\ n \in Nat /\ pos' = Len(file')
  BY <1>1, <1>2, <1>3
<1>5. TypeOK'
  BY <1>4 DEF store_fault, Inv, TypeOK
<1>6. NeverUndefined'
  BY <1>4 DEF store_fault, Inv, NeverUndefined
<1> QED BY <1>5, <1>6 DEF Inv

\* The heart of the matter: after a write the stream is at the end of the
\* file, so a record that starts there has no bytes to read.
LEMMA FetchInv ==
    ASSUME Inv, NEW k \in Key, mukv_fetch(k)
    PROVE  Inv'
<1>1. CASE k \notin DOMAIN index
  BY <1>1 DEF mukv_fetch, Inv, TypeOK, NeverUndefined
<1>2. CASE k \in DOMAIN index
  <2> DEFINE entry == index[k]
  <2>1. /\ entry.off \in Nat /\ entry.size \in Nat
        /\ entry.off + entry.size <= Len(file)
        /\ file \in Seq(Byte) /\ Len(file) \in Nat
    BY <1>2 DEF Inv, TypeOK
  <2>2. Bytes(entry) \in Seq(Byte)
    BY <2>1, ReadType DEF Bytes
  <2>3. /\ fetched' = <<k, Bytes(entry)>>
        /\ pos' = entry.off + entry.size
        /\ last' = IF entry.size > 0 THEN "read"
                   ELSE IF pos # entry.off THEN "seek" ELSE last
        /\ undefined' = (undefined \/ (entry.size > 0 /\ last = "write"
                                                     /\ pos = entry.off))
        /\ UNCHANGED <<index, file, failed>>
    BY <1>2 DEF mukv_fetch
  <2> HIDE DEF entry
  <2> DEFINE bad == entry.size > 0 /\ last = "write" /\ pos = entry.off
  <2>a. ~bad
    BY <2>1 DEF Inv, NeverUndefined
  <2>b. ~undefined /\ undefined' = (undefined \/ bad)
    BY <2>3 DEF Inv, NeverUndefined
  <2> HIDE DEF bad
  <2>4. undefined' \in BOOLEAN /\ ~undefined'
    BY <2>a, <2>b, Zenon
  <2>5. last' = "write" => pos' = Len(file')
    BY <2>1, <2>3 DEF Inv, NeverUndefined
  <2>6. TypeOK'
    BY <2>1, <2>2, <2>3, <2>4 DEF Inv, TypeOK
  <2> QED BY <2>4, <2>5, <2>6 DEF Inv, NeverUndefined
<1> QED BY <1>1, <1>2

LEMMA InvNext == Inv /\ [Next]_vars => Inv'
<1> SUFFICES ASSUME Inv, [Next]_vars PROVE Inv'
  OBVIOUS
<1>1. ASSUME NEW k \in Key, mukv_delete(k) PROVE Inv'
  BY <1>1 DEF mukv_delete, Inv, TypeOK, NeverUndefined
<1>2. ASSUME NEW k \in Key, fetch_fault(k) PROVE Inv'
  BY <1>2 DEF fetch_fault, Inv, TypeOK, NeverUndefined
<1>3. CASE UNCHANGED vars
  BY <1>3 DEF vars, Inv, TypeOK, NeverUndefined
<1> QED BY <1>1, <1>2, <1>3, StoreInv, FaultInv, FetchInv DEF Next

\* mukv_fetch() never reads from a stream that was just written to, and every
\* record lies within the file, for all keys and values.
THEOREM MukvSafe == Spec => [](TypeOK /\ NeverUndefined)
<1>1. Inv => TypeOK /\ NeverUndefined
  BY DEF Inv
<1> QED BY InvInit, InvNext, <1>1, PTL DEF Spec
-----------------------------------------------------------------------------
(***************************************************************************)
(* Refinement                                                              *)
(***************************************************************************)

\* The refinement mapping of Mukv as an operator of the state it depends on.
Contents(ix, f) ==
    [k \in Key |-> IF k \in DOMAIN ix
                   THEN SubSeq(f, ix[k].off + 1, ix[k].off + ix[k].size)
                   ELSE NoValue]

LEMMA StoreContents ==
    ASSUME Inv, NEW k \in Key, NEW v \in Value, mukv_store(k, v)
    PROVE  Contents(index', file') = [Contents(index, file) EXCEPT ![k] = v]
<1>1. file \in Seq(Byte) /\ v \in Seq(Byte)
  BY ValueAssumption DEF Inv, TypeOK
<1>2. /\ file' = file \o v
      /\ DOMAIN index' = DOMAIN index \cup {k}
      /\ index'[k] = [off |-> Len(file), size |-> Len(v)]
      /\ \A j \in DOMAIN index' : j # k => index'[j] = index[j]
  BY DEF mukv_store
<1>3. Contents(index', file')[k] = v
  BY <1>1, <1>2, AppendReads DEF Contents
<1>4. ASSUME NEW j \in Key, j # k
      PROVE  Contents(index', file')[j] = Contents(index, file)[j]
  <2>1. CASE j \in DOMAIN index
    <3>1. /\ index[j].off \in Nat /\ index[j].size \in Nat
          /\ index[j].off + index[j].size <= Len(file)
      BY <2>1 DEF Inv, TypeOK
    <3>2. SubSeq(file', index[j].off + 1, index[j].off + index[j].size)
            = SubSeq(file, index[j].off + 1, index[j].off + index[j].size)
      BY <1>1, <1>2, <3>1, AppendKeeps
    <3>3. j \in DOMAIN index' /\ index'[j] = index[j]
      BY <1>2, <1>4, <2>1
    <3> QED BY <2>1, <3>2, <3>3 DEF Contents
  <2>2. CASE j \notin DOMAIN index
    BY <1>2, <1>4, <2>2 DEF Contents
  <2> QED BY <2>1, <2>2
<1>5. \A j \in Key : Contents(index', file')[j]
                       = [Contents(index, file) EXCEPT ![k] = v][j]
  BY <1>3, <1>4 DEF Contents
<1> QED BY <1>5 DEF Contents

LEMMA FaultContents ==
    ASSUME Inv, NEW k \in Key, NEW v \in Value, store_fault(k, v)
    PROVE  Contents(index', file') = Contents(index, file)
<1>1. file \in Seq(Byte) /\ v \in Seq(Byte)
  BY ValueAssumption DEF Inv, TypeOK
<1>2. PICK n \in 0 .. Len(v) - 1 : file' = file \o SubSeq(v, 1, n)
  BY DEF store_fault
<1>3. SubSeq(v, 1, n) \in Seq(Byte)
  BY <1>1, <1>2
<1>4. index' = index
  BY DEF store_fault
<1>5. ASSUME NEW j \in DOMAIN index
      PROVE  SubSeq(file', index[j].off + 1, index[j].off + index[j].size)
               = SubSeq(file, index[j].off + 1, index[j].off + index[j].size)
  <2>1. /\ index[j].off \in Nat /\ index[j].size \in Nat
        /\ index[j].off + index[j].size <= Len(file)
    BY DEF Inv, TypeOK
  <2> QED BY <1>1, <1>2, <1>3, <2>1, AppendKeeps
<1> QED BY <1>4, <1>5 DEF Contents

LEMMA StepRefines ==
    ASSUME Inv, Next
    PROVE  KV!KVNext
<1> USE DEF KV!KVNext, KV!Assign, KV!Fetch, KV!Break
<1>1. ASSUME NEW k \in Key, NEW v \in Value, mukv_store(k, v)
      PROVE  KV!KVNext
  <2>1. Contents(index', file') = [Contents(index, file) EXCEPT ![k] = v]
    BY <1>1, StoreContents
  <2>2. KV!Assign(k, v)
    BY <1>1, <2>1 DEF mukv_store, Contents, Bytes
  <2> QED BY <1>1, <2>2 DEF mukv_store
<1>2. ASSUME NEW k \in Key, NEW v \in Value, store_fault(k, v)
      PROVE  KV!KVNext
  <2>1. Contents(index', file') = Contents(index, file)
    BY <1>2, FaultContents
  <2>2. KV!Break
    BY <1>2, <2>1 DEF store_fault, Contents, Bytes
  <2> QED BY <1>2, <2>2 DEF store_fault
<1>3. ASSUME NEW k \in Key, mukv_fetch(k) PROVE KV!KVNext
  <2>1. KV!Fetch(k)
    BY <1>3 DEF mukv_fetch, Bytes
  <2> QED BY <1>3, <2>1 DEF mukv_fetch
<1>4. ASSUME NEW k \in Key, mukv_delete(k) PROVE KV!KVNext
  <2>1. KV!Assign(k, NoValue)
    BY <1>4 DEF mukv_delete, Bytes
  <2> QED BY <1>4, <2>1 DEF mukv_delete
<1>5. ASSUME NEW k \in Key, fetch_fault(k) PROVE KV!KVNext
  <2>1. KV!Break
    BY <1>5 DEF fetch_fault, Bytes
  <2> QED BY <1>5, <2>1 DEF fetch_fault
<1> HIDE DEF KV!KVNext, KV!Assign, KV!Fetch, KV!Break
<1> QED BY <1>1, <1>2, <1>3, <1>4, <1>5 DEF Next

\* The append-only file implements a map from keys to values.
THEOREM MukvRefinesKVMap == Spec => ImplementsKVMap
<1>1. Init => KV!KVInit
  BY DEF Init, KV!KVInit
<1>2. Inv /\ [Next]_vars => [KV!KVNext]_(KV!kvvars)
  <2> SUFFICES ASSUME Inv, [Next]_vars PROVE [KV!KVNext]_(KV!kvvars)
    OBVIOUS
  <2>1. CASE Next
    BY <2>1, StepRefines
  <2>2. CASE UNCHANGED vars
    BY <2>2 DEF vars, KV!kvvars, Bytes
  <2> QED BY <2>1, <2>2
<1> QED BY InvInit, InvNext, <1>1, <1>2, PTL
        DEF Spec, ImplementsKVMap, KV!KVSpec
=============================================================================
