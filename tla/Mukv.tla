-------------------------------- MODULE Mukv --------------------------------
(***************************************************************************)
(* mukv.c: a key-value store on a temporary file.  Records are appended    *)
(* and never overwritten or removed; an index in memory holds the place    *)
(* and size of the last record of every key.                               *)
(*                                                                         *)
(* The file is open for reading and writing.  C leaves it undefined what a *)
(* read returns that directly follows a write: the stream must be          *)
(* positioned in between.  mukv_fetch() positions it only if it is not at  *)
(* the record already.                                                     *)
(***************************************************************************)
EXTENDS Integers, Sequences, SequencesExt

CONSTANTS
    Key,
    Byte,
    Value,      \* the values that are stored: byte strings
    NoValue,    \* the datum with dptr = NULL
    MaxSize     \* bound: size of the file

ASSUME ValueAssumption == Value \subseteq Seq(Byte)
ASSUME NoValueAssumption == NoValue \notin Seq(Byte)
ASSUME SizeAssumption == MaxSize \in Nat

VARIABLES
    index,      \* key |-> [off, size]
    file,       \* contents of the file
    pos,        \* position of the stream, from 0
    last,       \* last operation on the stream: "seek", "write" or "read"
    fetched,    \* if the last call was a fetch: its key and what it returned
    failed,     \* a read or write has failed: the dump is over
    undefined   \* a read directly followed a write

vars == <<index, file, pos, last, fetched, failed, undefined>>

\* The bytes of a record (fread() at its place).
Bytes(entry) == SubSeq(file, entry.off + 1, entry.off + entry.size)
-----------------------------------------------------------------------------
\* mukv_open()
Init ==
    /\ index = [k \in {} |-> [off |-> 0, size |-> 0]]
    /\ file = <<>>
    /\ pos = 0
    /\ last = "seek"
    /\ fetched = NoValue
    /\ failed = FALSE
    /\ undefined = FALSE

\* Two slips in mukv_store(): the record is written where the stream happens
\* to be; the place is taken after the write.
StoreInPlace(k, v) ==
    /\ ~failed
    /\ Len(file) + Len(v) <= MaxSize
    /\ file' = SubSeq(file, 1, pos) \o v
                 \o SubSeq(file, pos + Len(v) + 1, Len(file))
    /\ index' = [j \in DOMAIN index \cup {k} |->
                    IF j = k THEN [off |-> pos, size |-> Len(v)]
                    ELSE index[j]]
    /\ pos' = pos + Len(v)
    /\ last' = IF v = <<>> THEN "seek" ELSE "write"
    /\ fetched' = NoValue
    /\ UNCHANGED <<failed, undefined>>

TellAfterWrite(k, v) ==
    /\ ~failed
    /\ Len(file) + Len(v) <= MaxSize
    /\ file' = file \o v
    /\ index' = [j \in DOMAIN index \cup {k} |->
                    IF j = k THEN [off |-> Len(file) + Len(v), size |-> Len(v)]
                    ELSE index[j]]
    /\ pos' = Len(file) + Len(v)
    /\ last' = IF v = <<>> THEN "seek" ELSE "write"
    /\ fetched' = NoValue
    /\ UNCHANGED <<failed, undefined>>

\* mukv_store(): go to the end, write, enter the place in the index.  Writing
\* no bytes leaves the stream as the seek has left it.
mukv_store(k, v) ==
    /\ ~failed
    /\ Len(file) + Len(v) <= MaxSize
    /\ file' = file \o v
    /\ index' = [j \in DOMAIN index \cup {k} |->
                    IF j = k THEN [off |-> Len(file), size |-> Len(v)]
                    ELSE index[j]]
    /\ pos' = Len(file) + Len(v)
    /\ last' = IF v = <<>> THEN "seek" ELSE "write"
    /\ fetched' = NoValue
    /\ UNCHANGED <<failed, undefined>>

\* The disk is full: some of the bytes are written, the index is not touched.
store_fault(k, v) ==
    /\ ~failed
    /\ Len(file) + Len(v) <= MaxSize
    /\ \E n \in 0 .. Len(v) - 1 :
         /\ file' = file \o SubSeq(v, 1, n)
         /\ pos' = Len(file) + n
    /\ last' = "write"
    /\ failed' = TRUE
    /\ fetched' = NoValue
    /\ UNCHANGED <<index, undefined>>

\* mukv_fetch(): seek only if necessary, read.  Reading no bytes does nothing.
mukv_fetch(k) ==
    /\ ~failed
    /\ IF k \notin DOMAIN index
       THEN /\ fetched' = <<k, NoValue>>
            /\ UNCHANGED <<pos, last, undefined>>
       ELSE LET entry == index[k]
                read == entry.size > 0
            IN  /\ fetched' = <<k, Bytes(entry)>>
                /\ pos' = entry.off + entry.size
                /\ last' = IF read THEN "read"
                           ELSE IF pos # entry.off THEN "seek" ELSE last
                /\ undefined' = (undefined \/ (read /\ last = "write"
                                                    /\ pos = entry.off))
    /\ UNCHANGED <<index, file, failed>>

\* The record cannot be read in full: the datum has no bytes, and the callers
\* give up.  The stream may be anywhere.
fetch_fault(k) ==
    /\ ~failed
    /\ k \in DOMAIN index
    /\ index[k].size > 0
    /\ pos' \in 0 .. Len(file)
    /\ last' = "read"
    /\ fetched' = NoValue
    /\ failed' = TRUE
    /\ UNCHANGED <<index, file, undefined>>

\* mukv_delete()
mukv_delete(k) ==
    /\ ~failed
    /\ index' = [j \in DOMAIN index \ {k} |-> index[j]]
    /\ fetched' = NoValue
    /\ UNCHANGED <<file, pos, last, failed, undefined>>

Next ==
    \E k \in Key :
        \/ \E v \in Value : mukv_store(k, v) \/ store_fault(k, v)
        \/ mukv_fetch(k)
        \/ fetch_fault(k)
        \/ mukv_delete(k)

Spec == Init /\ [][Next]_vars
-----------------------------------------------------------------------------
(***************************************************************************)
(* Properties                                                              *)
(***************************************************************************)

\* The shape of mukv_t and entry_t (mukv.c:37-47); every record lies within
\* the file.
TypeOK ==
    /\ DOMAIN index \subseteq Key
    /\ \A k \in DOMAIN index :
          /\ index[k] \in [off : Nat, size : Nat]
          /\ index[k].off + index[k].size <= Len(file)
    /\ file \in Seq(Byte)
    /\ pos \in 0 .. Len(file)
    /\ last \in {"seek", "write", "read"}
    /\ fetched \in (Key \X (Seq(Byte) \cup {NoValue})) \cup {NoValue}
    /\ failed \in BOOLEAN /\ undefined \in BOOLEAN

\* The test in mukv_fetch() that saves a seek (mukv.c:105) never lets a read
\* directly follow a write: after a write the stream is at the end of the
\* file, where only records without bytes can be.
NeverUndefined ==
    /\ ~undefined
    /\ last = "write" => pos = Len(file)

\* The store implements a map, whatever is stored again, deleted or fetched in
\* between: the record of a key is never overwritten by another one.
KV == INSTANCE KVMap
        WITH map <- [k \in Key |-> IF k \in DOMAIN index THEN Bytes(index[k])
                                   ELSE NoValue]
ImplementsKVMap == KV!KVSpec
=============================================================================
