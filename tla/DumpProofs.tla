---------------------------- MODULE DumpProofs ------------------------------
(***************************************************************************)
(* Proofs of the properties of Dump.tla, for repositories of any size and  *)
(* all requests, with the exception of those kinds that a theorem names,   *)
(* and of Main.tla around it (at the end).                                 *)
(*                                                                         *)
(* None of the properties is inductive.  Beside Control (DumpControl.tla)  *)
(* they need:                                                              *)
(*   - Sequential: nothing is written before the loop and in the dry run,  *)
(*     where local_rev is set or incremented without a record (Silent);    *)
(*     after that, local_rev follows the last record (InStep);             *)
(*   - NumbersInLoop: local_rev is the number of the revision in work, or  *)
(*     one that padding still leads to it; Indexed: an index in the list   *)
(*     of logs of a sub-directory is a number of the dump;                 *)
(*   - RepoInv: the path repository is one revision behind local_rev, or   *)
(*     at it in the dry run;                                               *)
(*   - RangeInv: the output holds the part of the range up to the base.    *)
(***************************************************************************)
EXTENDS DumpControl, Main

\* Nothing is written before the loop and in the dry run.
Silent == phase \in {"range", "prepare", "init"} \/ dry => out = <<>>

InStep ==
    out # <<>> =>
        /\ phase \in {"fetch", "write"} => local_rev = out[Len(out)].rev + 1
        /\ phase \in {"diff", "commit"} => local_rev = out[Len(out)].rev

Sequential == IsList(out) /\ Silent /\ InStep /\ NumbersSequential

\* How local_rev relates to the revision in work.
NumbersInLoop ==
    /\ phase = "fetch" =>
         IF base # -1 THEN base \in Stream /\ local_rev = Number(base) + 1
         ELSE IF start_mid THEN local_rev = Number(start)
         ELSE local_rev = IF start = 0 THEN 0 ELSE 1
    /\ phase = "write" =>
         IF opt.keep /\ ~dry
         THEN /\ local_rev <= Current
              /\ \A x \in Stream : local_rev <= x => Current <= x
         ELSE ~EmptyRange => local_rev = Number(Current)
    /\ phase \in {"diff", "commit"} =>
         (opt.keep \/ ~EmptyRange => local_rev = Number(Current))

\* In the list of logs of a sub-directory, indexes are numbers of the dump.
Indexed ==
    phase \in Loop /\ opt.sub /\ ~opt.keep /\ ~start_mid /\ ~EmptyRange =>
        \A i \in 1 .. Len(logs) - 1 : LogAt(i) \in Stream /\ Number(LogAt(i)) = i

\* The path repository is one revision behind, except for the dry run.
RepoInv ==
    ~FromCreation =>
    /\ phase \in {"range", "init"} => pr_head = -1
    /\ phase = "prepare" =>
         pr_head = IF local_rev = 0 THEN -1
                   ELSE IF opt.keep THEN LogAt(local_rev - 1) ELSE local_rev - 1
    /\ phase \in Loop =>
         IF dry THEN pr_head = local_rev
         ELSE pr_head = local_rev - 1 \/ (pr_head = -1 /\ local_rev \in {0, 1})

\* The output holds the part of the range up to a revision.
Dumped(b) ==
    /\ {out[i].from : i \in Originals} = {x \in InRange : x <= b}
    /\ \A i, j \in Originals : i < j => out[i].from < out[j].from

RangeInv ==
    ~FromCreation /\ ~EmptyRange =>
    /\ phase \in {"fetch", "write", "commit"} => Dumped(base)
    /\ phase = "diff" => Dumped(Current)
    /\ phase = "done" => Dumped(end)

Inv ==
    /\ Control /\ Sequential /\ NumbersInLoop /\ Indexed
    /\ EmptyRange \/ NumbersAgree
    /\ RepoInv /\ RangeInv

-----------------------------------------------------------------------------
(***************************************************************************)
(* The numbers of the records                                              *)
(***************************************************************************)

\* A record whose number follows that of the last one keeps the sequence.
LEMMA AppendSequential ==
    ASSUME IsList(out), NumbersSequential, NEW original,
           out # <<>> => local_rev = out[Len(out)].rev + 1,
           out' = Append(out, Record(original))
    PROVE  /\ IsList(out') /\ out' # <<>>
           /\ NumbersSequential'
           /\ out'[Len(out')].rev = local_rev
<1> DEFINE x == Record(original)
<1>1. x.rev = local_rev
  BY DEF Record
<1> HIDE DEF x
<1>2. out' = Append(out, x)
  BY DEF x
<1>3. /\ IsList(out') /\ out' # <<>>
      /\ Len(out) \in Nat
      /\ out # <<>> => Len(out) > 0
      /\ Len(out') = Len(out) + 1
      /\ out'[Len(out) + 1] = x
      /\ \A i \in 1 .. Len(out) : out'[i] = out[i]
  BY <1>2, AppendFacts
<1>4. NumbersSequential'
  <2> SUFFICES ASSUME NEW i \in 1 .. Len(out') - 1
               PROVE  out'[i + 1].rev = out'[i].rev + 1
    BY DEF NumbersSequential
  <2>1. CASE i < Len(out)
    <3>1. i \in 1 .. Len(out) - 1 /\ i \in 1 .. Len(out) /\ i + 1 \in 1 .. Len(out)
      BY <1>3, <2>1
    <3> QED BY <1>3, <3>1 DEF NumbersSequential
  <2>2. CASE i = Len(out)
    <3>1. i \in 1 .. Len(out) /\ out # <<>>
      BY <1>3, <2>2
    <3> QED BY <1>1, <1>3, <2>2, <3>1
  <2> QED BY <1>3, <2>1, <2>2
<1> QED BY <1>1, <1>3, <1>4

LEMMA SequentialInit == Init => Sequential
<1> SUFFICES ASSUME Init PROVE Sequential
  OBVIOUS
<1>1. out = <<>>
  BY DEF Init
<1>2. IsList(<<>>)
  <2>1. <<>> \in Seq({})
    OBVIOUS
  <2> QED BY <2>1 DEF IsList
<1> QED BY <1>1, <1>2 DEF Sequential, Silent, InStep, NumbersSequential

LEMMA SequentialNext == Sequential /\ [Next]_vars => Sequential'
<1> SUFFICES ASSUME Sequential, [Next]_vars PROVE Sequential'
  OBVIOUS
<1>1. ASSUME out' = out, out = <<>> PROVE Sequential'
  BY <1>1 DEF Sequential, Silent, InStep, NumbersSequential
<1>2. CASE DetermineRange
  BY <1>1, <1>2 DEF DetermineRange, Sequential, Silent
<1>3. CASE PrepareLog \/ StartMid \/ StartBeginning
  BY <1>1, <1>3 DEF PrepareLog, StartMid, StartBeginning, Sequential, Silent
<1>4. CASE NextLog
  BY <1>4 DEF NextLog, Sequential, Silent, InStep, NumbersSequential
<1>5. CASE PadRevision
  <2>1. /\ phase = "write" /\ phase' = "write" /\ ~dry /\ dry' = dry
        /\ out' = Append(out, Record(Padding)) /\ local_rev' = local_rev + 1
    BY <1>5 DEF PadRevision, MustPad
  <2>2. out # <<>> => local_rev = out[Len(out)].rev + 1
    BY <2>1 DEF Sequential, InStep
  <2>3. /\ IsList(out') /\ NumbersSequential'
        /\ out'[Len(out')].rev = local_rev
    BY <2>1, <2>2, AppendSequential DEF Sequential
  <2> QED BY <2>1, <2>3 DEF Sequential, Silent, InStep
<1>6. CASE WriteHeader
  <2>1. CASE dry
    BY <1>1, <1>6, <2>1 DEF WriteHeader, Sequential, Silent
  <2>2. CASE ~dry
    <3>1. /\ phase = "write" /\ phase' = "diff" /\ dry' = dry
          /\ out' = Append(out, Record(LogAt(list_idx)))
          /\ local_rev' = local_rev
      BY <1>6, <2>2 DEF WriteHeader
    <3>2. out # <<>> => local_rev = out[Len(out)].rev + 1
      BY <3>1 DEF Sequential, InStep
    <3>3. /\ IsList(out') /\ NumbersSequential'
          /\ out'[Len(out')].rev = local_rev
      BY <3>1, <3>2, AppendSequential DEF Sequential
    <3> QED BY <2>2, <3>1, <3>3 DEF Sequential, Silent, InStep
  <2> QED BY <2>1, <2>2
<1>7. CASE DoDiff
  BY <1>7 DEF DoDiff, Sequential, Silent, InStep, NumbersSequential
<1>8. CASE EndRevision
  BY <1>8 DEF EndRevision, Sequential, Silent, InStep, NumbersSequential
<1>9. CASE Fail
  BY <1>9 DEF Fail, Sequential, Silent, InStep, NumbersSequential
<1>10. CASE UNCHANGED vars
  BY <1>10 DEF vars, Sequential, Silent, InStep, NumbersSequential
<1> QED BY <1>2, <1>3, <1>4, <1>5, <1>6, <1>7, <1>8, <1>9, <1>10 DEF Next, Step
-----------------------------------------------------------------------------
(***************************************************************************)
(* The bases of the diffs                                                  *)
(***************************************************************************)

LEMMA KnownBase == Control => DiffBaseKnown
<1> SUFFICES ASSUME Control, phase = "diff"
             PROVE  IF start_empty THEN base = -1
                    ELSE base >= 0 /\ Logged \cap (base + 1 .. diff_rev) = {}
                                  /\ Logged \cap (diff_rev + 1 .. base) = {}
  BY DEF DiffBaseKnown
<1>1. IF base = -1 THEN global_rev = start
      ELSE base \in Logged /\ base >= start /\ global_rev = base + 1
  BY DEF Control, InLoop, Loop
<1>2. CASE base = -1
  BY <1>1, <1>2 DEF start_empty
<1>3. CASE base # -1
  <2>1. base \in Nat /\ start \in Int /\ base >= start /\ global_rev = base + 1
    BY <1>1, <1>3, RequestFacts DEF Control, TypeOK
  <2>2. ~start_empty
    BY <2>1 DEF start_empty
  <2>3. diff_rev = base
    BY <2>1 DEF diff_rev
  <2> QED BY <2>1, <2>2, <2>3
<1> QED BY <1>2, <1>3
-----------------------------------------------------------------------------
(***************************************************************************)
(* Numbers in the dump, and the sources of copies                          *)
(***************************************************************************)

LEMMA NumberKept == opt.keep => \A r : Number(r) = r
BY DEF Number

LEMMA NumberRank == ~opt.keep => \A r : Number(r) = Rank(Stream, r)
BY DEF Number, Rank, Upto

\* The first log of a dump from the beginning.
LEMMA FirstCurrent ==
    Control /\ phase = "write" /\ ~start_mid /\ base = -1 /\ ~EmptyRange =>
           /\ Current \in Stream /\ \A x \in Stream : Current <= x
           /\ start = 0 <=> Current = 0
<1> SUFFICES ASSUME Control, phase = "write", ~start_mid, base = -1, ~EmptyRange
             PROVE  /\ Current \in Stream /\ \A x \in Stream : Current <= x
                    /\ start = 0 <=> Current = 0
  OBVIOUS
<1>1. /\ RequestOK /\ StartOK /\ Current \in Logged
      /\ Current \in Stream /\ \A x \in Stream : Current <= x
  BY DEF Control, InLoop, Loop, FromStart
<1>2. /\ Logged \in SUBSET Nat /\ (opt.sub => 0 \notin Logged) /\ (~opt.sub => Logged = Rev)
      /\ RangeStart \in Nat /\ Youngest \in Nat \ {0}
      /\ Current \in Nat
  BY <1>1, RequestFacts DEF Rev
<1>3. CASE opt.sub
  <2>1. Current # 0
    BY <1>1, <1>2, <1>3
  <2>2. start # 0
    BY <1>1, <1>2, <1>3 DEF StartOK
  <2> QED BY <1>1, <2>1, <2>2
<1>4. CASE ~opt.sub
  <2>1. start = opt.start /\ opt.start \in -1 .. Youngest
    BY <1>1, <1>4 DEF StartOK, RequestOK
  <2>2. start = 0 => 0 \in Stream
    BY <1>2, <1>4, <2>1 DEF Stream, RangeStart, Rev
  <2>3. start # 0 => RangeStart > 0 /\ ~opt.incremental
    BY <1>2, <2>1 DEF start_mid, RangeStart
  <2>4. start # 0 => Current # 0
    BY <1>1, <1>2, <2>3 DEF Stream
  <2>5. start = 0 => Current = 0
    BY <1>1, <1>2, <2>2
  <2> QED BY <1>1, <2>4, <2>5
<1> QED BY <1>3, <1>4

\* The log after the base.
LEMMA LaterCurrent ==
    Control /\ phase = "write" /\ base # -1 =>
           /\ base \in Nat /\ Current \in Nat /\ base < Current /\ ~dry
           /\ \A x \in Logged : ~(base < x /\ x < Current)
           /\ base \in Logged /\ Current \in Logged
<1> SUFFICES ASSUME Control, phase = "write", base # -1
             PROVE  /\ base \in Nat /\ Current \in Nat /\ base < Current /\ ~dry
                    /\ \A x \in Logged : ~(base < x /\ x < Current)
                    /\ base \in Logged /\ Current \in Logged
  OBVIOUS
<1>1. /\ RequestOK /\ base \in Logged /\ Current \in Logged /\ base < Current
      /\ \A x \in Logged : ~(base < x /\ x < Current)
  BY DEF Control, InLoop, Loop
<1>2. ~dry
  BY DEF Control, InLoop, Loop, FromMiddle, FromStart
<1>3. Logged \in SUBSET Nat
  BY <1>1, RequestFacts
<1> QED BY <1>1, <1>2, <1>3

\* A range without changes: the log found is before the range.
LEMMA EmptyRangeCurrent ==
    Control /\ phase = "write" /\ EmptyRange =>
           /\ opt.sub /\ ~start_mid /\ start # 0 /\ Current \in Nat \ {0}
           /\ \A x \in Stream : Current <= x
<1> SUFFICES ASSUME Control, phase = "write", EmptyRange
             PROVE  /\ opt.sub /\ ~start_mid /\ start # 0 /\ Current \in Nat \ {0}
                    /\ \A x \in Stream : Current <= x
  OBVIOUS
<1>1. RequestOK /\ opt.sub /\ ~opt.incremental /\ RangeStart > 0
      /\ touched \cap (RangeStart .. RangeEnd) = {}
  BY EmptyRangeDef DEF Control
<1>2. ~start_mid
  BY <1>1 DEF start_mid
<1>3. Current = end /\ EndOK /\ StartOK
  BY <1>2 DEF Control, InLoop, Loop, FromStart
<1>4. /\ Logged \in SUBSET Nat /\ Logged = touched /\ 0 \notin Logged
      /\ RangeStart \in Nat /\ RangeEnd \in Nat /\ Stream \subseteq Logged
  BY <1>1, RequestFacts DEF Rev
<1>5. Current \in Nat \ {0} /\ Current <= RangeEnd /\ Current \in touched
  BY <1>3, <1>4 DEF EndOK
<1>6. Current < RangeStart
  BY <1>1, <1>4, <1>5
<1>7. \A x \in Stream : x >= RangeStart /\ x \in Nat
  BY <1>1, <1>4 DEF Stream
<1>8. start # 0
  <2>1. opt.start # 0
    BY <1>1 DEF RangeStart
  <2> QED BY <1>3, <2>1 DEF StartOK
<1> QED BY <1>1, <1>2, <1>4, <1>5, <1>6, <1>7, <1>8

\* The log in work when its revision is about to be written: the first one of
\* a dump from the beginning, a later one, or that of a range without changes.
CurrentOK ==
    phase = "write" =>
        /\ ~start_mid /\ base = -1 /\ ~EmptyRange =>
             /\ Current \in Stream /\ \A x \in Stream : Current <= x
             /\ start = 0 <=> Current = 0
        /\ base # -1 =>
             /\ base \in Nat /\ Current \in Nat /\ base < Current /\ ~dry
             /\ \A x \in Logged : ~(base < x /\ x < Current)
             /\ base \in Logged /\ Current \in Logged
        /\ EmptyRange =>
             /\ opt.sub /\ ~start_mid /\ start # 0 /\ Current \in Nat \ {0}
             /\ \A x \in Stream : Current <= x

LEMMA CurrentKnown == Control => CurrentOK
BY FirstCurrent, LaterCurrent, EmptyRangeCurrent DEF CurrentOK

LEMMA CurrentNext == Control' => CurrentOK'
BY CurrentKnown, PTL

LEMMA NextLogNumbers ==
    ASSUME Control, NumbersInLoop, Control', NextLog
    PROVE  NumbersInLoop'
<1>1. /\ phase = "fetch" /\ phase' = "write"
      /\ UNCHANGED <<request, start, end, local_rev, global_rev, dry, out, pr_head, base>>
      /\ RequestOK /\ TypeOK
  BY DEF NextLog, Control
<1>2. /\ opt' = opt /\ Logged' = Logged /\ Stream' = Stream
      /\ (start_mid' <=> start_mid) /\ (EmptyRange' <=> EmptyRange)
      /\ \A r \in Int : Number(r)' = Number(r)
      /\ Logged \in SUBSET Nat /\ Stream \in SUBSET Nat
      /\ opt.incremental => Stream = Logged
  BY <1>1, Constant, RequestFacts
<1> DEFINE c == Current'
<1>3. SUFFICES IF opt.keep /\ ~dry
               THEN local_rev <= c /\ \A x \in Stream : local_rev <= x => c <= x
               ELSE ~EmptyRange => c \in Int /\ local_rev = Number(c)
  <2>1. ASSUME c \in Int, local_rev = Number(c) PROVE local_rev' = Number(Current)'
    <3>1. Number(Current)' = Number(c)
      BY <1>2 DEF Number
    <3> QED BY <1>1, <2>1, <3>1
  <2> QED BY <1>1, <1>2, <2>1 DEF NumbersInLoop
<1>4. CASE base = -1 /\ start_mid
  <2>1. dry' /\ c = start'
    BY <1>1, <1>2, <1>4 DEF Control, InLoop, Loop, FromMiddle
  <2>2. local_rev = Number(start)
    BY <1>1, <1>4 DEF NumbersInLoop
  <2> QED BY <1>1, <2>1, <2>2 DEF TypeOK
<1>5. CASE base = -1 /\ ~start_mid
  <2>1. local_rev = IF start = 0 THEN 0 ELSE 1
    BY <1>1, <1>5 DEF NumbersInLoop
  <2>2. ~dry
    BY <1>1, <1>5 DEF Control, InLoop, Loop, FromStart
  <2>3. CASE EmptyRange
    <3>1. start' # 0 /\ c \in Nat \ {0} /\ \A x \in Stream' : c <= x
      BY <1>1, <1>2, <2>3, CurrentNext DEF CurrentOK
    <3> QED BY <1>1, <1>2, <2>1, <2>2, <2>3, <3>1
  <2>4. CASE ~EmptyRange
    <3>1. c \in Stream' /\ (\A x \in Stream' : c <= x) /\ (start' = 0 <=> c = 0)
      BY <1>1, <1>2, <1>5, <2>4, CurrentNext DEF CurrentOK
    <3> HIDE DEF c
    <3>2. c \in Stream /\ c \in Nat /\ (\A x \in Stream : c <= x) /\ (start = 0 <=> c = 0)
      BY <1>1, <1>2, <3>1
    <3>3. CASE opt.keep
      BY <2>1, <2>2, <3>2, <3>3
    <3>4. CASE ~opt.keep
      <4>1. Number(c) = IF c = 0 THEN 0 ELSE 1
        BY <1>2, <3>2, <3>4, NumberRank, RankFirst
      <4> QED BY <2>1, <3>2, <3>4, <4>1
    <3> QED BY <3>3, <3>4
  <2> QED BY <2>3, <2>4
<1>6. CASE base # -1
  <2>1. base \in Stream /\ local_rev = Number(base) + 1
    BY <1>1, <1>6 DEF NumbersInLoop
  <2>2. /\ base' \in Nat /\ c \in Nat /\ base' < c /\ ~dry'
        /\ \A x \in Logged' : ~(base' < x /\ x < c)
        /\ c \in Logged'
    BY <1>1, <1>6, CurrentNext DEF CurrentOK
  <2>3. c \in Stream
    <3>1. CASE start_mid
      BY <1>2, <2>2, <3>1 DEF start_mid
    <3>2. CASE ~start_mid
      BY <1>1, <1>2, <1>6, <3>2 DEF Control, InLoop, Loop, FromStart
    <3> QED BY <3>1, <3>2
  <2> HIDE DEF c
  <2>4. /\ base \in Nat /\ c \in Nat /\ base < c /\ ~dry
        /\ \A x \in Stream : x \in Nat /\ ~(base < x /\ x < c)
    BY <1>1, <1>2, <2>2, RequestFacts
  <2>5. CASE opt.keep
    BY <2>1, <2>4, <2>5, NumberKept
  <2>6. CASE ~opt.keep
    <3>1. Rank(Stream, c) = Rank(Stream, base) + 1
      BY <1>2, <2>1, <2>3, <2>4, RankNext
    <3> QED BY <2>1, <2>4, <2>6, <3>1, NumberRank
  <2> QED BY <2>5, <2>6
<1> QED BY <1>4, <1>5, <1>6

LEMMA NumbersInLoopNext ==
    Control /\ NumbersInLoop /\ Control' /\ [Next]_vars => NumbersInLoop'
<1> SUFFICES ASSUME Control, NumbersInLoop, Control', [Next]_vars PROVE NumbersInLoop'
  OBVIOUS
<1>0. RequestOK /\ TypeOK
  BY DEF Control
<1>1. UNCHANGED request
  BY DEF Next, Step, DetermineRange, PrepareLog, StartMid, StartBeginning, NextLog,
         PadRevision, WriteHeader, DoDiff, EndRevision, Fail, vars, request
<1>2. /\ opt' = opt /\ Logged' = Logged /\ Stream' = Stream
      /\ (start_mid' <=> start_mid) /\ (EmptyRange' <=> EmptyRange)
      /\ \A r \in Int : Number(r)' = Number(r)
      /\ Logged \in SUBSET Nat /\ Stream \in SUBSET Nat
      /\ opt.incremental => Stream = Logged
  BY <1>0, <1>1, Constant, RequestFacts
<1>3. CASE DetermineRange \/ PrepareLog \/ Fail
  BY <1>3 DEF DetermineRange, PrepareLog, Fail, NumbersInLoop
<1>4. CASE StartMid
  <2> DEFINE lr == IF local_rev > 1 \/ ~opt.sub THEN local_rev - 1 ELSE local_rev
  <2>1. /\ phase = "prepare" /\ ~MorePrepare /\ phase' = "fetch" /\ base' = base
        /\ start' = LogAt(lr) /\ local_rev' = IF opt.keep THEN LogAt(lr) ELSE lr
    BY <1>4 DEF StartMid
  <2>2. lr \in FirstIdx .. Len(logs) - 1
    BY <2>1, DryRun
  <2> HIDE DEF lr
  <2>3. Listed /\ base = -1 /\ start_mid
    BY <2>1 DEF Control, BeforeLoop
  <2>4. LogAt(lr) \in Logged /\ Rank(Logged, LogAt(lr)) = lr
    BY <2>2, <2>3 DEF Listed
  <2>5. Number(LogAt(lr)) = IF opt.keep THEN LogAt(lr) ELSE lr
    BY <1>2, <2>3, <2>4, NumberKept, NumberRank DEF start_mid
  <2>6. Number(start)' = Number(LogAt(lr))
    BY <1>2, <2>1, <2>4 DEF Number
  <2> QED BY <1>2, <2>1, <2>3, <2>5, <2>6 DEF NumbersInLoop
<1>5. CASE StartBeginning
  <2>1. start' = start /\ local_rev' = IF start = 0 THEN 0 ELSE 1
    BY <1>5, StartBeginningControl
  <2>2. phase = "init" /\ phase' = "fetch" /\ base' = base
    BY <1>5 DEF StartBeginning
  <2>3. ~start_mid /\ base = -1
    BY <2>2 DEF Control, BeforeLoop
  <2> QED BY <1>2, <2>1, <2>2, <2>3 DEF NumbersInLoop
<1>6. CASE NextLog
  BY <1>6, NextLogNumbers
<1>7. CASE PadRevision
  <2>1. /\ phase = "write" /\ phase' = "write" /\ opt.keep /\ ~dry /\ local_rev < Current
        /\ local_rev' = local_rev + 1 /\ dry' = dry /\ Current' = Current
    BY <1>7 DEF PadRevision, MustPad, Current, LogAt
  <2>2. \A x \in Stream : local_rev <= x => Current <= x
    BY <2>1 DEF NumbersInLoop
  <2>3. Current \in Nat /\ local_rev \in Nat
    BY <1>2, <2>1 DEF Control, InLoop, Loop
  <2>4. local_rev' <= Current' /\ \A x \in Stream : local_rev' <= x => Current' <= x
    <3>1. \A x \in Stream : x \in Nat /\ (local_rev + 1 <= x => local_rev <= x)
      BY <1>2, <2>3
    <3> QED BY <2>1, <2>2, <2>3, <3>1
  <2> QED BY <1>2, <2>1, <2>4 DEF NumbersInLoop
<1>8. CASE WriteHeader
  <2>1. /\ phase = "write" /\ phase' = "diff" /\ ~MustPad
        /\ local_rev' = local_rev /\ Current' = Current
    BY <1>8 DEF WriteHeader, Current, LogAt
  <2>2. Current \in Nat /\ local_rev \in Nat
    BY <1>2, <2>1 DEF Control, InLoop, Loop
  <2>3. opt.keep \/ ~EmptyRange => local_rev = Number(Current)
    <3>1. CASE opt.keep /\ ~dry
      <4>1. local_rev = Current
        BY <2>1, <2>2, <3>1 DEF NumbersInLoop, MustPad, Current
      <4> QED BY <3>1, <4>1, NumberKept
    <3>2. CASE ~(opt.keep /\ ~dry)
      <4>1. ~EmptyRange => local_rev = Number(Current)
        BY <2>1, <3>2 DEF NumbersInLoop
      <4>2. opt.keep => ~EmptyRange
        <5>1. dry => start_mid
          BY <2>1 DEF Control, InLoop, Loop, FromStart
        <5> QED BY <3>2, <5>1, EmptyRangeDef DEF start_mid
      <4> QED BY <4>1, <4>2
    <3> QED BY <3>1, <3>2
  <2>4. Number(Current)' = Number(Current)
    BY <1>2, <2>1, <2>2 DEF Number
  <2> QED BY <1>2, <2>1, <2>3, <2>4 DEF NumbersInLoop
<1>9. CASE DoDiff
  <2>1. phase = "diff" /\ phase' = "commit" /\ local_rev' = local_rev /\ Current' = Current
    BY <1>9 DEF DoDiff, Current, LogAt
  <2>2. Number(Current)' = Number(Current)
    BY <1>2, <2>1 DEF Number
  <2> QED BY <1>2, <2>1, <2>2 DEF NumbersInLoop
<1>10. CASE EndRevision
  <2>1. /\ phase = "commit" /\ phase' \in {"fetch", "done"} /\ base' = base
        /\ local_rev' = local_rev + 1
    BY <1>10 DEF EndRevision
  <2>2. base = Current /\ Current \in Logged /\ base \in Nat
    BY <1>2, <2>1 DEF Control, InLoop, Loop
  <2>3. CASE phase' = "fetch"
    <3>1. base' # -1
      BY <2>1, <2>2
    <3>2. ~EmptyRange
      <4>1. CASE start_mid
        BY <4>1, EmptyRangeDef DEF start_mid
      <4>2. CASE ~start_mid
        BY <1>2, <2>3, <3>1, <4>2 DEF Control, InLoop, Loop, FromStart
      <4> QED BY <4>1, <4>2
    <3>3. local_rev = Number(base)
      BY <2>1, <2>2, <3>2 DEF NumbersInLoop
    <3>4. base \in Stream
      <4>1. CASE start_mid
        BY <1>2, <2>2, <4>1 DEF start_mid
      <4>2. CASE ~start_mid
        BY <2>1, <2>2, <3>2, <4>2 DEF Control, InLoop, Loop, FromStart
      <4> QED BY <4>1, <4>2
    <3>5. Number(base)' = Number(base)
      BY <1>2, <2>1 DEF Number
    <3> QED BY <1>2, <2>1, <2>3, <3>1, <3>3, <3>4, <3>5 DEF NumbersInLoop
  <2>4. CASE phase' = "done"
    BY <2>4 DEF NumbersInLoop
  <2> QED BY <2>1, <2>3, <2>4
<1>11. CASE UNCHANGED vars
  <2>1. UNCHANGED <<phase, local_rev, base, start, dry, Current>>
    BY <1>11 DEF vars, Current, LogAt
  <2>2. /\ Number(Current)' = Number(Current) /\ Number(base)' = Number(base)
        /\ Number(start)' = Number(start)
    BY <1>2, <2>1 DEF Number
  <2> QED BY <1>2, <2>1, <2>2 DEF NumbersInLoop
<1> QED BY <1>3, <1>4, <1>5, <1>6, <1>7, <1>8, <1>9, <1>10, <1>11 DEF Next, Step

LEMMA IndexedNext ==
    Control /\ Indexed /\ Control' /\ [Next]_vars => Indexed'
<1> SUFFICES ASSUME Control, Indexed, Control', [Next]_vars, phase' \in Loop,
                    opt.sub', ~opt.keep', ~start_mid', ~EmptyRange',
                    NEW i \in 1 .. Len(logs') - 1
             PROVE  LogAt(i)' \in Stream' /\ Number(LogAt(i))' = i
  BY DEF Indexed
<1>0. RequestOK /\ TypeOK
  BY DEF Control
<1>1. UNCHANGED request
  BY DEF Next, Step, DetermineRange, PrepareLog, StartMid, StartBeginning, NextLog,
         PadRevision, WriteHeader, DoDiff, EndRevision, Fail, vars, request
<1>2. /\ opt' = opt /\ Stream' = Stream
      /\ opt.sub /\ ~opt.keep /\ ~start_mid /\ ~EmptyRange
      /\ Logged \in SUBSET Nat /\ Stream \in SUBSET Nat /\ 0 \notin Logged
      /\ Logged' = Logged
  BY <1>0, <1>1, Constant, RequestFacts
<1>3. SUFFICES LogAt(i)' \in Stream /\ Number(LogAt(i)') = i
  BY <1>2 DEF Number
<1>4. CASE phase \in Loop /\ logs' = logs
  BY <1>2, <1>4 DEF Indexed, LogAt
<1>5. CASE StartMid
  BY <1>2, <1>5 DEF StartMid, Control, BeforeLoop
<1>6. CASE StartBeginning
  <2>1. logs' = <<0>>
    BY <1>2, <1>6 DEF StartBeginning, Control, BeforeLoop, Placeholder
  <2> QED BY <2>1
<1>7. CASE NextLog
  <2>1. /\ phase = "fetch" /\ phase' = "write" /\ base' = base /\ list_idx' = Len(logs)
        /\ logs' = Append(logs, log_fetch_single(global_rev, end))
    BY <1>2, <1>7 DEF NextLog
  <2>2. logs \in Seq(Rev) /\ logs' \in Seq(Rev) /\ Len(logs) \in Nat
    BY <1>0, <2>1 DEF TypeOK, Control
  <2> DEFINE r == log_fetch_single(global_rev, end)
  <2> HIDE DEF r
  <2>3. Len(logs') = Len(logs) + 1
    BY <2>1, <2>2 DEF r
  <2>4. \A j \in 1 .. Len(logs) : logs'[j] = logs[j]
    BY <2>1, <2>2 DEF r
  <2>5. CASE i < Len(logs)
    <3>1. i + 1 \in 1 .. Len(logs) /\ i \in 1 .. Len(logs) - 1
      BY <2>2, <2>5
    <3>2. LogAt(i)' = LogAt(i)
      BY <2>4, <3>1 DEF LogAt
    <3> QED BY <1>2, <2>1, <3>1, <3>2 DEF Indexed, Loop
  <2>6. CASE i = Len(logs)
    <3> DEFINE c == Current'
    <3>1. LogAt(i)' = c
      BY <2>1, <2>6 DEF Current, LogAt
    <3>2. c \in Stream
      BY <1>2, <2>1 DEF Control, InLoop, Loop, FromStart
    <3>3. CASE base = -1
      <4>1. \A x \in Stream : c <= x
        BY <1>2, <2>1, <3>3, CurrentNext DEF CurrentOK
      <4>2. logs = <<0>>
        BY <1>2, <2>1, <3>3 DEF Control, InLoop, Loop, FromStart, Placeholder
      <4>3. c \in Nat \ {0}
        BY <1>2, <3>2 DEF Stream
      <4> HIDE DEF c
      <4>4. Number(c) = 1
        BY <1>2, <3>2, <4>1, <4>3, RankFirst, NumberRank
      <4> QED BY <2>6, <3>1, <3>2, <4>2, <4>4
    <3>4. CASE base # -1
      <4>1. /\ base' \in Nat /\ c \in Nat /\ base' < c
            /\ \A x \in Logged' : ~(base' < x /\ x < c)
            /\ base' \in Logged'
        BY <2>1, <3>4, CurrentNext DEF CurrentOK
      <4> HIDE DEF c
      <4>2. /\ base \in Nat /\ c \in Nat /\ base < c
            /\ \A x \in Stream : ~(base < x /\ x < c)
            /\ base \in Logged
        BY <1>2, <2>1, <4>1 DEF Stream
      <4>3. LogAt(Len(logs) - 1) = base /\ logs # <<>> /\ logs[1] = 0
        BY <1>2, <2>1, <3>4 DEF Control, InLoop, Loop, FromStart
      <4>4. Len(logs) - 1 \in 1 .. Len(logs) - 1
        <5>1. Len(logs) # 1
          <6> SUFFICES ASSUME Len(logs) = 1 PROVE FALSE
            OBVIOUS
          <6>1. LogAt(0) = base
            BY <4>3
          <6>2. LogAt(0) = 0
            BY <4>3 DEF LogAt
          <6> QED BY <1>2, <4>2, <6>1, <6>2
        <5>2. Len(logs) # 0
          BY <2>2, <4>3
        <5>3. \A n \in Nat : n # 0 /\ n # 1 => n - 1 \in 1 .. n - 1
          OBVIOUS
        <5> QED BY <2>2, <5>1, <5>2, <5>3
      <4>5. base \in Stream /\ Number(base) = Len(logs) - 1
        BY <1>2, <2>1, <4>3, <4>4 DEF Indexed, Loop
      <4>6. Rank(Stream, c) = Rank(Stream, base) + 1
        BY <1>2, <3>2, <4>2, <4>5, RankNext
      <4>7. Number(c) = Len(logs)
        BY <1>2, <2>2, <4>5, <4>6, NumberRank
      <4> QED BY <2>6, <3>1, <3>2, <4>7
    <3> QED BY <3>3, <3>4
  <2> QED BY <2>2, <2>3, <2>5, <2>6
<1> QED BY <1>4, <1>5, <1>6, <1>7
       DEF Next, Step, DetermineRange, PrepareLog, PadRevision, WriteHeader, DoDiff,
           EndRevision, Fail, vars, Loop

LEMMA AgreeNext ==
    Control /\ IsList(out) /\ NumbersInLoop /\ NumbersInLoop' /\ ~EmptyRange
      /\ NumbersAgree /\ [Next]_vars => NumbersAgree'
<1> SUFFICES ASSUME Control, IsList(out), NumbersInLoop, NumbersInLoop', ~EmptyRange,
                    NumbersAgree, [Next]_vars
             PROVE  NumbersAgree'
  OBVIOUS
<1>0. RequestOK /\ TypeOK
  BY DEF Control
<1>1. UNCHANGED request
  BY DEF Next, Step, DetermineRange, PrepareLog, StartMid, StartBeginning, NextLog,
         PadRevision, WriteHeader, DoDiff, EndRevision, Fail, vars, request
<1>2. opt' = opt /\ Stream' = Stream /\ (EmptyRange' <=> EmptyRange)
  BY <1>0, <1>1, Constant
<1>3. CASE out' = out
  BY <1>2, <1>3 DEF NumbersAgree, Number
<1>4. CASE PadRevision
  <2> DEFINE n == Record(Padding)
  <2>1. /\ phase = "write" /\ opt.keep /\ ~dry /\ local_rev < Current
        /\ out' = Append(out, n)
    BY <1>4 DEF PadRevision, MustPad, Current
  <2>2. n.from = Padding /\ n.rev = local_rev
    BY DEF Record
  <2> HIDE DEF n
  <2>3. /\ Len(out) \in Nat /\ DOMAIN out = 1 .. Len(out) /\ DOMAIN out' = 1 .. Len(out) + 1
        /\ out'[Len(out) + 1] = n /\ \A i \in 1 .. Len(out) : out'[i] = out[i]
    BY <2>1, AppendFacts
  <2>4. local_rev \notin Stream
    <3>1. Current \in Logged /\ local_rev \in Nat /\ Logged \in SUBSET Nat
      BY <1>0, <2>1, RequestFacts DEF Control, InLoop, Loop
    <3> QED BY <2>1, <3>1 DEF NumbersInLoop
  <2> SUFFICES ASSUME NEW i \in DOMAIN out'
               PROVE  IF out'[i].from = Padding THEN opt.keep /\ out'[i].rev \notin Stream
                      ELSE out'[i].rev = Number(out'[i].from)
    BY <1>2 DEF NumbersAgree, Number
  <2>5. CASE i \in DOMAIN out
    BY <2>3, <2>5 DEF NumbersAgree
  <2>6. CASE i = Len(out) + 1
    BY <2>1, <2>2, <2>3, <2>4, <2>6
  <2> QED BY <2>3, <2>5, <2>6
<1>5. CASE WriteHeader /\ ~dry
  <2> DEFINE n == Record(Current)
  <2>1. /\ phase = "write" /\ phase' = "diff" /\ Current' = Current /\ local_rev' = local_rev
        /\ out' = Append(out, n)
    BY <1>5 DEF WriteHeader, Current, LogAt
  <2>2. n.from = Current /\ n.rev = local_rev
    BY DEF Record
  <2> HIDE DEF n
  <2>3. /\ Len(out) \in Nat /\ DOMAIN out = 1 .. Len(out) /\ DOMAIN out' = 1 .. Len(out) + 1
        /\ out'[Len(out) + 1] = n /\ \A i \in 1 .. Len(out) : out'[i] = out[i]
    BY <2>1, AppendFacts
  <2>4. local_rev = Number(Current)
    <3>1. local_rev' = Number(Current)'
      BY <1>2, <2>1 DEF NumbersInLoop
    <3> QED BY <1>2, <2>1, <3>1 DEF Number
  <2>5. Current # Padding
    <3>1. Current \in Nat
      BY <1>0, <2>1, RequestFacts DEF Control, InLoop, Loop
    <3> QED BY <3>1 DEF Padding
  <2> SUFFICES ASSUME NEW i \in DOMAIN out'
               PROVE  IF out'[i].from = Padding THEN opt.keep /\ out'[i].rev \notin Stream
                      ELSE out'[i].rev = Number(out'[i].from)
    BY <1>2 DEF NumbersAgree, Number
  <2>6. CASE i \in DOMAIN out
    BY <2>3, <2>6 DEF NumbersAgree
  <2>7. CASE i = Len(out) + 1
    BY <2>2, <2>3, <2>4, <2>5, <2>7
  <2> QED BY <2>3, <2>6, <2>7
<1> QED BY <1>3, <1>4, <1>5
       DEF Next, Step, DetermineRange, PrepareLog, StartMid, StartBeginning, NextLog,
           WriteHeader, DoDiff, EndRevision, Fail, vars
-----------------------------------------------------------------------------
\* In a dump of the whole repository that starts at or continues from revision
\* 0, numbers are original ones.
LEMMA WholeNumbers ==
    ASSUME RequestOK, Stream = Rev, NEW x \in Rev
    PROVE  Number(x) = x
<1>1. CASE opt.keep
  BY <1>1, NumberKept
<1>2. CASE ~opt.keep
  <2>1. x \in Nat /\ 0 \in Rev /\ Youngest \in Nat
    BY YoungestAssumption DEF Rev
  <2>2. Upto(Rev, x) = 0 .. x
    BY <2>1 DEF Upto, Rev
  <2>3. Cardinality(0 .. x) = x + 1
    BY <2>1, FS_Interval
  <2>4. Rank(Rev, x) = x
    BY <2>1, <2>2, <2>3 DEF Rank
  <2> QED BY <1>2, <2>4, NumberRank
<1> QED BY <1>1, <1>2

\* What CopySourceExact says of the revision n for a copy of an original one.
Exact(original, n) ==
    LET sources == {r \in Stream : r <= original}
    IN  /\ n < local_rev
        /\ sources # {}
        /\ Number(Max(sources)) <= n
        /\ \A r \in Stream : r > original => Number(r) > n

\* It is enough to find one source, and that the number of each is not after n.
LEMMA ExactIf ==
    ASSUME RequestOK, NEW original \in Int, NEW n, n < local_rev,
           \E r \in Stream : r <= original,
           \A r \in Stream : r <= original => Number(r) <= n,
           \A r \in Stream : r > original => Number(r) > n
    PROVE  Exact(original, n)
<1> DEFINE S == {r \in Stream : r <= original}
<1>1. S \in SUBSET Int /\ S # {} /\ \A x \in S : x <= original
  BY RequestFacts
<1> HIDE DEF S
<1>2. Max(S) \in S
  BY <1>1, MaxFacts
<1>3. Number(Max(S)) <= n
  BY <1>2 DEF S
<1> QED BY <1>1, <1>3 DEF Exact, S

\* What is known when the editor runs.
LEMMA WhenDiffing ==
    ASSUME Control, NumbersInLoop, phase = "diff", ~dry
    PROVE  /\ RequestOK /\ Current \in Logged /\ Current \in Nat /\ Current <= Youngest
           /\ Logged \in SUBSET Nat /\ Stream \in SUBSET Nat
           /\ opt.keep \/ ~EmptyRange => local_rev = Number(Current)
           /\ opt.incremental => Stream = Logged
           /\ ~start_mid => StartOK
           /\ Min(Logged \ {0}) \in Logged \ {0}
<1>1. RequestOK /\ Current \in Logged /\ (~start_mid => StartOK)
  BY DEF Control, InLoop, Loop, FromStart
<1>2. /\ Logged \in SUBSET Nat /\ Stream \in SUBSET Nat /\ Logged \subseteq Rev
      /\ opt.incremental => Stream = Logged
      /\ opt.sub => Logged = touched /\ 0 \notin Logged
      /\ ~opt.sub => Logged = Rev
      /\ Youngest \in Nat \ {0} /\ Logged # {}
  BY <1>1, RequestFacts
<1>3. Logged \ {0} # {}
  BY <1>2 DEF Rev
<1>4. Min(Logged \ {0}) \in Logged \ {0}
  BY <1>2, <1>3, MinFacts
<1>5. opt.keep \/ ~EmptyRange => local_rev = Number(Current)
  BY DEF NumbersInLoop
<1>6. Current \in Nat /\ Current <= Youngest
  BY <1>1, <1>2 DEF Rev
<1> QED BY <1>1, <1>2, <1>4, <1>5, <1>6

\* Copies in a dump of the whole repository.
LEMMA WholeCopies ==
    ASSUME Control, NumbersInLoop, phase = "diff", ~dry, ~opt.sub,
           start = 0 \/ opt.incremental,
           NEW original \in Nat, original < Current
    PROVE  Exact(original, original)
<1>1. /\ RequestOK /\ Current \in Rev /\ Current \in Nat /\ Current <= Youngest
      /\ Logged = Rev /\ Youngest \in Nat
      /\ opt.keep \/ ~EmptyRange => local_rev = Number(Current)
      /\ opt.incremental => Stream = Logged
      /\ ~start_mid => StartOK
  BY WhenDiffing, RequestFacts, YoungestAssumption DEF Rev
<1>2. Stream = Rev
  <2>1. CASE opt.incremental
    BY <1>1, <2>1
  <2>2. CASE ~opt.incremental
    <3>1. opt.start = 0
      BY <1>1, <2>2 DEF start_mid, StartOK
    <3>2. RangeStart = 0
      BY <3>1 DEF RangeStart
    <3> QED BY <1>1, <3>2 DEF Stream, Rev
  <2> QED BY <2>1, <2>2
<1>3. \A x \in Rev : Number(x) = x /\ x \in Nat
  BY <1>1, <1>2, WholeNumbers DEF Rev
<1>4. local_rev = Current
  <2>1. ~EmptyRange
    BY EmptyRangeDef
  <2> QED BY <1>1, <1>3, <2>1
<1>5. original \in Rev
  BY <1>1 DEF Rev
<1> QED BY <1>1, <1>2, <1>3, <1>4, <1>5, ExactIf

\* Copies with original numbers.
LEMMA KeptCopies ==
    ASSUME Control, NumbersInLoop, phase = "diff", ~dry, opt.keep,
           "padded" \notin Kinds(opt, touched),
           NEW original \in Min(Logged \ {0}) .. Current - 1,
           opt.incremental \/ start <= original
    PROVE  Exact(original, original)
<1>1. /\ RequestOK /\ Current \in Nat /\ Current <= Youngest
      /\ Logged \in SUBSET Nat /\ Stream \in SUBSET Nat
      /\ local_rev = Number(Current)
      /\ opt.incremental => Stream = Logged
      /\ ~start_mid => StartOK
      /\ Min(Logged \ {0}) \in Logged \ {0}
  BY WhenDiffing
<1> DEFINE m == Min(Logged \ {0})
<1>2. m \in Logged /\ m \in Nat /\ original \in m .. Current - 1
  BY <1>1
<1> HIDE DEF m
<1>3. original \in Nat /\ m <= original /\ original < Current
  BY <1>1, <1>2
<1>4. local_rev = Current /\ \A r \in Stream : Number(r) = r /\ r \in Nat
  BY <1>1, NumberKept
<1>5. \E r \in Stream : r <= original
  <2>1. CASE opt.incremental
    BY <1>1, <1>2, <1>3, <2>1
  <2>2. CASE ~opt.incremental
    <3>1. StartOK /\ start <= original
      BY <1>1, <2>2 DEF start_mid
    <3>2. opt.start # -1 /\ (opt.start > 0 /\ opt.sub => opt.start \in touched)
      BY <2>2 DEF Kinds, SpecialKinds
    <3>3. RangeStart = opt.start /\ opt.start \in Nat
      BY <1>1, <3>2 DEF RangeStart, RequestOK
    <3>4. CASE opt.start = 0
      <4>1. m \in Stream
        BY <1>2, <3>3, <3>4 DEF Stream
      <4> QED BY <1>3, <4>1
    <3>5. CASE opt.start # 0 /\ opt.sub
      <4>1. opt.start \in Logged /\ start = opt.start
        BY <3>1, <3>2, <3>3, <3>5 DEF StartOK, Logged
      <4>2. opt.start \in Stream
        BY <3>3, <4>1 DEF Stream
      <4> QED BY <3>1, <4>1, <4>2
    <3>6. CASE ~opt.sub
      <4>1. start = opt.start /\ Logged = Rev
        BY <1>1, <3>1, <3>6, RequestFacts DEF StartOK
      <4>2. original \in Rev
        BY <1>1, <1>3, YoungestAssumption DEF Rev
      <4>3. original \in Stream
        BY <3>1, <3>3, <4>1, <4>2 DEF Stream
      <4> QED BY <1>3, <4>3
    <3> QED BY <3>4, <3>5, <3>6
  <2> QED BY <2>1, <2>2
<1> QED BY <1>1, <1>3, <1>4, <1>5, ExactIf

\* Copies within a sub-directory, found by their index in the list of logs.
LEMMA IndexedCopies ==
    ASSUME Control, NumbersInLoop, Indexed, phase = "diff", ~dry, ~opt.keep, opt.sub,
           NEW original \in Nat, original < Current,
           NEW n, n = delta_get_local_copyfrom_rev(original), n > 0
    PROVE  Exact(original, n)
<1>1. /\ RequestOK /\ Current \in Logged /\ Current \in Nat
      /\ Logged \in SUBSET Nat /\ Stream \in SUBSET Nat
      /\ ~EmptyRange => local_rev = Number(Current)
      /\ opt.incremental => Stream = Logged
  BY WhenDiffing
<1>2. Len(logs) \in Nat /\ list_idx \in 0 .. Len(logs) - 1
  BY DEF Control, TypeOK
<1> DEFINE I == {i \in 0 .. Len(logs) - 2 : LogAt(i) <= original} \cup {-1}
<1>3. n \in I /\ \A i \in I : i <= n
  <2>1. n = Max(I)
    BY DEF delta_get_local_copyfrom_rev
  <2>2. I \in SUBSET Int /\ I # {} /\ \A i \in I : i <= Len(logs)
    BY <1>2
  <2> HIDE DEF I
  <2>3. Len(logs) \in Int
    BY <1>2
  <2>4. Max(I) \in I /\ \A i \in I : i <= Max(I)
    BY <2>2, <2>3, MaxFacts
  <2> QED BY <2>1, <2>4
<1>4. n \in 1 .. Len(logs) - 2 /\ LogAt(n) <= original
  BY <1>2, <1>3
<1>5. \A i \in 1 .. Len(logs) - 2 : LogAt(i) <= original => i <= n
  BY <1>2, <1>3
<1>6. ~EmptyRange
  <2> SUFFICES ASSUME EmptyRange PROVE FALSE
    OBVIOUS
  <2>1. ~start_mid /\ FirstIdx = 1
    BY EmptyRangeDef DEF start_mid, FirstIdx
  <2>2. Len(logs) = FirstIdx + 1
    BY <2>1 DEF Control, InLoop, Loop, FromStart
  <2> QED BY <1>4, <2>1, <2>2
<1>7. \A i \in 1 .. Len(logs) - 1 : LogAt(i) \in Stream /\ Number(LogAt(i)) = i
  <2>1. CASE start_mid
    <3>1. Listed /\ FirstIdx = 1 /\ Stream = Logged
      BY <1>1, <2>1 DEF Control, InLoop, Loop, FromMiddle, FirstIdx, start_mid
    <3> QED BY <3>1, NumberRank DEF Listed
  <2>2. CASE ~start_mid
    BY <1>6, <2>2 DEF Indexed, Loop
  <2> QED BY <2>1, <2>2
<1>8. /\ list_idx \in 1 .. Len(logs) - 1 /\ Current \in Stream
      /\ Number(Current) = list_idx /\ local_rev = list_idx
  <2>1. list_idx >= FirstIdx /\ FirstIdx = 1
    <3>1. CASE start_mid
      BY <1>2, <3>1 DEF Control, InLoop, Loop, FromMiddle, FirstIdx
    <3>2. CASE ~start_mid
      BY <3>2 DEF Control, InLoop, Loop, FromStart, FirstIdx
    <3> QED BY <3>1, <3>2
  <2>2. list_idx \in 1 .. Len(logs) - 1
    BY <1>2, <2>1
  <2> QED BY <1>1, <1>6, <1>7, <2>2 DEF Current
<1>9. n \in 1 .. Len(logs) - 1 /\ LogAt(n) \in Stream /\ Number(LogAt(n)) = n
  BY <1>2, <1>4, <1>7
<1>10. \A r \in Stream : \A s \in Stream :
          /\ r < s <=> Number(r) < Number(s)
          /\ r = s <=> Number(r) = Number(s)
  <2> TAKE r \in Stream
  <2> TAKE s \in Stream
  <2>1. Number(r) = Rank(Stream, r) /\ Number(s) = Rank(Stream, s)
    BY NumberRank
  <2>2. /\ r < s <=> Rank(Stream, r) < Rank(Stream, s)
        /\ r = s <=> Rank(Stream, r) = Rank(Stream, s)
    BY <1>1, RankMono
  <2> QED BY <2>1, <2>2
<1>11. \A r \in Stream : r \in Nat /\ Number(r) \in Int
  BY <1>1, NumberRank, RankType
<1> HIDE DEF I
<1>12. n < local_rev
  <2>1. LogAt(n) \in Nat /\ LogAt(n) <= original
    BY <1>4, <1>9, <1>11
  <2>2. LogAt(n) < Current
    BY <1>1, <2>1
  <2>3. Number(LogAt(n)) < Number(Current)
    BY <1>8, <1>9, <1>10, <2>2
  <2> QED BY <1>8, <1>9, <2>3
<1>13. \A r \in Stream : r > original => Number(r) > n
  BY <1>4, <1>9, <1>10, <1>11
<1>14. ASSUME NEW r \in Stream, r <= original, ~(Number(r) <= n)
       PROVE  FALSE
  <2> DEFINE k == Number(r)
  <2>1. k \in Int /\ k > n /\ k < list_idx
    BY <1>1, <1>4, <1>8, <1>10, <1>11, <1>14
  <2>2. k \in 1 .. Len(logs) - 2 /\ k \in 1 .. Len(logs) - 1
    BY <1>2, <1>4, <1>8, <2>1
  <2> HIDE DEF k
  <2>3. LogAt(k) \in Stream /\ Number(LogAt(k)) = Number(r)
    BY <1>7, <2>2 DEF k
  <2>4. LogAt(k) = r
    BY <1>10, <2>3
  <2>5. k <= n
    BY <1>5, <1>14, <2>2, <2>4
  <2> QED BY <1>4, <2>1, <2>5
<1>15. \E r \in Stream : r <= original
  BY <1>4, <1>9
<1> QED BY <1>1, <1>12, <1>13, <1>14, <1>15, ExactIf

LEMMA ExactCopies == Control /\ NumbersInLoop /\ Indexed => CopiesExact
<1> SUFFICES ASSUME Control, NumbersInLoop, Indexed, phase = "diff", ~dry,
                    Kinds(opt, touched) \cap {"shifted", "padded"} = {},
                    NEW original \in Min(Logged \ {0}) .. Current - 1,
                    delta_check_copy(original) > 0
             PROVE  Exact(original, delta_check_copy(original))
  BY DEF CopiesExact, CopySourceExact, Exact, Current
<1>1. original \in Nat /\ original < Current
  <2> DEFINE m == Min(Logged \ {0})
  <2>1. m \in Nat /\ Current \in Nat
    BY WhenDiffing
  <2> HIDE DEF m
  <2>2. original \in m .. Current - 1
    BY DEF m
  <2> QED BY <2>1, <2>2
<1>2. CASE ~opt.sub /\ (start = 0 \/ opt.incremental)
  BY <1>1, <1>2, WholeCopies DEF delta_check_copy
<1>3. CASE ~(~opt.sub /\ (start = 0 \/ opt.incremental))
  <2> DEFINE n == delta_get_local_copyfrom_rev(original)
  <2>1. delta_check_copy(original) = n /\ n > 0 /\ (opt.incremental \/ start <= original)
    BY <1>3 DEF delta_check_copy
  <2>2. CASE opt.keep
    <3>1. n = original
      BY <2>2 DEF delta_get_local_copyfrom_rev
    <3> QED BY <2>1, <2>2, <3>1, KeptCopies
  <2>3. CASE ~opt.keep
    <3>1. opt.sub
      <4> SUFFICES ASSUME ~opt.sub PROVE FALSE
        OBVIOUS
      <4>1. ~start_mid /\ ~opt.incremental /\ start # 0
        BY <1>3 DEF start_mid
      <4>2. start = opt.start
        BY <4>1, WhenDiffing DEF StartOK
      <4> QED BY <2>3, <4>1, <4>2 DEF Kinds, SpecialKinds
    <3> HIDE DEF n
    <3>2. Exact(original, n)
      BY <1>1, <2>1, <2>3, <3>1, IndexedCopies DEF n
    <3> QED BY <2>1, <3>2
  <2> QED BY <2>2, <2>3
<1> QED BY <1>2, <1>3
-----------------------------------------------------------------------------
(***************************************************************************)
(* The path repository                                                     *)
(***************************************************************************)

LEMMA RepoInit == Init => RepoInv
BY DEF Init, RepoInv, Loop

LEMMA RepoNext == Control /\ RepoInv /\ [Next]_vars => RepoInv'
<1> SUFFICES ASSUME Control, RepoInv, [Next]_vars, ~FromCreation' PROVE RepoInv'
  BY DEF RepoInv
<1>0. RequestOK /\ TypeOK
  BY DEF Control
<1>1. UNCHANGED request
  BY DEF Next, Step, DetermineRange, PrepareLog, StartMid, StartBeginning, NextLog,
         PadRevision, WriteHeader, DoDiff, EndRevision, Fail, vars, request
<1>2. opt' = opt /\ ~FromCreation
  BY <1>0, <1>1, Constant
<1>3. CASE DetermineRange
  BY <1>2, <1>3 DEF DetermineRange, RepoInv, Loop
<1>4. CASE PrepareLog
  <2>1. /\ phase = "prepare" /\ phase' = "prepare" /\ logs' = logs
        /\ pr_head' = IF opt.keep THEN LogAt(local_rev) ELSE local_rev
        /\ local_rev' = local_rev + 1
    BY <1>4 DEF PrepareLog
  <2>2. local_rev \in Nat
    BY <2>1 DEF Control, BeforeLoop
  <2>3. local_rev' # 0 /\ local_rev' - 1 = local_rev
    BY <2>1, <2>2
  <2>4. LogAt(local_rev - 1)' = LogAt(local_rev)
    BY <2>1, <2>3 DEF LogAt
  <2> QED BY <1>2, <2>1, <2>3, <2>4 DEF RepoInv, Loop
<1>5. CASE StartMid
  <2> DEFINE lr == IF local_rev > 1 \/ ~opt.sub THEN local_rev - 1 ELSE local_rev
  <2>1. /\ phase = "prepare" /\ ~MorePrepare /\ phase' = "fetch" /\ dry'
        /\ local_rev' = IF opt.keep THEN LogAt(lr) ELSE lr
        /\ pr_head' = pr_head
    BY <1>5 DEF StartMid
  <2>2. lr = local_rev - 1 /\ lr \in FirstIdx .. Len(logs) - 1
    BY <1>2, <2>1, DryRun
  <2>3. local_rev # 0
    BY <1>0, <2>2 DEF FirstIdx, TypeOK
  <2> QED BY <1>2, <2>1, <2>2, <2>3 DEF RepoInv, Loop
<1>6. CASE StartBeginning
  <2>1. phase = "init" /\ phase' = "fetch" /\ pr_head' = pr_head /\ dry' = dry
        /\ local_rev' \in {0, 1}
    BY <1>6 DEF StartBeginning
  <2>2. ~dry
    BY <2>1 DEF Control, BeforeLoop
  <2> QED BY <1>2, <2>1, <2>2 DEF RepoInv, Loop
<1>7. CASE NextLog \/ WriteHeader \/ DoDiff
  BY <1>2, <1>7 DEF NextLog, WriteHeader, DoDiff, RepoInv, Loop
<1>8. CASE PadRevision
  <2>1. /\ phase = "write" /\ phase' = "write" /\ ~dry /\ ~dry'
        /\ pr_head' = local_rev /\ local_rev' = local_rev + 1
    BY <1>8 DEF PadRevision, MustPad
  <2>2. pr_head' = local_rev' - 1
    BY <1>0, <2>1 DEF TypeOK
  <2> QED BY <2>1, <2>2 DEF RepoInv, Loop
<1>9. CASE EndRevision
  <2>1. /\ phase = "commit" /\ phase' \in {"fetch", "done"} /\ ~dry'
        /\ pr_head' = IF dry THEN pr_head ELSE local_rev
        /\ local_rev' = local_rev + 1
    BY <1>9 DEF EndRevision
  <2>2. pr_head' = local_rev
    BY <1>2, <2>1 DEF RepoInv, Loop
  <2>3. pr_head' = local_rev' - 1
    BY <1>0, <2>1, <2>2 DEF TypeOK
  <2> QED BY <2>1, <2>3 DEF RepoInv, Loop
<1>10. CASE Fail
  BY <1>10 DEF Fail, RepoInv, Loop
<1>11. CASE UNCHANGED vars
  BY <1>2, <1>11 DEF vars, RepoInv, LogAt
<1> QED BY <1>3, <1>4, <1>5, <1>6, <1>7, <1>8, <1>9, <1>10, <1>11 DEF Next, Step

LEMMA RepoInStep == RepoInv /\ ~FromCreation => RepositoryInStep
BY DEF RepoInv, RepositoryInStep, Loop

\* What a single step may do to pr_head.
InOrder ==
    pr_head' # pr_head =>
        \/ pr_head = -1 /\ pr_head' \in {0, 1}
        \/ pr_head' = pr_head + 1
        \/ phase = "prepare" /\ opt.sub /\ opt.keep /\ pr_head' > pr_head

LEMMA StepsInOrder == Control /\ RepoInv /\ ~FromCreation /\ [Next]_vars => InOrder
<1> SUFFICES ASSUME Control, RepoInv, ~FromCreation, [Next]_vars, pr_head' # pr_head
             PROVE  \/ pr_head = -1 /\ pr_head' \in {0, 1}
                    \/ pr_head' = pr_head + 1
                    \/ phase = "prepare" /\ opt.sub /\ opt.keep /\ pr_head' > pr_head
  BY DEF InOrder
<1>0. RequestOK /\ TypeOK
  BY DEF Control
<1>1. CASE PrepareLog
  <2>1. /\ phase = "prepare" /\ MorePrepare
        /\ pr_head' = IF opt.keep THEN LogAt(local_rev) ELSE local_rev
    BY <1>1 DEF PrepareLog
  <2>2. Listed /\ EndOK /\ local_rev \in 0 .. Len(logs)
    BY <2>1 DEF Control, BeforeLoop
  <2>3. /\ pr_head = IF local_rev = 0 THEN -1
                     ELSE IF opt.keep THEN LogAt(local_rev - 1) ELSE local_rev - 1
    BY <2>1 DEF RepoInv
  <2>4. Len(logs) \in Nat /\ FirstIdx \in {0, 1} /\ local_rev \in 0 .. Len(logs) - 1
    BY <1>0, <2>1, <2>2, ListedEnd DEF MorePrepare
  <2>5. LogAt(0) = 0
    BY <2>2 DEF Listed, LogAt
  <2>6. CASE local_rev = 0
    BY <2>1, <2>3, <2>5, <2>6
  <2>7. CASE local_rev # 0 /\ ~opt.keep
    BY <2>1, <2>3, <2>4, <2>7
  <2>8. CASE local_rev # 0 /\ opt.keep
    <3> DEFINE i == local_rev - 1
    <3>1. /\ pr_head = LogAt(i) /\ pr_head' = LogAt(i + 1) /\ i + 1 = local_rev
          /\ i \in 0 .. Len(logs) - 1 /\ i + 1 \in 0 .. Len(logs) - 1 /\ i + 1 >= 1
      BY <2>1, <2>3, <2>4, <2>8
    <3> HIDE DEF i
    <3>2. CASE opt.sub /\ i = 0
      <4>1. LogAt(i + 1) \in Logged /\ Logged \in SUBSET Nat /\ 0 \notin Logged
        <5>1. i + 1 \in FirstIdx .. Len(logs) - 1
          BY <3>1, <3>2 DEF FirstIdx
        <5> QED BY <1>0, <2>2, <3>2, <5>1, RequestFacts DEF Listed
      <4>2. LogAt(i + 1) > 0
        <5>1. LogAt(i + 1) \in Nat /\ LogAt(i + 1) # 0
          BY <4>1
        <5> QED BY <5>1
      <4> QED BY <2>1, <2>5, <2>8, <3>1, <3>2, <4>2
    <3>3. CASE opt.sub /\ i # 0
      <4>1. i \in FirstIdx .. Len(logs) - 1 /\ i + 1 \in FirstIdx .. Len(logs) - 1
        BY <2>4, <3>1, <3>3 DEF FirstIdx
      <4>2. LogAt(i) < LogAt(i + 1)
        BY <1>0, <2>2, <4>1, NextListed
      <4>3. LogAt(i) \in Nat /\ LogAt(i + 1) \in Nat
        BY <1>0, <2>2, <4>1, RequestFacts DEF Listed
      <4> QED BY <2>1, <2>8, <3>1, <3>3, <4>2, <4>3
    <3>4. CASE ~opt.sub
      <4>1. i \in FirstIdx .. Len(logs) - 1 /\ i + 1 \in FirstIdx .. Len(logs) - 1
        BY <3>1, <3>4 DEF FirstIdx
      <4>2. /\ LogAt(i) < LogAt(i + 1)
            /\ \A x \in Logged : ~(LogAt(i) < x /\ x < LogAt(i + 1))
        BY <1>0, <2>2, <4>1, NextListed
      <4>3. LogAt(i) \in Rev /\ LogAt(i + 1) \in Rev /\ Logged = Rev
        BY <1>0, <2>2, <3>4, <4>1, RequestFacts DEF Listed
      <4>4. LogAt(i + 1) = LogAt(i) + 1
        BY <4>2, <4>3, YoungestAssumption DEF Rev
      <4> QED BY <3>1, <4>4
    <3> QED BY <3>2, <3>3, <3>4
  <2> QED BY <2>6, <2>7, <2>8
<1>2. CASE PadRevision \/ EndRevision
  <2>1. phase \in {"write", "commit"} /\ ~dry /\ pr_head' = local_rev
    BY <1>2 DEF PadRevision, EndRevision, MustPad
  <2>2. pr_head = local_rev - 1 \/ (pr_head = -1 /\ local_rev \in {0, 1})
    BY <2>1 DEF RepoInv, Loop
  <2> QED BY <1>0, <2>1, <2>2 DEF TypeOK
<1>3. ~(DetermineRange \/ StartMid \/ StartBeginning \/ NextLog \/ WriteHeader \/ DoDiff
        \/ Fail \/ UNCHANGED vars)
  BY DEF DetermineRange, StartMid, StartBeginning, NextLog, WriteHeader, DoDiff, Fail, vars
<1> QED BY <1>1, <1>2, <1>3 DEF Next, Step
-----------------------------------------------------------------------------
(***************************************************************************)
(* The range                                                               *)
(***************************************************************************)

\* The next log that is not for a dry run is the next one of the range.
LEMMA NextInRange ==
    ASSUME Control, phase = "write", ~dry, ~FromCreation, ~EmptyRange
    PROVE  /\ Current \in InRange
           /\ \A x \in InRange : x <= base => x < Current
           /\ \A x \in InRange : x <= Current <=> x <= base \/ x = Current
<1>1. /\ RequestOK /\ EndOK /\ Current \in Logged /\ Current <= end
      /\ base # -1 => /\ base \in Logged /\ base >= start /\ base < Current
                      /\ \A x \in Logged : ~(base < x /\ x < Current)
      /\ IF start_mid THEN FromMiddle ELSE FromStart
      /\ start \in Int /\ base \in Rev \cup {-1}
  BY DEF Control, InLoop, Loop, TypeOK
<1>2. /\ Logged \in SUBSET Nat /\ Current \in Nat /\ end \in Nat /\ RangeEnd \in Nat
      /\ RangeStart \in Nat /\ InRange \subseteq Logged /\ end <= RangeEnd
      /\ \A x \in InRange : RangeStart <= x /\ x \in Nat
  BY <1>1, RequestFacts DEF EndOK, Rev, InRange
<1>3. CASE start_mid
  <2>1. base # -1 /\ RangeStart = opt.start
    BY <1>1, <1>3 DEF FromMiddle, RequestOK, start_mid, RangeStart
  <2>2. base \in Nat /\ base >= start /\ base < Current
        /\ \A x \in Logged : ~(base < x /\ x < Current)
    BY <1>1, <1>2, <2>1
  <2>3. \A x \in Logged : x < RangeStart => x <= start
    BY <1>1, <1>3, <2>1 DEF FromMiddle
  <2>4. Current >= RangeStart
    BY <1>1, <1>2, <2>2, <2>3
  <2>5. Current \in InRange
    BY <1>1, <1>2, <2>4 DEF InRange
  <2> QED BY <1>2, <2>2, <2>5
<1>4. CASE ~start_mid
  <2>1. /\ FromStart /\ Current \in Stream
        /\ base = -1 => \A x \in Stream : Current <= x
    BY <1>1, <1>4 DEF FromStart
  <2>2. Current >= RangeStart
    <3>1. opt.incremental => RangeStart = 0
      BY <1>4 DEF start_mid, RangeStart
    <3> QED BY <1>2, <2>1, <3>1 DEF Stream
  <2>3. Current \in InRange
    BY <1>1, <1>2, <2>2 DEF InRange
  <2>4. CASE base = -1
    <3>1. \A x \in InRange : Current <= x
      BY <1>2, <2>1, <2>4 DEF Stream
    <3> QED BY <1>2, <2>3, <2>4, <3>1
  <2>5. CASE base # -1
    <3>1. base \in Nat /\ base < Current /\ \A x \in Logged : ~(base < x /\ x < Current)
      BY <1>1, <1>2, <2>5
    <3> QED BY <1>2, <2>3, <3>1
  <2> QED BY <2>4, <2>5
<1> QED BY <1>3, <1>4

\* A dry run is of a revision before the range.
LEMMA DryBefore ==
    ASSUME Control, phase = "write", dry, ~FromCreation
    PROVE  \A x \in InRange : ~(x <= Current)
<1>1. RequestOK /\ start_mid /\ FromMiddle /\ Current = start /\ start < opt.start
  BY DEF Control, InLoop, Loop, FromStart, FromMiddle
<1>2. RangeStart = opt.start /\ opt.start \in Nat /\ start \in Nat
  BY <1>1, RequestFacts DEF start_mid, RangeStart, RequestOK, FromMiddle
<1>3. \A x \in InRange : x \in Nat /\ RangeStart <= x
  BY <1>1, RequestFacts DEF InRange, Rev
<1> QED BY <1>1, <1>2, <1>3

LEMMA NothingDumped ==
    ASSUME out = <<>>, NEW b, \A x \in InRange : ~(x <= b)
    PROVE  Dumped(b)
<1>1. Originals = {}
  BY DEF Originals
<1> QED BY <1>1 DEF Dumped

LEMMA RangeNext == Control /\ IsList(out) /\ Silent /\ RangeInv /\ [Next]_vars => RangeInv'
<1> SUFFICES ASSUME Control, IsList(out), Silent, RangeInv, [Next]_vars,
                    ~FromCreation', ~EmptyRange'
             PROVE  /\ phase' \in {"fetch", "write", "commit"} => Dumped(base)'
                    /\ phase' = "diff" => Dumped(Current)'
                    /\ phase' = "done" => Dumped(end)'
  BY DEF RangeInv
<1>0. RequestOK /\ TypeOK
  BY DEF Control
<1>1. UNCHANGED request
  BY DEF Next, Step, DetermineRange, PrepareLog, StartMid, StartBeginning, NextLog,
         PadRevision, WriteHeader, DoDiff, EndRevision, Fail, vars, request
<1>2. InRange' = InRange /\ ~FromCreation /\ ~EmptyRange
  BY <1>0, <1>1, Constant
<1>3. CASE DetermineRange \/ PrepareLog \/ Fail
  BY <1>3 DEF DetermineRange, PrepareLog, Fail
<1>4. CASE StartMid \/ StartBeginning
  <2>1. phase \in {"prepare", "init"} /\ out' = out /\ base' = base /\ phase' = "fetch"
    BY <1>4 DEF StartMid, StartBeginning
  <2>2. out' = <<>> /\ base' = -1
    BY <2>1 DEF Silent, Control, BeforeLoop
  <2>3. \A x \in InRange' : ~(x <= base')
    <3>1. \A x \in InRange : x \in Nat
      BY <1>0, RequestFacts DEF InRange
    <3> QED BY <1>2, <2>2, <3>1
  <2>4. Originals' = {}
    BY <2>2 DEF Originals
  <2> QED BY <2>1, <2>3, <2>4 DEF Dumped
<1>5. CASE NextLog
  <2>1. phase = "fetch" /\ phase' = "write" /\ base' = base /\ out' = out
    BY <1>5 DEF NextLog
  <2> QED BY <1>2, <2>1 DEF RangeInv, Dumped, Originals
<1>6. CASE PadRevision
  <2>1. phase = "write" /\ phase' = "write" /\ out' = Append(out, Record(Padding))
        /\ base' = base
    BY <1>6 DEF PadRevision
  <2>2. Originals' = Originals /\ \A i \in Originals : out'[i] = out[i]
    <3> DEFINE n == Record(Padding)
    <3>1. n.from = Padding
      BY DEF Record
    <3> HIDE DEF n
    <3>2. /\ Len(out) \in Nat /\ DOMAIN out = 1 .. Len(out) /\ DOMAIN out' = 1 .. Len(out) + 1
          /\ out'[Len(out) + 1] = n /\ \A i \in 1 .. Len(out) : out'[i] = out[i]
      BY <2>1, AppendFacts DEF n
    <3>3. ASSUME NEW i PROVE i \in Originals' <=> i \in Originals
      BY <3>1, <3>2 DEF Originals
    <3> QED BY <3>2, <3>3 DEF Originals
  <2>3. Dumped(base)
    BY <1>2, <2>1 DEF RangeInv
  <2>4. {out'[i].from : i \in Originals'} = {out[i].from : i \in Originals}
    BY <2>2
  <2> QED BY <1>2, <2>1, <2>2, <2>3, <2>4 DEF Dumped
<1>7. CASE WriteHeader
  <2>1. /\ phase = "write" /\ phase' = "diff" /\ Current' = Current
        /\ out' = IF dry THEN out ELSE Append(out, Record(Current))
    BY <1>7 DEF WriteHeader, Current, LogAt
  <2>2. CASE dry
    <3>1. \A x \in InRange' : ~(x <= Current')
      BY <1>2, <2>1, <2>2, DryBefore
    <3>2. Originals' = {}
      BY <2>1, <2>2 DEF Silent, Originals
    <3> QED BY <2>1, <3>1, <3>2 DEF Dumped
  <2>3. CASE ~dry
    <3> DEFINE n == Record(Current)
               m == Len(out) + 1
    <3>1. n.from = Current
      BY DEF Record
    <3> HIDE DEF n
    <3>2. /\ Len(out) \in Nat /\ DOMAIN out = 1 .. Len(out) /\ DOMAIN out' = 1 .. m
          /\ out'[m] = n /\ \A i \in 1 .. Len(out) : out'[i] = out[i]
      BY <2>1, <2>3, AppendFacts DEF n
    <3>3. /\ Current \in InRange
          /\ \A x \in InRange : x <= base => x < Current
          /\ \A x \in InRange : x <= Current <=> x <= base \/ x = Current
      BY <1>2, <2>1, <2>3, NextInRange
    <3>4. Current # Padding
      <4>1. Current \in Nat
        BY <1>0, <3>3, RequestFacts DEF InRange
      <4> QED BY <4>1 DEF Padding
    <3>5. Dumped(base)
      BY <1>2, <2>1 DEF RangeInv
    <3>6. m \notin Originals /\ Originals \subseteq Nat
      BY <3>2 DEF Originals
    <3>7. \A i \in Originals : out'[i] = out[i] /\ i < m
      BY <3>2 DEF Originals
    <3>8. Originals' = Originals \cup {m}
      <4>1. ASSUME NEW i PROVE i \in Originals' <=> i \in Originals \cup {m}
        <5>1. i \in 1 .. m <=> i \in 1 .. Len(out) \/ i = m
          BY <3>2
        <5> HIDE DEF m
        <5> QED BY <3>1, <3>2, <3>4, <5>1 DEF Originals
      <4> QED BY <4>1
    <3> HIDE DEF m
    <3>9. {out'[i].from : i \in Originals'} = {out[i].from : i \in Originals} \cup {Current}
      BY <3>1, <3>2, <3>7, <3>8
    <3>10. {out'[i].from : i \in Originals'} = {x \in InRange : x <= Current}
      <4>1. {x \in InRange : x <= Current} = {x \in InRange : x <= base} \cup {Current}
        BY <3>3
      <4> QED BY <3>5, <3>9, <4>1 DEF Dumped
    <3>11. ASSUME NEW i \in Originals', NEW j \in Originals', i < j
           PROVE  out'[i].from < out'[j].from
      <4>1. i \in Originals
        <5>1. i # m
          BY <3>2, <3>6, <3>7, <3>8, <3>11 DEF m
        <5> QED BY <3>8, <5>1
      <4>2. CASE j \in Originals
        BY <3>5, <3>7, <3>11, <4>1, <4>2 DEF Dumped
      <4>3. CASE j = m
        <5>1. out[i].from \in {x \in InRange : x <= base}
          BY <3>5, <4>1 DEF Dumped
        <5> QED BY <3>1, <3>2, <3>3, <3>7, <4>1, <4>3, <5>1
      <4> QED BY <3>8, <4>2, <4>3
    <3> QED BY <1>2, <2>1, <3>10, <3>11 DEF Dumped
  <2> QED BY <2>2, <2>3
<1>8. CASE DoDiff
  <2>1. phase = "diff" /\ phase' = "commit" /\ base' = Current /\ out' = out
    BY <1>8 DEF DoDiff, Current
  <2> QED BY <1>2, <2>1 DEF RangeInv, Dumped, Originals
<1>9. CASE EndRevision
  <2>1. /\ phase = "commit" /\ base' = base /\ out' = out /\ end' = end
        /\ phase' = IF Current + 1 <= end THEN "fetch" ELSE "done"
    BY <1>9 DEF EndRevision, Current
  <2>2. phase' = "done" => base = end
    <3>1. base = Current /\ Current \in Logged /\ Current <= end /\ end \in Logged
      BY <2>1 DEF Control, InLoop, Loop, EndOK
    <3>2. base \in Nat /\ end \in Nat
      BY <1>0, <3>1, RequestFacts
    <3> QED BY <2>1, <3>1, <3>2
  <2>3. phase' \in {"fetch", "done"}
    BY <2>1
  <2> QED BY <1>2, <2>1, <2>2, <2>3 DEF RangeInv, Dumped, Originals
<1>10. CASE UNCHANGED vars
  <2>1. UNCHANGED <<phase, base, out, end, Current>>
    BY <1>10 DEF vars, Current, LogAt
  <2> QED BY <1>2, <2>1 DEF RangeInv, Dumped, Originals
<1> QED BY <1>3, <1>4, <1>5, <1>6, <1>7, <1>8, <1>9, <1>10 DEF Next, Step

\* The range that dump() works on has the revisions that were asked for.
LEMMA RightRange ==
    ASSUME RequestOK, Kinds(opt, touched) \cap {"single", "stop"} = {}
    PROVE  InRange = Wanted
<1>1. /\ opt.given = "single" => opt.sub /\ opt.start \notin touched
      /\ opt.given = "stop" => opt.sub /\ opt.end + 1 \notin touched
  BY DEF Kinds, SpecialKinds
<1>2. /\ RangeStart \in Nat /\ RangeEnd \in Nat /\ Logged \subseteq Nat
      /\ opt.sub => Logged = touched
  BY RequestFacts DEF Rev
<1>3. CASE opt.given = "single"
  <2>1. opt.end >= 1 /\ opt.start = opt.end - 1 /\ opt.end \in Int
    BY <1>3 DEF RequestOK
  <2>2. RangeStart = opt.start /\ RangeEnd = opt.start + 1
    BY <2>1 DEF RangeStart, RangeEnd
  <2>3. FirstWanted = RangeEnd /\ LastWanted = RangeEnd
    BY <1>3 DEF FirstWanted, LastWanted
  <2>4. RangeStart \notin Logged
    BY <1>1, <1>2, <1>3, <2>2
  <2> QED BY <1>2, <2>2, <2>3, <2>4 DEF InRange, Wanted
<1>4. CASE opt.given = "stop"
  <2>1. opt.end \in 0 .. Youngest - 1
    BY <1>4 DEF RequestOK
  <2>2. RangeEnd = opt.end
    BY <2>1 DEF RangeEnd
  <2>3. FirstWanted = RangeStart /\ LastWanted = RangeEnd + 1
    BY <1>4 DEF FirstWanted, LastWanted
  <2>4. RangeEnd + 1 \notin Logged
    BY <1>1, <1>2, <1>4, <2>2
  <2> QED BY <1>2, <2>3, <2>4 DEF InRange, Wanted
<1>5. CASE opt.given \notin {"single", "stop"}
  BY <1>5 DEF InRange, Wanted, FirstWanted, LastWanted
<1> QED BY <1>3, <1>4, <1>5

LEMMA AllDumped ==
    ASSUME Control, RangeInv, ~FromCreation, ~EmptyRange,
           Kinds(opt, touched) \cap {"single", "stop"} = {}
    PROVE  RangeDumped
<1> SUFFICES ASSUME phase = "done"
             PROVE  /\ {out[i].from : i \in Originals} = InRange
                    /\ \A i, j \in Originals : i < j => out[i].from < out[j].from
  BY RightRange DEF RangeDumped, Control
<1>1. Dumped(end) /\ EndOK /\ RequestOK
  BY DEF RangeInv, Control
<1>2. \A x \in InRange : x <= RangeEnd /\ x \in Logged
  BY <1>1, RequestFacts DEF InRange, Rev
<1>3. {x \in InRange : x <= end} = InRange
  BY <1>1, <1>2 DEF EndOK
<1> QED BY <1>1, <1>3 DEF Dumped
-----------------------------------------------------------------------------
(***************************************************************************)
(* Theorems                                                                *)
(***************************************************************************)
LEMMA InvInit == Init => Inv
<1> SUFFICES ASSUME Init PROVE Inv
  OBVIOUS
<1>1. Control /\ Sequential /\ RepoInv
  BY ControlInit, SequentialInit, RepoInit
<1>2. phase = "range" /\ out = <<>>
  BY DEF Init
<1>3. NumbersInLoop /\ Indexed /\ RangeInv
  BY <1>2 DEF NumbersInLoop, Indexed, RangeInv, Loop
<1>4. NumbersAgree
  BY <1>2 DEF NumbersAgree
<1> QED BY <1>1, <1>3, <1>4 DEF Inv

LEMMA InvNext == Inv /\ [Next]_vars => Inv'
<1> SUFFICES ASSUME Inv, [Next]_vars PROVE Inv'
  OBVIOUS
<1>1. /\ Control /\ Sequential /\ NumbersInLoop /\ Indexed /\ RepoInv /\ RangeInv
      /\ EmptyRange \/ NumbersAgree
      /\ IsList(out) /\ Silent
  BY DEF Inv, Sequential
<1>2. Control' /\ Sequential'
  BY <1>1, ControlNext, SequentialNext
<1>3. NumbersInLoop' /\ Indexed'
  BY <1>1, <1>2, NumbersInLoopNext, IndexedNext
<1>4. RepoInv' /\ RangeInv'
  BY <1>1, RepoNext, RangeNext
<1>5. EmptyRange' <=> EmptyRange
  <2>1. UNCHANGED request
    BY DEF Next, Step, DetermineRange, PrepareLog, StartMid, StartBeginning, NextLog,
           PadRevision, WriteHeader, DoDiff, EndRevision, Fail, vars, request
  <2> QED BY <1>1, <2>1, Constant DEF Control
<1>6. EmptyRange' \/ NumbersAgree'
  BY <1>1, <1>3, <1>5, AgreeNext
<1> QED BY <1>2, <1>3, <1>4, <1>6 DEF Inv

\* The kinds of requests for which other revisions are dumped than asked for.
NotTheRange == {"creation", "unchanged", "single", "stop"}

\* What the invariant says of the properties.
LEMMA InvSafe ==
    Inv => /\ TypeOK /\ NumbersSequential /\ DiffBaseKnown /\ CopiesExact
           /\ "unchanged" \notin Allowed => NumbersAgree
           /\ "creation" \notin Allowed => RepositoryInStep
           /\ Allowed \cap NotTheRange = {} => RangeDumped
<1> SUFFICES ASSUME Inv
             PROVE  /\ TypeOK /\ NumbersSequential /\ DiffBaseKnown /\ CopiesExact
                    /\ "unchanged" \notin Allowed => NumbersAgree
                    /\ "creation" \notin Allowed => RepositoryInStep
                    /\ Allowed \cap NotTheRange = {} => RangeDumped
  OBVIOUS
<1>1. /\ "unchanged" \notin Allowed => ~EmptyRange
      /\ "creation" \notin Allowed => ~FromCreation
      /\ Kinds(opt, touched) \subseteq Allowed
  BY DEF Inv, Control, RequestOK, EmptyRange, FromCreation
<1>2. TypeOK /\ NumbersSequential
  BY DEF Inv, Control, Sequential
<1>3. DiffBaseKnown /\ CopiesExact
  BY KnownBase, ExactCopies DEF Inv
<1>4. "unchanged" \notin Allowed => NumbersAgree
  BY <1>1 DEF Inv
<1>5. "creation" \notin Allowed => RepositoryInStep
  BY <1>1, RepoInStep DEF Inv
<1>6. Allowed \cap NotTheRange = {} => RangeDumped
  BY <1>1, AllDumped DEF Inv, NotTheRange
<1> QED BY <1>2, <1>3, <1>4, <1>5, <1>6

\* The same for the action property.
LEMMA InvOrder ==
    ASSUME "creation" \notin Allowed
    PROVE  Inv /\ [Next]_vars => InOrder
<1>1. Inv => Control /\ RepoInv /\ ~FromCreation
  BY DEF Inv, Control, RequestOK, FromCreation
<1> QED BY <1>1, StepsInOrder

\* The shape of the variables: in particular, at every place where dump() reads
\* the list of logs its index is within the list (dump.c:479-587), for every
\* request, however few of the revisions changed the sub-directory.
THEOREM DumpTypeOK == Spec => []TypeOK
BY InvInit, InvNext, InvSafe, PTL DEF Spec

\* The numbers in the output are sequential for every repository, range and
\* combination of options, with and without padding, after a dry run, and also
\* in what has been written when a dump fails.
THEOREM DumpNumbersSequential == Spec => []NumbersSequential
BY InvInit, InvNext, InvSafe, PTL DEF Spec

\* The diff that dump() asks for (dump.c:515-542) is always against the tree
\* that the editor has seen last, for every repository and request.
THEOREM DumpDiffBaseKnown == Spec => []DiffBaseKnown
BY InvInit, InvNext, InvSafe, PTL DEF Spec

\* The source that delta_check_copy() gives to a copy holds the tree of the
\* original source, for every repository and every request but the two kinds
\* that CopiesExact itself names: "list indexes are equal to their respective
\* local revision numbers" (delta.c:1464) is true.
THEOREM DumpCopiesExact == Spec => []CopiesExact
BY InvInit, InvNext, InvSafe, PTL DEF Spec

\* Every revision has the number it has in a dump from the beginning, and
\* padding stands for revisions without changes only, unless the directory did
\* not change in the range at all: then dump() writes the last change before.
THEOREM DumpNumbersAgree ==
    ASSUME "unchanged" \notin Allowed
    PROVE  Spec => []NumbersAgree
<1>1. Inv => NumbersAgree
  BY InvSafe
<1> QED BY InvInit, InvNext, <1>1, PTL DEF Spec

\* The path repository is where the lookups of the editor (delta.c:331,340) and
\* the dry run (dump.c:549) expect it, unless an incremental dump begins with
\* the creation of the directory.
THEOREM DumpRepositoryInStep ==
    ASSUME "creation" \notin Allowed
    PROVE  Spec => []RepositoryInStep
<1>1. Inv => RepositoryInStep
  BY InvSafe
<1> QED BY InvInit, InvNext, <1>1, PTL DEF Spec

\* With the same exception, dump() commits revisions to the path repository one
\* after the other, as PathRepo.tla requires of its caller.
THEOREM DumpCommitsInOrder ==
    ASSUME "creation" \notin Allowed
    PROVE  Spec => CommitsInOrder
<1>1. Inv /\ [Next]_vars => InOrder
  BY InvOrder
<1> QED BY InvInit, InvNext, <1>1, PTL DEF Spec, CommitsInOrder, InOrder

\* A dump that comes to its end has written the whole range, once and in order,
\* with both exceptions and those of a single revision that dump() takes for a range
\* of two, and of --stop, for which it takes one too few (main.c:136, 269).
THEOREM DumpRangeDumped ==
    ASSUME Allowed \cap NotTheRange = {}
    PROVE  Spec => []RangeDumped
<1>1. Inv => RangeDumped
  BY InvSafe
<1> QED BY InvInit, InvNext, <1>1, PTL DEF Spec

-----------------------------------------------------------------------------
(***************************************************************************)
(* main(): every run of the program contains a run of dump(), so that what *)
(* is shown above carries over; and the exit status, the session and the   *)
(* temporary directory fit together.                                       *)
(*                                                                         *)
(* CleanExit and ExitTells are not inductive.  That the exit status, once  *)
(* set, stays true needs that nothing happens at the stage "exit"; that it *)
(* is right when it is set needs what each stage before says of the        *)
(* directory, the session and ret.                                         *)
(***************************************************************************)


Staged ==
    /\ exit # "none" => stage = "exit"
    /\ stage # "exit" => ret = 0
    /\ stage \in {"startup", "arguments"} => temp_dir = "none"
    /\ stage \in {"startup", "arguments", "open"} => session = "none"
    /\ stage = "dump" => session = "open"

MainInv == Staged /\ CleanExit /\ ExitTells

LEMMA MainInvInit == MainInit => MainInv
BY DEF MainInit, MainInv, Staged, CleanExit, ExitTells

LEMMA MainInvNext == MainInv /\ [MainNext]_allvars => MainInv'
<1> SUFFICES ASSUME MainInv, [MainNext]_allvars PROVE MainInv'
  OBVIOUS
<1> USE DEF MainInv, Staged, CleanExit, ExitTells
<1>1. CASE ParseArgument
  <2>1. /\ stage = "arguments"
        /\ exit = "none" /\ ret = 0 /\ temp_dir = "none" /\ session = "none"
        /\ temp_dir' = temp_dir /\ session' = session
    BY <1>1 DEF ParseArgument
  <2>2. \/ finish(0)
        \/ finish(1)
        \/ stage' = stage /\ ret' = ret /\ exit' = exit
    BY <1>1 DEF ParseArgument
  <2> QED BY <2>1, <2>2 DEF finish
<1>2. CASE MakeTempDir
  BY <1>2 DEF MakeTempDir, finish
<1>3. CASE session_open
  BY <1>3 DEF session_open
<1>4. CASE OpenFailed
  BY <1>4 DEF OpenFailed, utils_rrmdir, finish
<1>5. CASE DumpStep \/ DumpFails
  BY <1>5 DEF DumpStep, DumpFails, mainvars
<1>6. CASE DumpReturns
  BY <1>6 DEF DumpReturns, session_close, utils_rrmdir, finish, vars
<1>7. CASE Startup
  BY <1>7 DEF Startup, finish
<1>8. CASE UNCHANGED allvars
  BY <1>8 DEF allvars, vars, mainvars
<1> QED BY <1>1, <1>2, <1>3, <1>4, <1>5, <1>6, <1>7, <1>8 DEF MainNext, MainStep

\* Whatever the arguments, the URL and the errors on the way: when the program
\* reports success, nothing is left of its files and no session is open.
THEOREM MainCleanExit == MainSpec => []CleanExit
<1>1. MainInv => CleanExit
  BY DEF MainInv
<1> QED BY MainInvInit, MainInvNext, <1>1, PTL DEF MainSpec

\* Once the session has been opened, the exit status says whether dump() came
\* to its end (main.c:337-346).
THEOREM MainExitTells == MainSpec => []ExitTells
<1>1. MainInv => ExitTells
  BY DEF MainInv
<1> QED BY MainInvInit, MainInvNext, <1>1, PTL DEF MainSpec

\* What main() does with the variables of dump() is what dump() does with them.
LEMMA MainStepsDump == [MainNext]_allvars => [Next]_vars
<1> SUFFICES ASSUME [MainNext]_allvars PROVE [Next]_vars
  OBVIOUS
<1>1. CASE \/ Startup \/ ParseArgument \/ MakeTempDir
           \/ session_open \/ OpenFailed \/ DumpReturns
  BY <1>1 DEF Startup, ParseArgument, MakeTempDir, session_open, OpenFailed, DumpReturns
<1>2. CASE DumpStep \/ DumpFails
  BY <1>2 DEF DumpStep, DumpFails, Next
<1>3. CASE UNCHANGED allvars
  BY <1>3 DEF allvars
<1> QED BY <1>1, <1>2, <1>3 DEF MainNext, MainStep

\* The invariant of dump() is one of the program.
LEMMA MainDumpInv == MainSpec => []Inv
<1>1. MainInit => Inv
  BY InvInit DEF MainInit
<1>2. Inv /\ [MainNext]_allvars => Inv'
  BY InvNext, MainStepsDump
<1> QED BY <1>1, <1>2, PTL DEF MainSpec

\* Whatever the arguments are and however the program ends: the index in the
\* list of logs is within it, the numbers in the output are sequential, each
\* diff is against the tree that the editor has, and the source of a copy is
\* that of the original.
THEOREM MainDumpSafe ==
    MainSpec => [](TypeOK /\ NumbersSequential /\ DiffBaseKnown /\ CopiesExact)
BY MainDumpInv, InvSafe, PTL

\* Except for four kinds of requests (a range in which the directory did not
\* change, an incremental dump that begins with its creation, a single revision
\* after one that is in the log, and --stop with one that is): the numbers
\* are those of a dump from the beginning, the path repository is in step with
\* the dump and gets revisions in order, and a dump that comes to its end is of
\* the whole range.
THEOREM MainDumpRight ==
    ASSUME Allowed \cap NotTheRange = {}
    PROVE  MainSpec => /\ [](NumbersAgree /\ RepositoryInStep /\ RangeDumped)
                       /\ CommitsInOrder
<1>1. Inv => NumbersAgree /\ RepositoryInStep /\ RangeDumped
  BY InvSafe DEF NotTheRange
<1>2. Inv /\ [MainNext]_allvars => InOrder
  BY InvOrder, MainStepsDump DEF NotTheRange
<1>3. MainSpec => [](NumbersAgree /\ RepositoryInStep /\ RangeDumped)
  BY MainDumpInv, <1>1, PTL
<1>4. MainSpec => CommitsInOrder
  BY MainDumpInv, <1>2, PTL DEF MainSpec, CommitsInOrder, InOrder
<1> QED BY <1>3, <1>4, PTL
=============================================================================
