---------------------------- MODULE DumpControl -----------------------------
(***************************************************************************)
(* The control of dump(): which revision is looked at at each place of the *)
(* loop, how the list of logs, the index in it and the range relate to it, *)
(* and which revision comes next.  Control is an inductive invariant for   *)
(* all requests; DumpProofs.tla derives the properties of Dump.tla from it.*)
(*                                                                         *)
(* It is needed as a whole.  That a list index is valid depends on the end *)
(* of the range being the last log of the list; that this is so depends on *)
(* how the list was made; and that the loop ends when it has reached that  *)
(* log depends on the next log never being after the end of the range,     *)
(* which log_fetch_single() would return if the range were empty.          *)
(***************************************************************************)
EXTENDS Dump, Lemmas

\* Places in the loop of dump(), where there is a log to work on or to fetch.
Loop == {"fetch", "write", "diff", "commit"}

\* The list of a sub-directory begins with a placeholder for revision 0.
FirstIdx == IF opt.sub THEN 1 ELSE 0
Placeholder == IF opt.sub THEN <<0>> ELSE <<>>

\* The revision in work.
Current == LogAt(list_idx)

\* Two of the kinds of requests of Kinds(): "unchanged" and "creation".
EmptyRange == "unchanged" \in Kinds(opt, touched)
FromCreation == "creation" \in Kinds(opt, touched)

\* What dump() takes for the requested revisions.
InRange == Logged \cap (RangeStart .. RangeEnd)

\* What main() accepts as a request.
RequestOK ==
    /\ touched \subseteq 1 .. Youngest /\ touched # {}
    /\ opt.sub \in BOOLEAN /\ opt.keep \in BOOLEAN /\ opt.incremental \in BOOLEAN
    /\ opt.start \in -1 .. Youngest /\ opt.end \in -1 .. Youngest
    /\ opt.end = -1 \/ opt.start <= opt.end
    /\ opt.start = -1 => opt.end = -1 /\ ~opt.incremental
    /\ opt.given = "single" => opt.end >= 1 /\ opt.start = opt.end - 1
    /\ opt.given = "stop" => opt.start = 0 /\ opt.end \in 0 .. Youngest - 1
    /\ ~opt.sub => touched = 1 .. Youngest
    /\ Kinds(opt, touched) \subseteq Allowed

\* After dump_determine_end(), the range ends with a log.
EndOK ==
    /\ end \in Logged /\ end <= RangeEnd
    /\ \A x \in Logged : x <= RangeEnd => x <= end

\* The start of a range that is not prepared: as given, or the first log.
StartOK ==
    IF opt.sub /\ opt.start = 0 THEN start \in Logged /\ \A x \in Logged : start <= x
    ELSE start = opt.start

\* The list of log_fetch_all(): complete, and the index is the rank.
Listed ==
    /\ logs # <<>> /\ logs[1] = 0
    /\ \A i \in FirstIdx .. Len(logs) - 1 :
          LogAt(i) \in Logged /\ LogAt(i) <= end /\ Rank(Logged, LogAt(i)) = i
    /\ \A x \in Logged : x <= end => \E i \in FirstIdx .. Len(logs) - 1 : x = LogAt(i)

BeforeLoop ==
    /\ phase = "range" => start = opt.start /\ end = opt.end /\ logs = Placeholder
    /\ phase = "init" => ~start_mid /\ EndOK /\ StartOK /\ logs = Placeholder
    /\ phase = "prepare" =>
         /\ start_mid /\ EndOK /\ Listed /\ start = opt.start
         /\ \E x \in Logged : x <= start
         /\ local_rev \in 0 .. Len(logs)
         /\ \A i \in 0 .. local_rev - 1 : LogAt(i) < start
    /\ phase \in {"range", "init", "prepare"} => base = -1 /\ ~dry

\* The loop of a dump that fetches its logs one by one.
FromStart ==
    /\ StartOK /\ ~dry
    /\ opt.sub => logs # <<>> /\ logs[1] = 0
    /\ phase = "fetch" =>
         IF base = -1 THEN logs = Placeholder ELSE LogAt(Len(logs) - 1) = base
    /\ phase \in {"write", "diff", "commit"} =>
         /\ list_idx = Len(logs) - 1 /\ list_idx >= FirstIdx
         /\ EmptyRange => Current = end /\ Len(logs) = FirstIdx + 1
         /\ ~EmptyRange => Current \in Stream
    /\ phase \in {"write", "diff"} /\ base = -1 /\ ~EmptyRange => \A x \in Stream : Current <= x
    /\ base = -1 => phase \in {"fetch", "write", "diff"}
    /\ EmptyRange => phase # "fetch" \/ base = -1

\* The loop of an incremental dump, whose first round is the dry run.
FromMiddle ==
    /\ Listed /\ start \in Logged /\ start <= end
    /\ ~FromCreation => start < opt.start /\ \A x \in Logged : x < opt.start => x <= start
    /\ phase = "fetch" =>
         /\ list_idx + 1 \in FirstIdx .. Len(logs) - 1
         /\ IF base = -1 THEN LogAt(list_idx + 1) = start
            ELSE list_idx \in FirstIdx .. Len(logs) - 1 /\ Current = base
    /\ phase \in {"write", "diff", "commit"} => list_idx \in FirstIdx .. Len(logs) - 1
    /\ phase \in {"write", "diff"} /\ base = -1 => Current = start
    /\ phase # "commit" => (dry <=> base = -1)

\* In either loop, the revision in work is the next log after the base.
InLoop ==
    phase \in Loop =>
        /\ EndOK
        /\ IF start_mid THEN FromMiddle ELSE FromStart
        /\ phase = "commit" => base = Current
        /\ phase \in {"write", "diff", "commit"} => Current \in Logged /\ Current <= end
        /\ phase # "commit" =>
             IF base = -1 THEN global_rev = start
             ELSE /\ base \in Logged /\ base >= start /\ start # -1
                  /\ global_rev = base + 1 /\ base < end
        /\ phase = "commit" => start <= base \/ base = end
        /\ phase = "commit" /\ start = -1 => base = end
        /\ phase \in {"write", "diff"} /\ base # -1 =>
             base < Current /\ \A x \in Logged : ~(base < x /\ x < Current)
        /\ local_rev \in Nat

Control == RequestOK /\ TypeOK /\ BeforeLoop /\ InLoop /\ (phase = "done" => EndOK)

-----------------------------------------------------------------------------
LEMMA EmptyRangeDef ==
    EmptyRange <=> /\ opt.sub /\ ~opt.incremental /\ RangeStart > 0
                  /\ touched \cap (RangeStart .. RangeEnd) = {}
BY DEF EmptyRange, Kinds, SpecialKinds, RangeStart, RangeEnd

LEMMA FromCreationDef ==
    FromCreation <=> /\ opt.sub /\ opt.incremental /\ opt.start \in touched
                /\ \A r \in touched : r >= opt.start
BY DEF FromCreation, Kinds, SpecialKinds

LEMMA RequestFacts ==
    ASSUME RequestOK
    PROVE  /\ Youngest \in Nat \ {0}
           /\ Logged \in SUBSET Nat /\ Logged \subseteq Rev /\ Logged # {}
           /\ opt.sub => Logged = touched /\ 0 \notin Logged
           /\ ~opt.sub => Logged = Rev
           /\ RangeStart \in Rev /\ RangeEnd \in Rev /\ RangeStart <= RangeEnd
           /\ Stream \in SUBSET Nat /\ Stream \subseteq Logged
           /\ opt.incremental => Stream = Logged
<1>1. Youngest \in Nat \ {0}
  <2>1. PICK x \in touched : x \in 1 .. Youngest
    BY DEF RequestOK
  <2> QED BY <2>1, YoungestAssumption
<1>2. /\ Logged \in SUBSET Nat /\ Logged \subseteq Rev /\ Logged # {}
      /\ opt.sub => Logged = touched /\ 0 \notin Logged
      /\ ~opt.sub => Logged = Rev
  BY <1>1 DEF RequestOK, Logged, Rev
<1>3. RangeStart \in Rev /\ RangeEnd \in Rev /\ RangeStart <= RangeEnd
  BY <1>1 DEF RequestOK, RangeStart, RangeEnd, Rev
<1> QED BY <1>1, <1>2, <1>3 DEF Stream

\* What only depends on the request stays as it is.
LEMMA Constant ==
    ASSUME RequestOK, UNCHANGED request
    PROVE  /\ RequestOK'
           /\ Logged' = Logged /\ Stream' = Stream /\ InRange' = InRange
           /\ RangeStart' = RangeStart /\ RangeEnd' = RangeEnd
           /\ FirstIdx' = FirstIdx /\ Placeholder' = Placeholder
           /\ start_mid' <=> start_mid
           /\ EmptyRange' <=> EmptyRange
           /\ FromCreation' <=> FromCreation
           /\ opt' = opt /\ touched' = touched
           /\ \A r \in Int : Number(r)' = Number(r)
<1>1. opt' = opt /\ touched' = touched
  BY DEF request
<1>2. RangeStart' = RangeStart /\ RangeEnd' = RangeEnd /\ Logged' = Logged
  BY <1>1 DEF RangeStart, RangeEnd, Logged
<1>3. Stream' = Stream /\ InRange' = InRange
  BY <1>1, <1>2 DEF Stream, InRange
<1>4. Kinds(opt, touched)' = Kinds(opt, touched)
  BY <1>1 DEF Kinds
<1>5. RequestOK' /\ (EmptyRange' <=> EmptyRange) /\ (FromCreation' <=> FromCreation)
  BY <1>1, <1>4 DEF RequestOK, EmptyRange, FromCreation
<1>6. \A r \in Int : Number(r)' = Number(r)
  BY <1>1, <1>3 DEF Number
<1> QED BY <1>1, <1>2, <1>3, <1>5, <1>6 DEF FirstIdx, Placeholder, start_mid

\* The list that log_fetch_all() makes.
LEMMA AllLogs ==
    ASSUME RequestOK, NEW e \in Logged
    PROVE  LET l == Placeholder \o log_fetch_all(e)
           IN  /\ l \in Seq(Rev) /\ l # <<>> /\ l[1] = 0
               /\ \A i \in FirstIdx .. Len(l) - 1 :
                     l[i + 1] \in Logged /\ l[i + 1] <= e /\ Rank(Logged, l[i + 1]) = i
               /\ \A x \in Logged : x <= e => \E i \in FirstIdx .. Len(l) - 1 : x = l[i + 1]
<1> DEFINE S == Logged \cap (0 .. e)
           s == log_fetch_all(e)
           n == Cardinality(S)
           l == Placeholder \o s
<1>1. /\ Logged \in SUBSET Nat /\ Logged \subseteq Rev /\ e \in Nat
      /\ opt.sub => 0 \notin Logged
      /\ ~opt.sub => Logged = Rev
  BY RequestFacts
<1>2. S \in SUBSET Nat /\ IsFiniteSet(S) /\ e \in S
  <2>1. S \in SUBSET Nat /\ (\A x \in S : x <= e) /\ e \in S
    BY <1>1
  <2> QED BY <1>1, <2>1, FS_BoundedSetOfNaturals
<1>3. /\ s \in Seq(S) /\ Len(s) = n /\ n \in Nat
      /\ \A i \in 1 .. n : s[i] \in S /\ Cardinality(Upto(S, s[i])) = i
      /\ \A r \in S : \E i \in 1 .. n : s[i] = r
  BY <1>2, SortedFacts DEF log_fetch_all
<1> HIDE DEF s, n
<1>4. \A r \in S : Upto(Logged, r) = Upto(S, r)
  <2> TAKE r \in S
  <2>1. ASSUME NEW x PROVE x \in Upto(Logged, r) <=> x \in Upto(S, r)
    <3>1. r \in Nat /\ r <= e
      BY <1>1
    <3>2. x \in Logged => x \in Nat
      BY <1>1
    <3> QED BY <1>1, <3>1, <3>2 DEF Upto
  <2> QED BY <2>1
<1>5. Len(Placeholder) = FirstIdx /\ Placeholder \in Seq(Rev) /\ FirstIdx \in {0, 1}
  <2>1. 0 \in Rev
    BY YoungestAssumption DEF Rev
  <2> QED BY <2>1 DEF Placeholder, FirstIdx
<1>6. s \in Seq(Rev)
  <2>1. S \subseteq Rev
    BY <1>1
  <2> HIDE DEF S
  <2> QED BY <1>3, <2>1
<1>7. l \in Seq(Rev) /\ Len(l) = FirstIdx + n
  BY <1>3, <1>5, <1>6
<1>8. \A i \in 1 .. n : l[FirstIdx + i] = s[i]
  <2> TAKE i \in 1 .. n
  <2>1. FirstIdx + i \in 1 .. Len(Placeholder) + Len(s)
    BY <1>3, <1>5
  <2>2. l[FirstIdx + i] = IF FirstIdx + i <= Len(Placeholder) THEN Placeholder[FirstIdx + i]
                          ELSE s[FirstIdx + i - Len(Placeholder)]
    BY <1>5, <1>6, <2>1, ConcatProperties
  <2>3. FirstIdx + i - Len(Placeholder) = i /\ ~(FirstIdx + i <= Len(Placeholder))
    BY <1>3, <1>5
  <2> QED BY <2>2, <2>3
<1>9. n > 0
  BY <1>2, <1>3
<1>10. ASSUME NEW i \in FirstIdx .. Len(l) - 1
       PROVE  l[i + 1] \in Logged /\ l[i + 1] <= e /\ Rank(Logged, l[i + 1]) = i
  <2> DEFINE j == i + 1 - FirstIdx
  <2>1. j \in 1 .. n /\ FirstIdx + j = i + 1
    BY <1>3, <1>5, <1>7
  <2>2. l[i + 1] = s[j]
    BY <1>8, <2>1
  <2>3. s[j] \in S /\ Cardinality(Upto(Logged, s[j])) = j
    BY <1>3, <1>4, <2>1
  <2>4. (IF 0 \in Logged THEN 1 ELSE 0) = 1 - FirstIdx
    <3>1. 0 \in Rev
      BY YoungestAssumption DEF Rev
    <3> QED BY <1>1, <3>1 DEF FirstIdx
  <2>5. Rank(Logged, s[j]) = i
    BY <1>5, <1>7, <1>3, <2>3, <2>4 DEF Rank
  <2> HIDE DEF j, l
  <2> QED BY <2>2, <2>3, <2>5
<1>11. ASSUME NEW x \in Logged, x <= e
       PROVE  \E i \in FirstIdx .. Len(l) - 1 : x = l[i + 1]
  <2>1. x \in S
    BY <1>1, <1>11
  <2>2. PICK j \in 1 .. n : s[j] = x
    BY <1>3, <2>1
  <2>3. FirstIdx + j - 1 \in FirstIdx .. Len(l) - 1
    BY <1>3, <1>5, <1>7
  <2>4. l[FirstIdx + j - 1 + 1] = x
    <3>1. FirstIdx + j - 1 + 1 = FirstIdx + j
      BY <1>5
    <3> QED BY <1>8, <2>2, <3>1
  <2> QED BY <2>3, <2>4
<1>12. l[1] = 0
  <2>1. CASE opt.sub
    BY <1>6, <2>1 DEF Placeholder
  <2>2. CASE ~opt.sub
    <3>1. 0 \in Logged /\ 0 <= e
      BY <1>1, <2>2, YoungestAssumption DEF Rev
    <3>2. FirstIdx = 0
      BY <2>2 DEF FirstIdx
    <3>3. 0 \in 0 .. Len(l) - 1
      BY <1>3, <1>7, <1>9, <3>2
    <3>4. l[1] \in Logged /\ Rank(Logged, l[1]) = 0
      <4>1. l[0 + 1] \in Logged /\ Rank(Logged, l[0 + 1]) = 0
        BY <1>10, <3>2, <3>3
      <4>2. 0 + 1 = 1
        OBVIOUS
      <4> QED BY <4>1, <4>2
    <3>5. Rank(Logged, 0) = 0
      BY <1>1, <3>1, RankFirst
    <3> DEFINE z == l[1]
    <3> HIDE DEF z
    <3>6. z \in Logged /\ Rank(Logged, z) = 0
      BY <3>4 DEF z
    <3>7. z = 0
      BY <1>1, <3>1, <3>5, <3>6, RankMono
    <3> QED BY <3>7 DEF z
  <2> QED BY <2>1, <2>2
<1>13. l # <<>>
  BY <1>3, <1>5, <1>7, <1>9
<1> HIDE DEF l
<1>14. /\ l \in Seq(Rev) /\ l # <<>> /\ l[1] = 0
       /\ \A i \in FirstIdx .. Len(l) - 1 :
             l[i + 1] \in Logged /\ l[i + 1] <= e /\ Rank(Logged, l[i + 1]) = i
       /\ \A x \in Logged : x <= e => \E i \in FirstIdx .. Len(l) - 1 : x = l[i + 1]
  BY <1>7, <1>10, <1>11, <1>12, <1>13
<1> QED BY <1>14 DEF l, s

\* The log that log_fetch_single() finds.
LEMMA SingleLog ==
    ASSUME RequestOK, EndOK, NEW g \in Int, g >= -1,
           NEW a, a = IF g = -1 THEN Youngest ELSE g, a <= RangeEnd \/ a <= end
    PROVE  LET r == log_fetch_single(g, end)
           IN  /\ r \in Logged /\ r <= end
               /\ a <= end => a <= r /\ \A x \in Logged : a <= x => r <= x
               /\ a > end => r = end
<1> DEFINE r == log_fetch_single(g, end)
<1>1. Logged \in SUBSET Nat /\ end \in Nat /\ a \in Nat /\ RangeEnd \in Nat
  BY RequestFacts DEF EndOK, Rev
<1>2. CASE a <= end
  <2>1. r = Min(Logged \cap (a .. end))
    BY <1>2 DEF log_fetch_single
  <2>2. Logged \cap (a .. end) \in SUBSET Nat /\ Logged \cap (a .. end) # {}
    BY <1>1, <1>2 DEF EndOK
  <2>3. r \in Logged \cap (a .. end) /\ \A y \in Logged \cap (a .. end) : r <= y
    BY <2>1, <2>2, MinFacts
  <2> HIDE DEF r
  <2>4. \A x \in Logged : a <= x => r <= x
    <3> SUFFICES ASSUME NEW x \in Logged, a <= x PROVE r <= x
      OBVIOUS
    <3>1. x \in Nat /\ r \in Nat /\ r <= end
      BY <1>1, <2>3
    <3>2. CASE x <= end
      BY <1>1, <2>3, <3>1, <3>2
    <3>3. CASE x > end
      BY <1>1, <3>1, <3>3
    <3> QED BY <1>1, <3>1, <3>2, <3>3
  <2>5. r \in Logged /\ r <= end /\ a <= r
    BY <1>1, <2>3
  <2>6. ~(a > end)
    BY <1>1, <1>2
  <2> QED BY <2>4, <2>5, <2>6 DEF r
<1>3. CASE a > end
  <2>1. r = Max(Logged \cap (end .. a))
    BY <1>1, <1>3 DEF log_fetch_single
  <2>2. end \in Logged \cap (end .. a) /\ Logged \cap (end .. a) \in SUBSET Int
        /\ \A x \in Logged \cap (end .. a) : x <= a
    BY <1>1, <1>3 DEF EndOK
  <2>3. r \in Logged \cap (end .. a)
    <3> DEFINE T == Logged \cap (end .. a)
    <3>1. T \in SUBSET Int /\ a \in Int /\ (\A x \in T : x <= a) /\ T # {}
      BY <1>1, <2>2
    <3> HIDE DEF T
    <3>2. Max(T) \in T
      BY <3>1, MaxFacts
    <3> QED BY <2>1, <3>2 DEF T
  <2> HIDE DEF r
  <2>4. r <= RangeEnd /\ r >= end /\ r \in Nat
    BY <1>1, <1>3, <2>3
  <2>5. r = end
    BY <1>1, <2>3, <2>4 DEF EndOK
  <2>6. r \in Logged /\ r <= end /\ ~(a <= end)
    BY <1>1, <1>3, <2>3, <2>5
  <2> QED BY <2>5, <2>6 DEF r
<1> QED BY <1>1, <1>2, <1>3
-----------------------------------------------------------------------------
LEMMA ControlInit == Init => Control
<1> SUFFICES ASSUME Init PROVE Control
  OBVIOUS
<1>1. PICK range \in parse_revnum :
        opt \in [sub : BOOLEAN, keep : BOOLEAN, incremental : BOOLEAN,
                 given : {range.given}, start : {range.start}, end : {range.end}]
  BY DEF Init
<1>2. /\ range.start \in -1 .. Youngest /\ range.end \in -1 .. Youngest
      /\ range.end = -1 \/ range.start <= range.end
      /\ range.start = -1 => range.end = -1
      /\ range.given = "single" => range.end >= 1 /\ range.start = range.end - 1
      /\ range.given = "stop" => range.start = 0 /\ range.end \in 0 .. Youngest - 1
  BY DEF parse_revnum
<1>3. /\ opt.sub \in BOOLEAN /\ opt.keep \in BOOLEAN /\ opt.incremental \in BOOLEAN
      /\ opt.start = range.start /\ opt.end = range.end /\ opt.given = range.given
  BY <1>1
<1>4. /\ touched \subseteq 1 .. Youngest /\ touched # {}
      /\ ~(opt.incremental /\ opt.start = -1)
      /\ ~opt.sub => touched = 1 .. Youngest
      /\ Kinds(opt, touched) \subseteq Allowed
  <2>1. touched \in (SUBSET (1 .. Youngest)) \ {{}}
    BY DEF Init
  <2>2. touched \subseteq 1 .. Youngest /\ touched # {}
    BY <2>1
  <2> QED BY <2>2 DEF Init
<1>5. RequestOK
  BY <1>2, <1>3, <1>4 DEF RequestOK
<1>6. /\ phase = "range" /\ start = opt.start /\ end = opt.end /\ logs = Placeholder
      /\ list_idx = 0 /\ local_rev = -1 /\ global_rev = -1 /\ dry = FALSE
      /\ out = <<>> /\ pr_head = -1 /\ base = -1
  BY DEF Init, Placeholder
<1>7. Placeholder \in Seq(Rev)
  <2>1. 0 \in Rev
    BY YoungestAssumption DEF Rev
  <2> QED BY <2>1 DEF Placeholder
<1>8. TypeOK
  <2>1. /\ touched \subseteq 1 .. Youngest
        /\ start \in -1 .. Youngest /\ end \in -1 .. Youngest
    BY <1>2, <1>3, <1>4, <1>6
  <2>2. logs \in Seq(Rev) /\ DOMAIN out = {}
    BY <1>6, <1>7
  <2>3. list_idx \in Int /\ local_rev \in Int /\ global_rev \in Int /\ pr_head \in Int
    BY <1>6
  <2> QED BY <1>6, <2>1, <2>2, <2>3 DEF TypeOK
<1>9. BeforeLoop /\ InLoop
  BY <1>6 DEF BeforeLoop, InLoop, Loop
<1> QED BY <1>5, <1>6, <1>8, <1>9 DEF Control

LEMMA DetermineRangeControl == Control /\ DetermineRange => Control'
<1> SUFFICES ASSUME Control, DetermineRange PROVE Control'
  OBVIOUS
<1> DEFINE last == dump_determine_end(RangeEnd)
<1>1. /\ phase = "range" /\ start = opt.start /\ end = opt.end /\ logs = Placeholder
      /\ base = -1 /\ ~dry
      /\ UNCHANGED <<request, list_idx, global_rev, dry, out, pr_head, base>>
      /\ RequestOK /\ TypeOK
  BY DEF DetermineRange, Control, BeforeLoop
<1>2. RangeEnd = IF end = -1 THEN Youngest ELSE end
  BY <1>1 DEF RangeEnd
<1>3. \/ /\ Found(RangeEnd) /\ dump_check_path(start)
         /\ start' = IF start = 0 /\ opt.sub THEN log_get_range(last) ELSE start
         /\ end' = last
         /\ logs' = IF start_mid THEN logs \o log_fetch_all(last) ELSE logs
         /\ local_rev' = IF start_mid THEN 0 ELSE local_rev
         /\ phase' = IF start_mid THEN "prepare" ELSE "init"
      \/ phase' = "failed" /\ UNCHANGED <<start, end, logs, local_rev>>
  BY <1>2 DEF DetermineRange
<1>4. /\ RequestOK' /\ Logged' = Logged /\ RangeEnd' = RangeEnd
      /\ FirstIdx' = FirstIdx /\ Placeholder' = Placeholder
      /\ (start_mid' <=> start_mid) /\ opt' = opt /\ touched' = touched
  BY <1>1, Constant
<1>5. CASE phase' = "failed" /\ UNCHANGED <<start, end, logs, local_rev>>
  <2>1. TypeOK'
    BY <1>1, <1>5 DEF TypeOK, request
  <2> QED BY <1>4, <1>5, <2>1 DEF Control, BeforeLoop, InLoop, Loop
<1>6. CASE /\ Found(RangeEnd) /\ dump_check_path(start)
           /\ start' = IF start = 0 /\ opt.sub THEN log_get_range(last) ELSE start
           /\ end' = last
           /\ logs' = IF start_mid THEN logs \o log_fetch_all(last) ELSE logs
           /\ local_rev' = IF start_mid THEN 0 ELSE local_rev
           /\ phase' = IF start_mid THEN "prepare" ELSE "init"
  <2>1. Logged \in SUBSET Nat /\ Logged \subseteq Rev /\ RangeEnd \in Nat
    BY <1>1, RequestFacts DEF Rev
  <2>2. /\ last \in Logged /\ last <= RangeEnd
        /\ \A x \in Logged : x <= RangeEnd => x <= last
    <3> DEFINE T == Logged \cap (0 .. RangeEnd)
    <3>1. T \in SUBSET Int /\ RangeEnd \in Int /\ (\A x \in T : x <= RangeEnd) /\ T # {}
      BY <1>6, <2>1 DEF Found
    <3>2. last = Max(T)
      BY DEF dump_determine_end
    <3>3. Max(T) \in T /\ \A y \in T : y <= Max(T)
      <4> HIDE DEF T
      <4> QED BY <3>1, MaxFacts
    <3> QED BY <2>1, <3>2, <3>3
  <2> HIDE DEF last
  <2>3. EndOK'
    BY <1>4, <1>6, <2>2 DEF EndOK
  <2>4. end' \in Logged /\ end' \in Nat
    BY <1>6, <2>1, <2>2
  <2>5. CASE start_mid
    <3>1. /\ start' = start /\ opt.start # 0 /\ opt.start # -1 /\ opt.incremental
          /\ logs' = Placeholder \o log_fetch_all(last)
          /\ local_rev' = 0 /\ phase' = "prepare"
      BY <1>1, <1>6, <2>5 DEF start_mid, RequestOK
    <3>2. /\ logs' \in Seq(Rev) /\ logs' # <<>> /\ logs'[1] = 0
          /\ \A i \in FirstIdx .. Len(logs') - 1 :
                /\ logs'[i + 1] \in Logged /\ logs'[i + 1] <= last
                /\ Rank(Logged, logs'[i + 1]) = i
          /\ \A x \in Logged : x <= last =>
                \E i \in FirstIdx .. Len(logs') - 1 : x = logs'[i + 1]
      BY <1>1, <2>2, <3>1, AllLogs
    <3>3. Listed'
      BY <1>4, <1>6, <3>2 DEF Listed, LogAt
    <3>4. \E x \in Logged : x <= start
      <4>1. start > 0
        BY <1>1, <3>1 DEF RequestOK
      <4>2. ~(start <= 0)
        BY <1>1, <4>1 DEF TypeOK
      <4> QED BY <1>6, <4>2 DEF dump_check_path
    <3>5. local_rev' \in 0 .. Len(logs')
      BY <3>1, <3>2
    <3>6. TypeOK'
      BY <1>1, <1>4, <2>1, <2>4, <3>1, <3>2 DEF TypeOK, request, Rev
    <3>7. BeforeLoop'
      BY <1>1, <1>4, <2>3, <2>5, <3>1, <3>3, <3>4, <3>5 DEF BeforeLoop
    <3> QED BY <1>4, <3>1, <3>6, <3>7 DEF Control, InLoop, Loop
  <2>6. CASE ~start_mid
    <3>1. logs' = Placeholder /\ phase' = "init" /\ local_rev' = local_rev
      BY <1>1, <1>6, <2>6
    <3>2. StartOK' /\ start' \in -1 .. Youngest
      <4>1. CASE start = 0 /\ opt.sub
        <5> DEFINE T == Logged \cap (0 .. last)
        <5>1. start' = Min(T)
          BY <1>6, <2>1, <2>2, <4>1 DEF log_get_range, log_fetch_single
        <5>2. T \in SUBSET Nat /\ T # {}
          BY <2>1, <2>2
        <5>3. Min(T) \in T /\ \A y \in T : Min(T) <= y
          <6> HIDE DEF T
          <6> QED BY <5>2, MinFacts
        <5>4. start' \in Logged /\ start' <= last
          BY <2>1, <5>1, <5>3
        <5>5. \A x \in Logged : start' <= x
          BY <2>1, <2>2, <5>1, <5>3, <5>4
        <5> QED BY <1>1, <1>4, <2>1, <4>1, <5>4, <5>5 DEF StartOK, Rev
      <4>2. CASE ~(start = 0 /\ opt.sub)
        BY <1>1, <1>4, <1>6, <4>2 DEF StartOK, RequestOK
      <4> QED BY <4>1, <4>2
    <3>3. TypeOK'
      BY <1>1, <1>4, <2>1, <2>4, <3>1, <3>2 DEF TypeOK, request, Rev
    <3>4. BeforeLoop'
      BY <1>1, <1>4, <2>3, <2>6, <3>1, <3>2 DEF BeforeLoop
    <3> QED BY <1>4, <3>1, <3>3, <3>4 DEF Control, InLoop, Loop
  <2> QED BY <2>5, <2>6
<1> QED BY <1>3, <1>5, <1>6

LEMMA PrepareLogControl == Control /\ PrepareLog => Control'
<1> SUFFICES ASSUME Control, PrepareLog PROVE Control'
  OBVIOUS
<1>1. /\ phase = "prepare" /\ phase' = "prepare" /\ MorePrepare
      /\ local_rev' = local_rev + 1
      /\ pr_head' = IF opt.keep THEN LogAt(local_rev) ELSE local_rev
      /\ UNCHANGED <<request, start, end, logs, list_idx, global_rev, dry, out, base>>
      /\ RequestOK /\ TypeOK
  BY DEF PrepareLog, Control
<1>2. /\ start_mid /\ EndOK /\ Listed /\ start = opt.start
      /\ \E x \in Logged : x <= start
      /\ local_rev \in 0 .. Len(logs)
      /\ \A i \in 0 .. local_rev - 1 : LogAt(i) < start
      /\ base = -1 /\ ~dry
  BY <1>1 DEF Control, BeforeLoop
<1>3. /\ RequestOK' /\ Logged' = Logged /\ RangeEnd' = RangeEnd
      /\ FirstIdx' = FirstIdx
      /\ (start_mid' <=> start_mid) /\ opt' = opt /\ touched' = touched
  BY <1>1, Constant
<1>4. local_rev < Len(logs) /\ LogAt(local_rev) < start /\ Len(logs) \in Nat
  BY <1>1 DEF MorePrepare, TypeOK
<1>5. EndOK' /\ Listed'
  BY <1>1, <1>2, <1>3 DEF EndOK, Listed, LogAt
<1>6. local_rev' \in 0 .. Len(logs') /\ \A i \in 0 .. local_rev' - 1 : LogAt(i)' < start'
  BY <1>1, <1>2, <1>4 DEF LogAt
<1>7. pr_head' \in Int
  <2>1. local_rev + 1 \in 1 .. Len(logs) /\ local_rev \in Int
    BY <1>2, <1>4
  <2>2. LogAt(local_rev) \in Rev
    BY <1>1, <2>1 DEF TypeOK, LogAt
  <2> QED BY <1>1, <2>1, <2>2 DEF Rev
<1>8. TypeOK'
  BY <1>1, <1>2, <1>7 DEF TypeOK, request
<1>9. BeforeLoop'
  BY <1>1, <1>2, <1>3, <1>5, <1>6 DEF BeforeLoop
<1> QED BY <1>1, <1>3, <1>8, <1>9 DEF Control, InLoop, Loop

\* Order, index and rank agree in the list of all logs.
LEMMA ListedOrder ==
    ASSUME RequestOK, Listed, EndOK,
           NEW i \in FirstIdx .. Len(logs) - 1, NEW j \in FirstIdx .. Len(logs) - 1
    PROVE  /\ i < j <=> LogAt(i) < LogAt(j)
           /\ i = j <=> LogAt(i) = LogAt(j)
<1>1. Logged \in SUBSET Nat
  BY RequestFacts
<1>2. LogAt(i) \in Logged /\ Rank(Logged, LogAt(i)) = i
  BY DEF Listed
<1>3. LogAt(j) \in Logged /\ Rank(Logged, LogAt(j)) = j
  BY DEF Listed
<1> DEFINE x == LogAt(i)
           y == LogAt(j)
<1>4. x \in Logged /\ Rank(Logged, x) = i /\ y \in Logged /\ Rank(Logged, y) = j
  BY <1>2, <1>3
<1> HIDE DEF x, y
<1>5. /\ x < y <=> Rank(Logged, x) < Rank(Logged, y)
      /\ x = y <=> Rank(Logged, x) = Rank(Logged, y)
  BY <1>1, <1>4, RankMono
<1> QED BY <1>4, <1>5 DEF x, y

LEMMA ListedEnd ==
    ASSUME RequestOK, TypeOK, Listed, EndOK
    PROVE  /\ Len(logs) - 1 \in FirstIdx .. Len(logs) - 1
           /\ LogAt(Len(logs) - 1) = end
           /\ FirstIdx \in {0, 1} /\ Len(logs) \in Nat
<1>1. FirstIdx \in {0, 1} /\ Len(logs) \in Nat
  BY DEF TypeOK, FirstIdx
<1>2. end \in Logged /\ end \in Nat /\ Logged \in SUBSET Nat
  BY RequestFacts DEF EndOK
<1>3. PICK i \in FirstIdx .. Len(logs) - 1 : end = LogAt(i)
  BY <1>2 DEF Listed
<1> DEFINE k == Len(logs) - 1
<1>4. k \in FirstIdx .. Len(logs) - 1 /\ i <= k
  BY <1>1, <1>3
<1> HIDE DEF k
<1>5. LogAt(k) \in Nat /\ LogAt(k) <= end
  BY <1>2, <1>4 DEF Listed
<1>6. ~(i < k)
  BY <1>2, <1>3, <1>4, <1>5, ListedOrder
<1>7. i = k
  BY <1>1, <1>3, <1>4, <1>6 DEF k
<1> QED BY <1>1, <1>3, <1>4, <1>7 DEF k

\* Where the preparation ends: at the last log before the range, or, if there is
\* none, at the first log of a sub-directory.
LEMMA DryRun ==
    ASSUME Control, phase = "prepare", ~MorePrepare,
           NEW lr, lr = IF local_rev > 1 \/ ~opt.sub THEN local_rev - 1 ELSE local_rev
    PROVE  /\ lr \in FirstIdx .. Len(logs) - 1
           /\ ~FromCreation => /\ lr = local_rev - 1
                          /\ LogAt(lr) < start
                          /\ \A x \in Logged : x < start => x <= LogAt(lr)
<1>1. /\ RequestOK /\ TypeOK /\ start_mid /\ EndOK /\ Listed /\ start = opt.start
      /\ \E x \in Logged : x <= start
      /\ local_rev \in 0 .. Len(logs)
      /\ \A i \in 0 .. local_rev - 1 : LogAt(i) < start
  BY DEF Control, BeforeLoop
<1>2. /\ Len(logs) - 1 \in FirstIdx .. Len(logs) - 1
      /\ FirstIdx \in {0, 1} /\ Len(logs) \in Nat
  BY <1>1, ListedEnd
<1>3. /\ opt.start \in 1 .. Youngest /\ opt.incremental /\ Logged \in SUBSET Nat
      /\ Youngest \in Nat
  BY <1>1, RequestFacts DEF RequestOK, start_mid
<1>4. local_rev >= 1
  <2>1. LogAt(0) = 0 /\ 0 < Len(logs)
    BY <1>1, <1>2 DEF Listed, LogAt
  <2> QED BY <1>1, <1>2, <1>3, <2>1 DEF MorePrepare
<1>5. lr \in FirstIdx .. Len(logs) - 1
  BY <1>1, <1>2, <1>4 DEF FirstIdx
<1>6. local_rev \in 0 .. Len(logs) - 1 => LogAt(local_rev) >= start
  <2>1. local_rev \in 0 .. Len(logs) - 1 => LogAt(local_rev) \in Rev
    <3>1. local_rev \in 0 .. Len(logs) - 1 => local_rev + 1 \in 1 .. Len(logs)
      BY <1>2
    <3> QED BY <1>1, <3>1 DEF TypeOK, LogAt
  <2> QED BY <1>1, <1>2, <1>3, <2>1 DEF MorePrepare, Rev
<1>7. ASSUME NEW x \in Logged, x < start
      PROVE  \E i \in FirstIdx .. Len(logs) - 1 : x = LogAt(i) /\ i < local_rev
  <2>1. x <= end
    <3>1. x \in Nat /\ RangeEnd \in Nat /\ RangeStart = start /\ RangeStart <= RangeEnd
      BY <1>1, <1>3, RequestFacts DEF RangeStart, Rev
    <3> QED BY <1>1, <1>3, <1>7, <3>1 DEF EndOK
  <2>2. PICK i \in FirstIdx .. Len(logs) - 1 : x = LogAt(i)
    BY <1>1, <2>1 DEF Listed
  <2>3. CASE i < local_rev
    BY <2>2, <2>3
  <2>4. CASE ~(i < local_rev)
    <3>1. local_rev \in FirstIdx .. Len(logs) - 1 /\ local_rev <= i
          /\ local_rev \in 0 .. Len(logs) - 1
      BY <1>1, <1>2, <1>4, <2>4
    <3>2. LogAt(local_rev) \in Nat /\ LogAt(local_rev) >= start
      BY <1>1, <1>3, <1>6, <3>1 DEF Listed
    <3>3. LogAt(local_rev) < LogAt(i) \/ LogAt(local_rev) = LogAt(i)
      BY <1>1, <1>2, <3>1, ListedOrder
    <3>4. x \in Nat /\ start \in Nat
      BY <1>1, <1>3
    <3> QED BY <1>7, <2>2, <3>2, <3>3, <3>4
  <2> QED BY <2>3, <2>4
<1>8. ASSUME ~FromCreation
      PROVE  /\ lr = local_rev - 1 /\ LogAt(lr) < start
             /\ \A x \in Logged : x < start => x <= LogAt(lr)
  <2>1. lr = local_rev - 1
    <3> SUFFICES ASSUME opt.sub, ~(local_rev > 1) PROVE FALSE
      OBVIOUS
    <3>1. local_rev = 1 /\ FirstIdx = 1
      BY <1>1, <1>4 DEF FirstIdx
    <3>2. \A x \in Logged : ~(x < start)
      BY <1>7, <3>1
    <3>3. Logged = touched
      BY <1>1, RequestFacts
    <3>4. \A x \in touched : x \in Nat /\ x >= opt.start
      <4> TAKE x \in touched
      <4>1. x \in Nat /\ ~(x < start) /\ start \in Nat
        BY <1>1, <1>3, <3>2, <3>3
      <4> QED BY <1>1, <4>1
    <3>5. opt.start \in touched
      BY <1>1, <1>3, <3>3, <3>4
    <3> QED BY <1>3, <1>8, <3>4, <3>5, FromCreationDef
  <2>2. lr \in 0 .. local_rev - 1
    BY <1>1, <1>4, <2>1
  <2>3. LogAt(lr) < start
    BY <1>1, <2>2
  <2>4. ASSUME NEW x \in Logged, x < start PROVE x <= LogAt(lr)
    <3>1. PICK i \in FirstIdx .. Len(logs) - 1 : x = LogAt(i) /\ i < local_rev
      BY <1>7, <2>4
    <3>2. i < lr \/ i = lr
      BY <1>1, <1>2, <2>1, <3>1
    <3>3. LogAt(i) < LogAt(lr) \/ LogAt(i) = LogAt(lr)
      BY <1>1, <1>5, <3>2, ListedOrder
    <3>4. x \in Nat /\ LogAt(lr) \in Nat
      BY <1>1, <1>3, <1>5 DEF Listed
    <3> QED BY <3>1, <3>3, <3>4
  <2> QED BY <2>1, <2>3, <2>4
<1> QED BY <1>5, <1>8

LEMMA StartMidControl == Control /\ StartMid => Control'
<1> SUFFICES ASSUME Control, StartMid PROVE Control'
  OBVIOUS
<1> DEFINE lr == IF local_rev > 1 \/ ~opt.sub THEN local_rev - 1 ELSE local_rev
<1>1. /\ phase = "prepare" /\ ~MorePrepare /\ phase' = "fetch"
      /\ start' = LogAt(lr) /\ global_rev' = LogAt(lr) /\ list_idx' = lr - 1
      /\ local_rev' = IF opt.keep THEN LogAt(lr) ELSE lr
      /\ end' = LogAt(Len(logs) - 1) /\ dry' = TRUE
      /\ UNCHANGED <<request, logs, out, pr_head, base>>
      /\ RequestOK /\ TypeOK
  BY DEF StartMid, Control
<1>2. /\ start_mid /\ EndOK /\ Listed /\ start = opt.start
      /\ local_rev \in 0 .. Len(logs) /\ base = -1
  BY <1>1 DEF Control, BeforeLoop
<1>3. /\ RequestOK' /\ Logged' = Logged /\ RangeEnd' = RangeEnd
      /\ FirstIdx' = FirstIdx
      /\ (start_mid' <=> start_mid) /\ (FromCreation' <=> FromCreation)
      /\ opt' = opt /\ touched' = touched
  BY <1>1, Constant
<1>4. /\ lr \in FirstIdx .. Len(logs) - 1
      /\ ~FromCreation => LogAt(lr) < start /\ \A x \in Logged : x < start => x <= LogAt(lr)
  BY <1>1, DryRun
<1> HIDE DEF lr
<1>5. end' = end /\ FirstIdx \in {0, 1} /\ Len(logs) \in Nat
  BY <1>1, <1>2, ListedEnd
<1>6. LogAt(lr) \in Logged /\ LogAt(lr) <= end /\ Logged \subseteq Rev
  BY <1>1, <1>2, <1>4, RequestFacts DEF Listed
<1>7. EndOK' /\ Listed'
  BY <1>1, <1>2, <1>3, <1>5 DEF EndOK, Listed, LogAt
<1>8. LogAt(lr) \in 0 .. Youngest /\ Youngest \in Nat /\ lr \in Nat
  <2>1. lr \in Nat
    BY <1>4, <1>5
  <2> QED BY <1>6, <2>1, YoungestAssumption DEF Rev
<1>9. TypeOK'
  BY <1>1, <1>3, <1>5, <1>8 DEF TypeOK
<1>10. FromMiddle'
  <2>1. list_idx' + 1 = lr
    BY <1>1, <1>8
  <2>2. (list_idx' + 1 \in FirstIdx .. Len(logs) - 1) /\ LogAt(list_idx + 1)' = start'
    BY <1>1, <1>4, <2>1 DEF LogAt
  <2> QED BY <1>1, <1>2, <1>3, <1>4, <1>5, <1>6, <1>7, <2>2 DEF FromMiddle
<1>11. InLoop'
  BY <1>1, <1>2, <1>3, <1>7, <1>8, <1>10 DEF InLoop, Loop
<1>12. BeforeLoop'
  BY <1>1 DEF BeforeLoop
<1> QED BY <1>1, <1>3, <1>9, <1>11, <1>12 DEF Control

LEMMA StartBeginningControl ==
    Control /\ StartBeginning => Control' /\ start' = start
                                 /\ local_rev' = IF start = 0 THEN 0 ELSE 1
<1> SUFFICES ASSUME Control, StartBeginning
             PROVE  Control' /\ start' = start
                    /\ local_rev' = IF start = 0 THEN 0 ELSE 1
  OBVIOUS
<1>1. /\ phase = "init" /\ phase' = "fetch" /\ list_idx' = 0
      /\ UNCHANGED <<request, end, logs, dry, out, pr_head, base>>
      /\ RequestOK /\ TypeOK
  BY DEF StartBeginning, Control
<1>2. ~start_mid /\ EndOK /\ StartOK /\ logs = Placeholder /\ base = -1 /\ ~dry
  BY <1>1 DEF Control, BeforeLoop
<1>3. /\ RequestOK' /\ Logged' = Logged /\ RangeEnd' = RangeEnd
      /\ FirstIdx' = FirstIdx /\ Placeholder' = Placeholder
      /\ (start_mid' <=> start_mid) /\ (EmptyRange' <=> EmptyRange)
      /\ opt' = opt /\ touched' = touched
  BY <1>1, Constant
<1>4. ~(opt.sub /\ start = 0)
  <2>1. opt.sub => 0 \notin Logged
    BY <1>1, RequestFacts
  <2> QED BY <1>2, <2>1 DEF StartOK
<1>5. start' = start /\ global_rev' = start /\ local_rev' = IF start = 0 THEN 0 ELSE 1
  BY <1>4 DEF StartBeginning
<1>6. EndOK' /\ StartOK'
  BY <1>1, <1>2, <1>3, <1>5 DEF EndOK, StartOK
<1>7. TypeOK'
  BY <1>1, <1>2, <1>5 DEF TypeOK, request
<1>8. FromStart'
  <2>1. opt.sub => logs' # <<>> /\ logs'[1] = 0
    BY <1>1, <1>2 DEF Placeholder
  <2> QED BY <1>1, <1>2, <1>3, <1>5, <1>6, <2>1 DEF FromStart
<1>9. InLoop'
  BY <1>1, <1>2, <1>3, <1>5, <1>6, <1>8 DEF InLoop, Loop
<1>10. BeforeLoop'
  BY <1>1 DEF BeforeLoop
<1> QED BY <1>1, <1>3, <1>5, <1>7, <1>9, <1>10 DEF Control

\* The first log of a dump from the beginning is the first revision of the
\* stream; there is none only if the range has no change at all.
LEMMA FirstLog ==
    ASSUME RequestOK, EndOK, StartOK, ~start_mid,
           NEW r, r = log_fetch_single(start, end)
    PROVE  /\ r \in Logged /\ r <= end
           /\ EmptyRange => r = end
           /\ ~EmptyRange => r \in Stream /\ \A x \in Stream : r <= x
<1> DEFINE a == IF start = -1 THEN Youngest ELSE start
<1>1. /\ Youngest \in Nat \ {0}
      /\ Logged \in SUBSET Nat /\ Logged \subseteq Rev
      /\ opt.sub => Logged = touched /\ 0 \notin Logged
      /\ ~opt.sub => Logged = Rev
      /\ RangeStart \in Rev /\ RangeEnd \in Rev /\ RangeStart <= RangeEnd
  BY RequestFacts
<1>2. /\ end \in Logged /\ end \in Nat /\ end <= RangeEnd /\ RangeEnd \in Nat
      /\ RangeStart \in Nat /\ RangeEnd <= Youngest
  BY <1>1 DEF EndOK, Rev
<1>3. CASE opt.sub /\ opt.start = 0
  <2>1. start \in Logged /\ start \in Nat /\ a = start /\ \A x \in Logged : start <= x
    <3>1. start \in Logged /\ \A x \in Logged : start <= x
      BY <1>3 DEF StartOK
    <3>2. start \in Nat
      BY <1>1, <3>1
    <3> QED BY <3>1, <3>2
  <2>2. a <= end
    BY <1>2, <2>1
  <2>3. r \in Logged /\ r <= end /\ \A x \in Logged : a <= x => r <= x
    BY <2>1, <2>2, SingleLog
  <2>4. RangeStart = 0
    BY <1>3 DEF RangeStart
  <2>5. ~EmptyRange
    BY <2>4, EmptyRangeDef
  <2>6. r \in Stream /\ \A x \in Stream : r <= x
    BY <1>1, <2>1, <2>3, <2>4 DEF Stream
  <2> QED BY <2>3, <2>5, <2>6
<1>4. CASE ~(opt.sub /\ opt.start = 0)
  <2>1. start = opt.start /\ a = RangeStart /\ a \in Nat /\ start \in Int /\ start >= -1
    BY <1>1, <1>2, <1>4 DEF StartOK, RangeStart, RequestOK
  <2> HIDE DEF a
  <2>2. a <= RangeEnd /\ a = IF start = -1 THEN Youngest ELSE start
    BY <1>1, <2>1 DEF a
  <2>3. /\ r \in Logged /\ r <= end
        /\ a <= end => a <= r /\ \A x \in Logged : a <= x => r <= x
        /\ a > end => r = end
    BY <2>1, <2>2, SingleLog
  <2>4. r \in Nat
    BY <1>1, <2>3
  <2>5. CASE a <= end
    <3>1. r \in Stream /\ \A x \in Stream : r <= x
      <4>1. a <= r /\ \A x \in Logged : a <= x => r <= x
        BY <2>3, <2>5
      <4>2. \A x \in Logged : x \in Nat
        BY <1>1
      <4>3. \A x \in Stream : x \in Logged /\ (opt.incremental \/ x >= a)
        BY <2>1 DEF Stream
      <4>4. opt.incremental => \A x \in Logged : a <= x
        <5>1. opt.incremental => opt.start = 0
          BY DEF start_mid
        <5>2. opt.incremental => a = 0
          BY <2>1, <5>1 DEF RangeStart
        <5> QED BY <4>2, <5>2
      <4>5. r \in Stream
        BY <2>1, <2>3, <2>4, <4>1 DEF Stream
      <4>6. \A x \in Stream : a <= x
        BY <2>1, <4>2, <4>3, <4>4
      <4> QED BY <4>1, <4>3, <4>5, <4>6
    <3>2. ~EmptyRange
      <4> SUFFICES ASSUME EmptyRange PROVE FALSE
        OBVIOUS
      <4>1. opt.sub /\ touched \cap (RangeStart .. RangeEnd) = {}
        BY EmptyRangeDef
      <4>2. r \in touched /\ r \in RangeStart .. RangeEnd
        BY <1>1, <1>2, <2>1, <2>3, <2>4, <2>5, <4>1
      <4> QED BY <4>1, <4>2
    <3> QED BY <2>3, <3>1, <3>2
  <2>6. CASE a > end
    <3>1. r = end
      BY <2>3, <2>6
    <3>2. opt.sub
      <4> SUFFICES ASSUME ~opt.sub PROVE FALSE
        OBVIOUS
      <4>1. RangeEnd \in Logged
        BY <1>1
      <4>2. RangeEnd <= end
        BY <1>2, <4>1 DEF EndOK
      <4> QED BY <1>2, <2>1, <2>2, <2>6, <4>2
    <3>3. ~opt.incremental
      BY <1>4, <3>2 DEF start_mid
    <3>4. RangeStart > 0
      BY <1>2, <2>1, <2>6
    <3>5. touched \cap (RangeStart .. RangeEnd) = {}
      <4> SUFFICES ASSUME NEW x \in touched, x \in RangeStart .. RangeEnd PROVE FALSE
        OBVIOUS
      <4>1. x \in Logged /\ x \in Nat /\ RangeStart <= x /\ x <= RangeEnd
        BY <1>1, <1>2, <3>2
      <4>2. x <= end
        BY <4>1 DEF EndOK
      <4> QED BY <1>2, <2>1, <2>6, <4>1, <4>2
    <3>6. EmptyRange
      BY <3>2, <3>3, <3>4, <3>5, EmptyRangeDef
    <3> QED BY <2>3, <3>1, <3>6
  <2> QED BY <1>2, <2>1, <2>5, <2>6
<1> QED BY <1>3, <1>4

\* Every later log is the next one.
LEMMA LaterLog ==
    ASSUME RequestOK, EndOK, NEW b \in Logged, b < end,
           NEW r, r = log_fetch_single(b + 1, end)
    PROVE  /\ r \in Logged /\ r <= end /\ b < r
           /\ \A x \in Logged : ~(b < x /\ x < r)
<1>1. Logged \in SUBSET Nat /\ b \in Nat /\ end \in Nat
  BY RequestFacts DEF EndOK
<1> DEFINE a == b + 1
<1>2. a \in Nat /\ a <= end /\ a = IF a = -1 THEN Youngest ELSE a
  BY <1>1
<1>3. r \in Logged /\ r <= end /\ a <= r /\ \A x \in Logged : a <= x => r <= x
  BY <1>2, SingleLog
<1>4. \A x \in Logged : x \in Nat
  BY <1>1
<1> QED BY <1>1, <1>3, <1>4

\* The same for the list of all logs.
LEMMA NextListed ==
    ASSUME RequestOK, TypeOK, EndOK, Listed,
           NEW i \in FirstIdx .. Len(logs) - 1, i + 1 \in FirstIdx .. Len(logs) - 1
    PROVE  /\ LogAt(i) < LogAt(i + 1)
           /\ \A x \in Logged : ~(LogAt(i) < x /\ x < LogAt(i + 1))
<1>1. LogAt(i) < LogAt(i + 1) /\ Logged \in SUBSET Nat /\ FirstIdx \in {0, 1}
  BY ListedOrder, RequestFacts DEF FirstIdx
<1>2. ASSUME NEW x \in Logged, LogAt(i) < x, x < LogAt(i + 1) PROVE FALSE
  <2>1. x \in Nat /\ LogAt(i + 1) \in Nat /\ LogAt(i + 1) <= end /\ end \in Nat
    BY <1>1 DEF Listed, EndOK
  <2>2. x <= end
    BY <1>2, <2>1
  <2>3. PICK j \in FirstIdx .. Len(logs) - 1 : x = LogAt(j)
    BY <2>2 DEF Listed
  <2>4. i < j /\ j < i + 1
    BY <1>2, <2>3, ListedOrder
  <2> QED BY <1>1, <2>3, <2>4
<1> QED BY <1>1, <1>2

LEMMA NextLogControl == Control /\ NextLog => Control'
<1> SUFFICES ASSUME Control, NextLog PROVE Control'
  OBVIOUS
<1>1. /\ phase = "fetch" /\ phase' = "write"
      /\ UNCHANGED <<request, start, end, local_rev, global_rev, dry, out, pr_head, base>>
      /\ RequestOK /\ TypeOK /\ InLoop
  BY DEF NextLog, Control
<1>2. /\ EndOK /\ local_rev \in Nat
      /\ IF base = -1 THEN global_rev = start
         ELSE /\ base \in Logged /\ base >= start /\ start # -1
              /\ global_rev = base + 1 /\ base < end
  BY <1>1 DEF InLoop, Loop
<1>3. /\ RequestOK' /\ Logged' = Logged /\ RangeEnd' = RangeEnd
      /\ FirstIdx' = FirstIdx /\ Placeholder' = Placeholder /\ Stream' = Stream
      /\ (start_mid' <=> start_mid) /\ (EmptyRange' <=> EmptyRange)
      /\ (FromCreation' <=> FromCreation) /\ opt' = opt /\ touched' = touched
  BY <1>1, Constant
<1>4. EndOK' /\ BeforeLoop'
  BY <1>1, <1>2, <1>3 DEF EndOK, BeforeLoop
<1>5. Len(logs) \in Nat /\ FirstIdx \in {0, 1} /\ Logged \in SUBSET Nat /\ Logged \subseteq Rev
  BY <1>1, RequestFacts DEF TypeOK, FirstIdx
<1>6. CASE start_mid
  <2>1. FromMiddle /\ list_idx' = list_idx + 1 /\ logs' = logs
    BY <1>1, <1>6 DEF InLoop, Loop, NextLog
  <2>2. /\ Listed /\ list_idx' \in FirstIdx .. Len(logs) - 1
        /\ base = -1 => Current' = start
        /\ base # -1 => list_idx \in FirstIdx .. Len(logs) - 1 /\ Current = base
    BY <1>1, <2>1 DEF FromMiddle, Current, LogAt
  <2>3. Current' = LogAt(list_idx + 1) /\ Current' \in Logged /\ Current' <= end
    BY <2>1, <2>2 DEF Listed, Current, LogAt
  <2>4. base # -1 => base < Current' /\ \A x \in Logged : ~(base < x /\ x < Current')
    BY <1>1, <1>2, <2>1, <2>2, <2>3, NextListed DEF Current
  <2>5. Listed'
    BY <1>1, <1>3, <2>1, <2>2 DEF Listed, LogAt
  <2>6. FromMiddle'
    BY <1>1, <1>3, <2>1, <2>2, <2>5 DEF FromMiddle
  <2>7. list_idx' \in 0 .. Len(logs') - 1
    BY <1>5, <2>1, <2>2
  <2>8. TypeOK'
    BY <1>1, <2>1, <2>7 DEF TypeOK, request
  <2>9. InLoop'
    BY <1>1, <1>2, <1>3, <1>4, <1>6, <2>3, <2>4, <2>6 DEF InLoop, Loop
  <2> QED BY <1>1, <1>3, <1>4, <2>8, <2>9 DEF Control
<1>7. CASE ~start_mid
  <2> DEFINE r == log_fetch_single(global_rev, end)
  <2>1. FromStart /\ logs' = Append(logs, r) /\ list_idx' = Len(logs)
    BY <1>1, <1>7 DEF InLoop, Loop, NextLog
  <2>2. /\ StartOK /\ ~dry
        /\ opt.sub => logs # <<>> /\ logs[1] = 0
        /\ base = -1 => logs = Placeholder
        /\ EmptyRange => base = -1
    BY <1>1, <2>1 DEF FromStart
  <2>3. /\ r \in Logged /\ r <= end
        /\ EmptyRange => r = end
        /\ ~EmptyRange => r \in Stream
        /\ base = -1 /\ ~EmptyRange => \A x \in Stream : r <= x
        /\ base # -1 => base < r /\ \A x \in Logged : ~(base < x /\ x < r)
    <3>1. CASE base = -1
      BY <1>1, <1>2, <1>7, <2>2, <3>1, FirstLog
    <3>2. CASE base # -1
      <4>1. r \in Logged /\ r <= end /\ base < r /\ \A x \in Logged : ~(base < x /\ x < r)
        BY <1>1, <1>2, <3>2, LaterLog
      <4> HIDE DEF r
      <4>2. start <= r /\ start # -1 /\ r \in Nat /\ start \in Int
        BY <1>1, <1>2, <1>5, <3>2, <4>1 DEF TypeOK
      <4>3. RangeStart <= r
        BY <1>1, <2>2, <4>2 DEF StartOK, RangeStart, RequestOK
      <4>4. r \in Stream
        BY <4>1, <4>2, <4>3 DEF Stream, RangeStart
      <4> QED BY <2>2, <3>2, <4>1, <4>4
    <3> QED BY <3>1, <3>2
  <2> HIDE DEF r
  <2>4. /\ logs' \in Seq(Rev) /\ Len(logs') = Len(logs) + 1 /\ logs'[Len(logs) + 1] = r
        /\ opt.sub => logs' # <<>> /\ logs'[1] = 0
    <3>1. logs \in Seq(Rev) /\ r \in Rev
      BY <1>1, <1>5, <2>3 DEF TypeOK
    <3>2. /\ logs' \in Seq(Rev) /\ Len(logs') = Len(logs) + 1 /\ logs'[Len(logs) + 1] = r
          /\ logs' # <<>>
      BY <2>1, <3>1
    <3>3. logs # <<>> => logs'[1] = logs[1]
      BY <2>1, <3>1
    <3> QED BY <2>2, <3>2, <3>3
  <2>5. Current' = r /\ list_idx' = Len(logs') - 1 /\ list_idx' \in 0 .. Len(logs') - 1
    BY <1>5, <2>1, <2>4 DEF Current, LogAt
  <2>6. list_idx' >= FirstIdx
    <3>1. opt.sub => Len(logs) > 0
      BY <1>1, <2>2 DEF TypeOK
    <3> QED BY <1>5, <2>1, <3>1 DEF FirstIdx
  <2>7. EmptyRange => Len(logs') = FirstIdx + 1
    <3>1. Len(Placeholder) = FirstIdx
      BY DEF Placeholder, FirstIdx
    <3> QED BY <2>2, <2>4, <3>1
  <2>8. FromStart'
    <3>1. StartOK'
      BY <1>1, <1>3, <2>2 DEF StartOK
    <3> QED BY <1>1, <1>3, <2>2, <2>3, <2>4, <2>5, <2>6, <2>7, <3>1 DEF FromStart
  <2>9. TypeOK'
    BY <1>1, <2>4, <2>5 DEF TypeOK, request
  <2>10. InLoop'
    BY <1>1, <1>2, <1>3, <1>4, <1>7, <2>3, <2>5, <2>8 DEF InLoop, Loop
  <2> QED BY <1>1, <1>3, <1>4, <2>9, <2>10 DEF Control
<1> QED BY <1>6, <1>7

IsList(s) == \E S : s \in Seq(S)

\* What is known of a list after a record has been appended.
LEMMA AppendFacts ==
    ASSUME NEW s, IsList(s), NEW x
    PROVE  /\ IsList(Append(s, x))
           /\ Append(s, x) # <<>>
           /\ Len(s) \in Nat /\ DOMAIN s = 1 .. Len(s)
           /\ DOMAIN Append(s, x) = 1 .. Len(s) + 1
           /\ s # <<>> => Len(s) > 0
           /\ Len(Append(s, x)) = Len(s) + 1
           /\ Append(s, x)[Len(s) + 1] = x
           /\ \A i \in 1 .. Len(s) : Append(s, x)[i] = s[i]
<1>1. PICK S : s \in Seq(S)
  BY DEF IsList
<1>2. s \in Seq(S \cup {x})
  BY <1>1
<1>3. Append(s, x) \in Seq(S \cup {x})
  BY <1>2
<1> QED BY <1>1, <1>2, <1>3 DEF IsList

\* A record that is written has the number and the revision it should have.
LEMMA RecordType ==
    ASSUME TypeOK, NEW original \in Rev \cup {-1}, local_rev \in Nat,
           out' = Append(out, Record(original)), IsList(out)
    PROVE  \A i \in DOMAIN out' : out'[i].rev \in Nat /\ out'[i].from \in Rev \cup {-1}
<1> DEFINE x == Record(original)
<1>1. x.rev \in Nat /\ x.from \in Rev \cup {-1}
  BY DEF Record
<1> HIDE DEF x
<1>2. out' = Append(out, x)
  BY DEF x
<1>3. /\ DOMAIN out' = 1 .. Len(out) + 1 /\ Len(out) \in Nat /\ DOMAIN out = 1 .. Len(out)
      /\ out'[Len(out) + 1] = x
      /\ \A i \in 1 .. Len(out) : out'[i] = out[i]
  BY <1>2, AppendFacts
<1> SUFFICES ASSUME NEW i \in 1 .. Len(out) + 1
             PROVE  out'[i].rev \in Nat /\ out'[i].from \in Rev \cup {-1}
  BY <1>3
<1>4. CASE i = Len(out) + 1
  BY <1>1, <1>3, <1>4
<1>5. CASE i \in 1 .. Len(out)
  BY <1>3, <1>5 DEF TypeOK
<1> QED BY <1>3, <1>4, <1>5

\* Steps of the loop that leave the list and the revision.
LEMMA SameRevision ==
    ASSUME Control, phase = "write", phase' \in {"write", "diff"},
           UNCHANGED <<request, start, end, logs, list_idx, global_rev, dry, base>>,
           local_rev' \in Nat, TypeOK'
    PROVE  Control'
<1>1. RequestOK /\ InLoop
  BY DEF Control
<1>2. /\ RequestOK' /\ Logged' = Logged /\ RangeEnd' = RangeEnd
      /\ FirstIdx' = FirstIdx /\ Placeholder' = Placeholder /\ Stream' = Stream
      /\ (start_mid' <=> start_mid) /\ (EmptyRange' <=> EmptyRange)
      /\ (FromCreation' <=> FromCreation) /\ opt' = opt /\ touched' = touched
  BY <1>1, Constant
<1>3. Current' = Current /\ \A i \in Int : LogAt(i)' = LogAt(i)
  BY DEF Current, LogAt
<1>4. EndOK'
  BY <1>1, <1>2 DEF InLoop, Loop, EndOK
<1>5. CASE start_mid
  <2>1. FromMiddle
    BY <1>1, <1>5 DEF InLoop, Loop
  <2>2. Listed'
    BY <1>2, <2>1 DEF FromMiddle, Listed, LogAt
  <2>3. FromMiddle'
    BY <1>2, <1>3, <2>1, <2>2 DEF FromMiddle
  <2>4. InLoop'
    BY <1>1, <1>2, <1>3, <1>4, <1>5, <2>3 DEF InLoop, Loop
  <2> QED BY <1>2, <2>4 DEF Control, BeforeLoop
<1>6. CASE ~start_mid
  <2>1. FromStart
    BY <1>1, <1>6 DEF InLoop, Loop
  <2>2. StartOK'
    BY <1>2, <2>1 DEF FromStart, StartOK
  <2>3. FromStart'
    BY <1>2, <1>3, <2>1, <2>2 DEF FromStart
  <2>4. InLoop'
    BY <1>1, <1>2, <1>3, <1>4, <1>6, <2>3 DEF InLoop, Loop
  <2> QED BY <1>2, <2>4 DEF Control, BeforeLoop
<1> QED BY <1>5, <1>6

LEMMA PadRevisionControl == Control /\ IsList(out) /\ PadRevision => Control'
<1> SUFFICES ASSUME Control, IsList(out), PadRevision PROVE Control'
  OBVIOUS
<1>1. /\ phase = "write" /\ phase' = "write"
      /\ out' = Append(out, Record(Padding)) /\ pr_head' = local_rev
      /\ local_rev' = local_rev + 1
      /\ UNCHANGED <<request, start, end, logs, list_idx, global_rev, dry, base>>
      /\ TypeOK /\ InLoop
  BY DEF PadRevision, Control
<1>2. local_rev \in Nat
  BY <1>1 DEF InLoop, Loop
<1>3. \A i \in DOMAIN out' : out'[i].rev \in Nat /\ out'[i].from \in Rev \cup {-1}
  BY <1>1, <1>2, RecordType DEF Padding
<1>4. TypeOK' /\ local_rev' \in Nat
  BY <1>1, <1>2, <1>3 DEF TypeOK, request
<1> QED BY <1>1, <1>4, SameRevision

LEMMA WriteHeaderControl == Control /\ IsList(out) /\ WriteHeader => Control'
<1> SUFFICES ASSUME Control, IsList(out), WriteHeader PROVE Control'
  OBVIOUS
<1>1. /\ phase = "write" /\ phase' = "diff"
      /\ out' = IF dry THEN out ELSE Append(out, Record(Current))
      /\ UNCHANGED <<request, start, end, logs, list_idx, local_rev, global_rev, dry,
                     pr_head, base>>
      /\ TypeOK /\ InLoop /\ RequestOK
  BY DEF WriteHeader, Control, Current
<1>2. local_rev \in Nat /\ Current \in Rev
  BY <1>1, RequestFacts DEF InLoop, Loop
<1>3. \A i \in DOMAIN out' : out'[i].rev \in Nat /\ out'[i].from \in Rev \cup {-1}
  <2>1. CASE dry
    BY <1>1, <2>1 DEF TypeOK
  <2>2. CASE ~dry
    BY <1>1, <1>2, <2>2, RecordType
  <2> QED BY <2>1, <2>2
<1>4. TypeOK' /\ local_rev' \in Nat
  BY <1>1, <1>2, <1>3 DEF TypeOK, request
<1> QED BY <1>1, <1>4, SameRevision

LEMMA DoDiffControl == Control /\ DoDiff => Control'
<1> SUFFICES ASSUME Control, DoDiff PROVE Control'
  OBVIOUS
<1>1. /\ phase = "diff" /\ phase' = "commit" /\ base' = Current
      /\ UNCHANGED <<request, start, end, logs, list_idx, local_rev, global_rev, dry,
                     out, pr_head>>
      /\ TypeOK /\ InLoop /\ RequestOK
  BY DEF DoDiff, Control, Current
<1>2. /\ RequestOK' /\ Logged' = Logged /\ RangeEnd' = RangeEnd
      /\ FirstIdx' = FirstIdx /\ Placeholder' = Placeholder /\ Stream' = Stream
      /\ (start_mid' <=> start_mid) /\ (EmptyRange' <=> EmptyRange)
      /\ (FromCreation' <=> FromCreation) /\ opt' = opt /\ touched' = touched
  BY <1>1, Constant
<1>3. /\ EndOK /\ local_rev \in Nat /\ Current \in Logged /\ Current <= end
      /\ IF base = -1 THEN TRUE
         ELSE base \in Logged /\ base >= start /\ start # -1 /\ base < Current
  BY <1>1 DEF InLoop, Loop
<1>4. /\ Logged \in SUBSET Nat /\ Logged \subseteq Rev /\ Current \in Nat /\ end \in Nat
      /\ start \in Int /\ end <= Youngest /\ Youngest \in Nat
  BY <1>1, <1>3, RequestFacts DEF TypeOK, EndOK, Rev
<1>5. Current' = Current /\ \A i \in Int : LogAt(i)' = LogAt(i)
  BY <1>1 DEF Current, LogAt
<1>6. EndOK' /\ BeforeLoop'
  BY <1>1, <1>2, <1>3 DEF EndOK, BeforeLoop
<1>7. TypeOK'
  BY <1>1, <1>3, <1>4 DEF TypeOK, request
<1>8. CASE start_mid
  <2>1. FromMiddle
    BY <1>1, <1>8 DEF InLoop, Loop
  <2>2. Listed'
    BY <1>1, <1>2, <2>1 DEF FromMiddle, Listed, LogAt
  <2>3. FromMiddle'
    BY <1>1, <1>2, <2>1, <2>2 DEF FromMiddle
  <2>4. start <= Current /\ start # -1
    <3>1. CASE base = -1
      BY <1>1, <1>4, <2>1, <3>1 DEF FromMiddle
    <3>2. CASE base # -1
      <4>1. base \in Nat /\ base >= start /\ start # -1 /\ base < Current
        BY <1>3, <1>4, <3>2
      <4> QED BY <1>4, <4>1
    <3> QED BY <3>1, <3>2
  <2>5. InLoop'
    BY <1>1, <1>2, <1>3, <1>5, <1>6, <1>8, <2>3, <2>4 DEF InLoop, Loop
  <2> QED BY <1>1, <1>2, <1>6, <1>7, <2>5 DEF Control
<1>9. CASE ~start_mid
  <2>1. FromStart
    BY <1>1, <1>9 DEF InLoop, Loop
  <2>2. StartOK'
    BY <1>1, <1>2, <2>1 DEF FromStart, StartOK
  <2>3. base' # -1
    BY <1>1, <1>4
  <2>4. FromStart'
    BY <1>1, <1>2, <1>5, <2>1, <2>2, <2>3 DEF FromStart
  <2>5. (start <= Current \/ Current = end) /\ (start = -1 => Current = end)
    <3>1. CASE EmptyRange
      BY <1>1, <2>1, <3>1 DEF FromStart
    <3>2. CASE ~EmptyRange
      <4>1. Current \in Stream /\ StartOK
        BY <1>1, <2>1, <3>2 DEF FromStart
      <4>2. CASE opt.sub /\ opt.start = 0
        BY <1>3, <1>4, <4>1, <4>2 DEF StartOK
      <4>3. CASE ~(opt.sub /\ opt.start = 0)
        <5>1. start = opt.start /\ (opt.incremental => opt.start = 0)
          BY <1>9, <4>1, <4>3 DEF StartOK, start_mid
        <5>2. Current >= RangeStart
          BY <1>4, <4>1, <5>1 DEF Stream, RangeStart
        <5> QED BY <1>3, <1>4, <5>1, <5>2 DEF RangeStart
      <4> QED BY <4>2, <4>3
    <3> QED BY <3>1, <3>2
  <2>6. InLoop'
    BY <1>1, <1>2, <1>3, <1>5, <1>6, <1>9, <2>4, <2>5 DEF InLoop, Loop
  <2> QED BY <1>1, <1>2, <1>6, <1>7, <2>6 DEF Control
<1> QED BY <1>8, <1>9

LEMMA EndRevisionControl == Control /\ EndRevision => Control'
<1> SUFFICES ASSUME Control, EndRevision PROVE Control'
  OBVIOUS
<1>1. /\ phase = "commit" /\ dry' = FALSE
      /\ pr_head' = IF dry THEN pr_head ELSE local_rev
      /\ global_rev' = Current + 1 /\ local_rev' = local_rev + 1
      /\ phase' = IF Current + 1 <= end THEN "fetch" ELSE "done"
      /\ UNCHANGED <<request, start, end, logs, list_idx, out, base>>
      /\ TypeOK /\ InLoop /\ RequestOK
  BY DEF EndRevision, Control, Current
<1>2. /\ RequestOK' /\ Logged' = Logged /\ RangeEnd' = RangeEnd
      /\ FirstIdx' = FirstIdx /\ Placeholder' = Placeholder /\ Stream' = Stream
      /\ (start_mid' <=> start_mid) /\ (EmptyRange' <=> EmptyRange)
      /\ (FromCreation' <=> FromCreation) /\ opt' = opt /\ touched' = touched
  BY <1>1, Constant
<1>3. /\ EndOK /\ local_rev \in Nat /\ base = Current /\ Current \in Logged /\ Current <= end
      /\ start <= base \/ base = end
      /\ start = -1 => base = end
  BY <1>1 DEF InLoop, Loop
<1>4. /\ Logged \in SUBSET Nat /\ base \in Nat /\ end \in Nat /\ start \in Int
      /\ FirstIdx \in {0, 1} /\ Len(logs) \in Nat
  BY <1>1, <1>3, RequestFacts DEF TypeOK, EndOK, FirstIdx
<1>5. Current' = Current /\ \A i \in Int : LogAt(i)' = LogAt(i)
  BY <1>1 DEF Current, LogAt
<1>6. EndOK' /\ BeforeLoop'
  BY <1>1, <1>2, <1>3 DEF EndOK, BeforeLoop
<1>7. TypeOK'
  <2>1. phase' \in {"fetch", "done"} /\ dry' \in BOOLEAN
    BY <1>1
  <2>2. Current \in Nat
    BY <1>3, <1>4
  <2>3. global_rev' \in Int /\ local_rev' \in Int
    BY <1>1, <1>3, <2>2
  <2>4. pr_head' \in Int
    BY <1>1, <1>3 DEF TypeOK
  <2> QED BY <1>1, <2>1, <2>3, <2>4 DEF TypeOK, request
<1>8. CASE phase' = "done"
  BY <1>2, <1>6, <1>7, <1>8 DEF Control, InLoop, Loop
<1>9. CASE phase' # "done"
  <2>1. phase' = "fetch" /\ base < end /\ start <= base /\ start # -1
    BY <1>1, <1>3, <1>4, <1>9
  <2>2. CASE start_mid
    <3>1. FromMiddle
      BY <1>1, <2>2 DEF InLoop, Loop
    <3>2. Listed'
      BY <1>1, <1>2, <3>1 DEF FromMiddle, Listed, LogAt
    <3>3. Listed /\ list_idx \in FirstIdx .. Len(logs) - 1
      BY <1>1, <3>1 DEF FromMiddle
    <3>4. list_idx + 1 \in FirstIdx .. Len(logs) - 1
      <4> DEFINE k == Len(logs) - 1
      <4>1. k \in FirstIdx .. Len(logs) - 1 /\ LogAt(k) = end
        BY <1>1, <1>3, <3>3, ListedEnd
      <4>2. LogAt(list_idx) < LogAt(k)
        BY <1>3, <2>1, <4>1 DEF Current
      <4> HIDE DEF k
      <4>3. list_idx < k
        BY <1>1, <1>3, <3>3, <4>1, <4>2, ListedOrder
      <4> QED BY <1>4, <3>3, <4>3 DEF k
    <3>5. FromMiddle'
      BY <1>1, <1>2, <1>3, <1>4, <1>5, <2>1, <3>1, <3>2, <3>3, <3>4 DEF FromMiddle
    <3>6. InLoop'
      BY <1>1, <1>2, <1>3, <1>4, <1>6, <2>1, <2>2, <3>5 DEF InLoop, Loop
    <3> QED BY <1>1, <1>2, <1>6, <1>7, <2>1, <3>6 DEF Control
  <2>3. CASE ~start_mid
    <3>1. FromStart
      BY <1>1, <2>3 DEF InLoop, Loop
    <3>2. StartOK'
      BY <1>1, <1>2, <3>1 DEF FromStart, StartOK
    <3>3. /\ list_idx = Len(logs) - 1
          /\ ~EmptyRange
      BY <1>1, <1>3, <1>4, <2>1, <3>1 DEF FromStart
    <3>4. LogAt(Len(logs) - 1)' = base' /\ base' # -1
      BY <1>1, <1>3, <1>4, <3>3 DEF Current, LogAt
    <3>5. FromStart'
      BY <1>1, <1>2, <1>5, <2>1, <3>1, <3>2, <3>3, <3>4 DEF FromStart
    <3>6. InLoop'
      BY <1>1, <1>2, <1>3, <1>4, <1>6, <2>1, <2>3, <3>5 DEF InLoop, Loop
    <3> QED BY <1>1, <1>2, <1>6, <1>7, <2>1, <3>6 DEF Control
  <2> QED BY <2>2, <2>3
<1> QED BY <1>8, <1>9

LEMMA FailControl == Control /\ Fail => Control'
<1> SUFFICES ASSUME Control, Fail PROVE Control'
  OBVIOUS
<1>1. /\ phase' = "failed"
      /\ UNCHANGED <<request, start, end, logs, list_idx, local_rev, global_rev, dry,
                     out, pr_head, base>>
      /\ TypeOK /\ RequestOK
  BY DEF Fail, Control
<1>2. RequestOK'
  BY <1>1, Constant
<1>3. TypeOK'
  BY <1>1 DEF TypeOK, request
<1> QED BY <1>1, <1>2, <1>3 DEF Control, BeforeLoop, InLoop, Loop

LEMMA StutterControl == Control /\ UNCHANGED vars => Control'
<1> SUFFICES ASSUME Control, UNCHANGED vars PROVE Control'
  OBVIOUS
<1>1. /\ RequestOK /\ UNCHANGED request
      /\ UNCHANGED <<phase, start, end, logs, list_idx, local_rev, global_rev, dry,
                     out, pr_head, base>>
  BY DEF vars, request, Control
<1>2. /\ RequestOK' /\ Logged' = Logged /\ RangeEnd' = RangeEnd
      /\ FirstIdx' = FirstIdx /\ Placeholder' = Placeholder /\ Stream' = Stream
      /\ (start_mid' <=> start_mid) /\ (EmptyRange' <=> EmptyRange)
      /\ (FromCreation' <=> FromCreation) /\ opt' = opt /\ touched' = touched
  BY <1>1, Constant
<1>3. /\ EndOK' <=> EndOK
      /\ StartOK' <=> StartOK
      /\ Listed' <=> Listed
      /\ Current' = Current
  BY <1>1, <1>2 DEF EndOK, StartOK, Listed, Current, LogAt
<1>4. BeforeLoop'
  BY <1>1, <1>2, <1>3 DEF Control, BeforeLoop, LogAt
<1>5. FromStart' <=> FromStart
  BY <1>1, <1>2, <1>3 DEF FromStart, LogAt
<1>6. FromMiddle' <=> FromMiddle
  BY <1>1, <1>2, <1>3 DEF FromMiddle, LogAt
<1>7. InLoop'
  BY <1>1, <1>2, <1>3, <1>5, <1>6 DEF Control, InLoop
<1>8. TypeOK'
  BY <1>1, <1>2 DEF Control, TypeOK
<1> QED BY <1>1, <1>2, <1>3, <1>4, <1>7, <1>8 DEF Control

LEMMA ControlNext == Control /\ IsList(out) /\ [Next]_vars => Control'
BY DetermineRangeControl, PrepareLogControl, StartMidControl, StartBeginningControl,
   NextLogControl, PadRevisionControl, WriteHeaderControl, DoDiffControl,
   EndRevisionControl, FailControl, StutterControl DEF Next, Step
=============================================================================
