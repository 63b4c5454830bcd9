-------------------------------- MODULE Dump --------------------------------
(***************************************************************************)
(* dump.c: the loop that turns the log of a repository, or of one of its   *)
(* sub-directories, into the revisions of a dump file; with the parts of   *)
(* log.c (which revisions have a log entry) and of delta.c (which revision *)
(* of the dump a copy refers to) that depend on the same numbers.          *)
(*                                                                         *)
(* Original revision numbers and the numbers in the dump (local_rev)       *)
(* differ in general; the list of logs, the path repository and the diffs  *)
(* that the server is asked for must all stay in step with both.           *)
(***************************************************************************)
EXTENDS Integers, Sequences, FiniteSets, FiniteSetsExt

CONSTANTS
    Youngest,      \* bound: youngest revision of the repository
    Allowed    \* which of the SpecialKinds of requests to consider

ASSUME YoungestAssumption == Youngest \in Nat
SpecialKinds == {"creation", "unchanged", "single", "stop", "shifted", "padded"}
ASSUME AllowedAssumption == Allowed \subseteq SpecialKinds

VARIABLES
    opt,         \* the request: options as given; never changes
    touched,     \* revisions that changed the sub-directory; never changes
    phase,       \* where dump() is
    start, end,  \* opts->start, opts->end
    logs,        \* revisions of the list of logs
    list_idx,    \* index in it, from 0
    local_rev,   \* number in the dump
    global_rev,  \* original number from which to look for the next log
    dry,         \* DF_INITIAL_DRY_RUN
    out,         \* revision records written
    pr_head,     \* last revision committed to the path repository, or -1
    base         \* revision that the editor's copies of files and properties
                 \* are of, or -1

vars == <<opt, touched, phase, start, end, logs, list_idx, local_rev,
          global_rev, dry, out, pr_head, base>>
request == <<opt, touched>>

Padding == -1
Rev == 0 .. Youngest

\* The revisions that svn_ra_get_log() reports for the session's URL: all of
\* them for the root, otherwise those that changed the sub-directory since it
\* was created (external).
Logged == IF opt.sub THEN touched ELSE Rev

\* log_fetch_single(): the first log from the one revision towards the other,
\* in either direction; an invalid number stands for the youngest revision.
log_fetch_single(from, to) ==
    LET a == IF from = -1 THEN Youngest ELSE from
    IN  IF a <= to THEN Min(Logged \cap (a .. to))
        ELSE Max(Logged \cap (to .. a))

\* log_fetch_all(): all logs up to a revision, in ascending order: the i-th one
\* is the one up to which there are i of them.
log_fetch_all(to) ==
    LET found == Logged \cap (0 .. to)
    IN  [i \in 1 .. Cardinality(found) |->
           CHOOSE r \in found : Cardinality({x \in found : x <= r}) = i]

\* log_get_range(): a sub-directory's range starts with its first log, and
\* ends with the last one, which dump_determine_end() has found already.
log_get_range(to) == log_fetch_single(0, to)

\* dump_determine_end(): the URL's last change up to a revision, if it exists.
Found(to) == Logged \cap (0 .. to) # {}
dump_determine_end(to) == Max(Logged \cap (0 .. to))

\* dump_check_path(): the URL exists in a revision (HEAD is -1).
dump_check_path(rev) == rev <= 0 \/ \E r \in Logged : r <= rev

\* APR_ARRAY_IDX(logs, i)
LogAt(i) == logs[i + 1]
-----------------------------------------------------------------------------
(***************************************************************************)
(* Requests                                                                *)
(***************************************************************************)

\* Combinations of options that one of the properties does not hold for:
\* an incremental dump of a sub-directory from its very creation on; a range
\* in which the sub-directory did not change; a single revision, given by its
\* number, after one that is in the log, too; the deprecated --stop with a
\* revision that is in the log; a range of the whole repository with numbers of
\* its own; original numbers for a range that begins with HEAD or, in a
\* sub-directory, before a change.
Kinds(o, t) ==
    LET first == IF o.start = -1 THEN Youngest ELSE o.start
        last == IF o.end = -1 THEN Youngest ELSE o.end
    IN
    {k \in SpecialKinds :
        \/ k = "creation" /\ o.sub /\ o.incremental /\ o.start \in t
             /\ \A r \in t : r >= o.start
        \/ k = "unchanged" /\ o.sub /\ ~o.incremental
             /\ first > 0 /\ t \cap (first .. last) = {}
        \/ k = "single" /\ o.given = "single" /\ (o.sub => o.start \in t)
        \/ k = "stop" /\ o.given = "stop" /\ (o.sub => o.end + 1 \in t)
        \/ k = "shifted" /\ ~o.sub /\ ~o.incremental /\ ~o.keep /\ o.start # 0
        \/ k = "padded" /\ ~o.incremental /\ o.keep
             /\ (o.start = -1 \/ (o.start > 0 /\ o.sub /\ o.start \notin t))}

\* parse_revnum(): what it makes of a range X:Y, X:HEAD or HEAD (which is -1); of
\* a single revision X, namely X-1:X; and of --stop X, for which start and end
\* are the same variable, so that the end becomes X-1.
parse_revnum ==
    {r \in [given : {"range", "single", "stop"},
            start : -1 .. Youngest, end : -1 .. Youngest] :
        /\ r.end = -1 \/ r.start <= r.end
        /\ r.start = -1 => r.end = -1
        /\ r.given = "single" => r.end >= 1 /\ r.start = r.end - 1
        /\ r.given = "stop" => r.start = 0 /\ r.end \in 0 .. Youngest - 1}

\* The options of main().  An incremental dump that starts with HEAD is left
\* out: it would read before the start of the list of logs.
Init ==
    /\ touched \in (SUBSET (1 .. Youngest)) \ {{}}
    /\ \E range \in parse_revnum :
         opt \in [sub : BOOLEAN, keep : BOOLEAN, incremental : BOOLEAN,
                 given : {range.given}, start : {range.start}, end : {range.end}]
    /\ ~(opt.incremental /\ opt.start = -1)
    /\ ~opt.sub => touched = 1 .. Youngest
    /\ Kinds(opt, touched) \subseteq Allowed
    /\ phase = "range"
    /\ start = opt.start
    /\ end = opt.end
    /\ logs = IF opt.sub THEN <<0>> ELSE <<>>
    /\ list_idx = 0
    /\ local_rev = -1
    /\ global_rev = -1
    /\ dry = FALSE
    /\ out = <<>>
    /\ pr_head = -1
    /\ base = -1

start_mid == opt.incremental /\ opt.start # 0

\* dump_determine_end(), log_get_range() or dump_check_path(), and, in an
\* incremental dump, log_fetch_all().  The URL must exist at both ends.
DetermineRange ==
    /\ phase = "range"
    /\ LET to == IF end = -1 THEN Youngest ELSE end
           last == dump_determine_end(to)
       IN  IF Found(to) /\ dump_check_path(start)
           THEN /\ start' = IF start = 0 /\ opt.sub
                            THEN log_get_range(last) ELSE start
                /\ end' = last
                /\ logs' = IF start_mid THEN logs \o log_fetch_all(last)
                           ELSE logs
                /\ local_rev' = IF start_mid THEN 0 ELSE local_rev
                /\ phase' = IF start_mid THEN "prepare" ELSE "init"
           ELSE /\ phase' = "failed"
                /\ UNCHANGED <<start, end, logs, local_rev>>
    /\ UNCHANGED <<request, list_idx, global_rev, dry, out, pr_head, base>>

MorePrepare == local_rev < Len(logs) /\ LogAt(local_rev) < start

\* A slip in the loop of the next action: the index stays.
PrepareForever ==
    /\ phase = "prepare" /\ MorePrepare
    /\ pr_head' = IF opt.keep THEN LogAt(local_rev) ELSE local_rev
    /\ UNCHANGED <<request, phase, start, end, logs, list_idx, local_rev,
                   global_rev, dry, out, base>>

\* path_repo_commit_log() for one of the logs before the range.
PrepareLog ==
    /\ phase = "prepare" /\ MorePrepare
    /\ pr_head' = IF opt.keep THEN LogAt(local_rev) ELSE local_rev
    /\ local_rev' = local_rev + 1
    /\ UNCHANGED <<request, phase, start, end, logs, list_idx, global_rev, dry,
                   out, base>>

\* "The first revision is a dry run": step back to the last log before the
\* range, if there is one.
StartMid ==
    /\ phase = "prepare" /\ ~MorePrepare
    /\ LET lr == IF local_rev > 1 \/ ~opt.sub THEN local_rev - 1 ELSE local_rev
       IN  /\ start' = LogAt(lr)
           /\ global_rev' = LogAt(lr)
           /\ list_idx' = lr - 1
           /\ local_rev' = IF opt.keep THEN LogAt(lr) ELSE lr
    /\ end' = LogAt(Len(logs) - 1)
    /\ dry' = TRUE
    /\ phase' = "fetch"
    /\ UNCHANGED <<request, logs, out, pr_head, base>>

\* "There aren't any subdirectories at revision 0".
StartBeginning ==
    /\ phase = "init"
    /\ LET first == IF opt.sub /\ start = 0 THEN 1 ELSE start
       IN  /\ start' = first
           /\ global_rev' = first
           /\ local_rev' = IF first = 0 THEN 0 ELSE 1
    /\ list_idx' = 0
    /\ phase' = "fetch"
    /\ UNCHANGED <<request, end, logs, dry, out, pr_head, base>>
-----------------------------------------------------------------------------
(***************************************************************************)
(* The loop                                                                *)
(***************************************************************************)

\* A slip: the index of the new log is taken for the length of the list.
IndexPastEnd ==
    /\ phase = "fetch"
    /\ IF start_mid
       THEN list_idx' = list_idx + 1 /\ UNCHANGED logs
       ELSE /\ logs' = Append(logs, log_fetch_single(global_rev, end))
            /\ list_idx' = Len(logs) + 1
    /\ phase' = "write"
    /\ UNCHANGED <<request, start, end, local_rev, global_rev, dry, out, pr_head,
                   base>>

\* log_fetch_single(), or the next of the logs fetched before.
NextLog ==
    /\ phase = "fetch"
    /\ IF start_mid
       THEN list_idx' = list_idx + 1 /\ UNCHANGED logs
       ELSE /\ logs' = Append(logs, log_fetch_single(global_rev, end))
            /\ list_idx' = Len(logs)
    /\ phase' = "write"
    /\ UNCHANGED <<request, start, end, local_rev, global_rev, dry, out, pr_head,
                   base>>

\* dump_padding_revision() and dump_revision_header(); record 1 also sets up
\* the user's prefix.
Record(original) ==
    [rev |-> local_rev, from |-> original, prefix |-> local_rev = 1]

\* A slip in the condition below: the revision itself is padded, too.
PadTooFar == opt.keep /\ ~dry /\ local_rev <= LogAt(list_idx)

\* "Padd with empty revisions if neccessary".
MustPad == opt.keep /\ ~dry /\ local_rev < LogAt(list_idx)

\* Two slips: the path repository does not learn of the revision; only one
\* revision is padded.
PadNotCommitted ==
    /\ phase = "write" /\ MustPad
    /\ out' = Append(out, Record(Padding))
    /\ local_rev' = local_rev + 1
    /\ UNCHANGED <<request, phase, start, end, logs, list_idx, global_rev, dry,
                   pr_head, base>>

PadRestarts ==
    /\ phase = "write" /\ MustPad
    /\ out' = Append(out, Record(Padding))
    /\ pr_head' = local_rev
    /\ local_rev' = LogAt(list_idx)
    /\ UNCHANGED <<request, phase, start, end, logs, list_idx, global_rev, dry,
                   base>>

PadRevision ==
    /\ phase = "write" /\ MustPad
    /\ out' = Append(out, Record(Padding))
    /\ pr_head' = local_rev
    /\ local_rev' = local_rev + 1
    /\ UNCHANGED <<request, phase, start, end, logs, list_idx, global_rev, dry,
                   base>>

WriteHeader ==
    /\ phase = "write" /\ ~MustPad
    /\ out' = IF dry THEN out ELSE Append(out, Record(LogAt(list_idx)))
    /\ phase' = "diff"
    /\ UNCHANGED <<request, start, end, logs, list_idx, local_rev, global_rev,
                   dry, pr_head, base>>

\* A slip: the base is the revision from which the log is searched.
diff_rev_late == IF global_rev < start THEN start ELSE global_rev

\* "Determine the diff base": the previous original revision, but not one
\* before the range; the first diff is against nothing (start_empty).
diff_rev ==
    LET prev == IF global_rev - 1 < 0 THEN 0 ELSE global_rev - 1
    IN  IF prev < start THEN start ELSE prev

start_empty == global_rev = start

\* dump_do_diff(): the editor gets the changes from diff_rev to the revision
\* of the log.
DoDiff ==
    /\ phase = "diff"
    /\ base' = LogAt(list_idx)
    /\ phase' = "commit"
    /\ UNCHANGED <<request, start, end, logs, list_idx, local_rev, global_rev,
                   dry, out, pr_head>>

\* Two slips: the path repository gets original numbers; the flag of the dry
\* run stays set.
CommitsOriginal ==
    /\ phase = "commit"
    /\ pr_head' = IF dry THEN pr_head ELSE LogAt(list_idx)
    /\ global_rev' = LogAt(list_idx) + 1
    /\ local_rev' = local_rev + 1
    /\ dry' = FALSE
    /\ phase' = IF LogAt(list_idx) + 1 <= end THEN "fetch" ELSE "done"
    /\ UNCHANGED <<request, start, end, logs, list_idx, out, base>>

StaysDry ==
    /\ phase = "commit"
    /\ pr_head' = IF dry THEN pr_head ELSE local_rev
    /\ global_rev' = LogAt(list_idx) + 1
    /\ local_rev' = local_rev + 1
    /\ phase' = IF LogAt(list_idx) + 1 <= end THEN "fetch" ELSE "done"
    /\ UNCHANGED <<request, start, end, logs, list_idx, dry, out, base>>

\* path_repo_discard() or path_repo_commit(), property_storage_cleanup(), and
\* on to the next revision.
EndRevision ==
    /\ phase = "commit"
    /\ pr_head' = IF dry THEN pr_head ELSE local_rev
    /\ global_rev' = LogAt(list_idx) + 1
    /\ local_rev' = local_rev + 1
    /\ dry' = FALSE
    /\ phase' = IF LogAt(list_idx) + 1 <= end THEN "fetch" ELSE "done"
    /\ UNCHANGED <<request, start, end, logs, list_idx, out, base>>

\* The server, the editor or a file reports an error: dump() gives up.
Fail ==
    /\ phase \notin {"done", "failed"}
    /\ phase' = "failed"
    /\ UNCHANGED <<request, start, end, logs, list_idx, local_rev, global_rev,
                   dry, out, pr_head, base>>

Step ==
    \/ DetermineRange \/ PrepareLog \/ StartMid \/ StartBeginning
    \/ NextLog \/ PadRevision \/ WriteHeader \/ DoDiff \/ EndRevision

Next == Step \/ Fail

\* One thread, which takes its next step as long as there is one: it never
\* waits for anything but answers of the server.  Errors need not happen.
Spec == Init /\ [][Next]_vars /\ WF_vars(Step)
-----------------------------------------------------------------------------
(***************************************************************************)
(* Copies: delta_check_copy() and delta_get_local_copyfrom_rev()           *)
(***************************************************************************)

\* A slip: an exact match is passed over.
copyfrom_rev_before(original) ==
    IF opt.keep THEN original
    ELSE Max({i \in 0 .. Len(logs) - 2 : LogAt(i) < original} \cup {-1})

\* "Loop backwards through the revision list, starting at the previous
\* revision": the last index whose revision is not after the original one.
delta_get_local_copyfrom_rev(original) ==
    IF opt.keep THEN original
    ELSE Max({i \in 0 .. Len(logs) - 2 : LogAt(i) <= original} \cup {-1})

\* copyfrom_rev_local, or 0 if the copy is resolved by adding the node.
delta_check_copy(original) ==
    IF ~opt.sub /\ (start = 0 \/ opt.incremental) THEN original
    ELSE IF (opt.incremental \/ start <= original)
            /\ delta_get_local_copyfrom_rev(original) > 0
    THEN delta_get_local_copyfrom_rev(original)
    ELSE 0
-----------------------------------------------------------------------------
(***************************************************************************)
(* What the output should be                                               *)
(***************************************************************************)

\* First and last revision of the range that the options were parsed to.
RangeStart == IF opt.start = -1 THEN Youngest ELSE opt.start
RangeEnd == IF opt.end = -1 THEN Youngest ELSE opt.end

\* And those of the argument as it was given: one revision alone, or everything up
\* to one.
FirstWanted == IF opt.given = "single" THEN RangeEnd ELSE RangeStart
LastWanted == IF opt.given = "stop" THEN RangeEnd + 1 ELSE RangeEnd
Wanted == Logged \cap (FirstWanted .. LastWanted)

\* The revisions of the dump this one is, or continues: an incremental dump
\* continues one that starts at revision 0.
Stream == {r \in Logged : opt.incremental \/ r >= RangeStart}

\* The number of an original revision in that dump.
Number(r) ==
    IF opt.keep THEN r
    ELSE Cardinality({x \in Stream : x <= r}) - (IF 0 \in Stream THEN 1 ELSE 0)

\* The positions in the output of revisions that are not padding.
Originals == {i \in DOMAIN out : out[i].from # Padding}
-----------------------------------------------------------------------------
(***************************************************************************)
(* Properties                                                              *)
(***************************************************************************)

\* The shape of the variables of dump() (dump.c:284-293).
TypeOK ==
    /\ touched \subseteq 1 .. Youngest
    /\ phase \in {"range", "prepare", "init", "fetch", "write", "diff", "commit",
                  "done", "failed"}
    /\ start \in -1 .. Youngest /\ end \in -1 .. Youngest
    /\ logs \in Seq(Rev)
    /\ list_idx \in Int /\ local_rev \in Int /\ global_rev \in Int
    /\ phase \in {"write", "diff", "commit"} => list_idx \in 0 .. Len(logs) - 1
    /\ dry \in BOOLEAN
    /\ \A i \in DOMAIN out : out[i].rev \in Nat /\ out[i].from \in Rev \cup {-1}
    /\ pr_head \in Int
    /\ base \in Rev \cup {-1}

\* "The revision numbers in the dump are strictly sequential"
\* (doc/rsvndump.txt:139): padding or not, dry run or not, each record's
\* number is one more than that of the record before.
NumbersSequential ==
    \A i \in 1 .. Len(out) - 1 : out[i + 1].rev = out[i].rev + 1

\* Every original revision has the number it has in a dump from the beginning,
\* so that incremental dumps can be concatenated (doc/rsvndump.txt:79); with
\* --keep-revnums it is the original one, and padding only stands for
\* revisions that did not change the directory (doc/rsvndump.txt:144).
NumbersAgree ==
    \A i \in DOMAIN out :
        IF out[i].from = Padding
        THEN opt.keep /\ out[i].rev \notin Stream
        ELSE out[i].rev = Number(out[i].from)

\* A finished dump holds the revision, or every revision of the range, that the
\* user asked for and that changed the dumped directory, once and in order, and
\* no other ("Specify the revision (or revision range) that should be dumped",
\* doc/rsvndump.txt:64; "stop dumping at specified revision", ChangeLog:146).
RangeDumped ==
    phase = "done" =>
        /\ {out[i].from : i \in Originals} = Wanted
        /\ \A i, j \in Originals : i < j => out[i].from < out[j].from

\* The revision of the dump that a copy is said to come from holds the tree of
\* the copy's source, which is any earlier revision since the creation of the
\* directory: "list indexes are equal to their respective local
\* revision numbers. This is ensured in dump()" (delta.c:1464).
CopySourceExact ==
    phase = "diff" /\ ~dry =>
        \A original \in Min(Logged \ {0}) .. LogAt(list_idx) - 1 :
            LET n == delta_check_copy(original)
                sources == {r \in Stream : r <= original}
            IN  n > 0 => /\ n < local_rev
                         /\ sources # {}
                         /\ Number(Max(sources)) <= n
                         /\ \A r \in Stream : r > original => Number(r) > n

\* The same for the requests in which the index in the list of logs is the
\* number in the dump.
CopiesExact == Kinds(opt, touched) \cap {"shifted", "padded"} = {} => CopySourceExact

\* What PathRepo.tla relies on: dump() commits revisions to the path repository
\* one after the other, starting with 0 or 1, except in its mode "gaps".
CommitsInOrder ==
    [][pr_head' # pr_head =>
        \/ pr_head = -1 /\ pr_head' \in {0, 1}
        \/ pr_head' = pr_head + 1
        \/ phase = "prepare" /\ opt.sub /\ opt.keep /\ pr_head' > pr_head]_vars

\* The lookups of the editor ask the path repository for the revision before
\* the one in work (delta.c:331,340), and the dry run is of a revision that is
\* "Already commited via commit_log()" (dump.c:549).
RepositoryInStep ==
    phase \in {"diff", "commit"} =>
        IF dry THEN pr_head = local_rev
        ELSE pr_head = local_rev - 1 \/ (pr_head = -1 /\ local_rev \in {0, 1})

\* The server's changes apply to what the editor has: the diff is against
\* nothing, or against a revision in which the dumped directory is as the
\* editor saw it last.
DiffBaseKnown ==
    phase = "diff" =>
        IF start_empty THEN base = -1
        ELSE base >= 0 /\ Logged \cap (base + 1 .. diff_rev) = {}
                      /\ Logged \cap (diff_rev + 1 .. base) = {}
=============================================================================
