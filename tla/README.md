# A TLA+ verification of rsvndump

rsvndump reads a Subversion repository, or one of its sub-directories, through
the network interface and writes a dump file for `svnadmin load`. It is one
sequential program; what is hard about it is keeping several tables in step
over thousands of revisions: three numberings of revisions (original, index in
the list of logs, number in the dump), a history of all paths, the properties
of all nodes, and the contents that the server's differences apply to. Errors
only show after long sequences of legal calls or in rare combinations of
options, and that is what the models are for.

## The system

| part | source | state it keeps | operations |
|---|---|---|---|
| main | `src/main.c` | options | parse arguments and ranges, temporary directory, exit status |
| session | `src/session.c` | connection, root, prefix | open, re-parent, obfuscate paths |
| log | `src/log.c` | none | fetch one log, all logs, the range of a URL |
| dump loop | `src/dump.c` | `start`, `end`, list of logs, `list_idx`, `local_rev`, `global_rev`, dry-run flag | determine the range, prepare the path history, dry run, pad, write headers, ask for diffs, commit |
| delta editor | `src/delta.c` | open nodes, `delta_hash` (contents), `md5_hash` | callbacks of Subversion's editor, copy resolution, dump of nodes |
| path repository | `src/path_repo.c` | file of deltas and snapshots, working tree, scheduled changes, cache of trees | add, delete, commit, discard, commit a log, look up |
| crit-bit tree | `lib/critbit89` | set of strings | insert, delete, contains, clear, walk by prefix |
| property storage | `src/property.c` | path to record, reference counts, garbage list, file | store, load, delete, clean up |
| key-value file | `src/mukv.c`, `src/rhash.c` | file, index in memory, stream position | store, fetch, delete, close |
| snappy, utilities, logging | `lib/snappy-c`, `src/utils.c`, `src/logger.c` | none of interest | compression, sorting, I/O |

`main()` calls `dump()`. For each revision `dump()` fetches a log, writes a
header and lets the server drive the editor's callbacks. These load and store
properties, schedule additions and deletions in the path repository, and ask
it whether paths existed in earlier (local) revisions; `close_edit` writes the
nodes. Then `dump()` commits the path repository and lets the property storage
collect garbage. An incremental dump that starts in the middle first feeds the
logs of all older revisions to the path repository and runs the revision before
the range "dry", to get the contents that the next difference applies to. Both
stores keep their records in a key-value file, and trees of paths are crit-bit
trees.

There are no threads, no messages that can be lost, and nothing survives the
process, so there are no hazards of concurrency or of recovery. The hard
behaviours are order (what is asked of a store before and after a commit),
numbers (off-by-one between the numberings, at the start of ranges and at
padding), staleness (caches, shared records) and the protocol between the
parts. `PROJECT.json` lists them under "hazards", each at its line.

What makes each part correct:

* dump loop: the requested revisions are dumped, once, in order, under the
  numbers the documentation promises; everything that depends on numbers stays
  in step; the loop ends.
* path repository: what is on file rebuilds the tree; a lookup is answered from
  the tree of the revision that was asked for.
* property storage: a node gets back the properties it was closed with.
* key-value file, crit-bit tree: a map, a set.
* delta editor: loading the dump reproduces the repository, revision by
  revision, and copies stay copies; what the editor remembers of every file and
  node is true.
* main: the program ends, cleans up, and its exit status tells how it went.

## Modules

| module | models | extends / instantiates |
|---|---|---|
| `PathTrees` | paths as sequences of components, sub-trees, copies, sort order | |
| `VersionedTree` | abstract: an immutable tree per revision | |
| `PathRepo` | `path_repo.c`, driven as `dump.c` and `delta.c` drive it | `PathTrees`; implements `VersionedTree` |
| `StringSet` | abstract: set of strings, walks by prefix | |
| `CritBit` | `critbit.c` | implements `StringSet` |
| `PropMap` | abstract: path to properties | |
| `PropStore` | `property.c`, driven as `delta.c` drives it | implements `PropMap` |
| `KVMap` | abstract: key to bytes | |
| `Mukv` | `mukv.c` | implements `KVMap` |
| `Dump` | `dump.c`, ranges of `log.c` and `main.c`, copy revisions of `delta.c` | |
| `Main` | `main.c` and `session.c` around `dump()` | extends `Dump` |
| `SvnRepos` | external: a repository, its commits, `svnadmin load` | `PathTrees` |
| `DeltaEditor` | `delta.c`, driven by the server, with the filter of `log.c` | extends `SvnRepos` |
| `MC...` | values of the constants for TLC | the module they are named after |
| `Lemmas` | lemmas: least and greatest elements, ranks and turns, ascending lists; prefixes, insertion into and removal from sequences | |
| `DumpControl` | the inductive invariant of the control of `dump()` | `Dump`, `Lemmas` |
| `...Proofs` | theorems | the module they are named after; `DumpProofs` those about `Main` too |

Definitions carry the names of the functions they model; `PROJECT.json` maps
them to lines. Definitions introduced by "a slip" are never part of a
specification: each one is a version of the definition after it with a
plausible mistake, and the property that is meant to notice it fails if the
definition is replaced.

**PathRepo.** `db` is the file (revision to list of operations), `delta` and
`tree` are what is scheduled and the working tree, `cache` and `cache_index`
the ring of rebuilt trees. The loops that replay operations are written as what
they compute: the last operation on a path decides (`pr_delta_apply`,
`pr_reconstruct`); the lemmas `ApplyEmpty`, `ApplyAppend` and
`ReconstructStep` of the proofs tie this to the loops. Each changed path of
`path_repo_commit_log` is a step (`log_change`, `log_copy_inside`,
`log_copy_outside`), in sorted order. `mode` is the kind of dump, which decides
the order of calls; in mode "late" the editor first runs for revision `First`, which
is 1, or a later one after `--keep-revnums` has padded what is before it. A lookup yields the tree it is answered from instead of one
bit for one path, so that an exact answer is one for all paths. Failing reads
of the file and the compression of records are left out.

**PropStore.** Records are identified by a sum of their serialized form.
`Content` maps sums to lists and is not injective, since the serialization
follows the order of a hash table: equal lists may be stored twice, but a sum
never stands for two lists. The environment is the editor: nodes are opened
before they are closed, the root is never loaded or deleted, cleanup runs when
nothing is open. Storing over an existing entry keeps the old count, as the
code does. The variable `call` records the last call for the refinement.

**Mukv.** `pos` and `last` are the position of the C stream and the last
operation on it, because the code saves a seek where it believes to be in the
right place. Deleting a key touches only the index. Closing the file is left
out.

**CritBit.** Strings are sequences of bytes; an inner node holds a byte offset
and a bit (the one that `otherbits` lacks). Instead of pointers there are addresses:
`tree` maps the indices into `child[]` on the way from the root to the node that is
found there. A node is above another one if its address is a prefix of the other's;
writing to a child pointer gives everything below it new addresses (`Link`,
`Unlink`). A descent is the set of nodes it comes by (`Way`), the loop that looks for
the place of a new node the first node on it that `Stops` it, and the recursive
traversal a turn for every leaf, after those to the left of it. Callbacks that end a
walk by their return value are left out.
The abstract `Walk` leaves open what a walk visits if no string has the prefix,
as `cb_tree_walk_prefixed()` does not compare it: callers must ask for prefixes
that occur, which those in `path_repo.c` do as long as the server deletes and
copies only what is there.

**Dump.** The repository is the set `touched` of revisions that changed the
sub-directory; the request `opt` holds the options and the range that
`parse_revnum` makes of the argument, whose form is in `given`: a range, a single
revision X (parsed as X-1:X) or the deprecated `--stop X` (0:X-1). One action
per stage of `dump()`: `DetermineRange`, `PrepareLog`, `StartMid` or
`StartBeginning`, and in the loop `NextLog`, `PadRevision`, `WriteHeader`,
`DoDiff`, `EndRevision`. `Fail` stands for every error return. `Number` and
`Wanted` say, without reference to the loop, which number a revision should
have and which should be dumped; `Wanted` goes by the argument as it was given,
not by what it was parsed to. `Kinds` names six kinds of requests that a
property does not hold for (see Findings); each run says which it admits.

**Main.** The steps of `Dump` between arguments, temporary directory, session
and exit. Subversion's initialization may fail before anything else (`Startup`).
An argument is one of four kinds by what it does to the control flow;
the options themselves are the request of `Dump`. Opening the session may fail
for any URL, and always does for one that does not exist; a URL that refers to a
file fails in `dump()` (`session_check_reparent`). The names of the variables and
the properties of `Dump` stay as they are, so that they are checked for the whole
program.

**SvnRepos.** What rsvndump relies on and does not contain. A tree maps paths to
nodes (kind, properties, content). Users prepare a commit by additions, copies
from any revision, deletions and changes; the changed paths are those that the
log reports. `Load` applies the records of a revision one after the other and
refuses what `svnadmin load` refuses: adding what exists, changing or deleting
what does not, copying from what is not there. A delta yields `Garbage` if it is
applied to another content than it was made from.

**DeltaEditor.** One action per function of the editor. The server compares the
last tree it described with the next one and calls the functions depth first, in
any order within a directory, properties before entries. `nodes` are the node
batons in the order of their creation, `open` the path to the current one.
`close_edit` is one action: the walk over the nodes (`delta_dump_node_recursive`),
which decides for every node whether and how it is dumped (`delta_check_copy`,
`delta_check_action`, `delta_propagate_copy`, `delta_dump_replace`), and the loop
over the deletions of the log (`PostDump`), in any order, since it is that of a
hash. Paths are sequences of names; the walks over parent pointers and over the
components of a path are written as the ancestor they find. The path repository
and the property storage are their abstract specifications, an immutable tree per
revision (`hist`, `work`) and a map (`saved`), which `PathRepo` and `PropStore`
implement. If the path repository has the path of an addition already, the callback
returns an error and the program stops (`phase` "failed"). A commit is dumped before users make the next one, which the program
cannot notice, since it only asks for revisions up to the one in work. `req` is
the request: prefix, start, and the options `--incremental`, `--keep-revnums` and
`--deltas`; `chatty` tells whether the log lists what a deleted tree held,
`encoded` whether the prefix needs URL encoding. The root's kind is never set by
the code: it is a choice. The part of `dump()` around the editor is condensed to
`Commit` and `EndRevision`; the numbers themselves are the subject of `Dump`.

## Runs

| run | shows | bounds |
|---|---|---|
| `PathRepoStore` | `TypeOK`; `TreeTracksHead`: the file always rebuilds the working tree; `SnapshotsPresent` | a directory with one entry, 3 revisions, snapshot every 2, cache of 2, 2 operations before another is scheduled |
| `PathRepoRefine` | `CacheCoherent`; `ImplementsVersionedTree` | the same with a place to copy to, cache of 1 |
| `CritBit` | `SplitsAtFirstDifference`, `ImplementsStringSet` | 7 strings, 11 prefixes |
| `PropStore` | `TypeOK`, `CountCovers`, `NoDangling`, `ZeroCollected`, `ImplementsPropMap` | 3 paths, 3 records of which 2 are equal, counts up to 2 |
| `Mukv` | `TypeOK`, `NeverUndefined`, `ImplementsKVMap` | 2 keys, records of 0 to 2 bytes, a file of 6 bytes |
| `Main` | of the loop: `TypeOK`, `NumbersSequential`, `NumbersAgree`, `RangeDumped`, `RepositoryInStep`, `DiffBaseKnown`, `CopiesExact`, `CommitsInOrder`; of the program: `CleanExit`, `ExitTells`, `Exits` | all repositories with 5 revisions, all options and ranges but four kinds, up to 2 arguments |
| `Delta` | `TypeOK`; `AlwaysLoads`, `LoadedMatches`: the dump can be loaded, and yields the trees that were dumped; `HistoryMatches`, `LocalCopiesRight`, `NoCopyLeft`, `PropsKept`: what is kept from revision to revision is right; `CopiesKept` | an import and two more commits of together 3 operations; a directory with a sub-directory, a file and room for copies, a place with a file outside, 2 contents, 1 property; 7 requests |
| `PathRepoLate`, `PathRepoGaps`, `DumpCreation`, `DumpShifted`, `DeltaPropdel` | the findings below | as above |

The bounds let the interesting cases happen: snapshots with and without changes
in their revision, wrap-around of the cache, the first revision after a
snapshot, a directory replaced together with its contents, records that reach
zero and are stored again before the cleanup, empty records at the end of the
file, gaps before, within and after the range, a range that starts before,
with and after the creation of the sub-directory. Crit-bit trees are determined
by their set of strings, so all reachable trees over the strings are covered.
In `Delta`, three operations are enough for a copy that is changed, replaced or
has a part deleted in the same commit, a copy of an older revision after its
source is gone, a deletion and a new node of the same name, changes in the first
revision of a range; the seven requests are a plain dump of the whole repository,
one of a directory with `--keep-revnums`, one of a directory within it, which a copy can bring along, one
of a directory whose name needs encoding, a range with
`--deltas`, and incremental dumps of the directory and, with `--deltas`, of all.
`MaxRev`, `MaxDelta`, `MaxCount`, `MaxSize`, `MaxOps`, `MaxArgs` and `Youngest`
are the only bounds, and none is needed by the proofs. Deadlock is not checked where a bound, an
error or the end of the dump stops the system.

Fairness: `Exits` holds under weak fairness of `MainStep`, all actions but those
for errors. The program is one thread that waits for nothing but answers of the
server, and every call of the library returns or fails. The other modules are
driven by their callers, who may stop at any time, and have no fairness.

## Findings

* **A stale tree in the cache** (`PathRepoLate`). In a dump that starts after
  revision 1, `close_edit` (`delta.c:1394`) asks for the revision in work. The
  tree is rebuilt from what is committed so far and cached under a number that
  gets its tree only afterwards; later lookups see the old one.
* **Missing snapshots** (`PathRepoGaps`). An incremental dump of a
  sub-directory with `--keep-revnums` commits the older revisions under their
  original numbers (`dump.c:376`), but only those in the log. If a multiple of
  the snapshot interval is not among them, trees are rebuilt from nothing.
* **The creating revision is lost** (`DumpCreation`). An incremental dump of a
  sub-directory whose range starts with its creation runs that revision dry.
* **Copy sources off by one** (`DumpShifted`). In a dump of the whole
  repository from a later revision on, indices in the list of logs are not the
  numbers in the dump, which `delta.c:1464` says `dump()` ensures.
* **Deleted properties come back** (`DeltaPropdel`). A deleted property is noted
  in `del_properties` only (`delta.c:1090`, `1286`) and is stored with the others;
  the next change of the node dumps it again, and the loaded repository has it.

Four more kinds of requests are excluded from a property and are listed as
hazards. Each was seen to violate the property when it was put in `Allowed` of
`DumpCreation.cfg` or `DumpShifted.cfg`:

| kind | request | property | cause |
|---|---|---|---|
| `single` | `-r X`, where X-1 changed the directory | `RangeDumped` | parsed as X-1:X (`main.c:136`), so that X-1 is dumped too; the manual says "Specify the revision (or revision range) that should be dumped" (`doc/rsvndump.txt:64`) |
| `stop` | `--stop X`, where X changed the directory | `RangeDumped` | `parse_revnum()` gets the same variable for both ends (`main.c:269`) and overwrites X by X-1, so that X is missing; "stop dumping at specified revision" (`ChangeLog:146`) |
| `unchanged` | a range in which a sub-directory did not change | `RangeDumped`, `NumbersAgree` | a log outside of the range is found and dumped (`log.c:210`) |
| `padded` | `--keep-revnums` with a range that starts before a change | `CopySourceExact` | a copy may refer to an empty padding revision (`delta.c:1455`) |

Single revisions and `--stop` are dumped just as the ranges that they are parsed to,
and those ranges are part of the run `Main` and of the theorems.

In the same way, `Kinds` of `DeltaEditor` names the commits for which a property
fails. Each kind was seen to violate the property given here when it was added to
`Allowed`; the run `Delta` leaves them out and covers all other commits.

| kind | commit | property | cause |
|---|---|---|---|
| `propdel` | changes a node that lost a property before | `NoDeletedProps`, `LoadedMatches` | see above |
| `rootprops` | changes a property of the root, which has others | `LoadedMatches` | `delta.c:912` does not load the stored ones |
| `copydel` | copies a node and deletes one of its properties | `LoadedMatches` | without `--deltas` and other changes the deletion is not dumped |
| `md5` | copies a file and gives it a content that its source had later | `LoadedMatches` | `delta.c:698`: checksums are by path, not by revision |
| `kind` | replaces a node by one of the other kind | `AlwaysLoads` | `delta.c:546`: deleted twice |
| `replaced` | changes something inside a copy that replaces a directory, or loses a file with the replaced one | both | `dump.c:154`: the server ignores ancestry and opens the directory |
| `range` | in the first revision of a range, replaces a node, or leaves a changed directory without properties | `AlwaysLoads` | `delta.c:599`, `623` |
| `rootcopy` | copies the session's root | `AlwaysLoads` | `delta.c:431`: lookups of "/child" |
| `sibling` | copies from a directory whose name begins with that of the session's | `AlwaysLoads` | `delta.c:247` |
| `late` | deletes in the first revision of a range | `AlwaysLoads` | `delta.c:1394`, as in `PathRepoLate` |
| `creation` | creates the directory with which an incremental dump starts | | `DumpCreation` |
| `above` | before the start of an incremental dump, creates its directory by a copy of one above it | `HistoryMatches` | `log.c:94`: the log leaves the copy out |

Outside of the properties: if the session cannot be opened the exit status is 0
(`main.c:348`), where `doc/rsvndump.txt` says 1 on failure; `ExitTells` is stated
for opened sessions.

## Proofs

All theorems hold for every value of the constants that satisfies the named
assumptions of the modules: intervals, cache sizes and bounds are natural
numbers, sets of paths are finite, values are byte strings, and so on.

* `PathRepoTypeOK`: type correctness in every mode.
* `StoreCorrect`, `CacheCorrect`, `PathRepoRefinesVersionedTree`: for the modes
  "full" and "mid" (the others are the subject of the findings). The inductive
  invariant `Inv` joins `TreeTracksHead`, `SnapshotsPresent`, `CacheCoherent`
  and `LookupsExact` with the order of commits: `TreeTracksHead` is inductive
  only because the next revision is always `head + 1`, so that either a
  snapshot is due or the last snapshot stays the same (`ReconstructStep`), and
  `CacheCoherent` only because a commit never changes what older revisions are
  rebuilt from (`ReconstructStable`).
* `PropStoreSafe`, `PropStoreRefinesPropMap`: `CountCovers` and `NoDangling`
  need each other and the additional `Backed` (every counted record is on
  file). The heart is the cleanup: a record with an entry has a positive count.
  Cardinalities of the sets of users change by at most one (`UsersDrop`,
  `UsersPut`), from the theorems about finite sets.
* `MukvSafe`, `MukvRefinesKVMap`: after a write the stream is at the end of the
  file, where only empty records can start; appending leaves what is in the
  file as it is (`AppendKeeps`).
* `DumpTypeOK`, `DumpNumbersSequential`, `DumpDiffBaseKnown`, `DumpCopiesExact`
  for all requests; `DumpNumbersAgree` unless the directory did not change in
  the range; `DumpRepositoryInStep` and the action property `DumpCommitsInOrder`
  unless an incremental dump begins with the creation of the directory;
  `DumpRangeDumped` with both exceptions, and those for single revisions and
  `--stop` (`NotTheRange`). These are the kinds of requests for
  which the properties are false (see Findings), and the hypotheses are about
  the constant `Allowed`, so that each theorem covers all other requests.
  None of the properties is inductive. `Control` (in `DumpControl`) says at each
  place of the loop which revision is in work, how it relates to the list of logs,
  the range and the base of the next diff, and that the next revision is the
  next log: a dump that fetches logs one by one (`FromStart`) and one that has
  them all (`FromMiddle`) establish this in different ways and are treated apart.
  On top of it, `NumbersInLoop` relates `local_rev` to the revision in work,
  `Indexed` makes indexes of the list numbers of the dump, `RepoInv` relates
  `pr_head` to `local_rev`, and `RangeInv` says which part of the range has been
  written. The joint invariant is `Inv`.
  The numbers are ranks: the number of a revision is how many logs there are up
  to it. `Lemmas` proves what is needed of them without induction: the
  next element has the next rank (`RankNext`), ranks are strictly monotone
  (`RankMono`), and the list by rank is complete by the pigeonhole principle
  (`SortedFacts`). The existence of a least and a greatest element comes from the
  well-foundedness of the natural numbers.
* `MainDumpSafe`, `MainDumpRight`: the same for the whole program, since every step
  of `Main` is one of `Dump` or leaves its variables alone (`MainStepsDump`).
* `MainCleanExit`, `MainExitTells`: `Staged` says what each stage of `main()`
  knows of the directory, the session and `ret`; neither property is inductive
  without it.
* `DeltaTypeOK`: the node batons form a tree and the open ones are a path in it,
  for every history and every order of the callbacks. Its invariant adds that
  the paths of all trees, those of the server's description included, are
  sequences of names (`Committed`, `Placed`; stripping the session's prefix keeps
  this, `StrippedType`), and that the actions in the log are the four known ones.
* `DeltaHistoryMatches`, `DeltaPropsKept`, `DeltaLocalCopiesRight`, `DeltaNoCopyLeft`:
  what the program keeps from revision to revision. They share the invariant
  `FollowInv`, which has four parts. `Trees`: with a path, a tree has the
  directories that it is in (so nothing is below what does not exist), and the
  dumped directory is one. `Explained`: every difference between the commit and the
  revision it is based on lies at or below a changed path that is more than a
  modification, what is gone lies at or below a deleted or replaced one, and what
  the log calls deleted is gone; this lets the program skip a revision whose log
  does not touch the directory (`Untouched`), and each operation of users keeps it
  (`AddExplained`, `ModifyExplained`, `DeleteExplained`). `Walk`: the server works
  inside of what it has described, and when it closes the root there is no
  difference left but, perhaps, in the root's properties (`RootClosed`). `Started`:
  this agreement lasts until the next edit. On top of it:
  * `Tracked`, for `HistoryMatches`: during an edit the working tree of the path
    repository is what the server has described, and in a dry run the prepared tree
    is kept. So the path of an addition, which the server has not described yet, is
    not in the working tree, and `path_repo_add()` never refuses it. Proved for all
    commits but the kind `above`, for which it is false.
    The other theorems do not need `Tracked`, and allow for additions that are
    refused: then there is no further step (`FailedStays`).
  * `KeepInv`, for `PropsKept` and `LocalCopiesRight`, which are proved for all
    commits: the content that the server has described is in the local copy
    (`CopiesFollow`), so that every delta is applied to the content it was made
    from; the properties that it has described are in the node while it is open and
    in the storage when it is not (`PropsFollow`); a node that is going to lose one is
    known to (`LossesNoted`); and the server only enters what stays (`Served`).
  * `RemoveInv`, for `NoCopyLeft`: a file that goes from directories that stay is in
    the log itself (`RemovedFile`), and so every other entry of the table belongs to a
    file that the server has described. Proved for all commits but the kinds `kind` and
    `replaced`, for which it is false.
* `CritBitSplits`, `CritBitRefinesStringSet`: the crit-bit tree is right for all
  strings. The invariant `Good` has six parts: the addresses are those of a binary
  tree (`Shape`, `LeavesEnd`, `Branches`); two nodes that are not above each other
  are below different children of a third (`Forks`); the strings below a node agree
  up to its place and differ there as its children say (`Splits`, the property
  itself); and places come in order on every way down (`Ordered`). Both the
  place of a new node and the end of a walk rest on the last one. It would follow from
  `Splits`, as every node has leaves below both of its children, but by an induction
  on the depth; as a part of the invariant it needs none. Nor does a descent: a way
  is linear by `Forks` (`WayLinear`) and ends at a leaf since its longest address
  cannot be that of an inner node (`WayEnds`). Along this:
  * insertion: the first bit in which the string differs from the one that was found
    is the first bit in which it differs from any below the place found for it
    (`FirstDifference`, `InsertFits`); so the new node fits there, and `Link` keeps
    every part of the invariant (`LinkShape`, `LinkForks`, `LinkSplits`, `LinkInner`);
  * deletion: `Was` maps every node that is left to where it was; it keeps what is above
    what, and in which direction (`WasPairs`), and hence everything (`UnlinkGood`);
  * walks: nodes above the one that the walk starts from split within the prefix and it
    does not itself, so that the leaves below it are those with the prefix
    (`TopMatches`), provided there is one; and to the left of is smaller, because the
    highest bit in which two bytes differ decides (`BitLess`, `LeftLess`).

Only model-checked: liveness (`Exits`); and `AlwaysLoads`, `LoadedMatches` and
`CopiesKept` of `DeltaEditor`, which relate the output of two recursive functions, the
walk over the nodes and the loader, for which the prover has no induction.

## Not modelled

The text of the dump format, lengths and checksums in it, compression (`snappy`,
vendored), the network, authentication, messages, the prefix that `--prefix`
puts before all paths. The obfuscation of names (`session.c`) is a renaming by a
random injective map; hazards name where it meets the preparation of incremental
dumps. `rhash.c` is a partial function in `Mukv`, `PropStore` and `DeltaEditor`.
Failing reads of the temporary files in `PathRepo` and `DeltaEditor`. Memory: two
hazards are about released or uninitialised memory and have no property.

## Plan

Done, in this order: `PathRepo` with its abstraction and proofs, `PropStore`,
`Dump`, `Mukv`, `CritBit`; then `SvnRepos` with `DeltaEditor`, and `Main`. Left:

1. Failing reads in `PathRepo`, and the editor's treatment of the error.
2. The obfuscation of `session.c`.
