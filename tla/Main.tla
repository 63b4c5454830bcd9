-------------------------------- MODULE Main --------------------------------
(***************************************************************************)
(* main.c and session.c around dump(): arguments, temporary directory,     *)
(* session, cleanup and exit status.  The steps of dump() are those of     *)
(* Dump.tla, which this module extends; its request is what the options of *)
(* the command line say.                                                   *)
(***************************************************************************)
EXTENDS Dump

CONSTANT MaxArgs    \* bound: number of arguments

ASSUME MaxArgsAssumption == MaxArgs \in Nat

VARIABLES
    args,        \* arguments that are left
    url_given,   \* session.url != NULL
    url,         \* what the URL refers to; never changes
    stage,       \* where main() is
    temp_dir,    \* the temporary directory: "none", "empty" or "used"
    session,     \* "none", "open" or "closed"
    ret,         \* the variable of main()
    exit         \* "none", or the exit status

mainvars == <<args, url_given, url, stage, temp_dir, session, ret, exit>>
allvars == <<vars, mainvars>>

\* Arguments: the URL; --help or --version; a valid option; anything else
\* (unknown, without its value, with an invalid range).
Argument == {"url", "help", "option", "invalid"}

MainInit ==
    /\ Init
    /\ args \in UNION {[1 .. n -> Argument] : n \in 0 .. MaxArgs}
    /\ url \in {"dir", "file", "nothing"}
    /\ url_given = FALSE /\ stage = "startup"
    /\ temp_dir = "none" /\ session = "none"
    /\ ret = 0 /\ exit = "none"

\* The label "finish"; "failure" sets ret before.
finish(r) ==
    /\ stage' = "exit"
    /\ ret' = r
    /\ exit' = IF r = 0 THEN "success" ELSE "failure"

\* svn_cmdline_init() may fail, before there is anything to clean up; otherwise
\* the session and the options are created.
Startup ==
    /\ stage = "startup"
    /\ \/ finish(1)
       \/ stage' = "arguments" /\ UNCHANGED <<ret, exit>>
    /\ UNCHANGED <<vars, args, url_given, url, temp_dir, session>>

\* One round of the loop over the arguments.
ParseArgument ==
    /\ stage = "arguments" /\ args # <<>>
    /\ args' = Tail(args)
    /\ CASE Head(args) = "help" -> finish(0) /\ UNCHANGED url_given
         [] Head(args) = "option" -> UNCHANGED <<url_given, stage, ret, exit>>
         [] Head(args) = "url" /\ ~url_given ->
              url_given' = TRUE /\ UNCHANGED <<stage, ret, exit>>
         [] OTHER -> finish(1) /\ UNCHANGED url_given
    /\ UNCHANGED <<vars, url, temp_dir, session>>

\* "URL given ?", and mkdtemp(), which may fail.
MakeTempDir ==
    /\ stage = "arguments" /\ args = <<>>
    /\ \/ finish(1) /\ UNCHANGED temp_dir
       \/ /\ url_given
          /\ temp_dir' = "empty"
          /\ stage' = "open"
          /\ UNCHANGED <<ret, exit>>
    /\ UNCHANGED <<vars, args, url_given, url, session>>

\* session_open(): every call of the library may fail; the last ones find out
\* the repository's root, and with it whether a sub-directory is dumped.
session_open ==
    /\ stage = "open" /\ url # "nothing"
    /\ session' = "open"
    /\ stage' = "dump"
    /\ UNCHANGED <<vars, args, url_given, url, temp_dir, ret, exit>>

\* Removes the temporary directory with all it holds; errors are not looked at,
\* and it is assumed here that there are none.
utils_rrmdir == temp_dir' = "none"

\* The connection goes with the pool of the session.
session_close == session' = "closed"

\* A slip: the temporary directory is forgotten.
OpenFailedNoCleanup ==
    /\ stage = "open"
    /\ finish(ret)
    /\ UNCHANGED <<vars, args, url_given, url, temp_dir, session>>

\* The branch of main() for a session that cannot be opened: ret is not set.
OpenFailed ==
    /\ stage = "open"
    /\ utils_rrmdir
    /\ finish(ret)
    /\ UNCHANGED <<vars, args, url_given, url, session>>

\* "Check if the current root is a file": only directories can be dumped.
session_check_reparent == phase = "range" => url = "dir"

\* A step of dump(), which keeps its files in the temporary directory.
DumpStep ==
    /\ stage = "dump"
    /\ phase \notin {"done", "failed"}
    /\ IF session_check_reparent THEN Step ELSE Fail
    /\ temp_dir' = "used"
    /\ UNCHANGED <<args, url_given, url, stage, session, ret, exit>>

DumpFails == stage = "dump" /\ Fail /\ UNCHANGED mainvars

\* A slip: what dump() returns is not looked at.
DumpIgnored ==
    /\ stage = "dump" /\ phase \in {"done", "failed"}
    /\ session_close
    /\ utils_rrmdir
    /\ finish(0)
    /\ UNCHANGED <<vars, args, url_given, url>>

\* "Clean up temporary directory on success".
DumpReturns ==
    /\ stage = "dump" /\ phase \in {"done", "failed"}
    /\ session_close
    /\ IF phase = "done" THEN utils_rrmdir ELSE UNCHANGED temp_dir
    /\ finish(IF phase = "done" THEN 0 ELSE 1)
    /\ UNCHANGED <<vars, args, url_given, url>>

MainStep ==
    \/ Startup \/ ParseArgument \/ MakeTempDir
    \/ session_open \/ OpenFailed
    \/ DumpStep \/ DumpReturns

MainNext == MainStep \/ DumpFails

\* As in Dump.tla: one thread, no errors need to happen.
MainSpec == MainInit /\ [][MainNext]_allvars /\ WF_allvars(MainStep)
-----------------------------------------------------------------------------
(***************************************************************************)
(* Properties                                                              *)
(***************************************************************************)

\* "Clean up temporary directory on success" (main.c:340): the files are gone
\* whenever the exit status says that all is well, and a session is not left
\* open.
CleanExit ==
    exit = "success" => temp_dir = "none" /\ session # "open"

\* "0 on success, 1 on failure" (doc/rsvndump.txt:194), for a program that got
\* as far as opening the session: a dump that broke off, in whatever step, is
\* never taken for a complete one, nor the other way round.
ExitTells ==
    exit # "none" /\ session # "none" => (exit = "success" <=> phase = "done")

\* The program comes to an end, whatever the arguments.
Exits == <>(exit # "none")
=============================================================================
