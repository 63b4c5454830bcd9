------------------------------ MODULE MCDelta -------------------------------
(***************************************************************************)
(* DeltaEditor on small instances.  The directory <<1>> is dumped, or all. *)
(* It has room for a directory with a file and for a copy of it; <<2>> is  *)
(* a place outside.  The first commit either creates the directory or not. *)
(***************************************************************************)
EXTENDS DeltaEditor, TLC

MCPath == {<<1>>, <<1, 1>>, <<1, 1, 1>>, <<1, 2>>, <<1, 2, 1>>, <<2>>, <<2, 1>>}

Plain == Dir(NoProps)
MCImports ==
    {(<<1>> :> Plain) @@ (<<1, 1>> :> Plain)
       @@ (<<1, 1, 1>> :> File([n \in Prop |-> 1], "t1"))
       @@ (<<2>> :> File(NoProps, "t1")) @@ EmptyTree,
     (<<2>> :> Plain) @@ (<<2, 1>> :> Plain) @@ EmptyTree}

\* All of the repository; a directory with --keep-revnums; one inside it; one
\* with a name that needs to be encoded; a range of the directory with --deltas;
\* incremental dumps of it and, with --deltas, of the whole repository.
Default == [prefix |-> <<1>>, start |-> 0, incremental |-> FALSE, keep |-> FALSE,
            deltas |-> FALSE, chatty |-> TRUE, encoded |-> FALSE]
MCRequests ==
    {[Default EXCEPT !.prefix = Root],
     [Default EXCEPT !.keep = TRUE],
     [Default EXCEPT !.prefix = <<1, 1>>],
     [Default EXCEPT !.encoded = TRUE],
     [Default EXCEPT !.start = 2, !.deltas = TRUE, !.chatty = FALSE],
     [Default EXCEPT !.start = 2, !.incremental = TRUE],
     [Default EXCEPT !.prefix = Root, !.start = 2, !.incremental = TRUE,
                     !.deltas = TRUE, !.chatty = FALSE]}
=============================================================================
