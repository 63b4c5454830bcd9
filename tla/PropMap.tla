------------------------------ MODULE PropMap -------------------------------
(***************************************************************************)
(* What the property storage promises to the delta editor (property.h):    *)
(* the properties a node was closed with come back when it is opened the   *)
(* next time, unless they were deleted in between.  Identifiers, reference *)
(* counts and garbage collection do not show: PropStore.tla implements     *)
(* this.                                                                   *)
(***************************************************************************)
CONSTANTS Path, Root, Props, NoProps

VARIABLES
    saved,     \* path |-> its saved properties, NoProps if there are none
    call,      \* the editor's last call: its path and the properties passed
    status     \* "ok", or "io" once reading or writing the file has failed

pmvars == <<saved, call, status>>

Call(op, p, props) == call' = [op |-> op, path |-> p, props |-> props]

PMInit ==
    /\ saved = [p \in Path |-> NoProps]
    /\ call = [op |-> "start", path |-> Root, props |-> NoProps]
    /\ status = "ok"

Store(p, props) ==
    /\ saved' = [saved EXCEPT ![p] = props]
    /\ Call("store", p, props)

\* Loading hands the properties over to the node.
Load(p) ==
    /\ Call("load", p, saved[p])
    /\ saved' = [saved EXCEPT ![p] = NoProps]

Delete(p) ==
    /\ saved' = [saved EXCEPT ![p] = NoProps]
    /\ Call("delete", p, NoProps)

\* A new node is opened: what was saved for its path stays until it is closed.
Create(p) ==
    /\ Call("create", p, NoProps)
    /\ UNCHANGED saved

Fault ==
    /\ status' = "io"
    /\ UNCHANGED <<saved, call>>

PMNext ==
    /\ status = "ok"
    /\ \/ /\ \E p \in Path :
                \/ \E props \in Props \cup {NoProps} : Store(p, props)
                \/ Load(p)
                \/ Delete(p)
                \/ Create(p)
          /\ UNCHANGED status
       \/ Fault

PMSpec == PMInit /\ [][PMNext]_pmvars
=============================================================================
