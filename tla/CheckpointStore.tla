-------------------------- MODULE CheckpointStore --------------------------
(***************************************************************************)
(* What mcp-server/src/checkpoint.ts promises its callers: one durable     *)
(* state that a save replaces at once or not at all, that only a request   *)
(* to erase removes, and that a reader sets aside only when it is bad.     *)
(***************************************************************************)
CONSTANTS Procs, States, None, Bad, MayTamper

VARIABLES
    stored, \* the durable state: one of States, None, or Bad
    asked,  \* what each process was asked to do: "nothing", "save", "load", "erase"
    wanted, \* the state each process saves next, or None
    acked   \* the state of each process's last save that reported success

vars == <<stored, asked, wanted, acked>>

Requests == {"nothing", "save", "load", "erase"}

Init == stored = None /\ acked = [p \in Procs |-> None]
        /\ asked = [p \in Procs |-> "nothing"] /\ wanted = [p \in Procs |-> None]

\* A save becomes durable and reports success in one step.
Commit(p) ==
    /\ asked[p] = "save"
    /\ stored' = wanted[p]
    /\ acked' = [acked EXCEPT ![p] = wanted[p]]

\* A reader moves a bad checkpoint out of the way, never a good one.
SetAside(p) == asked[p] = "load" /\ stored = Bad /\ stored' = None /\ UNCHANGED acked

EraseStored(p) == asked[p] = "erase" /\ stored' = None /\ UNCHANGED acked

Tamper == MayTamper /\ stored # None /\ stored' = Bad /\ UNCHANGED acked

\* Requests come and go, fail, or are cut short by a crash.
Request == UNCHANGED <<stored, acked>>

Next ==
    /\ asked' \in [Procs -> Requests]
    /\ wanted' \in [Procs -> States \cup {None}]
    /\ \/ \E p \in Procs : Commit(p) \/ SetAside(p) \/ EraseStored(p)
       \/ Tamper
       \/ Request

Spec == Init /\ [][Next]_vars
=============================================================================
