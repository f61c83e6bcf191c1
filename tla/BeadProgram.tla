---------------------------- MODULE BeadProgram ----------------------------
(***************************************************************************)
(* What the waves promise of the beads of a goal, whichever tool moves     *)
(* them.  As long as nothing goes wrong, a bead is begun only when it is   *)
(* open, unattended and has what it needs; then one implementer is sent to *)
(* it; it is closed or deferred only after it was begun, or closed with    *)
(* the last of its children; and it is never opened again.  Whatever goes  *)
(* wrong, no bead is begun before what it needs was done.                  *)
(***************************************************************************)
EXTENDS Naturals

CONSTANTS Beads, Needs, Parent

VARIABLES
    status,   \* of each bead
    workers,  \* the implementers at work on each bead
    done,     \* the beads that were ever closed
    troubled  \* whether br failed, calls overlapped or advance_wave was used

vars == <<status, workers, done, troubled>>

Init ==
    /\ status = [b \in Beads |-> "open"] /\ workers = [b \in Beads |-> 0]
    /\ done = {} /\ troubled = FALSE

Due(b)    == Needs[b] \subseteq done
Becomes(b, s) == status' = [status EXCEPT ![b] = s]

Start(b) ==
    /\ status[b] = "open" /\ workers[b] = 0 /\ Due(b)
    /\ Becomes(b, "in_progress") /\ UNCHANGED <<workers, done>>

Send(bs) ==
    /\ \A b \in bs : status[b] = "in_progress" /\ workers[b] = 0 /\ Due(b)
    /\ workers' = [b \in Beads |-> IF b \in bs THEN 1 ELSE workers[b]]
    /\ UNCHANGED <<status, done>>

Children(b) == {d \in Beads : Parent[d] = b}
Whole(b)    == Children(b) # {} /\ \A d \in Children(b) : status[d] = "closed"
Close(b) ==
    /\ status[b] # "open" \/ Whole(b)
    /\ Becomes(b, "closed") /\ done' = done \cup {b} /\ UNCHANGED workers

Defer(b) == status[b] # "open" /\ Becomes(b, "deferred") /\ UNCHANGED <<workers, done>>

\* The implementer is done, with the bead closed or left to the review.
Leave(b) ==
    /\ workers[b] = 1 /\ status[b] # "open"
    /\ workers' = [workers EXCEPT ![b] = 0]
    /\ \/ UNCHANGED <<status, done>>
       \/ Becomes(b, "closed") /\ done' = done \cup {b}

Smooth == (\E b \in Beads : Start(b) \/ Close(b) \/ Defer(b) \/ Leave(b)) \/ \E bs \in SUBSET Beads : Send(bs)

\* What holds of a step even after something went wrong.
Careful ==
    /\ done \subseteq done'
    /\ \A b \in Beads :
        /\ workers'[b] > workers[b] => Due(b)
        /\ status[b] = "open" /\ status'[b] = "in_progress" => Due(b)
        /\ status'[b] = "closed" => b \in done'

Next == \/ ~troubled /\ ~troubled' /\ Smooth
        \/ troubled' /\ Careful

Spec == Init /\ [][Next]_vars
=============================================================================
