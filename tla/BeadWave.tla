------------------------------ MODULE BeadWave ------------------------------
(***************************************************************************)
(* The waves of implementation: flywheel_approve_beads action="start",     *)
(* flywheel_review of one bead (looks-good, skip) and                      *)
(* flywheel_advance_wave, over the beads that `br` keeps (mcp-server/src/  *)
(* tools/approve.ts, review.ts, verify-beads.ts, advance-wave.ts).         *)
(*                                                                         *)
(* A call loads the checkpoint when it begins and saves its own copy: what *)
(* calls do between two `br` commands is one action, and other calls and   *)
(* the implementers run in between.  `br` itself is external: `br ready`   *)
(* lists the open beads whose dependencies are closed.                     *)
(***************************************************************************)
EXTENDS Naturals

CONSTANTS
    Beads,     \* the beads of the goal's program
    Needs,     \* the beads that each bead depends on
    Parent,    \* the parent of a bead, or NoBead
    NoBead,
    Calls,     \* the tool calls that may be in flight at once
    Ops,       \* the tools the coordinator uses
    MaxTrouble \* bound on trouble: failures of br, overlapping calls, advance_wave calls

ASSUME WaveAssumption ==
    /\ Needs \in [Beads -> SUBSET Beads]
    /\ NoBead \notin Beads /\ Parent \in [Beads -> Beads \cup {NoBead}]
    /\ Ops \subseteq {"start", "looks-good", "skip", "advance"}
    /\ MaxTrouble \in Nat

VARIABLES
    st,        \* the checkpoint: phase and beadResults
    bead,      \* the status of each bead in br
    call,      \* the call in each slot
    lock,      \* whether the approve-start mutex is held
    agents,    \* the implementers at work on each bead, up to 2
    closed,    \* history: the beads that were ever closed
    launched,  \* history: the beads that were ever launched
    trouble    \* history: how often br failed, calls overlapped or advance_wave was called

vars == <<st, bead, call, lock, agents, closed, launched, trouble>>

Statuses == {"open", "in_progress", "closed", "deferred"}
Phases   == {"awaiting_bead_approval", "implementing", "iterating"}
State    == [phase : Phases, results : [Beads -> {"none", "success", "blocked"}]]

\* A call: where it is, its copy of the checkpoint, and the beads it has still
\* to do and has done.
Idle == [op |-> "none", at |-> "none", bead |-> NoBead, s |-> [phase |-> "none"], todo |-> {}, done |-> {}]
Places == {"list", "ready", "lock", "mark", "rollback", "show", "update", "parent", "close",
           "launch", "verify"}
Call == [op : Ops, at : Places, bead : Beads \cup {NoBead}, s : State,
         todo : SUBSET Beads, done : SUBSET Beads]

Init ==
    /\ st = [phase |-> "awaiting_bead_approval", results |-> [b \in Beads |-> "none"]]
    /\ bead = [b \in Beads |-> "open"]
    /\ call = [c \in Calls |-> Idle]
    /\ lock = FALSE
    /\ agents = [b \in Beads |-> 0]
    /\ closed = {} /\ launched = {} /\ trouble = 0

-----------------------------------------------------------------------------
\* What br answers.
Ready  == {b \in Beads : bead[b] = "open" /\ \A d \in Needs[b] : bead[d] = "closed"}
Active == {b \in Beads : bead[b] \in {"open", "in_progress"}}

\* The bound: something goes wrong only so many times.
Trouble(happens) == IF happens THEN trouble < MaxTrouble /\ trouble' = trouble + 1
                               ELSE UNCHANGED trouble

\* br update b --status s, which may fail and leave the bead as it is.
BrUpdate(b, s, ok) ==
    /\ bead' = IF ok THEN [bead EXCEPT ![b] = s] ELSE bead
    /\ closed' = IF ok /\ s = "closed" THEN closed \cup {b} ELSE closed
    /\ Trouble(~ok)

BrReads(ok) == Trouble(~ok) /\ UNCHANGED <<bead, closed>>
NoBr == UNCHANGED <<bead, closed, trouble>>

\* Implementers are sent to the beads of a launch.
Launch(bs) ==
    /\ agents' = [b \in Beads |-> IF b \in bs /\ agents[b] < 2 THEN agents[b] + 1 ELSE agents[b]]
    /\ launched' = launched \cup bs

Finish(c)     == call' = [call EXCEPT ![c] = Idle]
Goto(c, at)   == call' = [call EXCEPT ![c].at = at]
At(c, op, at) == call[c].op = op /\ call[c].at = at
My(c)         == call[c].s

\* A call begins: the server loads the checkpoint.
Begin(c, op, b, at, todo) ==
    /\ op \in Ops /\ call[c] = Idle
    /\ call' = [call EXCEPT ![c] = [op |-> op, at |-> at, bead |-> b, s |-> st, todo |-> todo, done |-> {}]]
    /\ Trouble(op = "advance" \/ \E d \in Calls : call[d] # Idle)
    /\ UNCHANGED <<st, bead, lock, agents, closed, launched>>

-----------------------------------------------------------------------------
\* runApprove lists the beads and enters the approval; an empty program ends it.
StartListed(c) ==
    /\ At(c, "start", "list")
    /\ \E ok \in BOOLEAN :
         /\ BrReads(ok)
         /\ \/ ~ok /\ Finish(c) /\ UNCHANGED st
            \/ ok /\ Active = {} /\ Finish(c) /\ st' = My(c)
            \/ /\ ok /\ Active # {}
               /\ st' = [My(c) EXCEPT !.phase = "awaiting_bead_approval"]
               /\ call' = [call EXCEPT ![c].at = "ready", ![c].s = st']
    /\ UNCHANGED <<lock, agents, launched>>

\* handleStart: the ready beads, and a prompt for each, before the mutex.
StartReady(c) ==
    /\ At(c, "start", "ready")
    /\ \E ok \in BOOLEAN :
         /\ BrReads(ok)
         /\ IF ok /\ Ready # {}
            THEN call' = [call EXCEPT ![c].at = "lock", ![c].todo = Ready]
            ELSE Finish(c)
    /\ UNCHANGED <<st, lock, agents, launched>>

\* Mutant: nobody looks whether the mutex is held.
StartUnlocked(c) ==
    /\ At(c, "start", "lock")
    /\ Goto(c, "mark")
    /\ lock' = TRUE
    /\ NoBr /\ UNCHANGED <<st, agents, launched>>

\* acquireBeadMutex("approve-start:cwd"): the second caller is refused.
StartLock(c) ==
    /\ At(c, "start", "lock")
    /\ IF lock THEN Finish(c) ELSE Goto(c, "mark")
    /\ lock' = TRUE
    /\ NoBr /\ UNCHANGED <<st, agents, launched>>

\* Mutant: the marks stay when one of them fails.
StartMarkStays(c) ==
    /\ At(c, "start", "mark")
    /\ \E b \in call[c].todo, ok \in BOOLEAN :
         /\ BrUpdate(b, "in_progress", ok)
         /\ call' = IF ok THEN [call EXCEPT ![c].todo = @ \ {b}, ![c].done = @ \cup {b}]
                          ELSE [call EXCEPT ![c].at = "rollback", ![c].done = {}]
    /\ UNCHANGED <<st, lock, agents, launched>>

\* Each bead is marked in_progress; at the first failure the marks go back.
StartMark(c) ==
    /\ At(c, "start", "mark")
    /\ \E b \in call[c].todo, ok \in BOOLEAN :
         /\ BrUpdate(b, "in_progress", ok)
         /\ call' = IF ok THEN [call EXCEPT ![c].todo = @ \ {b}, ![c].done = @ \cup {b}]
                          ELSE [call EXCEPT ![c].at = "rollback"]
    /\ UNCHANGED <<st, lock, agents, launched>>

StartRollback(c) ==
    /\ At(c, "start", "rollback")
    /\ \E b \in call[c].done, ok \in BOOLEAN :
         /\ BrUpdate(b, "open", ok)
         /\ call' = [call EXCEPT ![c].done = @ \ {b}]
    /\ UNCHANGED <<st, lock, agents, launched>>

\* Mutant: the early return after a rollback keeps the mutex.
StartRolledBackLocked(c) ==
    /\ At(c, "start", "rollback") /\ call[c].done = {}
    /\ Finish(c)
    /\ NoBr /\ UNCHANGED <<st, lock, agents, launched>>

\* The call returns an error, and the finally block releases the mutex.
StartRolledBack(c) ==
    /\ At(c, "start", "rollback") /\ call[c].done = {}
    /\ Finish(c)
    /\ lock' = FALSE
    /\ NoBr /\ UNCHANGED <<st, agents, launched>>

\* Every bead is marked: the wave is launched with fresh results.
StartLaunch(c) ==
    /\ At(c, "start", "mark") /\ call[c].todo = {}
    /\ st' = [phase |-> "implementing", results |-> [b \in Beads |-> "none"]]
    /\ lock' = FALSE
    /\ Launch(call[c].done)
    /\ Finish(c)
    /\ NoBr

-----------------------------------------------------------------------------
\* runReview looks the bead up: a closed one is reconciled, a reviewed one is
\* not reviewed again.
ReviewShow(c) ==
    LET b == call[c].bead
        s == IF My(c).results[b] = "none" THEN [My(c) EXCEPT !.results[b] = "success"] ELSE My(c)
    IN /\ call[c].at = "show"
       /\ \E ok \in BOOLEAN :
            /\ BrReads(ok)
            /\ CASE ~ok \/ (bead[b] = "closed" /\ call[c].op = "skip")
                      \/ (bead[b] # "closed" /\ My(c).results[b] = "success") ->
                      Finish(c) /\ UNCHANGED st
                 [] ok /\ bead[b] = "closed" /\ call[c].op = "looks-good" ->
                      /\ call' = [call EXCEPT ![c].at = "ready", ![c].s = s]
                      /\ st' = IF s = My(c) THEN st ELSE s
                 [] OTHER -> Goto(c, "update") /\ UNCHANGED st
       /\ UNCHANGED <<lock, agents, launched>>

\* Mutant: success is recorded without closing the bead.
ReviewUnclosed(c) ==
    LET b == call[c].bead
        s == [My(c) EXCEPT !.results[b] = "success"]
    IN /\ At(c, "looks-good", "update")
       /\ NoBr
       /\ call' = [call EXCEPT ![c].at = IF Parent[b] = NoBead THEN "ready" ELSE "parent", ![c].s = s]
       /\ st' = IF Parent[b] = NoBead THEN s ELSE st
       /\ UNCHANGED <<lock, agents, launched>>

\* looks-good: what br says to the update is not looked at.
ReviewClose(c) ==
    LET b == call[c].bead
        s == [My(c) EXCEPT !.results[b] = "success"]
    IN /\ At(c, "looks-good", "update")
       /\ \E ok \in BOOLEAN : BrUpdate(b, "closed", ok)
       /\ call' = [call EXCEPT ![c].at = IF Parent[b] = NoBead THEN "ready" ELSE "parent", ![c].s = s]
       /\ st' = IF Parent[b] = NoBead THEN s ELSE st
       /\ UNCHANGED <<lock, agents, launched>>

\* Mutant: the parent is closed with the first of its children.
ReviewOnlyChild(c) ==
    /\ At(c, "looks-good", "parent")
    /\ \E ok \in BOOLEAN :
         /\ BrReads(ok)
         /\ IF ok THEN Goto(c, "close") /\ UNCHANGED st ELSE Goto(c, "ready") /\ st' = My(c)
    /\ UNCHANGED <<lock, agents, launched>>

\* The parent is closed with the last of its children.
ReviewSiblings(c) ==
    LET siblings == {b \in Beads : Parent[b] = Parent[call[c].bead]}
    IN /\ At(c, "looks-good", "parent")
       /\ \E ok \in BOOLEAN :
            /\ BrReads(ok)
            /\ IF ok /\ \A b \in siblings : bead[b] = "closed" \/ b = call[c].bead
               THEN Goto(c, "close") /\ UNCHANGED st
               ELSE Goto(c, "ready") /\ st' = My(c)
       /\ UNCHANGED <<lock, agents, launched>>

ReviewParent(c) ==
    LET p == Parent[call[c].bead]
    IN /\ At(c, "looks-good", "close")
       /\ \E ok \in BOOLEAN : BrUpdate(p, "closed", ok)
       /\ st' = [My(c) EXCEPT !.results[p] = "success"]
       /\ call' = [call EXCEPT ![c].at = "ready", ![c].s = st']
       /\ UNCHANGED <<lock, agents, launched>>

\* skip: the bead is deferred.
ReviewSkip(c) ==
    /\ At(c, "skip", "update")
    /\ \E ok \in BOOLEAN : BrUpdate(call[c].bead, "deferred", ok)
    /\ st' = [My(c) EXCEPT !.results[call[c].bead] = "blocked"]
    /\ call' = [call EXCEPT ![c].at = "ready", ![c].s = st']
    /\ UNCHANGED <<lock, agents, launched>>

\* Mutant: the next beads are all the open ones.
OpenBeads(s) == {b \in Beads : bead[b] = "open" /\ s.results[b] # "success"}

\* Mutant: the filter keeps what it should drop.
CompletedBeads(s) == {b \in Ready : s.results[b] = "success"}

\* nextBeadOrGates: the beads to launch next.
NextBeads(s) == {b \in Ready : s.results[b] # "success"}

\* No bead is ready, or br ready failed: "All beads complete!"
EnterGates(c) ==
    /\ call[c].op \in {"looks-good", "skip"} /\ call[c].at = "ready"
    /\ \E ok \in BOOLEAN : BrReads(ok) /\ (ok => NextBeads(My(c)) = {})
    /\ st' = [My(c) EXCEPT !.phase = "iterating"]
    /\ Finish(c)
    /\ UNCHANGED <<lock, agents, launched>>

\* The next beads are those; an answer of br that does not parse, or a program
\* scope that does not resolve, ends the call where it is.
ReviewNext(c) ==
    /\ call[c].op \in {"looks-good", "skip"} /\ call[c].at = "ready"
    /\ \E ok \in BOOLEAN :
         /\ BrReads(ok)
         /\ \/ /\ ok /\ NextBeads(My(c)) # {}
               /\ call' = [call EXCEPT ![c].at = "launch", ![c].todo = NextBeads(My(c))]
            \/ ~ok /\ Finish(c)
    /\ UNCHANGED <<st, lock, agents, launched>>

\* Mutant: the beads are launched but not marked.
ReviewUnmarked(c) ==
    /\ call[c].at = "launch"
    /\ \E b \in call[c].todo :
         call' = [call EXCEPT ![c].todo = @ \ {b}, ![c].done = @ \cup {b}]
    /\ NoBr /\ UNCHANGED <<st, lock, agents, launched>>

ReviewMark(c) ==
    /\ call[c].at = "launch"
    /\ \E b \in call[c].todo, ok \in BOOLEAN :
         /\ BrUpdate(b, "in_progress", ok)
         /\ call' = [call EXCEPT ![c].todo = @ \ {b}, ![c].done = @ \cup {b}]
    /\ UNCHANGED <<st, lock, agents, launched>>

ReviewLaunch(c) ==
    /\ call[c].at = "launch" /\ call[c].todo = {}
    /\ st' = [My(c) EXCEPT !.phase = "implementing"]
    /\ Launch(call[c].done)
    /\ Finish(c)
    /\ NoBr /\ UNCHANGED <<lock>>

-----------------------------------------------------------------------------
\* runVerifyBeads: which beads of the wave br has not closed.  Its reads are one
\* step; a bead that cannot be read is left out.
AdvanceShow(c) ==
    /\ At(c, "advance", "verify")
    /\ \E read \in SUBSET call[c].todo :
         /\ BrReads(read = call[c].todo)
         /\ call' = [call EXCEPT ![c].at = "close", ![c].todo = {b \in read : bead[b] # "closed"}]
    /\ UNCHANGED <<st, lock, agents, launched>>

\* A straggler that a commit names is closed; `bead` notes one that stays open.
\* git log --grep=id finds any commit whose message contains the id.
AdvanceClose(c) ==
    /\ At(c, "advance", "close")
    /\ \E b \in call[c].todo :
         \/ /\ BrUpdate(b, "closed", TRUE)
            /\ call' = [call EXCEPT ![c].todo = @ \ {b}, ![c].done = @ \cup {b},
                                    ![c].s = [@ EXCEPT !.results[b] = "success"]]
         \/ /\ BrUpdate(b, "closed", FALSE) \/ NoBr
            /\ call' = [call EXCEPT ![c].todo = @ \ {b}, ![c].bead = b]
    /\ UNCHANGED <<st, lock, agents, launched>>

\* The results are saved; stragglers or missing evidence hold the next wave.
AdvanceVerified(c) ==
    /\ At(c, "advance", "close") /\ call[c].todo = {}
    /\ st' = IF call[c].done # {} THEN My(c) ELSE st
    /\ Finish(c) \/ (call[c].bead = NoBead /\ Goto(c, "ready"))
    /\ NoBr /\ UNCHANGED <<lock, agents, launched>>

\* The first ready beads are dispatched, up to maxNextWave; br keeps them open.
\* None is when no bead is ready, br ready failed, or no implementer can run.
AdvanceDispatch(c) ==
    /\ At(c, "advance", "ready")
    /\ \E wave \in SUBSET Ready : Launch(wave)
    /\ Finish(c)
    /\ NoBr /\ UNCHANGED <<st, lock>>

-----------------------------------------------------------------------------
\* The coordinator reviews, and lists as a finished wave, beads that were
\* launched.
Launched(b) == bead[b] # "open" \/ agents[b] > 0

CallStart   == \E c \in Calls : Begin(c, "start", NoBead, "list", {})
Review(b)   == Launched(b) /\ \E c \in Calls : Begin(c, "looks-good", b, "show", {})
Skip(b)     == Launched(b) /\ \E c \in Calls : Begin(c, "skip", b, "show", {})
CallAdvance == \E c \in Calls, wave \in SUBSET {b \in Beads : Launched(b)} :
                   wave # {} /\ Begin(c, "advance", NoBead, "verify", wave)

\* An implementer claims its bead, and is done, with the bead closed or left to
\* the review.
Claim(b) ==
    /\ agents[b] > 0 /\ bead[b] = "open"
    /\ bead' = [bead EXCEPT ![b] = "in_progress"]
    /\ UNCHANGED <<st, call, lock, agents, closed, launched, trouble>>

Done(b) ==
    /\ agents[b] > 0 /\ bead[b] # "open"
    /\ agents' = [agents EXCEPT ![b] = @ - 1]
    /\ \/ UNCHANGED <<bead, closed>>
       \/ bead' = [bead EXCEPT ![b] = "closed"] /\ closed' = closed \cup {b}
    /\ UNCHANGED <<st, call, lock, launched, trouble>>

Implement(b) == Claim(b) \/ Done(b)

Step(c) == \/ StartListed(c) \/ StartReady(c) \/ StartLock(c) \/ StartMark(c) \/ StartRollback(c)
           \/ StartRolledBack(c) \/ StartLaunch(c)
           \/ ReviewShow(c) \/ ReviewClose(c) \/ ReviewSiblings(c) \/ ReviewParent(c) \/ ReviewSkip(c)
           \/ EnterGates(c) \/ ReviewNext(c) \/ ReviewMark(c) \/ ReviewLaunch(c)
           \/ AdvanceShow(c) \/ AdvanceClose(c) \/ AdvanceVerified(c) \/ AdvanceDispatch(c)

Next == \/ CallStart \/ CallAdvance
        \/ \E b \in Beads : Review(b) \/ Skip(b) \/ Implement(b)
        \/ \E c \in Calls : Step(c)

Spec == Init /\ [][Next]_vars

\* Calls return, implementers finish, and the coordinator starts the wave that
\* awaits approval and reviews every bead whose implementer is done.
FairSpec ==
    /\ Spec
    /\ \A c \in Calls : WF_vars(Step(c))
    /\ SF_vars(st.phase = "awaiting_bead_approval" /\ CallStart)
    /\ \A b \in Beads : /\ WF_vars(Implement(b))
                        /\ SF_vars(agents[b] = 0 /\ bead[b] # "open" /\ Review(b))
-----------------------------------------------------------------------------
\* Every variable has its type.
TypeOK ==
    /\ st \in State
    /\ bead \in [Beads -> Statuses]
    /\ call \in [Calls -> Call \cup {Idle}]
    /\ lock \in BOOLEAN
    /\ agents \in [Beads -> 0..2]
    /\ closed \subseteq Beads /\ launched \subseteq Beads
    /\ trouble \in 0..MaxTrouble

\* No bead is launched before its dependencies were closed, whichever tools
\* launch and however their calls overlap.
DependenciesFirst ==
    [][\A b \in Beads : agents'[b] > agents[b] => Needs[b] \subseteq closed]_vars

\* A bead whose result is success was closed at some time, unless br failed to
\* (the failure is not looked at) or calls overlapped.
SuccessWasClosed == \A b \in Beads : st.results[b] = "success" => b \in closed \/ trouble > 0

\* While one call runs at a time, br works and no wave is dispatched by
\* flywheel_advance_wave, no bead has two implementers.
LaunchedOnce == trouble > 0 \/ \A b \in Beads : agents[b] <= 1

\* At most one start marks beads or takes marks back, and it holds the mutex.
Marking(c) == call[c].at \in {"mark", "rollback"}
MutexExclusive ==
    /\ \A c, d \in Calls : Marking(c) /\ Marking(d) => c = d
    /\ lock <=> \E c \in Calls : Marking(c)

\* A start that fails half way takes its marks back: after at most one failure
\* or overlap, no bead is in_progress that nobody was sent to.
NoOrphanMarks ==
    trouble <= 1 =>
        \A b \in Beads : bead[b] = "in_progress" =>
            b \in launched \/ \E c \in Calls : b \in call[c].done \cup call[c].todo

\* The waves implement the abstract program of beads: until br fails, calls overlap
\* or advance_wave is used, every br update and every launch is a step of a bead's
\* way from open to closed; after that still none is begun before what it needs.
Program == INSTANCE BeadProgram WITH
    status <- bead, workers <- agents, done <- closed, troubled <- trouble > 0
ImplementsProgram == Program!Spec

\* A start that ends, however it ends, frees the mutex: no call is refused for
\* ever.
MutexFreed == lock ~> ~lock

\* "All beads complete! Entering review gates." (review.ts)
GatesAfterAllBeads ==
    st.phase = "iterating" => \A b \in Beads : bead[b] \in {"closed", "deferred"}

\* The wave drains: in the end every bead is closed, deferred, or waits for a
\* bead that was deferred.
Settled(b) == \/ bead[b] \in {"closed", "deferred"}
              \/ bead[b] = "open" /\ \E d \in Needs[b] : bead[d] # "closed"
WaveDrains == [](trouble = 0) => <>[](\A b \in Beads : Settled(b))
=============================================================================
