------------------------------- MODULE GoalCycle -------------------------------
(***************************************************************************)
(* A goal from its choice to the grading of its outcome (mcp-server/src:   *)
(* tools/profile.ts, tools/select.ts, tools/plan.ts, the plan mode of      *)
(* tools/approve.ts, outcome-grading.ts).                                  *)
(*                                                                         *)
(* One checkpoint carries the goal, its plan, its rubric and its gradings. *)
(* A new goal takes the same checkpoint over, in the middle of a cycle if  *)
(* need be.  Each call works on the copy it loaded and saves the whole of  *)
(* it: those that wait for git, br or a model in between may overlap.      *)
(***************************************************************************)
EXTENDS Naturals, Sequences, Functions

CONSTANTS
    Goals,       \* the goals, each with its own slug
    None,        \* no goal
    Cap,         \* maxOutcomeIterations
    HistoryCap,  \* HISTORY_FIFO_CAP
    MaxCycles,   \* bound on the choices of a goal
    MaxEdits,    \* bound on the times a plan document is written
    Slots,       \* bound on the calls in flight at once
    MaxTrouble   \* bound on the overlaps, losses and forced gradings together

ASSUME CycleAssumption ==
    /\ None \notin Goals
    /\ Cap \in Nat \ {0} /\ HistoryCap \in Nat /\ Cap <= HistoryCap
    /\ MaxCycles \in Nat /\ MaxEdits \in Nat /\ Slots \in Nat /\ MaxTrouble \in Nat

Calls == 1..Slots

VARIABLES
    st,      \* the checkpoint
    docs,    \* how often each goal's plan document was written, 0 when there is none
    rub,     \* rubric.md of each goal, and the content its lock file names
    verd,    \* the iterations of each goal whose verdict file is there
    locks,   \* _graderLocks, in the server's memory
    call,    \* the call in each slot
    cycle,   \* history: the number of goals chosen
    order,   \* history: whether the goal's plan was registered before it was used
    needs,   \* history: the needs_revision answers of this cycle
    rewrote, \* history: verdict files that were written again
    trampled, \* history: edited rubrics that an unforced synthesis replaced
    overlaps, \* history: calls that began while another was in flight
    lost,     \* history: crashes, failed gradings and full disks
    forced    \* history: gradings that were forced

vars == <<st, docs, rub, verd, locks, call, cycle, order, needs, rewrote, trampled, overlaps, lost, forced>>
files  == <<docs, rub, verd>>
past   == <<cycle, order, needs>>
harm   == <<rewrote, trampled>>
spent  == <<overlaps, lost, forced>>

-----------------------------------------------------------------------------
Phases   == {"idle", "discovering", "planning", "awaiting_plan_approval", "creating_beads"}
Statuses == {"needs_revision", "satisfied", "max_iterations_reached"}
Slug     == Goals \cup {None}
Entry    == [slug : Goals, cycle : Nat]
State    == [phase : Phases, goal : Slug, plan : Slug, rubric : Slug, skipped : BOOLEAN, history : Seq(Entry)]
Fresh    == [phase |-> "idle", goal |-> None, plan |-> None, rubric |-> None, skipped |-> FALSE, history |-> <<>>]
Rubrics  == [source : {"none", "auto", "edited"}, sha : Nat]
Iterations == 1..(HistoryCap + 1)

\* A call: where it is, the goal it is about, the iteration or the content it
\* works on, whether it is forced, its status and its copy.
Idle == [op |-> "none", g |-> None, n |-> 0, force |-> FALSE, status |-> "none", s |-> Fresh]
Ops  == {"none", "select", "profile", "synthesize", "lock", "edit", "grade", "save", "remediate"}
Call == [op : Ops, g : Slug, n : Nat, force : BOOLEAN, status : Statuses \cup {"none"}, s : State]

Init ==
    /\ st = Fresh
    /\ docs = [g \in Goals |-> 0]
    /\ rub = [g \in Goals |-> [source |-> "none", sha |-> 0]]
    /\ verd = [g \in Goals |-> {}]
    /\ locks = {} /\ call = [c \in Calls |-> Idle]
    /\ cycle = 0 /\ order = "unregistered" /\ needs = 0
    /\ rewrote = 0 /\ trampled = 0 /\ overlaps = 0 /\ lost = 0 /\ forced = 0

\* loadState: an idle checkpoint is not taken up.
Loaded == IF st.phase = "idle" THEN Fresh ELSE st

Spare == overlaps + lost + forced < MaxTrouble
Loses == Spare /\ lost' = lost + 1 /\ UNCHANGED <<overlaps, forced>>
Begins(c, k) ==
    /\ call[c] = Idle /\ \A d \in 1..(c - 1) : call[d] # Idle
    /\ call' = [call EXCEPT ![c] = [k EXCEPT !.s = Loaded]]
    /\ IF \A d \in Calls : call[d] = Idle
         THEN UNCHANGED overlaps
         ELSE Spare /\ overlaps' = overlaps + 1
    /\ UNCHANGED lost
At(c, op) == call[c].op = op
Ends(c)   == call' = [call EXCEPT ![c] = Idle]
\* A call that waits for nothing between its load and its save; it counts as an
\* overlap too when another is in flight.
AtOnce(s) ==
    /\ st' = s /\ UNCHANGED <<call, lost, forced>>
    /\ IF \A d \in Calls : call[d] = Idle
         THEN UNCHANGED overlaps
         ELSE Spare /\ overlaps' = overlaps + 1

-----------------------------------------------------------------------------
\* flywheel_select, and flywheel_profile with a goal.
ChooseBegins(c) ==
    /\ cycle < MaxCycles
    /\ \E g \in Goals, op \in {"select", "profile"} : Begins(c, [Idle EXCEPT !.op = op, !.g = g])
    /\ UNCHANGED <<st, files, locks, past, harm, forced>>

\* Mutant: the gradings of the last goal are kept.
SelectedKeeps(s, g) == [s EXCEPT !.goal = g, !.phase = "planning", !.rubric = None, !.skipped = FALSE]
Selected(s, g) ==
    [s EXCEPT !.goal = g, !.phase = "planning", !.rubric = None, !.skipped = FALSE, !.history = <<>>]

SelectEnds(c) ==
    /\ At(c, "select") /\ Ends(c)
    /\ st' = Selected(call[c].s, call[c].g)
    /\ cycle' = cycle + 1 /\ order' = "unregistered" /\ needs' = 0
    /\ UNCHANGED <<files, locks, harm, spent>>

\* A profile with a goal sets it, and leaves the rest to flywheel_select.
ProfileEnds(c) ==
    /\ At(c, "profile") /\ Ends(c)
    /\ st' = [call[c].s EXCEPT !.goal = call[c].g, !.phase = "discovering"]
    /\ cycle' = cycle + 1 /\ order' = "stray" /\ needs' = 0
    /\ UNCHANGED <<files, locks, harm, spent>>

Room == FoldFunction(+, 0, docs) < MaxEdits

\* flywheel_plan.  The document's path is made of the goal's slug.
Registers(s, phase) ==
    /\ AtOnce([s EXCEPT !.plan = s.goal, !.phase = phase])
    /\ order' = IF order = "unregistered" THEN "registered" ELSE order
    /\ UNCHANGED <<rub, verd, locks, cycle, needs, harm>>

PlanFile ==
    LET s == Loaded IN
    /\ s.goal # None /\ docs[s.goal] > 0 /\ UNCHANGED docs
    /\ Registers(s, "awaiting_plan_approval")
PlanContent ==
    LET s == Loaded IN
    /\ s.goal # None /\ Room
    /\ docs' = [docs EXCEPT ![s.goal] = @ + 1]
    /\ Registers(s, "awaiting_plan_approval")
\* Standard and duel name the document that an agent will write.
PlanPrompt ==
    LET s == Loaded IN
    /\ s.goal # None
    /\ AtOnce([s EXCEPT !.plan = s.goal, !.phase = "planning"])
    /\ order' = IF order = "unregistered" THEN "registered" ELSE order
    /\ UNCHANGED <<files, locks, cycle, needs, harm>>
\* Deep registers nothing yet.
PlanDeep ==
    LET s == Loaded IN
    /\ s.goal # None /\ AtOnce([s EXCEPT !.phase = "planning"])
    /\ UNCHANGED <<files, locks, past, harm>>

\* The agents write the document that is registered, or improve it.
WritePlan ==
    /\ st.plan # None /\ Room
    /\ docs' = [docs EXCEPT ![st.plan] = @ + 1]
    /\ UNCHANGED <<st, rub, verd, locks, call, past, harm, spent>>

\* flywheel_approve_beads in plan mode.
Used == order' = IF order = "unregistered" THEN "stray" ELSE order
PlanApproval(s) ==
    /\ s.goal # None /\ s.plan # None /\ s.phase \in {"planning", "awaiting_plan_approval"}
    /\ docs[s.plan] > 0
ApprovePlan ==
    LET s == Loaded IN
    /\ PlanApproval(s) /\ Used
    /\ \/ AtOnce([s EXCEPT !.phase = "creating_beads"])
       \/ AtOnce([s EXCEPT !.phase = "planning"])
    /\ UNCHANGED <<files, locks, cycle, needs, harm>>
RejectPlan ==
    LET s == Loaded IN
    /\ PlanApproval(s) /\ AtOnce([s EXCEPT !.plan = None, !.phase = "idle"])
    /\ order' = "unregistered"
    /\ UNCHANGED <<files, locks, cycle, needs, harm>>

-----------------------------------------------------------------------------
\* flywheel_synthesize_rubric, about the registered plan's document.
\* Mutant: an edited rubric is as good as an outdated one.
ReusableBySha(g) == rub[g].source # "none" /\ rub[g].sha = docs[g]
Reusable(g) == rub[g].source = "edited" \/ (rub[g].source = "auto" /\ rub[g].sha = docs[g])

RubricReused ==
    LET s == Loaded IN
    /\ s.plan # None /\ docs[s.plan] > 0 /\ Reusable(s.plan)
    /\ AtOnce([s EXCEPT !.rubric = s.plan]) /\ Used
    /\ UNCHANGED <<files, locks, cycle, needs, harm>>

RubricBegins(c) ==
    LET s == Loaded IN
    /\ s.plan # None /\ docs[s.plan] > 0
    /\ \E force \in BOOLEAN :
        /\ force \/ ~Reusable(s.plan)
        /\ Begins(c, [Idle EXCEPT !.op = "synthesize", !.g = s.plan, !.n = docs[s.plan], !.force = force])
    /\ Used
    /\ UNCHANGED <<st, files, locks, cycle, needs, harm, forced>>

\* The model answers and the rubric is replaced, whatever it has become; then
\* the lock file, and the state is saved.
RubricWritten(c) ==
    /\ At(c, "synthesize")
    /\ rub' = [rub EXCEPT ![call[c].g].source = "auto"]
    /\ trampled' = IF rub[call[c].g].source = "edited" /\ ~call[c].force THEN trampled + 1 ELSE trampled
    /\ call' = [call EXCEPT ![c].op = "lock"]
    /\ UNCHANGED <<st, docs, verd, locks, past, rewrote, spent>>
LockWritten(c) ==
    /\ At(c, "lock") /\ Ends(c)
    /\ rub' = [rub EXCEPT ![call[c].g].sha = call[c].n]
    /\ st' = [call[c].s EXCEPT !.rubric = call[c].g]
    /\ UNCHANGED <<docs, verd, locks, past, harm, spent>>

EditBegins(c) ==
    LET s == Loaded IN
    /\ s.plan # None /\ docs[s.plan] > 0 /\ rub[s.plan].source # "none"
    /\ Begins(c, [Idle EXCEPT !.op = "edit", !.g = s.plan]) /\ Used
    /\ UNCHANGED <<st, files, locks, cycle, needs, harm, forced>>
EditEnds(c) ==
    /\ At(c, "edit") /\ Ends(c)
    /\ rub' = [rub EXCEPT ![call[c].g].source = "edited"]
    /\ st' = [call[c].s EXCEPT !.rubric = call[c].g]
    /\ UNCHANGED <<docs, verd, locks, past, harm, spent>>

\* The model answers nothing that can be used.
ModelFails(c) ==
    /\ call[c].op \in {"synthesize", "edit"} /\ Ends(c)
    /\ UNCHANGED <<st, files, locks, past, harm, spent>>

RubricValidated ==
    LET s == Loaded  g == IF s.rubric = None THEN s.plan ELSE s.rubric IN
    /\ g # None /\ rub[g].source # "none"
    /\ AtOnce([s EXCEPT !.rubric = g]) /\ Used
    /\ UNCHANGED <<files, locks, cycle, needs, harm>>

SkipRubric ==
    /\ AtOnce([Loaded EXCEPT !.skipped = TRUE])
    /\ UNCHANGED <<files, locks, past, harm>>

-----------------------------------------------------------------------------
\* flywheel_grade_outcome.  What is refused changes nothing but the answer.
Iteration(s) == Len(s.history) + 1
\* Mutant: the lock is not asked for.
FreeAlways(slug, force) == TRUE
Free(slug, force) == force \/ slug \notin locks
Unwritten(slug, i, force) == force \/ i \notin verd[slug]

Gradable(s) == ~s.skipped /\ s.rubric # None
GradeBegins(c, force) ==
    LET s == Loaded IN
    /\ Gradable(s) /\ rub[s.rubric].source # "none"
    /\ Free(s.rubric, force) /\ Unwritten(s.rubric, Iteration(s), force)
    /\ Begins(c, [Idle EXCEPT !.op = "grade", !.g = s.rubric, !.n = Iteration(s), !.force = force])
    /\ locks' = locks \cup {s.rubric}
    /\ IF force THEN Spare /\ forced' = forced + 1 ELSE UNCHANGED forced
    /\ UNCHANGED <<st, files, past, harm>>

\* The grader answers, the cap decides and the verdict is written.
\* Mutant: the cap is left to the grader.
CoercedNot(i, status) == status
Coerced(i, status) == IF i >= Cap /\ status = "needs_revision" THEN "max_iterations_reached" ELSE status

Verdict(c) ==
    LET k == call[c] IN
    /\ At(c, "grade")
    /\ \E status \in {"needs_revision", "satisfied"} :
        /\ call' = [call EXCEPT ![c].op = "save", ![c].status = Coerced(k.n, status)]
        /\ \/ /\ verd' = [verd EXCEPT ![k.g] = @ \cup {k.n}]
              /\ rewrote' = IF k.n \in verd[k.g] THEN rewrote + 1 ELSE rewrote
              /\ UNCHANGED spent
           \/ Loses /\ UNCHANGED <<verd, rewrote>>  \* the disk is full
    /\ UNCHANGED <<st, docs, rub, locks, past, trampled>>

\* The history gets the entry and loses its oldest; the lock is deleted.
Pushed(h, e) == LET l == Append(h, e) IN IF Len(l) > HistoryCap THEN Tail(l) ELSE l
Unlocked(slug) == locks \ {slug}

GradeEnds(c) ==
    LET k == call[c] IN
    /\ At(c, "save") /\ Ends(c)
    /\ st' = [k.s EXCEPT !.history = Pushed(@, [slug |-> k.g, cycle |-> cycle])]
    /\ needs' = IF k.status = "needs_revision" THEN needs + 1 ELSE needs
    /\ locks' = Unlocked(k.g)
    /\ UNCHANGED <<files, cycle, order, harm, spent>>

\* The grader times out or answers no verdict, twice.
GradeFails(c) ==
    /\ At(c, "grade") /\ Loses /\ Ends(c)
    /\ locks' = Unlocked(call[c].g)
    /\ UNCHANGED <<st, files, past, harm>>

\* flywheel_approve_beads action="remediate": br create, then the copy is saved.
RemediateBegins(c) ==
    /\ Begins(c, [Idle EXCEPT !.op = "remediate"])
    /\ UNCHANGED <<st, files, locks, past, harm, forced>>
RemediateEnds(c) ==
    /\ At(c, "remediate") /\ Ends(c) /\ st' = call[c].s
    /\ UNCHANGED <<files, locks, past, harm, spent>>

\* The server dies: the calls and the locks are gone.
Crash ==
    /\ \E c \in Calls : call[c] # Idle
    /\ Loses
    /\ call' = [c \in Calls |-> Idle] /\ locks' = {}
    /\ UNCHANGED <<st, files, past, harm>>

Step(c) == \/ SelectEnds(c) \/ ProfileEnds(c) \/ RubricWritten(c) \/ LockWritten(c) \/ EditEnds(c)
           \/ Verdict(c) \/ GradeEnds(c) \/ RemediateEnds(c)

Next ==
    \/ PlanFile \/ PlanContent \/ PlanPrompt \/ PlanDeep \/ WritePlan \/ ApprovePlan \/ RejectPlan
    \/ RubricReused \/ RubricValidated \/ SkipRubric \/ Crash
    \/ \E c \in Calls : \/ ChooseBegins(c) \/ RubricBegins(c) \/ EditBegins(c) \/ RemediateBegins(c)
                        \/ \E force \in BOOLEAN : GradeBegins(c, force)
                        \/ Step(c) \/ ModelFails(c) \/ GradeFails(c)

Spec == Init /\ [][Next]_vars

-----------------------------------------------------------------------------
TypeOK ==
    /\ st \in State
    /\ docs \in [Goals -> Nat] /\ rub \in [Goals -> Rubrics]
    /\ verd \in [Goals -> SUBSET Iterations]
    /\ locks \subseteq Goals
    /\ call \in [Calls -> Call]
    /\ cycle \in Nat /\ order \in {"unregistered", "registered", "stray"} /\ needs \in Nat
    /\ rewrote \in Nat /\ trampled \in Nat /\ overlaps \in Nat /\ lost \in Nat /\ forced \in Nat

\* A cycle whose goal flywheel_select chose and whose plan was registered before
\* it was used is about one goal, whatever the checkpoint held before: its plan,
\* its rubric and every grading in its history.
OneGoal ==
    order = "registered" /\ overlaps = 0 =>
        /\ st.plan \in {st.goal, None} /\ st.rubric \in {st.goal, None}
        /\ \A i \in DOMAIN st.history : st.history[i].slug = st.goal /\ st.history[i].cycle = cycle

\* The coordinator is sent round again fewer times than the cap, whatever is
\* forced, fails or dies, but for gradings that another call saved over.
RoundsBounded == needs < Cap + overlaps

\* Unless one was forced, the gradings of a plan run one at a time and no
\* verdict is overwritten.
Grading(c) == call[c].op \in {"grade", "save"}
GradersAlone ==
    forced = 0 =>
        /\ \A c, d \in Calls : c # d /\ Grading(c) /\ Grading(d) => call[c].g # call[d].g
        /\ rewrote = 0

\* An edited rubric is replaced only by force, or by a synthesis that was
\* under way when it was edited.
EditsKept == trampled <= overlaps
=============================================================================
