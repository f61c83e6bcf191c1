----------------------------- MODULE PolishLoop -----------------------------
(***************************************************************************)
(* The bead polish loop of flywheel_approve_beads (mcp-server/src/tools/   *)
(* approve.ts, bead approval mode).                                        *)
(*                                                                         *)
(* Agents edit the bead graph between calls; each call compares it with    *)
(* the snapshot of an earlier call and decides whether to polish again.    *)
(* The counters are in the checkpoint, the snapshot (_lastBeadSnapshot) is *)
(* a variable of the server's module: a restart loses it, and every        *)
(* project the server works on shares it.  A call reads the graph with one *)
(* await (br list) and does the rest without one, so it is one action.     *)
(* A call that finds no open bead changes none of these variables.         *)
(***************************************************************************)
EXTENDS Naturals

CONSTANTS
    Shown,            \* what countChanges sees: ids, titles, fingerprints
    Hidden,           \* what it does not: dependencies, same-length edits
    NoSnapshot,       \* _lastBeadSnapshot is undefined
    Foreign,          \* a snapshot of another project's beads
    MaxRounds,        \* max_rounds of action="polish" (5 by default)
    MaxPolishRounds,  \* MAX_POLISH_ROUNDS of action="converge-polish" (6)
    MaxRound,         \* where polishRound saturates in the model, above both limits
    Actions,          \* the actions the coordinator uses
    MaxLost,          \* bound on lost: the losses of the snapshot in a cycle
    MayShare          \* whether the server works on another project too

ASSUME SnapshotAssumption == /\ NoSnapshot \notin Shown /\ Foreign \notin Shown /\ NoSnapshot # Foreign
                             /\ NoSnapshot \notin [shown : Shown, hidden : Hidden]
ASSUME RoundsAssumption   == /\ MaxRounds \in Nat /\ MaxPolishRounds \in Nat
                             /\ MaxRound \in Nat /\ MaxLost \in Nat
                             /\ MaxRounds < MaxRound /\ MaxPolishRounds < MaxRound
ASSUME ActionsAssumption  == Actions \subseteq {"polish", "advanced", "converge-polish", "start", "reject"}

VARIABLES
    phase,      \* state.phase, of the phases the loop can be in
    round,      \* state.polishRound
    changes,    \* of state.polishChanges, all the code looks at: how many
                \* entries, and how many zeros it ends in, both up to 3
    converged,  \* state.polishConverged
    stop,       \* the stop_reason of the last call
    snapshot,   \* _lastBeadSnapshot
    graph,      \* the bead graph, as br has it
    before,     \* history: the graph when the current polish round began
    quietRounds, \* history: rounds in a row that changed nothing, up to 2
    requested,  \* history: polish rounds asked for in this cycle
    lost,       \* history: how often the snapshot was lost in this cycle
    disturbed   \* history: whether, in this cycle, the snapshot was lost or
                \* another project's, or converge-polish was used

polishVars == <<phase, round, changes, converged, stop, snapshot, graph, before, quietRounds, requested,
                lost, disturbed>>

Graph  == [shown : Shown, hidden : Hidden]
PolishPhases == {"creating_beads", "awaiting_bead_approval", "refining_beads", "implementing", "idle"}
Stops  == {"none", "score", "max_rounds_hit", "steady", "manual_start", "manual_reject"}

NoChanges == [entries |-> 0, zeros |-> 0]
Changes   == [entries : 0..3, zeros : 0..3]

PolishInit ==
    /\ phase = "creating_beads"
    /\ round = 0 /\ changes = NoChanges /\ converged = FALSE /\ stop = "none"
    /\ snapshot = NoSnapshot
    /\ graph \in Graph
    /\ before = NoSnapshot /\ quietRounds = 0 /\ requested = 0 /\ lost = 0 /\ disturbed = FALSE

-----------------------------------------------------------------------------
UpTo3(n) == IF n > 3 THEN 3 ELSE n

\* One more entry: whether countChanges found the graph as in the snapshot.
Compared(c, prev) == [entries |-> UpTo3(c.entries + 1),
                      zeros   |-> IF prev = graph.shown THEN UpTo3(c.zeros + 1) ELSE 0]

\* Mutant: one round without a change is enough.
SteadyOnce(c) == c.entries >= 2 /\ c.zeros >= 1

Steady(c) == c.zeros >= 2

\* Whether computeConvergenceScore reaches until_convergence_score: surely
\* after three rounds without a change, perhaps after any other three.
ScoreReached(c) == IF c.entries < 3 THEN {FALSE}
                   ELSE IF c.zeros = 3 THEN {TRUE} ELSE BOOLEAN

Refining == phase = "refining_beads"

\* The code only asks whether polishRound has reached a limit.
Capped(n) == IF n > MaxRound THEN MaxRound ELSE n

\* The tracking that every call does before its action.
Tracked ==
    LET counted == Refining /\ snapshot # NoSnapshot
        chg     == IF counted THEN Compared(changes, snapshot) ELSE changes
    IN [round     |-> IF counted THEN Capped(round + 1) ELSE round,
        changes   |-> chg,
        converged |-> IF counted /\ chg.entries >= 2 THEN Steady(chg) ELSE converged,
        snapshot  |-> IF Refining \/ snapshot = NoSnapshot THEN graph.shown ELSE snapshot]

\* A call can be served: a goal is selected and the plan is approved.
Callable(a) == a \in Actions /\ phase # "idle"

\* The truth about the round that a call in phase refining_beads ends.
Quiet(ends) == IF ~ends \/ before = NoSnapshot THEN quietRounds
               ELSE IF graph # before THEN 0
               ELSE IF quietRounds = 2 THEN 2 ELSE quietRounds + 1

Observe(ends) ==
    /\ before' = IF ends \/ before = NoSnapshot THEN graph ELSE before
    /\ quietRounds' = Quiet(ends)

Store(t) ==
    /\ round' = t.round
    /\ changes' = t.changes
    /\ converged' = t.converged
    /\ snapshot' = t.snapshot
-----------------------------------------------------------------------------
\* Mutant: the bound is tested with > where the code has >=.
PolishOffByOne ==
    /\ Callable("polish")
    /\ \E reached \in ScoreReached(Tracked.changes) :
         LET stops == IF reached THEN "score"
                      ELSE IF Tracked.round > MaxRounds THEN "max_rounds_hit" ELSE "none"
         IN /\ stop' = stops
            /\ phase' = IF stops = "none" THEN "refining_beads" ELSE "awaiting_bead_approval"
            /\ requested' = IF stops = "none" THEN requested + 1 ELSE requested
    /\ Store(Tracked)
    /\ Observe(Refining)
    /\ UNCHANGED <<graph, lost, disturbed>>

\* Mutant: only the score ends the loop.
PolishUnbounded ==
    /\ Callable("polish")
    /\ \E reached \in ScoreReached(Tracked.changes) :
         LET stops == IF reached THEN "score" ELSE "none"
         IN /\ stop' = stops
            /\ phase' = IF stops = "none" THEN "refining_beads" ELSE "awaiting_bead_approval"
    /\ Store(Tracked)
    /\ Observe(Refining)
    /\ UNCHANGED <<graph, requested, lost, disturbed>>

\* action="polish": another round, unless the score or the count says stop.
Polish ==
    /\ Callable("polish")
    /\ \E reached \in ScoreReached(Tracked.changes) :
         LET stops == IF reached THEN "score"
                      ELSE IF Tracked.round >= MaxRounds THEN "max_rounds_hit" ELSE "none"
         IN /\ stop' = stops
            /\ phase' = IF stops = "none" THEN "refining_beads" ELSE "awaiting_bead_approval"
            /\ requested' = IF stops = "none" THEN requested + 1 ELSE requested
    /\ Store(Tracked)
    /\ Observe(Refining)
    /\ UNCHANGED <<graph, lost, disturbed>>

\* action="advanced": another round whatever the count (fresh-agent,
\* same-agent, blunder-hunt, dedup, cross-model and graph-fix).  Without a
\* valid advancedAction the tracking is saved and the call is refused.
Advanced ==
    /\ Callable("advanced")
    /\ phase' \in {"refining_beads", "awaiting_bead_approval"}
    /\ stop' = "none"
    /\ Store(Tracked)
    /\ Observe(Refining)
    /\ UNCHANGED <<graph, requested, lost, disturbed>>

\* action="converge-polish": a second comparison on top of the tracking.
ConvergePolish ==
    /\ Callable("converge-polish")
    /\ LET chg    == Compared(Tracked.changes, Tracked.snapshot)
           next   == IF Tracked.round >= MaxPolishRounds THEN MaxPolishRounds ELSE Tracked.round + 1
           steady == Steady(chg)
           done   == Tracked.converged \/ steady \/ next >= MaxPolishRounds
       IN /\ Store([round |-> next, changes |-> chg, converged |-> done, snapshot |-> graph.shown])
          /\ stop' = IF ~done THEN "none" ELSE IF steady THEN "steady" ELSE "max_rounds_hit"
    /\ phase' = "awaiting_bead_approval"
    /\ Observe(before # NoSnapshot)
    /\ disturbed' = TRUE
    /\ UNCHANGED <<graph, requested, lost>>

\* action="start" that launches the wave: the snapshot goes, the counters stay.
Start ==
    /\ Callable("start")
    /\ Store([Tracked EXCEPT !.snapshot = NoSnapshot])
    /\ phase' = "implementing"
    /\ stop' = "manual_start"
    /\ before' = NoSnapshot /\ quietRounds' = Quiet(Refining)
    /\ UNCHANGED <<graph, requested, lost, disturbed>>

\* action="start" that finds no ready bead, no CLI or no mutex, or whose br
\* update fails: only the tracking is saved.
StartRefused ==
    /\ Callable("start")
    /\ Store(Tracked)
    /\ phase' = "awaiting_bead_approval"
    /\ stop' = "none"
    /\ Observe(Refining)
    /\ UNCHANGED <<graph, requested, lost, disturbed>>

\* action="reject".
Reject ==
    /\ Callable("reject")
    /\ Store([Tracked EXCEPT !.snapshot = NoSnapshot])
    /\ phase' = "idle"
    /\ stop' = "manual_reject"
    /\ before' = NoSnapshot /\ quietRounds' = Quiet(Refining)
    /\ UNCHANGED <<graph, requested, lost, disturbed>>

-----------------------------------------------------------------------------
\* Phase idle is never loaded (loadState): the next cycle begins with fresh
\* counters.
NewCycle ==
    /\ phase = "idle"
    /\ phase' = "creating_beads"
    /\ round' = 0 /\ changes' = NoChanges /\ converged' = FALSE /\ stop' = "none"
    /\ before' = NoSnapshot /\ quietRounds' = 0 /\ requested' = 0 /\ lost' = 0
    /\ disturbed' = (snapshot # NoSnapshot)
    /\ UNCHANGED <<snapshot, graph>>

\* A refinement agent changes the graph.
Edit ==
    /\ phase # "idle"
    /\ graph' \in Graph \ {graph}
    /\ UNCHANGED <<phase, round, changes, converged, stop, snapshot, before, quietRounds, requested, lost, disturbed>>

\* The snapshot goes: nothing in this project's checkpoint says so.
Lose ==
    /\ lost < MaxLost
    /\ snapshot' = NoSnapshot
    /\ lost' = lost + 1 /\ disturbed' = TRUE
    /\ UNCHANGED <<phase, round, changes, converged, stop, graph, before, quietRounds, requested>>

\* The server restarts between two calls.
Restart == Lose

\* A call for another project leaves its snapshot; start and reject clear it.
OtherProject ==
    /\ MayShare
    /\ \/ Lose
       \/ /\ snapshot' = Foreign /\ disturbed' = TRUE
          /\ UNCHANGED <<phase, round, changes, converged, stop, graph, before, quietRounds, requested, lost>>

PolishNext == \/ Polish \/ Advanced \/ ConvergePolish \/ Start \/ StartRefused \/ Reject
              \/ NewCycle \/ Edit \/ Restart \/ OtherProject

PolishSpec == PolishInit /\ [][PolishNext]_polishVars

\* A coordinator that keeps answering the menu with a polish action.
PolishFairSpec == PolishSpec /\ WF_polishVars(Polish \/ ConvergePolish)
-----------------------------------------------------------------------------
\* Every variable has its type.
PolishTypeOK ==
    /\ phase \in PolishPhases
    /\ round \in 0..MaxRound
    /\ changes \in Changes
    /\ converged \in BOOLEAN
    /\ stop \in Stops
    /\ snapshot \in Shown \cup {NoSnapshot, Foreign}
    /\ graph \in Graph
    /\ before \in Graph \cup {NoSnapshot}
    /\ quietRounds \in 0..2
    /\ requested \in Nat /\ lost \in 0..MaxLost /\ disturbed \in BOOLEAN

\* polishConverged is "true when 0 changes [were] detected for 2 consecutive
\* rounds" (types.ts): in an undisturbed cycle, the last two rounds really left
\* the graph alone, as far as countChanges can see.
ConvergedIsQuiet == converged /\ ~disturbed => quietRounds = 2

\* "Auto-bound the polish loop" (approve.ts): in one cycle action="polish" asks
\* for at most max_rounds rounds, and one more for every loss of the snapshot.
BoundedButForLosses == requested <= MaxRounds + lost

\* Why: while rounds remain, every round asked for is counted, still open, or
\* was lost (the strengthening the proof needs).
Counted ==
    round < MaxRounds =>
        requested <= round + lost + (IF Refining /\ snapshot # NoSnapshot THEN 1 ELSE 0)

\* In an undisturbed cycle the snapshot is the graph at the start of the open
\* round, and the zeros in polishChanges are rounds that changed nothing.
SnapshotIsStart ==
    ~disturbed =>
        /\ before = NoSnapshot <=> snapshot = NoSnapshot
        /\ before # NoSnapshot => snapshot = before.shown
        /\ Refining => snapshot # NoSnapshot
ZerosAreQuiet ==
    ~disturbed =>
        /\ changes.zeros >= 1 => quietRounds >= 1
        /\ changes.zeros >= 2 => quietRounds = 2
        /\ changes.zeros <= changes.entries
        /\ converged => Steady(changes)

\* A coordinator that keeps polishing is told to stop again and again, by
\* whichever bound, whatever the agents edit and whatever else is called.
PolishStops == []<>(stop # "none")
=============================================================================
