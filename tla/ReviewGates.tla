---------------------------- MODULE ReviewGates ----------------------------
(***************************************************************************)
(* The guided review gates and the fresh-eyes rounds of flywheel_review    *)
(* (mcp-server/src/tools/review.ts, beadId="__gates__", the regress        *)
(* sentinels, and action="converge").                                      *)
(*                                                                         *)
(* A call loads the checkpoint, computes, and saves it without an await in *)
(* between: one action.  The exception is hit-me with mode="autofix",      *)
(* which awaits `git status` after the load: it is two actions, and other  *)
(* calls run in between.  A checkpoint whose phase is idle or complete is  *)
(* never loaded: such a call starts from the initial state (state.ts).     *)
(***************************************************************************)
EXTENDS Naturals

CONSTANTS
    GateCount,    \* the number of guided gates (5)
    Keys,         \* bead ids and __cycle__, the keys of reviewIterations
    MaxFreshEyes, \* MAX_FRESH_EYES_ROUNDS (5)
    CleanTarget,  \* CLEAN_STREAK_TARGET (2)
    InOrder,      \* whether the gates are run in phase iterating only, as told
    Reentry,      \* whether work goes back to the beads once the gates began
    Autofix,      \* whether mode="autofix" is used
    Sessionless,  \* whether rounds are recorded when no cycle is under way
    NoCall        \* no autofix call is in flight

ASSUME GatesAssumption == /\ GateCount \in Nat \ {0} /\ MaxFreshEyes \in Nat \ {0}
                          /\ CleanTarget \in Nat \ {0}
                          /\ {InOrder, Reentry, Autofix, Sessionless} \subseteq BOOLEAN

VARIABLES
    st,      \* the checkpoint: phase, currentGateIndex, consecutiveCleanRounds, reviewIterations
    pending, \* the state an autofix hit-me has loaded, or NoCall
    passed,  \* history: the gates passed since the last failure or new work
    ran,     \* history: rounds of each key in this cycle
    quiet,   \* history: how many of those rounds, the latest, found nothing
    seen,    \* history: the keys with a round since their work last changed
    redone,  \* history: whether work went back to the beads in this cycle
    undone   \* history: whether an autofix call overwrote the checkpoint

vars == <<st, pending, passed, ran, quiet, seen, redone, undone>>

GateIds == 0..(GateCount - 1)
Working == {"planning", "creating_beads", "implementing", "iterating"}
Phases  == Working \cup {"idle", "complete"}

NoRounds  == [round |-> 0, streak |-> 0, converged |-> FALSE]
Iteration == [round : 0..MaxFreshEyes, streak : 0..MaxFreshEyes, converged : BOOLEAN]
State     == [phase : Phases, gate : GateIds, clean : 0..GateCount, iter : [Keys -> Iteration]]

\* createInitialState.
Fresh == [phase |-> "idle", gate |-> 0, clean |-> 0, iter |-> [k \in Keys |-> NoRounds]]

\* loadState.
Loaded == IF st.phase \in Working THEN st ELSE Fresh

\* The history starts over with the state.
PassedLoaded == IF st.phase \in Working THEN passed ELSE {}

Init ==
    /\ st = [Fresh EXCEPT !.phase = "implementing"]
    /\ pending = NoCall
    /\ passed = {}
    /\ ran = [k \in Keys |-> 0] /\ quiet = [k \in Keys |-> 0] /\ seen = {}
    /\ redone = FALSE /\ undone = FALSE

-----------------------------------------------------------------------------
NextGate(g) == IF g + 1 = GateCount THEN 0 ELSE g + 1

\* runGates looks at no phase: what restricts a call is the coordinator.
GateCall == InOrder => st.phase = "iterating"

\* runGates, action="looks-good": the gate passed.
LooksGood ==
    LET s == [Loaded EXCEPT !.gate = NextGate(@), !.clean = @ + 1]
    IN /\ st' = IF s.clean >= GateCount THEN [s EXCEPT !.phase = "complete"] ELSE s
       /\ GateCall
       /\ passed' = PassedLoaded \cup {Loaded.gate}
       /\ UNCHANGED <<pending, ran, quiet, seen, redone, undone>>

\* Mutant: the streak goes on after a failed gate.
FailedKeepsStreak(s) == s

\* runGates, action="hit-me" or "skip": the current gate again, from zero.
Failed(s) == [s EXCEPT !.clean = 0]

HitMe ==
    /\ GateCall
    /\ st' = Failed(Loaded)
    /\ passed' = {}
    /\ UNCHANGED <<pending, ran, quiet, seen, redone, undone>>

\* hit-me with mode="autofix": autofixGateOk runs git with the state loaded ...
AutofixBegin ==
    /\ Autofix /\ pending = NoCall /\ GateCall
    /\ pending' = Loaded
    /\ UNCHANGED <<st, passed, ran, quiet, seen, redone, undone>>

\* ... and what is saved is that state, not the one now on disk.
AutofixEnd ==
    /\ pending # NoCall
    /\ st' = Failed(pending)
    /\ pending' = NoCall
    /\ passed' = {}
    /\ undone' = TRUE
    /\ UNCHANGED <<ran, quiet, seen, redone>>

\* Mutant: a clean streak of one is enough.
OneRoundEarly(it, findings) ==
    LET streak == IF findings THEN 0 ELSE it.streak + 1
        round  == IF it.round = MaxFreshEyes THEN it.round ELSE it.round + 1
    IN IF it.converged THEN it
       ELSE [round |-> round, streak |-> streak,
             converged |-> streak + 1 >= CleanTarget \/ round >= MaxFreshEyes]

\* Mutant: only a clean streak converges.
OneRoundUncapped(it, findings) ==
    LET streak == IF findings THEN 0 ELSE it.streak + 1
        round  == IF it.round = MaxFreshEyes THEN it.round ELSE it.round + 1
    IN IF it.converged THEN it
       ELSE [round |-> round, streak |-> streak, converged |-> streak >= CleanTarget]

\* handleConverge over one iteration: nothing moves once it has converged.
OneRound(it, findings) ==
    LET streak == IF findings THEN 0 ELSE it.streak + 1
        round  == IF it.round = MaxFreshEyes THEN it.round ELSE it.round + 1
    IN IF it.converged THEN it
       ELSE [round |-> round, streak |-> streak,
             converged |-> streak >= CleanTarget \/ round >= MaxFreshEyes]

UpTo(n, bound) == IF n > bound THEN bound ELSE n

\* action="converge" for key k with or without findings.
Converge(k, findings) ==
    /\ st.phase \in Working \/ Sessionless
    /\ st' = [Loaded EXCEPT !.iter[k] = OneRound(@, findings)]
    /\ ran' = [ran EXCEPT ![k] = UpTo(@ + 1, MaxFreshEyes)]
    /\ quiet' = [quiet EXCEPT ![k] = IF findings THEN 0 ELSE UpTo(@ + 1, CleanTarget)]
    /\ seen' = seen \cup {k}
    /\ passed' = PassedLoaded
    /\ UNCHANGED <<pending, redone, undone>>

\* nextBeadOrGates finds no ready bead: the gates begin, or begin again after
\* beads that were filed or implemented since.
EnterGates ==
    /\ st.phase \in (IF Reentry THEN {"implementing", "iterating"} ELSE {"implementing"})
    /\ st' = [st EXCEPT !.phase = "iterating", !.gate = 0]
    /\ passed' = {}
    /\ redone' = (redone \/ st.phase = "iterating")
    /\ UNCHANGED <<pending, ran, quiet, seen, undone>>

\* __regress_to_plan__, __regress_to_beads__ and __regress_to_implement__.
Regress ==
    /\ Reentry
    /\ \E p \in {"planning", "creating_beads", "implementing"} :
         st' = [Loaded EXCEPT !.phase = p, !.gate = 0]
    /\ passed' = {} /\ seen' = {}
    /\ redone' = TRUE
    /\ UNCHANGED <<pending, ran, quiet, undone>>

\* The other tools take the cycle from the plan to the beads to the wave.
Advance ==
    /\ \/ st.phase = "planning" /\ st' = [st EXCEPT !.phase = "creating_beads"]
       \/ st.phase = "creating_beads" /\ st' = [st EXCEPT !.phase = "implementing"]
       \/ st.phase \notin Working /\ st' = [Fresh EXCEPT !.phase = "planning"]
    /\ passed' = PassedLoaded
    /\ ran' = IF st.phase \in Working THEN ran ELSE [k \in Keys |-> 0]
    /\ quiet' = IF st.phase \in Working THEN quiet ELSE [k \in Keys |-> 0]
    /\ seen' = IF st.phase \in Working THEN seen ELSE {}
    /\ redone' = (redone /\ st.phase \in Working)
    /\ UNCHANGED <<pending, undone>>

Next == \/ LooksGood \/ HitMe \/ AutofixBegin \/ AutofixEnd
        \/ \E k \in Keys, f \in BOOLEAN : Converge(k, f)
        \/ EnterGates \/ Regress \/ Advance

Spec == Init /\ [][Next]_vars

\* A coordinator that goes on recording the rounds of every key.
FairSpec == Spec /\ \A k \in Keys : WF_vars(\E f \in BOOLEAN : Converge(k, f))
-----------------------------------------------------------------------------
\* Every variable has its type.
TypeOK ==
    /\ st \in State
    /\ pending \in State \cup {NoCall}
    /\ passed \subseteq GateIds
    /\ ran \in [Keys -> 0..MaxFreshEyes]
    /\ quiet \in [Keys -> 0..CleanTarget]
    /\ seen \subseteq Keys
    /\ redone \in BOOLEAN /\ undone \in BOOLEAN

\* "All N guided review gates passed in one clean circuit" (runGates): every
\* gate passed, and none failed since, in a cycle whose work did not go back.
CompleteIsClean == st.phase = "complete" /\ ~redone => passed = GateIds

\* Why: the streak counts the gates just before the current one, around the
\* circuit, and outside the gates there is no streak (what the proof needs).
Back(g, i) == IF i <= g THEN g - i ELSE (g + GateCount) - i
StreakIsPassed ==
    ~redone =>
        /\ st.phase \in Working =>
             st.clean < GateCount /\ \A i \in 1..st.clean : Back(st.gate, i) \in passed
        /\ st.phase \notin {"iterating", "complete"} => st.clean = 0

\* "Fresh-eyes review repeats until two rounds in a row find nothing, or five
\* rounds have run" (review.ts): nothing else makes a key converge, unless an
\* autofix call wrote back older rounds.
ConvergesWhenEarned ==
    [][\A k \in Keys : st'.iter[k].converged /\ ~st.iter[k].converged =>
           quiet'[k] >= CleanTarget \/ ran'[k] >= MaxFreshEyes \/ undone']_vars

\* Whoever goes on recording rounds while the cycle is under way is told to
\* move on, whatever the rounds find, unless autofix calls undo them.
RoundsConverge ==
    \A k \in Keys : [](st.phase \in Working /\ ~undone) => <>(st.iter[k].converged)
=============================================================================
