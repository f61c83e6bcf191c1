---------------------------- MODULE RoundsProofs ----------------------------
(***************************************************************************)
(* Theorems about the two loops of rounds: ReviewGates, for every number   *)
(* of gates, keys and rounds, and PolishLoop, for every bead graph and     *)
(* every bound.  The two share no name.                                    *)
(***************************************************************************)
EXTENDS ReviewGates, PolishLoop, TLAPS

\* The state a call starts from is a state.
LEMMA LoadedType ==
    ASSUME TypeOK
    PROVE  /\ Loaded \in State /\ PassedLoaded \subseteq GateIds
           /\ Fresh \in State
<1> USE GatesAssumption DEF GatesAssumption
<1>1. NoRounds \in Iteration
  BY DEF NoRounds, Iteration
<1>2. Fresh \in State
  BY <1>1 DEF Fresh, State, Phases, Working, GateIds
<1> QED BY <1>2 DEF TypeOK, Loaded, PassedLoaded

\* What an iteration is in fact: the streak is no longer than the rounds, and
\* the cap converges it.  The bound of the streak in TypeOK rests on it.
Sound(it) == /\ it \in Iteration /\ it.streak <= it.round
             /\ ~it.converged => it.round < MaxFreshEyes

SoundState(s) == s \in State /\ \A k \in Keys : Sound(s.iter[k])

\* One more fresh-eyes round keeps an iteration sound.
LEMMA OneRoundSound ==
    ASSUME NEW it, Sound(it), NEW f \in BOOLEAN
    PROVE  Sound(OneRound(it, f))
<1> USE GatesAssumption DEF GatesAssumption, Sound
<1> DEFINE streak == IF f THEN 0 ELSE it.streak + 1
           number  == IF it.round = MaxFreshEyes THEN it.round ELSE it.round + 1
           ends   == streak >= CleanTarget \/ number >= MaxFreshEyes
<1>1. CASE it.converged
  BY <1>1 DEF OneRound
<1>2. CASE ~it.converged
  <2>1. OneRound(it, f) = [round |-> number, streak |-> streak, converged |-> ends]
    BY <1>2 DEF OneRound
  <2>2. ends \in BOOLEAN /\ (~ends => number < MaxFreshEyes)
    BY <1>2 DEF Iteration
  <2>3. streak \in 0..MaxFreshEyes /\ number \in 0..MaxFreshEyes /\ streak <= number
    BY <1>2 DEF Iteration
  <2> HIDE DEF ends, streak, number
  <2> QED BY <2>1, <2>2, <2>3 DEF Iteration
<1> QED BY <1>1, <1>2

\* The initial state and the loaded state are sound.
LEMMA LoadedSound ==
    ASSUME SoundState(st)
    PROVE  SoundState(Loaded) /\ SoundState(Fresh)
<1> USE GatesAssumption DEF GatesAssumption
<1>1. Sound(NoRounds)
  BY DEF NoRounds, Iteration, Sound
<1>2. SoundState(Fresh)
  BY <1>1 DEF Fresh, State, Phases, Working, GateIds, SoundState, Sound
<1> QED BY <1>2 DEF Loaded

\* Changes of the other fields keep a state sound.
LEMMA StateUpdate ==
    ASSUME NEW s, SoundState(s), NEW t, t.iter = s.iter, t \in State
    PROVE  SoundState(t)
BY DEF SoundState

AllSound == /\ SoundState(st)
            /\ pending # NoCall => SoundState(pending)
            /\ st.phase \in Working => st.clean < GateCount

\* Every variable keeps its type: the gate index stays in the circuit and
\* rounds and streaks within MAX_FRESH_EYES_ROUNDS.
THEOREM TypeCorrect == Spec => []TypeOK
<1> USE GatesAssumption DEF GatesAssumption
<1> DEFINE IInv == TypeOK /\ AllSound
<1>1. Init => IInv
  <2> SUFFICES ASSUME Init PROVE IInv OBVIOUS
  <2>1. Sound(NoRounds) BY DEF NoRounds, Iteration, Sound
  <2>2. st \in State /\ \A k \in Keys : st.iter[k] = NoRounds
    BY <2>1 DEF Init, Fresh, State, Phases, Working, GateIds, Sound
  <2>3. redone \in BOOLEAN /\ undone \in BOOLEAN
    BY DEF Init
  <2>4. ran \in [Keys -> 0..MaxFreshEyes] /\ quiet \in [Keys -> 0..CleanTarget]
    BY DEF Init
  <2>5. passed \subseteq GateIds /\ seen \subseteq Keys /\ pending = NoCall
    BY DEF Init
  <2>6. SoundState(st) /\ st.clean < GateCount
    BY <2>1, <2>2 DEF Init, Fresh, SoundState
  <2> QED BY <2>2, <2>3, <2>4, <2>5, <2>6 DEF TypeOK, AllSound
<1>2. IInv /\ [Next]_vars => IInv'
  <2> SUFFICES ASSUME IInv, [Next]_vars PROVE IInv' OBVIOUS
  <2>0. /\ SoundState(Loaded) /\ Loaded \in State /\ Loaded.clean < GateCount
        /\ PassedLoaded \subseteq GateIds
    BY LoadedSound DEF AllSound, SoundState, Loaded, Fresh, PassedLoaded, TypeOK
  <2>1. CASE LooksGood
    <3> DEFINE s == [Loaded EXCEPT !.gate = NextGate(@), !.clean = @ + 1]
    <3>1. s \in State /\ s.iter = Loaded.iter /\ s.clean = Loaded.clean + 1
      <4>1. NextGate(Loaded.gate) \in GateIds /\ Loaded.clean + 1 \in 0..GateCount
        BY <2>0 DEF State, GateIds, NextGate
      <4> QED BY <2>0, <4>1 DEF State
    <3>2. st' = IF s.clean >= GateCount THEN [s EXCEPT !.phase = "complete"] ELSE s
      BY <2>1 DEF LooksGood
    <3> HIDE DEF s
    <3>3. /\ st' \in State /\ st'.iter = Loaded.iter
          /\ st'.phase \in Working => st'.clean < GateCount
      BY <2>0, <3>1, <3>2 DEF State, Phases, Working
    <3>4. passed' \subseteq GateIds
      BY <2>0, <2>1 DEF LooksGood, State
    <3> QED BY <2>0, <2>1, <3>3, <3>4, StateUpdate DEF LooksGood, TypeOK, AllSound
  <2>2. CASE HitMe
    <3>1. /\ st' \in State /\ st'.iter = Loaded.iter /\ st'.clean = 0
      BY <2>0, <2>2 DEF HitMe, Failed, State, GateIds
    <3> QED BY <2>0, <2>2, <3>1, StateUpdate DEF HitMe, TypeOK, AllSound
  <2>3. CASE AutofixBegin
    BY <2>0, <2>3 DEF AutofixBegin, TypeOK, AllSound
  <2>4. CASE AutofixEnd
    <3>1. pending \in State /\ SoundState(pending)
      BY <2>4 DEF AutofixEnd, AllSound, SoundState
    <3>2. /\ st' \in State /\ st'.iter = pending.iter /\ st'.clean = 0
      BY <3>1, <2>4 DEF AutofixEnd, Failed, State, GateIds
    <3> QED BY <2>4, <3>1, <3>2, StateUpdate DEF AutofixEnd, TypeOK, AllSound
  <2>5. ASSUME NEW k \in Keys, NEW f \in BOOLEAN, Converge(k, f) PROVE IInv'
    <3>1. Sound(OneRound(Loaded.iter[k], f))
      BY <2>0, OneRoundSound DEF SoundState
    <3>2. st' = [Loaded EXCEPT !.iter = [Loaded.iter EXCEPT ![k] = OneRound(Loaded.iter[k], f)]]
      BY <2>0, <2>5 DEF Converge, State
    <3>3. /\ st' \in State /\ st'.clean = Loaded.clean
          /\ st'.iter = [Loaded.iter EXCEPT ![k] = OneRound(Loaded.iter[k], f)]
      BY <2>0, <3>1, <3>2 DEF State, Sound
    <3>4. SoundState(st')
      BY <2>0, <3>1, <3>3 DEF SoundState, State
    <3>5. ran' \in [Keys -> 0..MaxFreshEyes] /\ quiet' \in [Keys -> 0..CleanTarget]
      BY <2>5 DEF Converge, UpTo, TypeOK
    <3> QED BY <2>0, <2>5, <3>3, <3>4, <3>5 DEF Converge, TypeOK, AllSound
  <2>6. CASE EnterGates
    <3>1. /\ st' \in State /\ st'.iter = st.iter /\ st'.clean = st.clean /\ st.phase \in Working
      <4>1. st.phase \in {"implementing", "iterating"}
        BY <2>6 DEF EnterGates
      <4>2. st' = [st EXCEPT !.phase = "iterating", !.gate = 0]
        BY <2>6 DEF EnterGates
      <4>3. st \in State /\ "iterating" \in Phases /\ 0 \in GateIds
        BY DEF TypeOK, Phases, Working, GateIds
      <4> QED BY <4>1, <4>2, <4>3 DEF State, Working
    <3> QED BY <2>6, <3>1, StateUpdate DEF EnterGates, TypeOK, AllSound
  <2>7. CASE Regress
    <3>1. /\ st' \in State /\ st'.iter = Loaded.iter /\ st'.clean = Loaded.clean
      <4>1. PICK q \in {"planning", "creating_beads", "implementing"} :
               st' = [Loaded EXCEPT !.phase = q, !.gate = 0]
        BY <2>7 DEF Regress
      <4>2. q \in Phases /\ 0 \in GateIds
        BY DEF Phases, Working, GateIds
      <4> QED BY <2>0, <4>1, <4>2 DEF State
    <3> QED BY <2>0, <2>7, <3>1, StateUpdate DEF Regress, TypeOK, AllSound
  <2>8. CASE Advance
    <3>1. \/ st.phase \in Working /\ st' \in State /\ st'.iter = st.iter /\ st'.clean = st.clean
          \/ st' \in State /\ st'.iter = Fresh.iter /\ st'.clean = Fresh.clean
      BY <2>8, LoadedType DEF Advance, TypeOK, State, Phases, Working
    <3>2. SoundState(st')
      BY <3>1, LoadedSound, StateUpdate DEF AllSound
    <3>3. st'.clean < GateCount
      BY <3>1 DEF AllSound, Fresh
    <3>4. ran' \in [Keys -> 0..MaxFreshEyes] /\ quiet' \in [Keys -> 0..CleanTarget]
      BY <2>8 DEF Advance, TypeOK
    <3> QED BY <2>0, <2>8, <3>1, <3>2, <3>3, <3>4 DEF Advance, TypeOK, AllSound
  <2>9. CASE UNCHANGED vars
    BY <2>9 DEF vars, TypeOK, AllSound
  <2> QED BY <2>1, <2>2, <2>3, <2>4, <2>5, <2>6, <2>7, <2>8, <2>9 DEF Next
<1> QED BY <1>1, <1>2, PTL DEF Spec

-----------------------------------------------------------------------------
\* The gate before the next one is the current one, and so on backwards.
LEMMA BackNext ==
    ASSUME NEW g \in GateIds, NEW i \in 1..(GateCount - 1)
    PROVE  Back(NextGate(g), i + 1) = Back(g, i) /\ Back(NextGate(g), 1) = g
BY GatesAssumption DEF GatesAssumption, GateIds, Back, NextGate

LEMMA BackFirst ==
    ASSUME NEW g \in GateIds
    PROVE  NextGate(g) \in GateIds /\ Back(NextGate(g), 1) = g
BY GatesAssumption DEF GatesAssumption, GateIds, Back, NextGate

\* Going back as many gates as there are visits each of them.
LEMMA BackCovers ==
    ASSUME NEW g \in GateIds, NEW x \in GateIds
    PROVE  \E i \in 1..GateCount : Back(g, i) = x
<1> USE GatesAssumption DEF GatesAssumption, GateIds, Back
<1>1. CASE x < g
  <2>1. g - x \in 1..GateCount /\ Back(g, g - x) = x BY <1>1
  <2> QED BY <2>1
<1>2. CASE ~(x < g)
  <2>1. (g + GateCount) - x \in 1..GateCount /\ Back(g, (g + GateCount) - x) = x BY <1>2
  <2> QED BY <2>1
<1> QED BY <1>1, <1>2

\* The circuit that completes the cycle is clean, whichever gate it began with
\* and whatever failed before, when the gates are run in phase iterating and the
\* cycle's work did not go back to the beads.
THEOREM CompleteOnlyClean == InOrder => (Spec => []CompleteIsClean)
<1> USE GatesAssumption DEF GatesAssumption
<1> SUFFICES ASSUME InOrder PROVE Spec => []CompleteIsClean OBVIOUS
<1> DEFINE IInv == /\ StreakIsPassed /\ CompleteIsClean
                   /\ pending # NoCall => pending.phase = "iterating"
<1>1. Init => IInv
  BY DEF Init, Fresh, StreakIsPassed, CompleteIsClean, Working
<1>2. TypeOK /\ IInv /\ [Next]_vars => IInv'
  <2> SUFFICES ASSUME TypeOK, IInv, [Next]_vars PROVE IInv' OBVIOUS
  <2>1. ASSUME LooksGood, redone PROVE IInv'
    BY <2>1 DEF LooksGood, StreakIsPassed, CompleteIsClean
  <2>10. ASSUME LooksGood, ~redone PROVE IInv'
    <3> DEFINE s == [st EXCEPT !.gate = NextGate(@), !.clean = @ + 1]
    <3>1. st.phase = "iterating" /\ Loaded = st /\ PassedLoaded = passed
      BY <2>10 DEF LooksGood, GateCall, Loaded, PassedLoaded, Working
    <3>2. /\ s.phase = "iterating" /\ s.gate = NextGate(st.gate) /\ s.clean = st.clean + 1
          /\ s \in [phase : Phases, gate : Nat, clean : Nat, iter : [Keys -> Iteration]]
      <4>1. st \in State /\ NextGate(st.gate) \in Nat /\ st.clean + 1 \in Nat
        BY DEF TypeOK, State, GateIds, NextGate
      <4> QED BY <3>1, <4>1 DEF State
    <3>3. st' = (IF s.clean >= GateCount THEN [s EXCEPT !.phase = "complete"] ELSE s)
          /\ passed' = passed \cup {st.gate} /\ pending' = pending /\ redone' = redone
      BY <2>10, <3>1 DEF LooksGood
    <3> HIDE DEF s
    <3>4. st.gate \in GateIds /\ st.clean \in Nat /\ st.clean < GateCount
      BY <2>10, <3>1 DEF TypeOK, State, StreakIsPassed, Working
    <3>5. \A i \in 1..(st.clean + 1) : Back(NextGate(st.gate), i) \in passed'
      <4> TAKE i \in 1..(st.clean + 1)
      <4>1. CASE i = 1
        BY <3>3, <3>4, <4>1, BackFirst
      <4>2. CASE i # 1
        <5>1. i - 1 \in 1..st.clean /\ i - 1 \in 1..(GateCount - 1) /\ (i - 1) + 1 = i
          BY <3>4, <4>2
        <5>2. Back(st.gate, i - 1) \in passed
          BY <2>10, <3>1, <5>1 DEF StreakIsPassed, Working
        <5>3. Back(NextGate(st.gate), (i - 1) + 1) = Back(st.gate, i - 1)
          BY <3>4, <5>1, BackNext
        <5> QED BY <3>3, <5>1, <5>2, <5>3
      <4> QED BY <4>1, <4>2
    <3>6. CASE s.clean >= GateCount
      <4>1. st'.phase = "complete" /\ st.clean + 1 = GateCount
        BY <3>2, <3>3, <3>4, <3>6
      <4>2. \A x \in GateIds : x \in passed'
        BY <3>4, <3>5, <4>1, BackFirst, BackCovers
      <4>3. passed' = GateIds
        BY <3>3, <3>4, <4>2 DEF TypeOK
      <4> QED BY <3>3, <4>1, <4>3 DEF StreakIsPassed, CompleteIsClean, Working
    <3>7. CASE ~(s.clean >= GateCount)
      <4>1. st'.phase = "iterating" /\ st'.gate = NextGate(st.gate) /\ st'.clean = st.clean + 1
            /\ st'.clean < GateCount
        BY <3>2, <3>3, <3>4, <3>7
      <4> QED BY <3>3, <3>5, <4>1 DEF StreakIsPassed, CompleteIsClean, Working
    <3> QED BY <3>6, <3>7
  <2>2. CASE HitMe
    <3>1. st'.clean = 0 /\ st'.phase = "iterating" /\ pending' = pending /\ redone' = redone
      BY <2>2 DEF HitMe, GateCall, Failed, Loaded, Working, TypeOK, State
    <3> QED BY <3>1 DEF StreakIsPassed, CompleteIsClean, Working
  <2>3. CASE AutofixBegin
    <3>1. pending'.phase = "iterating" /\ st' = st /\ passed' = passed /\ redone' = redone
      BY <2>3 DEF AutofixBegin, GateCall, Loaded, Working
    <3> QED BY <3>1 DEF StreakIsPassed, CompleteIsClean
  <2>4. CASE AutofixEnd
    <3>1. st'.clean = 0 /\ st'.phase = "iterating" /\ pending' = NoCall
      BY <2>4 DEF AutofixEnd, Failed, TypeOK, State
    <3> QED BY <3>1 DEF StreakIsPassed, CompleteIsClean, Working
  <2>5. ASSUME NEW k \in Keys, NEW f \in BOOLEAN, Converge(k, f) PROVE IInv'
    <3>1. CASE st.phase \in Working
      <4>1. /\ st'.phase = st.phase /\ st'.gate = st.gate /\ st'.clean = st.clean
            /\ passed' = passed /\ pending' = pending /\ redone' = redone
        BY <2>5, <3>1 DEF Converge, Loaded, PassedLoaded, TypeOK, State
      <4> QED BY <4>1 DEF StreakIsPassed, CompleteIsClean
    <3>2. CASE st.phase \notin Working
      <4>1. st'.phase = "idle" /\ st'.clean = 0 /\ pending' = pending
        BY <2>5, <3>2 DEF Converge, Loaded, Fresh
      <4> QED BY <4>1 DEF StreakIsPassed, CompleteIsClean, Working
    <3> QED BY <3>1, <3>2
  <2>6. CASE EnterGates
    <3>1. /\ st'.phase = "iterating" /\ st'.clean = st.clean /\ pending' = pending
          /\ redone' = (redone \/ st.phase = "iterating")
          /\ st.phase \in {"implementing", "iterating"}
      BY <2>6 DEF EnterGates, TypeOK, State
    <3>2. ~redone' => ~redone /\ st'.clean = 0
      BY <3>1 DEF StreakIsPassed
    <3> QED BY <3>1, <3>2 DEF StreakIsPassed, CompleteIsClean, Working
  <2>7. CASE Regress
    <3>1. redone' = TRUE /\ pending' = pending
      BY <2>7 DEF Regress
    <3> QED BY <3>1 DEF StreakIsPassed, CompleteIsClean
  <2>8. CASE Advance
    <3>1. /\ st'.phase \in {"planning", "creating_beads", "implementing"} /\ pending' = pending
          /\ st.phase \notin Working => st'.clean = 0
          /\ st.phase \in Working =>
                /\ st.phase \in {"planning", "creating_beads"} /\ redone' = redone
                /\ st'.clean = st.clean
      BY <2>8 DEF Advance, Fresh, TypeOK, State, Working
    <3>2. ~redone' => st'.clean = 0
      BY <3>1 DEF StreakIsPassed
    <3> QED BY <3>1, <3>2 DEF StreakIsPassed, CompleteIsClean, Working
  <2>9. CASE UNCHANGED vars
    BY <2>9 DEF vars, StreakIsPassed, CompleteIsClean
  <2> QED BY <2>1, <2>10, <2>2, <2>3, <2>4, <2>5, <2>6, <2>7, <2>8, <2>9 DEF Next
<1>3. IInv => CompleteIsClean
  OBVIOUS
<1> QED BY <1>1, <1>2, <1>3, TypeCorrect, PTL DEF Spec

-----------------------------------------------------------------------------
\* The rounds and the streak of a key that has not converged were run in this
\* cycle, unless an autofix call wrote older ones back.
Earned(k) == st.iter[k].converged \/ (st.iter[k].round <= ran[k] /\ st.iter[k].streak <= quiet[k])
EarnedInv == undone \/ \A k \in Keys : Earned(k)

\* One round more, of the key and of the history.
LEMMA RoundEarned ==
    ASSUME NEW it \in Iteration, NEW f \in BOOLEAN, ~it.converged,
           NEW r \in 0..MaxFreshEyes, NEW q \in 0..CleanTarget, it.round <= r, it.streak <= q,
           NEW r1, r1 = UpTo(r + 1, MaxFreshEyes),
           NEW q1, q1 = IF f THEN 0 ELSE UpTo(q + 1, CleanTarget)
    PROVE  IF OneRound(it, f).converged
           THEN q1 >= CleanTarget \/ r1 >= MaxFreshEyes
           ELSE OneRound(it, f).round <= r1 /\ OneRound(it, f).streak <= q1
<1> USE GatesAssumption DEF GatesAssumption
<1> DEFINE streak == IF f THEN 0 ELSE it.streak + 1
           number  == IF it.round = MaxFreshEyes THEN it.round ELSE it.round + 1
           ends   == streak >= CleanTarget \/ number >= MaxFreshEyes
<1>1. OneRound(it, f) = [round |-> number, streak |-> streak, converged |-> ends]
  BY DEF OneRound
<1>2. number <= r1 /\ number \in Nat
  BY DEF Iteration, UpTo
<1>3. streak <= q1 \/ q1 = CleanTarget
  BY DEF Iteration, UpTo
<1>4. streak \in Nat /\ r1 \in Nat /\ q1 \in Nat
  BY DEF Iteration, UpTo
<1> HIDE DEF streak, number
<1>5. ends => q1 >= CleanTarget \/ r1 >= MaxFreshEyes
  BY <1>2, <1>3, <1>4
<1>6. ~ends => number <= r1 /\ streak <= q1
  BY <1>2, <1>3, <1>4
<1> HIDE DEF ends
<1>7. /\ OneRound(it, f).converged = ends
      /\ OneRound(it, f).round = number /\ OneRound(it, f).streak = streak
  BY <1>1
<1>8. CASE ends BY <1>5, <1>7, <1>8, Zenon
<1>9. CASE ~ends BY <1>6, <1>7, <1>9, Zenon
<1> QED BY <1>8, <1>9

\* A step that records no round starts a key over or leaves it alone.
LEMMA NoRoundEarned ==
    ASSUME EarnedInv, \A k \in Keys : 
               \/ st'.iter[k] = NoRounds /\ ran'[k] \in Nat /\ quiet'[k] \in Nat
               \/ st'.iter[k] = st.iter[k] /\ ran'[k] = ran[k] /\ quiet'[k] = quiet[k],
           undone' = undone
    PROVE  EarnedInv' /\ \A k \in Keys : st'.iter[k].converged => st.iter[k].converged
BY DEF EarnedInv, Earned, NoRounds

\* No key converges before its rounds were run: two in a row that found nothing,
\* or MAX_FRESH_EYES_ROUNDS, in this cycle, for every number of keys and rounds.
THEOREM ConvergenceEarned == Spec => ConvergesWhenEarned
<1> USE GatesAssumption DEF GatesAssumption
<1> DEFINE Act == \A k \in Keys : st'.iter[k].converged /\ ~st.iter[k].converged =>
                      quiet'[k] >= CleanTarget \/ ran'[k] >= MaxFreshEyes \/ undone'
<1>1. Init => EarnedInv
  BY DEF Init, Fresh, NoRounds, EarnedInv, Earned
<1>2. TypeOK /\ TypeOK' /\ EarnedInv /\ [Next]_vars => EarnedInv' /\ [Act]_vars
  <2> SUFFICES ASSUME TypeOK, TypeOK', EarnedInv, [Next]_vars PROVE EarnedInv' /\ Act
    OBVIOUS
  <2>1. \A k \in Keys : /\ Loaded.iter[k] = NoRounds \/ Loaded.iter[k] = st.iter[k]
                        /\ Fresh.iter[k] = NoRounds
                        /\ ran[k] \in 0..MaxFreshEyes /\ quiet[k] \in 0..CleanTarget
    BY DEF Loaded, Fresh, TypeOK
  <2>2. Loaded \in State /\ st \in State /\ Fresh \in State
    BY LoadedType DEF TypeOK
  <2>3. ASSUME st'.iter = Loaded.iter \/ st'.iter = st.iter, UNCHANGED <<ran, quiet, undone>>
        PROVE  EarnedInv' /\ Act
    BY <2>1, <2>3, NoRoundEarned
  <2>4. CASE LooksGood \/ HitMe \/ EnterGates \/ Regress
    <3>1. st'.iter = Loaded.iter \/ st'.iter = st.iter
      BY <2>2, <2>4 DEF LooksGood, HitMe, Failed, EnterGates, Regress, State
    <3> QED BY <2>3, <2>4, <3>1 DEF LooksGood, HitMe, EnterGates, Regress
  <2>5. CASE AutofixBegin \/ UNCHANGED vars
    BY <2>3, <2>5 DEF AutofixBegin, vars
  <2>6. CASE AutofixEnd
    BY <2>6 DEF AutofixEnd, EarnedInv
  <2>7. CASE Advance
    <3>1. CASE st.phase \in Working
      BY <2>2, <2>3, <2>7, <3>1 DEF Advance, State
    <3>2. CASE st.phase \notin Working
      <4>1. st'.iter = Fresh.iter
        BY <2>2, <2>7, <3>2 DEF Advance, State, Working
      <4>2. undone' = undone /\ \A k \in Keys : ran'[k] \in Nat /\ quiet'[k] \in Nat
        BY <2>7, <3>2 DEF Advance
      <4> QED BY <2>1, <4>1, <4>2, NoRoundEarned
    <3> QED BY <3>1, <3>2
  <2>8. ASSUME NEW k \in Keys, NEW f \in BOOLEAN, Converge(k, f) PROVE EarnedInv' /\ Act
    <3> DEFINE it == Loaded.iter[k]
    <3>1. /\ st'.iter[k] = OneRound(it, f)
          /\ \A j \in Keys : j # k => st'.iter[j] = Loaded.iter[j]
      BY <2>2, <2>8 DEF Converge, State
    <3>2. /\ ran'[k] = UpTo(ran[k] + 1, MaxFreshEyes)
          /\ quiet'[k] = IF f THEN 0 ELSE UpTo(quiet[k] + 1, CleanTarget)
          /\ \A j \in Keys : j # k => ran'[j] = ran[j] /\ quiet'[j] = quiet[j]
          /\ undone' = undone
      BY <2>8 DEF Converge, TypeOK
    <3>3. \A j \in Keys : j # k => /\ undone \/ Earned(j)'
                                   /\ st'.iter[j].converged => st.iter[j].converged
      BY <2>1, <3>1, <3>2 DEF EarnedInv, Earned, NoRounds
    <3>4. CASE it.converged
      <4>1. it = st.iter[k] /\ st'.iter[k] = it
        BY <2>1, <3>1, <3>4 DEF NoRounds, OneRound
      <4> QED BY <3>2, <3>3, <3>4, <4>1 DEF EarnedInv, Earned
    <3>5. CASE undone
      BY <3>2, <3>5 DEF EarnedInv
    <3>6. CASE ~it.converged /\ ~undone
      <4>1. it \in Iteration /\ it.round <= ran[k] /\ it.streak <= quiet[k]
        BY <2>1, <2>2, <3>6 DEF EarnedInv, Earned, NoRounds, State
      <4>2. IF st'.iter[k].converged
            THEN quiet'[k] >= CleanTarget \/ ran'[k] >= MaxFreshEyes
            ELSE st'.iter[k].round <= ran'[k] /\ st'.iter[k].streak <= quiet'[k]
        BY <2>1, <3>1, <3>2, <3>6, <4>1, RoundEarned
      <4> QED BY <3>2, <3>3, <4>2 DEF EarnedInv, Earned
    <3> QED BY <3>4, <3>5, <3>6
  <2> QED BY <2>4, <2>5, <2>6, <2>7, <2>8 DEF Next
<1>3. ConvergesWhenEarned <=> [][Act]_vars
  BY PTL DEF ConvergesWhenEarned
<1> QED BY <1>1, <1>2, <1>3, TypeCorrect, PTL DEF Spec

-----------------------------------------------------------------------------
\* The tracking keeps the types of what it returns.
LEMMA TrackedType ==
    ASSUME PolishTypeOK
    PROVE  /\ Tracked.round \in 0..MaxRound
           /\ Tracked.changes \in Changes
           /\ Tracked.converged \in BOOLEAN
           /\ Tracked.snapshot \in Shown \cup {NoSnapshot, Foreign}
           /\ Tracked.snapshot # NoSnapshot
<1> USE SnapshotAssumption, RoundsAssumption
<1> DEFINE counted == Refining /\ snapshot # NoSnapshot
           chg     == IF counted THEN Compared(changes, snapshot) ELSE changes
<1>1. chg \in Changes
  BY DEF Compared, Changes, UpTo3, PolishTypeOK
<1>2. Tracked.round = IF counted THEN Capped(round + 1) ELSE round
  BY DEF Tracked
<1>3. Tracked.changes = chg
  BY DEF Tracked
<1>4. Tracked.converged = IF counted /\ chg.entries >= 2 THEN Steady(chg) ELSE converged
  BY DEF Tracked
<1>5. Tracked.snapshot = IF Refining \/ snapshot = NoSnapshot THEN graph.shown ELSE snapshot
  BY DEF Tracked
<1>6. Tracked.converged \in BOOLEAN
  <2>1. Steady(chg) \in BOOLEAN BY DEF Steady
  <2>2. converged \in BOOLEAN BY DEF PolishTypeOK
  <2> HIDE DEF counted, chg
  <2> QED BY <1>4, <2>1, <2>2, Zenon
<1>7. Tracked.round \in 0..MaxRound
  BY <1>2 DEF Capped, PolishTypeOK
<1> QED BY <1>1, <1>3, <1>5, <1>6, <1>7 DEF PolishTypeOK, Graph

\* The observation keeps the types of the history variables.
LEMMA ObserveType ==
    ASSUME PolishTypeOK, NEW e \in BOOLEAN, Observe(e)
    PROVE  before' \in Graph \cup {NoSnapshot} /\ quietRounds' \in 0..2
BY DEF PolishTypeOK, Observe, Quiet

\* Every variable keeps its type, whatever the server, the agents and the
\* other projects do.
THEOREM PolishTypeCorrect == PolishSpec => []PolishTypeOK
<1> USE SnapshotAssumption, RoundsAssumption
<1>1. PolishInit => PolishTypeOK
  <2> SUFFICES ASSUME PolishInit PROVE PolishTypeOK OBVIOUS
  <2>1. changes \in Changes BY DEF PolishInit, NoChanges, Changes
  <2>2. converged \in BOOLEAN /\ disturbed \in BOOLEAN BY DEF PolishInit
  <2> QED BY <2>1, <2>2 DEF PolishInit, PolishTypeOK, PolishPhases, Stops
<1>2. PolishTypeOK /\ [PolishNext]_polishVars => PolishTypeOK'
  <2> SUFFICES ASSUME PolishTypeOK, [PolishNext]_polishVars PROVE PolishTypeOK' OBVIOUS
  <2>1. CASE Polish
    <3>2. Refining \in BOOLEAN /\ Observe(Refining) /\ Store(Tracked)
      BY <2>1 DEF Polish, Refining
    <3> QED BY <2>1, <3>2, TrackedType, ObserveType DEF Polish, Store, PolishTypeOK, PolishPhases,
         Stops
  <2>2. CASE Advanced
    <3>2. Refining \in BOOLEAN /\ Observe(Refining) /\ Store(Tracked)
      BY <2>2 DEF Advanced, Refining
    <3> QED BY <2>2, <3>2, TrackedType, ObserveType DEF Advanced, Store, PolishTypeOK, PolishPhases,
         Stops
  <2>3. CASE ConvergePolish
    <3>2. (before # NoSnapshot) \in BOOLEAN /\ Observe(before # NoSnapshot)
      BY <2>3 DEF ConvergePolish
    <3> DEFINE chg == Compared(Tracked.changes, Tracked.snapshot)
               next == IF Tracked.round >= MaxPolishRounds THEN MaxPolishRounds ELSE Tracked.round + 1
    <3>4. chg \in Changes
      BY TrackedType DEF Compared, Changes, UpTo3
    <3>5. next \in 0..MaxRound BY TrackedType
    <3>6. /\ round' = next /\ changes' = chg /\ snapshot' = graph.shown
          /\ converged' = (Tracked.converged \/ Steady(chg) \/ next >= MaxPolishRounds)
          /\ stop' \in Stops
      BY <2>3 DEF ConvergePolish, Store, Stops
    <3>7. converged' \in BOOLEAN BY <3>6, TrackedType DEF Steady
    <3>8. /\ phase' = "awaiting_bead_approval" /\ graph' = graph /\ requested' = requested
          /\ lost' = lost /\ disturbed' \in BOOLEAN
      BY <2>3 DEF ConvergePolish
    <3> HIDE DEF chg, next
    <3> QED BY <3>2, <3>4, <3>5, <3>6, <3>7, <3>8, ObserveType DEF PolishTypeOK, Graph, PolishPhases
  <2>4. CASE Start
    <3> QED BY <2>4, TrackedType DEF Start, Store, Quiet, PolishTypeOK, PolishPhases, Stops
  <2>5. CASE StartRefused
    <3>2. Refining \in BOOLEAN /\ Observe(Refining) /\ Store(Tracked)
      BY <2>5 DEF StartRefused, Refining
    <3> QED BY <2>5, <3>2, TrackedType, ObserveType DEF StartRefused, Store, PolishTypeOK,
         PolishPhases, Stops
  <2>6. CASE Reject
    <3> QED BY <2>6, TrackedType DEF Reject, Store, Quiet, PolishTypeOK, PolishPhases, Stops
  <2>7. CASE NewCycle 
    <3>1. converged' \in BOOLEAN /\ disturbed' \in BOOLEAN BY <2>7 DEF NewCycle
    <3> QED BY <2>7, <3>1 DEF NewCycle, NoChanges, Changes, PolishTypeOK, PolishPhases, Stops
  <2>8. CASE Edit BY <2>8 DEF Edit, PolishTypeOK
  <2>9. CASE Restart BY <2>9 DEF Restart, Lose, PolishTypeOK
  <2>10. CASE OtherProject 
    <3>1. disturbed' \in BOOLEAN BY <2>10 DEF OtherProject, Lose
    <3>2. CASE Lose BY <3>1, <3>2 DEF Lose, PolishTypeOK
    <3>3. CASE ~Lose BY <2>10, <3>1, <3>3 DEF OtherProject, PolishTypeOK
    <3> QED BY <3>2, <3>3
  <2>11. CASE UNCHANGED polishVars BY <2>11 DEF polishVars, PolishTypeOK
  <2> QED BY <2>1, <2>2, <2>3, <2>4, <2>5, <2>6, <2>7, <2>8, <2>9, <2>10, <2>11 DEF PolishNext
<1> QED BY <1>1, <1>2, PTL DEF PolishSpec

-----------------------------------------------------------------------------
\* The bound on the rounds of action="polish": max_rounds of them and one more
\* for every loss of the module's snapshot, as long as max_rounds is not above
\* the cap that converge-polish puts on the same counter.
THEOREM RoundsBounded ==
    MaxRounds <= MaxPolishRounds => (PolishSpec => []BoundedButForLosses)
<1> USE SnapshotAssumption, RoundsAssumption
<1> SUFFICES ASSUME MaxRounds <= MaxPolishRounds PROVE PolishSpec => []BoundedButForLosses OBVIOUS
<1> DEFINE IInv == BoundedButForLosses /\ Counted
<1>1. PolishInit => IInv
  BY DEF PolishInit, BoundedButForLosses, Counted, Refining
<1>2. PolishTypeOK /\ IInv /\ [PolishNext]_polishVars => IInv'
  <2> SUFFICES ASSUME PolishTypeOK, IInv, [PolishNext]_polishVars PROVE IInv' OBVIOUS
  <2> USE DEF PolishTypeOK
  <2>1. Tracked.round < MaxRounds => requested <= Tracked.round + lost
    BY DEF Tracked, Capped, Counted, Refining
  <2>2. Tracked.round \in Nat /\ Tracked.snapshot # NoSnapshot
    BY TrackedType
  <2>3. CASE Polish
    <3>1. round' = Tracked.round /\ snapshot' = Tracked.snapshot /\ lost' = lost
      BY <2>3 DEF Polish, Store, Callable
    <3>2. \/ requested' = requested
          \/ requested' = requested + 1 /\ Tracked.round < MaxRounds /\ phase' = "refining_beads"
      BY <2>3, <3>1, <2>2 DEF Polish
    <3> QED BY <2>1, <2>2, <3>1, <3>2 DEF BoundedButForLosses, Counted, Refining
  <2>4. CASE Advanced \/ Start \/ StartRefused \/ Reject
    <3>1. round' = Tracked.round /\ lost' = lost /\ requested' = requested
      BY <2>4 DEF Advanced, Start, StartRefused, Reject, Store, Callable
    <3> QED BY <2>1, <2>2, <3>1 DEF BoundedButForLosses, Counted
  <2>5. CASE ConvergePolish
    <3>1. /\ round' = IF Tracked.round >= MaxPolishRounds THEN MaxPolishRounds ELSE Tracked.round + 1
          /\ lost' = lost /\ requested' = requested
      BY <2>5 DEF ConvergePolish, Store, Callable
    <3> QED BY <2>1, <2>2, <3>1 DEF BoundedButForLosses, Counted
  <2>6. CASE NewCycle
    BY <2>6 DEF NewCycle, BoundedButForLosses, Counted, Refining
  <2>7. CASE Edit
    BY <2>7 DEF Edit, BoundedButForLosses, Counted, Refining
  <2>8. CASE Restart \/ OtherProject
    BY <2>8 DEF Restart, OtherProject, Lose, BoundedButForLosses, Counted,
         Refining
  <2>9. CASE UNCHANGED polishVars
    BY <2>9 DEF polishVars, BoundedButForLosses, Counted, Refining
  <2> QED BY <2>3, <2>4, <2>5, <2>6, <2>7, <2>8, <2>9 DEF PolishNext
<1>3. IInv => BoundedButForLosses
  OBVIOUS
<1> QED BY <1>1, <1>2, <1>3, PolishTypeCorrect, PTL DEF PolishSpec

-----------------------------------------------------------------------------
\* One call that stores the tracking keeps the snapshot and the zeros true.
LEMMA TrackedQuiet ==
    ASSUME PolishTypeOK, ~disturbed, SnapshotIsStart, ZerosAreQuiet, \A g, h \in Hidden : g = h,
           changes' = Tracked.changes, converged' = Tracked.converged,
           quietRounds' = Quiet(Refining), quietRounds' \in 0..2
    PROVE  ZerosAreQuiet'
<1> USE SnapshotAssumption, RoundsAssumption DEF PolishTypeOK
<1>1. CASE ~Refining
  BY <1>1 DEF Tracked, Quiet, ZerosAreQuiet, Steady
<1>2. CASE Refining
  <2>1. snapshot # NoSnapshot /\ before # NoSnapshot /\ before \in Graph /\ snapshot = before.shown
    BY <1>2 DEF SnapshotIsStart
  <2>2. snapshot = graph.shown => graph = before
    <3>1. \A g, h \in Graph : g.shown = h.shown /\ g.hidden = h.hidden => g = h
      BY DEF Graph
    <3>2. graph.hidden = before.hidden
      BY <2>1 DEF Graph
    <3> QED BY <2>1, <3>1, <3>2
  <2>3. changes' = Compared(changes, snapshot)
    BY <1>2, <2>1 DEF Tracked
  <2>4. converged' = IF changes'.entries >= 2 THEN Steady(changes') ELSE converged
    BY <1>2, <2>1 DEF Tracked
  <2>5. quietRounds' = IF graph # before THEN 0 ELSE IF quietRounds = 2 THEN 2 ELSE quietRounds + 1
    BY <1>2, <2>1 DEF Quiet
  <2>6. /\ changes'.zeros <= changes'.entries
        /\ changes'.zeros >= 1 => quietRounds' >= 1
        /\ changes'.zeros >= 2 => quietRounds' = 2
    BY <2>2, <2>3, <2>5 DEF Compared, UpTo3, Changes, ZerosAreQuiet
  <2>7. converged' => Steady(changes')
    <3>1. CASE changes'.entries >= 2
      BY <2>4, <3>1, Zenon
    <3>2. CASE ~(changes'.entries >= 2)
      <4>1. converged' => converged BY <2>4, <3>2, Zenon
      <4>2. ~converged
        BY <2>3, <3>2 DEF Compared, UpTo3, Changes, ZerosAreQuiet, Steady
      <4> QED BY <4>1, <4>2
    <3> QED BY <3>1, <3>2
  <2> QED BY <2>6, <2>7 DEF ZerosAreQuiet
<1> QED BY <1>1, <1>2

\* In an undisturbed cycle polishConverged means what types.ts says: the last
\* two rounds left the bead graph as it was, if countChanges sees every edit.
THEOREM ConvergedTrusted ==
    (\A g, h \in Hidden : g = h) => (PolishSpec => []ConvergedIsQuiet)
<1> USE SnapshotAssumption, RoundsAssumption
<1> SUFFICES ASSUME \A g, h \in Hidden : g = h PROVE PolishSpec => []ConvergedIsQuiet OBVIOUS
<1> DEFINE IInv == SnapshotIsStart /\ ZerosAreQuiet
<1>1. PolishInit => IInv
  BY DEF PolishInit, SnapshotIsStart, ZerosAreQuiet, Refining, NoChanges, Steady
<1>2. PolishTypeOK /\ PolishTypeOK' /\ IInv /\ [PolishNext]_polishVars => IInv'
  <2> SUFFICES ASSUME PolishTypeOK, PolishTypeOK', IInv, [PolishNext]_polishVars, ~disturbed' PROVE IInv'
    BY DEF SnapshotIsStart, ZerosAreQuiet
  <2>0. quietRounds' \in 0..2 /\ \A g, h \in Hidden : g = h
    BY DEF PolishTypeOK
  <2>1. CASE Polish \/ Advanced \/ StartRefused
    <3>1. Store(Tracked) /\ Observe(Refining) /\ ~disturbed
      BY <2>1 DEF Polish, Advanced, StartRefused
    <3>2. SnapshotIsStart'
      BY <2>1, <3>1 DEF Polish, Advanced, StartRefused, Store, Tracked,
           Observe, SnapshotIsStart, PolishTypeOK, Graph, Refining
    <3> QED BY <2>0, <3>1, <3>2, TrackedQuiet DEF Store, Observe
  <2>2. CASE Start \/ Reject
    <3>1. /\ changes' = Tracked.changes /\ converged' = Tracked.converged
          /\ quietRounds' = Quiet(Refining) /\ ~disturbed
      BY <2>2 DEF Start, Reject, Store
    <3>2. SnapshotIsStart'
      BY <2>2 DEF Start, Reject, Store, SnapshotIsStart, Refining
    <3> QED BY <2>0, <3>1, <3>2, TrackedQuiet
  <2>3. CASE NewCycle
    <3>1. disturbed' = (snapshot # NoSnapshot) BY <2>3 DEF NewCycle
    <3>2. snapshot = NoSnapshot BY <3>1, Zenon
    <3>3. snapshot' = NoSnapshot /\ before' = NoSnapshot /\ changes' = NoChanges /\ ~converged'
      BY <2>3, <3>2 DEF NewCycle
    <3>4. phase' = "creating_beads" BY <2>3 DEF NewCycle
    <3> QED BY <3>3, <3>4 DEF NoChanges, SnapshotIsStart, ZerosAreQuiet, Refining
  <2>4. CASE Edit
    BY <2>4 DEF Edit, SnapshotIsStart, ZerosAreQuiet, Refining, Steady
  <2>5. ~ConvergePolish /\ ~Restart /\ ~OtherProject
    BY DEF ConvergePolish, Restart, OtherProject, Lose
  <2>6. CASE UNCHANGED polishVars
    BY <2>6 DEF polishVars, SnapshotIsStart, ZerosAreQuiet, Refining, Steady
  <2> QED BY <2>1, <2>2, <2>3, <2>4, <2>5, <2>6 DEF PolishNext
<1>3. IInv => ConvergedIsQuiet
  BY DEF ZerosAreQuiet, ConvergedIsQuiet, Steady
<1> QED BY <1>1, <1>2, <1>3, PolishTypeCorrect, PTL DEF PolishSpec
=============================================================================
