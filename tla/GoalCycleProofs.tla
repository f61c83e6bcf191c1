--------------------------- MODULE GoalCycleProofs ----------------------------
(***************************************************************************)
(* Theorems about GoalCycle, for every set of goals, every cap and every   *)
(* number of calls, choices, edits and failures.                           *)
(***************************************************************************)
EXTENDS GoalCycle, FiniteSets, FiniteSetTheorems, TLAPS

\* A checkpoint, or a call's copy of it, whose history keeps to its cap.
Good(s) == s \in State /\ Len(s.history) <= HistoryCap

\* A call is about a goal, a grading is of an iteration and has its status.
Placed(k) ==
    /\ k.op \in {"select", "profile", "synthesize", "lock", "edit", "grade", "save"} => k.g \in Goals
    /\ k.op \in {"grade", "save"} => k.n \in Iterations
    /\ k.op = "save" => k.status \in Statuses

TypeInv ==
    /\ TypeOK /\ Good(st)
    /\ \A c \in Calls : Placed(call[c]) /\ Good(call[c].s)

LEMMA FreshGood == Good(Fresh) /\ Idle \in Call /\ Placed(Idle) /\ Idle.s = Fresh
<1>1. Len(<<>>) <= HistoryCap /\ <<>> \in Seq(Entry)
  BY CycleAssumption
<1>2. Fresh \in State
  BY <1>1 DEF Fresh, State, Phases, Slug
<1>3. Idle \in Call
  BY <1>2 DEF Idle, Call, Ops, Slug
<1> QED BY <1>1, <1>2, <1>3 DEF Good, Fresh, Idle, Placed

LEMMA LoadedGood == TypeInv => Good(Loaded)
BY FreshGood DEF TypeInv, Loaded

\* A grading more, and the oldest falls out at the cap.
LEMMA PushedTyped ==
    ASSUME NEW h \in Seq(Entry), Len(h) <= HistoryCap, NEW e \in Entry
    PROVE  /\ Pushed(h, e) \in Seq(Entry)
           /\ Len(Pushed(h, e)) <= HistoryCap
           /\ Len(h) < HistoryCap => Len(Pushed(h, e)) = Len(h) + 1
<1> DEFINE l == Append(h, e)
<1>1. l \in Seq(Entry) /\ Len(l) = Len(h) + 1 /\ Len(h) \in Nat
  OBVIOUS
<1>2. l # <<>> /\ Tail(l) \in Seq(Entry) /\ Len(Tail(l)) = Len(l) - 1
  BY <1>1
<1>3. HistoryCap \in Nat
  BY CycleAssumption
<1> HIDE DEF l
<1>4. Pushed(h, e) = IF Len(l) > HistoryCap THEN Tail(l) ELSE l
  BY DEF Pushed, l
<1> QED BY <1>1, <1>2, <1>3, <1>4

\* What is in the history was there, or is the new entry; it does not shrink.
LEMMA PushedHolds ==
    ASSUME NEW h \in Seq(Entry), Len(h) <= HistoryCap, NEW e \in Entry
    PROVE  /\ \A i \in DOMAIN Pushed(h, e) : Pushed(h, e)[i] = e \/ \E j \in DOMAIN h : Pushed(h, e)[i] = h[j]
           /\ Len(h) <= Len(Pushed(h, e))
<1> DEFINE l == Append(h, e)
<1>1. /\ l \in Seq(Entry) /\ Len(l) = Len(h) + 1 /\ Len(h) \in Nat /\ DOMAIN h = 1..Len(h) /\ DOMAIN l = 1..Len(l)
      /\ l # <<>>
  OBVIOUS
<1>2. \A i \in 1..Len(l) : l[i] = e \/ (i \in DOMAIN h /\ l[i] = h[i])
  <2>1. ASSUME NEW i \in 1..Len(l) PROVE l[i] = e \/ (i \in DOMAIN h /\ l[i] = h[i])
    <3>1. CASE i = Len(h) + 1
      BY <1>1, <3>1
    <3>2. CASE i # Len(h) + 1
      BY <1>1, <3>2
    <3> QED BY <3>1, <3>2
  <2> QED BY <2>1
<1> HIDE DEF l
<1>3. /\ Tail(l) \in Seq(Entry) /\ Len(Tail(l)) = Len(l) - 1 /\ DOMAIN Tail(l) = 1..(Len(l) - 1)
      /\ \A i \in 1..(Len(l) - 1) : Tail(l)[i] = l[i + 1]
  BY <1>1
<1>4. \A i \in 1..(Len(l) - 1) : i + 1 \in 1..Len(l)
  BY <1>1
<1>5. Pushed(h, e) = IF Len(l) > HistoryCap THEN Tail(l) ELSE l
  BY DEF Pushed, l
<1>6. CASE Len(l) > HistoryCap
  BY <1>1, <1>2, <1>3, <1>4, <1>5, <1>6
<1>7. CASE ~(Len(l) > HistoryCap)
  BY <1>1, <1>2, <1>5, <1>7
<1> QED BY <1>6, <1>7

LEMMA CallBegins ==
    ASSUME TypeInv, NEW c \in Calls, NEW k \in Call, Placed(k), Begins(c, k)
    PROVE  /\ call' \in [Calls -> Call]
           /\ \A d \in Calls : Placed(call'[d]) /\ Good(call'[d].s)
           /\ overlaps' \in Nat /\ lost' \in Nat
<1> DEFINE m == [k EXCEPT !.s = Loaded]
<1>1. m \in Call /\ Placed(m) /\ m.s = Loaded
  BY LoadedGood DEF Call, Placed, Good
<1> HIDE DEF m
<1>2. call' = [call EXCEPT ![c] = m]
  BY DEF Begins, m
<1>3. call \in [Calls -> Call]
  BY DEF TypeInv, TypeOK
<1>4. \A d \in Calls : call'[d] = IF d = c THEN m ELSE call[d]
  BY <1>2, <1>3
<1>5. overlaps' \in Nat /\ lost' \in Nat
  BY DEF Begins, TypeInv, TypeOK
<1> QED BY <1>1, <1>2, <1>3, <1>4, <1>5, LoadedGood DEF TypeInv

LEMMA CallEnds ==
    ASSUME TypeInv, NEW c \in Calls, Ends(c)
    PROVE  /\ call' \in [Calls -> Call]
           /\ \A d \in Calls : Placed(call'[d]) /\ Good(call'[d].s)
           /\ \A d \in Calls : call'[d] = IF d = c THEN Idle ELSE call[d]
<1>1. call \in [Calls -> Call] /\ call' = [call EXCEPT ![c] = Idle]
  BY DEF TypeInv, TypeOK, Ends
<1>2. \A d \in Calls : call'[d] = IF d = c THEN Idle ELSE call[d]
  BY <1>1
<1> QED BY <1>1, <1>2, FreshGood DEF TypeInv

LEMMA DoneAtOnce ==
    ASSUME TypeInv, NEW s, Good(s), AtOnce(s)
    PROVE  st' = s /\ call' = call /\ overlaps' \in Nat /\ lost' = lost /\ forced' = forced
BY DEF AtOnce, TypeInv, TypeOK

\* What the calls make of a good copy is good.
LEMMA CopiesGood ==
    ASSUME NEW s, Good(s), NEW g \in Slug, NEW p \in Phases
    PROVE  /\ Good([s EXCEPT !.phase = p]) /\ Good([s EXCEPT !.plan = g, !.phase = p])
           /\ Good([s EXCEPT !.goal = g, !.phase = p])
           /\ Good([s EXCEPT !.rubric = g]) /\ Good([s EXCEPT !.skipped = TRUE])
           /\ Good(Selected(s, g))
<1>1. s \in State /\ Len(s.history) <= HistoryCap
  BY DEF Good
<1>2. Len(<<>>) <= HistoryCap /\ <<>> \in Seq(Entry) /\ None \in Slug
  BY CycleAssumption DEF Slug
<1>3. Selected(s, g) \in State /\ Selected(s, g).history = <<>>
  BY <1>1, <1>2 DEF Selected, State, Phases
<1> QED BY <1>1, <1>2, <1>3 DEF Good, State

\* Types, in parts: the files, the history variables.
FilesOK == /\ docs \in [Goals -> Nat] /\ rub \in [Goals -> Rubrics]
           /\ verd \in [Goals -> SUBSET Iterations] /\ locks \subseteq Goals
PastOK  == /\ cycle \in Nat /\ order \in {"unregistered", "registered", "stray"} /\ needs \in Nat
           /\ rewrote \in Nat /\ trampled \in Nat

\* The actions that save at once.
OneShot == \/ PlanFile \/ PlanContent \/ PlanPrompt \/ PlanDeep \/ ApprovePlan \/ RejectPlan
           \/ RubricReused \/ RubricValidated \/ SkipRubric

LEMMA OneShotTyped ==
    ASSUME TypeInv, OneShot PROVE TypeInv'
<1> DEFINE s == Loaded
<1>s. Good(s) /\ s.goal \in Slug /\ s.plan \in Slug /\ s.rubric \in Slug
  BY LoadedGood DEF Good, State
<1>p. /\ "planning" \in Phases /\ "awaiting_plan_approval" \in Phases
      /\ "creating_beads" \in Phases /\ "idle" \in Phases /\ None \in Slug
  BY DEF Phases, Slug
<1> HIDE DEF s
<1>t. FilesOK /\ PastOK /\ call \in [Calls -> Call] /\ lost \in Nat /\ forced \in Nat
  BY DEF TypeInv, TypeOK, FilesOK, PastOK
<1>1. ASSUME NEW x, AtOnce(x), Good(x), FilesOK', PastOK' PROVE TypeInv'
  <2>1. st' = x /\ call' = call /\ overlaps' \in Nat /\ lost' = lost /\ forced' = forced
    BY <1>1, DoneAtOnce
  <2> QED BY <1>1, <1>t, <2>1 DEF TypeInv, TypeOK, FilesOK, PastOK, Good
<1>o. /\ PlanFile => UNCHANGED docs
      /\ OneShot /\ ~PlanContent => UNCHANGED files
  BY DEF OneShot, PlanFile, PlanPrompt, PlanDeep, ApprovePlan, RejectPlan, RubricReused,
         RubricValidated, SkipRubric, Registers, files
<1>2. CASE PlanFile \/ PlanContent
  <2>1. AtOnce([s EXCEPT !.plan = s.goal, !.phase = "awaiting_plan_approval"]) /\ PastOK'
    BY <1>2, <1>t DEF PlanFile, PlanContent, Registers, harm, PastOK, s
  <2>2. FilesOK'
    BY <1>2, <1>t DEF PlanFile, PlanContent, Registers, FilesOK
  <2> QED BY <1>1, <1>s, <1>p, <2>1, <2>2, CopiesGood
<1>3. CASE PlanPrompt \/ PlanDeep
  <2>1. PastOK' /\ FilesOK'
    BY <1>3, <1>t DEF PlanPrompt, PlanDeep, harm, past, files, PastOK, FilesOK
  <2>2. \/ AtOnce([s EXCEPT !.plan = s.goal, !.phase = "planning"])
        \/ AtOnce([s EXCEPT !.phase = "planning"])
    BY <1>3 DEF PlanPrompt, PlanDeep, s
  <2> QED BY <1>1, <1>s, <1>p, <2>1, <2>2, CopiesGood
<1>4. CASE ApprovePlan \/ RejectPlan
  <2>1. PastOK' /\ FilesOK'
    BY <1>4, <1>t DEF ApprovePlan, RejectPlan, Used, harm, files, PastOK, FilesOK
  <2>2. \/ AtOnce([s EXCEPT !.phase = "creating_beads"]) \/ AtOnce([s EXCEPT !.phase = "planning"])
        \/ AtOnce([s EXCEPT !.plan = None, !.phase = "idle"])
    BY <1>4 DEF ApprovePlan, RejectPlan, s
  <2> QED BY <1>1, <1>s, <1>p, <2>1, <2>2, CopiesGood
<1>5. CASE RubricReused \/ RubricValidated \/ SkipRubric
  <2>1. PastOK' /\ FilesOK'
    BY <1>5, <1>t DEF RubricReused, RubricValidated, SkipRubric, Used, harm, past, files, PastOK, FilesOK
  <2>2. \/ AtOnce([s EXCEPT !.rubric = s.plan]) \/ AtOnce([s EXCEPT !.rubric = s.rubric])
        \/ AtOnce([s EXCEPT !.skipped = TRUE])
    BY <1>5 DEF RubricReused, RubricValidated, SkipRubric, s
  <2> QED BY <1>1, <1>s, <1>p, <2>1, <2>2, CopiesGood
<1> QED BY <1>2, <1>3, <1>4, <1>5 DEF OneShot


\* The actions that begin a call.
Opens(c) == \/ ChooseBegins(c) \/ RubricBegins(c) \/ EditBegins(c) \/ RemediateBegins(c)
            \/ \E force \in BOOLEAN : GradeBegins(c, force)

LEMMA OpensTyped ==
    ASSUME TypeInv, NEW c \in Calls, Opens(c) PROVE TypeInv'
<1>s. Good(Loaded) /\ Loaded.plan \in Slug /\ Loaded.rubric \in Slug /\ Len(Loaded.history) \in Nat
  BY LoadedGood DEF Good, State
<1>t. FilesOK /\ PastOK /\ Good(st) /\ forced \in Nat
  BY DEF TypeInv, TypeOK, FilesOK, PastOK
<1>i. Idle \in Call /\ Idle.n = 0 /\ Idle.force = FALSE
  BY FreshGood DEF Idle
<1>1. ASSUME NEW k \in Call, Placed(k), Begins(c, k), FilesOK', PastOK', st' = st, forced' \in Nat
      PROVE  TypeInv'
  BY <1>1, <1>t, CallBegins DEF TypeInv, TypeOK, FilesOK, PastOK, Good
<1>2. CASE ChooseBegins(c)
  <2>1. PICK g \in Goals, op \in {"select", "profile"} : Begins(c, [Idle EXCEPT !.op = op, !.g = g])
    BY <1>2 DEF ChooseBegins
  <2>2. [Idle EXCEPT !.op = op, !.g = g] \in Call /\ Placed([Idle EXCEPT !.op = op, !.g = g])
    BY <1>i DEF Call, Placed, Ops, Slug, Idle
  <2>3. FilesOK' /\ PastOK' /\ st' = st /\ forced' \in Nat
    BY <1>2, <1>t DEF ChooseBegins, files, past, harm, FilesOK, PastOK
  <2> QED BY <1>1, <2>1, <2>2, <2>3
<1>3. CASE RubricBegins(c)
  <2>1. PICK force \in BOOLEAN :
          Begins(c, [Idle EXCEPT !.op = "synthesize", !.g = Loaded.plan, !.n = docs[Loaded.plan], !.force = force])
    BY <1>3 DEF RubricBegins
  <2>2. Loaded.plan \in Goals /\ docs[Loaded.plan] \in Nat
    BY <1>3, <1>s, <1>t DEF RubricBegins, Slug, FilesOK
  <2> DEFINE k == [Idle EXCEPT !.op = "synthesize", !.g = Loaded.plan, !.n = docs[Loaded.plan], !.force = force]
  <2>3. k \in Call /\ Placed(k)
    BY <1>i, <2>2 DEF Call, Placed, Ops, Slug, Idle
  <2> HIDE DEF k
  <2>4. FilesOK' /\ PastOK' /\ st' = st /\ forced' \in Nat
    BY <1>3, <1>t DEF RubricBegins, Used, files, harm, FilesOK, PastOK
  <2> QED BY <1>1, <2>1, <2>3, <2>4 DEF k
<1>4. CASE EditBegins(c)
  <2>1. Begins(c, [Idle EXCEPT !.op = "edit", !.g = Loaded.plan]) /\ Loaded.plan \in Goals
    BY <1>4, <1>s DEF EditBegins, Slug
  <2>2. [Idle EXCEPT !.op = "edit", !.g = Loaded.plan] \in Call /\ Placed([Idle EXCEPT !.op = "edit", !.g = Loaded.plan])
    BY <1>i, <2>1 DEF Call, Placed, Ops, Slug, Idle
  <2>3. FilesOK' /\ PastOK' /\ st' = st /\ forced' \in Nat
    BY <1>4, <1>t DEF EditBegins, Used, files, harm, FilesOK, PastOK
  <2> QED BY <1>1, <2>1, <2>2, <2>3
<1>5. CASE RemediateBegins(c)
  <2>1. Begins(c, [Idle EXCEPT !.op = "remediate"])
    BY <1>5 DEF RemediateBegins
  <2>2. [Idle EXCEPT !.op = "remediate"] \in Call /\ Placed([Idle EXCEPT !.op = "remediate"])
    BY <1>i DEF Call, Placed, Ops, Idle
  <2>3. FilesOK' /\ PastOK' /\ st' = st /\ forced' \in Nat
    BY <1>5, <1>t DEF RemediateBegins, files, past, harm, FilesOK, PastOK
  <2> QED BY <1>1, <2>1, <2>2, <2>3
<1>6. ASSUME NEW force \in BOOLEAN, GradeBegins(c, force) PROVE TypeInv'
  <2> DEFINE k == [Idle EXCEPT !.op = "grade", !.g = Loaded.rubric, !.n = Iteration(Loaded), !.force = force]
  <2>1. Begins(c, k) /\ Loaded.rubric \in Goals
    BY <1>6, <1>s DEF GradeBegins, Gradable, Slug
  <2>2. Iteration(Loaded) \in Iterations /\ Iteration(Loaded) \in Nat
    BY <1>s, CycleAssumption DEF Iteration, Iterations, Good
  <2>3. k \in Call /\ Placed(k)
    BY <1>i, <2>1, <2>2 DEF Call, Placed, Ops, Slug, Idle
  <2> HIDE DEF k
  <2>4. FilesOK' /\ PastOK' /\ st' = st /\ forced' \in Nat
    BY <1>6, <1>t, <2>1 DEF GradeBegins, files, past, harm, FilesOK, PastOK
  <2> QED BY <1>1, <2>1, <2>3, <2>4
<1> QED BY <1>2, <1>3, <1>4, <1>5, <1>6 DEF Opens

\* The actions that carry a call on, or end it.
Closes(c) == Step(c) \/ ModelFails(c) \/ GradeFails(c)

LEMMA ClosesTyped ==
    ASSUME TypeInv, NEW c \in Calls, Closes(c) PROVE TypeInv'
<1> DEFINE k == call[c]
<1>k. k \in Call /\ Placed(k) /\ Good(k.s) /\ k.g \in Slug /\ k.n \in Nat
  BY DEF TypeInv, TypeOK, Call
<1>t. FilesOK /\ PastOK /\ Good(st) /\ call \in [Calls -> Call] /\ overlaps \in Nat /\ lost \in Nat /\ forced \in Nat
  BY DEF TypeInv, TypeOK, FilesOK, PastOK
<1>p. "planning" \in Phases /\ "discovering" \in Phases
  BY DEF Phases
<1> HIDE DEF k
<1>e. ASSUME Ends(c), Good(st)', FilesOK', PastOK', overlaps' \in Nat, lost' \in Nat, forced' \in Nat
      PROVE  TypeInv'
  BY <1>e, CallEnds DEF TypeInv, TypeOK, FilesOK, PastOK, Good
<1>m. ASSUME NEW m \in Call, Placed(m), m.s = k.s, call' = [call EXCEPT ![c] = m],
             Good(st)', FilesOK', PastOK', overlaps' \in Nat, lost' \in Nat, forced' \in Nat
      PROVE  TypeInv'
  <2>1. \A d \in Calls : call'[d] = IF d = c THEN m ELSE call[d]
    BY <1>m, <1>t
  <2>2. call' \in [Calls -> Call]
    BY <1>m, <1>t
  <2> QED BY <1>m, <1>k, <2>1, <2>2 DEF TypeInv, TypeOK, FilesOK, PastOK, Good
<1>1. CASE SelectEnds(c)
  <2>1. k.g \in Goals
    BY <1>1, <1>k DEF SelectEnds, At, Placed, k
  <2>2. Good(st)'
    BY <1>1, <1>k, <1>p, CopiesGood DEF SelectEnds, Good, k
  <2> QED BY <1>1, <1>e, <1>t, <2>2 DEF SelectEnds, files, harm, spent, FilesOK, PastOK
<1>2. CASE ProfileEnds(c)
  <2>1. Good([k.s EXCEPT !.goal = k.g, !.phase = "discovering"])
    BY <1>k, <1>p, CopiesGood
  <2>2. Good(st)'
    BY <1>2, <2>1 DEF ProfileEnds, Good, k
  <2> QED BY <1>2, <1>e, <1>t, <2>2 DEF ProfileEnds, files, harm, spent, FilesOK, PastOK
<1>3. CASE RubricWritten(c)
  <2>1. k.g \in Goals
    BY <1>3, <1>k DEF RubricWritten, At, Placed, k
  <2> DEFINE m == [k EXCEPT !.op = "lock"]
  <2>2. m \in Call /\ Placed(m) /\ m.s = k.s /\ call' = [call EXCEPT ![c] = m]
    BY <1>3, <1>k, <1>t, <2>1 DEF RubricWritten, Call, Placed, Ops, k
  <2> HIDE DEF m
  <2>3. rub' \in [Goals -> Rubrics]
    <3>1. rub' = [rub EXCEPT ![k.g].source = "auto"] /\ rub[k.g] \in Rubrics
      BY <1>3, <1>t, <2>1 DEF RubricWritten, FilesOK, k
    <3>2. [rub[k.g] EXCEPT !.source = "auto"] \in Rubrics
      BY <3>1 DEF Rubrics
    <3> QED BY <1>t, <3>1, <3>2 DEF FilesOK
  <2>4. FilesOK' /\ PastOK'
    BY <1>3, <1>t, <2>3 DEF RubricWritten, past, FilesOK, PastOK
  <2> QED BY <1>3, <1>m, <1>t, <2>2, <2>4 DEF RubricWritten, spent, Good
<1>4. CASE LockWritten(c)
  <2>1. Good([k.s EXCEPT !.rubric = k.g])
    BY <1>k, <1>p, CopiesGood
  <2>2. rub' \in [Goals -> Rubrics]
    <3>1. rub' = [rub EXCEPT ![k.g].sha = k.n]
      BY <1>4 DEF LockWritten, k
    <3>2. \A g \in Goals : [rub[g] EXCEPT !.sha = k.n] \in Rubrics
      BY <1>k, <1>t DEF Rubrics, FilesOK
    <3> QED BY <1>t, <3>1, <3>2 DEF FilesOK
  <2>3. FilesOK' /\ PastOK' /\ Good(st)'
    BY <1>4, <1>t, <2>1, <2>2 DEF LockWritten, past, harm, FilesOK, PastOK, Good, k
  <2> QED BY <1>4, <1>e, <1>t, <2>3 DEF LockWritten, spent
<1>5. CASE EditEnds(c)
  <2>1. Good([k.s EXCEPT !.rubric = k.g])
    BY <1>k, <1>p, CopiesGood
  <2>2. rub' \in [Goals -> Rubrics]
    <3>1. rub' = [rub EXCEPT ![k.g].source = "edited"]
      BY <1>5 DEF EditEnds, k
    <3>2. \A g \in Goals : [rub[g] EXCEPT !.source = "edited"] \in Rubrics
      BY <1>t DEF Rubrics, FilesOK
    <3> QED BY <1>t, <3>1, <3>2 DEF FilesOK
  <2>3. FilesOK' /\ PastOK' /\ Good(st)'
    BY <1>5, <1>t, <2>1, <2>2 DEF EditEnds, past, harm, FilesOK, PastOK, Good, k
  <2> QED BY <1>5, <1>e, <1>t, <2>3 DEF EditEnds, spent
<1>6. CASE Verdict(c)
  <2>1. k.g \in Goals /\ k.n \in Iterations
    BY <1>6, <1>k DEF Verdict, At, Placed, k
  <2>2. PICK status \in {"needs_revision", "satisfied"} :
          call' = [call EXCEPT ![c].op = "save", ![c].status = Coerced(k.n, status)]
    BY <1>6 DEF Verdict, k
  <2>3. Coerced(k.n, status) \in Statuses
    BY DEF Coerced, Statuses
  <2> DEFINE m == [k EXCEPT !.op = "save", !.status = Coerced(k.n, status)]
  <2>4. m \in Call /\ Placed(m) /\ m.s = k.s /\ call' = [call EXCEPT ![c] = m]
    BY <1>k, <1>t, <2>1, <2>2, <2>3 DEF Call, Placed, Ops, k
  <2> HIDE DEF m
  <2>5. verd' \in [Goals -> SUBSET Iterations] /\ rewrote' \in Nat
    BY <1>6, <1>t, <2>1 DEF Verdict, Loses, FilesOK, PastOK, k
  <2>6. lost' \in Nat /\ overlaps' \in Nat /\ forced' \in Nat
    BY <1>6, <1>t DEF Verdict, Loses, spent
  <2> QED BY <1>6, <1>m, <1>t, <2>4, <2>5, <2>6 DEF Verdict, past, FilesOK, PastOK, Good
<1>7. CASE GradeEnds(c)
  <2>1. k.g \in Goals /\ [slug |-> k.g, cycle |-> cycle] \in Entry
    BY <1>7, <1>k, <1>t DEF GradeEnds, At, Placed, Entry, PastOK, k
  <2>2. k.s.history \in Seq(Entry) /\ Len(k.s.history) <= HistoryCap /\ k.s \in State
    BY <1>k DEF Good, State
  <2> DEFINE h == Pushed(k.s.history, [slug |-> k.g, cycle |-> cycle])
  <2>3. h \in Seq(Entry) /\ Len(h) <= HistoryCap
    BY <2>1, <2>2, PushedTyped
  <2>4. st' = [k.s EXCEPT !.history = h]
    BY <1>7 DEF GradeEnds, k
  <2> HIDE DEF h
  <2>5. Good(st)'
    BY <2>2, <2>3, <2>4 DEF Good, State
  <2> QED BY <1>7, <1>e, <1>t, <2>5 DEF GradeEnds, Unlocked, files, harm, spent, FilesOK, PastOK
<1>8. CASE RemediateEnds(c)
  <2>1. Good(st)'
    BY <1>8, <1>k DEF RemediateEnds, Good, k
  <2> QED BY <1>8, <1>e, <1>t, <2>1 DEF RemediateEnds, files, past, harm, spent, FilesOK, PastOK
<1>9. CASE ModelFails(c)
  BY <1>9, <1>e, <1>t DEF ModelFails, files, past, harm, spent, FilesOK, PastOK, Good
<1>10. CASE GradeFails(c)
  BY <1>10, <1>e, <1>t DEF GradeFails, Loses, Unlocked, files, past, harm, FilesOK, PastOK, Good
<1> QED BY <1>1, <1>2, <1>3, <1>4, <1>5, <1>6, <1>7, <1>8, <1>9, <1>10 DEF Closes, Step

\* The actions in groups.
LEMMA NextCases ==
    ASSUME Next
    PROVE  OneShot \/ WritePlan \/ Crash \/ \E c \in Calls : Opens(c) \/ Closes(c)
BY DEF Next, OneShot, Opens, Closes

LEMMA InitTyped == Init => TypeInv
<1> SUFFICES ASSUME Init PROVE TypeInv
  OBVIOUS
<1>1. [source |-> "none", sha |-> 0] \in Rubrics
  BY DEF Rubrics
<1> QED BY <1>1, FreshGood DEF Init, TypeInv, TypeOK, Good

LEMMA NextTyped == TypeInv /\ [Next]_vars => TypeInv'
<1> SUFFICES ASSUME TypeInv, [Next]_vars PROVE TypeInv'
  OBVIOUS
<1>1. CASE UNCHANGED vars
  BY <1>1 DEF TypeInv, TypeOK, Good, Placed, vars
<1>2. CASE WritePlan
  <2>1. docs' \in [Goals -> Nat]
    <3>1. st.plan \in Goals /\ docs \in [Goals -> Nat]
      BY <1>2 DEF WritePlan, TypeInv, TypeOK, State, Slug
    <3>2. docs[st.plan] + 1 \in Nat
      BY <3>1
    <3> QED BY <1>2, <3>1, <3>2 DEF WritePlan
  <2> QED BY <1>2, <2>1 DEF WritePlan, TypeInv, TypeOK, Good, Placed, past, harm, spent
<1>3. CASE Crash
  BY <1>3, FreshGood DEF Crash, Loses, TypeInv, TypeOK, Good, files, past, harm
<1> QED BY <1>1, <1>2, <1>3, NextCases, OneShotTyped, OpensTyped, ClosesTyped

\* Every variable keeps its type; in particular no history outgrows its cap, so
\* that there are at most HistoryCap + 1 verdict files for a plan.
THEOREM TypeCorrect == Spec => []TypeOK
<1>1. TypeInv => TypeOK
  BY DEF TypeInv
<1> QED BY <1>1, InitTyped, NextTyped, PTL DEF Spec

-----------------------------------------------------------------------------
(***************************************************************************)
(* Unforced gradings: each has the lock of its plan, no two are of the     *)
(* same plan, and none that has still to write its verdict finds one.      *)
(***************************************************************************)
LockInv ==
    forced = 0 =>
        /\ \A c \in Calls : Grading(c) => call[c].g \in locks
        /\ \A c \in Calls : call[c].op = "grade" => call[c].n \notin verd[call[c].g]
        /\ \A c, d \in Calls : c # d /\ Grading(c) /\ Grading(d) => call[c].g # call[d].g
        /\ rewrote = 0

\* A call is left alone, or goes on or ends outside of a grading.
LEMMA OutsideGrading ==
    ASSUME TypeInv, LockInv, forced' = forced, locks' = locks, verd' = verd, rewrote' = rewrote,
           \A c \in Calls : call'[c] = call[c] \/ call'[c].op \notin {"grade", "save"}
    PROVE  LockInv'
BY DEF LockInv, Grading

LEMMA LockOpens ==
    ASSUME TypeInv, LockInv, NEW c \in Calls, Opens(c) PROVE LockInv'
<1>t. call \in [Calls -> Call] /\ forced \in Nat
  BY DEF TypeInv, TypeOK
<1>b. ASSUME NEW k, Begins(c, k)
      PROVE  /\ call[c] = Idle /\ \A d \in Calls \ {c} : call'[d] = call[d]
             /\ call'[c] = [k EXCEPT !.s = Loaded]
  BY <1>b, <1>t DEF Begins
<1>1. ASSUME NEW k, Begins(c, k), [k EXCEPT !.s = Loaded].op \notin {"grade", "save"},
             forced' = forced, locks' = locks, verd' = verd, rewrote' = rewrote
      PROVE  LockInv'
  <2>1. call'[c].op \notin {"grade", "save"} /\ \A d \in Calls \ {c} : call'[d] = call[d]
    BY <1>1, <1>b
  <2> QED BY <1>1, <2>1, OutsideGrading
<1>2. CASE ChooseBegins(c)
  <2>1. PICK g \in Goals, op \in {"select", "profile"} : Begins(c, [Idle EXCEPT !.op = op, !.g = g])
    BY <1>2 DEF ChooseBegins
  <2> DEFINE k == [Idle EXCEPT !.op = op, !.g = g]
  <2>2. [k EXCEPT !.s = Loaded].op \notin {"grade", "save"}
    BY DEF Idle
  <2> HIDE DEF k
  <2> QED BY <1>1, <1>2, <2>1, <2>2 DEF ChooseBegins, files, harm, k
<1>3. CASE RubricBegins(c)
  <2>1. PICK force \in BOOLEAN :
          Begins(c, [Idle EXCEPT !.op = "synthesize", !.g = Loaded.plan, !.n = docs[Loaded.plan], !.force = force])
    BY <1>3 DEF RubricBegins
  <2> DEFINE k == [Idle EXCEPT !.op = "synthesize", !.g = Loaded.plan, !.n = docs[Loaded.plan], !.force = force]
  <2>2. [k EXCEPT !.s = Loaded].op \notin {"grade", "save"}
    BY DEF Idle
  <2> HIDE DEF k
  <2> QED BY <1>1, <1>3, <2>1, <2>2 DEF RubricBegins, files, harm, k
<1>5. CASE EditBegins(c)
  <2> DEFINE k == [Idle EXCEPT !.op = "edit", !.g = Loaded.plan]
  <2>1. Begins(c, k)
    BY <1>5 DEF EditBegins
  <2>2. [k EXCEPT !.s = Loaded].op \notin {"grade", "save"}
    BY DEF Idle
  <2> HIDE DEF k
  <2> QED BY <1>1, <1>5, <2>1, <2>2 DEF EditBegins, files, harm
<1>6. CASE RemediateBegins(c)
  <2> DEFINE k == [Idle EXCEPT !.op = "remediate"]
  <2>1. Begins(c, k)
    BY <1>6 DEF RemediateBegins
  <2>2. [k EXCEPT !.s = Loaded].op \notin {"grade", "save"}
    BY DEF Idle
  <2> HIDE DEF k
  <2> QED BY <1>1, <1>6, <2>1, <2>2 DEF RemediateBegins, files, harm
<1>4. ASSUME NEW force \in BOOLEAN, GradeBegins(c, force) PROVE LockInv'
  <2>1. CASE force
    BY <1>4, <1>t, <2>1 DEF GradeBegins, LockInv
  <2>2. CASE ~force
    <3> DEFINE k == [Idle EXCEPT !.op = "grade", !.g = Loaded.rubric, !.n = Iteration(Loaded), !.force = force]
    <3>1. call'[c] = [k EXCEPT !.s = Loaded] /\ \A d \in Calls \ {c} : call'[d] = call[d]
      BY <1>4, <1>b DEF GradeBegins
    <3>2. call'[c].op = "grade" /\ call'[c].g = Loaded.rubric /\ call'[c].n = Iteration(Loaded)
      BY <3>1 DEF Idle
    <3> HIDE DEF k
    <3>3. /\ Loaded.rubric \notin locks /\ Iteration(Loaded) \notin verd[Loaded.rubric]
          /\ locks' = locks \cup {Loaded.rubric} /\ verd' = verd /\ rewrote' = rewrote /\ forced' = forced
      BY <1>4, <2>2 DEF GradeBegins, Free, Unwritten, files, harm
    <3>4. ASSUME forced' = 0
          PROVE  /\ \A d \in Calls : Grading(d) => call[d].g \in locks
                 /\ \A d \in Calls : call[d].op = "grade" => call[d].n \notin verd[call[d].g]
                 /\ \A d, e \in Calls : d # e /\ Grading(d) /\ Grading(e) => call[d].g # call[e].g
                 /\ rewrote = 0
      BY <3>3, <3>4 DEF LockInv
    <3>5. \A d \in Calls : d # c => call'[d] = call[d] /\ (call'[d].op \in {"grade", "save"} => Grading(d))
      BY <3>1 DEF Grading
    <3>6. ASSUME forced' = 0, NEW d \in Calls, call'[d].op \in {"grade", "save"}
          PROVE  call'[d].g \in locks' /\ (call'[d].op = "grade" => call'[d].n \notin verd'[call'[d].g])
      BY <3>2, <3>3, <3>4, <3>5, <3>6
    <3>7. ASSUME forced' = 0, NEW d \in Calls, NEW e \in Calls, d # e,
                 call'[d].op \in {"grade", "save"}, call'[e].op \in {"grade", "save"}
          PROVE  call'[d].g # call'[e].g
      <4>1. CASE d # c /\ e # c
        BY <3>4, <3>5, <3>7, <4>1
      <4>2. CASE d = c
        <5>1. Grading(e) /\ call'[e] = call[e] /\ call[e].g \in locks
          BY <3>4, <3>5, <3>7, <4>2
        <5> QED BY <3>2, <3>3, <4>2, <5>1
      <4>3. CASE e = c
        <5>1. Grading(d) /\ call'[d] = call[d] /\ call[d].g \in locks
          BY <3>4, <3>5, <3>7, <4>3
        <5> QED BY <3>2, <3>3, <4>3, <5>1
      <4> QED BY <4>1, <4>2, <4>3
    <3> QED BY <3>3, <3>4, <3>6, <3>7 DEF LockInv, Grading
  <2> QED BY <2>1, <2>2
<1> QED BY <1>2, <1>3, <1>4, <1>5, <1>6 DEF Opens

LEMMA LockCloses ==
    ASSUME TypeInv, LockInv, NEW c \in Calls, Closes(c) PROVE LockInv'
<1>t. call \in [Calls -> Call] /\ Idle.op = "none" /\ verd \in [Goals -> SUBSET Iterations]
  BY DEF TypeInv, TypeOK, Idle
<1>g. Grading(c) => call[c].g \in Goals /\ call[c].n \in Iterations
  BY DEF TypeInv, Placed, Grading
<1>1. CASE SelectEnds(c) \/ ProfileEnds(c) \/ LockWritten(c) \/ EditEnds(c) \/ RemediateEnds(c) \/ ModelFails(c)
  <2>1. call' = [call EXCEPT ![c] = Idle]
    BY <1>1 DEF SelectEnds, ProfileEnds, LockWritten, EditEnds, RemediateEnds, ModelFails, Ends
  <2>2. forced' = forced /\ locks' = locks /\ verd' = verd /\ rewrote' = rewrote
    BY <1>1 DEF SelectEnds, ProfileEnds, LockWritten, EditEnds, RemediateEnds, ModelFails, files, harm, spent
  <2>3. \A d \in Calls : call'[d] = call[d] \/ call'[d].op \notin {"grade", "save"}
    BY <1>t, <2>1
  <2> QED BY <2>2, <2>3, OutsideGrading
<1>2. CASE RubricWritten(c)
  <2>1. \A d \in Calls : call'[d] = call[d] \/ call'[d].op = "lock"
    BY <1>2, <1>t DEF RubricWritten, Call
  <2> QED BY <1>2, <2>1, OutsideGrading DEF RubricWritten, spent
<1>3. CASE Verdict(c)
  <2>1. /\ call[c].op = "grade" /\ forced' = forced /\ locks' = locks
        /\ call'[c].op = "save" /\ call'[c].g = call[c].g /\ call'[c].n = call[c].n
        /\ \A d \in Calls \ {c} : call'[d] = call[d]
    BY <1>3, <1>t DEF Verdict, At, Loses, spent, Call
  <2>2. \/ /\ verd' = [verd EXCEPT ![call[c].g] = @ \cup {call[c].n}]
           /\ call[c].n \notin verd[call[c].g] => rewrote' = rewrote
        \/ verd' = verd /\ rewrote' = rewrote
    BY <1>3 DEF Verdict
  <2>3. ASSUME forced' = 0, NEW d \in Calls, call'[d].op = "grade"
        PROVE  call'[d].n \notin verd'[call'[d].g]
    <3>1. d # c /\ call[d].op = "grade" /\ call'[d] = call[d] /\ call[d].g \in Goals
      BY <2>1, <2>3 DEF TypeInv, Placed
    <3>2. call[d].g # call[c].g /\ call[d].n \notin verd[call[d].g]
      BY <2>1, <2>3, <3>1 DEF LockInv, Grading
    <3>3. verd'[call[d].g] = verd[call[d].g]
      BY <2>2, <3>1, <3>2, <1>t
    <3> QED BY <3>1, <3>2, <3>3
  <2> QED BY <2>1, <2>2, <2>3 DEF LockInv, Grading
<1>4. CASE GradeEnds(c) \/ GradeFails(c)
  <2>1. /\ Grading(c) /\ forced' = forced /\ locks' = locks \ {call[c].g}
        /\ verd' = verd /\ rewrote' = rewrote /\ call' = [call EXCEPT ![c] = Idle]
    BY <1>4 DEF GradeEnds, GradeFails, At, Ends, Loses, Unlocked, Grading, files, harm, spent
  <2>2. \A d \in Calls : call'[d] = IF d = c THEN Idle ELSE call[d]
    BY <1>t, <2>1
  <2> QED BY <1>t, <2>1, <2>2 DEF LockInv, Grading
<1> QED BY <1>1, <1>2, <1>3, <1>4 DEF Closes, Step

LEMMA LockNext == TypeInv /\ LockInv /\ [Next]_vars => LockInv'
<1> SUFFICES ASSUME TypeInv, LockInv, [Next]_vars PROVE LockInv'
  OBVIOUS
<1>1. CASE UNCHANGED vars
  BY <1>1 DEF LockInv, Grading, vars
<1>2. CASE WritePlan
  BY <1>2 DEF WritePlan, LockInv, Grading, harm, spent
<1>3. CASE Crash
  <2>1. \A c \in Calls : call'[c].op = "none"
    BY <1>3 DEF Crash, Idle
  <2> QED BY <1>3, <2>1 DEF Crash, Loses, LockInv, Grading, files, harm
<1>4. CASE OneShot
  <2>1. /\ call' = call /\ forced' = forced /\ locks' = locks /\ verd' = verd /\ rewrote' = rewrote
    BY <1>4 DEF OneShot, PlanFile, PlanContent, PlanPrompt, PlanDeep, ApprovePlan, RejectPlan, RubricReused,
                RubricValidated, SkipRubric, Registers, AtOnce, files, harm
  <2> QED BY <2>1, OutsideGrading
<1> QED BY <1>1, <1>2, <1>3, <1>4, NextCases, LockOpens, LockCloses

\* Unless one is forced, the gradings of a plan run one at a time and no verdict
\* is written over, whatever fails or dies and however the calls overlap.
THEOREM GradingExclusive == Spec => []GradersAlone
<1>1. Init => LockInv
  BY DEF Init, LockInv, Grading, Idle
<1>2. LockInv => GradersAlone
  BY DEF LockInv, GradersAlone
<1> QED BY <1>1, <1>2, InitTyped, NextTyped, LockNext, PTL DEF Spec

-----------------------------------------------------------------------------
(***************************************************************************)
(* While no call begins in another's flight, the copy a call holds is the  *)
(* checkpoint, so that what the checkpoint is about is what the call is    *)
(* about.                                                                  *)
(***************************************************************************)
About(s) == /\ s.plan \in {s.goal, None} /\ s.rubric \in {s.goal, None}
            /\ \A i \in DOMAIN s.history : s.history[i].slug = s.goal /\ s.history[i].cycle = cycle
TakenUp(s) == IF s.phase = "idle" THEN Fresh ELSE s
Busy(c) == call[c].op \in {"synthesize", "lock", "edit", "grade", "save"}

Alone == \A c \in Calls : call[c] # Idle =>
            call[c].s = Loaded /\ \A d \in Calls : d # c => call[d] = Idle
Told  == /\ order = "registered" => st.phase # "idle" /\ About(st)
         /\ order = "unregistered" => TakenUp(st).rubric = None /\ TakenUp(st).history = <<>>
Kept  == \A c \in Calls : Busy(c) =>
            /\ st.phase # "idle" /\ order # "unregistered"
            /\ order = "registered" => call[c].g = st.goal
SoloInv == overlaps = 0 => Alone /\ Told /\ Kept

\* A call that saves at once, while no other is in flight.
LEMMA SoloAtOnce ==
    ASSUME TypeInv, SoloInv, NEW s, AtOnce(s), cycle' = cycle,
           overlaps = 0 => /\ order' = "registered" => s.phase # "idle" /\ About(s)
                           /\ order' = "unregistered" => TakenUp(s).rubric = None /\ TakenUp(s).history = <<>>
    PROVE  SoloInv'
<1> SUFFICES ASSUME overlaps' = 0 PROVE (Alone /\ Told /\ Kept)'
  BY DEF SoloInv
<1>1. overlaps = 0 /\ st' = s /\ call' = call /\ \A d \in Calls : call[d] = Idle
  BY DEF AtOnce, TypeInv, TypeOK
<1>i. Idle.op = "none"
  BY DEF Idle
<1>3. \A d \in Calls : call'[d] = Idle /\ call'[d].op = "none"
  BY <1>1, <1>i
<1>4. Told'
  BY <1>1 DEF Told, About, TakenUp
<1> QED BY <1>3, <1>4 DEF Alone, Kept, Busy

LEMMA LoadedFields ==
    /\ st.phase = "idle" => /\ Loaded = Fresh /\ Loaded.goal = None /\ Loaded.plan = None /\ Loaded.rubric = None
                            /\ Loaded.history = <<>> /\ Loaded.phase = "idle"
    /\ st.phase # "idle" => Loaded = st
    /\ Loaded = TakenUp(st)
BY DEF Loaded, TakenUp, Fresh

LEMMA SoloOneShot ==
    ASSUME TypeInv, SoloInv, OneShot PROVE SoloInv'
<1>l. Loaded \in State /\ st \in State /\ Loaded = TakenUp(st)
  BY LoadedGood, LoadedFields DEF TypeInv, Good
<1>o. overlaps = 0 => Told
  BY DEF SoloInv
<1>h. cycle' = cycle
  BY DEF OneShot, PlanFile, PlanContent, PlanPrompt, PlanDeep, ApprovePlan, RejectPlan, RubricReused,
         RubricValidated, SkipRubric, Registers, past
<1>1. CASE PlanFile \/ PlanContent \/ PlanPrompt
  <2>1. PICK p \in {"planning", "awaiting_plan_approval"} :
          AtOnce([Loaded EXCEPT !.plan = Loaded.goal, !.phase = p])
    BY <1>1 DEF PlanFile, PlanContent, PlanPrompt, Registers
  <2>2. /\ Loaded.goal # None /\ st.phase # "idle" /\ Loaded = st
        /\ order' = IF order = "unregistered" THEN "registered" ELSE order
    BY <1>1, LoadedFields DEF PlanFile, PlanContent, PlanPrompt, Registers
  <2> DEFINE s == [st EXCEPT !.plan = st.goal, !.phase = p]
  <2>3. /\ s.plan = st.goal /\ s.phase = p /\ s.goal = st.goal /\ s.rubric = st.rubric /\ s.history = st.history
    BY <1>l DEF State
  <2> HIDE DEF s
  <2>4. overlaps = 0 => (order' = "registered" => About(s))
    <3>1. CASE order = "registered"
      BY <1>o, <2>3, <3>1 DEF Told, About
    <3>2. CASE order = "unregistered"
      BY <1>o, <2>2, <2>3, <3>2 DEF Told, About, TakenUp
    <3> QED BY <2>2, <3>1, <3>2
  <2>6. order' # "unregistered" /\ s.phase # "idle"
    BY <2>2, <2>3
  <2>7. AtOnce(s)
    BY <2>1, <2>2 DEF s
  <2> QED BY <1>h, <2>4, <2>6, <2>7, SoloAtOnce
<1>2. CASE PlanDeep \/ ApprovePlan
  <2>1. PICK p \in {"planning", "creating_beads"} : AtOnce([Loaded EXCEPT !.phase = p])
    BY <1>2 DEF PlanDeep, ApprovePlan
  <2>2. Loaded.goal # None /\ st.phase # "idle" /\ Loaded = st
    BY <1>2, LoadedFields DEF PlanDeep, ApprovePlan, PlanApproval
  <2>3. order' = order \/ (order = "unregistered" /\ order' = "stray")
    BY <1>2 DEF PlanDeep, ApprovePlan, Used, past
  <2> DEFINE s == [st EXCEPT !.phase = p]
  <2>4. /\ s.phase = p /\ s.plan = st.plan /\ s.goal = st.goal /\ s.rubric = st.rubric /\ s.history = st.history
    BY <1>l DEF State
  <2>5. AtOnce(s)
    BY <2>1, <2>2
  <2> HIDE DEF s
  <2>6. overlaps = 0 /\ order' = "registered" => About(s)
    BY <1>o, <2>3, <2>4 DEF Told, About
  <2>7. overlaps = 0 /\ order' = "unregistered" => TakenUp(s).rubric = None /\ TakenUp(s).history = <<>>
    BY <1>o, <2>2, <2>3, <2>4 DEF Told, TakenUp
  <2>8. s.phase # "idle"
    BY <2>4
  <2> QED BY <1>h, <2>5, <2>6, <2>7, <2>8, SoloAtOnce
<1>3. CASE RejectPlan
  <2> DEFINE s == [Loaded EXCEPT !.plan = None, !.phase = "idle"]
  <2>1. s.phase = "idle" /\ TakenUp(s) = Fresh
    BY <1>l DEF State, TakenUp
  <2>2. AtOnce(s) /\ order' = "unregistered"
    BY <1>3 DEF RejectPlan
  <2> HIDE DEF s
  <2> QED BY <1>h, <2>1, <2>2, SoloAtOnce DEF Fresh
<1>4. CASE RubricReused \/ RubricValidated
  <2>1. PICK g \in {Loaded.plan, Loaded.rubric} : AtOnce([Loaded EXCEPT !.rubric = g])
    BY <1>4 DEF RubricReused, RubricValidated
  <2>2. st.phase # "idle" /\ Loaded = st
    BY <1>4, LoadedFields DEF RubricReused, RubricValidated
  <2>3. order' # "unregistered" /\ (order' = "registered" => order = "registered")
    BY <1>4 DEF RubricReused, RubricValidated, Used
  <2> DEFINE s == [st EXCEPT !.rubric = g]
  <2>4. /\ s.phase = st.phase /\ s.plan = st.plan /\ s.goal = st.goal /\ s.rubric = g /\ s.history = st.history
    BY <1>l DEF State
  <2>5. AtOnce(s)
    BY <2>1, <2>2
  <2> HIDE DEF s
  <2> QED BY <1>h, <1>o, <2>1, <2>2, <2>3, <2>4, <2>5, SoloAtOnce DEF Told, About
<1>5. CASE SkipRubric
  <2> DEFINE s == [Loaded EXCEPT !.skipped = TRUE]
  <2>1. /\ s.phase = Loaded.phase /\ s.plan = Loaded.plan /\ s.goal = Loaded.goal
        /\ s.rubric = Loaded.rubric /\ s.history = Loaded.history
    BY <1>l DEF State
  <2>2. AtOnce(s) /\ order' = order
    BY <1>5 DEF SkipRubric, past
  <2> HIDE DEF s
  <2>3. CASE st.phase = "idle"
    BY <1>h, <1>o, <2>1, <2>2, <2>3, LoadedFields, SoloAtOnce DEF Told, TakenUp, Fresh
  <2>4. CASE st.phase # "idle"
    BY <1>h, <1>o, <2>1, <2>2, <2>4, LoadedFields, SoloAtOnce DEF Told, TakenUp, About
  <2> QED BY <2>3, <2>4
<1> QED BY <1>1, <1>2, <1>3, <1>4, <1>5 DEF OneShot

\* A call that begins, while no other is in flight.
LEMMA SoloBegins ==
    ASSUME TypeInv, SoloInv, NEW c \in Calls, NEW k, Begins(c, k), st' = st, cycle' = cycle,
           NEW m, m = [k EXCEPT !.s = Loaded], m.s = Loaded,
           order' = order \/ (order = "unregistered" /\ order' = "stray"),
           overlaps = 0 /\ m.op \in {"synthesize", "lock", "edit", "grade", "save"} =>
               /\ st.phase # "idle" /\ order' # "unregistered"
               /\ order' = "registered" => m.g = st.goal
    PROVE  SoloInv'
<1> SUFFICES ASSUME overlaps' = 0 PROVE (Alone /\ Told /\ Kept)'
  BY DEF SoloInv
<1>1. overlaps = 0 /\ \A d \in Calls : call[d] = Idle
  BY DEF Begins, TypeInv, TypeOK
<1>2. Told
  BY <1>1 DEF SoloInv
<1>3. call'[c] = m /\ \A d \in Calls : d # c => call'[d] = Idle
  BY <1>1 DEF Begins, TypeInv, TypeOK
<1>4. Loaded' = Loaded /\ Idle.op = "none"
  BY DEF Loaded, Idle
<1>5. Alone'
  BY <1>3, <1>4 DEF Alone
<1>6. Told'
  BY <1>2 DEF Told, About, TakenUp
<1>7. Kept'
  BY <1>1, <1>3, <1>4 DEF Kept, Busy
<1> QED BY <1>5, <1>6, <1>7

LEMMA SoloOpens ==
    ASSUME TypeInv, SoloInv, NEW c \in Calls, Opens(c) PROVE SoloInv'
<1>l. st \in State /\ Loaded = TakenUp(st)
  BY LoadedFields DEF TypeInv, Good
<1>o. overlaps = 0 => Told
  BY DEF SoloInv
<1>1. CASE ChooseBegins(c)
  <2>1. PICK g \in Goals, op \in {"select", "profile"} : Begins(c, [Idle EXCEPT !.op = op, !.g = g])
    BY <1>1 DEF ChooseBegins
  <2> DEFINE k == [Idle EXCEPT !.op = op, !.g = g]
             m == [k EXCEPT !.s = Loaded]
  <2>2. m.op = op /\ m.s = Loaded
    BY DEF Idle
  <2> HIDE DEF k, m
  <2>3. Begins(c, k) /\ m = [k EXCEPT !.s = Loaded]
    BY <2>1 DEF k, m
  <2> QED BY <1>1, <2>2, <2>3, SoloBegins DEF ChooseBegins, past
<1>2. CASE RubricBegins(c)
  <2>1. PICK force \in BOOLEAN :
          Begins(c, [Idle EXCEPT !.op = "synthesize", !.g = Loaded.plan, !.n = docs[Loaded.plan], !.force = force])
    BY <1>2 DEF RubricBegins
  <2> DEFINE k == [Idle EXCEPT !.op = "synthesize", !.g = Loaded.plan, !.n = docs[Loaded.plan], !.force = force]
             m == [k EXCEPT !.s = Loaded]
  <2>2. m.op = "synthesize" /\ m.s = Loaded /\ m.g = Loaded.plan
    BY DEF Idle
  <2> HIDE DEF k, m
  <2>3. Begins(c, k) /\ m = [k EXCEPT !.s = Loaded]
    BY <2>1 DEF k, m
  <2>4. /\ Loaded.plan # None /\ st.phase # "idle" /\ Loaded = st
        /\ order' = IF order = "unregistered" THEN "stray" ELSE order
    BY <1>2, LoadedFields DEF RubricBegins, Used
  <2>5. overlaps = 0 /\ order' = "registered" => m.g = st.goal
    BY <1>o, <2>2, <2>4 DEF Told, About
  <2> QED BY <1>2, <2>2, <2>3, <2>4, <2>5, SoloBegins DEF RubricBegins
<1>3. CASE EditBegins(c)
  <2> DEFINE k == [Idle EXCEPT !.op = "edit", !.g = Loaded.plan]
             m == [k EXCEPT !.s = Loaded]
  <2>2. m.op = "edit" /\ m.s = Loaded /\ m.g = Loaded.plan
    BY DEF Idle
  <2>3. Begins(c, k) /\ m = [k EXCEPT !.s = Loaded]
    BY <1>3 DEF EditBegins
  <2> HIDE DEF k, m
  <2>4. /\ Loaded.plan # None /\ st.phase # "idle" /\ Loaded = st
        /\ order' = IF order = "unregistered" THEN "stray" ELSE order
    BY <1>3, LoadedFields DEF EditBegins, Used
  <2>5. overlaps = 0 /\ order' = "registered" => m.g = st.goal
    BY <1>o, <2>2, <2>4 DEF Told, About
  <2> QED BY <1>3, <2>2, <2>3, <2>4, <2>5, SoloBegins DEF EditBegins
<1>4. CASE RemediateBegins(c)
  <2> DEFINE k == [Idle EXCEPT !.op = "remediate"]
             m == [k EXCEPT !.s = Loaded]
  <2>2. m.op = "remediate" /\ m.s = Loaded
    BY DEF Idle
  <2>3. Begins(c, k) /\ m = [k EXCEPT !.s = Loaded]
    BY <1>4 DEF RemediateBegins
  <2> HIDE DEF k, m
  <2> QED BY <1>4, <2>2, <2>3, SoloBegins DEF RemediateBegins, past
<1>5. ASSUME NEW force \in BOOLEAN, GradeBegins(c, force) PROVE SoloInv'
  <2> DEFINE k == [Idle EXCEPT !.op = "grade", !.g = Loaded.rubric, !.n = Iteration(Loaded), !.force = force]
             m == [k EXCEPT !.s = Loaded]
  <2>2. m.op = "grade" /\ m.s = Loaded /\ m.g = Loaded.rubric
    BY DEF Idle
  <2>3. Begins(c, k) /\ m = [k EXCEPT !.s = Loaded]
    BY <1>5 DEF GradeBegins
  <2> HIDE DEF k, m
  <2>4. Loaded.rubric # None /\ st.phase # "idle" /\ Loaded = st /\ order' = order
    BY <1>5, LoadedFields DEF GradeBegins, Gradable, past
  <2>5. overlaps = 0 => order # "unregistered" /\ (order = "registered" => m.g = st.goal)
    BY <1>l, <1>o, <2>2, <2>4 DEF Told, About
  <2> QED BY <1>5, <2>2, <2>3, <2>4, <2>5, SoloBegins DEF GradeBegins, past
<1> QED BY <1>1, <1>2, <1>3, <1>4, <1>5 DEF Opens

\* A call that ends without another beginning: it is none, and so are the rest.
LEMMA SoloEnds ==
    ASSUME TypeInv, SoloInv, NEW c \in Calls, call[c] # Idle, Ends(c), overlaps' = overlaps,
           overlaps = 0 /\ call[c].s = Loaded => Told'
    PROVE  SoloInv'
<1> SUFFICES ASSUME overlaps' = 0 PROVE (Alone /\ Told /\ Kept)'
  BY DEF SoloInv
<1>1. Alone
  BY DEF SoloInv
<1>2. Told'
  BY <1>1 DEF Alone
<1>3. Idle.op = "none"
  BY DEF Idle
<1>4. \A d \in Calls : call'[d] = Idle
  BY <1>1, CallEnds DEF Alone
<1>5. \A d \in Calls : call'[d].op = "none"
  BY <1>3, <1>4
<1> QED BY <1>2, <1>4, <1>5 DEF Alone, Kept, Busy

\* A call that goes on with its copy.
LEMMA SoloGoesOn ==
    ASSUME TypeInv, SoloInv, NEW c \in Calls, call[c] # Idle, NEW k, call' = [call EXCEPT ![c] = k],
           Busy(c), k.g = call[c].g, k.s = call[c].s,
           st' = st, overlaps' = overlaps, UNCHANGED past
    PROVE  SoloInv'
<1> SUFFICES ASSUME overlaps' = 0 PROVE (Alone /\ Told /\ Kept)'
  BY DEF SoloInv
<1>1. Alone /\ Told /\ Kept
  BY DEF SoloInv
<1>2. \A d \in Calls : call'[d] = IF d = c THEN k ELSE call[d]
  BY DEF TypeInv, TypeOK
<1>3. \A d \in Calls : d # c => call[d] = Idle /\ call[d].op = "none"
  <2>1. Idle.op = "none"
    BY DEF Idle
  <2> QED BY <1>1, <2>1 DEF Alone
<1>4. Loaded' = Loaded
  BY DEF Loaded
<1>5. Alone'
  BY <1>1, <1>2, <1>3, <1>4 DEF Alone
<1>6. Told'
  BY <1>1 DEF Told, About, TakenUp, past
<1>7. Kept'
  BY <1>1, <1>2, <1>3 DEF Kept, Busy, past
<1> QED BY <1>5, <1>6, <1>7

LEMMA SoloCloses ==
    ASSUME TypeInv, SoloInv, NEW c \in Calls, Closes(c) PROVE SoloInv'
<1> DEFINE k == call[c]
<1>i. Idle.op = "none"
  BY DEF Idle
<1>l. k.s \in State /\ st \in State /\ Len(k.s.history) <= HistoryCap /\ k.s.history \in Seq(Entry) /\ Loaded = TakenUp(st)
  BY LoadedFields DEF TypeInv, Good, State
<1>c. call \in [Calls -> Call] /\ k \in Call
  BY DEF TypeInv, TypeOK
<1>o. overlaps = 0 => Alone /\ Told /\ Kept
  BY DEF SoloInv
<1> HIDE DEF k
<1>1. CASE SelectEnds(c)
  <2>1. st' = Selected(k.s, k.g) /\ order' = "unregistered" /\ overlaps' = overlaps /\ k.op = "select" /\ Ends(c)
    BY <1>1 DEF SelectEnds, spent, At, k
  <2>2. st'.phase = "planning" /\ st'.rubric = None /\ st'.history = <<>>
    BY <1>l, <2>1 DEF Selected, State
  <2>3. Told'
    BY <2>1, <2>2 DEF Told, TakenUp
  <2> QED BY <1>i, <2>1, <2>3, SoloEnds DEF k
<1>2. CASE ProfileEnds(c)
  <2>1. order' = "stray" /\ overlaps' = overlaps /\ k.op = "profile" /\ Ends(c)
    BY <1>2 DEF ProfileEnds, spent, At, k
  <2>2. Told'
    BY <2>1 DEF Told
  <2> QED BY <1>i, <2>1, <2>2, SoloEnds DEF k
<1>3. CASE LockWritten(c) \/ EditEnds(c)
  <2>1. /\ st' = [k.s EXCEPT !.rubric = k.g] /\ k.op \in {"lock", "edit"} /\ Ends(c)
        /\ overlaps' = overlaps /\ cycle' = cycle /\ order' = order
    BY <1>3 DEF LockWritten, EditEnds, At, past, spent, k
  <2>2. /\ st'.phase = k.s.phase /\ st'.plan = k.s.plan /\ st'.goal = k.s.goal
        /\ st'.rubric = k.g /\ st'.history = k.s.history
    BY <1>l, <2>1 DEF State
  <2>3. ASSUME overlaps = 0, k.s = Loaded PROVE Told'
    <3>1. st.phase # "idle" /\ order # "unregistered" /\ (order = "registered" => k.g = st.goal)
      BY <1>o, <2>1, <2>3 DEF Kept, Busy, k
    <3>2. k.s = st
      BY <2>3, <3>1, LoadedFields
    <3> QED BY <1>o, <2>1, <2>2, <2>3, <3>1, <3>2 DEF Told, About
  <2> QED BY <1>i, <2>1, <2>3, SoloEnds DEF k
<1>4. CASE RemediateEnds(c)
  <2>1. /\ st' = k.s /\ k.op = "remediate" /\ Ends(c) /\ overlaps' = overlaps
        /\ cycle' = cycle /\ order' = order
    BY <1>4 DEF RemediateEnds, At, past, spent, k
  <2>2. ASSUME overlaps = 0, k.s = Loaded PROVE Told'
    <3>1. CASE st.phase = "idle"
      BY <1>o, <2>1, <2>2, <3>1, LoadedFields DEF Told, TakenUp, About
    <3>2. CASE st.phase # "idle"
      BY <1>o, <2>1, <2>2, <3>2, LoadedFields DEF Told, TakenUp, About
    <3> QED BY <3>1, <3>2
  <2> QED BY <1>i, <2>1, <2>2, SoloEnds DEF k
<1>5. CASE ModelFails(c) \/ GradeFails(c)
  <2>1. /\ st' = st /\ k.op \in {"synthesize", "edit", "grade"} /\ Ends(c) /\ overlaps' = overlaps
        /\ cycle' = cycle /\ order' = order
    BY <1>5 DEF ModelFails, GradeFails, At, Loses, past, spent, k
  <2>2. overlaps = 0 => Told'
    BY <1>o, <2>1 DEF Told, TakenUp, About
  <2> QED BY <1>i, <2>1, <2>2, SoloEnds DEF k
<1>6. CASE RubricWritten(c)
  <2> DEFINE m == [k EXCEPT !.op = "lock"]
  <2>1. call' = [call EXCEPT ![c] = m] /\ k.op = "synthesize"
    BY <1>6, <1>c DEF RubricWritten, At, k
  <2>2. m.g = k.g /\ m.s = k.s
    BY <1>c DEF Call
  <2>3. Busy(c) /\ call[c] # Idle
    BY <1>i, <2>1 DEF Busy, k
  <2> HIDE DEF m
  <2> QED BY <1>6, <2>1, <2>2, <2>3, SoloGoesOn DEF RubricWritten, spent, k
<1>7. CASE Verdict(c)
  <2>1. PICK status \in {"needs_revision", "satisfied"} :
          call' = [call EXCEPT ![c].op = "save", ![c].status = Coerced(k.n, status)]
    BY <1>7 DEF Verdict, k
  <2> DEFINE m == [k EXCEPT !.op = "save", !.status = Coerced(k.n, status)]
  <2>2. call' = [call EXCEPT ![c] = m] /\ k.op = "grade"
    BY <1>7, <1>c, <2>1 DEF Verdict, At, k
  <2>3. m.g = k.g /\ m.s = k.s
    BY <1>c DEF Call
  <2>4. Busy(c) /\ call[c] # Idle
    BY <1>i, <2>2 DEF Busy, k
  <2>5. st' = st /\ overlaps' = overlaps /\ UNCHANGED past
    BY <1>7 DEF Verdict, Loses, spent
  <2> HIDE DEF m
  <2> QED BY <2>2, <2>3, <2>4, <2>5, SoloGoesOn DEF k
<1>8. CASE GradeEnds(c)
  <2> DEFINE e == [slug |-> k.g, cycle |-> cycle]
             h == Pushed(k.s.history, e)
  <2>1. /\ st' = [k.s EXCEPT !.history = h] /\ k.op = "save" /\ Ends(c) /\ overlaps' = overlaps
        /\ cycle' = cycle /\ order' = order
    BY <1>8 DEF GradeEnds, At, spent, k
  <2>2. k.g \in Goals /\ e \in Entry /\ e.slug = k.g /\ e.cycle = cycle
    BY <2>1 DEF TypeInv, TypeOK, Placed, Entry, k
  <2> HIDE DEF e
  <2>3. \A i \in DOMAIN h : h[i] = e \/ \E j \in DOMAIN k.s.history : h[i] = k.s.history[j]
    BY <1>l, <2>2, PushedHolds
  <2> HIDE DEF h
  <2>4. /\ st'.phase = k.s.phase /\ st'.plan = k.s.plan /\ st'.goal = k.s.goal
        /\ st'.rubric = k.s.rubric /\ st'.history = h
    BY <1>l, <2>1 DEF State
  <2>5. ASSUME overlaps = 0, k.s = Loaded PROVE Told'
    <3>1. st.phase # "idle" /\ order # "unregistered" /\ (order = "registered" => k.g = st.goal)
      BY <1>o, <2>1, <2>5 DEF Kept, Busy, k
    <3>2. k.s = st
      BY <2>5, <3>1, LoadedFields
    <3> QED BY <1>o, <2>1, <2>2, <2>3, <2>4, <2>5, <3>1, <3>2 DEF Told, About
  <2> QED BY <1>i, <2>1, <2>5, SoloEnds DEF k
<1> QED BY <1>1, <1>2, <1>3, <1>4, <1>5, <1>6, <1>7, <1>8 DEF Closes, Step

LEMMA SoloNext == TypeInv /\ SoloInv /\ [Next]_vars => SoloInv'
<1> SUFFICES ASSUME TypeInv, SoloInv, [Next]_vars PROVE SoloInv'
  OBVIOUS
<1>1. CASE UNCHANGED vars
  BY <1>1 DEF SoloInv, Alone, Told, Kept, Loaded, About, TakenUp, Busy, vars
<1>2. CASE WritePlan
  BY <1>2 DEF WritePlan, SoloInv, Alone, Told, Kept, Loaded, About, TakenUp, Busy,
              past, spent
<1>3. CASE Crash
  <2>1. \A c \in Calls : call'[c] = Idle /\ call'[c].op = "none"
    BY <1>3 DEF Crash, Idle
  <2> QED BY <1>3, <2>1 DEF Crash, Loses, SoloInv, Alone, Told, Kept, About, TakenUp,
                            Busy, past
<1> QED BY <1>1, <1>2, <1>3, NextCases, SoloOneShot, SoloOpens, SoloCloses

LEMMA SoloInit == Init => SoloInv
<1> SUFFICES ASSUME Init PROVE SoloInv
  OBVIOUS
<1>1. \A c \in Calls : call[c] = Idle /\ call[c].op = "none"
  BY DEF Init, Idle
<1>2. st.phase = "idle" /\ st.rubric = None /\ st.history = <<>>
  BY DEF Init, Fresh
<1> QED BY <1>1, <1>2 DEF Init, SoloInv, Alone, Told, Kept, TakenUp, Busy, Fresh

LEMMA SpecSolo == Spec => []SoloInv
BY SoloInit, SoloNext, InitTyped, NextTyped, PTL DEF Spec

\* While calls do not overlap, a cycle whose goal was selected and whose plan was
\* registered before it was used is about that goal alone.
THEOREM OneGoalAtATime == Spec => []OneGoal
<1>1. SoloInv => OneGoal
  BY DEF SoloInv, Told, About, OneGoal
<1> QED BY <1>1, SpecSolo, PTL

-----------------------------------------------------------------------------
(***************************************************************************)
(* Edits are kept.  A synthesis replaces an edit that ended while it was   *)
(* under way: one of the two began beside the other.  The syntheses and    *)
(* the edits in flight, but for one, and the edit that waits to be         *)
(* replaced were each paid for with an overlap.                            *)
(***************************************************************************)
Synthesizes(c) == call[c].op = "synthesize" /\ ~call[c].force
Contenders == {c \in Calls : Synthesizes(c) \/ call[c].op = "edit"}

\* A rubric was edited under a synthesis that will replace it.
Exposed(c) == Synthesizes(c) /\ rub[call[c].g].source = "edited"
Waiting == IF \E c \in Calls : Exposed(c) THEN 1 ELSE 0

EditsInv ==
    /\ trampled <= overlaps
    /\ trampled + Cardinality(Contenders) + Waiting <= overlaps + 1

LEMMA CallsFinite ==
    /\ \A S \in SUBSET Calls : IsFiniteSet(S) /\ Cardinality(S) \in Nat
    /\ \A S \in SUBSET Calls : \A T \in SUBSET S : Cardinality(T) <= Cardinality(S)
    /\ \A S \in SUBSET Calls : \A c \in S : Cardinality(S \ {c}) = Cardinality(S) - 1
    /\ \A S \in SUBSET Calls : \A c \in Calls \ S : Cardinality(S \cup {c}) = Cardinality(S) + 1
<1>1. IsFiniteSet(Calls)
  BY CycleAssumption, FS_Interval DEF Calls
<1>2. \A S \in SUBSET Calls : IsFiniteSet(S) /\ Cardinality(S) \in Nat
  BY <1>1, FS_Subset, FS_CardinalityType
<1> QED BY <1>2, FS_Subset, FS_RemoveElement, FS_AddElement

LEMMA ContendersNat ==
    /\ Cardinality(Contenders) \in Nat /\ Cardinality(Contenders)' \in Nat
    /\ Waiting \in {0, 1} /\ Waiting' \in {0, 1}
<1>1. Contenders \in SUBSET Calls /\ Contenders' \in SUBSET Calls
  BY DEF Contenders
<1> QED BY <1>1, CallsFinite DEF Waiting

\* Steps after which no more contend, and no other rubric is exposed.
LEMMA EditsShrink ==
    ASSUME TypeInv, TypeInv', EditsInv, trampled' = trampled, overlaps' >= overlaps,
           Contenders' \subseteq Contenders,
           (\E c \in Calls : Exposed(c)') => \E c \in Calls : Exposed(c)
    PROVE  EditsInv'
<1>1. Contenders \in SUBSET Calls
  BY DEF Contenders
<1>2. Cardinality(Contenders)' <= Cardinality(Contenders)
  BY <1>1, CallsFinite
<1>3. Waiting' <= Waiting
  BY DEF Waiting
<1>4. trampled \in Nat /\ overlaps \in Nat /\ overlaps' \in Nat
  BY DEF TypeInv, TypeOK
<1> QED BY <1>2, <1>3, <1>4, ContendersNat DEF EditsInv

\* A call that begins beside another is an overlap.
LEMMA Beside ==
    ASSUME TypeInv, NEW c \in Calls, NEW k, Begins(c, k)
    PROVE  /\ call[c] = Idle /\ \A d \in Calls \ {c} : call'[d] = call[d]
           /\ call'[c] = [k EXCEPT !.s = Loaded]
           /\ \/ overlaps' = overlaps /\ \A d \in Calls : call[d] = Idle
              \/ overlaps' = overlaps + 1
BY DEF TypeInv, TypeOK, Begins

LEMMA EditsBegin ==
    ASSUME TypeInv, TypeInv', EditsInv, NEW c \in Calls, NEW k, Begins(c, k), NEW m, m = [k EXCEPT !.s = Loaded],
           rub' = rub, trampled' = trampled,
           m.op = "synthesize" /\ ~m.force => rub[m.g].source # "edited"
    PROVE  EditsInv'
<1>1. /\ call[c] = Idle /\ call'[c] = m /\ \A d \in Calls \ {c} : call'[d] = call[d]
      /\ \/ overlaps' = overlaps /\ \A d \in Calls : call[d] = Idle
         \/ overlaps' = overlaps + 1
  BY Beside
<1>i. Idle.op = "none"
  BY DEF Idle
<1>2. \A d \in Calls : Exposed(d)' => d # c /\ Exposed(d)
  BY <1>1 DEF Exposed, Synthesizes
<1>3. Waiting' <= Waiting
  BY <1>2 DEF Waiting
<1>4. c \notin Contenders /\ Contenders' \subseteq Contenders \cup {c} /\ Contenders \in SUBSET Calls
  BY <1>1, <1>i DEF Contenders, Synthesizes
<1>5. Cardinality(Contenders)' <= Cardinality(Contenders) + 1
  <2>1. Contenders \cup {c} \in SUBSET Calls /\ c \in Calls \ Contenders
    BY <1>4
  <2>2. Cardinality(Contenders \cup {c}) = Cardinality(Contenders) + 1
    BY <1>4, <2>1, CallsFinite
  <2>3. Cardinality(Contenders)' <= Cardinality(Contenders \cup {c})
    BY <1>4, <2>1, CallsFinite
  <2> QED BY <2>2, <2>3
<1>t. trampled \in Nat /\ overlaps \in Nat /\ overlaps' \in Nat
  BY DEF TypeInv, TypeOK
<1>6. CASE overlaps' = overlaps + 1
  BY <1>3, <1>5, <1>6, <1>t, ContendersNat DEF EditsInv
<1>7. CASE overlaps' = overlaps /\ \A d \in Calls : call[d] = Idle
  <2>1. Contenders = {} /\ Waiting = 0
    BY <1>7, <1>i DEF Contenders, Waiting, Exposed, Synthesizes
  <2>2. Cardinality(Contenders) = 0
    BY <2>1, FS_EmptySet
  <2> QED BY <1>3, <1>5, <1>7, <1>t, <2>1, <2>2, ContendersNat DEF EditsInv
<1> QED BY <1>1, <1>6, <1>7

LEMMA EditsOpens ==
    ASSUME TypeInv, TypeInv', EditsInv, NEW c \in Calls, Opens(c) PROVE EditsInv'
<1>1. CASE ChooseBegins(c)
  <2>1. PICK g \in Goals, op \in {"select", "profile"} : Begins(c, [Idle EXCEPT !.op = op, !.g = g])
    BY <1>1 DEF ChooseBegins
  <2> DEFINE k == [Idle EXCEPT !.op = op, !.g = g]
  <2>2. [k EXCEPT !.s = Loaded].op # "synthesize"
    BY DEF Idle
  <2> HIDE DEF k
  <2> QED BY <1>1, <2>1, <2>2, EditsBegin DEF ChooseBegins, files, harm, k
<1>2. CASE RubricBegins(c)
  <2>1. PICK force \in BOOLEAN :
          /\ Begins(c, [Idle EXCEPT !.op = "synthesize", !.g = Loaded.plan, !.n = docs[Loaded.plan], !.force = force])
          /\ force \/ ~Reusable(Loaded.plan)
    BY <1>2 DEF RubricBegins
  <2> DEFINE k == [Idle EXCEPT !.op = "synthesize", !.g = Loaded.plan, !.n = docs[Loaded.plan], !.force = force]
             m == [k EXCEPT !.s = Loaded]
  <2>2. m.force = force /\ m.g = Loaded.plan
    BY DEF Idle
  <2> HIDE DEF k, m
  <2>3. m.op = "synthesize" /\ ~m.force => rub[m.g].source # "edited"
    BY <2>1, <2>2 DEF Reusable
  <2> QED BY <1>2, <2>1, <2>3, EditsBegin DEF RubricBegins, files, harm, k, m
<1>3. CASE EditBegins(c)
  <2> DEFINE k == [Idle EXCEPT !.op = "edit", !.g = Loaded.plan]
  <2>1. Begins(c, k)
    BY <1>3 DEF EditBegins
  <2>2. [k EXCEPT !.s = Loaded].op # "synthesize"
    BY DEF Idle
  <2> HIDE DEF k
  <2> QED BY <1>3, <2>1, <2>2, EditsBegin DEF EditBegins, files, harm
<1>4. CASE RemediateBegins(c)
  <2> DEFINE k == [Idle EXCEPT !.op = "remediate"]
  <2>1. Begins(c, k)
    BY <1>4 DEF RemediateBegins
  <2>2. [k EXCEPT !.s = Loaded].op # "synthesize"
    BY DEF Idle
  <2> HIDE DEF k
  <2> QED BY <1>4, <2>1, <2>2, EditsBegin DEF RemediateBegins, files, harm
<1>5. ASSUME NEW force \in BOOLEAN, GradeBegins(c, force) PROVE EditsInv'
  <2> DEFINE k == [Idle EXCEPT !.op = "grade", !.g = Loaded.rubric, !.n = Iteration(Loaded), !.force = force]
  <2>1. Begins(c, k)
    BY <1>5 DEF GradeBegins
  <2>2. [k EXCEPT !.s = Loaded].op # "synthesize"
    BY DEF Idle
  <2> HIDE DEF k
  <2> QED BY <1>5, <2>1, <2>2, EditsBegin DEF GradeBegins, files, harm
<1> QED BY <1>1, <1>2, <1>3, <1>4, <1>5 DEF Opens

LEMMA EditsCloses ==
    ASSUME TypeInv, TypeInv', EditsInv, NEW c \in Calls, Closes(c) PROVE EditsInv'
<1>t. /\ call \in [Calls -> Call] /\ call[c] \in Call /\ Idle.op = "none" /\ rub \in [Goals -> Rubrics]
      /\ trampled \in Nat /\ overlaps \in Nat /\ overlaps' \in Nat
  BY DEF TypeInv, TypeOK, Idle
<1>g. call[c].op \in {"synthesize", "lock", "edit"} => call[c].g \in Goals
  BY DEF TypeInv, Placed
<1>c. Contenders \in SUBSET Calls
  BY DEF Contenders
<1>1. CASE SelectEnds(c) \/ ProfileEnds(c) \/ RemediateEnds(c) \/ ModelFails(c) \/ GradeEnds(c) \/ GradeFails(c)
  <2>1. call' = [call EXCEPT ![c] = Idle]
    BY <1>1 DEF SelectEnds, ProfileEnds, RemediateEnds, ModelFails, GradeEnds, GradeFails, Ends
  <2>2. rub' = rub /\ trampled' = trampled /\ overlaps' >= overlaps
    BY <1>1, <1>t DEF SelectEnds, ProfileEnds, RemediateEnds, ModelFails, GradeEnds, GradeFails, Loses,
                      files, harm, spent
  <2>3. \A d \in Calls : call'[d] = IF d = c THEN Idle ELSE call[d]
    BY <1>t, <2>1
  <2>4. Contenders' \subseteq Contenders /\ \A d \in Calls : Exposed(d)' => Exposed(d)
    BY <1>t, <2>2, <2>3 DEF Contenders, Exposed, Synthesizes
  <2> QED BY <2>2, <2>4, EditsShrink
<1>2. CASE LockWritten(c)
  <2>1. \A d \in Calls : call'[d] = IF d = c THEN Idle ELSE call[d]
    BY <1>2, <1>t DEF LockWritten, Ends
  <2>2. \A g : rub'[g].source = rub[g].source \/ g \notin Goals
    BY <1>2, <1>t DEF LockWritten, Rubrics
  <2>3. trampled' = trampled /\ overlaps' >= overlaps
    BY <1>2, <1>t DEF LockWritten, harm, spent
  <2>4. \A d \in Calls : Synthesizes(d) => call[d].g \in Goals
    BY DEF Synthesizes, TypeInv, Placed
  <2>5. Contenders' \subseteq Contenders /\ \A d \in Calls : Exposed(d)' => Exposed(d)
    BY <1>t, <2>1, <2>2, <2>4 DEF Contenders, Exposed, Synthesizes
  <2> QED BY <2>3, <2>5, EditsShrink
<1>3. CASE EditEnds(c)
  <2>1. \A d \in Calls : call'[d] = IF d = c THEN Idle ELSE call[d]
    BY <1>3, <1>t DEF EditEnds, Ends
  <2>2. trampled' = trampled /\ overlaps' = overlaps
    BY <1>3 DEF EditEnds, harm, spent
  <2>3. c \in Contenders /\ Contenders' = Contenders \ {c}
    BY <1>3, <1>t, <2>1 DEF EditEnds, At, Contenders, Synthesizes
  <2>4. Cardinality(Contenders)' = Cardinality(Contenders) - 1
    BY <1>c, <2>3, CallsFinite
  <2> QED BY <1>t, <2>2, <2>4, ContendersNat DEF EditsInv
<1>4. CASE RubricWritten(c)
  <2>g. call[c].op = "synthesize" /\ call[c].g \in Goals
    BY <1>4, <1>g DEF RubricWritten, At
  <2>1. call'[c] = [call[c] EXCEPT !.op = "lock"] /\ \A d \in Calls \ {c} : call'[d] = call[d]
    BY <1>4, <1>t DEF RubricWritten
  <2>2. call'[c].op = "lock"
    BY <1>t, <2>1 DEF Call
  <2>3. \A g \in Goals : rub'[g].source = "edited" => rub[g].source = "edited"
    BY <1>4, <1>t, <2>g DEF RubricWritten, Rubrics
  <2>4. \A d \in Calls : Synthesizes(d) => call[d].g \in Goals
    BY DEF Synthesizes, TypeInv, Placed
  <2>5. Contenders' \subseteq Contenders \ {c} /\ \A d \in Calls : Exposed(d)' => Exposed(d)
    BY <2>1, <2>2, <2>3, <2>4 DEF Contenders, Exposed, Synthesizes
  <2>6. overlaps' = overlaps
    BY <1>4 DEF RubricWritten, spent
  <2>7. CASE Exposed(c)
    <3>1. trampled' = trampled + 1
      BY <1>4, <2>7 DEF RubricWritten, Exposed, Synthesizes
    <3>2. c \in Contenders /\ Waiting = 1
      BY <2>7 DEF Contenders, Exposed, Waiting
    <3>3. Cardinality(Contenders \ {c}) = Cardinality(Contenders) - 1
      BY <1>c, <3>2, CallsFinite
    <3>4. Cardinality(Contenders)' <= Cardinality(Contenders \ {c}) /\ Cardinality(Contenders \ {c}) \in Nat
      <4>1. Contenders \ {c} \in SUBSET Calls
        BY <1>c
      <4> QED BY <2>5, <4>1, CallsFinite
    <3> QED BY <1>t, <2>6, <3>1, <3>2, <3>3, <3>4, ContendersNat DEF EditsInv
  <2>8. CASE ~Exposed(c)
    <3>1. trampled' = trampled
      BY <1>4, <2>8, <2>g DEF RubricWritten, Exposed, Synthesizes
    <3> QED BY <1>t, <2>5, <2>6, <3>1, EditsShrink
  <2> QED BY <2>7, <2>8
<1>5. CASE Verdict(c)
  <2>1. /\ call[c].op = "grade" /\ call'[c].op = "save"
        /\ \A d \in Calls \ {c} : call'[d] = call[d]
    BY <1>5, <1>t DEF Verdict, At, Call
  <2>2. rub' = rub /\ trampled' = trampled /\ overlaps' = overlaps
    BY <1>5 DEF Verdict, Loses, spent
  <2>3. Contenders' \subseteq Contenders /\ \A d \in Calls : Exposed(d)' => Exposed(d)
    BY <2>1, <2>2 DEF Contenders, Exposed, Synthesizes
  <2> QED BY <1>t, <2>2, <2>3, EditsShrink
<1> QED BY <1>1, <1>2, <1>3, <1>4, <1>5 DEF Closes, Step

\* An edited rubric is replaced only by force, or by a synthesis that was under
\* way when it was edited: no more often than calls overlapped.
THEOREM EditsAreKept == Spec => []EditsKept
<1>1. Init => EditsInv
  <2> SUFFICES ASSUME Init PROVE EditsInv
    OBVIOUS
  <2>1. Contenders = {} /\ Waiting = 0
    BY DEF Init, Contenders, Waiting, Exposed, Synthesizes, Idle
  <2>2. Cardinality(Contenders) = 0
    BY <2>1, FS_EmptySet
  <2> QED BY <2>1, <2>2 DEF Init, EditsInv
<1>2. TypeInv /\ TypeInv' /\ EditsInv /\ [Next]_vars => EditsInv'
  <2> SUFFICES ASSUME TypeInv, TypeInv', EditsInv, [Next]_vars PROVE EditsInv'
    OBVIOUS
  <2>t. overlaps \in Nat /\ overlaps' \in Nat
    BY DEF TypeInv, TypeOK
  <2>1. CASE UNCHANGED vars \/ WritePlan \/ OneShot
    <3>1. call' = call /\ rub' = rub /\ trampled' = trampled /\ overlaps' >= overlaps
      BY <2>1, <2>t DEF OneShot, PlanFile, PlanContent, PlanPrompt, PlanDeep, ApprovePlan, RejectPlan, RubricReused,
                RubricValidated, SkipRubric, Registers, AtOnce, WritePlan, vars, files, harm, spent
    <3>2. Contenders' \subseteq Contenders /\ \A d \in Calls : Exposed(d)' => Exposed(d)
      BY <3>1 DEF Contenders, Exposed, Synthesizes
    <3> QED BY <3>1, <3>2, EditsShrink
  <2>2. CASE Crash
    <3>1. \A d \in Calls : call'[d].op = "none"
      BY <2>2 DEF Crash, Idle
    <3>2. trampled' = trampled /\ overlaps' >= overlaps
      BY <2>2, <2>t DEF Crash, Loses, harm
    <3>3. Contenders' \subseteq Contenders /\ \A d \in Calls : ~Exposed(d)'
      BY <3>1 DEF Contenders, Exposed, Synthesizes
    <3> QED BY <3>2, <3>3, EditsShrink
  <2> QED BY <2>1, <2>2, NextCases, EditsOpens, EditsCloses
<1>3. EditsInv => EditsKept
  BY DEF EditsInv, EditsKept
<1> QED BY <1>1, <1>2, <1>3, InitTyped, NextTyped, PTL DEF Spec

-----------------------------------------------------------------------------
(***************************************************************************)
(* The coordinator is sent round a bounded number of times, however the    *)
(* calls overlap.  An answer needs_revision is matched by an entry of the  *)
(* history that the grading saves; a call that holds an older copy takes   *)
(* entries back, one for each grading it ran beside: those were overlaps.  *)
(* A checkpoint or a copy that is idle is not taken up, and not counted.   *)
(***************************************************************************)
InFlight == {c \in Calls : call[c] # Idle}
Graders  == {c \in Calls : Grading(c)}
GradersBut(c) == Cardinality(Graders \ {c})
Revivable(s) == s.phase # "idle"

Graded ==
    \A c \in Calls : Grading(c) =>
        /\ Revivable(call[c].s) /\ call[c].n = Len(call[c].s.history) + 1
        /\ call[c].op = "save" /\ call[c].status = "needs_revision" => call[c].n < Cap

Matched(c) == Revivable(call[c].s) => needs + GradersBut(c) <= Len(call[c].s.history) + overlaps
MatchedState ==
    Revivable(st) => /\ needs <= Len(st.history) + overlaps
                     /\ needs + Cardinality(Graders) <= Len(st.history) + overlaps + 1

NeedsInv ==
    /\ RoundsBounded
    /\ Cardinality(InFlight) <= overlaps + 1
    /\ Graded /\ MatchedState
    /\ \A c \in InFlight : Matched(c)

\* The numbers of calls, and of gradings but for one.
LEMMA Numbers ==
    /\ InFlight \in SUBSET Calls /\ Graders \in SUBSET InFlight /\ Graders \in SUBSET Calls
    /\ Cardinality(InFlight) \in Nat /\ Cardinality(Graders) \in Nat
    /\ Cardinality(Graders) <= Cardinality(InFlight)
<1>1. Graders \subseteq InFlight /\ InFlight \in SUBSET Calls /\ Graders \in SUBSET Calls
  BY DEF Graders, InFlight, Grading, Idle
<1> QED BY <1>1, CallsFinite

LEMMA NumbersBut ==
    ASSUME NEW c \in Calls
    PROVE  /\ GradersBut(c) \in Nat /\ GradersBut(c) <= Cardinality(Graders)
           /\ c \in InFlight => GradersBut(c) <= Cardinality(InFlight) - 1
<1>1. Graders \subseteq InFlight /\ InFlight \in SUBSET Calls /\ Graders \in SUBSET Calls
  BY DEF Graders, InFlight, Grading, Idle
<1>2. Graders \ {c} \in SUBSET Graders /\ Graders \ {c} \in SUBSET Calls
  BY <1>1
<1>3. GradersBut(c) \in Nat /\ GradersBut(c) <= Cardinality(Graders)
  BY <1>1, <1>2, CallsFinite DEF GradersBut
<1>4. ASSUME c \in InFlight PROVE GradersBut(c) <= Cardinality(InFlight) - 1
  <2>1. Cardinality(InFlight \ {c}) = Cardinality(InFlight) - 1
    BY <1>1, <1>4, CallsFinite
  <2>2. InFlight \ {c} \in SUBSET Calls /\ Graders \ {c} \in SUBSET (InFlight \ {c})
    BY <1>1
  <2>3. GradersBut(c) <= Cardinality(InFlight \ {c})
    BY <2>2, CallsFinite DEF GradersBut
  <2> QED BY <2>1, <2>3
<1> QED BY <1>3, <1>4

LEMMA Lengths ==
    ASSUME TypeInv
    PROVE  /\ Len(st.history) \in Nat /\ \A c \in Calls : Len(call[c].s.history) \in Nat
           /\ needs \in Nat /\ overlaps \in Nat /\ Cap \in Nat \ {0}
BY CycleAssumption DEF TypeInv, TypeOK, Good, State

LEMMA NumbersAt ==
    ASSUME TypeInv, NEW c \in Calls
    PROVE  GradersBut(c) \in Nat /\ Len(call[c].s.history) \in Nat
<1>1. GradersBut(c) \in Nat
  BY NumbersBut
<1>2. Len(call[c].s.history) \in Nat
  BY Lengths
<1> QED BY <1>1, <1>2

LEMMA NeedsAtOnce ==
    ASSUME TypeInv, TypeInv', NeedsInv, call' = call, needs' = needs, overlaps' >= overlaps,
           Revivable(st)' => Revivable(st) /\ st'.history = st.history
    PROVE  NeedsInv'
<1>1. overlaps \in Nat /\ overlaps' \in Nat /\ needs \in Nat
  BY Lengths DEF TypeInv, TypeOK
<1>2. InFlight' = InFlight /\ Graders' = Graders
  BY DEF InFlight, Graders, Grading
<1>3. \A c \in Calls : GradersBut(c)' = GradersBut(c)
  BY <1>2 DEF GradersBut
<1>4. RoundsBounded' /\ Cardinality(InFlight)' <= overlaps' + 1
  BY <1>1, <1>2, Lengths, Numbers DEF NeedsInv, RoundsBounded
<1>5. Graded'
  BY DEF NeedsInv, Graded, Grading, Revivable
<1>6. MatchedState'
  <2>1. SUFFICES ASSUME Revivable(st)'
                 PROVE  /\ needs' <= Len(st'.history) + overlaps'
                        /\ needs' + Cardinality(Graders)' <= Len(st'.history) + overlaps' + 1
    BY DEF MatchedState
  <2>2. st'.history = st.history /\ Len(st.history) \in Nat /\ Cardinality(Graders) \in Nat
    BY <2>1, Lengths, Numbers
  <2>3. /\ needs <= Len(st.history) + overlaps
        /\ needs + Cardinality(Graders) <= Len(st.history) + overlaps + 1
    BY <2>1 DEF NeedsInv, MatchedState
  <2> QED BY <1>1, <1>2, <2>2, <2>3
<1>7. ASSUME NEW c \in InFlight' PROVE Matched(c)'
  <2>1. c \in InFlight /\ c \in Calls /\ call'[c] = call[c]
    BY <1>2 DEF InFlight
  <2>2. Matched(c)
    BY <2>1 DEF NeedsInv
  <2>3. GradersBut(c)' = GradersBut(c) /\ GradersBut(c) \in Nat /\ Len(call[c].s.history) \in Nat
    <3>1. c \in Calls
      BY <2>1
    <3> QED BY <1>3, <3>1, NumbersAt
  <2>4. ASSUME Revivable(call[c].s)
        PROVE  needs + GradersBut(c)' <= Len(call[c].s.history) + overlaps'
    BY <1>1, <2>2, <2>3, <2>4 DEF Matched
  <2> QED BY <2>1, <2>4 DEF Matched, Revivable
<1> QED BY <1>4, <1>5, <1>6, <1>7 DEF NeedsInv

LEMMA NeedsBegin ==
    ASSUME TypeInv, TypeInv', NeedsInv, NEW c \in Calls, NEW k, Begins(c, k), NEW m, m = [k EXCEPT !.s = Loaded],
           m.s = Loaded, st' = st, needs' = needs,
           m.op \in {"grade", "save"} =>
               m.op = "grade" /\ Revivable(Loaded) /\ m.n = Len(Loaded.history) + 1
    PROVE  NeedsInv'
<1>1. /\ call[c] = Idle /\ call'[c] = m /\ \A d \in Calls \ {c} : call'[d] = call[d]
      /\ \/ overlaps' = overlaps /\ \A d \in Calls : call[d] = Idle
         \/ overlaps' = overlaps + 1
  BY Beside
<1>t. overlaps \in Nat /\ overlaps' \in Nat /\ needs \in Nat
  BY Lengths DEF TypeInv, TypeOK
<1>2. /\ c \notin InFlight /\ c \notin Graders
      /\ InFlight' \subseteq InFlight \cup {c} /\ Graders' \subseteq Graders \cup {c}
  BY <1>1 DEF InFlight, Graders, Grading, Idle
<1>3. /\ Cardinality(InFlight)' <= Cardinality(InFlight) + 1 /\ Cardinality(Graders)' <= Cardinality(Graders) + 1
      /\ Cardinality(InFlight)' \in Nat /\ Cardinality(Graders)' \in Nat
  <2>1. InFlight \in SUBSET Calls /\ Graders \in SUBSET Calls /\ c \in Calls \ InFlight /\ c \in Calls \ Graders
    BY <1>2, Numbers
  <2>2. InFlight \cup {c} \in SUBSET Calls /\ Graders \cup {c} \in SUBSET Calls
    BY <2>1
  <2>3. /\ Cardinality(InFlight \cup {c}) = Cardinality(InFlight) + 1
        /\ Cardinality(Graders \cup {c}) = Cardinality(Graders) + 1
    BY <2>1, CallsFinite
  <2>4. InFlight' \in SUBSET (InFlight \cup {c}) /\ Graders' \in SUBSET (Graders \cup {c})
    BY <1>2
  <2>5. InFlight' \in SUBSET Calls /\ Graders' \in SUBSET Calls
    BY <2>2, <2>4
  <2> QED BY <2>2, <2>3, <2>4, <2>5, CallsFinite
<1>4. ASSUME NEW d \in Calls \ {c} PROVE GradersBut(d)' <= GradersBut(d) + 1 /\ GradersBut(d)' \in Nat
  <2>1. /\ Graders \ {d} \in SUBSET Calls /\ c \in Calls \ (Graders \ {d})
        /\ Graders' \ {d} \in SUBSET ((Graders \ {d}) \cup {c}) /\ (Graders \ {d}) \cup {c} \in SUBSET Calls
    BY <1>2, Numbers
  <2>2. Cardinality((Graders \ {d}) \cup {c}) = Cardinality(Graders \ {d}) + 1
    BY <2>1, CallsFinite
  <2>3. Cardinality(Graders' \ {d}) <= Cardinality((Graders \ {d}) \cup {c}) /\ Cardinality(Graders' \ {d}) \in Nat
    BY <2>1, CallsFinite
  <2> QED BY <2>2, <2>3 DEF GradersBut
<1>5. GradersBut(c)' = Cardinality(Graders)
  <2>1. Graders' \ {c} = Graders
    BY <1>1, <1>2 DEF Graders, Grading
  <2> QED BY <2>1 DEF GradersBut
<1>6. Graded'
  BY <1>1 DEF NeedsInv, Graded, Grading, Revivable
<1>7. Loaded.phase # "idle" => Loaded = st
  BY LoadedFields
<1>8. CASE overlaps' = overlaps + 1
  <2>1. RoundsBounded' /\ Cardinality(InFlight)' <= overlaps' + 1
    BY <1>3, <1>8, <1>t, Lengths, Numbers DEF NeedsInv, RoundsBounded
  <2>2. MatchedState'
    <3>1. Revivable(st)' = Revivable(st) /\ st'.history = st.history /\ Len(st.history) \in Nat
      BY Lengths DEF Revivable
    <3>2. Revivable(st) => /\ needs <= Len(st.history) + overlaps
                           /\ needs + Cardinality(Graders) <= Len(st.history) + overlaps + 1
      BY DEF NeedsInv, MatchedState
    <3>3. Cardinality(Graders) \in Nat
      BY Numbers
    <3>4. Revivable(st) => /\ needs <= Len(st.history) + overlaps'
                           /\ needs + Cardinality(Graders)' <= Len(st.history) + overlaps' + 1
      BY <1>3, <1>8, <1>t, <3>1, <3>2, <3>3
    <3> QED BY <3>1, <3>4 DEF MatchedState
  <2>3. ASSUME NEW d \in InFlight' PROVE Matched(d)'
    <3>1. CASE d = c
      <4>1. Revivable(Loaded) => needs + Cardinality(Graders) <= Len(Loaded.history) + overlaps + 1
        BY <1>7 DEF NeedsInv, MatchedState, Revivable
      <4>2. call'[d].s = Loaded
        BY <1>1, <3>1
      <4> QED BY <1>5, <1>8, <1>t, <3>1, <4>1, <4>2, Lengths, Numbers DEF Matched, Revivable
    <3>2. CASE d # c
      <4>1. d \in InFlight /\ d \in Calls \ {c} /\ call'[d] = call[d]
        BY <1>1, <3>2 DEF InFlight
      <4>2. Matched(d)
        BY <4>1 DEF NeedsInv
      <4>3. /\ GradersBut(d)' <= GradersBut(d) + 1 /\ GradersBut(d)' \in Nat
            /\ GradersBut(d) \in Nat /\ Len(call[d].s.history) \in Nat
        <5>1. d \in Calls /\ d \in Calls \ {c}
          BY <4>1
        <5> QED BY <1>4, <5>1, NumbersAt
      <4>4. ASSUME Revivable(call[d].s)
            PROVE  needs + GradersBut(d)' <= Len(call[d].s.history) + overlaps'
        BY <1>8, <1>t, <4>2, <4>3, <4>4 DEF Matched
      <4> QED BY <4>1, <4>4 DEF Matched, Revivable
    <3> QED BY <3>1, <3>2
  <2> QED BY <1>6, <2>1, <2>2, <2>3 DEF NeedsInv
<1>9. CASE overlaps' = overlaps /\ \A d \in Calls : call[d] = Idle
  <2>i. Idle.op = "none"
    BY DEF Idle
  <2>1. InFlight = {} /\ Graders = {}
    BY <1>9, <2>i DEF InFlight, Graders, Grading
  <2>2. Cardinality(InFlight) = 0 /\ Cardinality(Graders) = 0
    BY <2>1, FS_EmptySet
  <2>3. RoundsBounded' /\ Cardinality(InFlight)' <= overlaps' + 1
    BY <1>3, <1>9, <1>t, <2>2 DEF NeedsInv, RoundsBounded
  <2>4. MatchedState'
    BY <1>3, <1>9, <1>t, <2>2, Lengths DEF NeedsInv, MatchedState, Revivable
  <2>5. ASSUME NEW d \in InFlight' PROVE Matched(d)'
    <3>1. d = c
      BY <1>1, <1>9 DEF InFlight
    <3>2. Revivable(Loaded) => needs <= Len(Loaded.history) + overlaps
      BY <1>7 DEF NeedsInv, MatchedState, Revivable
    <3>3. call'[d].s = Loaded
      BY <1>1, <3>1
    <3> QED BY <1>5, <1>9, <1>t, <2>2, <3>1, <3>2, <3>3 DEF Matched, Revivable
  <2> QED BY <1>6, <2>3, <2>4, <2>5 DEF NeedsInv
<1> QED BY <1>1, <1>8, <1>9

\* The numbers after a call ended.
LEMMA EndGraders ==
    ASSUME NEW c \in Calls, \A d \in Calls : call'[d] = IF d = c THEN Idle ELSE call[d]
    PROVE  InFlight' \subseteq InFlight \ {c} /\ Graders' = Graders \ {c}
<1>i. Idle.op = "none"
  BY DEF Idle
<1>1. \A d \in Calls : (call'[d].op \in {"grade", "save"}) <=> (d # c /\ Grading(d))
  BY <1>i DEF Grading
<1>2. Graders' = Graders \ {c}
  BY <1>1 DEF Graders, Grading
<1>3. InFlight' \subseteq InFlight \ {c}
  BY DEF InFlight
<1> QED BY <1>2, <1>3

LEMMA EndNumbers ==
    ASSUME NEW c \in Calls, \A d \in Calls : call'[d] = IF d = c THEN Idle ELSE call[d]
    PROVE  /\ Cardinality(InFlight)' <= Cardinality(InFlight) /\ Cardinality(InFlight)' \in Nat
           /\ Cardinality(Graders)' = GradersBut(c)
<1>1. InFlight' \subseteq InFlight \ {c} /\ Graders' = Graders \ {c}
  BY EndGraders
<1>2. InFlight \in SUBSET Calls /\ InFlight' \in SUBSET InFlight /\ InFlight' \in SUBSET Calls
  BY <1>1, Numbers
<1> QED BY <1>1, <1>2, CallsFinite DEF GradersBut

LEMMA EndNumbersBut ==
    ASSUME NEW c \in Calls, \A d \in Calls : call'[d] = IF d = c THEN Idle ELSE call[d],
           NEW d \in Calls, d # c
    PROVE  /\ GradersBut(d)' \in Nat /\ GradersBut(d)' <= GradersBut(d)
           /\ Grading(c) => GradersBut(d)' <= GradersBut(d) - 1
<1>1. Graders' = Graders \ {c} /\ Graders \in SUBSET Calls
  BY EndGraders, Numbers
<1>2. /\ Graders \ {d} \in SUBSET Calls /\ (Graders \ {c}) \ {d} \in SUBSET (Graders \ {d})
      /\ (Graders \ {c}) \ {d} = (Graders \ {d}) \ {c} /\ (Graders \ {c}) \ {d} \in SUBSET Calls
  BY <1>1
<1>3. GradersBut(d)' = Cardinality((Graders \ {c}) \ {d})
  BY <1>1 DEF GradersBut
<1>4. GradersBut(d)' <= GradersBut(d) /\ GradersBut(d)' \in Nat
  BY <1>2, <1>3, CallsFinite DEF GradersBut
<1>5. ASSUME Grading(c) PROVE GradersBut(d)' <= GradersBut(d) - 1
  <2>1. c \in Graders \ {d}
    BY <1>5 DEF Graders
  <2>2. Cardinality((Graders \ {d}) \ {c}) = Cardinality(Graders \ {d}) - 1
    BY <1>2, <2>1, CallsFinite
  <2>3. GradersBut(d)' = GradersBut(d) - 1 /\ GradersBut(d) \in Nat
    BY <1>2, <1>3, <2>2, CallsFinite DEF GradersBut
  <2> QED BY <2>3
<1> QED BY <1>4, <1>5

\* A call that ends gives the gradings of the others back what it held of them.
LEMMA NeedsEnds ==
    ASSUME TypeInv, TypeInv', NeedsInv, NEW c \in Calls, Ends(c), overlaps' = overlaps,
           needs' <= needs \/ (Grading(c) /\ needs' = needs + 1),
           RoundsBounded', MatchedState'
    PROVE  NeedsInv'
<1>1. \A d \in Calls : call'[d] = IF d = c THEN Idle ELSE call[d]
  BY CallEnds
<1>t. overlaps \in Nat /\ needs \in Nat /\ needs' \in Nat
  BY DEF TypeInv, TypeOK
<1>2. Cardinality(InFlight)' <= overlaps' + 1
  <2>1. Cardinality(InFlight)' <= Cardinality(InFlight) /\ Cardinality(InFlight)' \in Nat
    BY <1>1, EndNumbers
  <2>2. Cardinality(InFlight) \in Nat /\ Cardinality(InFlight) <= overlaps + 1
    BY Numbers DEF NeedsInv
  <2> QED BY <1>t, <2>1, <2>2
<1>3. Graded'
  <2>1. Idle.op = "none"
    BY DEF Idle
  <2>2. \A d \in Calls : call'[d].op \in {"grade", "save"} => call'[d] = call[d] /\ Grading(d)
    BY <1>1, <2>1 DEF Grading
  <2> QED BY <2>2 DEF NeedsInv, Graded, Grading, Revivable
<1>4. ASSUME NEW d \in InFlight' PROVE Matched(d)'
  <2>1. /\ d \in InFlight /\ d \in Calls /\ call'[d] = call[d]
        /\ GradersBut(d)' \in Nat /\ GradersBut(d)' <= GradersBut(d)
        /\ Grading(c) => GradersBut(d)' <= GradersBut(d) - 1
    <3>1. d \in Calls /\ call'[d] # Idle
      BY DEF InFlight
    <3>2. d # c /\ call'[d] = call[d] /\ d \in InFlight
      BY <1>1, <3>1 DEF InFlight
    <3>3. /\ GradersBut(d)' \in Nat /\ GradersBut(d)' <= GradersBut(d)
          /\ Grading(c) => GradersBut(d)' <= GradersBut(d) - 1
      BY <1>1, <3>1, <3>2, EndNumbersBut
    <3> QED BY <3>1, <3>2, <3>3
  <2>2. Matched(d)
    BY <2>1 DEF NeedsInv
  <2>3. GradersBut(d) \in Nat /\ Len(call[d].s.history) \in Nat
    BY <2>1, NumbersAt
  <2>4. needs' + GradersBut(d)' <= needs + GradersBut(d)
    <3>1. CASE needs' <= needs
      BY <1>t, <2>1, <2>3, <3>1
    <3>2. CASE Grading(c) /\ needs' = needs + 1
      BY <1>t, <2>1, <2>3, <3>2
    <3> QED BY <3>1, <3>2
  <2>5. ASSUME Revivable(call[d].s)
        PROVE  needs' + GradersBut(d)' <= Len(call[d].s.history) + overlaps'
    BY <1>t, <2>1, <2>2, <2>3, <2>4, <2>5 DEF Matched
  <2> QED BY <2>1, <2>5 DEF Matched, Revivable
<1> QED BY <1>2, <1>3, <1>4 DEF NeedsInv

\* The actions that carry a call on, or end it.
LEMMA NeedsCloses ==
    ASSUME TypeInv, TypeInv', NeedsInv, NEW c \in Calls, Closes(c) PROVE NeedsInv'
<1> DEFINE k == call[c]
<1>i. Idle.op = "none"
  BY DEF Idle
<1>l. /\ k.s \in State /\ Len(k.s.history) <= HistoryCap /\ k.s.history \in Seq(Entry)
      /\ call \in [Calls -> Call] /\ k \in Call
  BY DEF TypeInv, TypeOK, Good, State
<1>c. /\ Cap \in Nat \ {0} /\ HistoryCap \in Nat /\ Cap <= HistoryCap
      /\ needs \in Nat /\ needs' \in Nat /\ overlaps \in Nat /\ Len(k.s.history) \in Nat
  BY <1>l, CycleAssumption DEF TypeInv, TypeOK
<1>b. RoundsBounded /\ Cardinality(InFlight) <= overlaps + 1
  BY DEF NeedsInv
<1>m. k.op # "none" => Matched(c)
  BY <1>i DEF NeedsInv, InFlight, k
<1>g. /\ GradersBut(c) \in Nat /\ Cardinality(Graders) \in Nat /\ GradersBut(c) <= Cardinality(Graders)
      /\ k.op # "none" => GradersBut(c) <= overlaps
  <2>1. /\ GradersBut(c) \in Nat /\ Cardinality(Graders) \in Nat /\ GradersBut(c) <= Cardinality(Graders)
        /\ Cardinality(InFlight) \in Nat
    BY Numbers, NumbersBut
  <2>2. ASSUME k.op # "none" PROVE GradersBut(c) <= Cardinality(InFlight) - 1
    <3>1. c \in InFlight
      BY <1>i, <2>2 DEF InFlight, k
    <3> QED BY <3>1, NumbersBut
  <2>3. ASSUME k.op # "none" PROVE GradersBut(c) <= overlaps
    BY <1>b, <1>c, <2>1, <2>2, <2>3
  <2> QED BY <2>1, <2>3
<1>e. ASSUME Ends(c) PROVE Cardinality(Graders)' = GradersBut(c)
  <2>1. \A d \in Calls : call'[d] = IF d = c THEN Idle ELSE call[d]
    BY <1>e, CallEnds
  <2> QED BY <2>1, EndNumbers
<1> HIDE DEF k
<1>1. CASE SelectEnds(c) \/ ProfileEnds(c)
  <2>1. needs' = 0 /\ overlaps' = overlaps /\ Ends(c) /\ k.op # "none"
    BY <1>1 DEF SelectEnds, ProfileEnds, spent, At, k
  <2>2. Len(st'.history) \in Nat
    BY Lengths DEF TypeInv, Good, State
  <2>3. RoundsBounded'
    BY <1>c, <2>1 DEF RoundsBounded
  <2>4. MatchedState'
    BY <1>c, <1>e, <1>g, <2>1, <2>2 DEF MatchedState
  <2> QED BY <1>c, <2>1, <2>3, <2>4, NeedsEnds
<1>2. CASE LockWritten(c) \/ EditEnds(c) \/ RemediateEnds(c)
  <2>1. /\ st' \in {k.s, [k.s EXCEPT !.rubric = k.g]} /\ k.op \in {"lock", "edit", "remediate"} /\ Ends(c)
        /\ overlaps' = overlaps /\ needs' = needs
    BY <1>2 DEF LockWritten, EditEnds, RemediateEnds, At, past, spent, k
  <2>2. st'.phase = k.s.phase /\ st'.history = k.s.history
    BY <1>l, <2>1 DEF State
  <2>3. RoundsBounded'
    BY <1>b, <2>1 DEF RoundsBounded
  <2>4. Revivable(k.s) => needs + GradersBut(c) <= Len(k.s.history) + overlaps
    BY <1>m, <2>1 DEF Matched, k
  <2>5. ASSUME Revivable(k.s)
        PROVE  /\ needs' <= Len(k.s.history) + overlaps'
               /\ needs' + Cardinality(Graders)' <= Len(k.s.history) + overlaps' + 1
    BY <1>c, <1>e, <1>g, <2>1, <2>4, <2>5
  <2>6. MatchedState'
    BY <2>2, <2>5 DEF MatchedState, Revivable
  <2> QED BY <1>c, <2>1, <2>3, <2>6, NeedsEnds
<1>3. CASE ModelFails(c) \/ GradeFails(c)
  <2>1. st' = st /\ Ends(c) /\ overlaps' = overlaps /\ needs' = needs
    BY <1>3 DEF ModelFails, GradeFails, Loses, past, spent
  <2>2. RoundsBounded'
    BY <1>b, <2>1 DEF RoundsBounded
  <2>3. Len(st.history) \in Nat
    BY Lengths
  <2>4. ASSUME Revivable(st)
        PROVE  /\ needs' <= Len(st.history) + overlaps'
               /\ needs' + Cardinality(Graders)' <= Len(st.history) + overlaps' + 1
    <3>1. /\ needs <= Len(st.history) + overlaps
          /\ needs + Cardinality(Graders) <= Len(st.history) + overlaps + 1
      BY <2>4 DEF NeedsInv, MatchedState
    <3> QED BY <1>c, <1>e, <1>g, <2>1, <2>3, <3>1
  <2>5. MatchedState'
    BY <2>1, <2>4 DEF MatchedState, Revivable
  <2> QED BY <1>c, <2>1, <2>2, <2>5, NeedsEnds
<1>4. CASE GradeEnds(c)
  <2> DEFINE e == [slug |-> k.g, cycle |-> cycle]
             h == Pushed(k.s.history, e)
  <2>1. /\ st' = [k.s EXCEPT !.history = h] /\ k.op = "save" /\ Ends(c) /\ overlaps' = overlaps
        /\ needs' = IF k.status = "needs_revision" THEN needs + 1 ELSE needs
    BY <1>4 DEF GradeEnds, At, spent, k
  <2>2. e \in Entry
    BY <2>1 DEF TypeInv, TypeOK, Placed, Entry, k
  <2> HIDE DEF e
  <2>3. /\ h \in Seq(Entry) /\ Len(h) \in Nat
        /\ Len(k.s.history) < HistoryCap => Len(h) = Len(k.s.history) + 1
        /\ Len(k.s.history) <= Len(h)
    BY <1>l, <2>2, PushedTyped, PushedHolds
  <2> HIDE DEF h
  <2>4. st'.phase = k.s.phase /\ st'.history = h
    BY <1>l, <2>1 DEF State
  <2>5. /\ Grading(c) /\ Revivable(k.s) /\ k.n = Len(k.s.history) + 1
        /\ (k.status = "needs_revision" => k.n < Cap)
    BY <2>1 DEF NeedsInv, Graded, Grading, k
  <2>6. needs + GradersBut(c) <= Len(k.s.history) + overlaps
    BY <1>m, <2>1, <2>5 DEF Matched, k
  <2>7. CASE k.status = "needs_revision"
    <3>1. needs' = needs + 1 /\ Len(h) = Len(k.s.history) + 1 /\ Len(k.s.history) + 1 < Cap
      BY <1>c, <2>1, <2>3, <2>5, <2>7
    <3>2. needs' < Cap + overlaps'
      BY <1>c, <1>g, <2>1, <2>6, <3>1
    <3>3. needs' <= Len(h) + overlaps' /\ needs' + GradersBut(c) <= Len(h) + overlaps' + 1
      <4>1. overlaps' = overlaps /\ Len(h) \in Nat
        BY <2>1, <2>3
      <4> QED BY <1>c, <1>g, <2>6, <3>1, <4>1
    <3>4. RoundsBounded' /\ MatchedState'
      BY <1>e, <2>1, <2>4, <3>2, <3>3 DEF RoundsBounded, MatchedState
    <3> QED BY <1>c, <2>1, <2>5, <3>1, <3>4, NeedsEnds
  <2>8. CASE k.status # "needs_revision"
    <3>1. needs' = needs
      BY <2>1, <2>8
    <3>2. needs' <= Len(h) + overlaps' /\ needs' + GradersBut(c) <= Len(h) + overlaps' + 1
      BY <1>c, <1>g, <2>1, <2>3, <2>6, <3>1
    <3>3. RoundsBounded' /\ MatchedState'
      BY <1>b, <1>e, <2>1, <2>4, <3>1, <3>2 DEF RoundsBounded, MatchedState
    <3> QED BY <1>c, <2>1, <3>1, <3>3, NeedsEnds
  <2> QED BY <2>7, <2>8
<1>5. CASE RubricWritten(c) \/ Verdict(c)
  <2>1. st' = st /\ needs' = needs /\ overlaps' = overlaps
    BY <1>5 DEF RubricWritten, Verdict, Loses, past, spent
  <2>2. \A d \in Calls \ {c} : call'[d] = call[d]
    BY <1>5, <1>l DEF RubricWritten, Verdict
  <2>3. k.op # "none" /\ call'[c].op # "none" /\ call'[c].s = k.s
        /\ (call'[c].op \in {"grade", "save"} <=> Grading(c))
    BY <1>5, <1>l DEF RubricWritten, Verdict, At, Call, Grading, k
  <2>4. InFlight' = InFlight /\ Graders' = Graders
    BY <1>i, <2>2, <2>3 DEF InFlight, Graders, Grading, k
  <2>5. \A d \in Calls : call'[d].s = call[d].s /\ GradersBut(d)' = GradersBut(d)
    BY <2>2, <2>3, <2>4 DEF GradersBut, k
  <2>6. RoundsBounded' /\ MatchedState' /\ Cardinality(InFlight)' <= overlaps' + 1
    BY <2>1, <2>4 DEF NeedsInv, RoundsBounded, MatchedState, Revivable
  <2>7. \A d \in InFlight' : Matched(d)'
    BY <2>1, <2>4, <2>5, <1>l DEF NeedsInv, Matched, Revivable, InFlight
  <2>8. Graded'
    <3>1. CASE RubricWritten(c)
      <4>1. call'[c].op = "lock"
        BY <1>l, <3>1 DEF RubricWritten, Call
      <4> QED BY <2>2, <4>1 DEF NeedsInv, Graded, Grading, Revivable
    <3>2. CASE Verdict(c)
      <4>1. PICK status \in {"needs_revision", "satisfied"} :
              call' = [call EXCEPT ![c].op = "save", ![c].status = Coerced(k.n, status)]
        BY <3>2 DEF Verdict, k
      <4>2. call'[c].n = k.n /\ call'[c].status = Coerced(k.n, status)
        BY <1>l, <4>1 DEF Call, k
      <4>3. call'[c].status = "needs_revision" => call'[c].n < Cap
        BY <1>c, <1>l, <4>2 DEF Coerced, Call
      <4>4. Grading(c)
        BY <3>2 DEF Verdict, At, Grading
      <4> QED BY <2>2, <2>3, <4>2, <4>3, <4>4 DEF NeedsInv, Graded, Grading, Revivable, k
    <3> QED BY <1>5, <3>1, <3>2
  <2> QED BY <2>6, <2>7, <2>8 DEF NeedsInv
<1> QED BY <1>1, <1>2, <1>3, <1>4, <1>5 DEF Closes, Step

LEMMA NeedsOpens ==
    ASSUME TypeInv, TypeInv', NeedsInv, NEW c \in Calls, Opens(c) PROVE NeedsInv'
<1>1. CASE ChooseBegins(c)
  <2>1. PICK g \in Goals, op \in {"select", "profile"} : Begins(c, [Idle EXCEPT !.op = op, !.g = g])
    BY <1>1 DEF ChooseBegins
  <2> DEFINE k == [Idle EXCEPT !.op = op, !.g = g]
             m == [k EXCEPT !.s = Loaded]
  <2>2. m.op = op /\ m.s = Loaded
    BY DEF Idle
  <2> HIDE DEF k, m
  <2>3. Begins(c, k) /\ m = [k EXCEPT !.s = Loaded]
    BY <2>1 DEF k, m
  <2> QED BY <1>1, <2>2, <2>3, NeedsBegin DEF ChooseBegins, past
<1>2. CASE RubricBegins(c)
  <2>1. PICK force \in BOOLEAN :
          Begins(c, [Idle EXCEPT !.op = "synthesize", !.g = Loaded.plan, !.n = docs[Loaded.plan], !.force = force])
    BY <1>2 DEF RubricBegins
  <2> DEFINE k == [Idle EXCEPT !.op = "synthesize", !.g = Loaded.plan, !.n = docs[Loaded.plan], !.force = force]
             m == [k EXCEPT !.s = Loaded]
  <2>2. m.op = "synthesize" /\ m.s = Loaded
    BY DEF Idle
  <2> HIDE DEF k, m
  <2>3. Begins(c, k) /\ m = [k EXCEPT !.s = Loaded]
    BY <2>1 DEF k, m
  <2> QED BY <1>2, <2>2, <2>3, NeedsBegin DEF RubricBegins
<1>3. CASE EditBegins(c)
  <2> DEFINE k == [Idle EXCEPT !.op = "edit", !.g = Loaded.plan]
             m == [k EXCEPT !.s = Loaded]
  <2>2. m.op = "edit" /\ m.s = Loaded
    BY DEF Idle
  <2>3. Begins(c, k) /\ m = [k EXCEPT !.s = Loaded]
    BY <1>3 DEF EditBegins
  <2> HIDE DEF k, m
  <2> QED BY <1>3, <2>2, <2>3, NeedsBegin DEF EditBegins
<1>4. CASE RemediateBegins(c)
  <2> DEFINE k == [Idle EXCEPT !.op = "remediate"]
             m == [k EXCEPT !.s = Loaded]
  <2>2. m.op = "remediate" /\ m.s = Loaded
    BY DEF Idle
  <2>3. Begins(c, k) /\ m = [k EXCEPT !.s = Loaded]
    BY <1>4 DEF RemediateBegins
  <2> HIDE DEF k, m
  <2> QED BY <1>4, <2>2, <2>3, NeedsBegin DEF RemediateBegins, past
<1>5. ASSUME NEW force \in BOOLEAN, GradeBegins(c, force) PROVE NeedsInv'
  <2> DEFINE k == [Idle EXCEPT !.op = "grade", !.g = Loaded.rubric, !.n = Iteration(Loaded), !.force = force]
             m == [k EXCEPT !.s = Loaded]
  <2>2. m.op = "grade" /\ m.s = Loaded /\ m.n = Len(Loaded.history) + 1
    BY DEF Idle, Iteration
  <2>3. Begins(c, k) /\ m = [k EXCEPT !.s = Loaded]
    BY <1>5 DEF GradeBegins
  <2> HIDE DEF k, m
  <2>4. Revivable(Loaded)
    BY <1>5, LoadedFields DEF GradeBegins, Gradable, Revivable
  <2> QED BY <1>5, <2>2, <2>3, <2>4, NeedsBegin DEF GradeBegins, past
<1> QED BY <1>1, <1>2, <1>3, <1>4, <1>5 DEF Opens

\* What saves at once takes the history up as it is, unless it lets the goal go.
LEMMA NeedsOneShot ==
    ASSUME TypeInv, TypeInv', NeedsInv, OneShot PROVE NeedsInv'
<1>l. Loaded \in State /\ st \in State
  BY LoadedGood DEF TypeInv, Good
<1>1. call' = call /\ needs' = needs /\ overlaps' >= overlaps
  <2>1. overlaps \in Nat
    BY DEF TypeInv, TypeOK
  <2> QED BY <2>1 DEF OneShot, PlanFile, PlanContent, PlanPrompt, PlanDeep, ApprovePlan, RejectPlan, RubricReused,
                      RubricValidated, SkipRubric, Registers, AtOnce, past
<1>2. CASE PlanFile \/ PlanContent \/ PlanPrompt \/ PlanDeep \/ ApprovePlan \/ RubricReused \/ RubricValidated
  <2>1. st.phase # "idle" /\ Loaded = st
    BY <1>2, LoadedFields DEF PlanFile, PlanContent, PlanPrompt, PlanDeep, ApprovePlan, PlanApproval,
                              RubricReused, RubricValidated
  <2>2. PICK p \in Phases, g \in Slug : st' \in {[st EXCEPT !.plan = g, !.phase = p], [st EXCEPT !.phase = p], [st EXCEPT !.rubric = g]}
    BY <1>2, <1>l, <2>1 DEF PlanFile, PlanContent, PlanPrompt, PlanDeep, ApprovePlan, RubricReused, RubricValidated,
                      Registers, AtOnce, Phases, State
  <2>3. st'.history = st.history
    BY <1>l, <2>2 DEF State
  <2> QED BY <1>1, <2>1, <2>3, NeedsAtOnce DEF Revivable
<1>3. CASE RejectPlan
  <2>1. st' = [Loaded EXCEPT !.plan = None, !.phase = "idle"]
    BY <1>3 DEF RejectPlan, AtOnce
  <2>2. st'.phase = "idle"
    BY <1>l, <2>1 DEF State
  <2> QED BY <1>1, <2>2, NeedsAtOnce DEF Revivable
<1>4. CASE SkipRubric
  <2>1. st' = [Loaded EXCEPT !.skipped = TRUE]
    BY <1>4 DEF SkipRubric, AtOnce
  <2>2. st'.phase = Loaded.phase /\ st'.history = Loaded.history
    BY <1>l, <2>1 DEF State
  <2> QED BY <1>1, <2>2, LoadedFields, NeedsAtOnce DEF Revivable
<1> QED BY <1>2, <1>3, <1>4 DEF OneShot

LEMMA NeedsCrash ==
    ASSUME TypeInv, TypeInv', NeedsInv, Crash PROVE NeedsInv'
<1>1. /\ st' = st /\ needs' = needs /\ overlaps' = overlaps
      /\ \A c \in Calls : call'[c] = Idle /\ call'[c].op = "none"
  BY DEF Crash, Loses, past, Idle
<1>2. InFlight' = {} /\ Graders' = {}
  BY <1>1 DEF InFlight, Graders, Grading
<1>3. Cardinality(InFlight)' = 0 /\ Cardinality(Graders)' = 0
  BY <1>2, FS_EmptySet
<1>4. overlaps \in Nat /\ needs \in Nat /\ Len(st.history) \in Nat
  BY Lengths
<1>5. RoundsBounded' /\ Cardinality(InFlight)' <= overlaps' + 1
  BY <1>1, <1>3, <1>4 DEF NeedsInv, RoundsBounded
<1>6. ASSUME Revivable(st)
      PROVE  /\ needs' <= Len(st.history) + overlaps'
             /\ needs' + Cardinality(Graders)' <= Len(st.history) + overlaps' + 1
  <2>1. needs <= Len(st.history) + overlaps
    BY <1>6 DEF NeedsInv, MatchedState
  <2> QED BY <1>1, <1>3, <1>4, <2>1
<1>7. MatchedState'
  BY <1>1, <1>6 DEF MatchedState, Revivable
<1>8. Graded'
  BY <1>1 DEF Graded, Grading
<1> QED BY <1>2, <1>5, <1>7, <1>8 DEF NeedsInv

\* The coordinator is sent round again fewer times than the cap, whatever is
\* forced, fails or dies, but for one round more for each call that began beside
\* another.
THEOREM RoundsAreBounded == Spec => []RoundsBounded
<1>1. Init => NeedsInv
  <2> SUFFICES ASSUME Init PROVE NeedsInv
    OBVIOUS
  <2>i. Idle.op = "none"
    BY DEF Idle
  <2>1. InFlight = {} /\ Graders = {} /\ \A c \in Calls : ~Grading(c)
    BY <2>i DEF Init, InFlight, Graders, Grading
  <2>2. Cardinality(InFlight) = 0 /\ Cardinality(Graders) = 0
    BY <2>1, FS_EmptySet
  <2>3. ~Revivable(st) /\ needs = 0 /\ overlaps = 0 /\ RoundsBounded
    BY CycleAssumption DEF Init, Fresh, Revivable, RoundsBounded
  <2> QED BY <2>1, <2>2, <2>3 DEF NeedsInv, Graded, MatchedState
<1>2. TypeInv /\ TypeInv' /\ NeedsInv /\ [Next]_vars => NeedsInv'
  <2> SUFFICES ASSUME TypeInv, TypeInv', NeedsInv, [Next]_vars PROVE NeedsInv'
    OBVIOUS
  <2>1. CASE UNCHANGED vars \/ WritePlan
    <3>1. call' = call /\ st' = st /\ needs' = needs /\ overlaps' = overlaps /\ overlaps \in Nat
      BY <2>1 DEF WritePlan, vars, past, spent, TypeInv, TypeOK
    <3> QED BY <3>1, NeedsAtOnce DEF Revivable
  <2> QED BY <2>1, NextCases, NeedsOpens, NeedsCloses, NeedsOneShot, NeedsCrash
<1>3. NeedsInv => RoundsBounded
  BY DEF NeedsInv
<1> QED BY <1>1, <1>2, <1>3, InitTyped, NextTyped, PTL DEF Spec
=============================================================================
