-------------------------- MODULE BatchReviewProofs --------------------------
(***************************************************************************)
(* Theorems about BatchReview, for every number of commits, findings and   *)
(* calls and every amount of trouble.                                      *)
(***************************************************************************)
EXTENDS BatchReview, FiniteSets, FiniteSetTheorems, TLAPS

Active(c) == call[c] # Idle
AtRange(c) == call[c].at \in {"read", "file", "dispatch"}

\* A call is at a range, or of one operation, only at certain places, and only
\* an active call is at one.
Placed(k) == /\ k.at \in {"read", "file", "dispatch"} => k.r \in Ranges
             /\ k.at \in {"next", "due"} => k.op = "advance"
             /\ k.at = "dispatch" => k.op = "review"
CallsAreAt == \A c \in Calls : /\ Placed(call[c])
                               /\ call[c].at = "none" <=> call[c].op = "none"
                               /\ call[c].op = "none" => call[c] = Idle

TypeInv == TypeOK /\ CallsAreAt

LEMMA StartTyped == Start \in State /\ Idle \in Call /\ NoRange \notin Ranges
<1>1. 0 \in Commits
  BY BatchAssumption DEF Commits
<1>2. Start \in State
  BY <1>1 DEF Start, State
<1> QED BY <1>2 DEF Idle, Call, NoRange, Ranges

\* A call that goes on to another place stays a call.
LEMMA CallMoves ==
    ASSUME TypeInv, NEW c \in Calls, NEW k \in Call, call' = [call EXCEPT ![c] = k],
           k.op # "none", k.at # "none", Placed(k)
    PROVE  call' \in [Calls -> Call] /\ CallsAreAt'
<1>1. call \in [Calls -> Call]
  BY DEF TypeInv, TypeOK
<1>2. \A d \in Calls : call'[d] = IF d = c THEN k ELSE call[d]
  BY <1>1
<1> QED BY <1>1, <1>2 DEF TypeInv, CallsAreAt

LEMMA CallEnds ==
    ASSUME TypeInv, NEW c \in Calls, Finish(c)
    PROVE  call' \in [Calls -> Call] /\ CallsAreAt'
BY StartTyped DEF TypeInv, TypeOK, Finish, CallsAreAt, Placed, Idle

\* One more bead for one finding.
LEMMA OneMoreBead ==
    ASSUME NEW S, NEW T, NEW f \in [S -> [T -> Nat]], NEW r, NEW i
    PROVE  [f EXCEPT ![r][i] = @ + 1] \in [S -> [T -> Nat]]
<1> DEFINE g == [f EXCEPT ![r][i] = @ + 1]
<1>1. \A x \in S : g[x] = IF x = r THEN [f[x] EXCEPT ![i] = @ + 1] ELSE f[x]
  OBVIOUS
<1>2. ASSUME NEW x \in S PROVE [f[x] EXCEPT ![i] = @ + 1] \in [T -> Nat]
  <2>1. f[x] \in [T -> Nat]
    OBVIOUS
  <2>2. \A j \in T : f[x][j] \in Nat /\ [f[x] EXCEPT ![i] = @ + 1][j] \in Nat
    BY <2>1
  <2> QED BY <2>1, <2>2
<1>3. \A x \in S : g[x] \in [T -> Nat]
  BY <1>1, <1>2
<1> QED BY <1>3

\* A verdict has a number of findings.
LEMMA FoundTyped ==
    ASSUME NEW f \in [Ranges -> [kind : Verdicts, n : Counts \cup {0}]], NEW r \in Ranges
    PROVE  f[r].n \in Nat
<1>1. f[r] \in [kind : Verdicts, n : Counts \cup {0}]
  OBVIOUS
<1>2. PICK v \in Verdicts, n \in Counts \cup {0} : f[r] = [kind |-> v, n |-> n]
  BY <1>1
<1>3. n \in Nat
  BY BatchAssumption
<1> QED BY <1>2, <1>3

LEMMA ActiveOp ==
    ASSUME TypeInv, NEW c \in Calls, call[c].at # "none"
    PROVE  call[c].op \in {"review", "advance"} /\ call[c] \in Call /\ call[c].s \in State
BY DEF TypeInv, TypeOK, CallsAreAt, Call

LEMMA CopiesTyped ==
    ASSUME NEW s \in State, NEW r \in Ranges
    PROVE  Recorded(s, r) \in State /\ Settled(s, r) \in State
<1>1. r[2] \in Commits
  BY DEF Ranges
<1> QED BY <1>1 DEF Recorded, Settled, State

LEMMA FiledTyped ==
    ASSUME NEW s \in State, NEW r \in Ranges
    PROVE  [s EXCEPT !.filed[r] = @ + 1] \in State
<1>1. s.filed \in [Ranges -> Nat]
  BY DEF State
<1>2. [s.filed EXCEPT ![r] = @ + 1] \in [Ranges -> Nat]
  BY <1>1
<1>3. [s EXCEPT !.filed[r] = @ + 1] = [s EXCEPT !.filed = [s.filed EXCEPT ![r] = @ + 1]]
  OBVIOUS
<1> QED BY <1>2, <1>3 DEF State

\* What is thrown while a range is read or filed leaves typed calls and states.
LEMMA ThrownTyped ==
    ASSUME TypeInv, NEW c \in Calls, Thrown(c), call[c].at # "none"
    PROVE  call' \in [Calls -> Call] /\ CallsAreAt' /\ st' \in State
<1> DEFINE k == [call[c] EXCEPT !.at = "next", !.n = 0, !.re = FALSE]
<1>1. CASE call[c].op = "advance" /\ ReadAgain(c) /\ UNCHANGED st
  <2>1. k \in Call /\ k.op # "none" /\ k.at = "next" /\ k.op = "advance"
    BY <1>1, ActiveOp DEF Call
  <2>2. call' = [call EXCEPT ![c] = k]
    BY <1>1 DEF ReadAgain, TypeInv, TypeOK
  <2> QED BY <1>1, <2>1, <2>2, CallMoves DEF TypeInv, TypeOK, Placed
<1> QED BY <1>1, CallEnds, ActiveOp DEF Thrown

\* One step of a call keeps the types.
LEMMA StepTyped ==
    ASSUME TypeInv, NEW c \in Calls, Step(c) \/ Fails(c)
    PROVE  TypeInv'
<1> USE DEF TypeInv, TypeOK, world
<1>0. call[c].at # "none"
  BY DEF Step, Fails, NextRange, NoVerdict, ReadVerdict, FileFinding, Settle, Dispatch, Due,
         ReadFails, CreateFails, CreateUnanswered, Unfiled, At
<1>a. call[c].op \in {"review", "advance"} /\ call[c] \in Call /\ call[c].s \in State
  BY <1>0, ActiveOp
<1>r. AtRange(c) => call[c].r \in Ranges
  BY DEF CallsAreAt, Placed, AtRange
<1>p. Placed(call[c])
  BY DEF CallsAreAt
<1>1. CASE NextRange(c)
  <2>1. st' \in State
    BY <1>1, <1>a DEF NextRange
  <2>2. ASSUME NEW r \in call[c].todo, call' = [call EXCEPT ![c].at = "read", ![c].r = r, ![c].todo = @ \ {r}]
        PROVE  TypeInv'
    <3> DEFINE k == [call[c] EXCEPT !.at = "read", !.r = r, !.todo = @ \ {r}]
    <3>1. k \in Call /\ k.op # "none" /\ k.at = "read" /\ k.r \in Ranges
      BY <1>a DEF Call
    <3>2. call' = [call EXCEPT ![c] = k]
      BY <2>2
    <3> QED BY <1>1, <2>1, <3>1, <3>2, CallMoves DEF Placed, NextRange, NoTrouble
  <2>3. ASSUME call' = [call EXCEPT ![c].at = "due", ![c].r = NoRange] PROVE TypeInv'
    <3> DEFINE k == [call[c] EXCEPT !.at = "due", !.r = NoRange]
    <3>1. k \in Call /\ k.op = "advance" /\ k.at = "due"
      BY <1>1, <1>a, <1>p DEF Call, Placed, NextRange, At
    <3>2. call' = [call EXCEPT ![c] = k]
      BY <2>3
    <3> QED BY <1>1, <2>1, <3>1, <3>2, CallMoves DEF Placed, NextRange, NoTrouble
  <2> QED BY <1>1, <2>2, <2>3 DEF NextRange
<1>2. CASE NoVerdict(c)
  <2> DEFINE k == [call[c] EXCEPT !.at = "dispatch"]
  <2>1. CASE call[c].op = "review" /\ call' = [call EXCEPT ![c].at = "dispatch"]
    <3>1. k \in Call /\ k.op # "none" /\ k.at = "dispatch" /\ k.r \in Ranges
      BY <1>a, <1>r, <1>2 DEF Call, NoVerdict, At, AtRange
    <3>3. k.op = "review"
      BY <1>a, <1>2, <2>1 DEF NoVerdict, Call, ReadAgain
    <3>2. call' = [call EXCEPT ![c] = k]
      BY <2>1
    <3> QED BY <1>2, <3>1, <3>2, <3>3, CallMoves DEF Placed, NoVerdict, NoTrouble
  <2>2. CASE call[c].op = "advance" /\ ReadAgain(c)
    BY <1>0, <1>2, <2>2, ThrownTyped DEF NoVerdict, NoTrouble, Thrown
  <2> QED BY <1>2, <2>1, <2>2 DEF NoVerdict
<1>3. CASE ReadVerdict(c)
  <2> DEFINE f == file[call[c].r]
             k == [call[c] EXCEPT !.at = "file", !.n = IF f.kind = "ready" THEN f.n ELSE 1,
                                  !.re = f.kind # "ready"]
  <2>1. call[c].r \in Ranges
    BY <1>3, <1>r DEF ReadVerdict, AtRange, At
  <2>2. f.n \in Nat
    BY <2>1, FoundTyped
  <2>3. k \in Call /\ k.op # "none" /\ k.at = "file" /\ k.r \in Ranges
    BY <1>a, <2>1, <2>2 DEF Call
  <2>4. call' = [call EXCEPT ![c] = k]
    BY <1>3 DEF ReadVerdict
  <2> HIDE DEF k
  <2> QED BY <1>3, <2>3, <2>4, CallMoves DEF Placed, ReadVerdict, NoTrouble
<1>4. CASE FileFinding(c)
  <2> DEFINE r == call[c].r
             q == [call[c].s EXCEPT !.filed[r] = @ + 1]
             k == [call[c] EXCEPT !.s = q]
  <2>1. r \in Ranges /\ call[c].at = "file"
    BY <1>4, <1>r DEF FileFinding, Unfiled, AtRange, At
  <2>2. q \in State
    BY <1>a, <2>1, FiledTyped
  <2>3. k \in Call /\ k.op # "none" /\ k.at = "file" /\ k.r \in Ranges
    BY <1>a, <2>1, <2>2 DEF Call
  <2>4. call' = [call EXCEPT ![c] = k]
    BY <1>4 DEF FileFinding
  <2>5. beads' \in [Ranges -> [Findings -> Nat]]
    BY <1>4, OneMoreBead DEF FileFinding, BrCreate
  <2> QED BY <1>4, <2>3, <2>4, <2>5, CallMoves DEF Placed, FileFinding, NoTrouble
<1>5. CASE Settle(c)
  <2> DEFINE s == Settled(call[c].s, call[c].r)
             k == [call[c] EXCEPT !.at = "next", !.n = 0, !.re = FALSE, !.s = s]
  <2>1. call[c].r \in Ranges
    BY <1>5, <1>r DEF Settle, AtRange, At
  <2>2. s \in State
    BY <1>a, <2>1, CopiesTyped
  <2>3. applied' \in [Ranges -> {"no", "unread", "read"}]
    BY <1>5 DEF Settle
  <2>4. CASE st' = s /\ Finish(c)
    BY <1>5, <2>2, <2>3, <2>4, CallEnds DEF Settle, NoTrouble
  <2>5. ASSUME call[c].op = "advance",
               call' = [call EXCEPT ![c].at = "next", ![c].n = 0, ![c].re = FALSE, ![c].s = s],
               UNCHANGED st
        PROVE  TypeInv'
    <3>1. k \in Call /\ k.op = "advance" /\ k.at = "next"
      BY <1>a, <2>2, <2>5 DEF Call
    <3>2. call' = [call EXCEPT ![c] = k]
      BY <2>5
    <3> QED BY <1>5, <2>3, <2>5, <3>1, <3>2, CallMoves DEF Placed, Settle, NoTrouble
  <2> QED BY <1>5, <2>4, <2>5 DEF Settle
<1>6. CASE Dispatch(c)
  <2>1. call[c].r \in Ranges
    BY <1>6, <1>r DEF Dispatch, AtRange, At
  <2>2. st' \in State
    BY <1>6, <1>a, <2>1, CopiesTyped DEF Dispatch
  <2>3. sent' \in [Ranges -> 0..2]
    BY <1>6, <2>1 DEF Dispatch
  <2> QED BY <1>6, <2>2, <2>3, CallEnds DEF Dispatch, NoTrouble
<1>7. CASE Due(c)
  <2>1. due' \in Ranges \cup {NoRange}
    BY <1>a, <1>7, BatchAssumption DEF Due, Ranges, Commits, State
  <2> QED BY <1>7, <2>1, CallEnds DEF Due, NoTrouble
<1>8. CASE ReadFails(c)
  BY <1>0, <1>8, ThrownTyped DEF ReadFails
<1>9. CASE CreateFails(c)
  BY <1>0, <1>9, ThrownTyped DEF CreateFails, NoTrouble
<1>10. CASE CreateUnanswered(c)
  <2>1. beads' \in [Ranges -> [Findings -> Nat]]
    BY <1>10, OneMoreBead DEF CreateUnanswered, BrCreate
  <2> QED BY <1>0, <1>10, <2>1, ThrownTyped DEF CreateUnanswered, Loses
<1> QED BY <1>1, <1>2, <1>3, <1>4, <1>5, <1>6, <1>7, <1>8, <1>9, <1>10 DEF Step, Fails

\* A call that begins is typed.
LEMMA BeginTyped ==
    ASSUME TypeInv, NEW c \in Calls, ReviewBegins(c) \/ AdvanceBegins(c)
    PROVE  TypeInv'
<1> USE StartTyped DEF TypeInv, TypeOK, world
<1>1. PICK op \in {"review", "advance"}, at \in {"read", "next"}, r \in Ranges \cup {NoRange},
           todo \in SUBSET Ranges :
        /\ Begins(c, op, at, r, todo)
        /\ (at = "read" => r \in Ranges) /\ (at = "next" => op = "advance")
  <2>1. CASE ReviewBegins(c)
    BY <2>1 DEF ReviewBegins
  <2>2. CASE AdvanceBegins(c)
    BY <2>2 DEF AdvanceBegins, State
  <2> QED BY <2>1, <2>2
<1>2. call'[c] \in Call
  BY <1>1 DEF Begins, Call, Idle
<1>3. CallsAreAt'
  BY <1>1 DEF Begins, CallsAreAt, Placed, AtRange, Idle
<1>4. due' \in Ranges \cup {NoRange}
  BY DEF ReviewBegins, AdvanceBegins
<1> QED BY <1>1, <1>2, <1>3, <1>4 DEF Begins, NoTrouble

\* Every variable keeps its type, and a call is at a range when it reads, files
\* or dispatches.
LEMMA TypeInvariant == Spec => []TypeInv
<1>1. Init => TypeInv
  <2> SUFFICES ASSUME Init PROVE TypeInv
    OBVIOUS
  <2>1. TypeOK
    BY StartTyped, BatchAssumption DEF Init, TypeOK, Commits, Verdicts
  <2>2. CallsAreAt
    BY DEF Init, CallsAreAt, Placed, AtRange, Idle
  <2> QED BY <2>1, <2>2 DEF TypeInv
<1>2. TypeInv /\ [Next]_vars => TypeInv'
  <2> SUFFICES ASSUME TypeInv, [Next]_vars PROVE TypeInv'
    OBVIOUS
  <2> USE DEF TypeInv, TypeOK, world
  <2>1. CASE Commit
    BY <2>1, BatchAssumption DEF Commit, Commits, CallsAreAt, Placed, AtRange
  <2>2. CASE Crash
    BY <2>2, StartTyped DEF Crash, Loses, CallsAreAt, Placed, AtRange, Idle
  <2>3. ASSUME NEW r \in Ranges, ReviewerWrites(r) \/ ReviewerRewrites(r) PROVE TypeInv'
    <3>0. file'[r] \in [kind : Verdicts, n : Counts \cup {0}]
      BY <2>3 DEF ReviewerWrites, ReviewerRewrites, Verdicts
    <3>1. file' \in [Ranges -> [kind : Verdicts, n : Counts \cup {0}]]
      BY <2>3, <3>0 DEF ReviewerWrites, ReviewerRewrites
    <3> QED BY <2>3, <3>1 DEF ReviewerWrites, ReviewerRewrites, CallsAreAt, Placed, AtRange
  <2>4. ASSUME NEW c \in Calls, ReviewBegins(c) \/ AdvanceBegins(c) PROVE TypeInv'
    BY <2>4, BeginTyped
  <2>5. ASSUME NEW c \in Calls, Step(c) \/ Fails(c) PROVE TypeInv'
    BY <2>5, StepTyped
  <2>6. CASE UNCHANGED vars
    BY <2>6 DEF vars, CallsAreAt, Placed, AtRange
  <2> QED BY <2>1, <2>2, <2>3, <2>4, <2>5, <2>6 DEF Next
<1> QED BY <1>1, <1>2, PTL DEF Spec

\* Type correctness, for every number of commits and of calls.
THEOREM TypeCorrect == Spec => []TypeOK
<1>1. TypeInv => TypeOK
  BY DEF TypeInv
<1> QED BY <1>1, TypeInvariant, PTL

(***************************************************************************)
(* Every finding is filed.  The ids recorded in a copy of the checkpoint   *)
(* are those of beads: of the findings up to their number, unless one is   *)
(* that of a re-review.                                                    *)
(***************************************************************************)
MadeIn(b, s) ==
    \A r \in Ranges : b[r][0] = 0 => \A i \in Findings \ {0} : i <= s.filed[r] => b[r][i] > 0

Filing(c) ==
    LET r == call[c].r IN
    /\ sent[r] > 0
    /\ ~call[c].re /\ sent[r] = 1 => file[r].kind = "ready" /\ call[c].n = file[r].n

ReadInFull(r) ==
    applied[r] = "read" /\ sent[r] = 1 /\ beads[r][0] = 0
        => file[r].kind = "ready" /\ \A i \in 1..file[r].n : beads[r][i] > 0

FiledInv ==
    /\ MadeIn(beads, st) /\ \A c \in Calls : MadeIn(beads, call[c].s)
    /\ \A c \in Calls : At(c, "file") => Filing(c)
    /\ \A r \in Ranges : /\ file[r].kind # "none" => sent[r] > 0
                         /\ applied[r] # "no" => sent[r] > 0
                         /\ ReadInFull(r)

Grown == \A r \in Ranges : \A i \in Findings : beads'[r][i] >= beads[r][i]

LEMMA FindingsAre ==
    /\ Findings \subseteq Nat /\ 0 \in Findings
    /\ \A n \in Counts \cup {0} : 1..n \subseteq Findings
BY BatchAssumption DEF Findings

LEMMA BeadsNat ==
    ASSUME NEW b \in [Ranges -> [Findings -> Nat]], NEW r \in Ranges, NEW i \in Findings
    PROVE  b[r][i] \in Nat
<1>1. b[r] \in [Findings -> Nat]
  OBVIOUS
<1> QED BY <1>1

LEMMA BeadsTyped ==
    ASSUME TypeInv, TypeInv'
    PROVE  \A r \in Ranges : \A i \in Findings : beads[r][i] \in Nat /\ beads'[r][i] \in Nat
BY BeadsNat DEF TypeInv, TypeOK

LEMMA MadeStays ==
    ASSUME TypeInv, TypeInv', Grown, NEW s, MadeIn(beads, s)
    PROVE  MadeIn(beads', s)
<1> SUFFICES ASSUME NEW r \in Ranges, beads'[r][0] = 0, NEW i \in Findings \ {0}, i <= s.filed[r]
             PROVE  beads'[r][i] > 0
  BY DEF MadeIn
<1>1. beads[r][0] \in Nat /\ beads'[r][0] \in Nat /\ beads[r][i] \in Nat /\ beads'[r][i] \in Nat
  BY FindingsAre, BeadsTyped
<1>2. beads'[r][0] >= beads[r][0] /\ beads'[r][i] >= beads[r][i]
  BY FindingsAre DEF Grown
<1>3. beads[r][0] = 0
  BY <1>1, <1>2
<1> QED BY <1>1, <1>2, <1>3 DEF MadeIn

\* br create adds a bead for the item of the call.
LEMMA CreatedBead ==
    ASSUME TypeInv, NEW c \in Calls, BrCreate(c)
    PROVE  /\ Grown
           /\ \A r \in Ranges : \A i \in Findings :
                 beads'[r][i] = IF r = call[c].r /\ i = Item(c) THEN beads[r][i] + 1 ELSE beads[r][i]
<1>1. beads \in [Ranges -> [Findings -> Nat]]
  BY DEF TypeInv, TypeOK
<1> SUFFICES ASSUME NEW r \in Ranges, NEW i \in Findings
             PROVE  /\ beads'[r][i] = IF r = call[c].r /\ i = Item(c) THEN beads[r][i] + 1 ELSE beads[r][i]
                    /\ beads'[r][i] >= beads[r][i]
  BY DEF Grown
<1>2. beads[r] \in [Findings -> Nat] /\ beads[r][i] \in Nat
  BY <1>1
<1>3. beads'[r] = IF r = call[c].r THEN [beads[r] EXCEPT ![Item(c)] = @ + 1] ELSE beads[r]
  BY <1>1 DEF BrCreate
<1> QED BY <1>2, <1>3

\* What was read in full stays so while beads only grow and files do not change.
LEMMA ReadStays ==
    ASSUME TypeInv, TypeInv', Grown, UNCHANGED <<file, sent>>, NEW r \in Ranges, ReadInFull(r),
           applied'[r] = applied[r]
    PROVE  ReadInFull(r)'
<1> SUFFICES ASSUME applied'[r] = "read", sent'[r] = 1, beads'[r][0] = 0
             PROVE  file'[r].kind = "ready" /\ \A i \in 1..file'[r].n : beads'[r][i] > 0
  BY DEF ReadInFull
<1>1. beads[r][0] \in Nat /\ beads'[r][0] \in Nat /\ beads'[r][0] >= beads[r][0]
  BY FindingsAre, BeadsTyped DEF Grown
<1>2. beads[r][0] = 0
  BY <1>1
<1>3. file[r].n \in Counts \cup {0}
  BY DEF TypeInv, TypeOK
<1>4. \A i \in 1..file[r].n : i \in Findings /\ beads[r][i] \in Nat /\ beads'[r][i] \in Nat
  <2>1. 1..file[r].n \subseteq Findings
    BY <1>3, FindingsAre
  <2>2. \A i \in Findings : beads[r][i] \in Nat /\ beads'[r][i] \in Nat
    BY BeadsTyped
  <2> QED BY <2>1, <2>2
<1>5. file[r].kind = "ready" /\ \A i \in 1..file[r].n : beads[r][i] > 0
  BY <1>2 DEF ReadInFull
<1>6. \A i \in 1..file[r].n : beads'[r][i] >= beads[r][i]
  BY <1>4 DEF Grown
<1> QED BY <1>4, <1>5, <1>6

\* What a call throws leaves copies that were there before.
LEMMA ThrownCopies ==
    ASSUME TypeInv, NEW c \in Calls, Thrown(c)
    PROVE  /\ st' = st \/ st' = call[c].s
           /\ \A d \in Calls : call'[d].s = call[d].s \/ call'[d].s = Start
           /\ \A d \in Calls : At(d, "file")' => d # c /\ call'[d] = call[d]
<1>1. call \in [Calls -> Call]
  BY DEF TypeInv, TypeOK
<1>2. CASE Finish(c)
  BY <1>1, <1>2 DEF Thrown, Finish, Idle, At, ReadAgain
<1>3. CASE ReadAgain(c)
  <2>1. \A d \in Calls : call'[d] = IF d = c THEN [call[c] EXCEPT !.at = "next", !.n = 0, !.re = FALSE] ELSE call[d]
    BY <1>1, <1>3 DEF ReadAgain
  <2> DEFINE k == [call[c] EXCEPT !.at = "next", !.n = 0, !.re = FALSE]
  <2>2. call[c] \in Call
    BY <1>1
  <2>3. k.at = "next" /\ k.s = call[c].s
    BY <2>2 DEF Call
  <2> HIDE DEF k
  <2> QED BY <2>1, <2>3 DEF Thrown, At, k
<1> QED BY <1>2, <1>3 DEF Thrown

LEMMA StartMade == ASSUME NEW b PROVE MadeIn(b, Start)
<1> SUFFICES ASSUME NEW r \in Ranges, NEW i \in Findings \ {0}, i <= 0 PROVE FALSE
  BY DEF MadeIn, Start
<1> QED BY FindingsAre

\* Steps after which every copy is one that was there and no call starts to file.
LEMMA FiledByCopies ==
    ASSUME TypeInv, TypeInv', FiledInv, Grown, UNCHANGED <<file, sent, applied>>,
           st' = st \/ \E c \in Calls : st' = call[c].s,
           \A c \in Calls : call'[c].s \in {call[c].s, Start, st},
           \A c \in Calls : At(c, "file")' => call'[c] = call[c]
    PROVE  FiledInv'
<1>1. MadeIn(beads', st') /\ \A c \in Calls : MadeIn(beads', call'[c].s)
  BY MadeStays, StartMade DEF FiledInv
<1>2. \A c \in Calls : At(c, "file")' => Filing(c)'
  BY DEF FiledInv, Filing, At
<1>3. \A r \in Ranges : ReadInFull(r)'
  BY ReadStays DEF FiledInv
<1> QED BY <1>1, <1>2, <1>3 DEF FiledInv

LEMMA NoneMade == ASSUME TypeInv, UNCHANGED beads PROVE Grown
<1>1. \A r \in Ranges : \A i \in Findings : beads[r][i] \in Nat
  BY BeadsNat DEF TypeInv, TypeOK
<1> QED BY <1>1 DEF Grown

\* A call that begins has a copy of the checkpoint.
LEMMA BeginCopies ==
    ASSUME TypeInv, NEW c \in Calls, NEW op, NEW at, NEW r, NEW todo, Begins(c, op, at, r, todo)
    PROVE  /\ call'[c].s = st /\ call'[c].at = at /\ call'[c].r = r /\ call'[c].op = op
           /\ \A d \in Calls \ {c} : call'[d] = call[d]
<1> DEFINE k == [Idle EXCEPT !.op = op, !.at = at, !.r = r, !.todo = todo, !.s = st]
<1>1. call' = [call EXCEPT ![c] = k] /\ call \in [Calls -> Call]
  BY DEF Begins, TypeInv, TypeOK
<1>2. k.s = st /\ k.at = at /\ k.r = r /\ k.op = op
  BY DEF Idle
<1> HIDE DEF k
<1> QED BY <1>1, <1>2

LEMMA NextRangeCopies ==
    ASSUME TypeInv, NEW c \in Calls, NextRange(c)
    PROVE  /\ call'[c].s = call[c].s /\ call'[c].at \in {"read", "due"} /\ call'[c].op = call[c].op
           /\ \A d \in Calls \ {c} : call'[d] = call[d]
<1>1. call \in [Calls -> Call] /\ call[c] \in Call
  BY DEF TypeInv, TypeOK
<1>2. ASSUME NEW r \in call[c].todo,
             call' = [call EXCEPT ![c].at = "read", ![c].r = r, ![c].todo = @ \ {r}]
      PROVE  /\ call'[c].s = call[c].s /\ call'[c].at = "read" /\ call'[c].op = call[c].op
             /\ \A d \in Calls \ {c} : call'[d] = call[d]
  BY <1>1, <1>2 DEF Call
<1>3. ASSUME call' = [call EXCEPT ![c].at = "due", ![c].r = NoRange]
      PROVE  /\ call'[c].s = call[c].s /\ call'[c].at = "due" /\ call'[c].op = call[c].op
             /\ \A d \in Calls \ {c} : call'[d] = call[d]
  BY <1>1, <1>3 DEF Call
<1> QED BY <1>2, <1>3 DEF NextRange

LEMMA FiledStep ==
    ASSUME TypeInv, TypeInv', FiledInv, NEW c \in Calls, Step(c) \/ Fails(c)
    PROVE  FiledInv'
<1> USE DEF world
<1>0. call \in [Calls -> Call] /\ call[c] \in Call /\ (AtRange(c) => call[c].r \in Ranges)
  BY DEF TypeInv, TypeOK, CallsAreAt, Placed, AtRange
<1>1. CASE NextRange(c)
  <2>1. Grown
    BY <1>1, NoneMade DEF NextRange
  <2>2. st' = st \/ st' = call[c].s
    BY <1>1 DEF NextRange
  <2>3. call'[c].s = call[c].s /\ call'[c].at # "file" /\ \A d \in Calls \ {c} : call'[d] = call[d]
    BY <1>1, NextRangeCopies
  <2> QED BY <1>1, <2>1, <2>2, <2>3, FiledByCopies DEF NextRange, At
<1>2. CASE NoVerdict(c)
  <2>1. Grown
    BY <1>2, NoneMade DEF NoVerdict
  <2>2. call'[c].s = call[c].s /\ call'[c].at # "file" /\ \A d \in Calls \ {c} : call'[d] = call[d]
    BY <1>0, <1>2 DEF NoVerdict, ReadAgain, Call
  <2> QED BY <1>2, <2>1, <2>2, FiledByCopies DEF NoVerdict, At
<1>3. CASE ReadVerdict(c)
  <2>1. Grown
    BY <1>3, NoneMade DEF ReadVerdict
  <2>r. call[c].r \in Ranges
    BY <1>0, <1>3 DEF ReadVerdict, At, AtRange
  <2> DEFINE f == file[call[c].r]
             k == [call[c] EXCEPT !.at = "file", !.n = IF f.kind = "ready" THEN f.n ELSE 1,
                                  !.re = f.kind # "ready"]
  <2>2. \A d \in Calls : call'[d] = IF d = c THEN k ELSE call[d]
    BY <1>0, <1>3 DEF ReadVerdict
  <2>3. /\ k.s = call[c].s /\ k.r = call[c].r /\ k.re = (f.kind # "ready")
        /\ k.n = IF f.kind = "ready" THEN f.n ELSE 1
    BY <1>0 DEF Call
  <2> HIDE DEF k
  <2>4. MadeIn(beads', st') /\ \A d \in Calls : MadeIn(beads', call'[d].s)
    BY <1>3, <2>2, <2>3 DEF FiledInv, ReadVerdict
  <2>5. ASSUME NEW d \in Calls, At(d, "file")' PROVE Filing(d)'
    <3>1. CASE d = c
      <4>1. sent[call[c].r] > 0
        BY <1>3, <2>r DEF FiledInv, ReadVerdict
      <4>2. call'[d] = k
        BY <2>2, <3>1
      <4> QED BY <1>3, <2>3, <4>1, <4>2 DEF ReadVerdict, Filing
    <3>2. CASE d # c
      BY <1>3, <2>2, <2>5, <3>2 DEF FiledInv, ReadVerdict, Filing, At
    <3> QED BY <3>1, <3>2
  <2>6. \A r \in Ranges : ReadInFull(r)'
    BY <1>3, <2>1, ReadStays DEF FiledInv, ReadVerdict
  <2> QED BY <1>3, <2>4, <2>5, <2>6 DEF FiledInv, ReadVerdict
<1>4. CASE FileFinding(c)
  <2> DEFINE r == call[c].r
             s == [call[c].s EXCEPT !.filed[r] = @ + 1]
  <2>r. r \in Ranges
    BY <1>0, <1>4 DEF FileFinding, Unfiled, At, AtRange
  <2>1. Grown
    BY <1>4, CreatedBead DEF FileFinding
  <2>2. \A d \in Calls : d # c => call'[d] = call[d]
    BY <1>0, <1>4 DEF FileFinding
  <2>3. call'[c] = [call[c] EXCEPT !.s = s]
    BY <1>0, <1>4 DEF FileFinding
  <2>4. /\ call'[c].s = s /\ call'[c].r = r /\ call'[c].re = call[c].re /\ call'[c].n = call[c].n
        /\ call'[c].at = call[c].at
    BY <1>0, <2>3 DEF Call
  <2>5. \A q \in Ranges : s.filed[q] = IF q = r THEN call[c].s.filed[q] + 1 ELSE call[c].s.filed[q]
    <3>1. call[c].s \in State /\ call[c].s.filed \in [Ranges -> Nat]
      BY <1>0 DEF Call, State
    <3>2. s.filed = [call[c].s.filed EXCEPT ![r] = @ + 1]
      BY <3>1 DEF State
    <3> QED BY <2>r, <3>1, <3>2
  <2>6. MadeIn(beads', s)
    <3> HIDE DEF s
    <3>1. MadeIn(beads', call[c].s)
      BY <2>1, MadeStays DEF FiledInv
    <3>2. ASSUME beads'[r][0] = 0, NEW i \in Findings \ {0}, i <= s.filed[r] PROVE beads'[r][i] > 0
      <4>1. call[c].s.filed[r] \in Nat /\ i \in Nat /\ s.filed[r] = call[c].s.filed[r] + 1
        BY <1>0, <2>r, <2>5, FindingsAre DEF Call, State
      <4>2. CASE i <= call[c].s.filed[r]
        BY <2>r, <3>1, <3>2, <4>2 DEF MadeIn
      <4>3. CASE i = call[c].s.filed[r] + 1
        <5>1. beads[r][0] \in Nat /\ beads[r][i] \in Nat
          BY <2>r, FindingsAre, BeadsTyped
        <5>2. \A j \in Findings : beads'[r][j] = IF j = Item(c) THEN beads[r][j] + 1 ELSE beads[r][j]
          BY <1>4, <2>r, CreatedBead DEF FileFinding
        <5>3. ~call[c].re
          BY <3>2, <5>1, <5>2, FindingsAre DEF Item
        <5>4. i = Item(c)
          BY <4>3, <5>3 DEF Item, Filed
        <5> QED BY <5>1, <5>2, <5>4
      <4> QED BY <3>2, <4>1, <4>2, <4>3
    <3>3. ASSUME NEW q \in Ranges, q # r, beads'[q][0] = 0, NEW i \in Findings \ {0}, i <= s.filed[q]
          PROVE  beads'[q][i] > 0
      BY <2>5, <3>1, <3>3 DEF MadeIn
    <3> QED BY <3>2, <3>3 DEF MadeIn
  <2>7. MadeIn(beads', st') /\ \A d \in Calls : MadeIn(beads', call'[d].s)
    BY <1>4, <2>1, <2>2, <2>4, <2>6, MadeStays DEF FiledInv, FileFinding
  <2>8. \A d \in Calls : At(d, "file")' => Filing(d)'
    BY <1>4, <2>2, <2>4 DEF FiledInv, FileFinding, Filing, At
  <2>9. \A q \in Ranges : ReadInFull(q)'
    BY <1>4, <2>1, ReadStays DEF FiledInv, FileFinding
  <2> QED BY <1>4, <2>7, <2>8, <2>9 DEF FiledInv, FileFinding
<1>5. CASE Settle(c)
  <2> DEFINE r == call[c].r
             s == Settled(call[c].s, r)
  <2>r. r \in Ranges /\ At(c, "file")
    BY <1>0, <1>5 DEF Settle, At, AtRange
  <2>1. Grown
    BY <1>5, NoneMade DEF Settle
  <2>2. s.filed = call[c].s.filed
    BY <1>0 DEF Settled, Call, State
  <2>3. MadeIn(beads, s)
    BY <2>2 DEF FiledInv, MadeIn
  <2>4. (st' = st \/ st' = s) /\ \A d \in Calls : call'[d].s \in {call[d].s, Start, s}
    BY <1>0, <1>5 DEF Settle, Finish, Idle, Call
  <2>5. \A d \in Calls : At(d, "file")' => call'[d] = call[d]
    BY <1>0, <1>5 DEF Settle, Finish, Idle, At, Call
  <2>6. MadeIn(beads', st') /\ \A d \in Calls : MadeIn(beads', call'[d].s)
    <3> HIDE DEF s
    <3> QED BY <2>1, <2>3, <2>4, MadeStays, StartMade DEF FiledInv
  <2>7. \A d \in Calls : At(d, "file")' => Filing(d)'
    BY <1>5, <2>5 DEF FiledInv, Settle, Filing, At
  <2>8. ASSUME NEW q \in Ranges PROVE ReadInFull(q)'
    <3>1. CASE q # r
      BY <1>5, <2>1, <3>1, ReadStays DEF FiledInv, Settle, TypeInv, TypeOK
    <3>2. CASE q = r
      <4> SUFFICES ASSUME applied'[r] = "read", sent[r] = 1, beads[r][0] = 0
                   PROVE  file[r].kind = "ready" /\ \A i \in 1..file[r].n : beads[r][i] > 0
        BY <1>5, <3>2 DEF Settle, ReadInFull
      <4>1. ~call[c].re
        BY <1>5, <2>r DEF Settle, TypeInv, TypeOK
      <4>2. file[r].kind = "ready" /\ call[c].n = file[r].n
        BY <2>r, <4>1 DEF FiledInv, Filing
      <4>3. call[c].s.filed[r] >= file[r].n
        BY <1>5, <4>2 DEF Settle, Filed
      <4>4. MadeIn(beads, call[c].s)
        BY DEF FiledInv
      <4>5. ASSUME NEW i \in 1..file[r].n PROVE beads[r][i] > 0
        <5>1. file[r].n \in Counts \cup {0} /\ file[r].n \in Nat /\ call[c].s.filed[r] \in Nat
          BY <1>0, <2>r, FoundTyped DEF TypeInv, TypeOK, Call, State
        <5>2. i \in Findings \ {0} /\ i <= call[c].s.filed[r]
          BY <4>3, <5>1, FindingsAre
        <5> QED BY <2>r, <4>4, <5>2 DEF MadeIn
      <4> QED BY <4>2, <4>5
    <3> QED BY <3>1, <3>2
  <2>9. \A q \in Ranges : applied'[q] # "no" => sent'[q] > 0
    BY <1>5, <2>r DEF Settle, FiledInv, Filing, TypeInv, TypeOK
  <2> QED BY <1>5, <2>6, <2>7, <2>8, <2>9 DEF FiledInv, Settle
<1>6. CASE Dispatch(c)
  <2> DEFINE r == call[c].r
             s == Recorded(call[c].s, r)
  <2>r. r \in Ranges
    BY <1>0, <1>6 DEF Dispatch, At, AtRange
  <2>1. s.filed = call[c].s.filed /\ MadeIn(beads, s)
    BY <1>0 DEF Recorded, Call, State, FiledInv, MadeIn
  <2>2. st' = s /\ \A d \in Calls : call'[d] = IF d = c THEN Idle ELSE call[d]
    BY <1>0, <1>6 DEF Dispatch, Finish
  <2>3. MadeIn(beads', st') /\ \A d \in Calls : MadeIn(beads', call'[d].s)
    <3> HIDE DEF s
    <3> QED BY <1>6, <2>1, <2>2, StartMade DEF FiledInv, Dispatch, Idle
  <2>4. \A q \in Ranges : /\ sent[q] \in 0..2 /\ sent'[q] \in 0..2
                         /\ sent'[q] = IF q = r /\ sent[q] < 2 THEN sent[q] + 1 ELSE sent[q]
    BY <1>6 DEF Dispatch, TypeInv, TypeOK
  <2>5. \A q \in Ranges : sent[q] > 0 => sent'[q] > 0 /\ (sent'[q] = 1 => sent[q] = 1)
    BY <2>4
  <2>6. ASSUME NEW d \in Calls, At(d, "file")' PROVE Filing(d)'
    <3>1. d # c /\ call'[d] = call[d] /\ At(d, "file")
      BY <2>2, <2>6 DEF At, Idle
    <3>2. call[d].r \in Ranges
      BY <3>1 DEF TypeInv, CallsAreAt, Placed, AtRange, At
    <3> QED BY <1>6, <2>5, <3>1, <3>2 DEF FiledInv, Filing, Dispatch
  <2>7. \A q \in Ranges : ReadInFull(q)'
    BY <1>6, <2>4, <2>5 DEF FiledInv, ReadInFull, Dispatch
  <2> QED BY <1>6, <2>3, <2>5, <2>6, <2>7 DEF FiledInv, Dispatch
<1>7. CASE Due(c)
  <2>1. Grown
    BY <1>7, NoneMade DEF Due
  <2>2. call' = [call EXCEPT ![c] = Idle]
    BY <1>7 DEF Due, Finish
  <2>3. \A d \in Calls : call'[d].s \in {call[d].s, Start} /\ (At(d, "file")' => call'[d] = call[d])
    BY <1>0, <2>2 DEF Idle, At
  <2> QED BY <1>7, <2>1, <2>3, FiledByCopies DEF Due
<1>8. CASE ReadFails(c)
  <2>1. Grown
    BY <1>8, NoneMade DEF ReadFails
  <2> QED BY <1>8, <2>1, ThrownCopies, FiledByCopies DEF ReadFails
<1>9. CASE CreateFails(c)
  <2>1. Grown
    BY <1>9, NoneMade DEF CreateFails
  <2> QED BY <1>9, <2>1, ThrownCopies, FiledByCopies DEF CreateFails
<1>10. CASE CreateUnanswered(c)
  <2>1. Grown
    BY <1>10, CreatedBead DEF CreateUnanswered
  <2> QED BY <1>10, <2>1, ThrownCopies, FiledByCopies DEF CreateUnanswered
<1> QED BY <1>1, <1>2, <1>3, <1>4, <1>5, <1>6, <1>7, <1>8, <1>9, <1>10 DEF Step, Fails

\* A range settled on a readable verdict has a bead for each finding, or the
\* bead that asks for its re-review, for every number of findings and calls.
THEOREM EveryFindingFiled == Spec => []FindingsFiled
<1>1. Init => FiledInv
  <2> SUFFICES ASSUME Init PROVE FiledInv
    OBVIOUS
  <2>1. MadeIn(beads, st) /\ \A c \in Calls : MadeIn(beads, call[c].s)
    BY StartMade DEF Init, Idle
  <2> QED BY <2>1 DEF Init, FiledInv, At, Idle, ReadInFull
<1>2. TypeInv /\ TypeInv' /\ FiledInv /\ [Next]_vars => FiledInv'
  <2> SUFFICES ASSUME TypeInv, TypeInv', FiledInv, [Next]_vars PROVE FiledInv'
    OBVIOUS
  <2> USE DEF world
  <2>1. CASE Commit
    BY <2>1, NoneMade, FiledByCopies DEF Commit
  <2>2. CASE Crash
    <3>1. \A c \in Calls : call'[c].s = Start /\ ~At(c, "file")'
      BY <2>2 DEF Crash, Idle, At
    <3> QED BY <2>2, <3>1, NoneMade, FiledByCopies DEF Crash
  <2>3. ASSUME NEW r \in Ranges, ReviewerWrites(r) \/ ReviewerRewrites(r) PROVE FiledInv'
    <3>1. \A q \in Ranges : q # r => file'[q] = file[q]
      BY <2>3 DEF ReviewerWrites, ReviewerRewrites, TypeInv, TypeOK
    <3>2. UNCHANGED <<st, sent, beads, call, applied>>
      BY <2>3 DEF ReviewerWrites, ReviewerRewrites
    <3>3. sent[r] > 0 /\ (sent[r] = 1 => file[r].kind # "ready")
      BY <2>3 DEF ReviewerWrites, ReviewerRewrites, FiledInv
    <3>4. ASSUME NEW c \in Calls, At(c, "file") PROVE Filing(c)'
      <4>1. Filing(c) /\ call[c].r \in Ranges
        BY <3>4 DEF FiledInv, TypeInv, CallsAreAt, Placed, AtRange, At
      <4> QED BY <3>1, <3>2, <3>3, <4>1 DEF Filing
    <3>5. \A q \in Ranges : ReadInFull(q)'
      BY <3>1, <3>2, <3>3 DEF FiledInv, ReadInFull
    <3> QED BY <3>1, <3>2, <3>3, <3>4, <3>5 DEF FiledInv, At
  <2>4. ASSUME NEW c \in Calls, ReviewBegins(c) \/ AdvanceBegins(c) PROVE FiledInv'
    <3>1. UNCHANGED <<st, sent, file, beads, applied>>
      BY <2>4 DEF ReviewBegins, AdvanceBegins, Begins
    <3>2. call'[c].s = st /\ call'[c].at # "file" /\ \A d \in Calls \ {c} : call'[d] = call[d]
      BY <2>4, BeginCopies DEF ReviewBegins, AdvanceBegins
    <3> QED BY <3>1, <3>2, NoneMade, FiledByCopies DEF At
  <2>5. ASSUME NEW c \in Calls, Step(c) \/ Fails(c) PROVE FiledInv'
    BY <2>5, FiledStep
  <2>6. CASE UNCHANGED vars
    BY <2>6, NoneMade, FiledByCopies DEF vars
  <2> QED BY <2>1, <2>2, <2>3, <2>4, <2>5, <2>6 DEF Next
<1>3. FiledInv => FindingsFiled
  BY DEF FiledInv, FindingsFiled, ReadInFull
<1> QED BY <1>1, <1>2, <1>3, TypeInvariant, PTL DEF Spec

(***************************************************************************)
(* No commit escapes review.  While calls do not overlap, the one call and *)
(* the checkpoint agree on the baseline and, up to what was settled, on    *)
(* the pending ranges; every range that may be sent out begins where these *)
(* cover the commits.                                                      *)
(***************************************************************************)
Seen(s) == s.pending \cup {r \in Ranges : applied[r] # "no"}

CoverInv ==
    overlaps = 0 =>
    /\ \A c, d \in Calls : Active(c) /\ Active(d) => c = d
    /\ \A c \in Calls : Active(c) => Seen(call[c].s) = Seen(st) /\ call[c].s.base = st.base
    /\ Covers(Seen(st), st.base)
    /\ due # NoRange => Covers(Seen(st), due[1])
    /\ \A r \in Ranges : sent[r] > 0 => Covers(Seen(st), r[1])
    /\ \A c \in Calls : call[c].op = "review" => Covers(Seen(st), call[c].r[1])

LEMMA CoversMore ==
    ASSUME NEW D, NEW E, D \subseteq E, NEW k, Covers(D, k)
    PROVE  Covers(E, k)
BY DEF Covers

\* A range that begins where the commits are covered covers them to its end.
LEMMA CoversOn ==
    ASSUME NEW D, NEW r \in Ranges, Covers(D, r[1]), r \in D
    PROVE  Covers(D, r[2])
<1>1. r[1] \in Nat /\ r[2] \in Nat /\ r[1] < r[2]
  BY BatchAssumption DEF Ranges, Commits
<1> SUFFICES ASSUME NEW j \in 1..r[2] PROVE \E q \in D : q[1] < j /\ j <= q[2]
  BY DEF Covers
<1>2. CASE j <= r[1]
  BY <1>1, <1>2 DEF Covers
<1>3. CASE r[1] < j
  BY <1>1, <1>3
<1> QED BY <1>1, <1>2, <1>3

\* What a step has to do to the checkpoint and the calls.
LEMMA CoverKept ==
    ASSUME TypeInv, TypeInv', CoverInv, overlaps' = 0, overlaps = 0,
           Seen(st) \subseteq Seen(st)', Covers(Seen(st)', st'.base),
           \A c, d \in Calls : Active(c)' /\ Active(d)' => c = d,
           \A c \in Calls : Active(c)' => Seen(call[c].s)' = Seen(st)' /\ call'[c].s.base = st'.base,
           due' = due \/ due' = NoRange \/ Covers(Seen(st), due'[1]),
           \A r \in Ranges : sent'[r] > 0 => sent[r] > 0 \/ Covers(Seen(st), r[1]),
           \A c \in Calls : call'[c].op = "review" =>
               (call[c].op = "review" /\ call'[c].r = call[c].r) \/ Covers(Seen(st), call'[c].r[1])
    PROVE  CoverInv'
<1>1. due' # NoRange => Covers(Seen(st), due'[1])
  BY DEF CoverInv
<1>2. \A r \in Ranges : sent'[r] > 0 => Covers(Seen(st), r[1])
  BY DEF CoverInv
<1>3. \A c \in Calls : call'[c].op = "review" => Covers(Seen(st), call'[c].r[1])
  BY DEF CoverInv
<1> QED BY <1>1, <1>2, <1>3, CoversMore DEF CoverInv

\* Steps that change neither the checkpoint, the baseline nor what was settled.
LEMMA SeenKept ==
    ASSUME TypeInv, UNCHANGED <<st, applied>>
    PROVE  Seen(st)' = Seen(st)
BY DEF Seen

\* A step of the one call that keeps its copy, or saves it.
LEMMA CopyKept ==
    ASSUME TypeInv, TypeInv', CoverInv, NEW c \in Calls, Active(c), UNCHANGED <<applied, sent, overlaps>>,
           st' = st \/ st' = call[c].s,
           due' = due \/ due' = NoRange \/ due'[1] = call[c].s.base,
           \A d \in Calls \ {c} : call'[d] = call[d],
           call'[c] = Idle \/ (/\ call'[c].s.base = call[c].s.base
                              /\ call'[c].s.pending = call[c].s.pending
                              /\ call'[c].op = call[c].op
                              /\ (call[c].op = "review" => call'[c].r = call[c].r))
    PROVE  CoverInv'
<1> SUFFICES ASSUME overlaps' = 0 PROVE CoverInv'
  BY DEF CoverInv
<1>0. overlaps = 0
  OBVIOUS
<1>1. Seen(call[c].s) = Seen(st) /\ call[c].s.base = st.base /\ Covers(Seen(st), st.base)
  BY <1>0 DEF CoverInv
<1>2. \A s : Seen(s)' = Seen(s)'
  OBVIOUS
<1>3. Seen(st)' = Seen(st) /\ st'.base = st.base
  BY <1>1 DEF Seen
<1>4. \A d \in Calls : Active(d)' => d = c
  BY <1>0 DEF CoverInv, Active
<1>5. ASSUME NEW d \in Calls, Active(d)'
      PROVE  Seen(call[d].s)' = Seen(st)' /\ call'[d].s.base = st'.base
  <2>1. d = c /\ call'[c].s.base = call[c].s.base /\ call'[c].s.pending = call[c].s.pending
    BY <1>4, <1>5 DEF Active
  <2>2. Seen(call[c].s)' = Seen(call[c].s)
    BY <2>1 DEF Seen
  <2> QED BY <1>1, <1>3, <2>1, <2>2
<1>6. due' = due \/ due' = NoRange \/ Covers(Seen(st), due'[1])
  BY <1>1
<1>7. \A d \in Calls : call'[d].op = "review" => call[d].op = "review" /\ call'[d].r = call[d].r
  BY DEF Idle
<1> QED BY <1>0, <1>1, <1>3, <1>4, <1>5, <1>6, <1>7, CoverKept

LEMMA CoverStep ==
    ASSUME TypeInv, TypeInv', CoverInv, NEW c \in Calls, Step(c) \/ Fails(c)
    PROVE  CoverInv'
<1> USE DEF world
<1>0. /\ call \in [Calls -> Call] /\ call[c] \in Call /\ (AtRange(c) => call[c].r \in Ranges)
      /\ call[c].s \in State
  BY DEF TypeInv, TypeOK, CallsAreAt, Placed, AtRange, Call
<1>p. call[c].at # "none"
  BY DEF Step, Fails, NextRange, NoVerdict, ReadVerdict, FileFinding, Settle, Dispatch, Due,
         ReadFails, CreateFails, CreateUnanswered, Unfiled, At
<1>a. Active(c) /\ call[c].op \in {"review", "advance"}
  BY <1>p, ActiveOp DEF Active, Idle
<1>t. ASSUME Thrown(c), UNCHANGED <<applied, sent, overlaps, due>> PROVE CoverInv'
  <2>1. CASE Finish(c)
    BY <1>0, <1>a, <1>t, <2>1, CopyKept DEF Thrown, Finish
  <2>2. CASE ReadAgain(c)
    <3>1. call'[c] = [call[c] EXCEPT !.at = "next", !.n = 0, !.re = FALSE]
      BY <1>0, <2>2 DEF ReadAgain
    <3>2. call'[c].s = call[c].s /\ call'[c].op = call[c].op /\ call'[c].r = call[c].r
      BY <1>0, <3>1 DEF Call
    <3>3. \A d \in Calls \ {c} : call'[d] = call[d]
      BY <1>0, <2>2 DEF ReadAgain
    <3> QED BY <1>a, <1>t, <3>2, <3>3, CopyKept DEF Thrown
  <2> QED BY <1>t, <2>1, <2>2 DEF Thrown
<1>1. CASE NextRange(c)
  <2>1. st' = st \/ st' = call[c].s
    BY <1>1 DEF NextRange
  <2>2. call[c].op # "review"
    BY <1>1 DEF NextRange, At, TypeInv, CallsAreAt, Placed
  <2> QED BY <1>1, <1>a, <2>1, <2>2, NextRangeCopies, CopyKept DEF NextRange, NoTrouble
<1>2. CASE NoVerdict(c)
  <2>1. call'[c].s = call[c].s /\ call'[c].op = call[c].op /\ call'[c].r = call[c].r
    BY <1>0, <1>2 DEF NoVerdict, ReadAgain, Call
  <2>2. \A d \in Calls \ {c} : call'[d] = call[d]
    BY <1>0, <1>2 DEF NoVerdict, ReadAgain
  <2> QED BY <1>2, <1>a, <2>1, <2>2, CopyKept DEF NoVerdict, NoTrouble
<1>3. CASE ReadVerdict(c)
  <2> DEFINE f == file[call[c].r]
             k == [call[c] EXCEPT !.at = "file", !.n = IF f.kind = "ready" THEN f.n ELSE 1,
                                  !.re = f.kind # "ready"]
  <2>1. call' = [call EXCEPT ![c] = k]
    BY <1>3 DEF ReadVerdict
  <2>2. k.s = call[c].s /\ k.op = call[c].op /\ k.r = call[c].r
    BY <1>0 DEF Call
  <2> HIDE DEF k
  <2>3. call'[c] = k /\ \A d \in Calls \ {c} : call'[d] = call[d]
    BY <1>0, <2>1
  <2> QED BY <1>3, <1>a, <2>2, <2>3, CopyKept DEF ReadVerdict, NoTrouble
<1>4. CASE FileFinding(c)
  <2> DEFINE q == [call[c].s EXCEPT !.filed[call[c].r] = @ + 1]
  <2>1. call'[c] = [call[c] EXCEPT !.s = q] /\ \A d \in Calls \ {c} : call'[d] = call[d]
    BY <1>0, <1>4 DEF FileFinding
  <2>2. q.base = call[c].s.base /\ q.pending = call[c].s.pending
    BY <1>0 DEF State
  <2> HIDE DEF q
  <2>3. call'[c].s = q /\ call'[c].op = call[c].op /\ call'[c].r = call[c].r
    BY <1>0, <2>1 DEF Call
  <2> QED BY <1>4, <1>a, <2>1, <2>2, <2>3, CopyKept DEF FileFinding, NoTrouble
<1>5. CASE Settle(c)
  <2> SUFFICES ASSUME overlaps' = 0 PROVE CoverInv'
    BY DEF CoverInv
  <2> DEFINE r == call[c].r
             s == Settled(call[c].s, r)
  <2>r. r \in Ranges /\ overlaps = 0
    BY <1>0, <1>5 DEF Settle, At, AtRange, NoTrouble
  <2>1. Seen(call[c].s) = Seen(st) /\ call[c].s.base = st.base /\ Covers(Seen(st), st.base)
    BY <1>a, <2>r DEF CoverInv
  <2>2. {q \in Ranges : applied'[q] # "no"} = {q \in Ranges : applied[q] # "no"} \cup {r}
    BY <1>5, <2>r DEF Settle, TypeInv, TypeOK
  <2>3. s.base = call[c].s.base /\ s.pending = call[c].s.pending \ {r}
    BY <1>0 DEF Settled, State
  <2> HIDE DEF s
  <2>4. s.pending \cup {q \in Ranges : applied'[q] # "no"} = Seen(st) \cup {r}
    BY <2>1, <2>2, <2>3 DEF Seen
  <2>5. st.pending \cup {q \in Ranges : applied'[q] # "no"} = Seen(st) \cup {r}
    BY <2>2 DEF Seen
  <2>6. \/ st' = s /\ call' = [call EXCEPT ![c] = Idle]
        \/ /\ st' = st /\ call'[c].s = s /\ call'[c].op = call[c].op /\ call[c].op # "review"
           /\ \A d \in Calls \ {c} : call'[d] = call[d]
    BY <1>0, <1>5 DEF Settle, Finish, Call, s
  <2>7. Seen(st)' = Seen(st) \cup {r} /\ st'.base = st.base
    BY <2>1, <2>3, <2>4, <2>5, <2>6 DEF Seen
  <2>8. \A d \in Calls : Active(d)' => d = c
    BY <1>0, <1>a, <2>r, <2>6 DEF CoverInv, Active
  <2>9. ASSUME NEW d \in Calls, Active(d)'
        PROVE  Seen(call[d].s)' = Seen(st)' /\ call'[d].s.base = st'.base
    <3>1. d = c /\ call'[c].s = s
      BY <1>0, <2>6, <2>8, <2>9 DEF Active
    <3>2. Seen(call[c].s)' = Seen(st) \cup {r}
      BY <2>4, <3>1 DEF Seen
    <3> QED BY <2>1, <2>3, <2>7, <3>1, <3>2
  <2>10. UNCHANGED <<due, sent>>
    BY <1>5 DEF Settle
  <2>11. \A d \in Calls : call'[d].op = "review" => call[d].op = "review" /\ call'[d].r = call[d].r
    BY <1>0, <2>6 DEF Idle
  <2>12. Covers(Seen(st)', st'.base)
    BY <2>1, <2>7, CoversMore
  <2> QED BY <2>r, <2>7, <2>8, <2>9, <2>10, <2>11, <2>12, CoverKept
<1>6. CASE Dispatch(c)
  <2> SUFFICES ASSUME overlaps' = 0 PROVE CoverInv'
    BY DEF CoverInv
  <2> DEFINE r == call[c].r
  <2>r. r \in Ranges /\ overlaps = 0
    BY <1>0, <1>6 DEF Dispatch, At, AtRange, NoTrouble
  <2>v. call[c].op = "review"
    BY <1>6 DEF Dispatch, At, TypeInv, CallsAreAt, Placed
  <2>1. /\ Seen(call[c].s) = Seen(st) /\ call[c].s.base = st.base /\ Covers(Seen(st), r[1])
    BY <1>a, <2>r, <2>v DEF CoverInv
  <2>2. st'.base = r[2] /\ st'.pending = call[c].s.pending \cup {r}
    BY <1>0, <1>6 DEF Dispatch, Recorded, State
  <2>3. call' = [call EXCEPT ![c] = Idle] /\ UNCHANGED <<due, applied>>
    BY <1>6 DEF Dispatch, Finish
  <2>4. Seen(st)' = Seen(st) \cup {r}
    BY <2>1, <2>2, <2>3 DEF Seen
  <2>5. Covers(Seen(st)', st'.base)
    <3>1. Covers(Seen(st)', r[1])
      BY <2>1, <2>4, CoversMore
    <3> QED BY <2>r, <2>2, <2>4, <3>1, CoversOn
  <2>6. \A d \in Calls : ~Active(d)'
    BY <1>0, <1>a, <2>r, <2>3 DEF CoverInv, Active
  <2>7. \A q \in Ranges : sent'[q] > 0 => sent[q] > 0 \/ q = r
    BY <1>6 DEF Dispatch, TypeInv, TypeOK
  <2>8. \A d \in Calls : call'[d].op = "review" => call[d].op = "review" /\ call'[d].r = call[d].r
    BY <1>0, <2>3 DEF Idle
  <2> QED BY <2>r, <2>1, <2>3, <2>4, <2>5, <2>6, <2>7, <2>8, CoverKept
<1>7. CASE Due(c)
  <2>1. call' = [call EXCEPT ![c] = Idle]
    BY <1>7 DEF Due, Finish
  <2>2. due' = NoRange \/ due'[1] = call[c].s.base
    BY <1>7 DEF Due
  <2> QED BY <1>0, <1>7, <1>a, <2>1, <2>2, CopyKept DEF Due, NoTrouble
<1>8. CASE ReadFails(c)
  BY <1>8, <1>t DEF ReadFails
<1>9. CASE CreateFails(c)
  BY <1>9, <1>t DEF CreateFails, NoTrouble
<1>10. CASE CreateUnanswered(c)
  BY <1>10, <1>t DEF CreateUnanswered, Loses
<1> QED BY <1>1, <1>2, <1>3, <1>4, <1>5, <1>6, <1>7, <1>8, <1>9, <1>10 DEF Step, Fails

\* Without overlapping calls every commit before the baseline is in a range that
\* is pending or was settled, for every number of commits and every threshold.
THEOREM NoCommitSkipped == Spec => []NothingSkipped
<1>1. Init => CoverInv
  <2> SUFFICES ASSUME Init PROVE CoverInv
    OBVIOUS
  <2>1. \A c \in Calls : call[c] = Idle
    BY DEF Init
  <2>2. Covers(Seen(st), 0)
    BY DEF Covers
  <2> QED BY <2>1, <2>2 DEF Init, CoverInv, Active, Idle, Start
<1>2. TypeInv /\ TypeInv' /\ CoverInv /\ [Next]_vars => CoverInv'
  <2> SUFFICES ASSUME TypeInv, TypeInv', CoverInv, [Next]_vars PROVE CoverInv'
    OBVIOUS
  <2> USE DEF world
  <2>0. call \in [Calls -> Call]
    BY DEF TypeInv, TypeOK
  <2>1. CASE UNCHANGED <<st, due, sent, call, applied, overlaps>>
    BY <2>1 DEF CoverInv, Active, Seen
  <2>2. CASE Crash
    <3>1. \A c \in Calls : call'[c] = Idle
      BY <2>2 DEF Crash
    <3>2. UNCHANGED <<st, due, sent, applied, overlaps>>
      BY <2>2 DEF Crash, Loses
    <3>3. Seen(st)' = Seen(st)
      BY <3>2 DEF Seen
    <3>4. \A c \in Calls : ~Active(c)'
      BY <3>1 DEF Active
    <3>5. \A c \in Calls : call'[c].op # "review"
      BY <3>1 DEF Idle
    <3> QED BY <3>2, <3>3, <3>4, <3>5 DEF CoverInv
  <2>3. ASSUME NEW c \in Calls, ReviewBegins(c) \/ AdvanceBegins(c) PROVE CoverInv'
    <3> SUFFICES ASSUME overlaps' = 0 PROVE CoverInv'
      BY DEF CoverInv
    <3>1. PICK op, at, r, todo :
            /\ Begins(c, op, at, r, todo) /\ (due' = due \/ due' = NoRange)
            /\ op = "review" => r \in Ranges /\ (r = due \/ sent[r] > 0)
      BY <2>3 DEF ReviewBegins, AdvanceBegins
    <3>2. overlaps = 0 /\ \A d \in Calls : call[d] = Idle
      BY <3>1 DEF Begins, NoTrouble, TypeInv, TypeOK
    <3>3. UNCHANGED <<st, sent, applied>>
      BY <3>1 DEF Begins
    <3>4. call'[c].s = st /\ call'[c].op = op /\ call'[c].r = r /\ \A d \in Calls \ {c} : call'[d] = Idle
      BY <3>1, <3>2, BeginCopies
    <3>5. Seen(st)' = Seen(st) /\ Seen(call[c].s)' = Seen(st)
      BY <3>3, <3>4 DEF Seen
    <3>6. op = "review" => Covers(Seen(st), r[1])
      BY <3>1, <3>2, StartTyped DEF CoverInv
    <3>7. \A d \in Calls : Active(d)' => d = c
      BY <3>4 DEF Active
    <3>8. \A d \in Calls : call'[d].op = "review" => Covers(Seen(st), call'[d].r[1])
      BY <3>4, <3>6 DEF Idle
    <3>9. Covers(Seen(st)', st'.base)
      BY <3>2, <3>3, <3>5 DEF CoverInv
    <3>10. due' = due \/ due' = NoRange
      BY <3>1
    <3>11. \A d \in Calls : Active(d)' => Seen(call[d].s)' = Seen(st)' /\ call'[d].s.base = st'.base
      BY <3>3, <3>4, <3>5, <3>7
    <3> QED BY <3>2, <3>3, <3>5, <3>7, <3>8, <3>9, <3>10, <3>11, CoverKept
  <2>4. ASSUME NEW c \in Calls, Step(c) \/ Fails(c) PROVE CoverInv'
    BY <2>4, CoverStep
  <2> QED BY <2>1, <2>2, <2>3, <2>4
          DEF Next, vars, Commit, ReviewerWrites, ReviewerRewrites
<1>3. CoverInv => NothingSkipped
  BY DEF CoverInv, NothingSkipped, Seen
<1> QED BY <1>1, <1>2, <1>3, TypeInvariant, PTL DEF Spec

(***************************************************************************)
(* Filing is repeated only for what was lost.  A finding whose id a copy   *)
(* of the checkpoint does not have may be filed once more from that copy:  *)
(* the beads there are and the copies it may yet be filed from together    *)
(* stay within the bound.  While a call lives the checkpoint itself does   *)
(* not count, for the call will save its copy over it; a call that dies    *)
(* gives the checkpoint back, and was counted as a loss; one that begins   *)
(* beside another brings a copy more, and was counted as an overlap.       *)
(***************************************************************************)
\* A call that may still file, or save its copy: not an advance that is done
\* with its ranges, or came to none.
Lives(c) == /\ Active(c) /\ call[c].at # "due"
            /\ ~(call[c].at = "next" /\ call[c].r = NoRange /\ call[c].todo = {})

\* fileFindingBeads would file the finding i of the range r from the copy s.
Unfiles(s, r, i) == s.filed[r] < (IF i = 0 THEN 1 ELSE i)

\* The copies from which it may yet be filed; 0 is the checkpoint.
Holders(r, i) ==
    IF \E c \in Calls : Lives(c) THEN {c \in Calls : Lives(c) /\ Unfiles(call[c].s, r, i)}
                                 ELSE {x \in {0} : Unfiles(st, r, i)}

Held(r, i) == Cardinality(Holders(r, i))

OnceInv ==
    /\ \A r \in Ranges : \A i \in Findings : beads[r][i] + Held(r, i) <= 1 + losses + overlaps
    /\ \A c \in Calls : At(c, "file") /\ call[c].re => call[c].n = 1

LEMMA HoldersFinite ==
    ASSUME NEW r, NEW i
    PROVE  /\ IsFiniteSet(Holders(r, i)) /\ Held(r, i) \in Nat
           /\ IsFiniteSet(Holders(r, i)') /\ Held(r, i)' \in Nat
<1>1. IsFiniteSet(0..Slots)
  BY BatchAssumption, FS_Interval
<1>2. Holders(r, i) \subseteq 0..Slots /\ Holders(r, i)' \subseteq 0..Slots
  BY BatchAssumption DEF Holders, Calls
<1>3. IsFiniteSet(Holders(r, i)) /\ IsFiniteSet(Holders(r, i)')
  BY <1>1, <1>2, FS_Subset
<1> QED BY <1>3, FS_CardinalityType DEF Held

LEMMA FewerHold ==
    ASSUME NEW r, NEW i, Holders(r, i)' \subseteq Holders(r, i)
    PROVE  Held(r, i)' <= Held(r, i)
BY HoldersFinite, FS_Subset DEF Held

\* A call at a range lives.
LEMMA AtRangeLives ==
    ASSUME TypeInv, NEW c \in Calls, AtRange(c) \/ (At(c, "next") /\ call[c].r \in Ranges)
    PROVE  Lives(c)
BY StartTyped DEF TypeInv, CallsAreAt, Placed, AtRange, At, Lives, Active, Idle

LEMMA FiledNat ==
    ASSUME TypeInv, TypeInv'
    PROVE  /\ \A c \in Calls : \A r \in Ranges : /\ call[c].s.filed[r] \in Nat
                                               /\ call'[c].s.filed[r] \in Nat
           /\ \A r \in Ranges : st.filed[r] \in Nat /\ st'.filed[r] \in Nat
BY DEF TypeInv, TypeOK, Call, State

\* A call that goes on with what it filed, or saves it and is done, leaves no
\* more copies to file from.
LEMMA HeldMoves ==
    ASSUME TypeInv, TypeInv', NEW c \in Calls, Lives(c), \A d \in Calls \ {c} : call'[d] = call[d],
           NEW r \in Ranges, NEW i \in Findings,
           \/ Lives(c)' /\ call'[c].s.filed[r] >= call[c].s.filed[r]
           \/ ~Lives(c)' /\ st'.filed[r] = call[c].s.filed[r]
    PROVE  Held(r, i)' <= Held(r, i)
<1>n. i \in Nat
  BY FindingsAre
<1>f. call[c].s.filed[r] \in Nat /\ (call'[c].s.filed[r] \in Nat) /\ st'.filed[r] \in Nat
  BY FiledNat
<1>l. \A d \in Calls \ {c} : /\ Lives(d)' = Lives(d)
                            /\ Unfiles(call[d].s, r, i)' = Unfiles(call[d].s, r, i)
  BY DEF Lives, Active, Unfiles
<1>1. CASE Lives(c)' \/ \E d \in Calls \ {c} : Lives(d)
  <2>1. \E d \in Calls : Lives(d)'
    BY <1>1, <1>l
  <2>2. Lives(c)' /\ Unfiles(call[c].s, r, i)' => Unfiles(call[c].s, r, i)
    BY <1>f, <1>n DEF Unfiles
  <2>3. Holders(r, i)' \subseteq Holders(r, i)
    BY <1>l, <2>1, <2>2 DEF Holders
  <2> QED BY <2>3, FewerHold
<1>2. CASE ~Lives(c)' /\ \A d \in Calls \ {c} : ~Lives(d)
  <2>1. ~ \E d \in Calls : Lives(d)'
    BY <1>2, <1>l
  <2>2. Holders(r, i)' = {x \in {0} : Unfiles(st, r, i)'}
    BY <2>1 DEF Holders
  <2>3. Unfiles(st, r, i)' <=> Unfiles(call[c].s, r, i)
    BY <1>2 DEF Unfiles
  <2>4. Holders(r, i) = {d \in {c} : Unfiles(call[c].s, r, i)}
    BY <1>2 DEF Holders
  <2>5. CASE Unfiles(call[c].s, r, i)
    <3>1. Holders(r, i)' = {0} /\ Holders(r, i) = {c}
      BY <2>2, <2>3, <2>4, <2>5
    <3>2. Held(r, i)' = 1 /\ Held(r, i) = 1
      BY <3>1, FS_Singleton DEF Held
    <3> QED BY <3>2
  <2>6. CASE ~Unfiles(call[c].s, r, i)
    <3>1. Holders(r, i)' = Holders(r, i)
      BY <2>2, <2>3, <2>4, <2>6
    <3> QED BY <3>1, FewerHold
  <2> QED BY <2>5, <2>6
<1> QED BY <1>1, <1>2

\* A call that neither files nor saves changes nothing of this.
LEMMA HeldStays ==
    ASSUME TypeInv, NEW c \in Calls, ~Lives(c), ~Lives(c)', \A d \in Calls \ {c} : call'[d] = call[d],
           st' = st, NEW r, NEW i
    PROVE  Held(r, i)' <= Held(r, i)
<1>1. \A d \in Calls \ {c} : Lives(d)' = Lives(d) /\ Unfiles(call[d].s, r, i)' = Unfiles(call[d].s, r, i)
  BY DEF Lives, Active, Unfiles
<1>2. Unfiles(st, r, i)' = Unfiles(st, r, i)
  BY DEF Unfiles
<1>3. Holders(r, i)' \subseteq Holders(r, i)
  BY <1>1, <1>2 DEF Holders
<1> QED BY <1>3, FewerHold

\* Steps that file no bead and leave no more copies to file from.
LEMMA OnceKept ==
    ASSUME TypeInv, TypeInv', OnceInv, beads' = beads,
           losses' >= losses, overlaps' >= overlaps,
           \A r \in Ranges : \A i \in Findings : Held(r, i)' <= Held(r, i),
           \A c \in Calls : At(c, "file")' => call'[c] = call[c] \/ (call'[c].re => call'[c].n = 1)
    PROVE  OnceInv'
<1>1. ASSUME NEW r \in Ranges, NEW i \in Findings
      PROVE  beads'[r][i] + Held(r, i)' <= 1 + losses' + overlaps'
  <2>1. beads[r][i] \in Nat /\ Held(r, i) \in Nat /\ Held(r, i)' \in Nat
    BY BeadsTyped, HoldersFinite
  <2>2. losses \in Nat /\ overlaps \in Nat /\ losses' \in Nat /\ overlaps' \in Nat
    BY DEF TypeInv, TypeOK
  <2>3. beads[r][i] + Held(r, i) <= 1 + losses + overlaps /\ Held(r, i)' <= Held(r, i)
    BY DEF OnceInv
  <2> QED BY <2>1, <2>2, <2>3
<1>2. \A c \in Calls : At(c, "file")' /\ call'[c].re => call'[c].n = 1
  BY DEF OnceInv, At
<1> QED BY <1>1, <1>2 DEF OnceInv

\* What is thrown leaves no more copies to file from.
LEMMA ThrownHeld ==
    ASSUME TypeInv, TypeInv', NEW c \in Calls, AtRange(c), Thrown(c)
    PROVE  /\ \A r \in Ranges : \A i \in Findings : Held(r, i)' <= Held(r, i)
           /\ \A d \in Calls : At(d, "file")' => call'[d] = call[d]
<1>0. call \in [Calls -> Call] /\ call[c] \in Call /\ call[c].r \in Ranges /\ Lives(c)
  BY AtRangeLives DEF TypeInv, TypeOK, CallsAreAt, Placed, AtRange
<1>1. \A d \in Calls : At(d, "file")' => call'[d] = call[d]
  BY ThrownCopies
<1>2. CASE Finish(c) /\ st' = call[c].s
  <2>1. call'[c] = Idle /\ \A d \in Calls \ {c} : call'[d] = call[d]
    BY <1>0, <1>2 DEF Finish
  <2>2. ~Lives(c)'
    BY <2>1 DEF Lives, Active
  <2> QED BY <1>0, <1>1, <1>2, <2>1, <2>2, HeldMoves
<1>3. CASE ReadAgain(c)
  <2> DEFINE k == [call[c] EXCEPT !.at = "next", !.n = 0, !.re = FALSE]
  <2>1. call'[c] = k /\ \A d \in Calls \ {c} : call'[d] = call[d]
    BY <1>0, <1>3 DEF ReadAgain
  <2>2. k.at = "next" /\ k.r = call[c].r /\ k.s = call[c].s
    BY <1>0 DEF Call
  <2> HIDE DEF k
  <2>3. Lives(c)'
    BY <1>0, <2>1, <2>2, StartTyped DEF Lives, Active, Idle
  <2>4. \A r \in Ranges : call[c].s.filed[r] \in Nat /\ call'[c].s.filed[r] = call[c].s.filed[r]
    BY <2>1, <2>2, FiledNat
  <2>5. ASSUME NEW r \in Ranges, NEW i \in Findings PROVE Held(r, i)' <= Held(r, i)
    <3>1. call'[c].s.filed[r] >= call[c].s.filed[r]
      BY <2>4
    <3> QED BY <1>0, <2>1, <2>3, <3>1, HeldMoves
  <2> QED BY <1>1, <2>5
<1> QED BY <1>2, <1>3 DEF Thrown

\* A bead is filed from one of the copies that were counted.
LEMMA FilingHeld ==
    ASSUME TypeInv, TypeInv', NEW c \in Calls, FileFinding(c), At(c, "file") /\ call[c].re => call[c].n = 1,
           NEW r \in Ranges, NEW i \in Findings
    PROVE  /\ Held(r, i)' <= Held(r, i)
           /\ r = call[c].r /\ i = Item(c) => Held(r, i)' <= Held(r, i) - 1
           /\ call'[c].re = call[c].re /\ call'[c].n = call[c].n
<1>0. /\ call \in [Calls -> Call] /\ call[c] \in Call /\ call[c].r \in Ranges /\ Lives(c)
      /\ i \in Nat /\ At(c, "file")
  BY AtRangeLives, FindingsAre DEF TypeInv, TypeOK, CallsAreAt, Placed, AtRange, At, FileFinding, Unfiled
<1> DEFINE s == [call[c].s EXCEPT !.filed[call[c].r] = @ + 1]
<1>1. call'[c] = [call[c] EXCEPT !.s = s] /\ \A d \in Calls \ {c} : call'[d] = call[d]
  BY <1>0 DEF FileFinding
<1>2. /\ call'[c].s = s /\ call'[c].r = call[c].r /\ call'[c].re = call[c].re /\ call'[c].n = call[c].n
      /\ call'[c].at = call[c].at
  BY <1>0, <1>1 DEF Call
<1>3. \A q \in Ranges : s.filed[q] = IF q = call[c].r THEN call[c].s.filed[q] + 1 ELSE call[c].s.filed[q]
  <2>1. call[c].s \in State /\ call[c].s.filed \in [Ranges -> Nat]
    BY <1>0 DEF Call, State
  <2>2. s.filed = [call[c].s.filed EXCEPT ![call[c].r] = @ + 1]
    BY <2>1 DEF State
  <2> QED BY <1>0, <2>1, <2>2
<1> HIDE DEF s
<1>4. Lives(c)'
  BY <1>0, <1>2, StartTyped DEF Lives, Active, Idle, At
<1>5. call[c].s.filed[r] \in Nat /\ call'[c].s.filed[r] \in Nat
  BY FiledNat
<1>6. call'[c].s.filed[r] >= call[c].s.filed[r]
  BY <1>2, <1>3, <1>5
<1>7. Held(r, i)' <= Held(r, i)
  BY <1>0, <1>1, <1>4, <1>6, HeldMoves
<1>8. ASSUME r = call[c].r, i = Item(c) PROVE Held(r, i)' <= Held(r, i) - 1
  <2>1. \A d \in Calls \ {c} : /\ Lives(d)' = Lives(d)
                              /\ Unfiles(call[d].s, r, i)' = Unfiles(call[d].s, r, i)
    BY <1>1 DEF Lives, Active, Unfiles
  <2>2. call'[c].s.filed[r] = call[c].s.filed[r] + 1
    BY <1>2, <1>3, <1>8
  <2>3. IF call[c].re THEN i = 0 /\ call[c].s.filed[r] = 0 ELSE i = call[c].s.filed[r] + 1
    <3>1. call[c].s.filed[r] < call[c].n
      BY <1>8 DEF FileFinding, Unfiled, Filed
    <3>2. call[c].re => call[c].s.filed[r] = 0
      BY <1>0, <1>5, <3>1
    <3> QED BY <1>8, <3>2 DEF Item, Filed
  <2>4. (call[c].s.filed[r] < IF i = 0 THEN 1 ELSE i) /\ ~(call'[c].s.filed[r] < IF i = 0 THEN 1 ELSE i)
    BY <1>0, <1>5, <2>2, <2>3
  <2>5. Unfiles(call[c].s, r, i) /\ ~Unfiles(call[c].s, r, i)'
    BY <2>4 DEF Unfiles
  <2>6. c \in Holders(r, i) /\ Holders(r, i)' \subseteq Holders(r, i) \ {c}
    BY <1>0, <1>4, <2>1, <2>5 DEF Holders
  <2>7. Cardinality(Holders(r, i) \ {c}) = Held(r, i) - 1 /\ IsFiniteSet(Holders(r, i) \ {c})
    BY <2>6, HoldersFinite, FS_RemoveElement DEF Held
  <2>8. Cardinality(Holders(r, i)') <= Cardinality(Holders(r, i) \ {c})
    BY <2>6, <2>7, FS_Subset
  <2>9. Held(r, i)' = Cardinality(Holders(r, i)')
    BY DEF Held
  <2> QED BY <2>7, <2>8, <2>9
<1> QED BY <1>2, <1>7, <1>8

\* A call that begins holds a copy more only beside another call.
LEMMA BeginHeld ==
    ASSUME TypeInv, TypeInv', NEW c \in Calls, NEW op, NEW at, NEW q, NEW todo, Begins(c, op, at, q, todo),
           NEW r \in Ranges, NEW i \in Findings
    PROVE  Held(r, i)' + overlaps <= Held(r, i) + overlaps'
<1>0. overlaps \in Nat /\ overlaps' \in Nat /\ Held(r, i) \in Nat /\ Held(r, i)' \in Nat
  BY HoldersFinite DEF TypeInv, TypeOK
<1>1. /\ call'[c].s = st /\ st' = st /\ ~Lives(c) /\ call[c] = Idle
      /\ \A d \in Calls \ {c} : call'[d] = call[d]
  BY BeginCopies DEF Begins, Lives, Active
<1>2. \A d \in Calls \ {c} : /\ Lives(d)' = Lives(d)
                            /\ Unfiles(call[d].s, r, i)' = Unfiles(call[d].s, r, i)
  BY <1>1 DEF Lives, Active, Unfiles
<1>3. Unfiles(st, r, i)' = Unfiles(st, r, i) /\ Unfiles(call[c].s, r, i)' = Unfiles(st, r, i)
  BY <1>1 DEF Unfiles
<1>4. overlaps' = overlaps \/ overlaps' = overlaps + 1
  BY DEF Begins, NoTrouble
<1>5. CASE ~Lives(c)'
  <2>1. Held(r, i)' <= Held(r, i)
    BY <1>1, <1>5, HeldStays
  <2> QED BY <1>0, <1>4, <2>1
<1>6. CASE Lives(c)' /\ \E d \in Calls : Lives(d)
  <2>1. overlaps' = overlaps + 1
    BY <1>6 DEF Begins, Lives, Active
  <2>2. Holders(r, i)' \subseteq Holders(r, i) \cup {c}
    BY <1>2, <1>6 DEF Holders
  <2>3. IsFiniteSet(Holders(r, i) \cup {c}) /\ Cardinality(Holders(r, i) \cup {c}) \in {Held(r, i), Held(r, i) + 1}
    BY HoldersFinite, FS_AddElement DEF Held
  <2>4. Held(r, i)' <= Cardinality(Holders(r, i) \cup {c})
    BY <2>2, <2>3, FS_Subset DEF Held
  <2> QED BY <1>0, <2>1, <2>3, <2>4
<1>7. CASE Lives(c)' /\ ~ \E d \in Calls : Lives(d)
  <2>1. Holders(r, i)' = {d \in {c} : Unfiles(st, r, i)} /\ Holders(r, i) = {x \in {0} : Unfiles(st, r, i)}
    BY <1>2, <1>3, <1>7 DEF Holders
  <2>2. CASE Unfiles(st, r, i)
    <3>1. Holders(r, i)' = {c} /\ Holders(r, i) = {0}
      BY <2>1, <2>2
    <3>2. Held(r, i)' = 1 /\ Held(r, i) = 1
      BY <3>1, FS_Singleton DEF Held
    <3>3. Held(r, i)' <= Held(r, i)
      BY <3>2
    <3> QED BY <1>0, <1>4, <3>3
  <2>3. CASE ~Unfiles(st, r, i)
    <3>1. Holders(r, i)' \subseteq Holders(r, i)
      BY <2>1, <2>3
    <3>2. Held(r, i)' <= Held(r, i)
      BY <3>1, FewerHold
    <3> QED BY <1>0, <1>4, <3>2
  <2> QED BY <2>2, <2>3
<1> QED BY <1>5, <1>6, <1>7

\* The server dies: the checkpoint is what is left.
LEMMA CrashHeld ==
    ASSUME Crash, NEW r, NEW i
    PROVE  Held(r, i)' \in {0, 1}
<1>1. ~ \E c \in Calls : Lives(c)'
  BY DEF Crash, Lives, Active
<1>2. Holders(r, i)' \subseteq {0}
  BY <1>1 DEF Holders
<1>3. Held(r, i)' \in Nat /\ Held(r, i)' <= Cardinality({0}) /\ Cardinality({0}) = 1
  BY <1>2, HoldersFinite, FS_Singleton, FS_Subset DEF Held
<1> QED BY <1>3

LEMMA OnceStep ==
    ASSUME TypeInv, TypeInv', OnceInv, NEW c \in Calls, Step(c) \/ Fails(c)
    PROVE  OnceInv'
<1> USE DEF world
<1>0. /\ call \in [Calls -> Call] /\ call[c] \in Call
      /\ losses \in Nat /\ overlaps \in Nat /\ unreads \in Nat
      /\ losses' \in Nat /\ overlaps' \in Nat
  BY DEF TypeInv, TypeOK
<1>r. AtRange(c) => call[c].r \in Ranges /\ Lives(c)
  BY AtRangeLives DEF TypeInv, CallsAreAt, Placed, AtRange
<1>i. Idle.at = "none" /\ Idle.todo = {}
  BY DEF Idle
\* Steps of the call that keep the ids of its copy, or save them.
<1>k. ASSUME beads' = beads, losses' = losses, overlaps' = overlaps, Lives(c),
             \A d \in Calls \ {c} : call'[d] = call[d],
             \/ Lives(c)' /\ call'[c].s.filed = call[c].s.filed
             \/ ~Lives(c)' /\ st'.filed = call[c].s.filed,
             At(c, "file")' /\ call'[c].re => call'[c].n = 1
      PROVE  OnceInv'
  <2>1. ASSUME NEW r \in Ranges, NEW i \in Findings PROVE Held(r, i)' <= Held(r, i)
    <3>1. call[c].s.filed[r] \in Nat
      BY FiledNat
    <3>2. \/ Lives(c)' /\ call'[c].s.filed[r] >= call[c].s.filed[r]
          \/ ~Lives(c)' /\ st'.filed[r] = call[c].s.filed[r]
      BY <1>k, <3>1
    <3> QED BY <1>k, <3>2, HeldMoves
  <2>2. \A d \in Calls : At(d, "file")' => call'[d] = call[d] \/ (call'[d].re => call'[d].n = 1)
    BY <1>k
  <2> QED BY <1>0, <1>k, <2>1, <2>2, OnceKept
<1>1. CASE NextRange(c)
  <2>1. beads' = beads /\ losses' = losses /\ overlaps' = overlaps
    BY <1>1 DEF NextRange, NoTrouble
  <2>2. ASSUME NEW q \in call[c].todo,
               call' = [call EXCEPT ![c].at = "read", ![c].r = q, ![c].todo = @ \ {q}]
        PROVE  OnceInv'
    <3>1. /\ call'[c].at = "read" /\ call'[c].s = call[c].s
          /\ \A d \in Calls \ {c} : call'[d] = call[d]
      BY <1>0, <2>2 DEF Call
    <3>2. Lives(c) /\ Lives(c)' /\ ~At(c, "file")'
      <4>1. call[c].at = "next" /\ call[c].todo # {}
        BY <1>1, <2>2 DEF NextRange, At
      <4> QED BY <1>i, <3>1, <4>1 DEF Lives, Active, At
    <3> QED BY <1>k, <2>1, <3>1, <3>2
  <2>3. ASSUME call[c].todo = {}, call' = [call EXCEPT ![c].at = "due", ![c].r = NoRange],
               st' = IF call[c].r = NoRange THEN st ELSE call[c].s
        PROVE  OnceInv'
    <3>1. call'[c].at = "due" /\ \A d \in Calls \ {c} : call'[d] = call[d]
      BY <1>0, <2>3 DEF Call
    <3>2. ~Lives(c)' /\ ~At(c, "file")'
      BY <3>1 DEF Lives, At
    <3>3. CASE call[c].r = NoRange
      <4>1. ~Lives(c) /\ st' = st
        BY <1>1, <2>3, <3>3 DEF NextRange, Lives, At
      <4>2. \A r \in Ranges : \A i \in Findings : Held(r, i)' <= Held(r, i)
        BY <3>1, <3>2, <4>1, HeldStays
      <4>3. \A d \in Calls : At(d, "file")' => call'[d] = call[d] \/ (call'[d].re => call'[d].n = 1)
        BY <3>1, <3>2
      <4> QED BY <1>0, <2>1, <4>2, <4>3, OnceKept
    <3>4. CASE call[c].r # NoRange
      <4>1. Lives(c) /\ st' = call[c].s
        BY <1>1, <2>3, <3>4 DEF NextRange, Lives, Active, Idle, At
      <4> QED BY <1>k, <2>1, <3>1, <3>2, <4>1
    <3> QED BY <3>3, <3>4
  <2> QED BY <1>1, <2>2, <2>3 DEF NextRange
<1>2. CASE NoVerdict(c)
  <2>0. call[c].r \in Ranges /\ Lives(c)
    BY <1>2, <1>r DEF NoVerdict, At, AtRange
  <2>1. /\ call'[c].s = call[c].s /\ call'[c].at \in {"dispatch", "next"} /\ call'[c].r = call[c].r
        /\ \A d \in Calls \ {c} : call'[d] = call[d]
    BY <1>0, <1>2 DEF NoVerdict, ReadAgain, Call
  <2>2. Lives(c)' /\ ~At(c, "file")'
    BY <2>0, <2>1, StartTyped DEF Lives, Active, Idle, At
  <2> QED BY <1>2, <1>k, <2>0, <2>1, <2>2 DEF NoVerdict, NoTrouble
<1>3. CASE ReadVerdict(c)
  <2>0. call[c].r \in Ranges /\ Lives(c)
    BY <1>3, <1>r DEF ReadVerdict, At, AtRange
  <2> DEFINE f == file[call[c].r]
             k == [call[c] EXCEPT !.at = "file", !.n = IF f.kind = "ready" THEN f.n ELSE 1,
                                  !.re = f.kind # "ready"]
  <2>1. call'[c] = k /\ \A d \in Calls \ {c} : call'[d] = call[d]
    BY <1>0, <1>3 DEF ReadVerdict
  <2>2. /\ k.s = call[c].s /\ k.at = "file" /\ k.re = (f.kind # "ready")
        /\ k.n = IF f.kind = "ready" THEN f.n ELSE 1
    BY <1>0 DEF Call
  <2> HIDE DEF k, f
  <2>3. Lives(c)' /\ (call'[c].re => call'[c].n = 1)
    <3>1. call'[c].at = "file"
      BY <2>1, <2>2
    <3>2. call'[c].re => call'[c].n = 1
      BY <2>1, <2>2, Zenon
    <3> QED BY <1>i, <3>1, <3>2 DEF Lives, Active
  <2> QED BY <1>3, <1>k, <2>0, <2>1, <2>2, <2>3 DEF ReadVerdict, NoTrouble
<1>4. CASE FileFinding(c)
  <2>0. call[c].r \in Ranges
    BY <1>4, <1>r DEF FileFinding, Unfiled, At, AtRange
  <2>1. At(c, "file") /\ call[c].re => call[c].n = 1
    BY DEF OnceInv
  <2>2. losses' = losses /\ overlaps' = overlaps /\ BrCreate(c)
    BY <1>4 DEF FileFinding, NoTrouble
  <2>3. ASSUME NEW r \in Ranges, NEW i \in Findings
        PROVE  beads'[r][i] + Held(r, i)' <= 1 + losses' + overlaps'
    <3>1. beads[r][i] \in Nat /\ Held(r, i) \in Nat /\ Held(r, i)' \in Nat
      BY BeadsTyped, HoldersFinite
    <3>2. beads[r][i] + Held(r, i) <= 1 + losses + overlaps
      BY DEF OnceInv
    <3>3. beads'[r][i] = IF r = call[c].r /\ i = Item(c) THEN beads[r][i] + 1 ELSE beads[r][i]
      BY <2>2, CreatedBead
    <3>4. CASE r = call[c].r /\ i = Item(c)
      <4>1. Held(r, i)' <= Held(r, i) - 1
        BY <1>4, <2>1, <3>4, FilingHeld
      <4> QED BY <1>0, <2>2, <3>1, <3>2, <3>3, <3>4, <4>1
    <3>5. CASE ~(r = call[c].r /\ i = Item(c))
      <4>1. Held(r, i)' <= Held(r, i)
        BY <1>4, <2>1, FilingHeld
      <4>2. beads'[r][i] = beads[r][i]
        BY <3>3, <3>5
      <4> QED BY <1>0, <2>2, <3>1, <3>2, <4>1, <4>2
    <3> QED BY <3>4, <3>5
  <2>4. ASSUME NEW d \in Calls, At(d, "file")', call'[d].re PROVE call'[d].n = 1
    <3>1. CASE d = c
      <4>1. call'[c].re = call[c].re /\ call'[c].n = call[c].n
        BY <1>4, <2>0, <2>1, FindingsAre, FilingHeld
      <4> QED BY <1>4, <2>1, <2>4, <3>1, <4>1 DEF FileFinding, Unfiled
    <3>2. CASE d # c
      BY <1>0, <1>4, <2>4, <3>2 DEF FileFinding, OnceInv, At
    <3> QED BY <3>1, <3>2
  <2> QED BY <2>3, <2>4 DEF OnceInv
<1>5. CASE Settle(c)
  <2>0. call[c].r \in Ranges /\ Lives(c)
    BY <1>5, <1>r DEF Settle, At, AtRange
  <2> DEFINE s == Settled(call[c].s, call[c].r)
             k == [call[c] EXCEPT !.at = "next", !.n = 0, !.re = FALSE, !.s = s]
  <2>1. s.filed = call[c].s.filed
    BY <1>0 DEF Settled, Call, State
  <2>2. k.s = s /\ k.at = "next" /\ k.r = call[c].r
    BY <1>0 DEF Call
  <2>3. \/ st' = s /\ call' = [call EXCEPT ![c] = Idle]
        \/ call' = [call EXCEPT ![c] = k]
    BY <1>5 DEF Settle, Finish
  <2> HIDE DEF s, k
  <2>4. CASE st' = s /\ call' = [call EXCEPT ![c] = Idle]
    <3>1. call'[c] = Idle /\ \A d \in Calls \ {c} : call'[d] = call[d]
      BY <1>0, <2>4
    <3>2. ~Lives(c)' /\ ~At(c, "file")'
      BY <3>1 DEF Lives, Active, At, Idle
    <3> QED BY <1>5, <1>k, <2>0, <2>1, <2>4, <3>1, <3>2 DEF Settle, NoTrouble
  <2>5. CASE call' = [call EXCEPT ![c] = k]
    <3>1. call'[c] = k /\ \A d \in Calls \ {c} : call'[d] = call[d]
      BY <1>0, <2>5
    <3>2. Lives(c)' /\ ~At(c, "file")'
      BY <2>0, <2>2, <3>1, StartTyped DEF Lives, Active, At, Idle
    <3> QED BY <1>5, <1>k, <2>0, <2>1, <2>2, <3>1, <3>2 DEF Settle, NoTrouble
  <2> QED BY <2>3, <2>4, <2>5
<1>6. CASE Dispatch(c)
  <2>0. Lives(c)
    BY <1>6, <1>r DEF Dispatch, At, AtRange
  <2>1. st'.filed = call[c].s.filed
    BY <1>0, <1>6 DEF Dispatch, Recorded, Call, State
  <2>2. call'[c] = Idle /\ \A d \in Calls \ {c} : call'[d] = call[d]
    BY <1>0, <1>6 DEF Dispatch, Finish
  <2>3. ~Lives(c)' /\ ~At(c, "file")'
    BY <2>2 DEF Lives, Active, At, Idle
  <2> QED BY <1>6, <1>k, <2>0, <2>1, <2>2, <2>3 DEF Dispatch, NoTrouble
<1>7. CASE Due(c)
  <2>1. call'[c] = Idle /\ \A d \in Calls \ {c} : call'[d] = call[d]
    BY <1>0, <1>7 DEF Due, Finish
  <2>2. ~Lives(c) /\ ~Lives(c)' /\ ~At(c, "file")' /\ st' = st
    BY <1>7, <2>1 DEF Due, Lives, Active, At, Idle
  <2>3. \A r \in Ranges : \A i \in Findings : Held(r, i)' <= Held(r, i)
    BY <2>1, <2>2, HeldStays
  <2>4. \A d \in Calls : At(d, "file")' => call'[d] = call[d] \/ (call'[d].re => call'[d].n = 1)
    BY <2>1, <2>2
  <2>5. beads' = beads /\ losses' = losses /\ overlaps' = overlaps
    BY <1>7 DEF Due, NoTrouble
  <2> QED BY <1>0, <2>3, <2>4, <2>5, OnceKept
<1>8. CASE ReadFails(c)
  <2>1. AtRange(c) /\ Thrown(c) /\ beads' = beads /\ losses' = losses /\ overlaps' = overlaps
    BY <1>8 DEF ReadFails, AtRange, At
  <2> QED BY <1>0, <2>1, ThrownHeld, OnceKept
<1>9. CASE CreateFails(c)
  <2>1. AtRange(c) /\ Thrown(c) /\ beads' = beads /\ losses' = losses /\ overlaps' = overlaps
    BY <1>9 DEF CreateFails, Unfiled, AtRange, At, NoTrouble
  <2> QED BY <1>0, <2>1, ThrownHeld, OnceKept
<1>10. CASE CreateUnanswered(c)
  <2>1. AtRange(c) /\ Thrown(c) /\ BrCreate(c) /\ losses' = losses + 1 /\ overlaps' = overlaps
    BY <1>10 DEF CreateUnanswered, Unfiled, AtRange, At, Loses
  <2>2. ASSUME NEW r \in Ranges, NEW i \in Findings
        PROVE  beads'[r][i] + Held(r, i)' <= 1 + losses' + overlaps'
    <3>1. beads[r][i] \in Nat /\ Held(r, i) \in Nat /\ Held(r, i)' \in Nat
      BY BeadsTyped, HoldersFinite
    <3>2. beads[r][i] + Held(r, i) <= 1 + losses + overlaps
      BY DEF OnceInv
    <3>3. beads'[r][i] = beads[r][i] \/ beads'[r][i] = beads[r][i] + 1
      BY <2>1, CreatedBead
    <3>4. Held(r, i)' <= Held(r, i)
      BY <2>1, ThrownHeld
    <3> QED BY <1>0, <2>1, <3>1, <3>2, <3>3, <3>4
  <2>3. \A d \in Calls : At(d, "file")' /\ call'[d].re => call'[d].n = 1
    BY <2>1, ThrownHeld DEF OnceInv, At
  <2> QED BY <2>2, <2>3 DEF OnceInv
<1> QED BY <1>1, <1>2, <1>3, <1>4, <1>5, <1>6, <1>7, <1>8, <1>9, <1>10 DEF Step, Fails

\* Filing is repeated only for what was lost: a finding has one bead, and at most
\* one more for each lost answer, crash or overlapping call, for every number
\* of findings, calls and troubles.
THEOREM FiledAgainOnlyIfLost == Spec => []FiledOncePerLoss
<1>1. Init => OnceInv
  <2> SUFFICES ASSUME Init PROVE OnceInv
    OBVIOUS
  <2>1. ASSUME NEW r \in Ranges, NEW i \in Findings PROVE beads[r][i] + Held(r, i) <= 1 + losses + overlaps
    <3>1. Holders(r, i) \subseteq {0}
      BY DEF Init, Holders, Lives, Active
    <3>2. Held(r, i) \in Nat /\ Held(r, i) <= Cardinality({0}) /\ Cardinality({0}) = 1
      BY <3>1, HoldersFinite, FS_Singleton, FS_Subset DEF Held
    <3>3. beads[r][i] = 0 /\ losses = 0 /\ overlaps = 0
      BY DEF Init
    <3> QED BY <3>2, <3>3
  <2> QED BY <2>1 DEF Init, OnceInv, At, Idle
<1>2. TypeInv /\ TypeInv' /\ OnceInv /\ [Next]_vars => OnceInv'
  <2> SUFFICES ASSUME TypeInv, TypeInv', OnceInv, [Next]_vars PROVE OnceInv'
    OBVIOUS
  <2>0. losses \in Nat /\ overlaps \in Nat /\ losses' \in Nat /\ overlaps' \in Nat
    BY DEF TypeInv, TypeOK
  <2>1. CASE UNCHANGED <<st, beads, call, losses, overlaps>>
    <3>1. ASSUME NEW r \in Ranges, NEW i \in Findings PROVE Held(r, i)' <= Held(r, i)
      <4>1. Holders(r, i)' \subseteq Holders(r, i)
        BY <2>1 DEF Holders, Lives, Active, Unfiles
      <4> QED BY <4>1, FewerHold
    <3> QED BY <2>0, <2>1, <3>1, OnceKept
  <2>2. CASE Crash
    <3>1. beads' = beads /\ losses' = losses + 1 /\ overlaps' = overlaps
      BY <2>2 DEF Crash, Loses
    <3>2. ASSUME NEW r \in Ranges, NEW i \in Findings
          PROVE  beads'[r][i] + Held(r, i)' <= 1 + losses' + overlaps'
      <4>1. beads[r][i] \in Nat /\ Held(r, i) \in Nat /\ Held(r, i)' \in {0, 1}
        BY <2>2, BeadsTyped, HoldersFinite, CrashHeld
      <4>2. beads[r][i] + Held(r, i) <= 1 + losses + overlaps
        BY DEF OnceInv
      <4> QED BY <2>0, <3>1, <4>1, <4>2
    <3>3. \A c \in Calls : ~At(c, "file")'
      BY <2>2 DEF Crash, At, Idle
    <3> QED BY <3>2, <3>3 DEF OnceInv
  <2>3. ASSUME NEW c \in Calls, ReviewBegins(c) \/ AdvanceBegins(c) PROVE OnceInv'
    <3>1. PICK op, at, q, todo : Begins(c, op, at, q, todo) /\ at # "file"
      BY <2>3 DEF ReviewBegins, AdvanceBegins
    <3>2. beads' = beads /\ losses' = losses
      BY <3>1 DEF Begins, NoTrouble
    <3>3. ASSUME NEW r \in Ranges, NEW i \in Findings
          PROVE  beads'[r][i] + Held(r, i)' <= 1 + losses' + overlaps'
      <4>1. beads[r][i] \in Nat /\ Held(r, i) \in Nat /\ Held(r, i)' \in Nat
        BY BeadsTyped, HoldersFinite
      <4>2. beads[r][i] + Held(r, i) <= 1 + losses + overlaps
        BY DEF OnceInv
      <4>3. Held(r, i)' + overlaps <= Held(r, i) + overlaps'
        BY <3>1, BeginHeld
      <4> QED BY <2>0, <3>2, <4>1, <4>2, <4>3
    <3>4. call'[c].at # "file" /\ \A d \in Calls \ {c} : call'[d] = call[d]
      BY <3>1, BeginCopies
    <3> QED BY <3>3, <3>4 DEF OnceInv, At
  <2>4. ASSUME NEW c \in Calls, Step(c) \/ Fails(c) PROVE OnceInv'
    BY <2>4, OnceStep
  <2> QED BY <2>1, <2>2, <2>3, <2>4
          DEF Next, vars, Commit, ReviewerWrites, ReviewerRewrites
<1>3. TypeOK /\ OnceInv => FiledOncePerLoss
  <2> SUFFICES ASSUME TypeOK, OnceInv, NEW r \in Ranges, NEW i \in DOMAIN beads[r]
               PROVE  beads[r][i] <= 1 + losses + overlaps
    BY DEF FiledOncePerLoss
  <2>1. i \in Findings
    BY DEF TypeOK
  <2>2. beads[r][i] \in Nat /\ Held(r, i) \in Nat /\ losses \in Nat /\ overlaps \in Nat
    BY <2>1, BeadsNat, HoldersFinite DEF TypeOK
  <2>3. beads[r][i] + Held(r, i) <= 1 + losses + overlaps
    BY <2>1 DEF OnceInv
  <2> QED BY <2>2, <2>3
<1> QED BY <1>1, <1>2, <1>3, TypeInvariant, TypeCorrect, PTL DEF Spec
=============================================================================
