------------------------ MODULE VerificationGateProofs ------------------------
(***************************************************************************)
(* Theorems about VerificationGate, for every set of beads, every branch   *)
(* and every number of calls, overlaps and failures.                       *)
(***************************************************************************)
EXTENDS VerificationGate, WellFoundedInduction, TLAPS

\* Where a call is, it has what that place needs.
Placed(k) ==
    /\ k.at = "none" => k = Idle
    /\ k.at \in {"head", "truncate", "fill"} => k.op = "verify"
    /\ k.at \in {"attest", "next", "ancestor", "log", "assess"} => k.op = "gate"
    /\ k.at \in {"look", "append"} => k.op \in {"verify", "gate"}
    /\ k.at \in Places \ {"none", "attest", "next"} => k.b \in Beads
    /\ k.at \in {"truncate", "fill", "ancestor", "log", "assess", "look", "append"} => k.block \in Block
    /\ k.at \in {"truncate", "fill", "assess", "look", "append"} => k.range.head \in Shas
    /\ k.at \in {"truncate", "fill", "look", "append"} => k.verdict \in Verdicts

\* A gate looks at a bead once.
Sorted(k) ==
    k.op = "gate" =>
        /\ k.todo \cap k.fails = {} /\ k.b \notin k.todo
        /\ k.at \in {"ancestor", "log", "assess"} => k.b \notin k.fails
        /\ k.at = "attest" => k.fails = {} /\ k.b = None

CallsOK == call \in [Calls -> Call] /\ \A c \in Calls : Placed(call[c]) /\ Sorted(call[c])
TypeInv == TypeOK /\ CallsOK

LEMMA ShasTyped ==
    /\ Start \in Shas /\ NoRange.base \in Shas \cup {NoSha} /\ NoRange.head \in Shas \cup {NoSha}
    /\ Idle \in Call /\ Placed(Idle) /\ Sorted(Idle)
    /\ NoBlock \notin Block /\ None \in Files /\ Beads \subseteq Files
<1>1. <<>> \in Seq(Commits)
  OBVIOUS
<1>2. Start \in Shas
  BY <1>1 DEF Start, Shas
<1>3. NoRange.base = NoSha /\ NoRange.head = NoSha /\ NoRange \in [base : Shas \cup {NoSha}, head : Shas \cup {NoSha}]
  BY DEF NoRange
<1>4. None \in Files /\ Beads \subseteq Files
  BY DEF Files
<1>5. Idle \in Call
  BY <1>3, <1>4 DEF Idle, Call, Places
<1>6. Placed(Idle) /\ Sorted(Idle)
  BY DEF Idle, Placed, Sorted, Places
<1>7. NoBlock \notin Block
  BY DEF NoBlock, Block, Verdicts
<1> QED BY <1>2, <1>3, <1>4, <1>5, <1>6, <1>7

\* A set of naturals has a least member.
LEMMA Smallest ==
    ASSUME NEW S \in SUBSET Nat, S # {}
    PROVE  \E x \in S : \A y \in S : x <= y
<1> DEFINE R == {ss \in Nat \X Nat : ss[1] < ss[2]}
<1>1. IsWellFoundedOn(R, Nat)
  BY NatLessThanWellFounded DEF OpToRel
<1> HIDE DEF R
<1>2. PICK x \in S : \A y \in S : <<y, x>> \notin R
  BY <1>1, WFMin
<1>3. ASSUME NEW y \in S PROVE x <= y
  <2>1. x \in Nat /\ y \in Nat
    OBVIOUS
  <2>2. ~(y < x)
    BY <1>2, <2>1 DEF R
  <2> QED BY <2>1, <2>2
<1> QED BY <1>3

\* A prefix of a branch is a branch.
LEMMA PrefixTyped ==
    ASSUME NEW s \in Shas, NEW n \in 0..Len(s.log)
    PROVE  Prefix(s, n) \in Shas
<1>1. s.log \in Seq(Commits) /\ s.up \in Nat
  BY DEF Shas
<1>2. SubSeq(s.log, 1, n) \in Seq(Commits)
  BY <1>1
<1> QED BY <1>1, <1>2 DEF Prefix, Shas

\* The commits that name a bead, if there are any, have a first and a last.
LEMMA NamedRangeTyped ==
    ASSUME NEW s \in Shas, NEW b, Naming(s, b) # {}
    PROVE  NamedRange(s, b) \in [base : Shas, head : Shas]
<1> DEFINE N == Naming(s, b)
           L == Len(s.log)
<1>1. L \in Nat /\ N \subseteq 1..L
  BY DEF Shas, Naming
<1>2. \E i \in N : \A j \in N : i <= j
  BY <1>1, Smallest
<1>3. \E i \in N : \A j \in N : j <= i
  <2> DEFINE M == {L - i : i \in N}
  <2>1. M \in SUBSET Nat /\ M # {}
    BY <1>1
  <2>2. PICK m \in M : \A x \in M : m <= x
    BY <2>1, Smallest
  <2>3. PICK i \in N : m = L - i
    OBVIOUS
  <2>4. \A j \in N : L - i <= L - j
    BY <2>2, <2>3
  <2>5. i \in Int /\ \A j \in N : j \in Int
    BY <1>1
  <2>6. \A j \in N : j <= i
    BY <1>1, <2>4, <2>5
  <2> QED BY <2>6
<1>4. Oldest(s, b) \in N
  BY <1>2 DEF Oldest
<1>5. Newest(s, b) \in N
  BY <1>3 DEF Newest
<1>6. Oldest(s, b) - 1 \in 0..L /\ Newest(s, b) \in 0..L
  BY <1>1, <1>4, <1>5
<1> QED BY <1>6, PrefixTyped DEF NamedRange

LEMMA CallGoes ==
    ASSUME CallsOK, NEW c \in Calls, NEW k \in Call, Placed(k), Sorted(k), Goes(c, k)
    PROVE  CallsOK' /\ call'[c] = k /\ \A d \in Calls : d # c => call'[d] = call[d]
<1>1. call \in [Calls -> Call] /\ call' = [call EXCEPT ![c] = k]
  BY DEF CallsOK, Goes
<1>2. \A d \in Calls : call'[d] = IF d = c THEN k ELSE call[d]
  BY <1>1
<1> QED BY <1>1, <1>2 DEF CallsOK

\* What follows an append.
LEMMA AppendedTyped ==
    ASSUME NEW k \in Call, Placed(k), Sorted(k), k.at # "none"
    PROVE  Appended(k) \in Call /\ Placed(Appended(k)) /\ Sorted(Appended(k))
<1>1. CASE k.op = "verify"
  BY <1>1, ShasTyped DEF Appended
<1>2. CASE k.op # "verify"
  <2> DEFINE m == [k EXCEPT !.at = "next", !.b = None, !.block = NoBlock, !.range = NoRange,
                            !.verdict = "none", !.torn = FALSE]
  <2>1. k.op = "gate" /\ k.todo \subseteq Beads
    BY <1>2 DEF Placed, Call, Places
  <2>2. /\ m.at = "next" /\ m.op = "gate" /\ m.todo = k.todo /\ m.fails = k.fails /\ m.b = None
    BY <2>1 DEF Call
  <2>3. m \in Call
    BY ShasTyped DEF Call, Places, NoRange
  <2> HIDE DEF m
  <2>4. Placed(m)
    BY <2>2 DEF Placed, Places
  <2>5. Sorted(m)
    BY <2>1, <2>2, GateAssumption DEF Sorted
  <2> QED BY <1>2, <2>3, <2>4, <2>5 DEF Appended, m
<1> QED BY <1>1, <1>2

\* The rest of the types: the branch, the reports, the ledger, the histories.
BranchOK == start \in {Start, NoSha} /\ head \in Shas /\ moves \in Nat
FilesOK  == /\ rep \in [Beads -> Reports] /\ wrote \in [Beads -> [n : Nat, now : BOOLEAN]]
            /\ ledger \in {"none", "whole", "torn"} /\ rows \subseteq Row
SeenOK   == /\ answer \in {"none", "passed", "refused"} /\ listed \subseteq Beads /\ crossed \subseteq Beads
            /\ glued \in Nat /\ raced \in Nat /\ lost \in Nat /\ overlaps \in Nat
LEMMA Parts == TypeInv <=> BranchOK /\ FilesOK /\ SeenOK /\ CallsOK
BY DEF TypeInv, TypeOK, BranchOK, FilesOK, SeenOK, CallsOK

LEMMA TroubleTyped ==
    ASSUME SeenOK, NoTrouble \/ Loses \/ (overlaps' = overlaps + 1 /\ UNCHANGED lost)
    PROVE  lost' \in Nat /\ overlaps' \in Nat
BY DEF SeenOK, NoTrouble, Loses

\* The branch moves to another sha.
LEMMA BranchMoves ==
    ASSUME TypeInv, Commit \/ Amend \/ Drop \/ Rebase PROVE TypeInv'
<1>t. BranchOK /\ FilesOK /\ SeenOK /\ CallsOK
  BY Parts
<1>h. head.log \in Seq(Commits) /\ head.up \in Nat /\ head = [up |-> head.up, log |-> head.log]
  BY <1>t DEF BranchOK, Shas
<1>m. ASSUME NEW s \in Shas, Moves(s) PROVE TypeInv'
  <2>1. BranchOK'
    BY <1>m, <1>t DEF Moves, BranchOK
  <2>2. FilesOK' /\ SeenOK'
    BY <1>m, <1>t DEF Moves, FilesOK, SeenOK, reports, trail, gate
  <2>3. CallsOK'
    BY <1>m, <1>t DEF Moves, CallsOK, Placed, Sorted
  <2> QED BY <2>1, <2>2, <2>3, Parts DEF TypeInv, TypeOK, BranchOK, FilesOK, SeenOK, CallsOK
<1>1. CASE Commit
  <2>0. PICK f \in Files : \E b \in {f, None} :
          Moves([head EXCEPT !.log = Append(@, [names |-> b, file |-> f, v |-> Changed(f)])])
    BY <1>1 DEF Commit
  <2>1. PICK b \in {f, None} :
          Moves([head EXCEPT !.log = Append(@, [names |-> b, file |-> f, v |-> Changed(f)])])
    BY <2>0
  <2>2. \E v \in Versions : v # Content(head, f)
    BY GateAssumption
  <2>3. Changed(f) \in Versions
    BY <2>2 DEF Changed
  <2>4. [names |-> b, file |-> f, v |-> Changed(f)] \in Commits
    BY <2>3, ShasTyped DEF Commits
  <2>5. Append(head.log, [names |-> b, file |-> f, v |-> Changed(f)]) \in Seq(Commits)
    BY <1>h, <2>4
  <2>6. [head EXCEPT !.log = Append(@, [names |-> b, file |-> f, v |-> Changed(f)])] \in Shas
    BY <1>h, <2>5 DEF Shas
  <2> QED BY <1>m, <2>1, <2>6
<1>2. CASE Amend
  <2> DEFINE n == Len(head.log)
  <2>1. PICK v \in Versions : Moves([head EXCEPT !.log[Len(head.log)].v = v])
    BY <1>2 DEF Amend
  <2>2. n \in 1..Len(head.log) /\ head.log[n] \in Commits
    BY <1>2, <1>h DEF Amend
  <2>3. [head.log[n] EXCEPT !.v = v] \in Commits
    BY <2>2 DEF Commits
  <2>4. [head.log EXCEPT ![n] = [head.log[n] EXCEPT !.v = v]] \in Seq(Commits)
    BY <1>h, <2>2, <2>3
  <2>5. [head EXCEPT !.log[Len(head.log)].v = v] = [head EXCEPT !.log = [head.log EXCEPT ![n] = [head.log[n] EXCEPT !.v = v]]]
    OBVIOUS
  <2>6. [head EXCEPT !.log = [head.log EXCEPT ![n] = [head.log[n] EXCEPT !.v = v]]] \in Shas
    BY <1>h, <2>4 DEF Shas
  <2> QED BY <1>m, <2>1, <2>5, <2>6
<1>3. CASE Drop
  <2>1. Len(head.log) - 1 \in 0..Len(head.log)
    BY <1>3, <1>h DEF Drop
  <2>2. Prefix(head, Len(head.log) - 1) \in Shas
    BY <1>t, <2>1, PrefixTyped DEF BranchOK
  <2> QED BY <1>3, <1>m, <2>2 DEF Drop
<1>4. CASE Rebase
  <2>1. [head EXCEPT !.up = @ + 1] \in Shas
    BY <1>h DEF Shas
  <2> QED BY <1>4, <1>m, <2>1 DEF Rebase
<1> QED BY <1>1, <1>2, <1>3, <1>4

LEMMA ImplementerTyped ==
    ASSUME TypeInv, NEW b \in Beads, ImplementerBegins(b) \/ ImplementerEnds(b) PROVE TypeInv'
<1>t. BranchOK /\ FilesOK /\ SeenOK /\ CallsOK
  BY Parts
<1>w. wrote[b].n \in Nat /\ wrote[b] \in [n : Nat, now : BOOLEAN]
  BY <1>t DEF FilesOK
<1>1. \A n \in Nat : [kind |-> "torn", n |-> n, block |-> NoBlock] \in Reports /\ [kind |-> "whole", n |-> n, block |-> NoBlock] \in Reports
  BY DEF Reports
<1>2. rep' \in [Beads -> Reports]
  <2>1. [kind |-> "torn", n |-> 0, block |-> NoBlock] \in Reports /\ [kind |-> "whole", n |-> wrote[b].n, block |-> NoBlock] \in Reports
    BY <1>w, <1>1
  <2>2. \/ rep' = [rep EXCEPT ![b] = [kind |-> "torn", n |-> 0, block |-> NoBlock]]
        \/ rep' = [rep EXCEPT ![b] = [kind |-> "whole", n |-> wrote[b].n, block |-> NoBlock]]
    BY DEF ImplementerBegins, ImplementerEnds
  <2> QED BY <1>t, <2>1, <2>2 DEF FilesOK
<1>3. wrote' \in [Beads -> [n : Nat, now : BOOLEAN]]
  <2>1. CASE ImplementerEnds(b)
    <3>1. [wrote[b] EXCEPT !.now = FALSE] \in [n : Nat, now : BOOLEAN]
      BY <1>w
    <3>2. wrote' = [wrote EXCEPT ![b] = [wrote[b] EXCEPT !.now = FALSE]]
      BY <2>1 DEF ImplementerEnds
    <3> QED BY <1>t, <3>1, <3>2 DEF FilesOK
  <2>2. CASE ImplementerBegins(b)
    <3>1. [wrote[b] EXCEPT !.now = TRUE] \in [n : Nat, now : BOOLEAN]
      BY <1>w
    <3>2. \/ wrote' = [wrote EXCEPT ![b] = [n |-> 1, now |-> TRUE]]
          \/ wrote' = [wrote EXCEPT ![b] = [n |-> wrote[b].n + 1, now |-> TRUE]]
          \/ wrote' = [wrote EXCEPT ![b] = [wrote[b] EXCEPT !.now = TRUE]]
      BY <2>2 DEF ImplementerBegins
    <3>3. [n |-> 1, now |-> TRUE] \in [n : Nat, now : BOOLEAN] /\ [n |-> wrote[b].n + 1, now |-> TRUE] \in [n : Nat, now : BOOLEAN]
      BY <1>w
    <3> QED BY <1>t, <3>1, <3>2, <3>3 DEF FilesOK
  <2> QED BY <2>1, <2>2
<1>4. /\ UNCHANGED <<start, head, moves, ledger, rows, glued, raced, call, answer, listed>>
      /\ crossed' \subseteq Beads
      /\ NoTrouble \/ (overlaps' = overlaps + 1 /\ UNCHANGED lost)
  BY <1>t DEF ImplementerBegins, ImplementerEnds, Crosses, NoTrouble, branch, trail, gate, SeenOK
<1>5. lost' \in Nat /\ overlaps' \in Nat
  BY <1>t, <1>4, TroubleTyped
<1>6. CallsOK'
  BY <1>t, <1>4 DEF CallsOK, Placed, Sorted
<1>7. BranchOK' /\ FilesOK' /\ SeenOK'
  BY <1>t, <1>2, <1>3, <1>4, <1>5 DEF BranchOK, FilesOK, SeenOK
<1> QED BY <1>6, <1>7 DEF TypeInv, TypeOK, BranchOK, FilesOK, SeenOK, CallsOK

LEMMA CrashTyped == ASSUME TypeInv, Crash PROVE TypeInv'
<1>t. BranchOK /\ FilesOK /\ SeenOK /\ CallsOK
  BY Parts
<1>1. /\ UNCHANGED <<start, head, moves, rep, wrote, crossed, rows, glued, raced, answer, listed>>
      /\ ledger' \in {ledger, "torn"} /\ call' = [c \in Calls |-> Idle]
  BY DEF Crash, branch, reports, gate
<1>2. lost' \in Nat /\ overlaps' \in Nat
  BY <1>t, TroubleTyped DEF Crash
<1>3. CallsOK'
  BY <1>1, ShasTyped DEF CallsOK
<1>4. BranchOK' /\ FilesOK' /\ SeenOK'
  BY <1>t, <1>1, <1>2 DEF BranchOK, FilesOK, SeenOK
<1> QED BY <1>3, <1>4 DEF TypeInv, TypeOK, BranchOK, FilesOK, SeenOK, CallsOK

\* A step of a call: what it has to show.
LEMMA StepTyped ==
    ASSUME TypeInv, NEW c \in Calls, NEW k \in Call, Placed(k), Sorted(k), Goes(c, k),
           UNCHANGED <<branch, wrote, crossed>>, rep' \in [Beads -> Reports],
           ledger' \in {"none", "whole", "torn"}, rows' \subseteq Row,
           answer' \in {"none", "passed", "refused"}, listed' \subseteq Beads,
           glued' \in Nat, raced' \in Nat, NoTrouble \/ Loses \/ (overlaps' = overlaps + 1 /\ UNCHANGED lost)
    PROVE  TypeInv'
<1>t. BranchOK /\ FilesOK /\ SeenOK /\ CallsOK
  BY Parts
<1>1. lost' \in Nat /\ overlaps' \in Nat
  BY <1>t, TroubleTyped
<1>2. CallsOK'
  BY <1>t, CallGoes
<1>3. BranchOK' /\ FilesOK' /\ SeenOK'
  BY <1>t, <1>1 DEF BranchOK, FilesOK, SeenOK, branch
<1> QED BY <1>2, <1>3 DEF TypeInv, TypeOK, BranchOK, FilesOK, SeenOK, CallsOK

\* What the invariant says of the call in slot c.
LEMMA Held ==
    ASSUME TypeInv, NEW c \in Calls
    PROVE  /\ call[c] \in Call /\ Placed(call[c]) /\ Sorted(call[c])
           /\ rep \in [Beads -> Reports] /\ ledger \in {"none", "whole", "torn"} /\ rows \subseteq Row
           /\ answer \in {"none", "passed", "refused"} /\ listed \subseteq Beads
           /\ glued \in Nat /\ raced \in Nat /\ head \in Shas /\ start \in {Start, NoSha}
BY DEF TypeInv, TypeOK, CallsOK

LEMMA VerifyBeginsTyped ==
    ASSUME TypeInv, NEW c \in Calls, NEW b \in Beads, VerifyBegins(c, b) PROVE TypeInv'
<1> DEFINE k == [Idle EXCEPT !.op = "verify", !.at = "head", !.b = b, !.n = rep[b].n, !.block = rep[b].block]
<1>1. rep[b].n \in Nat /\ rep[b].block \in Block \cup {NoBlock}
  BY Held DEF Reports
<1>2. k \in Call /\ k.at = "head" /\ k.op = "verify" /\ k.b = b
  BY <1>1, ShasTyped DEF Call, Idle, Places, Files
<1>3. Goes(c, k) /\ (NoTrouble \/ (overlaps' = overlaps + 1 /\ UNCHANGED lost))
  BY DEF VerifyBegins, Begins
<1>4. UNCHANGED <<branch, reports, trail, answer>> /\ listed' = listed \ {b}
  BY DEF VerifyBegins
<1> HIDE DEF k
<1>5. Placed(k) /\ Sorted(k)
  BY <1>2 DEF Placed, Sorted, Places
<1> QED BY <1>2, <1>3, <1>4, <1>5, Held, StepTyped DEF reports, trail

LEMMA VerifyHeadTyped ==
    ASSUME TypeInv, NEW c \in Calls, VerifyHead(c) PROVE TypeInv'
<1> DEFINE base == VerifiedBase(call[c])
           m(v) == [call[c] EXCEPT !.at = "truncate", !.verdict = v,
                        !.block = [verdict |-> v, base |-> base, head |-> head],
                        !.range = [base |-> base, head |-> head]]
<1>1. PICK v \in {Verdict(base), "verification-failed"} : Goes(c, m(v)) /\ (NoTrouble \/ Loses)
  BY DEF VerifyHead
<1>2. v \in Verdicts
  BY <1>1 DEF Verdict, Verdicts
<1>3. base \in Shas \cup {NoSha}
  BY Held, ShasTyped DEF VerifiedBase, Call, Block
<1>4. call[c].op = "verify" /\ call[c].b \in Beads /\ call[c] \in Call /\ head \in Shas
  BY Held DEF VerifyHead, At, Placed, Places
<1>5. [verdict |-> v, base |-> base, head |-> head] \in Block
  BY <1>2, <1>3, <1>4 DEF Block
<1>6. m(v) \in Call /\ m(v).at = "truncate" /\ m(v).op = "verify" /\ m(v).b = call[c].b /\ m(v).block \in Block
      /\ m(v).range.head = head /\ m(v).verdict = v
  BY <1>2, <1>3, <1>4, <1>5 DEF Call, Places
<1>7. UNCHANGED <<branch, reports, trail, gate>>
  BY DEF VerifyHead
<1> HIDE DEF m, base
<1>8. Placed(m(v)) /\ Sorted(m(v))
  BY <1>2, <1>4, <1>6 DEF Placed, Sorted, Places
<1> QED BY <1>1, <1>6, <1>7, <1>8, Held, StepTyped DEF reports, trail, gate

LEMMA VerifyWritesTyped ==
    ASSUME TypeInv, NEW c \in Calls, VerifyTruncates(c) \/ VerifyFills(c) \/ VerifyFillFails(c) PROVE TypeInv'
<1>h. call[c] \in Call /\ Placed(call[c]) /\ Sorted(call[c]) /\ NoBlock \in Block \cup {NoBlock} /\ 0 \in Nat
  BY Held
<1>1. CASE VerifyTruncates(c)
  <2> DEFINE k == [call[c] EXCEPT !.at = "fill"]
  <2>1. k \in Call /\ k.at = "fill" /\ k.op = call[c].op /\ k.b = call[c].b /\ k.block = call[c].block
        /\ k.range = call[c].range /\ k.verdict = call[c].verdict
    BY <1>h DEF Call, Places
  <2>2. Goes(c, k) /\ NoTrouble /\ call[c].at = "truncate"
    BY <1>1 DEF VerifyTruncates, At
  <2>3. call[c].op = "verify" /\ call[c].b \in Beads /\ call[c].block \in Block
        /\ call[c].range.head \in Shas /\ call[c].verdict \in Verdicts
    BY <1>h, <2>2 DEF Placed, Places
  <2> HIDE DEF k
  <2>4. Placed(k) /\ Sorted(k)
    BY <2>1, <2>3 DEF Placed, Sorted, Places
  <2>5. [kind |-> "torn", n |-> 0, block |-> NoBlock] \in Reports
    BY DEF Reports
  <2>6. rep' \in [Beads -> Reports] /\ UNCHANGED <<branch, wrote, crossed, trail, gate>>
    BY <1>1, <2>3, <2>5, Held DEF VerifyTruncates
  <2> QED BY <2>1, <2>2, <2>4, <2>6, Held, StepTyped DEF trail, gate
<1>2. CASE VerifyFills(c)
  <2> DEFINE k == [call[c] EXCEPT !.at = "look"]
  <2>1. k \in Call /\ k.at = "look" /\ k.op = call[c].op /\ k.b = call[c].b /\ k.block = call[c].block
        /\ k.range = call[c].range /\ k.verdict = call[c].verdict
    BY <1>h DEF Call, Places
  <2>2. Goes(c, k) /\ NoTrouble /\ call[c].at = "fill"
    BY <1>2 DEF VerifyFills, AfterReport, At
  <2>3. call[c].op = "verify" /\ call[c].b \in Beads /\ call[c].block \in Block /\ call[c].n \in Nat
        /\ call[c].range.head \in Shas /\ call[c].verdict \in Verdicts
    BY <1>h, <2>2 DEF Placed, Places, Call
  <2> HIDE DEF k
  <2>4. Placed(k) /\ Sorted(k)
    BY <2>1, <2>3 DEF Placed, Sorted, Places
  <2>5. Stamped(call[c]) \in Reports
    BY <2>3 DEF Reports, Stamped
  <2>6. rep' \in [Beads -> Reports] /\ UNCHANGED <<branch, wrote, crossed, trail, gate>>
    BY <1>2, <2>3, <2>5, Held DEF VerifyFills
  <2> QED BY <2>1, <2>2, <2>4, <2>6, Held, StepTyped DEF trail, gate
<1>3. CASE VerifyFillFails(c)
  BY <1>3, ShasTyped, Held, StepTyped DEF VerifyFillFails, reports, trail, gate
<1> QED BY <1>1, <1>2, <1>3

LEMMA LedgerTyped ==
    ASSUME TypeInv, NEW c \in Calls, LedgerStep(c) \/ AppendFails(c) PROVE TypeInv'
<1>h. call[c] \in Call /\ Placed(call[c]) /\ Sorted(call[c])
  BY Held
<1>1. CASE Header(c)
  <2>t. BranchOK /\ FilesOK /\ SeenOK /\ CallsOK
    BY Parts
  <2>1. UNCHANGED <<start, head, moves, rep, wrote, crossed, rows, glued, raced, call, answer, listed, lost, overlaps>>
        /\ ledger' = "whole"
    BY <1>1 DEF Header, branch, reports, gate, NoTrouble
  <2>2. BranchOK' /\ FilesOK' /\ SeenOK' /\ CallsOK'
    BY <2>t, <2>1 DEF BranchOK, FilesOK, SeenOK, CallsOK, Placed, Sorted
  <2> QED BY <2>2 DEF TypeInv, TypeOK, BranchOK, FilesOK, SeenOK, CallsOK
<1>2. CASE Look(c)
  <2> DEFINE k == [call[c] EXCEPT !.at = "append", !.torn = LookedTorn]
  <2>0. LookedTorn \in BOOLEAN
    BY DEF LookedTorn
  <2>1. k \in Call /\ k.at = "append" /\ k.op = call[c].op /\ k.b = call[c].b /\ k.block = call[c].block
        /\ k.range = call[c].range /\ k.verdict = call[c].verdict /\ k.todo = call[c].todo /\ k.fails = call[c].fails
    BY <1>h, <2>0 DEF Call, Places
  <2>2. Goes(c, k) /\ NoTrouble /\ call[c].at = "look" /\ UNCHANGED <<branch, reports, trail, gate>>
    BY <1>2 DEF Look, At
  <2> HIDE DEF k
  <2>4. Placed(k) /\ Sorted(k)
    BY <1>h, <2>1, <2>2 DEF Placed, Sorted, Places
  <2> QED BY <2>1, <2>2, <2>4, Held, StepTyped DEF reports, trail, gate
<1>3. CASE AppendRow(c)
  <2>1. Goes(c, Appended(call[c])) /\ NoTrouble /\ call[c].at = "append"
    BY <1>3 DEF AppendRow, At
  <2>2. Appended(call[c]) \in Call /\ Placed(Appended(call[c])) /\ Sorted(Appended(call[c]))
    BY <1>h, <2>1, AppendedTyped
  <2>3. RowOf(call[c]) \in Row
    BY <1>h, <2>1 DEF RowOf, Row, Placed, Places
  <2>4. rows' \subseteq Row /\ glued' \in Nat /\ ledger' = "whole" /\ UNCHANGED <<branch, reports, raced, gate>>
    BY <1>3, <2>3, Held DEF AppendRow
  <2> QED BY <2>1, <2>2, <2>4, Held, StepTyped DEF reports, gate
<1>4. CASE AppendFails(c)
  <2>1. Goes(c, Appended(call[c])) /\ Loses /\ call[c].at = "append"
    BY <1>4 DEF AppendFails, At
  <2>2. Appended(call[c]) \in Call /\ Placed(Appended(call[c])) /\ Sorted(Appended(call[c]))
    BY <1>h, <2>1, AppendedTyped
  <2>3. raced' \in Nat /\ ledger' \in {ledger, "torn"} /\ UNCHANGED <<branch, reports, rows, glued, gate>>
    BY <1>4, Held DEF AppendFails
  <2> QED BY <2>1, <2>2, <2>3, Held, StepTyped DEF reports, gate
<1> QED BY <1>1, <1>2, <1>3, <1>4 DEF LedgerStep

\* A step of the gate that writes nothing.
LEMMA GateGoes ==
    ASSUME TypeInv, NEW c \in Calls, NEW k \in Call, k.op = "gate", Placed(k), Sorted(k), Goes(c, k),
           UNCHANGED <<branch, reports, trail>>, NoTrouble \/ Loses \/ (overlaps' = overlaps + 1 /\ UNCHANGED lost),
           answer' \in {"none", "passed", "refused"}, listed' \subseteq Beads
    PROVE  TypeInv'
BY Held, StepTyped DEF reports, trail

\* What the invariant says of a gate at each place.
LEMMA Gating ==
    ASSUME TypeInv, NEW c \in Calls, call[c].at \in {"attest", "next", "ancestor", "log", "assess"}
    PROVE  /\ call[c] \in Call /\ call[c].op = "gate" /\ call[c].todo \subseteq Beads /\ call[c].fails \subseteq Beads
           /\ call[c].todo \cap call[c].fails = {} /\ call[c].b \notin call[c].todo
           /\ call[c].at \in {"ancestor", "log", "assess"} =>
                call[c].b \in Beads /\ call[c].block \in Block /\ call[c].b \notin call[c].fails
           /\ call[c].at = "assess" => call[c].range.head \in Shas
           /\ call[c].at = "attest" => call[c].fails = {} /\ call[c].b = None
BY Held DEF Placed, Sorted, Places, Call

LEMMA GateBeginsTyped == ASSUME TypeInv, NEW c \in Calls, GateBegins(c) PROVE TypeInv'
<1> DEFINE k == [Idle EXCEPT !.op = "gate", !.at = IF AttestationRequired THEN "attest" ELSE "next", !.todo = Beads]
<1>1. k \in Call /\ k.at \in {"attest", "next"} /\ k.op = "gate" /\ k.todo = Beads /\ k.fails = {} /\ k.b = None
  BY ShasTyped DEF Call, Idle, Places, Files
<1>2. Goes(c, k) /\ (NoTrouble \/ (overlaps' = overlaps + 1 /\ UNCHANGED lost))
  BY DEF GateBegins, Begins
<1>3. UNCHANGED <<branch, reports, trail>> /\ answer' = "none" /\ listed' \subseteq Beads
  BY Held DEF GateBegins
<1> HIDE DEF k
<1>4. Placed(k) /\ Sorted(k)
  BY <1>1, GateAssumption DEF Placed, Sorted, Places
<1> QED BY <1>1, <1>2, <1>3, <1>4, GateGoes

LEMMA AttestTyped == ASSUME TypeInv, NEW c \in Calls, Attest(c) PROVE TypeInv'
<1>h. call[c] \in Call /\ Placed(call[c]) /\ Sorted(call[c]) /\ answer \in {"none", "passed", "refused"}
  BY Held
<1>g. call[c].op = "gate" /\ call[c].todo \subseteq Beads /\ call[c].todo \cap call[c].fails = {}
      /\ call[c].b \notin call[c].todo /\ call[c].at = "attest" /\ call[c].fails = {} /\ call[c].b = None
  BY Gating DEF Attest, At
<1>u. UNCHANGED <<branch, reports, trail, listed>> /\ NoTrouble
  BY DEF Attest
<1>1. CASE \E b \in call[c].todo : rep[b].kind # "whole" /\ answer' = "refused" /\ Goes(c, Idle)
  BY <1>1, <1>u, ShasTyped, Held, StepTyped DEF reports, trail
<1>2. ASSUME NEW b \in call[c].todo, UNCHANGED answer, Goes(c, [call[c] EXCEPT !.todo = @ \ {b}]) PROVE TypeInv'
  <2> DEFINE k == [call[c] EXCEPT !.todo = @ \ {b}]
  <2>1. k \in Call /\ k.op = "gate" /\ k.at = "attest" /\ k.todo = call[c].todo \ {b} /\ k.fails = call[c].fails /\ k.b = call[c].b
    BY <1>h, <1>g DEF Call
  <2>2. Goes(c, k)
    BY <1>2
  <2> HIDE DEF k
  <2>3. Placed(k) /\ Sorted(k)
    BY <1>g, <2>1 DEF Placed, Sorted, Places
  <2> QED BY <1>h, <1>u, <1>2, <2>1, <2>2, <2>3, Held, GateGoes
<1>3. CASE UNCHANGED answer /\ Goes(c, [call[c] EXCEPT !.at = "next", !.todo = Beads])
  <2> DEFINE k == [call[c] EXCEPT !.at = "next", !.todo = Beads]
  <2>1. k \in Call /\ k.op = "gate" /\ k.at = "next" /\ k.todo = Beads /\ k.fails = call[c].fails /\ k.b = call[c].b
    BY <1>h, <1>g DEF Call, Places
  <2>2. Goes(c, k)
    BY <1>3
  <2> HIDE DEF k
  <2>3. Placed(k) /\ Sorted(k)
    BY <1>g, <2>1, GateAssumption DEF Placed, Sorted, Places
  <2> QED BY <1>h, <1>u, <1>3, <2>1, <2>2, <2>3, Held, GateGoes
<1> QED BY <1>1, <1>2, <1>3 DEF Attest

LEMMA GateReadsTyped == ASSUME TypeInv, NEW c \in Calls, GateReads(c) PROVE TypeInv'
<1>g. /\ call[c] \in Call /\ call[c].op = "gate" /\ call[c].todo \subseteq Beads /\ call[c].fails \subseteq Beads
      /\ call[c].todo \cap call[c].fails = {} /\ call[c].b \notin call[c].todo /\ call[c].at = "next"
  BY Gating DEF GateReads, At
<1>u. UNCHANGED <<branch, reports, trail, gate>> /\ NoTrouble
  BY DEF GateReads
<1>v. answer' \in {"none", "passed", "refused"} /\ listed' \subseteq Beads
  BY <1>u, Held DEF gate
<1> DEFINE read(b) == IF rep[b].kind = "whole" THEN rep[b].block ELSE NoBlock
           good(b) == [call[c] EXCEPT !.at = "ancestor", !.b = b, !.todo = @ \ {b}, !.block = read(b)]
           bad(b) == [call[c] EXCEPT !.fails = @ \cup {b}, !.todo = @ \ {b}]
<1>1. PICK b \in call[c].todo : Goes(c, IF read(b).verdict = "verified" THEN good(b) ELSE bad(b))
  BY DEF GateReads
<1>2. CASE read(b).verdict = "verified"
  <2>1. read(b) \in Block
    BY <1>2, <1>g, Held DEF Reports, NoBlock
  <2>2. good(b) \in Call /\ good(b).op = "gate" /\ good(b).at = "ancestor" /\ good(b).b = b /\ good(b).block \in Block
        /\ good(b).todo = call[c].todo \ {b} /\ good(b).fails = call[c].fails
    BY <1>g, <2>1 DEF Call, Places, Files
  <2>3. Goes(c, good(b))
    BY <1>1, <1>2
  <2> HIDE DEF good, read
  <2>4. Placed(good(b)) /\ Sorted(good(b))
    BY <1>g, <2>2 DEF Placed, Sorted, Places
  <2> QED BY <1>u, <1>v, <2>2, <2>3, <2>4, GateGoes DEF gate
<1>3. CASE read(b).verdict # "verified"
  <2>2. bad(b) \in Call /\ bad(b).op = "gate" /\ bad(b).at = "next" /\ bad(b).b = call[c].b
        /\ bad(b).todo = call[c].todo \ {b} /\ bad(b).fails = call[c].fails \cup {b}
    BY <1>g DEF Call
  <2>3. Goes(c, bad(b))
    BY <1>1, <1>3
  <2> HIDE DEF bad, read
  <2>4. Placed(bad(b)) /\ Sorted(bad(b))
    BY <1>g, <2>2 DEF Placed, Sorted, Places
  <2> QED BY <1>u, <1>v, <2>2, <2>3, <2>4, GateGoes DEF gate
<1> QED BY <1>2, <1>3

LEMMA GateAncestorTyped == ASSUME TypeInv, NEW c \in Calls, GateAncestor(c) PROVE TypeInv'
<1>g. /\ call[c] \in Call /\ call[c].op = "gate" /\ call[c].todo \cap call[c].fails = {}
      /\ call[c].b \notin call[c].todo /\ call[c].at = "ancestor" /\ call[c].b \in Beads
      /\ call[c].block \in Block /\ call[c].b \notin call[c].fails
  BY Gating DEF GateAncestor, At
<1>u. UNCHANGED <<branch, reports, trail, gate>> /\ NoTrouble
  BY DEF GateAncestor
<1>v. answer' \in {"none", "passed", "refused"} /\ listed' \subseteq Beads
  BY <1>u, Held DEF gate
<1> DEFINE on == [call[c] EXCEPT !.at = "assess", !.range = [base |-> call[c].block.base, head |-> call[c].block.head]]
           off == [call[c] EXCEPT !.at = "log"]
<1>1. CASE Goes(c, on)
  <2>1. call[c].block.base \in Shas \cup {NoSha} /\ call[c].block.head \in Shas
    BY <1>g DEF Block
  <2>2. on \in Call /\ on.op = "gate" /\ on.at = "assess" /\ on.b = call[c].b /\ on.block = call[c].block
        /\ on.todo = call[c].todo /\ on.fails = call[c].fails /\ on.range.head \in Shas
    BY <1>g, <2>1 DEF Call, Places
  <2> HIDE DEF on
  <2>4. Placed(on) /\ Sorted(on)
    BY <1>g, <2>2 DEF Placed, Sorted, Places
  <2> QED BY <1>1, <1>u, <1>v, <2>2, <2>4, GateGoes DEF gate
<1>2. CASE Goes(c, off)
  <2>2. off \in Call /\ off.op = "gate" /\ off.at = "log" /\ off.b = call[c].b /\ off.block = call[c].block
        /\ off.todo = call[c].todo /\ off.fails = call[c].fails
    BY <1>g DEF Call, Places
  <2> HIDE DEF off
  <2>4. Placed(off) /\ Sorted(off)
    BY <1>g, <2>2 DEF Placed, Sorted, Places
  <2> QED BY <1>2, <1>u, <1>v, <2>2, <2>4, GateGoes DEF gate
<1> QED BY <1>1, <1>2 DEF GateAncestor

\* A drift, and the verdict that is carried, go to the ledger.
LEMMA DriftTyped ==
    ASSUME TypeInv, NEW c \in Calls, call[c].at \in {"log", "assess"},
           NEW range \in [base : Shas \cup {NoSha}, head : Shas \cup {NoSha}], range.head \in Shas
    PROVE  /\ Drifted(call[c], range) \in Call /\ Drifted(call[c], range).op = "gate"
           /\ Placed(Drifted(call[c], range)) /\ Sorted(Drifted(call[c], range))
<1>g. /\ call[c] \in Call /\ call[c].op = "gate" /\ call[c].todo \cap call[c].fails = {} /\ call[c].fails \subseteq Beads
      /\ call[c].b \notin call[c].todo /\ call[c].b \in Beads /\ call[c].block \in Block
  BY Gating
<1> DEFINE k == Drifted(call[c], range)
<1>1. k \in Call /\ k.op = "gate" /\ k.at = "look" /\ k.b = call[c].b /\ k.block = call[c].block
      /\ k.todo = call[c].todo /\ k.fails = call[c].fails \cup {call[c].b} /\ k.range.head \in Shas
      /\ k.verdict \in Verdicts
  BY <1>g DEF Call, Places, Drifted, Verdicts
<1> HIDE DEF k
<1>2. Placed(k) /\ Sorted(k)
  BY <1>g, <1>1 DEF Placed, Sorted, Places
<1> QED BY <1>1, <1>2 DEF k

LEMMA GateLogTyped == ASSUME TypeInv, NEW c \in Calls, GateLog(c) PROVE TypeInv'
<1>g. /\ call[c] \in Call /\ call[c].op = "gate" /\ call[c].todo \cap call[c].fails = {}
      /\ call[c].b \notin call[c].todo /\ call[c].at = "log" /\ call[c].b \in Beads
      /\ call[c].block \in Block /\ call[c].b \notin call[c].fails
  BY Gating DEF GateLog, At
<1>u. UNCHANGED <<branch, reports, trail, gate>> /\ NoTrouble
  BY DEF GateLog
<1>v. answer' \in {"none", "passed", "refused"} /\ listed' \subseteq Beads
  BY <1>u, Held DEF gate
<1>1. CASE Naming(head, call[c].b) = {}
  <2> DEFINE range == [base |-> call[c].block.base, head |-> call[c].block.head]
  <2>1. range \in [base : Shas \cup {NoSha}, head : Shas \cup {NoSha}] /\ range.head \in Shas
    BY <1>g DEF Block
  <2>2. Goes(c, Drifted(call[c], range))
    BY <1>1 DEF GateLog
  <2> QED BY <1>g, <1>u, <1>v, <2>1, <2>2, DriftTyped, GateGoes DEF gate
<1>2. CASE Naming(head, call[c].b) # {}
  <2> DEFINE k == [call[c] EXCEPT !.at = "assess", !.range = NamedRange(head, call[c].b)]
  <2>1. NamedRange(head, call[c].b) \in [base : Shas, head : Shas]
    BY <1>2, Held, NamedRangeTyped
  <2>2. Goes(c, k)
    BY <1>2 DEF GateLog
  <2>3. k \in Call /\ k.op = "gate" /\ k.at = "assess" /\ k.b = call[c].b /\ k.block = call[c].block
        /\ k.todo = call[c].todo /\ k.fails = call[c].fails /\ k.range.head \in Shas
    BY <1>g, <2>1 DEF Call, Places
  <2> HIDE DEF k
  <2>4. Placed(k) /\ Sorted(k)
    BY <1>g, <2>3 DEF Placed, Sorted, Places
  <2> QED BY <1>u, <1>v, <2>2, <2>3, <2>4, GateGoes DEF gate
<1> QED BY <1>1, <1>2

LEMMA GateAssessTyped == ASSUME TypeInv, NEW c \in Calls, GateAssess(c) \/ GateGitFails(c) PROVE TypeInv'
<1>g. /\ call[c] \in Call /\ call[c].op = "gate" /\ call[c].todo \cap call[c].fails = {} /\ call[c].fails \subseteq Beads
      /\ call[c].b \notin call[c].todo /\ call[c].at = "assess" /\ call[c].b \in Beads
      /\ call[c].block \in Block /\ call[c].b \notin call[c].fails /\ call[c].range.head \in Shas
  BY Gating DEF GateAssess, GateGitFails, At
<1>h. Placed(call[c]) /\ Sorted(call[c]) /\ call[c].range \in [base : Shas \cup {NoSha}, head : Shas \cup {NoSha}]
  BY <1>g, Held DEF Call
<1>u. UNCHANGED <<branch, reports, trail, gate>> /\ (NoTrouble \/ Loses)
  BY DEF GateAssess, GateGitFails
<1>v. answer' \in {"none", "passed", "refused"} /\ listed' \subseteq Beads
  BY <1>u, Held DEF gate
<1> DEFINE p == Appended(call[c])
<1>p. p \in Call /\ Placed(p) /\ Sorted(p) /\ p.op = "gate" /\ p.todo = call[c].todo /\ p.fails = call[c].fails
      /\ p.b = None /\ p.at = "next"
  <2>1. p.op = "gate" /\ p.todo = call[c].todo /\ p.fails = call[c].fails /\ p.b = None /\ p.at = "next"
    BY <1>g DEF Appended, Call
  <2> QED BY <1>g, <1>h, <2>1, AppendedTyped
<1> HIDE DEF p
<1>1. CASE Goes(c, Drifted(call[c], call[c].range))
  BY <1>1, <1>g, <1>h, <1>u, <1>v, DriftTyped, GateGoes DEF gate
<1>2. CASE Goes(c, p)
  BY <1>2, <1>p, <1>u, <1>v, GateGoes DEF gate
<1>3. CASE Goes(c, Carried(call[c]))
  <2> DEFINE k == Carried(call[c])
  <2>1. k \in Call /\ k.op = "gate" /\ k.at = "look" /\ k.b = call[c].b /\ k.block = call[c].block
        /\ k.todo = call[c].todo /\ k.fails = call[c].fails /\ k.range.head \in Shas /\ k.verdict \in Verdicts
    BY <1>g DEF Call, Places, Carried, Verdicts
  <2>2. Goes(c, k)
    BY <1>3
  <2> HIDE DEF k
  <2>3. Placed(k) /\ Sorted(k)
    BY <1>g, <2>1 DEF Placed, Sorted, Places
  <2> QED BY <1>u, <1>v, <2>1, <2>2, <2>3, GateGoes DEF gate
<1>4. CASE Goes(c, [p EXCEPT !.fails = @ \cup {call[c].b}])
  <2> DEFINE k == [p EXCEPT !.fails = @ \cup {call[c].b}]
  <2>1. k \in Call /\ k.op = "gate" /\ k.at = "next" /\ k.b = None /\ k.todo = p.todo /\ k.fails = p.fails \cup {call[c].b}
    BY <1>g, <1>p DEF Call
  <2>2. Goes(c, k)
    BY <1>4
  <2> HIDE DEF k
  <2>3. Placed(k) /\ Sorted(k)
    BY <1>g, <1>p, <2>1, GateAssumption DEF Placed, Sorted, Places
  <2> QED BY <1>u, <1>v, <2>1, <2>2, <2>3, GateGoes DEF gate
<1> QED BY <1>1, <1>2, <1>3, <1>4 DEF GateAssess, GateGitFails, Passed, p

LEMMA GateEndsTyped == ASSUME TypeInv, NEW c \in Calls, GateEnds(c) PROVE TypeInv'
<1>1. /\ UNCHANGED <<branch, reports, trail>> /\ NoTrouble /\ Goes(c, Idle)
      /\ answer' \in {"none", "passed", "refused"} /\ listed' \subseteq Beads
  BY Gating DEF GateEnds, At
<1> QED BY <1>1, ShasTyped, Held, StepTyped DEF reports, trail

\* TypeOK holds of every behaviour.
LEMMA TypeStep == TypeInv /\ [Next]_vars => TypeInv'
<1> SUFFICES ASSUME TypeInv, [Next]_vars PROVE TypeInv'
  OBVIOUS
<1>1. CASE Commit \/ Amend \/ Drop \/ Rebase
  BY <1>1, BranchMoves
<1>2. CASE Crash
  BY <1>2, CrashTyped
<1>3. ASSUME NEW b \in Beads, ImplementerBegins(b) \/ ImplementerEnds(b) PROVE TypeInv'
  BY <1>3, ImplementerTyped
<1>4. ASSUME NEW c \in Calls, NEW b \in Beads, VerifyBegins(c, b) PROVE TypeInv'
  BY <1>4, VerifyBeginsTyped
<1>5. ASSUME NEW c \in Calls, GateBegins(c) \/ VerifyStep(c) \/ LedgerStep(c) \/ GateStep(c) \/ Fails(c) PROVE TypeInv'
  BY <1>5, GateBeginsTyped, VerifyHeadTyped, VerifyWritesTyped, LedgerTyped, AttestTyped, GateReadsTyped,
     GateAncestorTyped, GateLogTyped, GateAssessTyped, GateEndsTyped DEF VerifyStep, GateStep, Fails
<1>6. CASE UNCHANGED vars
  BY <1>6 DEF vars, TypeInv, TypeOK, CallsOK, Placed, Sorted
<1> QED BY <1>1, <1>2, <1>3, <1>4, <1>5, <1>6 DEF Next

LEMMA TypeInit == Init => TypeInv
<1> SUFFICES ASSUME Init PROVE TypeInv
  OBVIOUS
<1>1. CallsOK
  BY ShasTyped DEF Init, CallsOK
<1>2. [kind |-> "none", n |-> 0, block |-> NoBlock] \in Reports
  BY DEF Reports
<1>3. BranchOK /\ FilesOK /\ SeenOK
  BY <1>2, ShasTyped DEF Init, BranchOK, FilesOK, SeenOK
<1> QED BY <1>1, <1>3, Parts

\* Every variable has its type, for any branch and any number of beads, calls
\* and failures.
THEOREM TypeCorrect == Spec => []TypeOK
<1>1. Spec => []TypeInv
  BY TypeInit, TypeStep, PTL DEF Spec
<1>2. TypeInv => TypeOK
  BY DEF TypeInv
<1> QED BY <1>1, <1>2, PTL

-----------------------------------------------------------------------------
\* A step is one call's, or leaves the calls alone, or is the host's end.
Steps(c) == (\E b \in Beads : VerifyBegins(c, b)) \/ GateBegins(c) \/ VerifyStep(c) \/ LedgerStep(c) \/ GateStep(c) \/ Fails(c)
Calm == Commit \/ Amend \/ Drop \/ Rebase \/ UNCHANGED vars

LEMMA StepOf ==
    ASSUME [Next]_vars
    PROVE  \/ Calm \/ Crash \/ (\E b \in Beads : ImplementerBegins(b) \/ ImplementerEnds(b)) \/ (\E c \in Calls : Steps(c))
BY DEF Next, Steps, Calm

LEMMA CalmStep ==
    ASSUME Calm
    PROVE UNCHANGED <<start, rep, wrote, crossed, ledger, rows, glued, raced, call, answer, listed, lost, overlaps>>
<1>1. CASE \E s \in {head'} : Moves(s)
  BY <1>1 DEF Moves, reports, trail, gate
<1>2. CASE UNCHANGED vars
  BY <1>2 DEF vars
<1>3. (\E s : Moves(s)) => \E s \in {head'} : Moves(s)
  BY DEF Moves
<1>4. Calm => (\E s : Moves(s)) \/ UNCHANGED vars
  BY DEF Calm, Commit, Amend, Drop, Rebase
<1> QED BY <1>1, <1>2, <1>3, <1>4

LEMMA OnlyThisCall ==
    ASSUME TypeInv, NEW c \in Calls, Steps(c), NEW d \in Calls, d # c
    PROVE  call'[d] = call[d]
<1>1. call \in [Calls -> Call]
  BY DEF TypeInv, TypeOK
<1>2. (\E k : Goes(c, k)) \/ UNCHANGED call
  BY DEF Steps, VerifyBegins, GateBegins, Begins, VerifyStep, VerifyHead, VerifyTruncates, VerifyFills, LedgerStep,
     Header, Look, AppendRow, GateStep, Attest, GateReads, GateAncestor, GateLog, GateAssess, GateEnds, Fails,
     VerifyFillFails, AppendFails, GateGitFails
<1> QED BY <1>1, <1>2 DEF Goes

\* Where a call's own step takes it.
LEMMA Arrives ==
    ASSUME TypeInv, NEW c \in Calls, Steps(c), ~Look(c), ~Header(c)
    PROVE  call'[c].at # "append"
<1>h. call \in [Calls -> Call] /\ call[c] \in Call
  BY DEF TypeInv, TypeOK
<1>g. \A k : Goes(c, k) => call'[c] = k
  BY <1>h DEF Goes
<1>i. Idle.at = "none"
  BY DEF Idle
<1>a. Appended(call[c]).at # "append"
  BY <1>h, <1>i DEF Appended, Call
<1>1. CASE \E b \in Beads : VerifyBegins(c, b)
  BY <1>1, <1>g DEF VerifyBegins, Begins, Idle
<1>2. CASE GateBegins(c)
  BY <1>2, <1>g DEF GateBegins, Begins, Idle
<1>3. CASE VerifyHead(c)
  <2>1. \E v : Goes(c, [call[c] EXCEPT !.at = "truncate", !.verdict = v,
                        !.block = [verdict |-> v, base |-> VerifiedBase(call[c]), head |-> head],
                        !.range = [base |-> VerifiedBase(call[c]), head |-> head]])
    BY <1>3 DEF VerifyHead
  <2> QED BY <2>1, <1>g, <1>h DEF Call
<1>4. CASE VerifyTruncates(c) \/ VerifyFills(c)
  BY <1>4, <1>g, <1>h DEF VerifyTruncates, VerifyFills, AfterReport, Call
<1>5. CASE AppendRow(c) \/ AppendFails(c)
  BY <1>5, <1>a, <1>g DEF AppendRow, AppendFails
<1>6. CASE VerifyFillFails(c) \/ GateEnds(c)
  BY <1>6, <1>i, <1>g DEF VerifyFillFails, GateEnds
<1>7. CASE GateGitFails(c)
  <2>1. Appended(call[c]) \in Call
    BY <1>7, Held, AppendedTyped DEF GateGitFails, At
  <2> QED BY <1>7, <2>1, <1>a, <1>g DEF GateGitFails, Passed, Call
<1>8. CASE Attest(c)
  BY <1>8, <1>i, <1>g, <1>h DEF Attest, At, Call
<1>9. CASE GateReads(c)
  BY <1>9, <1>g, <1>h DEF GateReads, At, Call
<1>10. CASE GateAncestor(c) \/ GateLog(c)
  BY <1>10, <1>g, <1>h DEF GateAncestor, GateLog, Drifted, Call
<1>11. CASE GateAssess(c)
  BY <1>11, <1>a, <1>g, <1>h DEF GateAssess, Drifted, Carried, Passed, Call
<1> QED BY <1>1, <1>2, <1>3, <1>4, <1>5, <1>6, <1>7, <1>8, <1>9, <1>10, <1>11 DEF Steps, VerifyStep, LedgerStep, GateStep, Fails

\* A call begins where there was none.
LEMMA BeginsFrom ==
    ASSUME TypeInv, NEW c \in Calls, (\E b \in Beads : VerifyBegins(c, b)) \/ GateBegins(c)
    PROVE  call[c].op = "none" /\ call[c].at = "none" /\ call'[c].at \in {"head", "attest", "next"}
<1>1. call[c] = Idle /\ Idle.op = "none" /\ Idle.at = "none"
  BY DEF VerifyBegins, GateBegins, Begins, Idle
<1>2. \A k : Goes(c, k) => call'[c] = k
  BY DEF TypeInv, TypeOK, Goes
<1>3. ASSUME NEW b \in Beads, VerifyBegins(c, b) PROVE call'[c].at = "head"
  BY <1>2, <1>3 DEF VerifyBegins, Begins, Idle
<1>4. GateBegins(c) => call'[c].at \in {"attest", "next"}
  BY <1>2 DEF GateBegins, Begins, Idle
<1> QED BY <1>1, <1>3, <1>4

LEMMA TrailKept ==
    ASSUME NEW c \in Calls, Steps(c), ~AppendRow(c), ~AppendFails(c), ~Header(c)
    PROVE  UNCHANGED <<ledger, rows, glued, raced>>
BY DEF Steps, VerifyBegins, GateBegins, VerifyStep, VerifyHead, VerifyTruncates, VerifyFills, LedgerStep,
   Look, GateStep, Attest, GateReads, GateAncestor, GateLog, GateAssess, GateEnds, Fails,
   VerifyFillFails, GateGitFails, trail

\* A verify-bead at work was at work on the same bead and edition before.
LEMMA VerifyFrom ==
    ASSUME TypeInv, NEW c \in Calls, Steps(c), ~(\E b \in Beads : VerifyBegins(c, b)), call'[c].op = "verify"
    PROVE  call[c].op = "verify" /\ call'[c].b = call[c].b /\ call'[c].n = call[c].n
<1>h. call \in [Calls -> Call] /\ call[c] \in Call /\ Placed(call[c])
  BY DEF TypeInv, TypeOK, CallsOK
<1>g. \A k : Goes(c, k) => call'[c] = k
  BY <1>h DEF Goes
<1>i. Idle.op = "none"
  BY DEF Idle
<1>a. Appended(call[c]).op # "verify"
  BY <1>h, <1>i DEF Appended, Call
<1>2. ~GateBegins(c)
  <2>1. GateBegins(c) => call'[c].op = "gate"
    BY <1>g DEF GateBegins, Begins, Idle
  <2> QED BY <2>1
<1>3. CASE VerifyHead(c)
  <2>1. \E v : Goes(c, [call[c] EXCEPT !.at = "truncate", !.verdict = v,
                        !.block = [verdict |-> v, base |-> VerifiedBase(call[c]), head |-> head],
                        !.range = [base |-> VerifiedBase(call[c]), head |-> head]])
    BY <1>3 DEF VerifyHead
  <2> QED BY <2>1, <1>g, <1>h DEF Call
<1>4. CASE VerifyTruncates(c) \/ VerifyFills(c) \/ Look(c)
  BY <1>4, <1>g, <1>h DEF VerifyTruncates, VerifyFills, AfterReport, Look, Call
<1>5. ~AppendRow(c) /\ ~AppendFails(c)
  <2>1. AppendRow(c) \/ AppendFails(c) => call'[c] = Appended(call[c])
    BY <1>g DEF AppendRow, AppendFails
  <2> QED BY <1>a, <2>1
<1>6. ~VerifyFillFails(c) /\ ~GateEnds(c)
  <2>1. VerifyFillFails(c) \/ GateEnds(c) => call'[c] = Idle
    BY <1>g DEF VerifyFillFails, GateEnds
  <2> QED BY <1>i, <2>1
<1>7. ~GateGitFails(c)
  <2> SUFFICES ASSUME GateGitFails(c) PROVE FALSE
    OBVIOUS
  <2>1. Appended(call[c]) \in Call
    BY Held, AppendedTyped DEF GateGitFails, At
  <2>2. call'[c].op = Appended(call[c]).op
    BY <2>1, <1>g DEF GateGitFails, Passed, Call
  <2> QED BY <1>a, <2>2
<1>8. ~GateStep(c)
  <2> SUFFICES ASSUME GateStep(c) PROVE FALSE
    OBVIOUS
  <2>1. call[c].op = "gate"
    BY <1>h DEF GateStep, Attest, GateReads, GateAncestor, GateLog, GateAssess, GateEnds, At, Placed
  <2>2. CASE Attest(c)
    BY <1>g, <1>h, <1>i, <2>1, <2>2 DEF Attest, Call
  <2>3. CASE GateReads(c)
    BY <1>g, <1>h, <2>1, <2>3 DEF GateReads, Call
  <2>4. CASE GateAncestor(c) \/ GateLog(c)
    BY <1>g, <1>h, <2>1, <2>4 DEF GateAncestor, GateLog, Drifted, Call
  <2>5. CASE GateAssess(c)
    BY <1>g, <1>h, <1>a, <2>1, <2>5 DEF GateAssess, Drifted, Carried, Passed, Call
  <2> QED BY <1>6, <2>2, <2>3, <2>4, <2>5 DEF GateStep
<1>9. CASE Header(c)
  BY <1>9 DEF Header
<1> QED BY <1>2, <1>3, <1>4, <1>5, <1>6, <1>7, <1>8, <1>9 DEF Steps, VerifyStep, LedgerStep, Fails

-----------------------------------------------------------------------------
\* A row is appended to a file that is there.
HeaderFirst == \A d \in Calls : At(d, "append") => ledger # "none"

LEMMA HeaderStep == ASSUME TypeInv, HeaderFirst, [Next]_vars PROVE HeaderFirst'
<1>1. CASE Calm
  BY <1>1, CalmStep DEF HeaderFirst, At
<1>2. CASE \E b \in Beads : ImplementerBegins(b) \/ ImplementerEnds(b)
  BY <1>2 DEF ImplementerBegins, ImplementerEnds, trail, HeaderFirst, At
<1>3. CASE Crash
  BY <1>3 DEF Crash, HeaderFirst, At, Idle
<1>4. ASSUME NEW c \in Calls, Steps(c) PROVE HeaderFirst'
  <2>o. \A d \in Calls : d # c => call'[d] = call[d]
    BY <1>4, OnlyThisCall
  <2>1. CASE Header(c)
    BY <2>1 DEF Header, HeaderFirst, At
  <2>2. CASE Look(c)
    BY <2>2, <2>o DEF Look, HeaderFirst, At, trail
  <2>3. CASE ~Look(c) /\ ~Header(c)
    <3>1. call'[c].at # "append"
      BY <1>4, <2>3, Arrives
    <3>2. ledger # "none" => ledger' # "none"
      BY <1>4, <2>3, TrailKept DEF AppendRow, AppendFails
    <3> QED BY <2>o, <3>1, <3>2 DEF HeaderFirst, At
  <2> QED BY <2>1, <2>2, <2>3
<1> QED BY <1>1, <1>2, <1>3, <1>4, StepOf

-----------------------------------------------------------------------------
\* A torn end that some call took for whole was counted when it was torn.
ReadInv == RowsReadable /\ (ledger = "torn" /\ (\E d \in Calls : Looked(d)) => glued < raced)

LEMMA ReadStep == ASSUME TypeInv, HeaderFirst, ReadInv, [Next]_vars PROVE ReadInv'
<1>n. glued \in Nat /\ raced \in Nat
  BY DEF TypeInv, TypeOK
<1>q. ASSUME UNCHANGED <<ledger, glued, raced>>, \A d \in Calls : Looked(d)' => Looked(d) PROVE ReadInv'
  BY <1>q DEF ReadInv, RowsReadable
<1>1. CASE Calm
  BY <1>1, <1>q, CalmStep DEF Looked, At
<1>2. CASE \E b \in Beads : ImplementerBegins(b) \/ ImplementerEnds(b)
  BY <1>2, <1>q DEF ImplementerBegins, ImplementerEnds, trail, Looked, At
<1>3. CASE Crash
  <2>1. \A d \in Calls : ~Looked(d)'
    BY <1>3 DEF Crash, Looked, At, Idle
  <2> QED BY <1>3, <2>1 DEF Crash, ReadInv, RowsReadable
<1>4. ASSUME NEW c \in Calls, Steps(c) PROVE ReadInv'
  <2>o. \A d \in Calls : d # c => call'[d] = call[d]
    BY <1>4, OnlyThisCall
  <2>h. call \in [Calls -> Call] /\ call[c] \in Call /\ ledger \in {"none", "whole", "torn"}
    BY DEF TypeInv, TypeOK
  <2>1. CASE Header(c)
    BY <2>1 DEF Header, ReadInv, RowsReadable
  <2>2. CASE Look(c)
    <3>1. call'[c].torn = (ledger = "torn") /\ UNCHANGED <<ledger, glued, raced>>
      BY <2>2, <2>h DEF Look, Goes, Call, LookedTorn, trail
    <3>2. ledger = "torn" => \A d \in Calls : Looked(d)' => Looked(d)
      BY <2>o, <3>1 DEF Looked, At
    <3> QED BY <3>1, <3>2 DEF ReadInv, RowsReadable
  <2>3. ASSUME ~Look(c), ~Header(c) PROVE \A d \in Calls : Looked(d)' => Looked(d) /\ d # c
    BY <1>4, <2>3, <2>o, Arrives DEF Looked, At
  <2>4. CASE AppendRow(c)
    <3>1. ledger' = "whole" /\ raced' = raced /\ (glued' = glued \/ (glued' = glued + 1 /\ ~call[c].torn /\ ledger # "whole"))
      BY <2>4 DEF AppendRow
    <3>2. At(c, "append")
      BY <2>4 DEF AppendRow
    <3>3. CASE glued' = glued
      BY <3>1, <3>3 DEF ReadInv, RowsReadable
    <3>4. CASE glued' = glued + 1 /\ ~call[c].torn /\ ledger = "torn"
      BY <1>n, <3>1, <3>2, <3>4 DEF ReadInv, RowsReadable, Looked
    <3>5. ledger # "none"
      BY <3>2 DEF HeaderFirst
    <3> QED BY <2>h, <3>1, <3>3, <3>4, <3>5
  <2>5. CASE AppendFails(c)
    <3>1. glued' = glued /\ ledger' \in {ledger, "torn"} /\ ~Look(c) /\ ~Header(c)
          /\ raced' = IF ledger # ledger' /\ \E d \in Calls \ {c} : Looked(d) THEN raced + 1 ELSE raced
      BY <2>5 DEF AppendFails, Look, Header, At
    <3>2. \A d \in Calls : Looked(d)' => Looked(d) /\ d # c
      BY <2>3, <3>1
    <3>3. CASE ledger' = ledger
      BY <3>1, <3>2, <3>3 DEF ReadInv, RowsReadable
    <3>4. CASE ledger' # ledger /\ \E d \in Calls \ {c} : Looked(d)
      BY <1>n, <3>1, <3>4 DEF ReadInv, RowsReadable
    <3>5. CASE ~\E d \in Calls \ {c} : Looked(d)
      BY <1>n, <3>1, <3>2, <3>5 DEF ReadInv, RowsReadable
    <3> QED BY <3>3, <3>4, <3>5
  <2>6. CASE ~AppendRow(c) /\ ~AppendFails(c) /\ ~Header(c) /\ ~Look(c)
    BY <1>4, <1>q, <2>3, <2>6, TrailKept
  <2> QED BY <2>1, <2>2, <2>4, <2>5, <2>6
<1> QED BY <1>1, <1>2, <1>3, <1>4, StepOf

\* A row that was appended can be read, but for those appended by a call that
\* had looked at the end of the file before it was torn, however many calls
\* append, fall short or die.
THEOREM RowsStayReadable == Spec => []RowsReadable
<1>1. Init => TypeInv /\ HeaderFirst /\ ReadInv
  <2> SUFFICES ASSUME Init PROVE HeaderFirst /\ ReadInv
    BY TypeInit
  <2>1. \A d \in Calls : ~At(d, "append")
    BY DEF Init, At, Idle
  <2> QED BY <2>1 DEF Init, HeaderFirst, ReadInv, RowsReadable
<1>2. TypeInv /\ HeaderFirst /\ ReadInv /\ [Next]_vars => (TypeInv /\ HeaderFirst /\ ReadInv)'
  BY TypeStep, HeaderStep, ReadStep
<1>3. ReadInv => RowsReadable
  BY DEF ReadInv
<1> QED BY <1>1, <1>2, <1>3, PTL DEF Spec

-----------------------------------------------------------------------------
\* A verify-bead at work holds the last edition, or its bead is crossed.
Current(c) == call[c].op = "verify" => call[c].n = wrote[call[c].b].n \/ call[c].b \in crossed
EditionInv == EditionKept /\ \A c \in Calls : Current(c)

LEMMA EditionStep == ASSUME TypeInv, EditionInv, [Next]_vars PROVE EditionInv'
<1>h. /\ call \in [Calls -> Call] /\ rep \in [Beads -> Reports]
      /\ wrote \in [Beads -> [n : Nat, now : BOOLEAN]] /\ crossed \subseteq Beads
  BY DEF TypeInv, TypeOK
<1>v. \A c \in Calls : call[c].op = "verify" => call[c].b \in Beads
  BY Held DEF Placed, Call, Places, Idle
<1>1. CASE Calm
  BY <1>1, CalmStep DEF EditionInv, EditionKept, Current
<1>2. ASSUME NEW b \in Beads, ImplementerBegins(b) \/ ImplementerEnds(b) PROVE EditionInv'
  <2>1. call' = call /\ crossed' = crossed \cup (IF Holders(b) = {} THEN {} ELSE {b})
    BY <1>2 DEF ImplementerBegins, ImplementerEnds, Crosses
  <2>2. \A d \in Beads \ {b} : wrote'[d] = wrote[d] /\ rep'[d] = rep[d]
    BY <1>2, <1>h DEF ImplementerBegins, ImplementerEnds
  <2>3. rep'[b].kind = "whole" => rep'[b].n = wrote'[b].n
    <3>1. CASE ImplementerBegins(b)
      BY <3>1, <1>h DEF ImplementerBegins
    <3>2. CASE ImplementerEnds(b)
      BY <3>2, <1>h DEF ImplementerEnds
    <3> QED BY <1>2, <3>1, <3>2
  <2>4. EditionKept'
    BY <2>1, <2>2, <2>3 DEF EditionInv, EditionKept
  <2>5. \A c \in Calls : call[c].op = "verify" /\ call[c].b = b => b \in crossed'
    BY <2>1 DEF Holders
  <2>6. \A c \in Calls : Current(c)'
    BY <1>v, <2>1, <2>2, <2>5 DEF EditionInv, Current
  <2> QED BY <2>4, <2>6 DEF EditionInv
<1>3. CASE Crash
  BY <1>3 DEF Crash, Idle, reports, EditionInv, EditionKept, Current
<1>4. ASSUME NEW c \in Calls, Steps(c) PROVE EditionInv'
  <2>o. \A d \in Calls : d # c => call'[d] = call[d]
    BY <1>4, OnlyThisCall
  <2>1. wrote' = wrote /\ crossed' = crossed
    BY <1>4 DEF Steps, VerifyBegins, GateBegins, VerifyStep, VerifyHead, VerifyTruncates, VerifyFills, LedgerStep,
       Header, Look, AppendRow, GateStep, Attest, GateReads, GateAncestor, GateLog, GateAssess, GateEnds, Fails,
       VerifyFillFails, AppendFails, GateGitFails, reports
  <2>g. \A k : Goes(c, k) => call'[c] = k
    BY <1>h DEF Goes
  <2>k. call[c] \in Call
    BY <1>h
  <2>2. CASE \E b \in Beads : VerifyBegins(c, b)
    <3>1. PICK b \in Beads : VerifyBegins(c, b)
      BY <2>2
    <3>2. call'[c].op = "verify" /\ call'[c].b = b /\ call'[c].n = rep[b].n /\ rep' = rep /\ rep[b].kind = "whole"
      BY <3>1, <2>g DEF VerifyBegins, Begins, Idle, reports
    <3> QED BY <2>o, <2>1, <3>2 DEF EditionInv, EditionKept, Current
  <2>3. CASE VerifyTruncates(c)
    <3>1. call'[c] = [call[c] EXCEPT !.at = "fill"] /\ rep' = [rep EXCEPT ![call[c].b] = [kind |-> "torn", n |-> 0, block |-> NoBlock]]
      BY <2>3, <2>g DEF VerifyTruncates
    <3>2. call'[c].op = call[c].op /\ call'[c].b = call[c].b /\ call'[c].n = call[c].n
      BY <2>k, <3>1 DEF Call
    <3>3. EditionKept'
      BY <1>h, <2>1, <3>1 DEF EditionInv, EditionKept
    <3> QED BY <2>o, <2>1, <3>2, <3>3 DEF EditionInv, Current
  <2>4. CASE VerifyFills(c)
    <3>1. call'[c] = [call[c] EXCEPT !.at = "look"] /\ rep' = [rep EXCEPT ![call[c].b] = Stamped(call[c])]
      BY <2>4, <2>g DEF VerifyFills, AfterReport
    <3>2. call'[c].op = call[c].op /\ call'[c].b = call[c].b /\ call'[c].n = call[c].n
      BY <2>k, <3>1 DEF Call
    <3>3. call[c].op = "verify"
      BY <2>4, Held DEF VerifyFills, At, Placed
    <3>4. call[c].n = wrote[call[c].b].n \/ call[c].b \in crossed
      BY <3>3 DEF EditionInv, Current
    <3>5. Stamped(call[c]).n = call[c].n
      BY DEF Stamped
    <3>6. EditionKept'
      BY <1>h, <2>1, <3>1, <3>4, <3>5 DEF EditionInv, EditionKept
    <3> QED BY <2>o, <2>1, <3>2, <3>6 DEF EditionInv, Current
  <2>5. CASE ~VerifyTruncates(c) /\ ~VerifyFills(c) /\ ~(\E b \in Beads : VerifyBegins(c, b))
    <3>1. rep' = rep
      BY <1>4, <2>5 DEF Steps, GateBegins, VerifyStep, VerifyHead, LedgerStep,
         Header, Look, AppendRow, GateStep, Attest, GateReads, GateAncestor, GateLog, GateAssess, GateEnds, Fails,
         VerifyFillFails, AppendFails, GateGitFails, reports
    <3>2. call'[c].op = "verify" => call[c].op = "verify" /\ call'[c].b = call[c].b /\ call'[c].n = call[c].n
      BY <1>4, <2>5, VerifyFrom
    <3> QED BY <2>o, <2>1, <3>1, <3>2 DEF EditionInv, EditionKept, Current
  <2> QED BY <2>2, <2>3, <2>4, <2>5
<1> QED BY <1>1, <1>2, <1>3, <1>4, StepOf

\* The report on disk is the implementer's last edition, unless it was written
\* while a verify-bead held the one before, however many run at once.
THEOREM EditionSurvives == Spec => []EditionKept
<1>1. Init => TypeInv /\ EditionInv
  <2> SUFFICES ASSUME Init PROVE EditionInv
    BY TypeInit
  <2>1. \A c \in Calls : call[c].op = "none"
    BY DEF Init, Idle
  <2> QED BY <2>1 DEF Init, EditionInv, EditionKept, Current
<1>2. TypeInv /\ EditionInv /\ [Next]_vars => (TypeInv /\ EditionInv)'
  BY TypeStep, EditionStep
<1>3. EditionInv => EditionKept
  BY DEF EditionInv
<1> QED BY <1>1, <1>2, <1>3, PTL DEF Spec

-----------------------------------------------------------------------------
\* Without a failure no end is torn, and a verdict on disk has its row, or the
\* call that wrote it carries it.
Due(c) == call[c].op = "verify" /\ call[c].at \in {"look", "append"}
RowFor(b, block) == [bead |-> b, verdict |-> block.verdict, head |-> block.head]
InStep(c) ==
    call[c].op = "verify" /\ call[c].at \in {"truncate", "fill", "look", "append"} =>
        call[c].verdict = call[c].block.verdict /\ call[c].range.head = call[c].block.head
Told(b) ==
    rep[b].block # NoBlock =>
        \/ RowFor(b, rep[b].block) \in rows
        \/ \E c \in Calls : Due(c) /\ call[c].b = b /\ call[c].block = rep[b].block
TellInv ==
    lost = 0 => ledger # "torn" /\ (\A c \in Calls : InStep(c)) /\ (\A b \in Beads : Told(b))

\* Nothing that matters here happens.
LEMMA TellKept ==
    ASSUME TellInv, lost' = lost, ledger' # "torn", rows \subseteq rows',
           \A b \in Beads : rep'[b].block = rep[b].block \/ rep'[b].block = NoBlock,
           \A c \in Calls : InStep(c)',
           \A c \in Calls : Due(c) => Due(c)' /\ call'[c].b = call[c].b /\ call'[c].block = call[c].block
    PROVE  TellInv'
<1> SUFFICES ASSUME lost = 0 PROVE \A b \in Beads : Told(b)'
  BY DEF TellInv
<1>1. TAKE b \in Beads
<1>2. Told(b)
  BY DEF TellInv
<1>3. CASE rep'[b].block = NoBlock
  BY <1>3 DEF Told
<1>4. CASE rep'[b].block = rep[b].block /\ rep[b].block # NoBlock
  <2>1. CASE RowFor(b, rep[b].block) \in rows
    <3>1. RowFor(b, rep[b].block) \in rows' /\ RowFor(b, rep'[b].block) = RowFor(b, rep[b].block)
      BY <1>4, <2>1
    <3> QED BY <3>1 DEF Told
  <2>2. ASSUME NEW c \in Calls, Due(c), call[c].b = b, call[c].block = rep[b].block PROVE Told(b)'
    BY <1>4, <2>2 DEF Told
  <2> QED BY <1>2, <1>4, <2>1, <2>2 DEF Told
<1> QED BY <1>3, <1>4

LEMMA TellStep == ASSUME TypeInv, HeaderFirst, TellInv, [Next]_vars PROVE TellInv'
<1>h. /\ call \in [Calls -> Call] /\ rep \in [Beads -> Reports] /\ lost \in Nat
      /\ ledger \in {"none", "whole", "torn"} /\ \A c \in Calls : Placed(call[c])
  BY DEF TypeInv, TypeOK, CallsOK
<1>l. lost' = lost \/ lost' = lost + 1
  BY CalmStep, StepOf DEF Crash, ImplementerBegins, ImplementerEnds, Steps, VerifyBegins, GateBegins, Begins, VerifyStep, VerifyHead,
     VerifyTruncates, VerifyFills, LedgerStep, Header, Look, AppendRow, GateStep, Attest, GateReads, GateAncestor,
     GateLog, GateAssess, GateEnds, Fails, VerifyFillFails, AppendFails, GateGitFails, NoTrouble, Loses
<1> SUFFICES ASSUME lost = 0, lost' = lost PROVE TellInv'
  BY <1>h, <1>l DEF TellInv
<1>t. ledger # "torn" /\ (\A c \in Calls : InStep(c)) /\ (\A b \in Beads : Told(b))
  BY DEF TellInv
<1>1. CASE Calm
  <2>1. UNCHANGED <<rep, ledger, rows, call>>
    BY <1>1, CalmStep
  <2> QED BY <1>t, <2>1, TellKept DEF Due, InStep
<1>2. ASSUME NEW b \in Beads, ImplementerBegins(b) \/ ImplementerEnds(b) PROVE TellInv'
  <2>1. UNCHANGED <<ledger, rows, call>>
    BY <1>2 DEF ImplementerBegins, ImplementerEnds, trail
  <2>2. \A d \in Beads : rep'[d].block = rep[d].block \/ rep'[d].block = NoBlock
    BY <1>2, <1>h DEF ImplementerBegins, ImplementerEnds
  <2> QED BY <1>t, <2>1, <2>2, TellKept DEF Due, InStep
<1>3. ~Crash
  BY DEF Crash, Loses
<1>4. ASSUME NEW c \in Calls, Steps(c) PROVE TellInv'
  <2>o. \A d \in Calls : d # c => call'[d] = call[d]
    BY <1>4, OnlyThisCall
  <2>g. \A k : Goes(c, k) => call'[c] = k
    BY <1>h DEF Goes
  <2>k. call[c] \in Call /\ Placed(call[c])
    BY <1>h
  <2>f. ~Fails(c)
    BY DEF Fails, VerifyFillFails, AppendFails, GateGitFails, Loses
  <2>n. \A d \in Calls : d # c => (InStep(d)' <=> InStep(d)) /\ (Due(d)' <=> Due(d)) /\ call'[d].b = call[d].b /\ call'[d].block = call[d].block
    BY <2>o DEF InStep, Due
  <2>1. CASE VerifyFills(c)
    <3>1. call'[c] = [call[c] EXCEPT !.at = "look"] /\ rep' = [rep EXCEPT ![call[c].b] = Stamped(call[c])]
          /\ call[c].at = "fill" /\ UNCHANGED <<ledger, rows>>
      BY <2>1, <2>g DEF VerifyFills, AfterReport, At, trail
    <3>2. call[c].op = "verify" /\ call[c].b \in Beads
      BY <2>k, <3>1 DEF Placed, Places
    <3>3. call'[c].op = "verify" /\ call'[c].at = "look" /\ call'[c].b = call[c].b /\ call'[c].block = call[c].block
          /\ call'[c].verdict = call[c].verdict /\ call'[c].range = call[c].range
      BY <2>k, <3>1, <3>2 DEF Call
    <3>4. InStep(c)' /\ Due(c)' /\ ~Due(c)
      BY <1>t, <3>1, <3>2, <3>3 DEF InStep, Due
    <3>5. \A d \in Calls : InStep(d)'
      BY <1>t, <2>n, <3>4
    <3>6. rep'[call[c].b].block = call[c].block /\ \A b \in Beads : b # call[c].b => rep'[b] = rep[b]
      BY <1>h, <3>1, <3>2 DEF Stamped
    <3>7. ASSUME NEW b \in Beads PROVE Told(b)'
      <4>1. CASE b = call[c].b
        BY <3>3, <3>4, <3>6, <4>1 DEF Told
      <4>2. CASE b # call[c].b
        <5>1. rep'[b] = rep[b] /\ Told(b) /\ rows' = rows
          BY <1>t, <3>1, <3>6, <4>2
        <5>2. \A d \in Calls : Due(d) => Due(d)' /\ call'[d].b = call[d].b /\ call'[d].block = call[d].block
          BY <2>n, <3>4
        <5> QED BY <5>1, <5>2 DEF Told
      <4> QED BY <4>1, <4>2
    <3> QED BY <1>t, <3>1, <3>5, <3>7 DEF TellInv
  <2>2. CASE AppendRow(c)
    <3>1. call'[c] = Appended(call[c]) /\ ledger' = "whole" /\ rep' = rep /\ call[c].at = "append"
      BY <2>2, <2>g DEF AppendRow, At, reports
    <3>2. ledger = "whole"
      BY <1>h, <1>t, <2>2 DEF AppendRow, HeaderFirst
    <3>3. rows' = rows \cup {RowOf(call[c])}
      BY <2>2, <3>2 DEF AppendRow
    <3>4. call'[c].op # "verify"
      BY <2>k, <3>1 DEF Appended, Call, Idle
    <3>5. \A d \in Calls : InStep(d)'
      BY <1>t, <2>n, <3>4 DEF InStep
    <3>6. ASSUME NEW b \in Beads PROVE Told(b)'
      <4>1. CASE RowFor(b, rep[b].block) \in rows
        BY <3>1, <3>3, <4>1 DEF Told, RowFor
      <4>2. ASSUME NEW d \in Calls, Due(d), call[d].b = b, call[d].block = rep[b].block PROVE Told(b)'
        <5>1. CASE d = c
          <6>1. RowOf(call[c]) = RowFor(b, rep[b].block)
            BY <1>t, <3>1, <4>2, <5>1 DEF InStep, Due, RowOf, RowFor
          <6> QED BY <3>1, <3>3, <6>1 DEF Told, RowFor
        <5>2. CASE d # c
          BY <2>n, <3>1, <4>2, <5>2 DEF Told
        <5> QED BY <5>1, <5>2
      <4>3. CASE rep[b].block = NoBlock
        BY <3>1, <4>3 DEF Told
      <4> QED BY <1>t, <4>1, <4>2, <4>3 DEF Told
    <3> QED BY <3>1, <3>5, <3>6 DEF TellInv
  <2>3. CASE ~VerifyFills(c) /\ ~AppendRow(c)
    <3>1. rows' = rows /\ ledger' # "torn"
      BY <1>4, <1>t, <2>3, <2>f, TrailKept DEF Header, Fails
    <3>2. \A b \in Beads : rep'[b].block = rep[b].block \/ rep'[b].block = NoBlock
      <4>1. CASE VerifyTruncates(c)
        BY <4>1, <1>h DEF VerifyTruncates
      <4>2. CASE ~VerifyTruncates(c)
        BY <1>4, <2>3, <4>2, <2>f DEF Steps, VerifyBegins, GateBegins, VerifyStep, VerifyHead, LedgerStep,
           Header, Look, GateStep, Attest, GateReads, GateAncestor, GateLog, GateAssess, GateEnds, reports
      <4> QED BY <4>1, <4>2
    <3>3. InStep(c)' /\ (Due(c) => Due(c)' /\ call'[c].b = call[c].b /\ call'[c].block = call[c].block)
      <4>1. CASE (\E b \in Beads : VerifyBegins(c, b)) \/ GateBegins(c)
        BY <4>1, BeginsFrom DEF InStep, Due
      <4>3. CASE VerifyHead(c)
        <5> DEFINE base == VerifiedBase(call[c])
        <5>1. \E v : Goes(c, [call[c] EXCEPT !.at = "truncate", !.verdict = v,
                        !.block = [verdict |-> v, base |-> base, head |-> head],
                        !.range = [base |-> base, head |-> head]]) /\ call[c].at = "head"
          BY <4>3 DEF VerifyHead, At
        <5> HIDE DEF base
        <5>2. PICK v : call'[c] = [call[c] EXCEPT !.at = "truncate", !.verdict = v,
                        !.block = [verdict |-> v, base |-> base, head |-> head],
                        !.range = [base |-> base, head |-> head]]
          BY <5>1, <2>g
        <5>3. call'[c].verdict = v /\ call'[c].block = [verdict |-> v, base |-> base, head |-> head]
              /\ call'[c].range = [base |-> base, head |-> head] /\ call'[c].at = "truncate"
          BY <5>2, <2>k DEF Call
        <5> QED BY <5>1, <5>3 DEF InStep, Due
      <4>4. CASE VerifyTruncates(c)
        <5>1. call'[c] = [call[c] EXCEPT !.at = "fill"] /\ call[c].at = "truncate"
          BY <4>4, <2>g DEF VerifyTruncates, At
        <5> QED BY <1>t, <2>k, <5>1 DEF Call, InStep, Due
      <4>5. CASE Look(c)
        <5>1. call'[c] = [call[c] EXCEPT !.at = "append", !.torn = LookedTorn] /\ call[c].at = "look"
          BY <4>5, <2>g DEF Look, At
        <5> QED BY <1>t, <2>k, <5>1 DEF Call, InStep, Due
      <4>6. CASE Header(c)
        BY <1>t, <4>6 DEF Header, InStep, Due
      <4>7. CASE GateStep(c)
        <5>1. call[c].op = "gate"
          BY <2>k, <4>7 DEF GateStep, Attest, GateReads, GateAncestor, GateLog, GateAssess, GateEnds, At, Placed
        <5>2. ~\E b \in Beads : VerifyBegins(c, b)
          BY <5>1, BeginsFrom
        <5>3. call'[c].op # "verify"
          BY <1>4, <5>1, <5>2, VerifyFrom
        <5> QED BY <5>1, <5>3 DEF InStep, Due
      <4> QED BY <1>4, <2>3, <2>f, <4>1, <4>3, <4>4, <4>5, <4>6, <4>7 DEF Steps, VerifyStep, LedgerStep
    <3>4. \A d \in Calls : InStep(d)' /\ (Due(d) => Due(d)' /\ call'[d].b = call[d].b /\ call'[d].block = call[d].block)
      BY <1>t, <2>n, <3>3
    <3> QED BY <3>1, <3>2, <3>4, TellKept
  <2> QED BY <2>1, <2>2, <2>3
<1> QED BY <1>1, <1>2, <1>3, <1>4, StepOf

\* While no call fails, the ledger has the row of every verdict on disk, or the
\* call that wrote the verdict has still to append it.
THEOREM LedgerIsTold == Spec => []LedgerTells
<1>1. Init => TypeInv /\ HeaderFirst /\ TellInv
  <2> SUFFICES ASSUME Init PROVE HeaderFirst /\ TellInv
    BY TypeInit
  <2>1. \A d \in Calls : ~At(d, "append") /\ call[d].op = "none"
    BY DEF Init, At, Idle
  <2>2. \A b \in Beads : rep[b].block = NoBlock
    BY DEF Init
  <2> QED BY <2>1, <2>2 DEF Init, HeaderFirst, TellInv, InStep, Told
<1>2. TypeInv /\ HeaderFirst /\ TellInv /\ [Next]_vars => (TypeInv /\ HeaderFirst /\ TellInv)'
  BY TypeStep, HeaderStep, TellStep
<1>3. TellInv => LedgerTells
  BY DEF TellInv, Told, RowFor, Due, LedgerTells, RowPending, Holders, At
<1> QED BY <1>1, <1>2, <1>3, PTL DEF Spec

-----------------------------------------------------------------------------
\* Two patches that are the same leave a file they change at the same version.
LEMMA SamePatch ==
    ASSUME NEW a, NEW s, NEW x, NEW y, NEW f \in Files, Patch(a, s) = Patch(x, y), Content(x, f) # Content(y, f)
    PROVE  Content(s, f) = Content(y, f)
<1>1. Patch(a, s).files = Patch(x, y).files
  OBVIOUS
<1>2. <<f, Content(x, f), Content(y, f)>> \in Patch(x, y).files
  BY DEF Patch
<1>3. \E g \in Files : <<f, Content(x, f), Content(y, f)>> = <<g, Content(a, g), Content(s, g)>>
  BY <1>1, <1>2 DEF Patch
<1> QED BY <1>3

LEMMA VoidStep ==
    ASSUME TypeInv, [Next]_vars, NEW c \in Calls, Passes(c)
    PROVE  \/ call[c].range.head = call[c].block.head
           \/ Content(call[c].range.head, call[c].b) = Content(call[c].block.head, call[c].b)
           \/ Content(call[c].block.base, call[c].b) = Content(call[c].block.head, call[c].b)
<1>p. call[c].at = "assess" /\ call'[c].at \in {"next", "look"} /\ call'[c].fails = call[c].fails
  BY DEF Passes, At
<1>g. call \in [Calls -> Call] /\ call[c] \in Call /\ call[c].op = "gate" /\ call[c].b \in Beads /\ call[c].b \notin call[c].fails
  BY <1>p, Gating DEF TypeInv, TypeOK
<1>1. call'[c] # call[c] /\ ~Calm /\ ~Crash /\ ~(\E b \in Beads : ImplementerBegins(b) \/ ImplementerEnds(b))
  <2>1. call'[c] # call[c]
    BY <1>p
  <2>2. Crash => call'[c].at = "none"
    BY DEF Crash, Idle
  <2> QED BY <1>p, <2>1, <2>2, CalmStep DEF ImplementerBegins, ImplementerEnds
<1>2. PICK d \in Calls : Steps(d)
  BY <1>1, StepOf
<1>3. d = c
  BY <1>1, <1>2, OnlyThisCall
<1>4. GateAssess(c) \/ GateGitFails(c)
  <2>1. ~(\E b \in Beads : VerifyBegins(c, b)) /\ ~GateBegins(c)
    BY <1>p, BeginsFrom
  <2> QED BY <1>p, <1>2, <1>3, <2>1 DEF Steps, VerifyStep, VerifyHead, VerifyTruncates,
     VerifyFills, LedgerStep, Header, Look, AppendRow, GateStep, Attest, GateReads, GateAncestor, GateLog, GateEnds,
     Fails, VerifyFillFails, AppendFails, At
<1>5. \A k : Goes(c, k) => call'[c] = k
  BY <1>g DEF Goes
<1>6. ~GateGitFails(c)
  <2> SUFFICES ASSUME GateGitFails(c) PROVE FALSE
    OBVIOUS
  <2>1. Appended(call[c]) \in Call
    BY <1>p, Held, AppendedTyped
  <2>2. call[c].b \in call'[c].fails
    BY <1>5, <2>1 DEF GateGitFails, Passed, Call
  <2> QED BY <1>g, <1>p, <2>2
<1>7. Holds(call[c])
  <2> SUFFICES ASSUME ~Holds(call[c]) PROVE FALSE
    OBVIOUS
  <2>1. call'[c] = Drifted(call[c], call[c].range)
    BY <1>4, <1>5, <1>6 DEF GateAssess
  <2>2. call[c].b \in call'[c].fails
    BY <1>g, <2>1 DEF Drifted, Call
  <2> QED BY <1>g, <1>p, <2>2
<1> QED BY <1>7, <1>g, ShasTyped, SamePatch DEF Holds

\* On a branch that was rewritten in any way, a verdict is kept only where the
\* bead's file is as it was verified.
THEOREM RewriteVoidsVerdict == Spec => RewriteVoids
<1> DEFINE A == \A c \in Calls : Passes(c) =>
          \/ call[c].range.head = call[c].block.head
          \/ Content(call[c].range.head, call[c].b) = Content(call[c].block.head, call[c].b)
          \/ Content(call[c].block.base, call[c].b) = Content(call[c].block.head, call[c].b)
<1>1. TypeInv /\ [Next]_vars => A
  BY VoidStep
<1>2. Spec => [][A]_vars
  BY <1>1, TypeInit, TypeStep, PTL DEF Spec
<1> QED BY <1>2 DEF RewriteVoids
=============================================================================
