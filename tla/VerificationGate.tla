--------------------------- MODULE VerificationGate ---------------------------
(***************************************************************************)
(* Independent verification of closed beads (handleVerifyBead of           *)
(* mcp-server/src/tools/approve.ts, checkWaveVerification and the two      *)
(* gates of tools/advance-wave.ts, completion-report.ts).                  *)
(*                                                                         *)
(* An implementer writes a completion report.  verify-bead stamps on it    *)
(* the range of commits it looked at; flywheel_advance_wave lets the wave  *)
(* pass when each verdict still covers the code on the branch.  Both       *)
(* append to the ledger.  Meanwhile the branch moves, calls overlap, files *)
(* are written in more than one step, writes fall short and hosts die.     *)
(***************************************************************************)
EXTENDS Naturals, Sequences, FiniteSets

CONSTANTS
    Beads,       \* the beads of the wave
    None,        \* no bead
    Versions,    \* what a commit makes of a file
    MaxLog,      \* bound on the commits of the branch
    MaxMoves,    \* bound on the moves of the branch
    Slots,       \* bound on the calls in flight at once
    MaxLost,     \* bound on failed writes, crashes and failures of git
    MaxOverlaps, \* bound on the calls and new reports that begin while a call is in flight
    AttestationRequired  \* FW_ATTESTATION_REQUIRED=1

ASSUME GateAssumption ==
    /\ None \notin Beads /\ Versions \subseteq Nat \ {0} /\ \E v, w \in Versions : v # w
    /\ AttestationRequired \in BOOLEAN
    /\ MaxLog \in Nat /\ MaxMoves \in Nat /\ Slots \in Nat
    /\ MaxLost \in Nat /\ MaxOverlaps \in Nat

Calls == 1..Slots

VARIABLES
    start,   \* cycleStartSha, NoSha when git could not tell it
    head,    \* HEAD
    moves,   \* the moves of the branch so far
    rep,     \* the completion report of each bead
    wrote,   \* how many editions of it its implementer began, and whether it is writing
    ledger,  \* the end of the ledger's file: none, whole or torn
    rows,    \* the rows of the ledger that can be read
    call,    \* the call in each slot
    answer,  \* what the last flywheel_advance_wave answered
    listed,  \* the beads it listed as not verified
    crossed, \* history: the beads whose report was written while verify-bead held a copy
    glued,   \* history: rows appended to the end of a torn one
    raced,   \* history: rows torn while another call held a look at the end of the file
    lost,    \* history: calls that did not finish: crashes, failed writes and failures of git
    overlaps \* history: calls and new reports that began while a call was in flight

vars == <<start, head, moves, rep, wrote, ledger, rows, call, answer, listed,
          crossed, glued, raced, lost, overlaps>>
branch  == <<start, head, moves>>
reports == <<rep, wrote, crossed>>
trail   == <<ledger, rows, glued, raced>>
gate    == <<answer, listed>>

-----------------------------------------------------------------------------
\* A commit names the bead of its message and changes one file: that of a bead
\* or, for work outside the wave, the file None.  A sha stands for its history:
\* how often the branch was rebased and its commits since the cycle's start.
Files   == Beads \cup {None}
Commits == [names : Files, file : Files, v : Versions]
Shas    == [up : Nat, log : Seq(Commits)]
Start   == [up |-> 0, log |-> <<>>]
NoSha   == [up |-> 0, log |-> <<[names |-> None, file |-> None, v |-> 0]>>]

IsAncestor(a, s) ==
    a.up = s.up /\ Len(a.log) <= Len(s.log) /\ a.log = SubSeq(s.log, 1, Len(a.log))

\* The version of each file, and what two trees differ in: computePatchId.
Touching(s, f) == {i \in 1..Len(s.log) : s.log[i].file = f}
Content(s, f)  == IF Touching(s, f) = {} THEN 0
                  ELSE s.log[CHOOSE i \in Touching(s, f) : \A j \in Touching(s, f) : j <= i].v
Patch(a, s) ==
    [files |-> {<<f, Content(a, f), Content(s, f)>> : f \in {g \in Files : Content(a, g) # Content(s, g)}},
     up |-> IF a.up = s.up THEN <<>> ELSE <<a.up, s.up>>]
EmptyPatch == [files |-> {}, up |-> <<>>]

\* git log --grep: the commits on s that name b, and the range they make.
Naming(s, b) == {i \in 1..Len(s.log) : s.log[i].names = b}
Oldest(s, b) == CHOOSE i \in Naming(s, b) : \A j \in Naming(s, b) : i <= j
Newest(s, b) == CHOOSE i \in Naming(s, b) : \A j \in Naming(s, b) : j <= i
Prefix(s, n) == [up |-> s.up, log |-> SubSeq(s.log, 1, n)]
NamedRange(s, b) == [base |-> Prefix(s, Oldest(s, b) - 1), head |-> Prefix(s, Newest(s, b))]

\* A verification block; its patch id is that of its range.
Verdicts == {"verified", "verification-failed", "needs-verification"}
NoBlock  == [verdict |-> "none", base |-> NoSha, head |-> NoSha]
Block    == [verdict : Verdicts, base : Shas \cup {NoSha}, head : Shas]
Reports  == [kind : {"none", "torn", "whole"}, n : Nat, block : Block \cup {NoBlock}]
Row      == [bead : Beads, verdict : Verdicts, head : Shas]

\* A call: its bead, the beads still to look at and those that failed, the
\* report's edition and block in its copy, the range, its row, its look at the ledger.
Places == {"none", "head", "truncate", "fill", "attest", "next", "ancestor", "log", "assess", "look", "append"}
NoRange == [base |-> NoSha, head |-> NoSha]
Idle == [op |-> "none", at |-> "none", b |-> None, todo |-> {}, fails |-> {}, n |-> 0,
         block |-> NoBlock, range |-> NoRange, verdict |-> "none", torn |-> FALSE]
Call == [op : {"none", "verify", "gate"}, at : Places, b : Files, todo : SUBSET Beads,
         fails : SUBSET Beads, n : Nat, block : Block \cup {NoBlock},
         range : [base : Shas \cup {NoSha}, head : Shas \cup {NoSha}],
         verdict : Verdicts \cup {"none"}, torn : BOOLEAN]

Init ==
    /\ start \in {Start, NoSha} /\ head = Start /\ moves = 0
    /\ rep = [b \in Beads |-> [kind |-> "none", n |-> 0, block |-> NoBlock]]
    /\ wrote = [b \in Beads |-> [n |-> 0, now |-> FALSE]]
    /\ ledger = "none" /\ rows = {}
    /\ call = [c \in Calls |-> Idle]
    /\ answer = "none" /\ listed = {}
    /\ crossed = {} /\ glued = 0 /\ raced = 0 /\ lost = 0 /\ overlaps = 0

NoTrouble == UNCHANGED <<lost, overlaps>>
Loses     == lost < MaxLost /\ lost' = lost + 1 /\ UNCHANGED overlaps
At(c, at) == call[c].at = at
Goes(c, k) == call' = [call EXCEPT ![c] = k]

\* The slots are alike: a call takes the first that is free.
Begins(c, k) ==
    /\ call[c] = Idle /\ \A d \in 1..(c - 1) : call[d] # Idle
    /\ Goes(c, k)
    /\ IF \A d \in Calls : call[d] = Idle
         THEN NoTrouble
         ELSE overlaps < MaxOverlaps /\ overlaps' = overlaps + 1 /\ UNCHANGED lost

-----------------------------------------------------------------------------
\* The branch: an agent commits, amends the last commit, drops it, or rebases.
Moves(s) ==
    /\ moves < MaxMoves /\ moves' = moves + 1 /\ head' = s
    /\ UNCHANGED <<start, reports, trail, call, gate, lost, overlaps>>

Changed(f) == CHOOSE v \in Versions : v # Content(head, f)
Commit ==
    /\ Len(head.log) < MaxLog
    /\ \E f \in Files : \E b \in {f, None} :
        Moves([head EXCEPT !.log = Append(@, [names |-> b, file |-> f, v |-> Changed(f)])])
Amend ==
    /\ head.log # <<>>
    /\ \E v \in Versions \ {head.log[Len(head.log)].v} : Moves([head EXCEPT !.log[Len(head.log)].v = v])
Drop == head.log # <<>> /\ Moves(Prefix(head, Len(head.log) - 1))
Rebase == Moves([head EXCEPT !.up = @ + 1])

\* The implementer truncates its report and fills it: the first edition, a new
\* one under the eyes of a call, or the last one again when it was left torn.
Holders(b) == {c \in Calls : call[c].op = "verify" /\ call[c].b = b}
Crosses(b) == crossed' = crossed \cup (IF Holders(b) = {} THEN {} ELSE {b})

ImplementerBegins(b) ==
    /\ ~wrote[b].now
    /\ \/ /\ wrote[b].n = 0 /\ NoTrouble
          /\ wrote' = [wrote EXCEPT ![b] = [n |-> 1, now |-> TRUE]]
       \/ /\ wrote[b].n > 0 /\ \E c \in Calls : call[c] # Idle
          /\ overlaps < MaxOverlaps /\ overlaps' = overlaps + 1 /\ UNCHANGED lost
          /\ wrote' = [wrote EXCEPT ![b] = [n |-> @.n + 1, now |-> TRUE]]
       \/ /\ rep[b].kind = "torn" /\ Holders(b) = {} /\ NoTrouble
          /\ wrote' = [wrote EXCEPT ![b].now = TRUE]
    /\ rep' = [rep EXCEPT ![b] = [kind |-> "torn", n |-> 0, block |-> NoBlock]]
    /\ Crosses(b)
    /\ UNCHANGED <<branch, trail, call, gate>>

ImplementerEnds(b) ==
    /\ wrote[b].now /\ wrote' = [wrote EXCEPT ![b].now = FALSE]
    /\ rep' = [rep EXCEPT ![b] = [kind |-> "whole", n |-> wrote[b].n, block |-> NoBlock]]
    /\ Crosses(b)
    /\ UNCHANGED <<branch, trail, call, gate, lost, overlaps>>

-----------------------------------------------------------------------------
\* flywheel_approve_beads action="verify-bead", for a bead that has no verdict
\* or that an advance listed: readCompletionReport, which must succeed.
VerifyBegins(c, b) ==
    /\ rep[b].kind = "whole" /\ (rep[b].block = NoBlock \/ b \in listed)
    /\ Begins(c, [Idle EXCEPT !.op = "verify", !.at = "head", !.b = b, !.n = rep[b].n, !.block = rep[b].block])
    /\ listed' = listed \ {b}
    /\ UNCHANGED <<branch, reports, trail, answer>>

\* git rev-parse HEAD, then the patch id of what it answered.
\* Mutant: the verdict covers no commit.
VerifiedBaseHead(k) == head
VerifiedBase(k) ==
    IF k.block # NoBlock THEN k.block.base ELSE IF start # NoSha THEN start ELSE head
Verdict(base) == IF Patch(base, head) = EmptyPatch THEN "verification-failed" ELSE "verified"

VerifyHead(c) ==
    /\ At(c, "head")
    /\ \E v \in {Verdict(VerifiedBase(call[c])), "verification-failed"} :
        /\ Goes(c, [call[c] EXCEPT !.at = "truncate", !.verdict = v,
                        !.block = [verdict |-> v, base |-> VerifiedBase(call[c]), head |-> head],
                        !.range = [base |-> VerifiedBase(call[c]), head |-> head]])
        /\ IF v = Verdict(VerifiedBase(call[c])) THEN NoTrouble ELSE Loses
    /\ UNCHANGED <<branch, reports, trail, gate>>

\* writeCompletionReport: the file is truncated, then filled.
VerifyTruncates(c) ==
    /\ At(c, "truncate") /\ NoTrouble
    /\ rep' = [rep EXCEPT ![call[c].b] = [kind |-> "torn", n |-> 0, block |-> NoBlock]]
    /\ Goes(c, [call[c] EXCEPT !.at = "fill"])
    /\ UNCHANGED <<branch, wrote, crossed, trail, gate>>

\* Mutant: only the verdict is written, not the report it was read with.
StampedAlone(k) == [kind |-> "whole", n |-> 0, block |-> k.block]
Stamped(k) == [kind |-> "whole", n |-> k.n, block |-> k.block]
\* Mutant: only a verified verdict goes into the ledger.
AfterReportVerified(k) == IF k.verdict = "verified" THEN [k EXCEPT !.at = "look"] ELSE Idle
AfterReport(k) == [k EXCEPT !.at = "look"]

VerifyFills(c) ==
    /\ At(c, "fill") /\ NoTrouble
    /\ rep' = [rep EXCEPT ![call[c].b] = Stamped(call[c])]
    /\ Goes(c, AfterReport(call[c]))
    /\ UNCHANGED <<branch, wrote, crossed, trail, gate>>

\* The disk is full: an error, and the report stays truncated.
VerifyFillFails(c) ==
    /\ At(c, "fill") /\ Loses /\ Goes(c, Idle)
    /\ UNCHANGED <<branch, reports, trail, gate>>

-----------------------------------------------------------------------------
\* appendVerificationLedger.  The header is linked into place; the end of the
\* file is looked at, and the row written after it.
Header(c) ==
    /\ At(c, "look") /\ ledger = "none" /\ ledger' = "whole"
    /\ NoTrouble /\ UNCHANGED <<branch, reports, rows, glued, raced, call, gate>>

\* Mutant: the end is not looked at.
LookedNot == FALSE
LookedTorn == ledger = "torn"

Look(c) ==
    /\ At(c, "look") /\ ledger # "none" /\ NoTrouble
    /\ Goes(c, [call[c] EXCEPT !.at = "append", !.torn = LookedTorn])
    /\ UNCHANGED <<branch, reports, trail, gate>>

\* What follows: verify-bead answers, the gate goes on to the next bead.
Appended(k) == IF k.op = "verify" THEN Idle
               ELSE [k EXCEPT !.at = "next", !.b = None, !.block = NoBlock, !.range = NoRange,
                              !.verdict = "none", !.torn = FALSE]
RowOf(k) == [bead |-> k.b, verdict |-> k.verdict, head |-> k.range.head]

AppendRow(c) ==
    /\ At(c, "append") /\ NoTrouble
    /\ ledger' = "whole"
    /\ IF call[c].torn \/ ledger = "whole"
         THEN rows' = rows \cup {RowOf(call[c])} /\ UNCHANGED glued
         ELSE glued' = glued + 1 /\ UNCHANGED rows
    /\ Goes(c, Appended(call[c]))
    /\ UNCHANGED <<branch, reports, raced, gate>>

\* A write that fails or falls short: verify-bead answers an error, the gate
\* only logs it.
Looked(d) == At(d, "append") /\ ~call[d].torn
AppendFails(c) ==
    /\ At(c, "append") /\ Loses
    /\ ledger' \in {ledger, "torn"}
    /\ raced' = IF ledger # ledger' /\ \E d \in Calls \ {c} : Looked(d) THEN raced + 1 ELSE raced
    /\ Goes(c, Appended(call[c]))
    /\ UNCHANGED <<branch, reports, rows, glued, gate>>

-----------------------------------------------------------------------------
\* flywheel_advance_wave over the wave's closed beads.
GateBegins(c) ==
    /\ Begins(c, [Idle EXCEPT !.op = "gate", !.at = IF AttestationRequired THEN "attest" ELSE "next", !.todo = Beads])
    /\ answer' = "none"
    /\ UNCHANGED <<branch, reports, trail, listed>>

\* runVerifyBeads reads the evidence of each bead; a report that is missing or
\* unreadable ends the call.
Attest(c) ==
    /\ At(c, "attest") /\ NoTrouble
    /\ \/ \E b \in call[c].todo :
            \/ /\ rep[b].kind = "whole" /\ UNCHANGED answer
               /\ Goes(c, [call[c] EXCEPT !.todo = @ \ {b}])
            \/ rep[b].kind # "whole" /\ answer' = "refused" /\ Goes(c, Idle)
       \/ /\ call[c].todo = {} /\ UNCHANGED answer
          /\ Goes(c, [call[c] EXCEPT !.at = "next", !.todo = Beads])
    /\ UNCHANGED <<branch, reports, trail, listed>>

\* checkWaveVerification: the block of the next bead's report, if it is one.
GateReads(c) ==
    /\ At(c, "next") /\ NoTrouble
    /\ \E b \in call[c].todo :
        LET block == IF rep[b].kind = "whole" THEN rep[b].block ELSE NoBlock IN
        Goes(c, IF block.verdict = "verified"
                  THEN [call[c] EXCEPT !.at = "ancestor", !.b = b, !.todo = @ \ {b}, !.block = block]
                  ELSE [call[c] EXCEPT !.fails = @ \cup {b}, !.todo = @ \ {b}])
    /\ UNCHANGED <<branch, reports, trail, gate>>

\* currentBeadRange: the verified range while its head is on the branch, and
\* otherwise that of the commits that name the bead.
GateAncestor(c) ==
    /\ At(c, "ancestor") /\ NoTrouble
    /\ LET block == call[c].block IN
       Goes(c, IF IsAncestor(block.head, head)
                 THEN [call[c] EXCEPT !.at = "assess", !.range = [base |-> block.base, head |-> block.head]]
                 ELSE [call[c] EXCEPT !.at = "log"])
    /\ UNCHANGED <<branch, reports, trail, gate>>

Drifted(k, range) ==
    [k EXCEPT !.at = "look", !.fails = @ \cup {k.b}, !.verdict = "needs-verification", !.range = range]

GateLog(c) ==
    /\ At(c, "log") /\ NoTrouble
    /\ LET k == call[c] IN
       Goes(c, IF Naming(head, k.b) = {}
                 THEN Drifted(k, [base |-> k.block.base, head |-> k.block.head])
                 ELSE [k EXCEPT !.at = "assess", !.range = NamedRange(head, k.b)])
    /\ UNCHANGED <<branch, reports, trail, gate>>

\* assessVerification of the patch id of that range.
\* Mutant: whatever names the bead on the branch carries the verdict.
HoldsNamed(k) == TRUE
Holds(k) ==
    /\ Patch(k.range.base, k.range.head) # EmptyPatch
    /\ Patch(k.range.base, k.range.head) = Patch(k.block.base, k.block.head)
Passed(k) == Appended(k)
Carried(k) == [k EXCEPT !.at = "look", !.verdict = "verified"]

GateAssess(c) ==
    /\ At(c, "assess") /\ NoTrouble
    /\ LET k == call[c] IN
       Goes(c, IF ~Holds(k) THEN Drifted(k, k.range)
               ELSE IF k.block.head = k.range.head THEN Passed(k) ELSE Carried(k))
    /\ UNCHANGED <<branch, reports, trail, gate>>

\* git fails: the bead fails, and no row says so.
GateGitFails(c) ==
    /\ At(c, "assess") /\ Loses
    /\ Goes(c, [Passed(call[c]) EXCEPT !.fails = @ \cup {call[c].b}])
    /\ UNCHANGED <<branch, reports, trail, gate>>

GateEnds(c) ==
    /\ At(c, "next") /\ call[c].todo = {} /\ NoTrouble
    /\ answer' = IF call[c].fails = {} THEN "passed" ELSE "refused"
    /\ listed' = call[c].fails
    /\ Goes(c, Idle)
    /\ UNCHANGED <<branch, reports, trail>>

\* The host dies: the calls are gone, and a row on its way may be torn.
Crash ==
    /\ \E c \in Calls : call[c] # Idle
    /\ Loses
    /\ call' = [c \in Calls |-> Idle]
    /\ ledger' \in {ledger} \cup (IF \E c \in Calls : At(c, "append") THEN {"torn"} ELSE {})
    /\ UNCHANGED <<branch, reports, rows, glued, raced, gate>>

VerifyStep(c) == VerifyHead(c) \/ VerifyTruncates(c) \/ VerifyFills(c)
LedgerStep(c) == Header(c) \/ Look(c) \/ AppendRow(c)
GateStep(c)   == \/ Attest(c) \/ GateReads(c) \/ GateAncestor(c) \/ GateLog(c)
                 \/ GateAssess(c) \/ GateEnds(c)
Fails(c)      == VerifyFillFails(c) \/ AppendFails(c) \/ GateGitFails(c)

Next ==
    \/ Commit \/ Amend \/ Drop \/ Rebase \/ Crash
    \/ \E b \in Beads : ImplementerBegins(b) \/ ImplementerEnds(b)
    \/ \E c \in Calls : \/ \E b \in Beads : VerifyBegins(c, b)
                        \/ GateBegins(c) \/ VerifyStep(c) \/ LedgerStep(c) \/ GateStep(c) \/ Fails(c)

\* A call that has begun goes on; implementers report, and again when their
\* report is unreadable; the coordinator has the beads verified that have no
\* verdict or were listed, and keeps calling flywheel_advance_wave.
Fairness ==
    /\ \A c \in Calls : WF_vars(VerifyStep(c) \/ LedgerStep(c) \/ GateStep(c))
    /\ \A b \in Beads : WF_vars(ImplementerBegins(b) \/ ImplementerEnds(b))
    /\ \A b \in Beads : SF_vars(\E c \in Calls : VerifyBegins(c, b))
    /\ SF_vars(\E c \in Calls : GateBegins(c))

Spec == Init /\ [][Next]_vars /\ Fairness

-----------------------------------------------------------------------------
TypeOK ==
    /\ start \in {Start, NoSha} /\ head \in Shas /\ moves \in Nat
    /\ rep \in [Beads -> Reports] /\ wrote \in [Beads -> [n : Nat, now : BOOLEAN]]
    /\ ledger \in {"none", "whole", "torn"} /\ rows \subseteq Row
    /\ call \in [Calls -> Call]
    /\ answer \in {"none", "passed", "refused"} /\ listed \subseteq Beads
    /\ crossed \subseteq Beads
    /\ glued \in Nat /\ raced \in Nat /\ lost \in Nat /\ overlaps \in Nat

\* Without a failure the ledger can be read back for every verdict on disk: its
\* row is there, or the call that wrote it has still to append it.
RowPending(b) == \E c \in Holders(b) : At(c, "look") \/ At(c, "append")
LedgerTells ==
    lost = 0 => \A b \in Beads : rep[b].block # NoBlock =>
        \/ [bead |-> b, verdict |-> rep[b].block.verdict, head |-> rep[b].block.head] \in rows
        \/ RowPending(b)

\* appendVerificationLedger: a row that was appended can be read, but for one
\* appended by a call that had looked at the end of the file before another's
\* row was torn there.
RowsReadable == glued <= raced

\* The report on disk is the implementer's last edition, unless it was written
\* while a verify-bead held the one before.
EditionKept ==
    \A b \in Beads : rep[b].kind = "whole" => rep[b].n = wrote[b].n \/ b \in crossed

\* A rewritten branch does not keep a verdict by accident: a bead that passes
\* either has its verified head on the branch when that is asked, or the newest
\* commit that names it has the version of its file that was verified, if what
\* was verified changed that file.
Passes(c) == At(c, "assess") /\ call[c].op = "gate" /\ call'[c].at \in {"next", "look"} /\ call'[c].fails = call[c].fails
RewriteVoids ==
    [][\A c \in Calls : Passes(c) =>
          \/ call[c].range.head = call[c].block.head
          \/ Content(call[c].range.head, call[c].b) = Content(call[c].block.head, call[c].b)
          \/ Content(call[c].block.base, call[c].b) = Content(call[c].block.head, call[c].b)]_vars

\* Once the branch differs from the cycle's start, and it stops moving for lack
\* of moves, the coordinator gets its wave.
WavePasses ==
    <>[](start # NoSha /\ Patch(start, head) # EmptyPatch) => []<>(answer = "passed")
=============================================================================
