----------------------------- MODULE BatchReview -----------------------------
(***************************************************************************)
(* Reviews of batches of commits (mcp-server/src/commit-batch.ts,          *)
(* handleBatchReview of tools/review.ts, applyLandedBatchReviews and       *)
(* findDueBatchReview of tools/advance-wave.ts).                           *)
(*                                                                         *)
(* flywheel_advance_wave says that a review of a range of commits is due;  *)
(* flywheel_review action="batch_review" sends it out; a reviewer outside  *)
(* the server writes a verdict file, which either tool turns into one bead *)
(* per finding.  A call works on its own copy of the checkpoint: calls may *)
(* overlap, the server may die, and `br create` may fail or be performed   *)
(* without an answer.                                                      *)
(***************************************************************************)
EXTENDS Naturals

CONSTANTS
    MaxHead,     \* bound on the commits of the cycle
    Threshold,   \* commitBatchThreshold
    Counts,      \* how many findings a verdict may have
    Slots,       \* bound on the tool calls in flight at once
    MaxTrouble   \* bound on lost answers, crashes, failed reads and overlapping calls

ASSUME BatchAssumption ==
    MaxHead \in Nat /\ Threshold \in Nat \ {0} /\ Counts \subseteq Nat /\ Slots \in Nat /\ MaxTrouble \in Nat

Calls == 1..Slots

VARIABLES
    head,     \* the number of commits since the cycle's start
    st,       \* the checkpoint: lastBatchReviewSha, pendingBatchReviews and, for each
              \* range, how many ids batchReviewSynthesizedBeads has
    due,      \* the range that the coordinator was last told is due, or NoRange
    sent,     \* how often the review of a range was sent out, up to 2
    file,     \* the verdict file of each range
    beads,    \* how many beads br has for each finding of a range; 0 is the re-review
    call,     \* the call in each slot
    applied,  \* history: the last way in which a range was settled
    losses,   \* history: lost answers of br and crashes
    overlaps, \* history: calls that began while another was in flight
    unreads   \* history: verdict files that could not be read

vars == <<head, st, due, sent, file, beads, call, applied, losses, overlaps, unreads>>
world == <<head, due, sent, file>>

Commits  == 0..MaxHead
Findings == {0} \cup (UNION {1..n : n \in Counts})
Ranges   == {r \in Commits \X Commits : r[1] < r[2]}
NoRange  == <<0, 0>>
Verdicts == {"none", "torn", "unreadable", "ready"}
State    == [base : Commits, pending : SUBSET Ranges, filed : [Ranges -> Nat]]
Start    == [base |-> 0, pending |-> {}, filed |-> [r \in Ranges |-> 0]]

\* A call: the range it is at, the ranges it has still to look at, how many
\* findings it files and whether they are the one of a re-review, its copy.
Idle == [op |-> "none", at |-> "none", r |-> NoRange, todo |-> {}, n |-> 0, re |-> FALSE, s |-> Start]
Call == [op : {"none", "review", "advance"}, at : {"none", "next", "read", "file", "dispatch", "due"},
         r : Ranges \cup {NoRange}, todo : SUBSET Ranges, n : Nat, re : BOOLEAN, s : State]

Init ==
    /\ head = 0 /\ st = Start /\ due = NoRange
    /\ sent = [r \in Ranges |-> 0]
    /\ file = [r \in Ranges |-> [kind |-> "none", n |-> 0]]
    /\ beads = [r \in Ranges |-> [i \in Findings |-> 0]]
    /\ call = [c \in Calls |-> Idle]
    /\ applied = [r \in Ranges |-> "no"]
    /\ losses = 0 /\ overlaps = 0 /\ unreads = 0

Spare       == losses + overlaps + unreads < MaxTrouble
NoTrouble   == UNCHANGED <<losses, overlaps, unreads>>
Loses       == Spare /\ losses' = losses + 1 /\ UNCHANGED <<overlaps, unreads>>
Finish(c)   == call' = [call EXCEPT ![c] = Idle]
At(c, at)   == call[c].at = at

\* The slots are alike: a call takes the first that is free.
Begins(c, op, at, r, todo) ==
    /\ call[c] = Idle /\ \A d \in 1..(c - 1) : call[d] # Idle
    /\ call' = [call EXCEPT ![c] = [Idle EXCEPT !.op = op, !.at = at, !.r = r, !.todo = todo, !.s = st]]
    /\ IF \A d \in Calls : call[d] = Idle
         THEN NoTrouble
         ELSE Spare /\ overlaps' = overlaps + 1 /\ UNCHANGED <<losses, unreads>>
    /\ UNCHANGED <<head, sent, file, st, beads, applied>>

-----------------------------------------------------------------------------
\* The agents commit; the reviewer truncates the verdict file and fills it.
Commit ==
    /\ head < MaxHead /\ head' = head + 1
    /\ UNCHANGED <<st, due, sent, file, beads, call, applied, losses, overlaps, unreads>>

ReviewerWrites(r) ==
    /\ \/ sent[r] > 0 /\ file[r].kind = "none" /\ file' = [file EXCEPT ![r].kind = "torn"]
       \/ /\ file[r].kind = "torn"
          /\ \/ file' = [file EXCEPT ![r].kind = "unreadable"]
             \/ \E n \in Counts : file' = [file EXCEPT ![r] = [kind |-> "ready", n |-> n]]
    /\ UNCHANGED <<head, st, due, sent, beads, call, applied, losses, overlaps, unreads>>

\* A second reviewer of the range writes the file again.
ReviewerRewrites(r) ==
    /\ sent[r] > 1 /\ file[r].kind \in {"unreadable", "ready"}
    /\ file' = [file EXCEPT ![r] = [kind |-> "torn", n |-> 0]]
    /\ UNCHANGED <<head, st, due, sent, beads, call, applied, losses, overlaps, unreads>>

-----------------------------------------------------------------------------
\* flywheel_review action="batch_review" for a range that was said to be due:
\* to send it out, or again when its reviewer has reported.
ReviewBegins(c) ==
    \E r \in Ranges :
        /\ Begins(c, "review", "read", r, {})
        /\ \/ r = due /\ due' = NoRange
           \/ sent[r] > 0 /\ file[r].kind # "none" /\ UNCHANGED due

\* flywheel_advance_wave comes to the pending ranges of its copy.
AdvanceBegins(c) == Begins(c, "advance", "next", NoRange, st.pending) /\ UNCHANGED due

NextRange(c) ==
    /\ At(c, "next") /\ NoTrouble
    /\ \/ \E r \in call[c].todo :
            /\ call' = [call EXCEPT ![c].at = "read", ![c].r = r, ![c].todo = @ \ {r}]
            /\ UNCHANGED st
       \/ /\ call[c].todo = {}
          /\ call' = [call EXCEPT ![c].at = "due", ![c].r = NoRange]
          /\ st' = IF call[c].r = NoRange THEN st ELSE call[c].s
    /\ UNCHANGED <<world, beads, applied>>

\* applyBatchReviewVerdict reads the verdict file.
ReadAgain(c) == call' = [call EXCEPT ![c].at = "next", ![c].n = 0, ![c].re = FALSE]

NoVerdict(c) ==
    /\ At(c, "read") /\ file[call[c].r].kind = "none" /\ NoTrouble
    /\ \/ call[c].op = "review" /\ call' = [call EXCEPT ![c].at = "dispatch"]
       \/ call[c].op = "advance" /\ ReadAgain(c)
    /\ UNCHANGED <<world, st, beads, applied>>

ReadVerdict(c) ==
    /\ At(c, "read") /\ file[call[c].r].kind # "none" /\ NoTrouble
    /\ LET f == file[call[c].r] IN
       call' = [call EXCEPT ![c].at = "file", ![c].n = IF f.kind = "ready" THEN f.n ELSE 1,
                            ![c].re = f.kind # "ready"]
    /\ UNCHANGED <<world, st, beads, applied>>

\* What is thrown ends a review, which saves first; an advance goes on to the
\* next range.
\* Mutant: a review that fails does not save what it filed.
ThrownUnsaved(c) ==
    /\ \/ call[c].op = "review" /\ Finish(c)
       \/ call[c].op = "advance" /\ ReadAgain(c)
    /\ UNCHANGED st

Thrown(c) ==
    \/ call[c].op = "review" /\ st' = call[c].s /\ Finish(c)
    \/ call[c].op = "advance" /\ ReadAgain(c) /\ UNCHANGED st

ReadFails(c) ==
    /\ At(c, "read") /\ file[call[c].r].kind # "none"
    /\ Spare /\ unreads' = unreads + 1 /\ UNCHANGED <<losses, overlaps>>
    /\ Thrown(c)
    /\ UNCHANGED <<world, beads, applied>>

\* fileFindingBeads: one br create, from the number of ids recorded on.
Filed(c)    == call[c].s.filed[call[c].r]
Item(c)     == IF call[c].re THEN 0 ELSE Filed(c) + 1
BrCreate(c) == beads' = [beads EXCEPT ![call[c].r][Item(c)] = @ + 1]
Unfiled(c)  == At(c, "file") /\ Filed(c) < call[c].n

FileFinding(c) ==
    /\ Unfiled(c) /\ BrCreate(c) /\ NoTrouble
    /\ call' = [call EXCEPT ![c].s.filed[call[c].r] = @ + 1]
    /\ UNCHANGED <<world, st, applied>>

\* Mutant: the empty answer of a failed br create is recorded as an id.
CreateFailsCounted(c) ==
    /\ Unfiled(c) /\ NoTrouble
    /\ call' = [call EXCEPT ![c].s.filed[call[c].r] = @ + 1]
    /\ UNCHANGED <<world, st, beads, applied>>

CreateFails(c) ==
    /\ Unfiled(c) /\ Thrown(c) /\ NoTrouble
    /\ UNCHANGED <<world, beads, applied>>

\* br create is performed, and timed out.
CreateUnanswered(c) ==
    /\ Unfiled(c) /\ BrCreate(c) /\ Thrown(c) /\ Loses
    /\ UNCHANGED <<world, applied>>

\* Mutant: a range stays pending once its beads are filed.
SettledNever(s, r) == s
Settled(s, r) == [s EXCEPT !.pending = @ \ {r}]

\* Every finding has its id: the range is settled; a review saves and ends.
Settle(c) ==
    /\ At(c, "file") /\ Filed(c) >= call[c].n /\ NoTrouble
    /\ applied' = [applied EXCEPT ![call[c].r] = IF call[c].re THEN "unread" ELSE "read"]
    /\ LET s == Settled(call[c].s, call[c].r) IN
       \/ call[c].op = "review" /\ st' = s /\ Finish(c)
       \/ /\ call[c].op = "advance"
          /\ call' = [call EXCEPT ![c].at = "next", ![c].n = 0, ![c].re = FALSE, ![c].s = s]
          /\ UNCHANGED st
    /\ UNCHANGED <<world, beads>>

\* dispatchBatchReview, after its git diff: the baseline moves to the range's
\* end and the range is pending.
\* Mutant: the range is not kept.
RecordedBaseOnly(s, r) == [s EXCEPT !.base = r[2]]
Recorded(s, r) == [s EXCEPT !.base = r[2], !.pending = @ \cup {r}]

Dispatch(c) ==
    /\ At(c, "dispatch") /\ NoTrouble
    /\ st' = Recorded(call[c].s, call[c].r)
    /\ sent' = [sent EXCEPT ![call[c].r] = IF @ < 2 THEN @ + 1 ELSE @]
    /\ Finish(c)
    /\ UNCHANGED <<head, due, file, beads, applied>>

\* findDueBatchReview counts from the baseline of the call's copy; when git
\* fails the gate is skipped.
Due(c) ==
    /\ At(c, "due") /\ NoTrouble
    /\ \/ due' = NoRange
       \/ /\ head >= call[c].s.base + Threshold
          /\ due' = <<call[c].s.base, head>>
    /\ Finish(c)
    /\ UNCHANGED <<head, st, sent, file, beads, applied>>

\* The server dies: the calls are gone, the files stay.
Crash ==
    /\ \E c \in Calls : call[c] # Idle
    /\ Loses
    /\ call' = [c \in Calls |-> Idle]
    /\ UNCHANGED <<world, st, beads, applied>>

Step(c)  == \/ NextRange(c) \/ NoVerdict(c) \/ ReadVerdict(c) \/ FileFinding(c)
            \/ Settle(c) \/ Dispatch(c) \/ Due(c)
Fails(c) == ReadFails(c) \/ CreateFails(c) \/ CreateUnanswered(c)

Next ==
    \/ Commit \/ Crash
    \/ \E r \in Ranges : ReviewerWrites(r) \/ ReviewerRewrites(r)
    \/ \E c \in Calls : ReviewBegins(c) \/ AdvanceBegins(c) \/ Step(c) \/ Fails(c)

\* A call that has begun goes on; a reviewer that was given the prompt writes;
\* the coordinator keeps calling flywheel_advance_wave; br create does not fail
\* for ever.
Fairness ==
    /\ \A c \in Calls : WF_vars(Step(c))
    /\ \A r \in Ranges : WF_vars(ReviewerWrites(r))
    /\ SF_vars(\E c \in Calls : AdvanceBegins(c))
    /\ SF_vars(\E c \in Calls : FileFinding(c))

Spec == Init /\ [][Next]_vars /\ Fairness

-----------------------------------------------------------------------------
TypeOK ==
    /\ head \in Commits /\ st \in State /\ due \in Ranges \cup {NoRange}
    /\ sent \in [Ranges -> 0..2]
    /\ file \in [Ranges -> [kind : Verdicts, n : Counts \cup {0}]]
    /\ beads \in [Ranges -> [Findings -> Nat]]
    /\ call \in [Calls -> Call]
    /\ applied \in [Ranges -> {"no", "unread", "read"}]
    /\ losses \in Nat /\ overlaps \in Nat /\ unreads \in Nat

\* A range settled on a readable verdict has a bead for each finding, or the
\* bead that asks for its re-review: nothing a single reviewer found is lost,
\* whatever failed, was lost or overlapped on the way.
FindingsFiled ==
    \A r \in Ranges :
        applied[r] = "read" /\ sent[r] = 1 /\ beads[r][0] = 0
            => \A i \in 1..file[r].n : beads[r][i] > 0

\* Filing is repeated only for what was lost: a finding has one bead, and at
\* most one more for each lost answer, crash or overlapping call.
FiledOncePerLoss ==
    \A r \in Ranges : \A i \in DOMAIN beads[r] : beads[r][i] <= 1 + losses + overlaps

\* Without overlapping calls no commit before the baseline escapes review: it
\* is in a range that is pending or was settled.
Covers(ranges, k) == \A j \in 1..k : \E r \in ranges : r[1] < j /\ j <= r[2]
NothingSkipped ==
    overlaps = 0 => Covers(st.pending \cup {r \in Ranges : applied[r] # "no"}, st.base)

\* A dispatched range does not stay pending.
ReviewsSettle == \A r \in Ranges : r \in st.pending ~> r \notin st.pending
=============================================================================
