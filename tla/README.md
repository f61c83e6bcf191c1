# A verification project for agent-flywheel

TLA+ models of the parts of `src/mcp-server` that keep a flywheel cycle honest: the checkpoint
file, a goal from its choice to the grading of its outcome, the polish loop that approves a bead
graph, the waves of beads that agents implement here or on another Mac, the verification and the
batch reviews of what they made, the review gates, and the tender daemon that records what happens
meanwhile. TLC checks small instances; TLAPS proves the most important invariants for every value
of the constants.
`PROJECT.json` lists runs, hazards, findings and theorems, and maps every definition to the
lines it models.

1. [How to run it](#how-to-run-it)
2. [The system](#the-system): components, their state and how they interact
3. [What makes the system correct](#what-makes-the-system-correct)
4. [The modules](#the-modules): what each models, its runs, bounds, fairness, proofs
5. [What the runs found](#what-the-runs-found)
6. [What is proved and what is only model-checked](#what-is-proved-and-what-is-only-model-checked)
7. [What is not modelled](#what-is-not-modelled)
8. [Plan](#plan)

## How to run it

    tlc -workers 2 -config MCPolish.cfg PolishLoop      # a run: see "runs" in PROJECT.json
    tlapm RoundsProofs.tla                              # a proof module

Runs with `expect: pass` finish without an error, each within four minutes on two workers. Runs with `expect: violation` state one promise
of the repository's own documentation, and TLC prints the behaviour that breaks it. A definition
of the form `RecordedBaseOnly` or `ImportedOnce`, just before the one it varies, is a variant
with a plausible bug in it: put in place of its neighbour it makes a property fail, which shows
that the property says something about the code (the pairs are under "mutants").

## The system

agent-flywheel drives coding agents through a cycle: choose a goal, plan it, cut the plan into
*beads* (tasks in an external tracker, the command `br`), polish the beads, implement them in
*waves* of parallel agents, review, close the cycle. A coordinating agent reads skills (prose)
and calls the tools of an MCP server; the implementers are other agents in panes of a multiplexer
(`ntm`). They meet in four places: the bead tracker, git, Agent Mail and the files under
`.pi-flywheel/`.

    coordinator --tool calls--> MCP server --load/save--> .pi-flywheel/checkpoint.json
                                   |  ^                        ^
                                   |  | br ready/show/update   | a second server, fw-call.mjs, observe
                                   v  |
                                bead tracker <--claim, close-- implementers (panes)
                                                                  |  mail      | pane states
                                                                  v            v
                      tender daemon (own process) --fetch_inbox, ntm--> tender-events.log

    reviewers, graders --verdict files--> MCP server      panes on another Mac <--ssh: pull, push--> here

- The server does not serialise tool calls: `server.ts:1052` starts each one, it loads its own copy
  of the state, awaits external commands, and saves the copy. Two calls interleave at every `await`.
- Several server processes may serve one directory: two sessions, or a session and `fw-call.mjs`.
  They share files, and no lock.
- The coordinator may call any tool in any order, repeat a call, or skip one. The skills ask for an
  order; the code accepts others, so the models enumerate every call the code accepts, and a
  constant restricts them where a property is only promised of the order the skills ask for.

### Components

| Component (main sources under `src/mcp-server/src`) | State | Operations | Hard behaviours | Status |
|---|---|---|---|---|
| Checkpoint persistence (`checkpoint.ts`, `state.ts`) | checkpoint.json, its tmp and its quarantine file; a chain of pending writes per process | save, load, clear, remediate | crash between two file-system calls, disk full, two processes, a reader that repairs | modelled |
| Bead approval: polish loop (`tools/approve.ts`) | round, changes, converged, refining hint; the last snapshot in memory | polish, advanced, converge-polish, start, reject | restart loses the snapshot, another project shares it, rounds counted twice, termination | modelled |
| Review gates (`tools/review.ts`) | gate index, clean streak, rounds per key | looks-good, hit-me, autofix, skip, converge, regress | wrap-around, resets that do not reset, a stale copy saved, termination at a cap | modelled |
| Bead waves (`approve.ts`, `review.ts`, `verify-beads.ts`, `advance-wave.ts`, `mutex.ts`) | bead statuses in `br`, results in the checkpoint, the start mutex | start, review, verify, advance | overlapping calls and implementers, a failure half-way through marking, stale ready lists | partly |
| Tender daemon (`tender-daemon.ts`, `tender.ts`) | last poll time, known ids, pane states, the chain of appends | poll, stop | messages sent during a poll, outages, failed appends, stop in the middle of a poll | partly |
| MCP server and dispatch (`server.ts`) | none of its own | one handler per call | calls overlap | partly (as the calls of the waves and gates) |
| Agent Mail client (`agent-mail.ts`) | none | RPC calls | a failed call looks like an empty answer | partly (fetchInbox) |
| Bead graph (`bead-graph.ts`, `beads.ts`) | none | ready lists, counts | an error reads as an empty list | partly (readiness) |
| Doctor, remediation, observation (`tools/doctor.ts`, `remediate.ts`, `observe.ts`) | remediate.lock | checks, remediations | a lock left behind, reads that write | partly (checkpoint_validity) |
| Path and file safety (`utils/fs-safety.ts`) | none | guarded unlink | check, then act | partly (guardedUnlink) |
| Choosing a goal, planning, plan approval (`tools/select.ts`, `tools/profile.ts`, `tools/plan.ts`, `tools/approve.ts`) | goal, plan document, phase | select, profile, plan, approve, reject | what a new goal leaves of the old one, a plan used before it is registered | partly |
| Outcome grading (`outcome-grading.ts`) | rubric and its lock file, verdict files, the last five gradings, grader locks in memory | synthesize, edit, skip, grade, remediate | an iteration number from a history that is cut, a forced second grader, an edit under a synthesis, a full disk | modelled |
| Batch reviews (`commit-batch.ts`) | baseline, ranges that are pending, findings filed | due, dispatch, read verdict, file beads | a verdict read while it is written, a finding filed twice or never | modelled |
| Completion reports, verification ledger (`completion-report.ts`) | a report per bead, an append-only file | stamp, append, check the wave | torn rows, concurrent writers, a verdict on code that moved | modelled |
| Swarm host (`swarm-host.ts`) | the clone's commits, beads and reports; swarm-host.json; a caffeinate | choose, release, sync, start and advance through it | half a pull, lost answers of ssh, panes at work meanwhile, conflicts | partly |
| Retries of commands (`cli-exec.ts`) | attempts | exec | a retry of what was performed | not modelled (SwarmHost has its effect on the keep-awake) |
| Build mutex and goal commits (`src/scripts`) | a lock directory, git HEAD | commit | compare-and-swap with other committers | not modelled |
| Convergence score (`convergence.ts`) | a ring of five revisions | append, score | boundaries of the score | not modelled |
| Telemetry spool (`telemetry.ts`) | counters, a spool file | record, flush | merge under a lock; nothing but the tests calls the flush | not modelled |
| Swarm spawning, Pi models and routing, memory, audit, rescue, handoff, skill lint, hooks and installers | caches, reports | one external command or a pure function each | none that several steps reach | not modelled |

## What makes the system correct

Per component, the claims worth arguing about, and the definition that states each.

- **Checkpoint.** A reader sees the last state written or the one before, never half of one, through
  a crash at any point (`ImplementsStore`, `OnlyEditsTear`).
- **Goal.** A cycle is about one goal: its plan, its rubric and every grading it counts (`OneGoal`);
  it is sent round again fewer times than the cap, although the history the count is taken from is
  cut (`RoundsBounded`); one grader at a time writes a verdict, and none is overwritten
  (`GradersAlone`); what the operator edited is not synthesized away (`EditsKept`).
- **Polish loop.** *Converged* means that two rounds changed nothing (`ConvergedIsQuiet`); the number
  of rounds asked for is bounded although the counter survives some events and not others
  (`BoundedButForLosses`); a coordinator that keeps polishing is told to stop (`PolishStops`).
- **Waves.** No bead starts before what it needs (`DependenciesFirst`), none has two implementers
  (`LaunchedOnce`), one start marks at a time (`MutexExclusive`) and its mutex is freed
  (`MutexFreed`), a start that failed leaves no marks (`NoOrphanMarks`), what is recorded as success
  is closed (`SuccessWasClosed`), all beads get settled (`WaveDrains`) and the gates begin only then
  (`GatesAfterAllBeads`, false).
- **Verification.** A verdict is about the code that is on the branch (`RewriteVoids`) and about the
  report the implementer wrote last (`EditionKept`); the ledger has a row for it (`LedgerTells`) that
  can be read, whatever was torn before it (`RowsReadable`); whoever has what is listed verified gets
  the wave through (`WavePasses`).
- **Batch reviews.** What a reviewer found is filed (`FindingsFiled`), twice only for a loss
  (`FiledOncePerLoss`); no commit escapes review (`NothingSkipped`); a review that was sent out
  settles (`ReviewsSettle`).
- **Swarm host.** Nothing that either checkout had is taken back (`NothingUndone`, and `VerdictsKept`,
  false); a pull that went through brought everything (`Collected`), no close without its commit
  (`ClosedHasCode`); prompts go out only after what they are about (`PanesAreTold`); one caffeinate runs
  (`AwakeOnce`); finished work comes home (`ComesHome`).
- **Gates.** A cycle is complete only when every gate passed since the last failure
  (`CompleteIsClean`); rounds converge exactly when earned (`ConvergesWhenEarned`) and eventually
  (`RoundsConverge`).
- **Tender daemon.** No message is recorded twice (`RecordedOnce`), none is dropped that every fetch
  answers (`MessagesRecorded`), the log agrees with what the daemon compares with (`PanesReplay`),
  and a stop is the last event and comes (`StoppedLast`, `StopEnds`).

## The modules

| Module | Models | Extended by |
|---|---|---|
| `CheckpointFile` | the file-system calls of checkpoint.ts | `CheckpointProps` |
| `CheckpointStore` | abstract: an atomic store | instantiated by `CheckpointProps` |
| `CheckpointProps` | the refinement mapping and the properties | `MCCheckpoint`, `CheckpointFileProofs` |
| `PolishLoop` | bead-approval mode of approve | `RoundsProofs` |
| `ReviewGates` | gates, converge and regress of review | `RoundsProofs` |
| `BeadProgram` | abstract: what the waves promise of the beads | instantiated by `BeadWave` |
| `BeadWave` | start, review, verify and advance over `br` and the implementers | `MCBeadWave`, `BeadWaveProofs` |
| `TenderDaemon` | the daemon's polling loop and log | `TenderDaemonProofs` |
| `BatchReview` | reviews of ranges of commits, from either tool | `BatchReviewProofs` |
| `VerificationGate` | verify-bead, the two gates of advance_wave, the ledger | `VerificationGateProofs` |
| `GoalCycle` | choice of a goal, plan, rubric, grading | `GoalCycleProofs` |
| `SwarmHost` | the two checkouts of a swarm on another Mac | `SwarmHostProofs` |

`PolishLoop` and `ReviewGates` share no name, so that one module of proofs can extend both: what
every module has (Init, Next, Spec, TypeOK) is PolishInit, PolishNext, ... in the first.

Modules that model calls have a `call` per slot with the call's own copy of what it loaded; an action
is what happens between two awaits. Failures, losses and overlaps are counted in history variables,
and bounded by one constant of the module: a property that must allow for them says by how much.

### CheckpointFile, CheckpointStore, CheckpointProps

*State.* Three names (`main`, `tmp`, `corrupt`) bound to inodes or to nothing; `data`, the content of
each inode: a state, `Empty` (just truncated) or `Torn`; per process its place `pc`, the file it has
open `fd`, the chain of its pending writes (`writeLocks`) and `acked`, the last state for which a
save was answered true. Names and inodes are kept apart because a rename moves an inode under a
name while another process still writes it.

*Actions.* One per system call: `Save` joins the chain; `OpenTmp` truncates the tmp, `WriteTmp` fills
it, `WriteFails` leaves it as far as it got, `RenameTmp` publishes it; `ReadExists`, `ReadMain`,
`Quarantine`, `CleanTmpExists`, `CleanTmp` are readCheckpoint; `ClearExists`, `Clear` are
clearCheckpoint; `BackupExists`, `Backup` the remediation. `Crash` returns the process to idle and
loses its chain. `Tamper` is an edit from outside, of checkpoint.json only. The envelope's version
and hash are abstracted to *valid or not*.

*Abstract specification.* `CheckpointStore` is one variable, written, read, set aside or erased in one
step. `CheckpointProps` maps a main file that is absent to `None`, an invalid one to `Bad`, a valid one
to its state, and each process to the request it is performing.

*Run `checkpoint_refines`*: 1 process, 2 states, 3 inodes, a chain of 2, edits; 48 096 states. Two states tell the old from the new one; three inodes are the most one process can have in use
(main, tmp, corrupt); a chain of two is the shortest with something waiting behind a write.

*Proofs* (`CheckpointFileProofs`). `TypeCorrect` for any number of processes. `NeverHalfWritten` for any
number of processes that load, clear, remediate and die, as long as one at a time is between the open and
the rename of a write (`OneWriter`): its invariant `WriterInv` says that what the writer has open is never what
readers see, and that what it is about to publish is whole or was taken away. The assumption is needed: two
writers truncate each other's tmp, and TLC, with two processes and four inodes, finds one that opens the
shared tmp while the other is about to rename it. `NeverHalfWrittenAlone` is the case of one process.
`Refinement` assumes `OneProcess`: with a second one a reader may set aside a checkpoint that was
replaced by a valid one after it looked. Its invariant is
`IInv`: types, `WriteOwnsHead` (a process in a write has that write at the head of its chain),
`TmpApart` (main and tmp never name one inode) and `WriteOwnsTmp` (while a write is under way tmp names
the file it opened, with the content it gave it, and what a reader is about to set aside stays
invalid). Without the last a rename could publish anything.

### PolishLoop

*State.* `phase`, `round`, `changes` (the history, up to its last entries that the score looks at),
`converged`, the answer `stop`, the in-memory `snapshot`, and `graph`: the beads, each with a visible
part (`Shown`) and what countChanges cannot see (`Hidden`). History variables: `before` and `quietRounds`
(how many of the last rounds really changed nothing), `requested`, `lost`, `disturbed`.

*Actions.* `Polish`, `Advanced`, `ConvergePolish`, `Start`, `StartRefused`, `Reject`: each is the
tracking that every call runs first and then its own branch. `NewCycle`; `Edit` (the agents);
`Restart` (the server: loses the snapshot, keeps the counters); `OtherProject` (a call for another
directory takes over the module-level snapshot). The plateau score is a choice of either answer once
it has three entries, since its weights are not the subject.

*Run `polish`*: 2 visible graphs, 1 hidden, MaxRounds 2, MaxPolishRounds 3, counters capped at
MaxRound 4, one loss, another project; 14 420 states. Two graphs give *changed* and *unchanged*;
rounds one beyond either cap are what the bounds are about.

*Fairness.* `WF(Polish \/ ConvergePolish)`: the coordinator of skills/start/_beads.md polishes until
told to stop. Nothing is assumed of the agents, who may edit at every round.

*Proofs* (`RoundsProofs`). `PolishTypeCorrect`. `RoundsBounded` for `MaxRounds <= MaxPolishRounds`, from
`Counted`, which relates the requests to the stored round and the losses. `ConvergedTrusted`, for a
`Hidden` of at most one member, which says: *if countChanges sees every edit*. It needs
`SnapshotIsStart` (the snapshot is the graph the round began with) and `ZerosAreQuiet` (zeros at the
end of the history were quiet rounds). With two members of `Hidden` TLC refutes the property: the
fingerprint has the length of a description and not its text, and no dependencies (`approve.ts:65`).

### ReviewGates

*State.* `st`, the stored part (phase, gate index, streak of passed gates, iteration per key);
`pending`, the copy held by an autofix call that awaits git. History: `passed` (gates since the last
failure), `ran`, `quiet`, `seen` (rounds performed), `redone` (work went back to the beads) and
`undone` (an older copy was saved over newer rounds).

*Actions.* `LooksGood`, `HitMe` (and skip), `AutofixBegin` and `AutofixEnd` (load; save, with anything
in between), `Converge`, `EnterGates` (the last bead's review), `Regress`, `Advance`. Every
call begins with `Loaded`: loadState makes a fresh state of an idle or complete checkpoint.

*Run `gates`*: 3 gates, one key, MaxFreshEyes 3, CleanTarget 2, every switch on: gates called in order,
re-entry, autofix, rounds outside a cycle; 344 736 states. Three gates let the circuit begin in the
middle and wrap; a cap one above the target tells cap from convergence. `InOrder` says that gates are called while the phase is iterating, as the skills do:
without it a looks-good in any phase moves the index.

*Fairness.* Weak fairness of `Converge` for each key: the coordinator records rounds until told that
the review converged (skills/start/_review.md). The findings are free.

*Proofs* (`RoundsProofs`). `TypeCorrect` through `SoundState` (a streak never exceeds its rounds).
`CompleteOnlyClean` under `InOrder`, for every number of gates. The invariant is `StreakIsPassed`: the
`clean` gates behind the index, counted backwards *around* the circuit (`Back`), have all passed.
Three lemmas carry the modular arithmetic (`BackNext`, `BackFirst`, `BackCovers`).
`ConvergenceEarned`, for every number of keys and any target, from `EarnedInv`: the rounds and the
streak of a key that has not converged were all run in this cycle, unless an autofix call wrote older
ones back.

### BeadWave, BeadProgram, MCBeadWave

*State.* `bead` (the statuses in `br`), `st` (phase and results of the checkpoint), `call` (one slot
per overlapping call: tool, place, its copy of the state, beads still to do and done), `lock` (the
start mutex), `agents` (implementers per bead). History: `closed` (beads ever closed), `launched`,
`trouble` (failures so far). `Needs` and `Parent` are the graph.

*Actions.* Between two of them there is exactly one `br` command or one `await`: `StartListed`,
`StartReady`, `StartLock`, `StartMark`, `StartRollback`, `StartLaunch`; `ReviewShow`, `ReviewClose`,
`ReviewSiblings`, `ReviewParent`, `ReviewSkip`, `ReviewNext`, `ReviewMark`, `ReviewLaunch`;
`AdvanceShow`, `AdvanceClose`, `AdvanceVerified`, `AdvanceDispatch`. `Claim` and `Done` are an
implementer. `BrUpdate` with a failure is performed or not: the answer may be what was lost.
A call of advance_wave counts as trouble where a property is about goals that do not use it.

*Abstract specification.* `BeadProgram` knows neither calls nor the checkpoint: only what each bead is in
`br`, how many implementers it has, what was closed, and whether something went wrong. Until then every
step is one of `Start`, `Send` (a whole wave), `Close`, `Defer` or `Leave`, and each says when it is legal: a
bead is begun when it is open, unattended and due, nothing is opened again, what was never begun is
closed only as the parent of a family that is closed. Afterwards steps are free but for `Careful`: still nothing is
begun before what it needs. The mapping is the identity on three variables of BeadWave and
`trouble > 0`; what makes the refinement hard is that the tools decide from lists they read some awaits
ago.

| Run | Instance | States | Shows |
|---|---|---|---|
| `wave` | two tasks and the epic above them, 1 call at a time, 1 failure, FairSpec | 32 208 | SuccessWasClosed, LaunchedOnce, MutexFreed, WaveDrains |
| `wave_overlap` | the same, 2 calls at once, symmetry of the calls, safety only | 282 450 | MutexExclusive, NoOrphanMarks, DependenciesFirst, ImplementsProgram |
| `wave_gates` | start and looks-good, no failure | violation | the gates begin too early |

Two tasks are the smallest wave with siblings, and the epic the smallest dependency; it waits for
both and is their parent, so both ways of closing a parent occur. Two calls are what a
coordinator with a subagent makes; the races found need no third. The instances stop when every
bead is settled, so they do not check for deadlock: `WaveDrains` and `MutexFreed` are what would
notice one.

*Fairness.* WF of each call's `Step` (an awaited command returns: exec has timeouts), SF of start while
approval is awaited and SF of the review of a bead whose implementer is done (the coordinator comes
back to them; strong, because another call may take the slot), WF of the implementers.

*Proofs* (`BeadWaveProofs`), for any graph and any number of overlapping calls. `TypeCorrect` from
`IType` = TypeOK and `Shaped` (which fields a call has at which place). `MutexHeld`. `LaunchedInOrder`
from `ClosedWas` (a closed bead is in `closed`) and `Ordered` (every bead a call is about to launch,
although read from `br` some awaits ago, had its dependencies closed by then). `SuccessIsClosed` from
`SuccessInv`: *every copy* of the state, the checkpoint's and each call's, records as success only what
was closed. `MarksAreTakenBack` from `MarkInv`: what is in progress was launched or is among the beads
done by a call that has still to launch them or to take them back, and who takes marks back had
trouble. `OneImplementer` from `OnceInv`: one call at a time, nobody at work on an open bead nor on one
that the call is about to launch. The last two rest on `Ordered` too, which says that a call has
done nothing before it marks its first bead. `WavesImplementProgram` is the step simulation: `SmoothStep`
maps each action to a step of `BeadProgram` or a stutter while nothing went wrong, `CarefulStep` does the
rest. It needs `OnceInv`, `Attended` (who is at work was sent to what is due, for a claim that comes
late) and `SteadyInv`: what a call is still to mark is open and what it marked is in progress, a
review is of a bead that was begun, and at the place where the parent is closed the whole family is.

### TenderDaemon

*State.* `stamp` (per message: unsent, or its created_ts against the poll times: old, recent, now),
`known` (the ids remembered), `panes` (the states compared with), `at`, `got`, `pending` (events of the
poll not yet appended), `log`, `broken` (an append failed), `life`. History: `seen`, `missed`.

*Actions.* `Send` by anyone at any moment; `Poll`, `Fetch` (the newest `Limit`, or nothing if the RPC
fails), `Read` (panes, then what is new), `WriteTick`, `WriteMessage`, `WritePane`, `WriteFails`,
`PollEnds`; `StopAsked`, `StopWrites`; `Killed`. Only one poll runs at a time
(`pollInFlight`); the appends hang on one promise chain (`writeQueue`), which a failed one rejects for
good.

*Run `tender`*: 3 messages, 1 pane with 2 states, Limit 2, MaxTracked 2; 146 566 states. Three messages
overflow both the fetch and the memory of ids, the code's 200 and 2000 in small. The daemon does
stop, so deadlock is not checked.

*Fairness.* WF of `Poll`, `Fetch`, `Read`, the appends, `PollEnds` and `StopWrites`: the timer fires, the
RPC and `ntm` have timeouts, an append settles either way. Nobody has to send or to stop, and a death
is never forced.

*Proofs* (`TenderDaemonProofs`), for any number of messages and panes and any limits with
`Limit <= MaxTracked`. `RecordsOnce`: invariant `Once` (what was taken is old or still known), with the
lemma `FreshIdsStay` that trimming keeps the ids just fetched; the assumption is what makes an
id dropped while its message is recent impossible. `PanesReplayed`: invariant `Lag`. `NothingAfterStopped`:
`StoppedEnded`.

### BatchReview

*State.* `head` (how many commits), `st` (baseline, pending ranges and filed ids of the checkpoint),
`due` (the range the coordinator was told of), `file` (the verdict file of each range: none, torn while it
is written, unreadable, ready), `beads` (per finding), `call`. History: `applied`, `losses`, `overlaps`,
`unreads`.

*Actions.* `ReviewBegins`, `NoVerdict`, `Dispatch` are handleBatchReview; `AdvanceBegins`, `NextRange`, `Due`
are applyLandedBatchReviews and findDueBatchReview; `ReadVerdict`, `FileFinding`, `Settle` are what both
use. `CreateFails` and `CreateUnanswered` are a br create that was not, or was, performed; `ReadFails`,
`Crash`. `Commit` and the `Reviewer` actions are external.

*Run `batch`*: 2 commits (three ranges that overlap), verdicts of 2 findings, 2 calls, one loss or overlap;
195 056 states. Two findings are the least of which one can be filed and the other not. Calls end and
nobody has to begin another, so deadlock is not checked.

*Fairness.* WF of the steps of a call and of the reviewer that was sent the prompt; SF of
flywheel_advance_wave, which the skills repeat; SF of a br create that succeeds: the run shows that a
dispatched range settles unless br fails for ever.

*Proofs* (`BatchReviewProofs`). `EveryFindingFiled` from `FiledInv`: the ids recorded in *every copy* of
the checkpoint, the stored one and those of the calls, are those of beads. `NoCommitSkipped` from
`CoverInv`: with one call at a time each copy's pending and settled ranges cover its baseline. `FiledAgainOnlyIfLost` from `OnceInv`, which counts for each finding
its beads *and the copies of the checkpoint from which it may yet be filed* (`Held`): together at most
one more than the losses and overlaps. While a call is in flight its copy counts and the checkpoint,
over which it will be saved, does not; a call that dies gives the checkpoint back and is a loss, one that
begins beside another adds a copy and is an overlap. A single reviewer per range is assumed by `FindingsFiled`: a second one may write another verdict.

### VerificationGate

*State.* The branch (`start`, `head`): a sha is the number of rebases and the commits since the cycle's
start, so that *is an ancestor of* is *is a prefix of*; a patch id is what two trees differ in. `rep`
(the report of each bead: torn or whole, which edition, which verdict), `wrote` (the implementer's
editions), `ledger` (how the file ends), `rows`, `call`, `answer` and `listed` of the last advance. History:
`crossed`, `glued`, `raced`, `lost`, `overlaps`.

*Actions.* `Commit`, `Amend`, `Drop`, `Rebase` move the branch. `ImplementerBegins` and `ImplementerEnds`
truncate and fill a report. `VerifyBegins` to `VerifyFills` are verify-bead; `Header`, `Look`, `AppendRow`,
`AppendFails` the ledger's append, for both tools; `Attest` the evidence gate; `GateReads` to `GateEnds`
checkWaveVerification. `Crash` may leave the row on its way torn.

*Run `verification`*: one bead, 2 versions, 2 moves of the branch, 2 calls, one failure and one overlap;
871 050 states. The beads of a wave are checked one after another and share only the ledger, to which
two calls for one bead append as well. Two moves are a commit and its amendment, drop or rebase. A
verify-bead begins for a bead that has no verdict or was listed; a new edition is only written while a
call is in flight, since otherwise it is the first edition again. Where two processes fill one
file, the last fill wins.

*Fairness.* WF of the calls and the implementers, SF of verify-bead for what is listed and of
advance_wave: what skills/start/_implement.md asks the coordinator to repeat.

*Proofs* (`VerificationGateProofs`), for any wave, any branch and any number of calls. `LedgerIsTold` from
`TellInv` (a verdict on disk has its row or a call that has yet to append it), `RowsStayReadable` from
`ReadInv` (the file ends torn while a call remembers it whole only if a tear raced that look),
`EditionSurvives` from `EditionInv`, `RewriteVoidsVerdict` from the step of `GateAssess`: equal patches
have equal versions of every file they change.

### GoalCycle

*State.* `st` (phase, goal, whose plan, whose rubric, skipped, history of gradings), `docs` (how often each plan
document was written, which is also its content), `rub` (rubric.md and the content its lock file names),
`verd` (verdict files), `locks` (in memory), `call`. History: `cycle`, `order`, `needs`, `rewrote`,
`trampled`, `overlaps`, `lost`, `forced`.

*Actions.* Tools that wait for nothing between load and save are one step (`PlanFile`, `PlanContent`,
`PlanPrompt`, `PlanDeep`, `ApprovePlan`, `RejectPlan`, `RubricReused`, `RubricValidated`, `SkipRubric`); those
that wait for a model, git or br have a begin and an end (`ChooseBegins`, `SelectEnds`, `ProfileEnds`;
`RubricBegins`, `RubricWritten`, `LockWritten`; `EditBegins`, `EditEnds`; `GradeBegins`, `Verdict`,
`GradeEnds`, `GradeFails`; `RemediateBegins`, `RemediateEnds`). `Crash` loses the calls and the locks.

*Run `goal_cycle`*: 2 goals, 2 choices, 2 writings of a plan, a cap of 2 (equal to the history's), 2
calls, one overlap, loss or forced grading; 1 637 332 states. Equal caps are the narrowest case the
code's defaults allow: at the cap the history is just about to be cut. Cycles are bounded, so deadlock is
not checked.

Only some sequences keep a cycle to one goal, and the property names them: the goal came from
flywheel_select (a profile with a goal sets it and leaves plan and rubric), the plan was registered
before anything used it (`order`), and no call was overlapped (a copy saved late brings the old goal back).

*Proofs* (`GoalCycleProofs`), for every cap and number of calls. `OneGoalAtATime` from
`SoloInv`: while nothing overlapped, the one copy in flight is the stored state. `GradingExclusive` from
`LockInv`: who grades unforced has the lock and an unwritten iteration. The other two count what the
overlaps paid for. `EditsAreKept` from `EditsInv`: the edits that were replaced, the syntheses and edits in
flight but for one, and the edited rubric that a synthesis is about to replace are together no more than
the overlaps. `RoundsAreBounded` from `NeedsInv`: the coordinator was sent round no more often than the
history has entries, but for those a late save took back; a copy in flight may take back as many as there
are gradings beside it (`GradersBut`), and each of these began with an overlap. A copy whose phase is idle
is not counted, for loading it makes a fresh state.

### SwarmHost

*State.* Per site (this checkout and each host) the commits `log`, the beads `db` and the reports `report`;
`ref`, what was fetched of a host; `branch` and `mirror` (whether a clone has the branch, a beads.db);
`out`, the export here; `rec` (swarm-host.json), `awake` (the caffeinates that run); `away`; `owed`, the beads
whose prompts wait for a push; `pane`; `call`, one at a time. History: `late`, `stray`, `trouble`.

*Actions.* A pull is `Fetch`, `Join`, `Flush`, `Merge`, `Reports`; a push is `Push`, `Export`, `Import`; each
is one command on the host or here, and `Fail` (not performed) or `Unheard` (performed, the answer lost)
may end it at any of them. `Sync`, `Release`, `Choose` with `InitClone`, `KeepAwake`, `Record`, `Kill`,
`Clear` are flywheel_swarm_host; `Start`, `Advance` and `Gate` the two boundaries of a wave; `Verify`
is verify-bead. The panes claim, commit and close while calls run; the operator commits here, leaves the
branch, comes back, merges a conflict by hand.

*Abstractions.* A bead stands for the commit of its code; a merge adds no commit of its own (a log is the
set of what was committed); the edits of a bead are ordered, so that br's *newer wins* is *further wins*.
A start without a host recorded is BeadWave's. Left out: the hour after which a caffeinate ends by itself and
hosts that have none, Agent Mail registration, trust of the folder, the list of remembered hosts; br's
own import of a newer export is taken to lose nothing. The branch changes between calls only.

*Runs.* `swarm_host`: one host, 2 beads of which one must be verified and conflicts with the one local
commit, one trouble; 640 127 states, deadlock checked. Two beads let one be finished while another is
marked; one trouble may strike at any command. To choose another host first releases the one before: the
model has it, this instance does not reach it. `swarm_verdicts`: one bead, no trouble; violation.

*Fairness.* WF of `Proceed` (every command has a timeout), WF of `Return` and `MergeByHand` (an operator
follows the hints the refusals give), SF of `Sync` (skills/_offload.md asks for one at every boundary;
strong because other calls are made in between). Nothing is assumed of the panes.

*Proofs* (`SwarmHostProofs`), for every number of hosts, beads and failures, any conflicts and any set
of beads to verify. `IInv` has seven parts. `HostInv` says which host a call is about and whose caffeinate is
recorded; from it `AwakeNotStacked`, with `AwakeInv`: at most the recorded one runs besides those whose
answer was lost, and from the moment a choice starts another, the one it will record. `ClosedComesWithCode`
from `CloneInv` (a pane works in a clone that has the branch and the beads, and closes after its commit) and
`CodeInv`: what is closed in any copy on its way here, the export and the snapshot of a pull included, has its commit here,
unless it was known late. `PullBringsAll` from `PullInv` and `NothingTakenBack` with it: what the source
had when a pull began has come as far as the pull has; `PromptsFollowPush` from `PushInv`, the same for a push.

## What the runs found

Each is a run with `expect: violation`; `PROJECT.json` quotes the line it contradicts.

| Run | What happens | Where |
|---|---|---|
| `wave_gates` | With two beads in parallel the review of the first says that all are complete and enters the gates | `tools/review.ts:959` |
| `swarm_verdicts` | A verdict recorded here by verify-bead is replaced by the host's report, which has none, at the next pull, the one with which advance_wave begins to check the wave | `swarm-host.ts:657` |

Met while modelling, and reproducible with these modules by stating the promise as a property; the
models contain the behaviour, and the runs' properties are stated so as to hold in spite of it:

- Two processes share one tmp, so checkpoint.json may hold a half-written state although the write is
  called atomic and crash-safe (`checkpoint.ts:180`; hence `OneWriter`).
- flywheel_observe, documented as never writing, renames an invalid checkpoint and deletes an orphaned
  tmp (`tools/observe.ts:284`).
- converge-polish compares the graph with the snapshot its own tracking has just taken; its second
  call reports two quiet rounds after one (`tools/approve.ts:1311`).
- Gates passed before a regress count towards the clean circuit that completes the cycle
  (`tools/review.ts:1133`; hence `redone` in `CompleteIsClean`).
- A poll whose fetch failed still moves lastPollTs; what was sent before it is later taken for old
  and never recorded (`tender.ts:251`; hence `missed`).
- An edit committed after verification leaves the verdict in place as long as the verified head is an
  ancestor of the branch (`tools/advance-wave.ts:92`), which `tools/advance-wave.ts:103` and
  skills/start/_implement.md describe as voiding it. `RewriteVoids` is about rewritten branches only.
- A torn verdict file is filed as a re-review bead, whose id then counts for the first finding of the
  verdict (`commit-batch.ts:170`; hence the second half of `FindingsFiled`).
- A goal that is chosen again finds the verdict file of its first iteration: the grading is refused
  unless it is forced (`outcome-grading.ts`, `Unwritten`).

Some properties hold only in a part of what the code accepts, and say so in their statement:
`CompleteIsClean` of cycles whose work did not go back to the beads, `ConvergedIsQuiet` of cycles that
were not disturbed, `SuccessWasClosed` and `LaunchedOnce` while nothing failed (and, for the latter,
without advance_wave), `OneGoal` and `NothingSkipped` while no calls overlap. The hazards list says what
TLC finds outside.

## What is proved and what is only model-checked

| Theorem | Property | Assumes |
|---|---|---|
| `CheckpointFileProofs!TypeCorrect` | TypeOK | |
| `CheckpointFileProofs!NeverHalfWritten` | OnlyEditsTear | always OneWriter |
| `CheckpointFileProofs!NeverHalfWrittenAlone` | OnlyEditsTear | OneProcess |
| `CheckpointFileProofs!Refinement` | ImplementsStore | OneProcess |
| `RoundsProofs!PolishTypeCorrect` | TypeOK | |
| `RoundsProofs!RoundsBounded` | BoundedButForLosses | MaxRounds <= MaxPolishRounds |
| `RoundsProofs!ConvergedTrusted` | ConvergedIsQuiet | at most one hidden part |
| `RoundsProofs!TypeCorrect` | TypeOK | |
| `RoundsProofs!CompleteOnlyClean` | CompleteIsClean | InOrder |
| `RoundsProofs!ConvergenceEarned` | ConvergesWhenEarned | |
| `BeadWaveProofs!TypeCorrect` | TypeOK | |
| `BeadWaveProofs!MutexHeld` | MutexExclusive | |
| `BeadWaveProofs!LaunchedInOrder` | DependenciesFirst | |
| `BeadWaveProofs!SuccessIsClosed` | SuccessWasClosed | |
| `BeadWaveProofs!MarksAreTakenBack` | NoOrphanMarks | |
| `BeadWaveProofs!OneImplementer` | LaunchedOnce | |
| `BeadWaveProofs!WavesImplementProgram` | ImplementsProgram | |
| `TenderDaemonProofs!TypeCorrect` | TypeOK | |
| `TenderDaemonProofs!RecordsOnce` | RecordedOnce | |
| `TenderDaemonProofs!PanesReplayed` | PanesReplay | |
| `TenderDaemonProofs!NothingAfterStopped` | StoppedLast | |
| `BatchReviewProofs!TypeCorrect` | TypeOK | |
| `BatchReviewProofs!EveryFindingFiled` | FindingsFiled | |
| `BatchReviewProofs!NoCommitSkipped` | NothingSkipped | |
| `BatchReviewProofs!FiledAgainOnlyIfLost` | FiledOncePerLoss | |
| `VerificationGateProofs!TypeCorrect` | TypeOK | |
| `VerificationGateProofs!RowsStayReadable` | RowsReadable | |
| `VerificationGateProofs!EditionSurvives` | EditionKept | |
| `VerificationGateProofs!LedgerIsTold` | LedgerTells | |
| `VerificationGateProofs!RewriteVoidsVerdict` | RewriteVoids | |
| `GoalCycleProofs!TypeCorrect` | TypeOK | |
| `GoalCycleProofs!OneGoalAtATime` | OneGoal | |
| `GoalCycleProofs!GradingExclusive` | GradersAlone | |
| `GoalCycleProofs!RoundsAreBounded` | RoundsBounded | |
| `GoalCycleProofs!EditsAreKept` | EditsKept | |
| `SwarmHostProofs!TypeCorrect` | TypeOK | |
| `SwarmHostProofs!ClosedComesWithCode` | ClosedHasCode | |
| `SwarmHostProofs!AwakeNotStacked` | AwakeOnce | |
| `SwarmHostProofs!NothingTakenBack` | NothingUndone | |
| `SwarmHostProofs!PullBringsAll` | Collected | |
| `SwarmHostProofs!PromptsFollowPush` | PanesAreTold | |

The named ASSUMEs of each module hold besides: distinct model values, counts that are naturals, the
daemon's `Limit <= MaxTracked` and finite set of messages. TLC evaluates them in every run.

The type invariants are proved and not checked again: the runs spend their time on what relates several
variables. Every other theorem states a property that a run checks as well.

The argument is the same throughout: an inductive invariant that implies the property, one lemma or
one step per action that preserves it, and one temporal step at the end.

Every safety property of every run that passes, invariant, action property or refinement, is proved for
all values of the constants, under the assumptions in the table. Only model-checked: the liveness properties (PolishStops, RoundsConverge,
MutexFreed, WaveDrains, MessagesRecorded, StopEnds, ReviewsSettle, WavePasses, ComesHome), which need
fairness and so ENABLED, beyond the prover; and the two violations, which are counterexamples. No module declares a recursive
operator and no theorem needs induction over data (`GoalCycle` sums a function with a fold, `Room`; the
proofs never look inside).

## What is not modelled

- In the modelled components: the report and hit-me reviews of a bead in BeadWave (its attestation and
  verification gates are a free choice in `AdvanceVerified`, and a module of their own); the weights of
  the plateau score; the daemon's rate_limited and context_low events, which accompany a pane event;
  the refinement rounds of a plan and the counter iterationRound; rubrics and gradings for a plan other
  than the registered one; texts, prompts and logging everywhere.
- External programs as such: `br`, `git`, `ntm`, `ssh` and Agent Mail are what the code sees of them,
  answers that are right, missing or lost. created_ts is taken as exact and of the daemon's clock: a message
  stamped in the millisecond of a poll, in whole seconds or by a clock that lags, which `tender.ts:251` would
  take for old, is not represented.
- Calls of the coordinator that overlap while a host is recorded: SwarmHost has one call at a time.
- Which straggler verify closes: `git log --grep` matches any message that contains an id
  (`tools/verify-beads.ts:118`); in the model any straggler may be closed.
- The queue_drained event: the daemon never passes the counts it needs (`tender-daemon.ts:428`).
- A daemon that is started a second time in the same directory: each run of TenderDaemon is one process.
- Single-step races known from reading, without a model: a server that dies while it remediates leaves
  remediate.lock behind (`mutex.ts:48`); a retried br create may have been performed
  (`cli-exec.ts:347`); the goal commit reads HEAD three times (`scripts/commit-goal-beads.mjs:125`).
- Components that run one external command or compute a pure function: model routing, memory, audit,
  skill lint, hooks and installers. There is nothing to interleave. Most of the code by lines is of
  this kind (doctor's checks, renderers, synchronisation of skill files, type declarations), which is why
  the map covers a small share of the lines and most of the state.
- The telemetry spool: only tests call its flush.

## Plan

The order is by what a mistake would cost.

1. Abstract specifications for the log of TenderDaemon (each message once, `stopped` last) and for the
   findings of BatchReview (filed once), which now have only their invariants.
2. SwarmHost with two hosts in one run, which its proofs cover and its run does not.
