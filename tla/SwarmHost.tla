------------------------------- MODULE SwarmHost -------------------------------
(***************************************************************************)
(* A swarm on another Mac (mcp-server/src: swarm-host.ts,                  *)
(* tools/swarm-host.ts, and the boundaries of a wave in                    *)
(* tools/advance-wave.ts and tools/approve.ts).                            *)
(*                                                                         *)
(* This checkout and the clone of each host keep commits, beads and        *)
(* completion reports of their own.  A pull brings the clone's here, a     *)
(* push hands ours over, each by several commands of which any may fail,   *)
(* or be performed without its answer arriving.  The coordinator makes one *)
(* call at a time; the panes work all the while.                           *)
(***************************************************************************)
EXTENDS Naturals, FiniteSets

CONSTANTS
    Hosts,      \* the Macs a swarm may run on
    Here,       \* this checkout
    None,       \* no host
    Beads,      \* the beads; each stands for the commit of its code too
    Local,      \* the commits made in this checkout meanwhile
    Clashing,   \* the beads whose code conflicts with those
    Strict,     \* the beads that must be verified
    MaxTrouble  \* bound on failed commands, lost answers and changes of branch

ASSUME SwarmAssumption ==
    /\ Here \notin Hosts /\ None \notin Hosts \cup {Here}
    /\ Beads \cap Local = {} /\ Clashing \subseteq Beads
    /\ Strict \subseteq Beads /\ MaxTrouble \in Nat

Sites == Hosts \cup {Here}

VARIABLES
    log,     \* the commits of each site's branch; a merge adds none of its own
    ref,     \* refs/flywheel-offload: each host's commits when last fetched
    branch,  \* the hosts whose clone has the branch, after their first push
    db,      \* how far each site's beads.db has each bead
    mirror,  \* the hosts whose clone has a beads.db
    out,     \* issues.jsonl here
    report,  \* .pi-flywheel/completion at each site
    rec,     \* swarm-host.json: the host, and what is known of its caffeinate
    awake,   \* the caffeinates that run on each host
    away,    \* this checkout is on another branch
    owed,    \* beads of a wave whose prompts are not sent yet
    pane,    \* the pane of each bead: where it is, how far it is
    call,    \* the coordinator's call
    late,    \* history: beads committed between a pull's fetch and its export
    stray,   \* history: caffeinates started or kept without a record of them
    trouble

vars   == <<log, ref, branch, db, mirror, out, report, rec, awake, away, owed, pane, call, late, stray, trouble>>
code   == <<log, ref, branch>>
beads  == <<db, mirror, out>>
record == <<rec, awake, stray>>
wave   == <<owed, pane, late>>

-----------------------------------------------------------------------------
\* A bead goes from open to in_progress to closed: the newer of two edits is the
\* further one.
Open   == 0
Marked == 1
Closed == 2
Status == Open..Closed
Newer(d, e) == [b \in Beads |-> IF d[b] > e[b] THEN d[b] ELSE e[b]]

Stages == {"none", "sent", "dirty", "committed", "closed"}
Asleep == [site |-> None, stage |-> "none"]

\* A call: its step, its host, the host to change to, the bead export on its
\* way, whether the local export failed unseen, the pid it got, and what its
\* source had when the pull or the push began.
Ops   == {"none", "start", "advance", "sync", "release", "choose"}
Steps == {"idle", "init", "fetch", "join", "flush", "merge", "reports", "gate",
          "push", "export", "import", "awake", "record", "kill", "clear"}
Nothing == [log |-> {}, db |-> [b \in Beads |-> Open], reports |-> {}]
Idle == [op |-> "none", at |-> "idle", w |-> None, to |-> None, snap |-> Nothing.db,
         blind |-> FALSE, pid |-> FALSE, had |-> Nothing]

TypeOK ==
    /\ log \in [Sites -> SUBSET (Beads \cup Local)] /\ ref \in [Hosts -> SUBSET (Beads \cup Local)]
    /\ branch \subseteq Hosts /\ mirror \subseteq Hosts
    /\ db \in [Sites -> [Beads -> Status]] /\ out \in [Beads -> Status]
    /\ report \in [Sites -> [Beads -> {"none", "plain", "verified"}]]
    /\ rec \in [host : Hosts \cup {None}, pid : {"none", "live", "dead"}]
    /\ awake \in [Hosts -> Nat] /\ stray \in Nat /\ away \in BOOLEAN
    /\ owed \subseteq Beads /\ late \subseteq Beads
    /\ pane \in [Beads -> [site : Hosts \cup {None}, stage : Stages]]
    /\ call.op \in Ops /\ call.at \in Steps /\ call.w \in Hosts \cup {None} /\ call.to \in Hosts \cup {None}
    /\ (call.at = "idle") <=> (call = Idle)
    /\ trouble \in 0..MaxTrouble

Init ==
    /\ log = [s \in Sites |-> {}] /\ ref = [w \in Hosts |-> {}] /\ branch = {}
    /\ db = [s \in Sites |-> Nothing.db] /\ mirror = {} /\ out = Nothing.db
    /\ report = [s \in Sites |-> [b \in Beads |-> "none"]]
    /\ rec = [host |-> None, pid |-> "none"]
    /\ awake = [w \in Hosts |-> 0] /\ stray = 0
    /\ away = FALSE /\ owed = {} /\ pane = [b \in Beads |-> Asleep]
    /\ call = Idle /\ late = {} /\ trouble = 0

-----------------------------------------------------------------------------
\* How a step of the call ends.
At(step)  == call.at = step
Goes(k)   == call' = k /\ UNCHANGED trouble
Stops     == Goes(Idle)
Troubled  == trouble < MaxTrouble /\ trouble' = trouble + 1
\* The command was performed, but its answer does not arrive.
Unheard   == Troubled /\ call' = Idle
Dirty(w)  == \E b \in Beads : pane[b] = [site |-> w, stage |-> "dirty"]

\* What a pull must bring here, and what a push must hand over.
Has(s) == [log |-> log[s], db |-> db[s], reports |-> {b \in Beads : report[s][b] # "none"}]
Pulls(k) == [k EXCEPT !.at = "fetch", !.had = Has(k.w)]
Pushes(k) == [k EXCEPT !.at = "push", !.blind = FALSE, !.had = [Has(Here) EXCEPT !.reports = {}]]

-----------------------------------------------------------------------------
\* pullFromSwarmHost.  The branch is looked at first; a clone that was never
\* pushed to has no branch to fetch.
Fetch ==
    /\ At("fetch")
    /\ \/ away /\ Stops /\ UNCHANGED ref
       \/ ~away /\ call.w \notin branch /\ Goes([call EXCEPT !.at = "flush"]) /\ UNCHANGED ref
       \/ /\ ~away /\ call.w \in branch
          /\ ref' = [ref EXCEPT ![call.w] = log[call.w]] /\ Goes([call EXCEPT !.at = "join"])
    /\ UNCHANGED <<log, branch, beads, report, record, away, wave>>

\* Mutant: commits are only ever taken up by a fast-forward.
JoinedIfAhead(w) == IF log[Here] \subseteq ref[w] THEN ref[w] ELSE log[Here]
Joined(w) == log[Here] \cup ref[w]

\* git merge-tree finds a conflict only where each side has what the other lacks.
Clash(w) ==
    /\ (ref[w] \ log[Here]) \cap Clashing # {}
    /\ (log[Here] \ ref[w]) \cap Local # {}

\* Mutant: the beads of work that could not be merged are brought all the same.
ConflictPassed(k) == [k EXCEPT !.at = "flush"]
Conflicted(k) == Idle

Join ==
    /\ At("join")
    /\ \/ Clash(call.w) /\ Goes(Conflicted(call)) /\ UNCHANGED log
       \/ /\ ~Clash(call.w)
          /\ log' = [log EXCEPT ![Here] = Joined(call.w)]
          /\ Goes([call EXCEPT !.at = "flush"]) \/ Unheard
    /\ late' = late \ log'[Here]
    /\ UNCHANGED <<ref, branch, beads, report, record, away, owed, pane>>

\* br sync --flush-only on the host, and the copy of its export over ours.
Flush ==
    /\ At("flush")
    /\ IF call.w \in mirror
         THEN /\ out' = db[call.w]
              /\ Goes([call EXCEPT !.at = "merge", !.snap = db[call.w]]) \/ Unheard
         ELSE Goes([call EXCEPT !.at = "reports"]) /\ UNCHANGED out
    /\ UNCHANGED <<code, db, mirror, report, record, away, wave>>

\* br sync --merge --force: each side keeps its own changes.
Merge ==
    /\ At("merge")
    /\ db' = [db EXCEPT ![Here] = Newer(@, call.snap)]
    /\ out' = db'[Here]
    /\ Goes([call EXCEPT !.at = "reports", !.snap = Nothing.db]) \/ Unheard
    /\ UNCHANGED <<code, mirror, report, record, away, wave>>

AfterPull(k) ==
    CASE k.op = "release" \/ k.to # None -> [k EXCEPT !.at = "kill", !.had = Nothing]
      [] k.op = "advance" -> [k EXCEPT !.at = "gate", !.had = Nothing]
      [] OTHER -> Pushes(k)

\* rsync -a takes every report of the host that differs from ours.
Copied(mine, theirs) == [b \in Beads |-> IF theirs[b] = "none" THEN mine[b] ELSE theirs[b]]

Reports ==
    /\ At("reports")
    /\ report' = [report EXCEPT ![Here] = Copied(@, report[call.w])]
    /\ Goes(AfterPull(call)) \/ Unheard
    /\ UNCHANGED <<code, beads, record, away, wave>>

-----------------------------------------------------------------------------
\* pushToSwarmHost.  It refuses uncommitted edits in the clone and only
\* fast-forwards; then the clone checks its branch out.
\* Mutant: the push is forced.
RefusesDirt(w) == Dirty(w)
Refuses(w) == Dirty(w) \/ ~(log[w] \subseteq log[Here])

Push ==
    /\ At("push")
    /\ \/ (away \/ Refuses(call.w)) /\ Stops /\ UNCHANGED <<log, branch>>
       \/ /\ ~away /\ ~Refuses(call.w)
          /\ log' = [log EXCEPT ![call.w] = log[Here]]
          /\ branch' = branch \cup {call.w}
          /\ Goes([call EXCEPT !.at = "export"]) \/ Unheard
    /\ UNCHANGED <<ref, beads, report, record, away, wave>>

\* The local export's result is not looked at; the file is copied as it is.
Export ==
    /\ At("export")
    /\ \/ out' = db[Here] /\ Goes([call EXCEPT !.at = "import", !.snap = db[Here]])
       \/ out' = db[Here] /\ Unheard
       \/ /\ Troubled /\ UNCHANGED out
          /\ call' = [call EXCEPT !.at = "import", !.snap = out, !.blind = TRUE]
    /\ UNCHANGED <<code, db, mirror, report, record, away, wave>>

\* The first import makes the clone's beads.db; later ones merge into it.
\* Mutant: every push imports the file over the beads.
ImportedOver(w, snap) == snap
\* Mutant: only the first push brings beads.
ImportedOnce(w, snap) == IF w \in mirror THEN db[w] ELSE snap
Imported(w, snap) == IF w \in mirror THEN Newer(db[w], snap) ELSE snap

\* What a push that went through is followed by: the wave's prompts, or the
\* rest of the choice.
Import ==
    /\ At("import")
    /\ db' = [db EXCEPT ![call.w] = Imported(call.w, call.snap)]
    /\ mirror' = mirror \cup {call.w}
    /\ \/ Unheard /\ UNCHANGED <<owed, pane>>
       \/ call.op = "choose" /\ Goes([Idle EXCEPT !.op = "choose", !.w = call.w, !.at = "awake"]) /\ UNCHANGED <<owed, pane>>
       \/ /\ call.op # "choose" /\ Stops
          /\ pane' = [b \in Beads |-> IF b \in owed THEN [site |-> call.w, stage |-> "sent"] ELSE pane[b]]
          /\ owed' = {}
    /\ UNCHANGED <<code, out, report, record, away, late>>

-----------------------------------------------------------------------------
\* flywheel_swarm_host.
\* Mutant: the push goes first, and its refusal ends the call.
SyncPushes ==
    /\ At("idle") /\ rec.host # None
    /\ Goes(Pushes([Idle EXCEPT !.op = "sync", !.w = rec.host]))
    /\ UNCHANGED <<code, beads, report, record, away, wave>>

Sync ==
    /\ At("idle") /\ rec.host # None
    /\ Goes(Pulls([Idle EXCEPT !.op = "sync", !.w = rec.host]))
    /\ UNCHANGED <<code, beads, report, record, away, wave>>

Release ==
    /\ At("idle") /\ rec.host # None
    /\ Goes(Pulls([Idle EXCEPT !.op = "release", !.w = rec.host]))
    /\ UNCHANGED <<code, beads, report, record, away, wave>>

\* Another host is released before the chosen one is prepared.
Choose(w) ==
    /\ At("idle") /\ ~away
    /\ IF rec.host \in {None, w}
         THEN Goes([Idle EXCEPT !.op = "choose", !.w = w, !.at = "init"])
         ELSE Goes(Pulls([Idle EXCEPT !.op = "choose", !.w = rec.host, !.to = w]))
    /\ UNCHANGED <<code, beads, report, record, away, wave>>

\* prepareSwarmHost's first command; a clone that is there is left as it is.
InitClone ==
    /\ At("init") /\ Goes(Pulls(call))
    /\ UNCHANGED <<code, beads, report, record, away, wave>>

\* The caffeinate this checkout has on record for the host is killed and another
\* started in one command.  The choice goes on without an answer, and the
\* command may be performed twice by runSsh's retries.
Recorded(w) == rec.host = w /\ rec.pid = "live"
\* Mutant: the one before is left to run.
KillsNone(w) == FALSE
KillsRecorded(w) == Recorded(w)

Restarted(w, n) ==
    /\ awake' = [awake EXCEPT ![w] = @ + n - (IF KillsRecorded(w) THEN 1 ELSE 0)]
    /\ rec' = IF KillsRecorded(w) THEN [rec EXCEPT !.pid = "dead"] ELSE rec

KeepAwake ==
    /\ At("awake")
    /\ \/ Restarted(call.w, 1) /\ Goes([call EXCEPT !.at = "record", !.pid = TRUE]) /\ UNCHANGED stray
       \/ Restarted(call.w, 1) /\ Troubled /\ call' = [call EXCEPT !.at = "record"] /\ stray' = stray + 1
       \/ Restarted(call.w, 2) /\ Troubled /\ call' = [call EXCEPT !.at = "record", !.pid = TRUE] /\ stray' = stray + 1
       \/ /\ Troubled /\ call' = [call EXCEPT !.at = "record"] /\ UNCHANGED <<awake, rec>>
          /\ stray' = stray + (IF Recorded(call.w) THEN 1 ELSE 0)
    /\ UNCHANGED <<code, beads, report, away, wave>>

Record ==
    /\ At("record") /\ Stops
    /\ rec' = [host |-> call.w, pid |-> IF call.pid THEN "live" ELSE "none"]
    /\ UNCHANGED <<code, beads, report, awake, stray, away, wave>>

\* The answer of the kill is not looked at.
Kill ==
    /\ At("kill")
    /\ \/ /\ Goes([call EXCEPT !.at = "clear"])
          /\ IF Recorded(call.w)
               THEN awake' = [awake EXCEPT ![call.w] = @ - 1] /\ rec' = [rec EXCEPT !.pid = "dead"]
               ELSE UNCHANGED <<awake, rec>>
          /\ UNCHANGED stray
       \/ /\ Recorded(call.w) /\ Troubled /\ call' = [call EXCEPT !.at = "clear"]
          /\ stray' = stray + 1 /\ rec' = [rec EXCEPT !.pid = "none"] /\ UNCHANGED awake
    /\ UNCHANGED <<code, beads, report, away, wave>>

Clear ==
    /\ At("clear")
    /\ rec' = [host |-> None, pid |-> "none"]
    /\ IF call.to = None THEN Stops ELSE Goes([Idle EXCEPT !.op = "choose", !.w = call.to, !.at = "init"])
    /\ UNCHANGED <<code, beads, report, awake, stray, away, wave>>

-----------------------------------------------------------------------------
\* flywheel_approve_beads start: the ready beads are marked here, then handed off.
Ready == {b \in Beads : db[Here][b] = Open /\ pane[b] = Asleep}
Start ==
    /\ At("idle") /\ rec.host # None
    /\ \E S \in SUBSET Ready \ {{}} :
        /\ db' = [db EXCEPT ![Here] = [b \in Beads |-> IF b \in S THEN Marked ELSE @[b]]]
        /\ owed' = owed \cup S
        /\ Goes([Idle EXCEPT !.op = "start", !.w = rec.host, !.at = "push",
                 !.had = [log |-> log[Here], db |-> db'[Here], reports |-> {}]])
    /\ UNCHANGED <<code, mirror, out, report, record, away, pane, late>>

\* flywheel_advance_wave: the wave is collected, then its beads are checked, and
\* the next ones are handed off as they are.
Launched == {b \in Beads : pane[b] # Asleep}
Advance ==
    /\ At("idle") /\ rec.host # None /\ Launched # {}
    /\ Goes(Pulls([Idle EXCEPT !.op = "advance", !.w = rec.host]))
    /\ UNCHANGED <<code, beads, report, record, away, wave>>

\* verify_beads closes what was left open with a commit on this branch.
ClosedByCommit(S) == [b \in Beads |-> IF b \in S /\ b \in log[Here] THEN Closed ELSE db[Here][b]]
Passes(b) == db'[Here][b] = Closed /\ (b \in Strict => report[Here][b] = "verified")
Gate ==
    /\ At("gate")
    /\ \E S \in SUBSET Launched \ {{}} :
        /\ db' = [db EXCEPT ![Here] = ClosedByCommit(S)]
        /\ \/ (\E b \in S : ~Passes(b)) /\ Stops /\ UNCHANGED owed
           \/ (\A b \in S : Passes(b)) /\ Ready = {} /\ Stops /\ UNCHANGED owed
           \/ /\ \A b \in S : Passes(b)
              /\ \E N \in SUBSET Ready \ {{}} : owed' = owed \cup N
              /\ Goes([call EXCEPT !.at = "push", !.had = [log |-> log[Here], db |-> db'[Here], reports |-> {}]])
    /\ UNCHANGED <<code, mirror, out, report, record, away, pane, late>>

\* Any step fails before it does anything, or the server dies.
Fail ==
    /\ call # Idle /\ Unheard
    /\ stray' = stray + (IF At("record") /\ call.pid THEN 1 ELSE 0)
    /\ UNCHANGED <<code, beads, report, rec, awake, away, wave>>

\* verify-bead, which runs here; it is only called where a verdict is required.
Verify(b) ==
    /\ At("idle") /\ b \in Strict /\ report[Here][b] = "plain" /\ b \in log[Here]
    /\ report' = [report EXCEPT ![Here][b] = "verified"]
    /\ UNCHANGED <<code, beads, record, away, wave, call, trouble>>

-----------------------------------------------------------------------------
\* The panes and the operator.
Step(b, from, to) == pane[b].stage = from /\ pane' = [pane EXCEPT ![b].stage = to]

PaneClaims(b) ==
    /\ Step(b, "sent", "dirty")
    /\ db' = [db EXCEPT ![pane[b].site][b] = IF @ < Marked THEN Marked ELSE @]
    /\ UNCHANGED <<code, mirror, out, report, record, away, owed, call, late, trouble>>

PaneCommits(b) ==
    /\ Step(b, "dirty", "committed")
    /\ log' = [log EXCEPT ![pane[b].site] = @ \cup {b}]
    /\ late' = IF call.w = pane[b].site /\ call.at \in {"join", "flush"} THEN late \cup {b} ELSE late
    /\ UNCHANGED <<ref, branch, beads, report, record, away, owed, call, trouble>>

PaneCloses(b) ==
    /\ Step(b, "committed", "closed")
    /\ report' = [report EXCEPT ![pane[b].site][b] = "plain"]
    /\ db' = [db EXCEPT ![pane[b].site][b] = Closed]
    /\ UNCHANGED <<code, mirror, out, record, away, owed, call, late, trouble>>

LocalCommit ==
    /\ \E c \in Local \ log[Here] : log' = [log EXCEPT ![Here] = @ \cup {c}]
    /\ UNCHANGED <<ref, branch, beads, report, record, away, wave, call, trouble>>

Leave ==
    /\ At("idle") /\ ~away /\ away' = TRUE /\ Troubled
    /\ UNCHANGED <<code, beads, report, record, wave, call>>

Return ==
    /\ away /\ away' = FALSE
    /\ UNCHANGED <<code, beads, report, record, wave, call, trouble>>

\* The hint of a conflict: merge the ref by hand.
MergeByHand(w) ==
    /\ ~away /\ Clash(w)
    /\ log' = [log EXCEPT ![Here] = @ \cup ref[w]]
    /\ late' = late \ log'[Here]
    /\ UNCHANGED <<ref, branch, beads, report, record, away, owed, pane, call, trouble>>

Proceed ==
    \/ Fetch \/ Join \/ Flush \/ Merge \/ Reports \/ Gate
    \/ Push \/ Export \/ Import \/ InitClone \/ KeepAwake \/ Record \/ Kill \/ Clear

Panes == \E b \in Beads : PaneClaims(b) \/ PaneCommits(b) \/ PaneCloses(b)

Next ==
    \/ Sync \/ Release \/ Start \/ Advance \/ \E w \in Hosts : Choose(w)
    \/ Proceed \/ Fail
    \/ \E b \in Beads : Verify(b)
    \/ Panes
    \/ LocalCommit \/ Leave \/ Return \/ \E w \in Hosts : MergeByHand(w)

\* Calls end, the operator comes back and merges what the hint names, and the
\* coordinator, which makes other calls too, syncs time and again.
Spec == Init /\ [][Next]_vars
FairSpec ==
    /\ Spec
    /\ WF_vars(Proceed) /\ WF_vars(Return) /\ SF_vars(Sync)
    /\ \A w \in Hosts : WF_vars(MergeByHand(w))

-----------------------------------------------------------------------------
\* A bead is closed here only with its code: the commits are fetched before the
\* beads are exported (swarm-host.ts:616 and 644), and what a pane commits and
\* closes in between arrives closed without its commit until the next pull.
ClosedHasCode ==
    \A b \in Beads : db[Here][b] = Closed => b \in log[Here] \cup late

\* "Choosing the same host again restarts the keep-awake rather than stacking a
\* second one" (swarm-host.ts:786): what keeps a host awake is the one on record
\* or about to be, or one whose answer or kill was lost.
AwakeOnce ==
    \A w \in Hosts :
        awake[w] <= stray + (IF Recorded(w) \/ (call.at = "record" /\ call.w = w /\ call.pid) THEN 1 ELSE 0)

\* Neither a pull, a push nor a retry takes back a commit, a bead's edit or a
\* report of either side (swarm-host.ts:605, 665).
NothingUndone ==
    [][\A s \in Sites :
        /\ log[s] \subseteq log'[s]
        /\ \A b \in Beads : db[s][b] <= db'[s][b] /\ (report[s][b] # "none" => report'[s][b] # "none")]_vars

\* A pull that goes through has brought the commits, the beads' edits and the
\* reports the host had when it began, whatever failed before
\* (pullFromSwarmHost).
Collected ==
    [][call.at = "reports" /\ call'.at \in {"kill", "gate", "push"} =>
        /\ call.had.log \subseteq log'[Here]
        /\ \A b \in Beads : call.had.db[b] <= db'[Here][b]
        /\ \A b \in call.had.reports : report'[Here][b] # "none"]_vars

\* Prompts go out only to a clone that has the code and the marks this checkout
\* had (approve.ts:803), except when the local export failed, which nobody is
\* told (swarm-host.ts:698).
PanesAreTold ==
    [][\A b \in Beads : pane[b].stage = "none" /\ pane'[b].stage = "sent" =>
        /\ call.had.log \subseteq log'[call.w]
        /\ call.blind \/ \A x \in Beads : call.had.db[x] <= db'[call.w][x]]_vars

\* "a rebase keeps the verdict and an edit after verification voids it"
\* (advance-wave.ts:103): nothing else does, and no pane edits here.
VerdictsKept ==
    [][\A b \in Beads : report[Here][b] = "verified" => report'[Here][b] = "verified"]_vars

\* The work of a pane that is done comes home with its close and its commit as
\* long as its host is kept ("The swarm's work stays on that Mac until it
\* syncs", swarm-host.ts:573).
ComesHome ==
    \A b \in Beads :
        pane[b].stage = "closed" /\ rec.host = pane[b].site
            ~> (db[Here][b] = Closed /\ b \in log[Here]) \/ rec.host # pane[b].site
================================================================================
