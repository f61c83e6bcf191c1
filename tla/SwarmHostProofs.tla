-------------------------- MODULE SwarmHostProofs --------------------------
(***************************************************************************)
(* Theorems about SwarmHost, for every number of hosts, beads and          *)
(* failures.  The inductive invariant IInv says, part by part, what a call *)
(* is about (IType, HostInv), which caffeinates are counted on (AwakeInv), *)
(* what a clone has before its first push (CloneInv), where the commits of *)
(* closed beads are (CodeInv), and how far a pull and a push have brought  *)
(* what they are to bring (PullInv, PushInv).                              *)
(***************************************************************************)
EXTENDS SwarmHost, TLAPS

-----------------------------------------------------------------------------
\* What TypeOK leaves open: the whole of a call, and that calls and panes have
\* a host.
Had  == [log : SUBSET (Beads \cup Local), db : [Beads -> Status], reports : SUBSET Beads]
Call == [op : Ops, at : Steps, w : Hosts \cup {None}, to : Hosts \cup {None}, snap : [Beads -> Status],
         blind : BOOLEAN, pid : BOOLEAN, had : Had]
CallTypes(k) ==
    /\ k \in Call
    /\ (k.at = "idle") <=> (k = Idle)
    /\ k.at # "idle" => k.w \in Hosts
    /\ k.to # None => k.op = "choose"
    /\ k.at \in {"kill", "clear"} => k.op = "release" \/ k.to # None
    /\ k.at \in {"init", "awake", "record", "gate", "push", "export", "import"} => k.to = None
    /\ k.at \in {"init", "awake", "record"} => k.op = "choose"
StoreTypes ==
    /\ log \in [Sites -> SUBSET (Beads \cup Local)] /\ ref \in [Hosts -> SUBSET (Beads \cup Local)]
    /\ branch \subseteq Hosts /\ mirror \subseteq Hosts
    /\ db \in [Sites -> [Beads -> Status]] /\ out \in [Beads -> Status]
    /\ report \in [Sites -> [Beads -> {"none", "plain", "verified"}]]
WaveTypes ==
    /\ owed \subseteq Beads /\ late \subseteq Beads
    /\ pane \in [Beads -> [site : Hosts \cup {None}, stage : Stages]]
    /\ \A b \in Beads : pane[b].stage # "none" => pane[b].site \in Hosts
RecordTypes ==
    /\ rec \in [host : Hosts \cup {None}, pid : {"none", "live", "dead"}]
    /\ away \in BOOLEAN /\ stray \in Nat /\ trouble \in 0..MaxTrouble
IType == CallTypes(call) /\ StoreTypes /\ WaveTypes /\ RecordTypes /\ awake \in [Hosts -> Nat]

\* Which host a call is about, and when its caffeinate runs.
HostInv ==
    /\ call.to # None \/ call.op \in {"start", "advance", "sync", "release"} => call.w = rec.host
    /\ call.op = "choose" /\ call.to = None => rec.host \in {None, call.w}
    /\ call.at = "clear" => rec.pid # "live"
    /\ rec.pid = "live" => rec.host \in Hosts /\ awake[rec.host] > 0
    /\ call.pid => call.at = "record" /\ awake[call.w] > 0

\* A caffeinate whose choice lost its pid is not counted on, though the record
\* still names the one before: writing the record drops that too.
Counted(w) == IF call.at = "record" /\ call.w = w THEN call.pid ELSE Recorded(w)
AwakeInv   == \A w \in Hosts : awake[w] <= stray + (IF Counted(w) THEN 1 ELSE 0)

\* Panes work in clones that have the branch and the beads; before, there is
\* nothing in a clone.
CloneInv ==
    /\ \A w \in Hosts : (w \notin branch => log[w] = {}) /\ (w \notin mirror => db[w] = Nothing.db)
    /\ call.at \in {"export", "import"} => call.w \in branch
    /\ \A b \in Beads :
        /\ pane[b].stage # "none" => pane[b].site \in branch \cap mirror
        /\ pane[b].stage \in {"committed", "closed"} => b \in log[pane[b].site]

\* The commits that are here or known to be on their way; the beads closed
\* anywhere are among them, or have their commit where they were closed.
Got == log[Here] \cup late
CodeInv ==
    /\ \A b \in Beads : Closed \in {db[Here][b], out[b], call.snap[b]} => b \in Got
    /\ \A w \in Hosts, b \in Beads : db[w][b] = Closed => b \in log[w] \cup Got
    /\ call.at = "join" => log[call.w] \subseteq ref[call.w] \cup Got
    /\ call.at = "flush" => log[call.w] \subseteq Got

\* What the source of a pull or a push had when it began has come as far as the
\* call has.
NoNewer(d, e) == \A b \in Beads : d[b] <= e[b]
Reported(s)   == {b \in Beads : report[s][b] # "none"}
PullInv ==
    /\ call.at \in {"fetch", "join", "flush", "merge", "reports"} => call.had.reports \subseteq Reported(call.w)
    /\ call.at = "fetch" => call.had.log \subseteq log[call.w]
    /\ call.at = "join" => call.had.log \subseteq ref[call.w]
    /\ call.at \in {"flush", "merge", "reports"} => call.had.log \subseteq log[Here]
    /\ call.at \in {"fetch", "join", "flush"} => NoNewer(call.had.db, db[call.w])
    /\ call.at = "merge" => NoNewer(call.had.db, call.snap)
    /\ call.at = "reports" => NoNewer(call.had.db, db[Here])
PushInv ==
    /\ call.at = "push" => call.had.log \subseteq log[Here]
    /\ call.at \in {"export", "import"} => call.had.log \subseteq log[call.w]
    /\ call.at \in {"push", "export"} => NoNewer(call.had.db, db[Here])
    /\ call.at = "import" => call.blind \/ NoNewer(call.had.db, call.snap)
-----------------------------------------------------------------------------
\* The newer of two states of the beads is one, and takes back neither.
LEMMA NewerType ==
    ASSUME NEW d \in [Beads -> Status], NEW e \in [Beads -> Status]
    PROVE  /\ Newer(d, e) \in [Beads -> Status]
           /\ \A b \in Beads : /\ d[b] <= Newer(d, e)[b] /\ e[b] <= Newer(d, e)[b]
                               /\ Newer(d, e)[b] \in {d[b], e[b]}
BY DEF Newer, Status, Open, Closed

LEMMA NothingType ==
    /\ Nothing \in Had /\ Nothing.db \in [Beads -> Status] /\ Nothing.log = {} /\ Nothing.reports = {}
    /\ \A b \in Beads : Nothing.db[b] = Open
BY DEF Nothing, Had, Status, Open, Closed

LEMMA IdleCall ==
    /\ Idle \in Call /\ Idle.op = "none" /\ Idle.at = "idle" /\ Idle.w = None /\ Idle.to = None
    /\ ~Idle.blind /\ ~Idle.pid /\ Idle.had = Nothing /\ Idle.snap = Nothing.db
BY NothingType DEF Idle, Call, Ops, Steps

\* What a site has is of the type of `had`.
LEMMA HasType ==
    ASSUME StoreTypes, NEW s \in Sites
    PROVE  Has(s) \in Had /\ Has(s) = [log |-> log[s], db |-> db[s], reports |-> Reported(s)]
BY DEF StoreTypes, Had, Has, Reported

\* A pull that begins, and a push.
LEMMA PullsCall ==
    ASSUME StoreTypes, NEW k \in Call, k.w \in Hosts
    PROVE  /\ Pulls(k) \in Call /\ Pulls(k).at = "fetch" /\ Pulls(k).had = Has(k.w)
           /\ Pulls(k).op = k.op /\ Pulls(k).w = k.w /\ Pulls(k).to = k.to /\ Pulls(k).snap = k.snap
           /\ Pulls(k).pid = k.pid
<1>1. Has(k.w) \in Had BY HasType DEF Sites
<1> HIDE DEF Had
<1> QED BY <1>1 DEF Pulls, Call, Steps

LEMMA PushesCall ==
    ASSUME StoreTypes, NEW k \in Call
    PROVE  /\ Pushes(k) \in Call /\ Pushes(k).at = "push" /\ ~Pushes(k).blind
           /\ Pushes(k).had.log = log[Here] /\ Pushes(k).had.db = db[Here]
           /\ Pushes(k).op = k.op /\ Pushes(k).w = k.w /\ Pushes(k).to = k.to /\ Pushes(k).snap = k.snap
           /\ Pushes(k).pid = k.pid
<1>1. Has(Here) \in Had /\ Has(Here).log = log[Here] /\ Has(Here).db = db[Here]
  BY HasType DEF Sites
<1> DEFINE h == [Has(Here) EXCEPT !.reports = {}]
<1>2. h \in Had /\ h.log = log[Here] /\ h.db = db[Here]
  BY <1>1 DEF Had
<1> HIDE DEF h
<1>3. Pushes(k) = [k EXCEPT !.at = "push", !.blind = FALSE, !.had = h]
  BY DEF Pushes, h
<1> QED BY <1>2, <1>3 DEF Call, Steps

\* After a pull: the host is let go, the wave is checked, or the push begins.
LEMMA AfterPullCall ==
    ASSUME StoreTypes, NEW k \in Call, k.to # None => k.op = "choose"
    PROVE  /\ AfterPull(k) \in Call /\ AfterPull(k).at \in {"kill", "gate", "push"}
           /\ AfterPull(k).op = k.op /\ AfterPull(k).w = k.w /\ AfterPull(k).to = k.to
           /\ AfterPull(k).snap = k.snap /\ AfterPull(k).pid = k.pid
           /\ AfterPull(k).at = "kill" <=> k.op = "release" \/ k.to # None
           /\ AfterPull(k).at = "push" => AfterPull(k).had.log = log[Here] /\ AfterPull(k).had.db = db[Here]
<1>1. CASE k.op = "release" \/ k.to # None
  <2>1. AfterPull(k) = [k EXCEPT !.at = "kill", !.had = Nothing] BY <1>1 DEF AfterPull
  <2> QED BY <1>1, <2>1, NothingType DEF Call, Steps
<1>2. CASE ~(k.op = "release" \/ k.to # None) /\ k.op = "advance"
  <2>1. AfterPull(k) = [k EXCEPT !.at = "gate", !.had = Nothing] BY <1>2 DEF AfterPull
  <2> QED BY <1>2, <2>1, NothingType DEF Call, Steps
<1>3. CASE ~(k.op = "release" \/ k.to # None) /\ k.op # "advance"
  <2>1. AfterPull(k) = Pushes(k) BY <1>3 DEF AfterPull
  <2> QED BY <1>3, <2>1, PushesCall
<1> QED BY <1>1, <1>2, <1>3

LEMMA ITypeOK == IType => TypeOK
<1>1. call \in Call => call.op \in Ops /\ call.at \in Steps /\ call.w \in Hosts \cup {None} /\ call.to \in Hosts \cup {None}
  BY DEF Call
<1>2. CallTypes(call) => call \in Call /\ ((call.at = "idle") <=> (call = Idle))
  BY DEF CallTypes
<1> QED BY <1>1, <1>2, Zenon DEF IType, TypeOK, StoreTypes, WaveTypes, RecordTypes

\* A step of the call that only says where it goes.
LEMMA GoesCall ==
    ASSUME call \in Call, NEW at \in Steps, NEW k, k = [call EXCEPT !.at = at]
    PROVE  /\ k \in Call /\ k.at = at /\ k.op = call.op /\ k.w = call.w /\ k.to = call.to
           /\ k.snap = call.snap /\ k.pid = call.pid /\ k.had = call.had /\ k.blind = call.blind
BY DEF Call

\* The step of a call is not "idle" while it is under way.
LEMMA IdleOnly ==
    ASSUME NEW k \in Call, k.at # "idle"
    PROVE  (k.at = "idle") <=> (k = Idle)
BY IdleCall

\* A call that is under way goes on with the same tool and host.
LEMMA CallGoesOn ==
    ASSUME CallTypes(call), call.at # "idle", NEW k \in Call,
           k.op = call.op, k.w = call.w, k.to = call.to, k.at # "idle",
           k.at \in {"kill", "clear"} => k.op = "release" \/ k.to # None,
           k.at \in {"init", "awake", "record", "gate", "push", "export", "import"} => k.to = None,
           k.at \in {"init", "awake", "record"} => k.op = "choose"
    PROVE  CallTypes(k)
BY IdleOnly DEF CallTypes

-----------------------------------------------------------------------------
\* Every variable keeps its type: `awake` does not go below none because what
\* is recorded as live runs.
LEMMA TypesStep ==
    ASSUME IType, HostInv, [Next]_vars PROVE IType'
<1> USE SwarmAssumption DEF SwarmAssumption, Sites, code, beads, record, wave
<1>0. call \in Call /\ (call.at # "idle" => call.w \in Hosts) /\ Here \in Sites
      /\ (call.to # None => call.op = "choose")
      /\ (call.at \in {"kill", "clear"} => call.op = "release" \/ call.to # None)
  BY DEF IType, CallTypes
<1>1. ASSUME CallTypes(call'), StoreTypes', UNCHANGED <<wave, record>>, trouble' \in 0..MaxTrouble, away' = away
      PROVE  IType'
  BY <1>1 DEF IType, WaveTypes, RecordTypes
<1>2. ASSUME trouble' = trouble \/ Troubled PROVE trouble' \in 0..MaxTrouble
  BY <1>2 DEF IType, RecordTypes, Troubled
<1>3. CallTypes(Idle)
  BY IdleCall DEF CallTypes
<1>4. ASSUME NEW at \in {"join", "flush", "merge", "reports"}, call.at # "idle"
      PROVE  CallTypes([call EXCEPT !.at = at])
  <2> DEFINE k == [call EXCEPT !.at = at]
  <2>1. k \in Call /\ k.at = at /\ k.op = call.op /\ k.w = call.w /\ k.to = call.to
    BY <1>0, <1>4, GoesCall DEF Steps
  <2> HIDE DEF k
  <2>2. CallTypes(k) BY <1>4, <2>1, CallGoesOn DEF IType
  <2> QED BY <2>2 DEF k
<1>5. CASE Fetch
  <2>1. CallTypes(call')
    BY <1>0, <1>3, <1>4, <1>5 DEF Fetch, At, Stops, Goes
  <2>2. StoreTypes'
    BY <1>0, <1>5 DEF Fetch, At, IType, StoreTypes
  <2> QED BY <1>1, <1>2, <1>5, <2>1, <2>2 DEF Fetch, Stops, Goes
<1>6. CASE Join
  <2>1. CallTypes(call')
    BY <1>0, <1>3, <1>4, <1>6 DEF Join, At, Goes, Unheard, Conflicted
  <2>2. StoreTypes' /\ late' \subseteq Beads /\ (trouble' = trouble \/ Troubled)
    BY <1>0, <1>6 DEF Join, At, IType, StoreTypes, WaveTypes, Joined, Goes, Unheard
  <2> QED BY <1>2, <1>6, <2>1, <2>2 DEF Join, IType, WaveTypes, RecordTypes
<1>7. CASE Flush
  <2>1. CallTypes(call')
    <3>1. call.w \in Hosts /\ db[call.w] \in [Beads -> Status]
      BY <1>0, <1>7 DEF Flush, At, IType, StoreTypes
    <3>2. CallTypes([call EXCEPT !.at = "merge", !.snap = db[call.w]])
      <4> DEFINE k == [call EXCEPT !.at = "merge", !.snap = db[call.w]]
      <4>1. k \in Call /\ k.at = "merge" /\ k.op = call.op /\ k.w = call.w /\ k.to = call.to
        BY <1>0, <3>1 DEF Call, Steps
      <4> HIDE DEF k
      <4>2. CallTypes(k) BY <1>7, <4>1, CallGoesOn DEF IType, Flush, At
      <4> QED BY <4>2 DEF k
    <3> QED BY <1>0, <1>3, <1>4, <1>7, <3>2 DEF Flush, At, Goes, Unheard
  <2>2. StoreTypes' /\ (trouble' = trouble \/ Troubled)
    BY <1>0, <1>7 DEF Flush, At, IType, StoreTypes, Goes, Unheard
  <2> QED BY <1>1, <1>2, <1>7, <2>1, <2>2 DEF Flush
<1>8. CASE Merge
  <2>1. Newer(db[Here], call.snap) \in [Beads -> Status]
    BY <1>0, NewerType DEF IType, StoreTypes, Call
  <2>2. CallTypes(call')
    <3>1. CallTypes([call EXCEPT !.at = "reports", !.snap = Nothing.db])
      <4> DEFINE k == [call EXCEPT !.at = "reports", !.snap = Nothing.db]
      <4>1. k \in Call /\ k.at = "reports" /\ k.op = call.op /\ k.w = call.w /\ k.to = call.to
        BY <1>0, NothingType DEF Call, Steps
      <4> HIDE DEF k
      <4>2. CallTypes(k) BY <1>8, <4>1, CallGoesOn DEF IType, Merge, At
      <4> QED BY <4>2 DEF k
    <3> QED BY <1>3, <1>8, <3>1 DEF Merge, Goes, Unheard
  <2>3. StoreTypes' /\ (trouble' = trouble \/ Troubled)
    BY <1>0, <1>8, <2>1 DEF Merge, At, IType, StoreTypes, Goes, Unheard
  <2> QED BY <1>1, <1>2, <1>8, <2>2, <2>3 DEF Merge
<1>9. CASE Reports
  <2>1. Copied(report[Here], report[call.w]) \in [Beads -> {"none", "plain", "verified"}]
    BY <1>0, <1>9 DEF Reports, At, IType, StoreTypes, Copied
  <2>2. CallTypes(AfterPull(call))
    BY <1>0, <1>9, AfterPullCall, IdleOnly DEF Reports, At, CallTypes, IType
  <2>3. StoreTypes' /\ (trouble' = trouble \/ Troubled)
    BY <1>0, <1>9, <2>1 DEF Reports, IType, StoreTypes, Goes, Unheard
  <2> QED BY <1>1, <1>2, <1>3, <1>9, <2>2, <2>3 DEF Reports, Goes, Unheard
<1>10. CASE Push
  <2>1. call' \in {Idle, [call EXCEPT !.at = "export"]} /\ call.at = "push"
    BY <1>10 DEF Push, At, Goes, Unheard, Stops
  <2>2. CallTypes([call EXCEPT !.at = "export"])
    <3> DEFINE k == [call EXCEPT !.at = "export"]
    <3>1. k \in Call /\ k.at = "export" /\ k.op = call.op /\ k.w = call.w /\ k.to = call.to
      BY <1>0, GoesCall DEF Steps
    <3>2. call.to = None
      BY <2>1 DEF IType, CallTypes
    <3> HIDE DEF k
    <3>3. CallTypes(k) BY <2>1, <3>1, <3>2, CallGoesOn DEF IType
    <3> QED BY <3>3 DEF k
  <2>3. StoreTypes' /\ (trouble' = trouble \/ Troubled)
    BY <1>0, <1>10 DEF Push, At, IType, StoreTypes, Goes, Unheard, Stops
  <2> QED BY <1>1, <1>2, <1>3, <1>10, <2>1, <2>2, <2>3 DEF Push
<1>11. CASE Export
  <2>1. PICK s \in [Beads -> Status], blind \in BOOLEAN :
            call' = Idle \/ call' = [call EXCEPT !.at = "import", !.snap = s, !.blind = blind]
    <3>1. call.blind \in BOOLEAN /\ out \in [Beads -> Status] /\ db[Here] \in [Beads -> Status]
      BY <1>0 DEF Call, IType, StoreTypes
    <3>2. [call EXCEPT !.at = "import", !.snap = db[Here]] = [call EXCEPT !.at = "import", !.snap = db[Here], !.blind = call.blind]
      BY <1>0 DEF Call
    <3> QED BY <1>11, <3>1, <3>2 DEF Export, Goes, Unheard
  <2>2. CallTypes([call EXCEPT !.at = "import", !.snap = s, !.blind = blind])
    <3> DEFINE k == [call EXCEPT !.at = "import", !.snap = s, !.blind = blind]
    <3>1. k \in Call /\ k.at = "import" /\ k.op = call.op /\ k.w = call.w /\ k.to = call.to
      BY <1>0 DEF Call, Steps
    <3>2. call.to = None /\ call.at = "export"
      BY <1>11 DEF IType, CallTypes, Export, At
    <3> HIDE DEF k
    <3>3. CallTypes(k) BY <3>1, <3>2, CallGoesOn DEF IType
    <3> QED BY <3>3 DEF k
  <2>3. StoreTypes' /\ (trouble' = trouble \/ Troubled)
    BY <1>0, <1>11 DEF Export, IType, StoreTypes, Goes, Unheard
  <2> QED BY <1>1, <1>2, <1>3, <1>11, <2>1, <2>2, <2>3 DEF Export
<1>12. CASE Import
  <2>1. call.at = "import" /\ call.w \in Hosts /\ call.snap \in [Beads -> Status]
    BY <1>0, <1>12 DEF Import, At, Call
  <2>2. Imported(call.w, call.snap) \in [Beads -> Status]
    BY <2>1, NewerType DEF Imported, IType, StoreTypes
  <2>3. CallTypes([Idle EXCEPT !.op = "choose", !.w = call.w, !.at = "awake"])
    <3> DEFINE k == [Idle EXCEPT !.op = "choose", !.w = call.w, !.at = "awake"]
    <3>1. k \in Call /\ k.at = "awake" /\ k.op = "choose" /\ k.w = call.w /\ k.to = None
      BY <2>1, IdleCall DEF Call, Ops, Steps
    <3> HIDE DEF k
    <3>2. CallTypes(k) BY <2>1, <3>1, IdleOnly DEF CallTypes
    <3> QED BY <3>2 DEF k
  <2>4. call' \in {Idle, [Idle EXCEPT !.op = "choose", !.w = call.w, !.at = "awake"]} /\ (trouble' = trouble \/ Troubled)
    BY <1>12 DEF Import, Goes, Unheard, Stops
  <2>5. StoreTypes'
    BY <1>0, <1>12, <2>1, <2>2 DEF Import, IType, StoreTypes
  <2>6. WaveTypes'
    BY <1>12, <2>1 DEF Import, IType, WaveTypes, Stages
  <2> QED BY <1>2, <1>3, <1>12, <2>3, <2>4, <2>5, <2>6 DEF Import, IType, RecordTypes
<1>13. CASE Sync \/ Release \/ Advance
  <2>1. PICK op \in {"sync", "release", "advance"} : call' = Pulls([Idle EXCEPT !.op = op, !.w = rec.host]) /\ trouble' = trouble
    BY <1>13 DEF Sync, Release, Advance, Goes
  <2>2. rec.host \in Hosts
    BY <1>13 DEF Sync, Release, Advance, IType, RecordTypes
  <2>3. [Idle EXCEPT !.op = op, !.w = rec.host] = [Idle EXCEPT !.op = op, !.w = rec.host, !.at = "idle"]
    BY IdleCall DEF Call
  <2>4. CallTypes(call')
    <3> DEFINE k == [Idle EXCEPT !.op = op, !.w = rec.host, !.at = "idle"]
    <3>1. k \in Call /\ k.op = op /\ k.w = rec.host /\ k.to = None
      BY <2>2, IdleCall DEF Call, Ops, Steps
    <3> HIDE DEF k
    <3>2. call' = Pulls(k) BY <2>1, <2>3 DEF k
    <3> QED BY <2>2, <3>1, <3>2, PullsCall, IdleOnly DEF CallTypes, IType
  <2> QED BY <1>1, <1>2, <1>13, <2>1, <2>4 DEF Sync, Release, Advance, IType, StoreTypes
<1>14. CASE Start
  <2>1. PICK S \in SUBSET Ready \ {{}} :
            /\ db' = [db EXCEPT ![Here] = [b \in Beads |-> IF b \in S THEN Marked ELSE @[b]]]
            /\ owed' = owed \cup S
            /\ call' = [Idle EXCEPT !.op = "start", !.w = rec.host, !.at = "push",
                         !.had = [log |-> log[Here], db |-> db'[Here], reports |-> {}]]
            /\ trouble' = trouble
    BY <1>14 DEF Start, Goes
  <2>2. rec.host \in Hosts /\ S \subseteq Beads
    BY <1>14, <2>1 DEF Start, Ready, IType, RecordTypes
  <2>3. StoreTypes' /\ log[Here] \in SUBSET (Beads \cup Local) /\ db'[Here] \in [Beads -> Status]
    BY <1>0, <1>14, <2>1, <2>2 DEF Start, IType, StoreTypes, Status, Open, Marked, Closed
  <2>4. CallTypes(call')
    <3> DEFINE h == [log |-> log[Here], db |-> db'[Here], reports |-> {}]
               k == [Idle EXCEPT !.op = "start", !.w = rec.host, !.at = "push", !.had = h]
    <3>1. h \in Had BY <2>3 DEF Had
    <3> HIDE DEF h
    <3>2. k \in Call /\ k.op = "start" /\ k.at = "push" /\ k.w = rec.host /\ k.to = None
      BY <2>2, <3>1, IdleCall DEF Call, Ops, Steps
    <3>3. call' = k BY <2>1 DEF h
    <3> HIDE DEF k
    <3> QED BY <2>2, <3>2, <3>3, IdleOnly DEF CallTypes
  <2> QED BY <1>2, <1>14, <2>1, <2>2, <2>3, <2>4 DEF Start, IType, WaveTypes, RecordTypes
<1>15. ASSUME NEW w \in Hosts, Choose(w) PROVE IType'
  <2>1. StoreTypes' /\ trouble' = trouble
    BY <1>15 DEF Choose, Goes, IType, StoreTypes
  <2>2. CallTypes(call')
    <3>1. CASE rec.host \in {None, w}
      <4> DEFINE k == [Idle EXCEPT !.op = "choose", !.w = w, !.at = "init"]
      <4>1. k \in Call /\ k.op = "choose" /\ k.at = "init" /\ k.w = w /\ k.to = None
        BY IdleCall DEF Call, Ops, Steps
      <4>2. call' = k BY <1>15, <3>1 DEF Choose, Goes
      <4> HIDE DEF k
      <4> QED BY <4>1, <4>2, IdleOnly DEF CallTypes
    <3>2. CASE rec.host \notin {None, w}
      <4> DEFINE k == [Idle EXCEPT !.op = "choose", !.w = rec.host, !.to = w]
      <4>1. rec.host \in Hosts BY <3>2 DEF IType, RecordTypes
      <4>2. k \in Call /\ k.op = "choose" /\ k.w = rec.host /\ k.to = w
        BY <4>1, IdleCall DEF Call, Ops, Steps
      <4>3. call' = Pulls(k) BY <1>15, <3>2 DEF Choose, Goes
      <4> HIDE DEF k
      <4> QED BY <4>1, <4>2, <4>3, PullsCall, IdleOnly DEF CallTypes, IType
    <3> QED BY <3>1, <3>2
  <2> QED BY <1>1, <1>2, <1>15, <2>1, <2>2 DEF Choose
<1>16. CASE InitClone
  <2>1. call' = Pulls(call) /\ call.at = "init" /\ trouble' = trouble
    BY <1>16 DEF InitClone, At, Goes
  <2>2. call'.at = "fetch" /\ call' \in Call /\ call'.op = call.op /\ call'.w = call.w /\ call'.to = call.to
    BY <1>0, <2>1, PullsCall DEF IType
  <2>3. CallTypes(call') BY <1>0, <2>1, <2>2, IdleOnly DEF CallTypes
  <2> QED BY <1>1, <1>2, <1>16, <2>1, <2>3 DEF InitClone, IType, StoreTypes
<1>17. CASE KeepAwake
  <2>1. PICK pid \in BOOLEAN : call' = [call EXCEPT !.at = "record", !.pid = pid]
    <3>1. call.pid \in BOOLEAN BY <1>0 DEF Call
    <3>2. [call EXCEPT !.at = "record"] = [call EXCEPT !.at = "record", !.pid = call.pid] BY <1>0 DEF Call
    <3> QED BY <1>17, <3>1, <3>2 DEF KeepAwake, Goes
  <2>2. CallTypes(call')
    <3> DEFINE k == [call EXCEPT !.at = "record", !.pid = pid]
    <3>1. k \in Call /\ k.at = "record" /\ k.op = call.op /\ k.w = call.w /\ k.to = call.to
      BY <1>0 DEF Call, Steps
    <3>2. call.at = "awake" /\ call.to = None /\ call.op = "choose" BY <1>17 DEF KeepAwake, At, IType, CallTypes
    <3> HIDE DEF k
    <3>3. CallTypes(k) BY <3>1, <3>2, CallGoesOn DEF IType
    <3> QED BY <2>1, <3>3 DEF k
  <2>3. call.w \in Hosts BY <1>0, <1>17 DEF KeepAwake, At
  <2>4. ASSUME NEW n \in 1..2, Restarted(call.w, n) PROVE awake' \in [Hosts -> Nat] /\ rec' \in [host : Hosts \cup {None}, pid : {"none", "live", "dead"}]
    <3>1. KillsRecorded(call.w) => awake[call.w] > 0
      BY <2>3 DEF KillsRecorded, Recorded, HostInv
    <3> HIDE DEF HostInv
    <3>2. rec \in [host : Hosts \cup {None}, pid : {"none", "live", "dead"}] /\ awake \in [Hosts -> Nat]
      BY DEF IType, RecordTypes
    <3>3. rec' \in [host : Hosts \cup {None}, pid : {"none", "live", "dead"}]
      BY <2>4, <3>2 DEF Restarted
    <3>4. awake' \in [Hosts -> Nat]
      <4>1. CASE KillsRecorded(call.w)
        <5>1. awake' = [awake EXCEPT ![call.w] = @ + n - 1] BY <2>4, <4>1 DEF Restarted
        <5>2. awake[call.w] + n - 1 \in Nat BY <2>3, <3>1, <3>2, <4>1
        <5> QED BY <5>1, <5>2, <3>2
      <4>2. CASE ~KillsRecorded(call.w)
        <5>1. awake' = [awake EXCEPT ![call.w] = @ + n - 0] BY <2>4, <4>2 DEF Restarted
        <5>2. awake[call.w] + n - 0 \in Nat BY <2>3, <3>2
        <5> QED BY <5>1, <5>2, <3>2
      <4> QED BY <4>1, <4>2
    <3> QED BY <3>3, <3>4
  <2>5. awake' \in [Hosts -> Nat] /\ rec' \in [host : Hosts \cup {None}, pid : {"none", "live", "dead"}]
    <3>1. CASE UNCHANGED <<awake, rec>> BY <3>1 DEF IType, RecordTypes
    <3>2. CASE Restarted(call.w, 1) BY <2>4, <3>2
    <3>3. CASE Restarted(call.w, 2) BY <2>4, <3>3
    <3> QED BY <1>17, <3>1, <3>2, <3>3 DEF KeepAwake
  <2>6. stray' \in Nat /\ (trouble' = trouble \/ Troubled)
    BY <1>17 DEF KeepAwake, IType, RecordTypes, Goes
  <2> QED BY <1>2, <1>17, <2>2, <2>5, <2>6 DEF KeepAwake, IType, StoreTypes, WaveTypes, RecordTypes
<1>18. CASE Record
  <2>1. call' = Idle /\ trouble' = trouble BY <1>18 DEF Record, Stops, Goes
  <2>2. rec' \in [host : Hosts \cup {None}, pid : {"none", "live", "dead"}] BY <1>0, <1>18 DEF Record, At
  <2> QED BY <1>2, <1>3, <1>18, <2>1, <2>2 DEF Record, IType, StoreTypes, WaveTypes, RecordTypes
<1>19. CASE Kill
  <2>1. call' = [call EXCEPT !.at = "clear"] /\ call.at = "kill" /\ (trouble' = trouble \/ Troubled)
    BY <1>19 DEF Kill, At, Goes
  <2>2. CallTypes(call')
    <3> DEFINE k == [call EXCEPT !.at = "clear"]
    <3>1. k \in Call /\ k.at = "clear" /\ k.op = call.op /\ k.w = call.w /\ k.to = call.to
      BY <1>0, GoesCall DEF Steps
    <3> HIDE DEF k
    <3>2. CallTypes(k) BY <1>0, <2>1, <3>1, CallGoesOn DEF IType
    <3> QED BY <2>1, <3>2 DEF k
  <2>3. call.w \in Hosts /\ (Recorded(call.w) => awake[call.w] > 0)
    BY <1>0, <2>1 DEF Recorded, HostInv
  <2>4. awake' \in [Hosts -> Nat] /\ stray' \in Nat /\ rec' \in [host : Hosts \cup {None}, pid : {"none", "live", "dead"}]
    BY <1>19, <2>3 DEF Kill, IType, RecordTypes
  <2> QED BY <1>2, <1>19, <2>1, <2>2, <2>4 DEF Kill, IType, StoreTypes, WaveTypes, RecordTypes
<1>20. CASE Clear
  <2>1. CallTypes(call') /\ trouble' = trouble
    <3>1. CASE call.to = None BY <1>3, <1>20, <3>1 DEF Clear, Stops, Goes
    <3>2. CASE call.to # None
      <4> DEFINE k == [Idle EXCEPT !.op = "choose", !.w = call.to, !.at = "init"]
      <4>0. call.to \in Hosts BY <1>0, <3>2 DEF Call
      <4>1. k \in Call /\ k.op = "choose" /\ k.at = "init" /\ k.w = call.to /\ k.to = None
        BY <4>0, IdleCall DEF Call, Ops, Steps
      <4>2. call' = k /\ trouble' = trouble BY <1>20, <3>2 DEF Clear, Goes
      <4> HIDE DEF k
      <4> QED BY <4>0, <4>1, <4>2, IdleOnly DEF CallTypes
    <3> QED BY <3>1, <3>2
  <2> QED BY <1>2, <1>20, <2>1 DEF Clear, IType, StoreTypes, WaveTypes, RecordTypes
<1>21. CASE Gate
  <2>1. PICK S \in SUBSET Launched \ {{}} :
            /\ db' = [db EXCEPT ![Here] = ClosedByCommit(S)]
            /\ \/ call' = Idle /\ trouble' = trouble /\ owed' = owed
               \/ /\ \E N \in SUBSET Ready \ {{}} : owed' = owed \cup N
                  /\ call' = [call EXCEPT !.at = "push", !.had = [log |-> log[Here], db |-> db'[Here], reports |-> {}]]
                  /\ trouble' = trouble
    BY <1>21 DEF Gate, Goes, Stops
  <2>2. ClosedByCommit(S) \in [Beads -> Status]
    BY <1>0 DEF ClosedByCommit, IType, StoreTypes, Status, Open, Closed
  <2>3. StoreTypes' /\ log[Here] \in SUBSET (Beads \cup Local) /\ db'[Here] \in [Beads -> Status]
    BY <1>0, <1>21, <2>1, <2>2 DEF Gate, IType, StoreTypes
  <2>4. CallTypes(call')
    <3> DEFINE h == [log |-> log[Here], db |-> db'[Here], reports |-> {}]
               k == [call EXCEPT !.at = "push", !.had = h]
    <3>1. h \in Had BY <2>3 DEF Had
    <3> HIDE DEF h
    <3>2. k \in Call /\ k.at = "push" /\ k.op = call.op /\ k.w = call.w /\ k.to = call.to
      BY <1>0, <3>1 DEF Call, Steps
    <3>3. call' = Idle \/ call' = k BY <2>1 DEF h
    <3>4. call.at = "gate" /\ call.to = None BY <1>21 DEF Gate, At, IType, CallTypes
    <3> HIDE DEF k
    <3>5. CallTypes(k) BY <3>2, <3>4, CallGoesOn DEF IType
    <3> QED BY <1>3, <3>3, <3>5
  <2>5. owed' \subseteq Beads
    BY <2>1 DEF Ready, IType, WaveTypes
  <2> QED BY <1>2, <1>21, <2>1, <2>3, <2>4, <2>5 DEF Gate, IType, WaveTypes, RecordTypes
<1>22. CASE Fail
  BY <1>2, <1>3, <1>22 DEF Fail, Unheard, IType, StoreTypes, WaveTypes, RecordTypes
<1>23. ASSUME NEW b \in Beads, Verify(b) PROVE IType'
  <2>1. StoreTypes' BY <1>0, <1>23 DEF Verify, IType, StoreTypes
  <2> QED BY <1>2, <1>23, <2>1 DEF Verify, IType, CallTypes, WaveTypes, RecordTypes
<1>24. ASSUME NEW b \in Beads, PaneClaims(b) \/ PaneCommits(b) \/ PaneCloses(b) PROVE IType'
  <2>1. pane[b].site \in Hosts /\ pane[b].site \in Sites
    BY <1>24 DEF PaneClaims, PaneCommits, PaneCloses, Step, IType, WaveTypes
  <2>2. StoreTypes' /\ late' \subseteq Beads
    <3>1. CASE PaneClaims(b)
      BY <2>1, <3>1 DEF PaneClaims, IType, StoreTypes, WaveTypes, Status, Open, Marked, Closed
    <3>2. CASE PaneCommits(b)
      BY <2>1, <3>2 DEF PaneCommits, IType, StoreTypes, WaveTypes
    <3>3. CASE PaneCloses(b)
      BY <2>1, <3>3 DEF PaneCloses, IType, StoreTypes, WaveTypes, Status, Open, Marked, Closed
    <3> QED BY <1>24, <3>1, <3>2, <3>3
  <2>3. WaveTypes'
    <3>1. PICK to \in {"dirty", "committed", "closed"} : pane' = [pane EXCEPT ![b].stage = to]
      BY <1>24 DEF PaneClaims, PaneCommits, PaneCloses, Step
    <3>2. pane' \in [Beads -> [site : Hosts \cup {None}, stage : Stages]]
          /\ \A x \in Beads : pane'[x].stage # "none" => pane'[x].site \in Hosts
      BY <2>1, <3>1 DEF IType, WaveTypes, Stages
    <3> QED BY <1>24, <2>2, <3>2 DEF PaneClaims, PaneCommits, PaneCloses, IType, WaveTypes
  <2>4. UNCHANGED <<record, away, call, trouble>>
    BY <1>24 DEF PaneClaims, PaneCommits, PaneCloses
  <2> QED BY <2>2, <2>3, <2>4 DEF IType, RecordTypes, CallTypes
<1>25. CASE LocalCommit
  <2>1. StoreTypes' BY <1>0, <1>25 DEF LocalCommit, IType, StoreTypes
  <2> QED BY <1>25, <2>1 DEF LocalCommit, IType, CallTypes, WaveTypes, RecordTypes
<1>26. CASE Leave \/ Return
  BY <1>2, <1>26 DEF Leave, Return, IType, CallTypes, StoreTypes, WaveTypes, RecordTypes
<1>27. ASSUME NEW w \in Hosts, MergeByHand(w) PROVE IType'
  <2>1. StoreTypes' /\ late' \subseteq Beads BY <1>0, <1>27 DEF MergeByHand, IType, StoreTypes, WaveTypes
  <2> QED BY <1>27, <2>1 DEF MergeByHand, IType, CallTypes, WaveTypes, RecordTypes
<1>28. CASE UNCHANGED vars
  BY <1>28 DEF vars, IType, CallTypes, StoreTypes, WaveTypes, RecordTypes
<1> QED
  BY <1>5, <1>6, <1>7, <1>8, <1>9, <1>10, <1>11, <1>12, <1>13, <1>14, <1>15, <1>16, <1>17, <1>18, <1>19, <1>20,
     <1>21, <1>22, <1>23, <1>24, <1>25, <1>26, <1>27, <1>28 DEF Next, Proceed, Panes
-----------------------------------------------------------------------------
\* Most steps of a call leave the record of the host alone and do not change
\* what the call is for.
LEMMA CallMoves ==
    ASSUME IType, Fetch \/ Join \/ Flush \/ Merge \/ Reports \/ Gate \/ Push \/ Export \/ InitClone
    PROVE  /\ UNCHANGED <<rec, awake, stray>>
           /\ call.at \notin {"idle", "awake", "record", "clear"}
           /\ \/ call' = Idle
              \/ /\ call'.op = call.op /\ call'.w = call.w /\ call'.to = call.to /\ call'.pid = call.pid
                 /\ call'.at \notin {"idle", "awake", "record", "clear"}
<1> USE DEF record
<1>0. call \in Call /\ (call.at # "idle" => call.w \in Hosts) /\ StoreTypes
      /\ (call.to # None => call.op = "choose")
  BY DEF IType, CallTypes
<1>1. CASE Fetch \/ Join \/ Push
  BY <1>0, <1>1, GoesCall DEF Fetch, Join, Push, At, Stops, Goes, Unheard, Conflicted, Call
<1>2. CASE Flush
  BY <1>0, <1>2 DEF Flush, At, Goes, Unheard, Call
<1>3. CASE Merge
  BY <1>0, <1>3 DEF Merge, At, Goes, Unheard, Call
<1>4. CASE Reports
  BY <1>0, <1>4, AfterPullCall DEF Reports, At, Goes, Unheard
<1>5. CASE Gate
  BY <1>0, <1>5 DEF Gate, At, Goes, Stops, Call
<1>6. CASE Export
  BY <1>0, <1>6 DEF Export, At, Goes, Unheard, Call
<1>7. CASE InitClone
  BY <1>0, <1>7, PullsCall DEF InitClone, At, Goes
<1> QED BY <1>1, <1>2, <1>3, <1>4, <1>5, <1>6, <1>7

\* What the caffeinate's command does to the processes, to the record and to
\* what is lost track of, whether its answer arrives or not.
LEMMA KeepAwakeEffect ==
    ASSUME IType, HostInv, KeepAwake
    PROVE  /\ call.at = "awake" /\ call.w \in Hosts /\ call.to = None /\ call.op = "choose"
           /\ call'.at = "record" /\ call'.op = call.op /\ call'.w = call.w /\ call'.to = call.to
           /\ \E n \in 1..2, m \in 0..1 :
                /\ stray' = stray + m
                /\ \/ Restarted(call.w, n) /\ n <= m + (IF call'.pid THEN 1 ELSE 0)
                   \/ UNCHANGED <<awake, rec>> /\ ~call'.pid /\ m = (IF Recorded(call.w) THEN 1 ELSE 0)
<1>0. call \in Call /\ stray \in Nat /\ call.at = "awake" /\ ~call.pid
  BY DEF IType, RecordTypes, CallTypes, KeepAwake, At, HostInv
<1>1. call.w \in Hosts /\ call.to = None /\ call.op = "choose"
  BY <1>0 DEF IType, CallTypes
<1>2. call'.at = "record" /\ call'.op = call.op /\ call'.w = call.w /\ call'.to = call.to
  BY <1>0 DEF KeepAwake, Goes, Call
<1>3. CASE Restarted(call.w, 1) /\ Goes([call EXCEPT !.at = "record", !.pid = TRUE]) /\ UNCHANGED stray
  <2>1. call'.pid /\ stray' = stray + 0 BY <1>0, <1>3 DEF Goes, Call
  <2> QED BY <1>0, <1>1, <1>2, <1>3, <2>1
<1>4. CASE Restarted(call.w, 1) /\ Troubled /\ call' = [call EXCEPT !.at = "record"] /\ stray' = stray + 1
  <2>1. ~call'.pid BY <1>0, <1>4 DEF Call
  <2> QED BY <1>0, <1>1, <1>2, <1>4, <2>1
<1>5. CASE Restarted(call.w, 2) /\ Troubled /\ call' = [call EXCEPT !.at = "record", !.pid = TRUE] /\ stray' = stray + 1
  <2>1. call'.pid BY <1>0, <1>5 DEF Call
  <2> QED BY <1>0, <1>1, <1>2, <1>5, <2>1
<1>6. CASE /\ Troubled /\ call' = [call EXCEPT !.at = "record"] /\ UNCHANGED <<awake, rec>>
           /\ stray' = stray + (IF Recorded(call.w) THEN 1 ELSE 0)
  <2>1. ~call'.pid BY <1>0, <1>6 DEF Call
  <2> QED BY <1>0, <1>1, <1>2, <1>6, <2>1
<1> QED BY <1>3, <1>4, <1>5, <1>6 DEF KeepAwake

\* A caffeinate that is on record runs on the host that is on record, and is
\* killed, or no longer counted on, before its host is let go.
LEMMA HostStep ==
    ASSUME IType, HostInv, [Next]_vars PROVE HostInv'
<1> USE SwarmAssumption DEF SwarmAssumption, record
<1>0. call \in Call /\ (call.at # "idle" => call.w \in Hosts)
      /\ ((call.at = "idle") <=> (call = Idle))
      /\ (call.at \in {"kill", "clear"} => call.op = "release" \/ call.to # None)
      /\ rec.host \in Hosts \cup {None} /\ awake \in [Hosts -> Nat]
  BY DEF IType, CallTypes, RecordTypes
<1>1. ASSUME UNCHANGED <<rec, awake>>, call' = Idle PROVE HostInv'
  BY <1>1, IdleCall DEF HostInv
<1>2. ASSUME UNCHANGED <<rec, awake>>, call' = call PROVE HostInv'
  BY <1>2 DEF HostInv
<1>3. ASSUME UNCHANGED <<rec, awake>>, ~call'.pid, call'.at # "clear",
             \/ call'.op \in {"start", "sync", "release", "advance"} /\ call'.w = rec.host
             \/ call'.op = "choose" /\ call'.to # None /\ call'.w = rec.host
             \/ call'.op = "choose" /\ call'.to = None /\ rec.host \in {None, call'.w}
      PROVE  HostInv'
  BY <1>3 DEF HostInv
<1>4. CASE Fetch \/ Join \/ Flush \/ Merge \/ Reports \/ Gate \/ Push \/ Export \/ InitClone
  BY <1>1, <1>4, CallMoves DEF HostInv
<1>5. CASE Import
  <2>1. CASE call' = [Idle EXCEPT !.op = "choose", !.w = call.w, !.at = "awake"]
    <3>1. call'.op = "choose" /\ call'.w = call.w /\ call'.to = None /\ call'.at = "awake" /\ ~call'.pid
      BY <2>1, IdleCall DEF Call
    <3>2. call.op = "choose" /\ call.to = None
      BY <1>5, <3>1, IdleCall DEF Import, At, IType, CallTypes, Goes, Unheard, Stops
    <3> QED BY <1>3, <1>5, <3>1, <3>2 DEF Import, HostInv
  <2> QED BY <1>1, <1>5, <2>1 DEF Import, Goes, Unheard, Stops
<1>6. CASE Sync \/ Release \/ Advance
  <2>1. PICK op \in {"sync", "release", "advance"} : call' = Pulls([Idle EXCEPT !.op = op, !.w = rec.host])
    BY <1>6 DEF Sync, Release, Advance, Goes
  <2>2. rec.host \in Hosts BY <1>0, <1>6 DEF Sync, Release, Advance
  <2> DEFINE k == [Idle EXCEPT !.op = op, !.w = rec.host]
  <2>3. k \in Call /\ k.op = op /\ k.w = rec.host /\ k.to = None /\ ~k.pid
    BY <2>2, IdleCall DEF Call, Ops
  <2> HIDE DEF k
  <2>4. call'.op = op /\ call'.w = rec.host /\ call'.at = "fetch" /\ ~call'.pid
    BY <2>1, <2>2, <2>3, PullsCall DEF k, IType
  <2> QED BY <1>3, <1>6, <2>4 DEF Sync, Release, Advance
<1>7. CASE Start
  <2>1. call'.op = "start" /\ call'.w = rec.host /\ call'.at = "push" /\ ~call'.pid
    BY <1>7, IdleCall DEF Start, Goes, Call
  <2> QED BY <1>3, <1>7, <2>1 DEF Start
<1>8. ASSUME NEW w \in Hosts, Choose(w) PROVE HostInv'
  <2>1. CASE rec.host \in {None, w}
    <3>1. call'.op = "choose" /\ call'.w = w /\ call'.to = None /\ call'.at = "init" /\ ~call'.pid
      BY <1>8, <2>1, IdleCall DEF Choose, Goes, Call
    <3> QED BY <1>3, <1>8, <2>1, <3>1 DEF Choose
  <2>2. CASE rec.host \notin {None, w}
    <3> DEFINE k == [Idle EXCEPT !.op = "choose", !.w = rec.host, !.to = w]
    <3>1. k \in Call /\ k.op = "choose" /\ k.w = rec.host /\ k.to = w /\ ~k.pid
      BY <1>0, <2>2, IdleCall DEF Call, Ops
    <3>2. call' = Pulls(k) BY <1>8, <2>2 DEF Choose, Goes
    <3> HIDE DEF k
    <3>3. call'.op = "choose" /\ call'.w = rec.host /\ call'.at = "fetch" /\ call'.to = w /\ ~call'.pid
      BY <1>0, <2>2, <3>1, <3>2, PullsCall DEF IType
    <3> QED BY <1>3, <1>8, <3>3 DEF Choose
  <2> QED BY <2>1, <2>2
<1>9. CASE KeepAwake
  <2>1. call.w \in Hosts /\ call'.at = "record" /\ call'.op = "choose" /\ call'.w = call.w /\ call'.to = None
        /\ rec.host \in {None, call.w}
    BY <1>9, KeepAwakeEffect DEF HostInv
  <2>2. PICK n \in 1..2, m \in 0..1 :
            \/ Restarted(call.w, n)
            \/ UNCHANGED <<awake, rec>> /\ ~call'.pid
    BY <1>9, KeepAwakeEffect
  <2>3. CASE UNCHANGED <<awake, rec>> /\ ~call'.pid
    BY <1>3, <2>1, <2>3
  <2>4. CASE Restarted(call.w, n) /\ KillsRecorded(call.w)
    <3>1. rec'.host = rec.host /\ rec'.pid = "dead"
      BY <2>4 DEF Restarted, IType, RecordTypes
    <3>2. awake'[call.w] > 0
      BY <1>0, <2>1, <2>4 DEF Restarted, KillsRecorded, Recorded, HostInv
    <3> QED BY <2>1, <3>1, <3>2 DEF HostInv
  <2>5. CASE Restarted(call.w, n) /\ ~KillsRecorded(call.w)
    <3>1. rec' = rec /\ rec.pid # "live"
      BY <2>1, <2>5 DEF Restarted, KillsRecorded, Recorded, HostInv
    <3>2. awake'[call.w] > 0
      BY <1>0, <2>1, <2>5 DEF Restarted
    <3> QED BY <2>1, <3>1, <3>2 DEF HostInv
  <2> QED BY <2>2, <2>3, <2>4, <2>5
<1>10. CASE Record
  <2>1. call' = Idle /\ rec'.host = call.w /\ call.w \in Hosts /\ (rec'.pid = "live" => call.pid) /\ awake' = awake
    BY <1>0, <1>10 DEF Record, At, Stops, Goes
  <2> QED BY <2>1, IdleCall DEF HostInv
<1>11. CASE Kill
  <2>1. call'.at = "clear" /\ call'.op = call.op /\ call'.w = call.w /\ call'.to = call.to /\ call'.pid = call.pid /\ ~call.pid
        /\ call.w = rec.host
    BY <1>0, <1>11 DEF Kill, At, Goes, HostInv, Call
  <2>2. rec'.host = rec.host /\ rec'.pid # "live"
    <3>1. CASE Recorded(call.w) BY <1>11, <3>1 DEF Kill, IType, RecordTypes
    <3>2. CASE ~Recorded(call.w) BY <1>11, <2>1, <3>2 DEF Kill, Recorded
    <3> QED BY <3>1, <3>2
  <2> QED BY <2>1, <2>2 DEF HostInv
<1>12. CASE Clear
  <2>1. rec' = [host |-> None, pid |-> "none"] BY <1>12 DEF Clear
  <2>2. CASE call' = Idle BY <2>1, <2>2, IdleCall DEF HostInv
  <2>3. CASE call' = [Idle EXCEPT !.op = "choose", !.w = call.to, !.at = "init"]
    <3>1. call'.op = "choose" /\ call'.to = None /\ call'.at = "init" /\ ~call'.pid
      BY <2>3, IdleCall DEF Call
    <3> QED BY <2>1, <3>1 DEF HostInv
  <2> QED BY <1>12, <2>2, <2>3 DEF Clear, Stops, Goes
<1>13. CASE Fail
  BY <1>1, <1>13 DEF Fail, Unheard
<1>14. CASE (\E b \in Beads : Verify(b)) \/ Panes \/ LocalCommit \/ Leave \/ Return \/ (\E w \in Hosts : MergeByHand(w)) \/ UNCHANGED vars
  BY <1>2, <1>14 DEF Verify, Panes, PaneClaims, PaneCommits, PaneCloses, LocalCommit, Leave, Return, MergeByHand, vars
<1> QED BY <1>4, <1>5, <1>6, <1>7, <1>8, <1>9, <1>10, <1>11, <1>12, <1>13, <1>14 DEF Next, Proceed

\* AwakeInv goes on: a caffeinate that starts is told of, or is one that was
\* lost track of; one that is killed, or let go unseen, was on record.
LEMMA AwakeStep ==
    ASSUME IType, HostInv, AwakeInv, [Next]_vars PROVE AwakeInv'
<1> USE SwarmAssumption DEF SwarmAssumption, record
<1>0. call \in Call /\ (call.at # "idle" => call.w \in Hosts) /\ stray \in Nat
      /\ ((call.at = "idle") <=> (call = Idle))
      /\ rec.host \in Hosts \cup {None} /\ awake \in [Hosts -> Nat]
  BY DEF IType, CallTypes, RecordTypes
<1> DEFINE One(c) == IF c THEN 1 ELSE 0
<1>1. \A w \in Hosts : awake[w] <= stray + One(Counted(w))
  BY DEF AwakeInv
<1>2. ASSUME \A w \in Hosts : awake'[w] <= stray' + One(Counted(w)') PROVE AwakeInv'
  BY <1>2 DEF AwakeInv
<1>3. ASSUME UNCHANGED <<rec, awake>>, stray' \in Nat, stray <= stray',
             call.at = "record" /\ call.pid => stray' = stray + 1 \/ call' = call,
             call'.at # "record" \/ call' = call
      PROVE  AwakeInv'
  <2> SUFFICES ASSUME NEW w \in Hosts PROVE awake'[w] <= stray' + One(Counted(w)')
    BY <1>2
  <2>1. awake'[w] = awake[w] /\ awake[w] \in Nat /\ awake[w] <= stray + One(Counted(w)) /\ (Recorded(w)' <=> Recorded(w))
    BY <1>0, <1>1, <1>3 DEF Recorded
  <2>2. CASE Counted(w) => Counted(w)'
    BY <1>0, <1>3, <2>1, <2>2
  <2>3. CASE Counted(w) /\ ~Counted(w)'
    BY <1>0, <1>3, <2>1, <2>3 DEF Counted
  <2> QED BY <2>2, <2>3
<1>4. CASE Fetch \/ Join \/ Flush \/ Merge \/ Reports \/ Gate \/ Push \/ Export \/ InitClone
  BY <1>0, <1>3, <1>4, CallMoves, IdleCall
<1>5. CASE Import \/ Sync \/ Release \/ Advance \/ Start \/ (\E w \in Hosts : Choose(w))
  <2>1. call.at # "record" /\ UNCHANGED <<rec, awake, stray>>
    BY <1>5 DEF Import, Sync, Release, Advance, Start, Choose, At
  <2>2. call'.at # "record"
    <3>1. CASE Import
      BY <3>1, IdleCall DEF Import, Goes, Unheard, Stops, Call
    <3>2. CASE Sync \/ Release \/ Advance
      <4>1. PICK op \in {"sync", "release", "advance"} : call' = Pulls([Idle EXCEPT !.op = op, !.w = rec.host])
        BY <3>2 DEF Sync, Release, Advance, Goes
      <4>2. rec.host \in Hosts BY <1>0, <3>2 DEF Sync, Release, Advance
      <4>3. [Idle EXCEPT !.op = op, !.w = rec.host] \in Call /\ [Idle EXCEPT !.op = op, !.w = rec.host].w \in Hosts
        BY <4>2, IdleCall DEF Call, Ops
      <4> QED BY <4>1, <4>3, PullsCall DEF IType
    <3>3. CASE Start BY <3>3, IdleCall DEF Start, Goes, Call
    <3>4. ASSUME NEW w \in Hosts, Choose(w) PROVE call'.at # "record"
      <4>1. CASE rec.host \in {None, w} BY <3>4, <4>1, IdleCall DEF Choose, Goes, Call
      <4>2. CASE rec.host \notin {None, w}
        <5>1. call' = Pulls([Idle EXCEPT !.op = "choose", !.w = rec.host, !.to = w])
          BY <3>4, <4>2 DEF Choose, Goes
        <5>2. /\ [Idle EXCEPT !.op = "choose", !.w = rec.host, !.to = w] \in Call
              /\ [Idle EXCEPT !.op = "choose", !.w = rec.host, !.to = w].w \in Hosts
          BY <1>0, <4>2, IdleCall DEF Call, Ops
        <5> QED BY <5>1, <5>2, PullsCall DEF IType
      <4> QED BY <4>1, <4>2
    <3> QED BY <1>5, <3>1, <3>2, <3>3, <3>4
  <2> QED BY <1>0, <1>3, <2>1, <2>2
<1>6. CASE KeepAwake
  <2>0. PICK v \in Hosts : v = call.w
    BY <1>6, KeepAwakeEffect
  <2>1. call.w = v /\ call'.at = "record" /\ call'.w = v /\ call.at = "awake" /\ rec.host \in {None, v}
    BY <2>0, <1>6, KeepAwakeEffect DEF HostInv
  <2>2. PICK n \in 1..2, m \in 0..1 :
            /\ stray' = stray + m
            /\ \/ Restarted(v, n) /\ n <= m + One(call'.pid)
               \/ UNCHANGED <<awake, rec>> /\ ~call'.pid /\ m = One(Recorded(v))
    BY <2>0, <1>6, KeepAwakeEffect
  <2>3. ASSUME NEW w \in Hosts, w # v PROVE awake'[w] <= stray' + One(Counted(w)')
    <3>1. awake'[w] = awake[w] /\ awake[w] \in Nat /\ ~Counted(w)
      BY <1>0, <2>1, <2>2, <2>3 DEF Restarted, Recorded, Counted
    <3>2. awake[w] <= stray BY <1>0, <1>1, <2>3, <3>1
    <3> QED BY <1>0, <2>2, <3>1, <3>2
  <2>4. awake[v] \in Nat /\ awake[v] <= stray + One(Recorded(v)) /\ (Counted(v)' <=> call'.pid)
    BY <1>1, <1>0, <2>1 DEF Counted
  <2>5. CASE UNCHANGED <<awake, rec>> /\ ~call'.pid /\ m = One(Recorded(v))
    <3>1. awake'[v] <= stray' + One(Counted(v)')
      BY <1>0, <2>2, <2>4, <2>5
    <3> QED BY <1>2, <2>3, <3>1
  <2>6. CASE Restarted(v, n) /\ n <= m + One(call'.pid)
    <3>1. awake'[v] = awake[v] + n - One(Recorded(v))
      BY <1>0, <2>1, <2>6 DEF Restarted, KillsRecorded
    <3>2. awake'[v] <= stray' + One(Counted(v)')
      BY <1>0, <2>2, <2>4, <2>6, <3>1
    <3> QED BY <1>2, <2>3, <3>2
  <2> QED BY <2>2, <2>5, <2>6
<1>7. CASE Record
  <2>1. rec' = [host |-> call.w, pid |-> IF call.pid THEN "live" ELSE "none"] /\ awake' = awake /\ stray' = stray
        /\ call.at = "record" /\ rec.host \in {None, call.w} /\ call' = Idle
    BY <1>0, <1>7 DEF Record, At, HostInv, Stops, Goes, IType, CallTypes
  <2>2. ASSUME NEW w \in Hosts PROVE Counted(w) => Counted(w)'
    BY <2>1, IdleCall DEF Counted, Recorded
  <2>3. ASSUME NEW w \in Hosts PROVE awake'[w] <= stray' + One(Counted(w)')
    BY <1>0, <1>1, <2>1, <2>2, <2>3
  <2> QED BY <1>2, <2>3
<1>8. CASE Kill
  <2>0. PICK v \in Hosts : v = call.w
    BY <1>0, <1>8 DEF Kill, At
  <2>1. call.w = v /\ call.at = "kill" /\ call'.at = "clear" /\ rec.host = v
    BY <2>0, <1>0, <1>8 DEF Kill, At, Goes, HostInv, IType, CallTypes, Call
  <2>2. ASSUME NEW w \in Hosts, w # v PROVE awake'[w] <= stray' + One(Counted(w)')
    <3>1. awake'[w] = awake[w] /\ awake[w] \in Nat /\ ~Counted(w) /\ stray' \in {stray, stray + 1}
      BY <1>0, <1>8, <2>1, <2>2 DEF Kill, Recorded, Counted
    <3>2. awake[w] <= stray BY <1>0, <1>1, <2>2, <3>1
    <3> QED BY <1>0, <3>1, <3>2
  <2>3. awake[v] \in Nat /\ awake[v] <= stray + One(Recorded(v))
    BY <1>0, <1>1, <2>1 DEF Counted
  <2>4. awake'[v] <= stray'
    <3>1. CASE Recorded(v) /\ stray' = stray
      BY <1>0, <1>8, <2>1, <2>3, <3>1 DEF Kill
    <3>2. CASE Recorded(v) /\ stray' # stray
      BY <1>0, <1>8, <2>1, <2>3, <3>2 DEF Kill
    <3>3. CASE ~Recorded(v)
      BY <1>0, <1>8, <2>1, <2>3, <3>3 DEF Kill
    <3> QED BY <3>1, <3>2, <3>3
  <2>5. stray' \in Nat /\ awake'[v] \in Nat
    BY <2>1, TypesStep DEF IType, RecordTypes
  <2>6. awake'[v] <= stray' + One(Counted(v)')
    BY <2>4, <2>5
  <2> QED BY <1>2, <2>2, <2>6
<1>9. CASE Clear
  <2>1. awake' = awake /\ stray' = stray /\ call.at = "clear"
    BY <1>9 DEF Clear, At
  <2>2. ASSUME NEW w \in Hosts PROVE ~Counted(w)
    BY <2>1 DEF Counted, Recorded, HostInv
  <2>3. ASSUME NEW w \in Hosts PROVE awake'[w] <= stray' + One(Counted(w)')
    BY <1>0, <1>1, <2>1, <2>2, <2>3
  <2> QED BY <1>2, <2>3
<1>10. CASE Fail
  BY <1>0, <1>3, <1>10, IdleCall DEF Fail, Unheard, At
<1>11. CASE (\E b \in Beads : Verify(b)) \/ Panes \/ LocalCommit \/ Leave \/ Return \/ (\E w \in Hosts : MergeByHand(w)) \/ UNCHANGED vars
  <2>1. call' = call /\ UNCHANGED <<rec, awake, stray>>
    BY <1>11 DEF Verify, Panes, PaneClaims, PaneCommits, PaneCloses, LocalCommit, Leave, Return, MergeByHand, vars
  <2> QED BY <1>0, <1>3, <2>1
<1> QED BY <1>4, <1>5, <1>6, <1>7, <1>8, <1>9, <1>10, <1>11 DEF Next, Proceed

-----------------------------------------------------------------------------
\* Where a call goes and what it carries, action by action.
Stays == call'.w = call.w /\ call'.had = call.had /\ call'.snap = call.snap
Drops == call' = Idle \/ (call'.at \in {"awake", "init", "record", "clear"} /\ call'.snap \in {call.snap, Nothing.db})

LEMMA CallNext ==
    ASSUME IType
    PROVE
    /\ call \in Call /\ (call.at # "idle" => call.w \in Hosts) /\ ((call.at = "idle") <=> (call = Idle))
    /\ Fetch => call.at = "fetch" /\ (call' = Idle \/ (call'.at \in {"flush", "join"} /\ Stays))
    /\ Join => call.at = "join" /\ (call' = Idle \/ (call'.at = "flush" /\ Stays))
    /\ Flush => /\ call.at = "flush"
                /\ \/ call' = Idle
                   \/ call'.at = "merge" /\ call'.w = call.w /\ call'.had = call.had /\ call'.snap = db[call.w]
                   \/ call'.at = "reports" /\ call.w \notin mirror /\ Stays
    /\ Merge => /\ call.at = "merge"
                /\ \/ call' = Idle
                   \/ call'.at = "reports" /\ call'.w = call.w /\ call'.had = call.had /\ call'.snap = Nothing.db
    /\ Reports => /\ call.at = "reports"
                  /\ \/ call' = Idle
                     \/ call'.at \in {"kill", "gate"} /\ call'.w = call.w /\ call'.snap = call.snap
                     \/ /\ call'.at = "push" /\ call'.w = call.w /\ call'.snap = call.snap
                        /\ call'.had.log = log[Here] /\ call'.had.db = db[Here]
    /\ Push => call.at = "push" /\ (call' = Idle \/ (call'.at = "export" /\ Stays))
    /\ Export => /\ call.at = "export"
                 /\ \/ call' = Idle
                    \/ /\ call'.at = "import" /\ call'.w = call.w /\ call'.had = call.had
                       /\ call'.snap = db[Here] \/ (call'.snap = out /\ call'.blind)
    /\ Import => call.at = "import" /\ Drops
    /\ Sync \/ Release \/ Advance =>
        /\ call.at = "idle" /\ call'.at = "fetch" /\ call'.w \in Hosts
        /\ call'.snap = Nothing.db /\ call'.had = Has(call'.w)
    /\ (\E w \in Hosts : Choose(w)) =>
        /\ call.at = "idle" /\ call'.snap = Nothing.db
        /\ call'.at = "init" \/ (call'.at = "fetch" /\ call'.w \in Hosts /\ call'.had = Has(call'.w))
    /\ InitClone => /\ call.at = "init" /\ call'.at = "fetch" /\ call'.w = call.w
                    /\ call'.snap = call.snap /\ call'.had = Has(call'.w)
    /\ Start => /\ call.at = "idle" /\ call'.at = "push" /\ call'.snap = Nothing.db
                /\ call'.had.log = log[Here] /\ call'.had.db = db'[Here]
    /\ Gate => /\ call.at = "gate"
               /\ \/ call' = Idle
                  \/ /\ call'.at = "push" /\ call'.w = call.w /\ call'.snap = call.snap
                     /\ call'.had.log = log[Here] /\ call'.had.db = db'[Here]
    /\ KeepAwake \/ Record \/ Kill \/ Clear \/ Fail => Drops
<1> USE SwarmAssumption DEF SwarmAssumption
<1>0. call \in Call /\ (call.at # "idle" => call.w \in Hosts) /\ ((call.at = "idle") <=> (call = Idle))
      /\ StoreTypes /\ (call.to # None => call.op = "choose") /\ rec.host \in Hosts \cup {None}
  BY DEF IType, CallTypes, RecordTypes
<1>1. Fetch => call.at = "fetch" /\ (call' = Idle \/ (call'.at \in {"flush", "join"} /\ Stays))
  BY <1>0 DEF Fetch, At, Stops, Goes, Call, Stays
<1>2. Join => call.at = "join" /\ (call' = Idle \/ (call'.at = "flush" /\ Stays))
  BY <1>0 DEF Join, At, Goes, Unheard, Conflicted, Call, Stays
<1>3. Flush => /\ call.at = "flush"
               /\ \/ call' = Idle
                  \/ call'.at = "merge" /\ call'.w = call.w /\ call'.had = call.had /\ call'.snap = db[call.w]
                  \/ call'.at = "reports" /\ call.w \notin mirror /\ Stays
  BY <1>0 DEF Flush, At, Goes, Unheard, Call, Stays
<1>4. Merge => /\ call.at = "merge"
               /\ \/ call' = Idle
                  \/ call'.at = "reports" /\ call'.w = call.w /\ call'.had = call.had /\ call'.snap = Nothing.db
  BY <1>0 DEF Merge, At, Goes, Unheard, Call
<1>5. Reports => /\ call.at = "reports"
                 /\ \/ call' = Idle
                    \/ call'.at \in {"kill", "gate"} /\ call'.w = call.w /\ call'.snap = call.snap
                    \/ /\ call'.at = "push" /\ call'.w = call.w /\ call'.snap = call.snap
                       /\ call'.had.log = log[Here] /\ call'.had.db = db[Here]
  BY <1>0, AfterPullCall DEF Reports, At, Goes, Unheard
<1>6. Push => call.at = "push" /\ (call' = Idle \/ (call'.at = "export" /\ Stays))
  BY <1>0 DEF Push, At, Stops, Goes, Unheard, Call, Stays
<1>7. Export => /\ call.at = "export"
                /\ \/ call' = Idle
                   \/ /\ call'.at = "import" /\ call'.w = call.w /\ call'.had = call.had
                      /\ call'.snap = db[Here] \/ (call'.snap = out /\ call'.blind)
  BY <1>0 DEF Export, At, Goes, Unheard, Call
<1>8. Import => call.at = "import" /\ Drops
  BY <1>0, IdleCall DEF Import, At, Goes, Unheard, Stops, Call, Drops
<1>9. Sync \/ Release \/ Advance =>
        /\ call.at = "idle" /\ call'.at = "fetch" /\ call'.w \in Hosts
        /\ call'.snap = Nothing.db /\ call'.had = Has(call'.w)
  <2> SUFFICES ASSUME Sync \/ Release \/ Advance
               PROVE  /\ call.at = "idle" /\ call'.at = "fetch" /\ call'.w \in Hosts
                      /\ call'.snap = Nothing.db /\ call'.had = Has(call'.w)
    OBVIOUS
  <2>1. PICK op \in {"sync", "release", "advance"} : call' = Pulls([Idle EXCEPT !.op = op, !.w = rec.host])
    BY DEF Sync, Release, Advance, Goes
  <2>2. rec.host \in Hosts /\ call.at = "idle" BY <1>0 DEF Sync, Release, Advance, At
  <2> DEFINE k == [Idle EXCEPT !.op = op, !.w = rec.host]
  <2>3. k \in Call /\ k.w = rec.host /\ k.snap = Nothing.db
    BY <2>2, IdleCall DEF Call, Ops
  <2>4. call' = Pulls(k) BY <2>1
  <2> HIDE DEF k
  <2> QED BY <1>0, <2>2, <2>3, <2>4, PullsCall
<1>10. (\E w \in Hosts : Choose(w)) =>
        /\ call.at = "idle" /\ call'.snap = Nothing.db
        /\ call'.at = "init" \/ (call'.at = "fetch" /\ call'.w \in Hosts /\ call'.had = Has(call'.w))
  <2> SUFFICES ASSUME NEW w \in Hosts, Choose(w)
               PROVE  /\ call.at = "idle" /\ call'.snap = Nothing.db
                      /\ call'.at = "init" \/ (call'.at = "fetch" /\ call'.w \in Hosts /\ call'.had = Has(call'.w))
    OBVIOUS
  <2>1. call.at = "idle" BY DEF Choose, At
  <2>2. CASE rec.host \in {None, w}
    BY <2>1, <2>2, IdleCall DEF Choose, Goes, Call
  <2>3. CASE rec.host \notin {None, w}
    <3> DEFINE k == [Idle EXCEPT !.op = "choose", !.w = rec.host, !.to = w]
    <3>1. k \in Call /\ k.w = rec.host /\ k.snap = Nothing.db
      BY <1>0, <2>3, IdleCall DEF Call, Ops
    <3>2. call' = Pulls(k) BY <2>3 DEF Choose, Goes
    <3> HIDE DEF k
    <3> QED BY <1>0, <2>1, <2>3, <3>1, <3>2, PullsCall
  <2> QED BY <2>2, <2>3
<1>11. InitClone => /\ call.at = "init" /\ call'.at = "fetch" /\ call'.w = call.w
                    /\ call'.snap = call.snap /\ call'.had = Has(call'.w)
  BY <1>0, PullsCall DEF InitClone, At, Goes
<1>12. Start => /\ call.at = "idle" /\ call'.at = "push" /\ call'.snap = Nothing.db
                /\ call'.had.log = log[Here] /\ call'.had.db = db'[Here]
  BY IdleCall DEF Start, At, Goes, Call
<1>13. Gate => /\ call.at = "gate"
               /\ \/ call' = Idle
                  \/ /\ call'.at = "push" /\ call'.w = call.w /\ call'.snap = call.snap
                     /\ call'.had.log = log[Here] /\ call'.had.db = db'[Here]
  <2> SUFFICES ASSUME Gate
               PROVE  /\ call.at = "gate"
                      /\ \/ call' = Idle
                         \/ /\ call'.at = "push" /\ call'.w = call.w /\ call'.snap = call.snap
                            /\ call'.had.log = log[Here] /\ call'.had.db = db'[Here]
    OBVIOUS
  <2> DEFINE h == [log |-> log[Here], db |-> db'[Here], reports |-> {}]
  <2>1. h.log = log[Here] /\ h.db = db'[Here] OBVIOUS
  <2>2. call.at = "gate" /\ (call' = Idle \/ call' = [call EXCEPT !.at = "push", !.had = h])
    BY DEF Gate, At, Goes, Stops
  <2> HIDE DEF h
  <2> QED BY <1>0, <2>1, <2>2 DEF Call
<1>14. KeepAwake \/ Record \/ Kill => Drops
  BY <1>0 DEF KeepAwake, Record, Kill, Goes, Stops, Call, Drops
<1>15. Clear \/ Fail => Drops
  BY <1>0, IdleCall DEF Clear, Fail, Unheard, Goes, Stops, Call, Drops
<1> QED BY <1>0, <1>1, <1>2, <1>3, <1>4, <1>5, <1>6, <1>7, <1>8, <1>9, <1>10, <1>11, <1>12, <1>13, <1>14, <1>15

\* A clone has nothing before its first push and its first import, and a pane
\* works in a clone that has had both.
LEMMA CloneStep ==
    ASSUME IType, CloneInv, [Next]_vars PROVE CloneInv'
<1> USE SwarmAssumption DEF SwarmAssumption, Sites, code, beads, record, wave
<1>0. /\ StoreTypes /\ WaveTypes /\ Here \in Sites /\ Hosts \subseteq Sites
      /\ \A w \in Hosts : w # Here
  BY DEF IType
<1>1. ASSUME \A w \in Hosts : log'[w] = log[w] /\ db'[w] = db[w], UNCHANGED <<branch, mirror, pane>>,
             call'.at \in {"export", "import"} => call.at \in {"export", "import"} /\ call'.w = call.w
      PROVE  CloneInv'
  BY <1>1 DEF CloneInv, WaveTypes, IType
<1>2. CASE Fetch \/ Join \/ Flush \/ Merge \/ Reports \/ Gate \/ Export \/ InitClone
  <2>1. (\A w \in Hosts : log'[w] = log[w] /\ db'[w] = db[w]) /\ UNCHANGED <<branch, mirror, pane>>
    BY <1>0, <1>2 DEF Fetch, Join, Flush, Merge, Reports, Gate, Export, InitClone, StoreTypes
  <2>2. call'.at \in {"export", "import"} => call.at \in {"export", "import"} /\ call'.w = call.w
    BY <1>2, CallNext, IdleCall
  <2> QED BY <1>1, <2>1, <2>2
<1>3. CASE Sync \/ Release \/ Advance \/ Start \/ (\E w \in Hosts : Choose(w)) \/ KeepAwake \/ Record \/ Kill \/ Clear \/ Fail
  <2>1. (\A w \in Hosts : log'[w] = log[w] /\ db'[w] = db[w]) /\ UNCHANGED <<branch, mirror, pane>>
    BY <1>0, <1>3 DEF Sync, Release, Advance, Start, Choose, KeepAwake, Record, Kill, Clear, Fail, StoreTypes
  <2>2. call'.at \in {"export", "import"} => call.at \in {"export", "import"} /\ call'.w = call.w
    BY <1>3, CallNext, IdleCall DEF Drops
  <2> QED BY <1>1, <2>1, <2>2
<1>4. CASE (\E b \in Beads : Verify(b)) \/ LocalCommit \/ Leave \/ Return \/ (\E w \in Hosts : MergeByHand(w)) \/ UNCHANGED vars
  <2>1. (\A w \in Hosts : log'[w] = log[w] /\ db'[w] = db[w]) /\ UNCHANGED <<branch, mirror, pane, call>>
    BY <1>0, <1>4 DEF Verify, LocalCommit, Leave, Return, MergeByHand, vars, StoreTypes
  <2> QED BY <1>1, <2>1
<1>5. CASE Push
  <2>1. call.at = "push" /\ call.w \in Hosts
    BY <1>5, CallNext
  <2>2. CASE UNCHANGED <<log, branch>>
    <3>1. call' = Idle \/ call.w \in branch
      BY <1>5, <2>2, IdleCall DEF Push, Stops, Goes, Unheard
    <3>2. call'.at \in {"export", "import"} => call'.w \in branch
      BY <1>5, <3>1, CallNext, IdleCall DEF Stays
    <3> QED BY <1>5, <2>2, <3>2 DEF Push, CloneInv
  <2>3. CASE log' = [log EXCEPT ![call.w] = log[Here]] /\ branch' = branch \cup {call.w} /\ log[call.w] \subseteq log[Here]
    <3>1. \A w \in Hosts : log[w] \subseteq log'[w] /\ (w # call.w => log'[w] = log[w])
      BY <1>0, <2>1, <2>3 DEF StoreTypes
    <3>2. call'.at \in {"export", "import"} => call'.w = call.w
      BY <1>5, CallNext, IdleCall DEF Stays
    <3>3. UNCHANGED <<db, mirror, pane>> BY <1>5 DEF Push
    <3>4. \A w \in Hosts : (w \notin branch' => log'[w] = {}) /\ (w \notin mirror' => db'[w] = Nothing.db)
      BY <2>3, <3>1, <3>3 DEF CloneInv
    <3>5. \A b \in Beads : /\ pane'[b].stage # "none" => pane'[b].site \in branch' \cap mirror'
                           /\ pane'[b].stage \in {"committed", "closed"} => b \in log'[pane'[b].site]
      BY <1>0, <2>3, <3>1, <3>3 DEF CloneInv, WaveTypes
    <3> QED BY <2>3, <3>2, <3>4, <3>5 DEF CloneInv
  <2> QED BY <1>5, <2>2, <2>3 DEF Push, Refuses
<1>6. CASE Import
  <2>1. call.at = "import" /\ call.w \in Hosts /\ call'.at \notin {"export", "import"} /\ call.w \in branch
    BY <1>6, CallNext, IdleCall DEF Drops, CloneInv
  <2>2. (\A w \in Hosts : w # call.w => db'[w] = db[w]) /\ log' = log /\ branch' = branch /\ mirror' = mirror \cup {call.w}
    BY <1>0, <1>6, <2>1 DEF Import, StoreTypes
  <2>3. pane' = pane \/ pane' = [b \in Beads |-> IF b \in owed THEN [site |-> call.w, stage |-> "sent"] ELSE pane[b]]
    BY <1>6 DEF Import
  <2>4. \A b \in Beads : pane'[b] = pane[b] \/ pane'[b] = [site |-> call.w, stage |-> "sent"]
    BY <2>3
  <2>5. \A b \in Beads : /\ pane'[b].stage # "none" => pane'[b].site \in branch' \cap mirror'
                         /\ pane'[b].stage \in {"committed", "closed"} => b \in log'[pane'[b].site]
    BY <2>1, <2>2, <2>4 DEF CloneInv
  <2> QED BY <2>1, <2>2, <2>5 DEF CloneInv
<1>7. ASSUME NEW b \in Beads, PaneClaims(b) \/ PaneCommits(b) \/ PaneCloses(b) PROVE CloneInv'
  <2>1. /\ pane[b].stage # "none" /\ pane[b].site \in branch \cap mirror /\ pane[b].site \in Hosts
        /\ UNCHANGED <<branch, mirror, call>>
    BY <1>0, <1>7 DEF PaneClaims, PaneCommits, PaneCloses, Step, CloneInv, WaveTypes
  <2>2. \A w \in Hosts : w # pane[b].site => log'[w] = log[w] /\ db'[w] = db[w]
    BY <1>0, <1>7, <2>1 DEF PaneClaims, PaneCommits, PaneCloses, StoreTypes
  <2>3. \A s \in Hosts : log[s] \subseteq log'[s]
    BY <1>0, <1>7, <2>1 DEF PaneClaims, PaneCommits, PaneCloses, StoreTypes
  <2>4. PICK to \in {"dirty", "committed", "closed"} :
            /\ pane' = [pane EXCEPT ![b].stage = to]
            /\ to \in {"committed", "closed"} => b \in log'[pane[b].site]
    <3>1. CASE PaneClaims(b) BY <3>1 DEF PaneClaims, Step
    <3>2. CASE PaneCommits(b) BY <1>0, <2>1, <3>2 DEF PaneCommits, Step, StoreTypes
    <3>3. CASE PaneCloses(b) BY <3>3 DEF PaneCloses, Step, CloneInv
    <3> QED BY <1>7, <3>1, <3>2, <3>3
  <2>5. \A x \in Beads : pane'[x].site = pane[x].site /\ (x # b => pane'[x] = pane[x]) /\ (x = b => pane'[x].stage = to)
    BY <1>0, <2>4 DEF WaveTypes
  <2>6. \A x \in Beads : /\ pane'[x].stage # "none" => pane'[x].site \in branch' \cap mirror'
                         /\ pane'[x].stage \in {"committed", "closed"} => x \in log'[pane'[x].site]
    BY <1>0, <2>1, <2>3, <2>4, <2>5 DEF CloneInv, WaveTypes
  <2> QED BY <2>1, <2>2, <2>6 DEF CloneInv
<1> QED BY <1>2, <1>3, <1>4, <1>5, <1>6, <1>7 DEF Next, Proceed, Panes

-----------------------------------------------------------------------------
\* No step takes back a commit, a bead's edit or a report.
TakesNothing ==
    \A s \in Sites :
        /\ log[s] \subseteq log'[s]
        /\ \A b \in Beads : db[s][b] <= db'[s][b] /\ (report[s][b] # "none" => report'[s][b] # "none")

LEMMA UndoneStep ==
    ASSUME IType, CloneInv, [Next]_vars PROVE TakesNothing
<1> USE SwarmAssumption DEF SwarmAssumption, Sites, code, beads, record, wave
<1>0. /\ StoreTypes /\ WaveTypes /\ Here \in Sites /\ Hosts \subseteq Sites
      /\ \A s \in Sites, b \in Beads : db[s][b] \in 0..2
      /\ \A w \in Hosts : w # Here
  BY DEF IType, StoreTypes, Status, Open, Closed
<1>1. ASSUME UNCHANGED <<log, db, report>> PROVE TakesNothing
  BY <1>0, <1>1 DEF TakesNothing
<1>2. ASSUME UNCHANGED <<db, report>>, \A s \in Sites : log[s] \subseteq log'[s] PROVE TakesNothing
  BY <1>0, <1>2 DEF TakesNothing
<1>3. ASSUME UNCHANGED <<log, report>>, \A s \in Sites, b \in Beads : db[s][b] <= db'[s][b] PROVE TakesNothing
  BY <1>3 DEF TakesNothing
<1>4. CASE Fetch \/ Flush \/ Export \/ InitClone \/ KeepAwake \/ Record \/ Kill \/ Clear \/ Fail \/ Sync \/ Release \/ Advance \/ (\E w \in Hosts : Choose(w)) \/ Leave \/ Return \/ UNCHANGED vars
  BY <1>1, <1>4 DEF Fetch, Flush, Export, InitClone, KeepAwake, Record, Kill, Clear, Fail, Sync, Release, Advance, Choose, Leave, Return, vars
<1>5. CASE Join \/ LocalCommit \/ (\E w \in Hosts : MergeByHand(w))
  <2>1. \A s \in Sites : log[s] \subseteq log'[s]
    BY <1>0, <1>5 DEF Join, Joined, LocalCommit, MergeByHand, StoreTypes
  <2> QED BY <1>2, <1>5, <2>1 DEF Join, LocalCommit, MergeByHand
<1>6. CASE Push
  <2>1. call.w \in Hosts BY <1>6, CallNext
  <2>2. \A s \in Sites : log[s] \subseteq log'[s]
    BY <1>0, <1>6, <2>1 DEF Push, Refuses, StoreTypes
  <2> QED BY <1>2, <1>6, <2>2 DEF Push
<1>7. CASE Merge
  <2>1. call.snap \in [Beads -> Status] BY DEF IType, CallTypes, Call
  <2>2. \A b \in Beads : db[Here][b] <= Newer(db[Here], call.snap)[b]
    BY <1>0, <2>1, NewerType DEF StoreTypes
  <2>3. \A s \in Sites, b \in Beads : db[s][b] <= db'[s][b]
    BY <1>0, <1>7, <2>2 DEF Merge, StoreTypes
  <2> QED BY <1>3, <1>7, <2>3 DEF Merge
<1>8. CASE Import
  <2>1. call.w \in Hosts /\ call.snap \in [Beads -> Status] BY <1>8, CallNext DEF IType, CallTypes, Call
  <2>2. \A b \in Beads : db[call.w][b] <= Imported(call.w, call.snap)[b]
    <3>1. CASE call.w \in mirror
      BY <1>0, <2>1, <3>1, NewerType DEF StoreTypes, Imported
    <3>2. CASE call.w \notin mirror
      <4>1. \A b \in Beads : db[call.w][b] = 0 BY <2>1, <3>2, NothingType DEF CloneInv, Open
      <4>2. \A b \in Beads : call.snap[b] \in 0..2 BY <2>1 DEF Status, Open, Closed
      <4> QED BY <3>2, <4>1, <4>2 DEF Imported
    <3> QED BY <3>1, <3>2
  <2>3. \A s \in Sites, b \in Beads : db[s][b] <= db'[s][b]
    BY <1>0, <1>8, <2>1, <2>2 DEF Import, StoreTypes
  <2> QED BY <1>3, <1>8, <2>3 DEF Import
<1>9. CASE Start
  <2>1. PICK S \in SUBSET Ready : db' = [db EXCEPT ![Here] = [b \in Beads |-> IF b \in S THEN Marked ELSE @[b]]]
    BY <1>9 DEF Start
  <2>2. \A s \in Sites, b \in Beads : db[s][b] <= db'[s][b]
    <3>1. db'[Here] = [b \in Beads |-> IF b \in S THEN Marked ELSE db[Here][b]]
      BY <1>0, <2>1 DEF StoreTypes
    <3>2. \A s \in Sites : s # Here => db'[s] = db[s]
      BY <1>0, <2>1 DEF StoreTypes
    <3>3. \A b \in S : db[Here][b] = 0 BY DEF Ready, Open
    <3> QED BY <1>0, <3>1, <3>2, <3>3 DEF Marked
  <2> QED BY <1>3, <1>9, <2>2 DEF Start
<1>10. CASE Gate
  <2>1. PICK S \in SUBSET Launched : db' = [db EXCEPT ![Here] = ClosedByCommit(S)]
    BY <1>10 DEF Gate
  <2>2. \A b \in Beads : db[Here][b] <= ClosedByCommit(S)[b]
    BY <1>0 DEF ClosedByCommit, Closed
  <2>3. \A s \in Sites, b \in Beads : db[s][b] <= db'[s][b]
    BY <1>0, <2>1, <2>2 DEF StoreTypes
  <2> QED BY <1>3, <1>10, <2>3 DEF Gate
<1>11. CASE Reports
  <2>1. call.w \in Hosts BY <1>11, CallNext
  <2>2. \A b \in Beads : report[Here][b] # "none" => Copied(report[Here], report[call.w])[b] # "none"
    BY DEF Copied
  <2>3. \A s \in Sites, b \in Beads : report[s][b] # "none" => report'[s][b] # "none"
    BY <1>0, <1>11, <2>2 DEF Reports, StoreTypes
  <2> QED BY <1>0, <1>11, <2>3 DEF Reports, TakesNothing
<1>12. ASSUME NEW b \in Beads, Verify(b) PROVE TakesNothing
  <2>1. \A s \in Sites, x \in Beads : report[s][x] # "none" => report'[s][x] # "none"
    BY <1>0, <1>12 DEF Verify, StoreTypes
  <2> QED BY <1>0, <1>12, <2>1 DEF Verify, TakesNothing
<1>13. ASSUME NEW b \in Beads, PaneClaims(b) \/ PaneCommits(b) \/ PaneCloses(b) PROVE TakesNothing
  <2>1. pane[b].site \in Hosts
    BY <1>0, <1>13 DEF PaneClaims, PaneCommits, PaneCloses, Step, WaveTypes
  <2>2. CASE PaneClaims(b)
    <3>1. \A s \in Sites, x \in Beads : db[s][x] <= db'[s][x]
      BY <1>0, <2>1, <2>2 DEF PaneClaims, StoreTypes, Marked
    <3> QED BY <1>3, <2>2, <3>1 DEF PaneClaims
  <2>3. CASE PaneCommits(b)
    <3>1. \A s \in Sites : log[s] \subseteq log'[s]
      BY <1>0, <2>1, <2>3 DEF PaneCommits, StoreTypes
    <3> QED BY <1>2, <2>3, <3>1 DEF PaneCommits
  <2>4. CASE PaneCloses(b)
    <3>1. \A s \in Sites, x \in Beads : db[s][x] <= db'[s][x]
      <4>1. \A s \in Sites : db'[s] = IF s = pane[b].site THEN [db[s] EXCEPT ![b] = 2] ELSE db[s]
        BY <1>0, <2>1, <2>4 DEF PaneCloses, StoreTypes, Closed
      <4>2. \A s \in Sites, x \in Beads : db'[s][x] = db[s][x] \/ db'[s][x] = 2
        <5> SUFFICES ASSUME NEW s \in Sites, NEW x \in Beads PROVE db'[s][x] = db[s][x] \/ db'[s][x] = 2
          OBVIOUS
        <5>1. db[s] \in [Beads -> Status] BY <1>0 DEF StoreTypes
        <5>2. db'[s] = [db[s] EXCEPT ![b] = 2] \/ db'[s] = db[s] BY <4>1
        <5> QED BY <5>1, <5>2
      <4> QED BY <1>0, <4>2
    <3>2. \A s \in Sites, x \in Beads : report[s][x] # "none" => report'[s][x] # "none"
      BY <1>0, <2>1, <2>4 DEF PaneCloses, StoreTypes
    <3> QED BY <2>4, <3>1, <3>2 DEF PaneCloses, TakesNothing
  <2> QED BY <1>13, <2>2, <2>3, <2>4
<1> QED BY <1>4, <1>5, <1>6, <1>7, <1>8, <1>9, <1>10, <1>11, <1>12, <1>13 DEF Next, Proceed, Panes

\* What the panes, the operator and verify-bead do: the call waits, and nothing
\* is taken back meanwhile.
Env == \/ (\E b \in Beads : Verify(b)) \/ Panes \/ LocalCommit \/ Leave \/ Return
       \/ (\E w \in Hosts : MergeByHand(w)) \/ UNCHANGED vars

LEMMA EnvStep ==
    ASSUME IType, CloneInv, [Next]_vars, Env
    PROVE  /\ call' = call /\ UNCHANGED <<ref, out>>
           /\ \A s \in Sites : log[s] \subseteq log'[s] /\ NoNewer(db[s], db'[s]) /\ Reported(s) \subseteq Reported(s)'
<1>1. call' = call /\ UNCHANGED <<ref, out>>
  BY DEF Env, Panes, PaneClaims, PaneCommits, PaneCloses, Verify, LocalCommit, Leave, Return, MergeByHand, vars, code, beads
<1> QED BY <1>1, UndoneStep DEF TakesNothing, NoNewer, Reported

-----------------------------------------------------------------------------
\* A bead is closed here only with its code: the commits a clone had when its
\* beads are exported are here or known to be on their way.
LEMMA CodeStep ==
    ASSUME IType, CloneInv, CodeInv, [Next]_vars PROVE CodeInv'
<1> USE SwarmAssumption DEF SwarmAssumption, Sites, code, beads, record, wave
<1> USE DEF Env
<1> DEFINE Mine == Join \/ Merge \/ Reports \/ Push \/ InitClone \/ KeepAwake \/ Record \/ Kill \/ Clear
                   \/ Fail \/ Sync \/ Release \/ Advance \/ (\E w \in Hosts : Choose(w))
<1>0. /\ StoreTypes /\ WaveTypes /\ Here \in Sites /\ Hosts \subseteq Sites
      /\ \A w \in Hosts : w # Here
      /\ call.snap \in [Beads -> Status]
  BY DEF IType, CallTypes, Call
<1>1. Got \subseteq Got' /\ \A w \in Hosts : log[w] \subseteq log'[w]
  <2>1. \A s \in Sites : log[s] \subseteq log'[s] BY UndoneStep DEF TakesNothing
  <2>2. late \subseteq late' \/ late' = late \ log'[Here]
    BY DEF Next, Proceed, Panes, Sync, Release, Start, Advance, Choose, Fetch, Join, Flush, Merge, Reports, Gate, Push,
           Export, Import, InitClone, KeepAwake, Record, Kill, Clear, Fail, Verify, PaneClaims, PaneCommits, PaneCloses,
           LocalCommit, Leave, Return, MergeByHand, vars
  <2> QED BY <1>0, <2>1, <2>2 DEF Got
<1>2. Env => call' = call
  BY DEF Panes, PaneClaims, PaneCommits, PaneCloses, Verify, LocalCommit, Leave, Return, MergeByHand, vars
<1>3. \A b \in Beads : Nothing.db[b] # Closed
  BY NothingType DEF Open, Closed
<1>4. ASSUME NEW b \in Beads, Closed \in {db'[Here][b], out'[b], call'.snap[b]} PROVE b \in Got'
  <2>1. SUFFICES Closed \in {db[Here][b], out[b], call.snap[b]} \/ b \in Got
    BY <1>1 DEF CodeInv
  <2>2. CASE Fetch \/ Join \/ Reports \/ Push \/ InitClone \/ KeepAwake \/ Record \/ Kill \/ Clear
             \/ Fail \/ Sync \/ Release \/ Advance \/ (\E w \in Hosts : Choose(w))
    <3>1. db' = db /\ out' = out
      BY <2>2 DEF Fetch, Join, Reports, Push, InitClone, KeepAwake, Record, Kill, Clear, Fail, Sync, Release, Advance, Choose
    <3>2. call'.snap \in {call.snap, Nothing.db}
      BY <2>2, CallNext, IdleCall DEF Stays, Drops
    <3> QED BY <1>3, <1>4, <3>1, <3>2
  <2>3. CASE Flush
    <3>1. call.at = "flush" /\ call.w \in Hosts BY <2>3, CallNext
    <3>2. db[call.w][b] = Closed => b \in Got BY <3>1 DEF CodeInv
    <3>3. db' = db /\ (out' = out \/ out' = db[call.w]) BY <2>3 DEF Flush
    <3>4. call'.snap \in {call.snap, Nothing.db, db[call.w]} BY <2>3, CallNext, IdleCall DEF Stays
    <3> QED BY <1>3, <1>4, <3>2, <3>3, <3>4
  <2>4. CASE Merge
    <3>1. Newer(db[Here], call.snap)[b] \in {db[Here][b], call.snap[b]} BY <1>0, NewerType DEF StoreTypes
    <3>2. db'[Here] = Newer(db[Here], call.snap) /\ out' = db'[Here] BY <1>0, <2>4 DEF Merge, StoreTypes
    <3>3. call'.snap = Nothing.db BY <2>4, CallNext, IdleCall
    <3> QED BY <1>3, <1>4, <3>1, <3>2, <3>3
  <2>5. CASE Export
    <3>1. db' = db /\ out' \in {out, db[Here]} BY <2>5 DEF Export
    <3>2. call'.snap \in {Nothing.db, db[Here], out} BY <2>5, CallNext, IdleCall
    <3> QED BY <1>3, <1>4, <3>1, <3>2
  <2>6. CASE Import
    <3>1. db'[Here] = db[Here] /\ out' = out BY <1>0, <2>6, CallNext DEF Import, StoreTypes
    <3>2. call'.snap \in {call.snap, Nothing.db} BY <2>6, CallNext, IdleCall DEF Drops
    <3> QED BY <1>3, <1>4, <3>1, <3>2
  <2>7. CASE Start
    <3>1. db'[Here][b] = Closed => db[Here][b] = Closed BY <1>0, <2>7 DEF Start, StoreTypes, Marked, Closed
    <3>2. out' = out /\ call'.snap = Nothing.db BY <2>7, CallNext DEF Start
    <3> QED BY <1>3, <1>4, <3>1, <3>2
  <2>8. CASE Gate
    <3>1. db'[Here][b] = Closed => db[Here][b] = Closed \/ b \in log[Here]
      BY <1>0, <2>8 DEF Gate, ClosedByCommit, StoreTypes
    <3>2. out' = out /\ call'.snap \in {call.snap, Nothing.db} BY <2>8, CallNext, IdleCall DEF Gate
    <3> QED BY <1>3, <1>4, <3>1, <3>2 DEF Got
  <2>9. CASE Env
    <3>1. db'[Here] = db[Here] /\ out' = out
      BY <1>0, <2>9 DEF Panes, PaneClaims, PaneCommits, PaneCloses, Step, Verify, LocalCommit, Leave, Return, MergeByHand, vars, StoreTypes, WaveTypes
    <3> QED BY <1>2, <1>4, <2>9, <3>1
  <2> QED BY <2>2, <2>3, <2>4, <2>5, <2>6, <2>7, <2>8, <2>9 DEF Next, Proceed
<1>5. ASSUME NEW w \in Hosts, NEW b \in Beads, db'[w][b] = Closed PROVE b \in log'[w] \cup Got'
  <2>1. SUFFICES db[w][b] = Closed \/ b \in log[w] \cup Got
    BY <1>1 DEF CodeInv
  <2>2. CASE Mine \/ Fetch \/ Flush \/ Export \/ Gate \/ Start
    BY <1>0, <1>5, <2>2 DEF Mine, Fetch, Flush, Export, Gate, Start, Join, Merge, Reports, Push, InitClone, KeepAwake, Record,
           Kill, Clear, Fail, Sync, Release, Advance, Choose, StoreTypes
  <2>3. CASE Import
    <3>1. call.w \in Hosts BY <2>3, CallNext
    <3>2. db'[w] = db[w] \/ (w = call.w /\ db'[w] = Imported(w, call.snap))
      BY <1>0, <2>3, <3>1 DEF Import, StoreTypes
    <3>3. Imported(w, call.snap)[b] \in {db[w][b], call.snap[b]}
      BY <1>0, NewerType DEF Imported, StoreTypes
    <3> QED BY <1>5, <3>2, <3>3 DEF CodeInv
  <2>4. CASE Env /\ ~Panes
    BY <1>5, <2>4 DEF Verify, LocalCommit, Leave, Return, MergeByHand, vars
  <2>5. ASSUME NEW x \in Beads, PaneClaims(x) \/ PaneCommits(x) \/ PaneCloses(x) PROVE db[w][b] = Closed \/ b \in log[w]
    <3>1. pane[x].site \in Hosts /\ pane[x].site \in Sites
      BY <1>0, <2>5 DEF PaneClaims, PaneCommits, PaneCloses, Step, WaveTypes
    <3>2. CASE PaneClaims(x) BY <1>0, <1>5, <3>1, <3>2 DEF PaneClaims, StoreTypes, Marked, Closed
    <3>3. CASE PaneCommits(x) BY <1>5, <3>3 DEF PaneCommits
    <3>4. CASE PaneCloses(x)
      <4>1. x \in log[pane[x].site] BY <3>4 DEF PaneCloses, Step, CloneInv
      <4>2. db'[w][b] = db[w][b] \/ (b = x /\ w = pane[x].site)
        BY <1>0, <3>1, <3>4 DEF PaneCloses, StoreTypes
      <4> QED BY <1>5, <4>1, <4>2
    <3> QED BY <2>5, <3>2, <3>3, <3>4
  <2> QED BY <2>2, <2>3, <2>4, <2>5 DEF Next, Proceed, Panes
<1>6. ASSUME Env, call.at \in {"join", "flush"} PROVE log'[call.w] \subseteq log[call.w] \cup Got' /\ ref' = ref
  <2>1. call.w \in Hosts BY <1>6 DEF IType, CallTypes
  <2>2. CASE ~Panes
    BY <1>0, <1>6, <2>1, <2>2 DEF Verify, LocalCommit, Leave, Return, MergeByHand, vars, StoreTypes
  <2>3. ASSUME NEW b \in Beads, PaneClaims(b) \/ PaneCommits(b) \/ PaneCloses(b)
        PROVE  log'[call.w] \subseteq log[call.w] \cup Got' /\ ref' = ref
    <3>1. CASE PaneClaims(b) \/ PaneCloses(b) BY <3>1 DEF PaneClaims, PaneCloses
    <3>2. CASE PaneCommits(b) /\ call.w = pane[b].site
      <4>1. b \in late' /\ ref' = ref BY <1>6, <3>2 DEF PaneCommits
      <4>2. log'[call.w] = log[call.w] \cup {b} BY <1>0, <2>1, <3>2 DEF PaneCommits, StoreTypes
      <4> QED BY <4>1, <4>2 DEF Got
    <3>3. CASE PaneCommits(b) /\ call.w # pane[b].site
      BY <1>0, <2>1, <3>3 DEF PaneCommits, StoreTypes
    <3> QED BY <2>3, <3>1, <3>2, <3>3
  <2> QED BY <2>2, <2>3 DEF Panes
<1>7. ASSUME call'.at = "join" PROVE log'[call'.w] \subseteq ref'[call'.w] \cup Got'
  <2>1. CASE Fetch
    <3>1. call.at = "fetch" /\ call'.w = call.w /\ call.w \in Hosts BY <1>7, <2>1, CallNext, IdleCall DEF Stays
    <3>2. ref'[call.w] = log[call.w] /\ log' = log
      BY <1>0, <1>7, <2>1, <3>1, IdleCall DEF Fetch, Stops, Goes, StoreTypes, IType, CallTypes, Call
    <3> QED BY <3>1, <3>2
  <2>2. CASE Env
    BY <1>1, <1>2, <1>6, <1>7, <2>2 DEF CodeInv
  <2>3. CASE Mine \/ Flush \/ Export \/ Import \/ Gate \/ Start
    BY <1>7, <2>3, CallNext, IdleCall DEF Drops
  <2> QED BY <2>1, <2>2, <2>3 DEF Next, Proceed
<1>8. ASSUME call'.at = "flush" PROVE log'[call'.w] \subseteq Got'
  <2>1. CASE Fetch
    <3>1. call.at = "fetch" /\ call'.w = call.w /\ call.w \in Hosts BY <1>8, <2>1, CallNext, IdleCall DEF Stays
    <3>2. call.w \notin branch /\ log' = log
      BY <1>8, <2>1, IdleCall DEF Fetch, Stops, Goes, IType, CallTypes, Call
    <3> QED BY <3>1, <3>2 DEF CloneInv
  <2>2. CASE Join
    <3>1. call.at = "join" /\ call'.w = call.w /\ call.w \in Hosts BY <1>8, <2>2, CallNext, IdleCall DEF Stays
    <3>2. log'[Here] = log[Here] \cup ref[call.w] /\ log'[call.w] = log[call.w]
      BY <1>0, <1>8, <2>2, <3>1, IdleCall DEF Join, Goes, Conflicted, Joined, StoreTypes
    <3>3. log[call.w] \subseteq ref[call.w] \cup Got BY <3>1 DEF CodeInv
    <3> QED BY <1>1, <3>1, <3>2, <3>3 DEF Got
  <2>3. CASE Env
    BY <1>1, <1>2, <1>6, <1>8, <2>3 DEF CodeInv
  <2>4. CASE Merge \/ Reports \/ Push \/ InitClone \/ KeepAwake \/ Record \/ Kill \/ Clear \/ Fail
             \/ Sync \/ Release \/ Advance \/ (\E w \in Hosts : Choose(w)) \/ Flush \/ Export \/ Import \/ Gate \/ Start
    BY <1>8, <2>4, CallNext, IdleCall DEF Drops
  <2> QED BY <2>1, <2>2, <2>3, <2>4 DEF Next, Proceed
<1> QED BY <1>4, <1>5, <1>7, <1>8 DEF CodeInv

-----------------------------------------------------------------------------
\* No edit of one is newer than the other's, from one to the next.
LEMMA NoNewerTrans ==
    ASSUME NEW d \in [Beads -> Status], NEW e \in [Beads -> Status], NEW f \in [Beads -> Status],
           NoNewer(d, e), NoNewer(e, f)
    PROVE  NoNewer(d, f)
BY DEF NoNewer, Status, Open, Closed

LEMMA NoNewerSame ==
    ASSUME NEW d \in [Beads -> Status] PROVE NoNewer(d, d) /\ NoNewer(Nothing.db, d)
BY NothingType DEF NoNewer, Status, Open, Closed

\* What the host had when a pull began is here by its last step.
LEMMA PullStep ==
    ASSUME IType, IType', CloneInv, PullInv, [Next]_vars PROVE PullInv'
<1> USE SwarmAssumption DEF SwarmAssumption, Sites, code, beads, record, wave
<1>0. /\ StoreTypes /\ Here \in Sites /\ Hosts \subseteq Sites
      /\ call.snap \in [Beads -> Status] /\ call'.snap \in [Beads -> Status]
      /\ call.had.db \in [Beads -> Status] /\ call'.had.db \in [Beads -> Status]
      /\ \A s \in Sites : db[s] \in [Beads -> Status] /\ db'[s] \in [Beads -> Status]
      /\ (call.at # "idle" => call.w \in Hosts)
  <2>1. call \in Call /\ call' \in Call BY DEF IType, CallTypes
  <2>2. call.had \in Had /\ call'.had \in Had /\ call.snap \in [Beads -> Status] /\ call'.snap \in [Beads -> Status]
    BY <2>1 DEF Call
  <2> QED BY <2>2 DEF Had, IType, CallTypes, StoreTypes
<1>1. CASE Env
  <2>1. PICK w : w = call.w OBVIOUS
  <2>2. CASE w \in Hosts
    <3>1. log[w] \subseteq log'[w] /\ NoNewer(db[w], db'[w]) /\ Reported(w) \subseteq Reported(w)'
      BY <1>0, <1>1, <2>2, EnvStep
    <3>2. log[Here] \subseteq log'[Here] /\ NoNewer(db[Here], db'[Here]) /\ call' = call /\ ref' = ref
      BY <1>0, <1>1, EnvStep
    <3>3. NoNewer(call.had.db, db[w]) => NoNewer(call.had.db, db'[w])
      BY <1>0, <2>2, <3>1, NoNewerTrans
    <3>4. NoNewer(call.had.db, db[Here]) => NoNewer(call.had.db, db'[Here])
      BY <1>0, <3>2, NoNewerTrans
    <3>5. NoNewer(call.had.db, call.snap) => NoNewer(call'.had.db, call'.snap)
      BY <3>2
    <3> QED BY <2>1, <3>1, <3>2, <3>3, <3>4, <3>5 DEF PullInv
  <2>3. CASE w \notin Hosts
    <3>1. call.at = "idle" BY <1>0, <2>1, <2>3
    <3>2. call' = call BY <1>1, EnvStep
    <3> QED BY <3>1, <3>2 DEF PullInv
  <2> QED BY <2>2, <2>3
<1>2. ASSUME call'.at = "fetch", call'.w \in Hosts, call'.had = Has(call'.w), UNCHANGED <<log, db, report>> PROVE PullInv'
  <2>1. PICK w \in Hosts : w = call'.w BY <1>2
  <2>2. Has(w) = [log |-> log[w], db |-> db[w], reports |-> Reported(w)] BY <1>0, HasType
  <2>3. call'.had.log = log[w] /\ call'.had.db = db[w] /\ call'.had.reports = Reported(w) BY <1>2, <2>1, <2>2
  <2>4. NoNewer(db[w], db[w]) BY <1>0, NoNewerSame
  <2>5. NoNewer(call'.had.db, db'[w]) /\ log'[w] = log[w] /\ Reported(w)' = Reported(w) BY <1>2, <2>3, <2>4 DEF Reported
  <2> QED BY <1>2, <2>1, <2>3, <2>5 DEF PullInv
<1>3. CASE Sync \/ Release \/ Advance
  BY <1>2, <1>3, CallNext DEF Sync, Release, Advance
<1>4. ASSUME NEW w \in Hosts, Choose(w) PROVE PullInv'
  <2>1. CASE call'.at = "init" BY <2>1 DEF PullInv
  <2>2. CASE call'.at # "init" BY <1>2, <1>4, <2>2, CallNext DEF Choose
  <2> QED BY <2>1, <2>2
<1>5. CASE InitClone
  BY <1>0, <1>2, <1>5, CallNext DEF InitClone
<1>6. CASE Fetch /\ call' # Idle
  <2>1. call.at = "fetch" /\ Stays /\ call'.at \in {"flush", "join"} BY <1>6, CallNext
  <2>2. PICK w \in Hosts : w = call.w BY <1>0, <2>1
  <2>3. UNCHANGED <<log, db, report>> BY <1>6 DEF Fetch
  <2>4. call'.at = "join" => ref'[w] = log[w]
    BY <1>0, <1>6, <2>2, IdleCall DEF Fetch, Stops, Goes, StoreTypes, IType, CallTypes, Call
  <2>5. call'.at = "flush" => log[w] = {}
    BY <1>0, <1>6, <2>2, IdleCall DEF Fetch, Stops, Goes, StoreTypes, IType, CallTypes, Call, CloneInv
  <2> QED BY <2>1, <2>2, <2>3, <2>4, <2>5 DEF PullInv, Stays, Reported
<1>7. CASE Join /\ call' # Idle
  <2>1. call.at = "join" /\ Stays /\ call'.at = "flush" BY <1>7, CallNext
  <2>2. PICK w \in Hosts : w = call.w BY <1>0, <2>1
  <2>3. UNCHANGED <<db, report>> BY <1>7 DEF Join
  <2>4. log'[Here] = log[Here] \cup ref[w]
    BY <1>0, <1>7, <2>1, <2>2 DEF Join, Goes, Conflicted, Joined, StoreTypes
  <2> QED BY <2>1, <2>2, <2>3, <2>4 DEF PullInv, Stays, Reported
<1>8. CASE Flush /\ call' # Idle
  <2>1. call.at = "flush" BY <1>8, CallNext
  <2>2. PICK w \in Hosts : w = call.w BY <1>0, <2>1
  <2>3. UNCHANGED <<log, db, report>> BY <1>8 DEF Flush
  <2>4. CASE call'.at = "merge" /\ call'.w = call.w /\ call'.had = call.had /\ call'.snap = db[call.w]
    BY <2>1, <2>2, <2>3, <2>4 DEF PullInv, Reported
  <2>5. CASE call'.at = "reports" /\ call.w \notin mirror /\ Stays
    <3>1. db[w] = Nothing.db BY <2>2, <2>5 DEF CloneInv
    <3>2. NoNewer(call.had.db, db[w]) BY <2>1, <2>2 DEF PullInv
    <3>3. NoNewer(call.had.db, db[Here]) BY <1>0, <3>1, <3>2, NoNewerTrans, NoNewerSame
    <3>4. NoNewer(call'.had.db, db'[Here]) BY <2>3, <2>5, <3>3 DEF Stays
    <3> QED BY <2>1, <2>2, <2>3, <2>5, <3>4 DEF PullInv, Stays, Reported
  <2> QED BY <1>8, <2>4, <2>5, CallNext
<1>9. CASE Merge /\ call' # Idle
  <2>1. call.at = "merge" /\ call'.at = "reports" /\ call'.w = call.w /\ call'.had = call.had BY <1>9, CallNext
  <2>2. PICK w \in Hosts : w = call.w BY <1>0, <2>1
  <2>3. UNCHANGED <<log, report>> BY <1>9 DEF Merge
  <2>4. db'[Here] = Newer(db[Here], call.snap) BY <1>0, <1>9 DEF Merge, StoreTypes
  <2>5. NoNewer(call.snap, db'[Here]) BY <1>0, <2>4, NewerType DEF NoNewer
  <2>6. NoNewer(call'.had.db, db'[Here]) BY <1>0, <2>1, <2>5, NoNewerTrans DEF PullInv
  <2> QED BY <2>1, <2>2, <2>3, <2>6 DEF PullInv, Reported
<1>10. CASE Reports \/ Push \/ Export \/ Import \/ Gate \/ Start \/ KeepAwake \/ Record \/ Kill \/ Clear \/ Fail \/ call' = Idle
  <2>1. call'.at \notin {"fetch", "join", "flush", "merge", "reports"}
    BY <1>10, CallNext, IdleCall DEF Drops
  <2> QED BY <2>1 DEF PullInv
<1> QED BY <1>1, <1>3, <1>4, <1>5, <1>6, <1>7, <1>8, <1>9, <1>10 DEF Next, Proceed, Env

\* Collected: the last step of a pull copies the reports.
PullCollects ==
    call.at = "reports" /\ call'.at \in {"kill", "gate", "push"} =>
        /\ call.had.log \subseteq log'[Here]
        /\ \A b \in Beads : call.had.db[b] <= db'[Here][b]
        /\ \A b \in call.had.reports : report'[Here][b] # "none"

LEMMA PullEnds ==
    ASSUME IType, CloneInv, PullInv, [Next]_vars PROVE PullCollects
<1> SUFFICES ASSUME call.at = "reports", call'.at \in {"kill", "gate", "push"}
             PROVE  /\ call.had.log \subseteq log'[Here]
                    /\ \A b \in Beads : call.had.db[b] <= db'[Here][b]
                    /\ \A b \in call.had.reports : report'[Here][b] # "none"
  BY DEF PullCollects
<1> USE SwarmAssumption DEF SwarmAssumption, Sites
<1>0. StoreTypes /\ Here \in Sites /\ call.w \in Hosts /\ call \in Call
  BY CallNext DEF IType
<1>1. Reports
  <2>1. ~Env BY EnvStep
  <2> QED BY <2>1, CallNext, IdleCall DEF Next, Proceed, Drops, Env
<1>2. log' = log /\ db' = db
  BY <1>1 DEF Reports, code, beads
<1>3. \A b \in call.had.reports : b \in Beads /\ report[call.w][b] # "none"
  BY <1>0 DEF PullInv, Reported
<1>4. report'[Here] = Copied(report[Here], report[call.w])
  BY <1>0, <1>1 DEF Reports, StoreTypes
<1>5. \A b \in call.had.reports : report'[Here][b] # "none"
  BY <1>3, <1>4 DEF Copied
<1> QED BY <1>2, <1>5 DEF PullInv, NoNewer

-----------------------------------------------------------------------------
\* What this checkout had when a push began reaches the clone.
LEMMA PushStep ==
    ASSUME IType, IType', CloneInv, PushInv, [Next]_vars PROVE PushInv'
<1> USE SwarmAssumption DEF SwarmAssumption, Sites, code, beads, record, wave
<1>0. /\ StoreTypes /\ Here \in Sites /\ Hosts \subseteq Sites
      /\ call.snap \in [Beads -> Status] /\ call'.snap \in [Beads -> Status]
      /\ call.had.db \in [Beads -> Status] /\ call'.had.db \in [Beads -> Status]
      /\ \A s \in Sites : db[s] \in [Beads -> Status] /\ db'[s] \in [Beads -> Status]
      /\ (call.at # "idle" => call.w \in Hosts)
  <2>1. call \in Call /\ call' \in Call BY DEF IType, CallTypes
  <2>2. call.had \in Had /\ call'.had \in Had /\ call.snap \in [Beads -> Status] /\ call'.snap \in [Beads -> Status]
    BY <2>1 DEF Call
  <2> QED BY <2>2 DEF Had, IType, CallTypes, StoreTypes
<1>1. CASE Env
  <2>1. PICK w : w = call.w OBVIOUS
  <2>2. CASE w \in Hosts
    <3>1. log[w] \subseteq log'[w] BY <1>0, <1>1, <2>2, EnvStep
    <3>2. log[Here] \subseteq log'[Here] /\ NoNewer(db[Here], db'[Here]) /\ call' = call
      BY <1>0, <1>1, EnvStep
    <3>3. NoNewer(call.had.db, db[Here]) => NoNewer(call.had.db, db'[Here])
      BY <1>0, <3>2, NoNewerTrans
    <3>4. NoNewer(call.had.db, call.snap) => NoNewer(call'.had.db, call'.snap)
      BY <3>2
    <3> QED BY <2>1, <3>1, <3>2, <3>3, <3>4 DEF PushInv
  <2>3. CASE w \notin Hosts
    <3>1. call.at = "idle" BY <1>0, <2>1, <2>3
    <3>2. call' = call BY <1>1, EnvStep
    <3> QED BY <3>1, <3>2 DEF PushInv
  <2> QED BY <2>2, <2>3
<1>2. ASSUME call'.at = "push", call'.had.log = log[Here], call'.had.db = db'[Here], log' = log PROVE PushInv'
  <2>1. NoNewer(call'.had.db, db'[Here]) BY <1>0, <1>2, NoNewerSame
  <2> QED BY <1>2, <2>1 DEF PushInv
<1>3. CASE Reports /\ call' # Idle
  <2>1. CASE call'.at = "push" BY <1>2, <1>3, <2>1, CallNext DEF Reports
  <2>2. CASE call'.at # "push" BY <1>3, <2>2, CallNext DEF PushInv
  <2> QED BY <2>1, <2>2
<1>4. CASE Start
  BY <1>2, <1>4, CallNext DEF Start
<1>5. CASE Gate /\ call' # Idle
  BY <1>2, <1>5, CallNext DEF Gate
<1>6. CASE Push /\ call' # Idle
  <2>1. call.at = "push" /\ call'.at = "export" /\ Stays BY <1>6, CallNext
  <2>2. PICK w \in Hosts : w = call.w BY <1>0, <2>1
  <2>3. log'[w] = log[Here] /\ db' = db
    BY <1>0, <1>6, <2>2 DEF Push, Stops, Goes, StoreTypes
  <2> QED BY <2>1, <2>2, <2>3 DEF PushInv, Stays
<1>7. CASE Export /\ call' # Idle
  <2>1. /\ call.at = "export" /\ call'.at = "import" /\ call'.w = call.w /\ call'.had = call.had
        /\ call'.snap = db[Here] \/ call'.blind
    BY <1>7, CallNext
  <2>2. log' = log BY <1>7 DEF Export
  <2>3. CASE call'.blind BY <2>1, <2>2, <2>3 DEF PushInv
  <2>4. CASE call'.snap = db[Here]
    <3>1. NoNewer(call.had.db, db[Here]) BY <2>1 DEF PushInv
    <3>2. NoNewer(call'.had.db, call'.snap) BY <2>1, <2>4, <3>1
    <3> QED BY <2>1, <2>2, <3>2 DEF PushInv
  <2> QED BY <2>1, <2>3, <2>4
<1>8. CASE Fetch \/ Join \/ Flush \/ Merge \/ Import \/ InitClone \/ KeepAwake \/ Record \/ Kill \/ Clear \/ Fail
           \/ Sync \/ Release \/ Advance \/ (\E w \in Hosts : Choose(w)) \/ call' = Idle
  <2>1. call'.at \notin {"push", "export", "import"} BY <1>8, CallNext, IdleCall DEF Drops
  <2> QED BY <2>1 DEF PushInv
<1> QED BY <1>1, <1>3, <1>4, <1>5, <1>6, <1>7, <1>8 DEF Next, Proceed, Env

\* PanesAreTold: the prompts follow the import.
ToldPanes ==
    \A b \in Beads : pane[b].stage = "none" /\ pane'[b].stage = "sent" =>
        /\ call.had.log \subseteq log'[call.w]
        /\ call.blind \/ \A x \in Beads : call.had.db[x] <= db'[call.w][x]

LEMMA PromptsGoOut ==
    ASSUME IType, CloneInv, PushInv, [Next]_vars PROVE ToldPanes
<1> SUFFICES ASSUME NEW b \in Beads, pane[b].stage = "none", pane'[b].stage = "sent"
             PROVE  /\ call.had.log \subseteq log'[call.w]
                    /\ call.blind \/ \A x \in Beads : call.had.db[x] <= db'[call.w][x]
  BY DEF ToldPanes
<1> USE SwarmAssumption DEF SwarmAssumption, Sites, code, beads, record, wave
<1>1. Import
  <2>1. pane' # pane OBVIOUS
  <2>2. ~Panes
    <3> SUFFICES ASSUME NEW x \in Beads, PaneClaims(x) \/ PaneCommits(x) \/ PaneCloses(x) PROVE FALSE
      BY DEF Panes
    <3>1. pane \in [Beads -> [site : Hosts \cup {None}, stage : Stages]] BY DEF IType, WaveTypes
    <3>2. PICK to \in {"dirty", "committed", "closed"} : pane' = [pane EXCEPT ![x].stage = to]
      BY DEF PaneClaims, PaneCommits, PaneCloses, Step
    <3>3. pane'[b] = pane[b] \/ pane'[b].stage = to BY <3>1, <3>2
    <3> QED BY <3>3
  <2> QED BY <2>1, <2>2 DEF Next, Proceed, Sync, Release, Start, Advance, Choose, Fetch, Join, Flush, Merge, Reports, Gate, Push,
             Export, InitClone, KeepAwake, Record, Kill, Clear, Fail, Verify, LocalCommit, Leave, Return, MergeByHand, vars
<1>2. call.at = "import" /\ call.w \in Hosts /\ StoreTypes /\ call \in Call
  BY <1>1, CallNext DEF IType
<1>3. call.snap \in [Beads -> Status] /\ call.had.db \in [Beads -> Status] /\ db[call.w] \in [Beads -> Status]
  <2>1. call.had \in Had BY <1>2 DEF Call
  <2> QED BY <1>2, <2>1 DEF Call, Had, StoreTypes
<1>4. log' = log /\ db'[call.w] = Imported(call.w, call.snap)
  BY <1>1, <1>2 DEF Import, StoreTypes
<1>5. NoNewer(call.snap, Imported(call.w, call.snap)) /\ Imported(call.w, call.snap) \in [Beads -> Status]
  BY <1>3, NewerType, NoNewerSame DEF Imported, NoNewer
<1>6. call.blind \/ NoNewer(call.had.db, Imported(call.w, call.snap))
  BY <1>2, <1>3, <1>5, NoNewerTrans DEF PushInv
<1> QED BY <1>2, <1>4, <1>6 DEF PushInv, NoNewer

-----------------------------------------------------------------------------
\* The inductive invariant of the swarm on another Mac.
IInv == IType /\ HostInv /\ AwakeInv /\ CloneInv /\ CodeInv /\ PullInv /\ PushInv

LEMMA InitIInv == Init => IInv
<1> USE SwarmAssumption DEF SwarmAssumption, Sites
<1> SUFFICES ASSUME Init PROVE IInv
  OBVIOUS
<1>1. CallTypes(call) BY IdleCall DEF Init, CallTypes
<1>2. StoreTypes BY NothingType DEF Init, StoreTypes
<1>3. WaveTypes BY DEF Init, WaveTypes, Asleep, Stages
<1>4. RecordTypes
  <2>1. trouble \in 0..MaxTrouble /\ stray \in Nat
    <3>1. trouble = 0 /\ stray = 0 BY DEF Init
    <3> QED BY <3>1
  <2>3. away \in BOOLEAN BY DEF Init
  <2>2. rec \in [host : Hosts \cup {None}, pid : {"none", "live", "dead"}] BY DEF Init
  <2> QED BY <2>1, <2>2, <2>3 DEF RecordTypes
<1>5. awake \in [Hosts -> Nat] BY DEF Init
<1>6. HostInv BY IdleCall DEF Init, HostInv
<1>7. AwakeInv BY IdleCall DEF Init, AwakeInv, Counted, Recorded
<1>8. CloneInv BY IdleCall DEF Init, CloneInv, Asleep
<1>9. CodeInv BY IdleCall, NothingType DEF Init, CodeInv, Open, Closed
<1>10. PullInv /\ PushInv BY IdleCall DEF Init, PullInv, PushInv
<1> QED BY <1>1, <1>2, <1>3, <1>4, <1>5, <1>6, <1>7, <1>8, <1>9, <1>10 DEF IInv, IType

LEMMA NextIInv == IInv /\ [Next]_vars => IInv'
BY TypesStep, HostStep, AwakeStep, CloneStep, CodeStep, PullStep, PushStep DEF IInv

LEMMA Invariance == Spec => []IInv
BY InitIInv, NextIInv, PTL DEF Spec

\* The types of the state hold in every reachable state; a host's count of
\* caffeinates does not go below none.
THEOREM TypeCorrect == Spec => []TypeOK
<1>1. IInv => TypeOK BY ITypeOK DEF IInv
<1> QED BY <1>1, Invariance, PTL

\* A bead is closed here only with its code, or with a commit that is known to
\* be on its way (swarm-host.ts:616 and 644).
THEOREM ClosedComesWithCode == Spec => []ClosedHasCode
<1>1. IInv => ClosedHasCode BY DEF IInv, CodeInv, ClosedHasCode, Got
<1> QED BY <1>1, Invariance, PTL

\* Choosing a host again does not stack another keep-awake: only what was lost
\* track of runs besides (swarm-host.ts:786).
THEOREM AwakeNotStacked == Spec => []AwakeOnce
<1>1. IInv => AwakeOnce
  <2> SUFFICES ASSUME IInv, NEW w \in Hosts
               PROVE  awake[w] <= stray + (IF Recorded(w) \/ (call.at = "record" /\ call.w = w /\ call.pid) THEN 1 ELSE 0)
    BY DEF AwakeOnce
  <2>1. awake[w] \in Nat /\ stray \in Nat /\ awake[w] <= stray + (IF Counted(w) THEN 1 ELSE 0)
    BY DEF IInv, IType, RecordTypes, AwakeInv
  <2>2. Counted(w) => Recorded(w) \/ (call.at = "record" /\ call.w = w /\ call.pid)
    BY DEF Counted
  <2> QED BY <2>1, <2>2
<1> QED BY <1>1, Invariance, PTL

\* No pull, push or retry takes back a commit, a bead's edit or a report of
\* either side (swarm-host.ts:605, 665).
THEOREM NothingTakenBack == Spec => NothingUndone
<1>1. IInv /\ [Next]_vars => [TakesNothing]_vars BY UndoneStep DEF IInv
<1>2. NothingUndone <=> [][TakesNothing]_vars BY PTL DEF NothingUndone, TakesNothing
<1> QED BY <1>1, <1>2, Invariance, PTL DEF Spec

\* A pull that goes through has brought the commits, the edits and the reports
\* the host had when it began (pullFromSwarmHost).
THEOREM PullBringsAll == Spec => Collected
<1>1. IInv /\ [Next]_vars => [PullCollects]_vars BY PullEnds DEF IInv
<1>2. Collected <=> [][PullCollects]_vars BY PTL DEF Collected, PullCollects
<1> QED BY <1>1, <1>2, Invariance, PTL DEF Spec

\* Prompts go out only to a clone that has the code and the marks this checkout
\* had, unless the local export failed unseen (approve.ts:803, swarm-host.ts:698).
THEOREM PromptsFollowPush == Spec => PanesAreTold
<1>1. IInv /\ [Next]_vars => [ToldPanes]_vars BY PromptsGoOut DEF IInv
<1>2. PanesAreTold <=> [][ToldPanes]_vars BY PTL DEF PanesAreTold, ToldPanes
<1> QED BY <1>1, <1>2, Invariance, PTL DEF Spec
=============================================================================
