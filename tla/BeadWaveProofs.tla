--------------------------- MODULE BeadWaveProofs ---------------------------
(***************************************************************************)
(* Theorems about BeadWave, for every program of beads, any number of      *)
(* overlapping calls and any bound on trouble.                             *)
(***************************************************************************)
EXTENDS BeadWave, TLAPS

Results == {"none", "success", "blocked"}

\* A review is of a bead, and it looks at the parent of a bead that has one.
Shaped ==
    \A c \in Calls : call[c].op \in {"looks-good", "skip"} =>
        /\ call[c].bead \in Beads
        /\ call[c].at \in {"parent", "close"} => Parent[call[c].bead] \in Beads

IType == TypeOK /\ Shaped

-----------------------------------------------------------------------------
\* Checkpoints keep their type under the two kinds of update.
LEMMA StateUpdate ==
    ASSUME NEW s \in State, NEW b, NEW r \in Results, NEW p \in Phases
    PROVE  /\ [s EXCEPT !.results[b] = r] \in State
           /\ [s EXCEPT !.phase = p] \in State
<1>1. s.phase \in Phases /\ s.results \in [Beads -> Results]
  BY DEF State, Results
<1>2. [s.results EXCEPT ![b] = r] \in [Beads -> Results]
  BY <1>1
<1>3. [s EXCEPT !.results[b] = r] = [phase |-> s.phase, results |-> [s.results EXCEPT ![b] = r]]
  BY DEF State
<1>4. [s EXCEPT !.phase = p] = [phase |-> p, results |-> s.results]
  BY DEF State
<1> QED BY <1>1, <1>2, <1>3, <1>4 DEF State, Results

\* A call that is anywhere is of a tool and has its type.
LEMMA Begun ==
    ASSUME TypeOK, NEW c \in Calls, call[c].at \in Places
    PROVE  call[c] \in Call /\ My(c) \in State /\ call[c].todo \subseteq Beads /\ call[c].done \subseteq Beads
<1>1. call[c] \in Call
  BY DEF TypeOK, Idle, Places
<1> QED BY <1>1 DEF Call, My

\* The end of a call keeps the types and the shapes of the others.
LEMMA Finished ==
    ASSUME IType, NEW c \in Calls, Finish(c)
    PROVE  call' \in [Calls -> Call \cup {Idle}] /\ Shaped'
BY DEF IType, TypeOK, Shaped, Finish, Idle

\* So does a call that moves on with its tool and bead.
LEMMA Moved ==
    ASSUME IType, NEW c \in Calls, call[c].at \in Places,
           NEW x \in Call, call' = [call EXCEPT ![c] = x],
           x.op = call[c].op, x.op \in {"looks-good", "skip"} => x.bead = call[c].bead,
           x.at = "parent" /\ x.op \in {"looks-good", "skip"} => Parent[x.bead] \in Beads,
           x.at = "close" => call[c].at = "parent" \/ x.op \notin {"looks-good", "skip"}
    PROVE  call' \in [Calls -> Call \cup {Idle}] /\ Shaped'
BY DEF IType, TypeOK, Shaped

\* What br is told keeps the types of the beads.
LEMMA Updated ==
    ASSUME TypeOK, NEW b \in Beads, NEW s \in Statuses, NEW ok \in BOOLEAN, BrUpdate(b, s, ok)
    PROVE  bead' \in [Beads -> Statuses] /\ closed' \subseteq Beads /\ trouble' \in 0..MaxTrouble
BY WaveAssumption DEF WaveAssumption, TypeOK, BrUpdate, Trouble

LEMMA ReadOnly ==
    ASSUME TypeOK, NEW ok \in BOOLEAN, BrReads(ok)
    PROVE  bead' \in [Beads -> Statuses] /\ closed' \subseteq Beads /\ trouble' \in 0..MaxTrouble
BY WaveAssumption DEF WaveAssumption, TypeOK, BrReads, Trouble

LEMMA Sent ==
    ASSUME TypeOK, NEW bs \in SUBSET Beads, Launch(bs)
    PROVE  agents' \in [Beads -> 0..2] /\ launched' \subseteq Beads
BY DEF TypeOK, Launch

-----------------------------------------------------------------------------
\* flywheel_approve_beads action="start" keeps the types.
LEMMA StartTypes ==
    ASSUME IType, NEW c \in Calls,
           StartListed(c) \/ StartReady(c) \/ StartLock(c) \/ StartMark(c) \/ StartRollback(c)
             \/ StartRolledBack(c) \/ StartLaunch(c)
    PROVE  IType'
<1> USE DEF At, My
<1>1. CASE StartListed(c)
  <2>1. PICK ok \in BOOLEAN :
            /\ BrReads(ok)
            /\ \/ ~ok /\ Finish(c) /\ UNCHANGED st
               \/ ok /\ Active = {} /\ Finish(c) /\ st' = My(c)
               \/ /\ ok /\ Active # {}
                  /\ st' = [My(c) EXCEPT !.phase = "awaiting_bead_approval"]
                  /\ call' = [call EXCEPT ![c].at = "ready", ![c].s = st']
    BY <1>1 DEF StartListed
  <2>2. call[c].at \in Places /\ call[c].op = "start" BY <1>1 DEF StartListed, Places
  <2>3. call[c] \in Call /\ My(c) \in State BY <2>2, Begun DEF IType
  <2>4. ASSUME Finish(c), UNCHANGED st \/ st' = My(c) PROVE IType'
    <3>1. st' \in State BY <2>3, <2>4 DEF IType, TypeOK
    <3> QED BY <2>1, <2>4, <3>1, <1>1, Finished, ReadOnly DEF IType, TypeOK, StartListed
  <2>5. ASSUME st' = [My(c) EXCEPT !.phase = "awaiting_bead_approval"],
               call' = [call EXCEPT ![c].at = "ready", ![c].s = st']
        PROVE IType'
    <3>1. st' \in State BY <2>3, <2>5, StateUpdate DEF Phases, Results
    <3> DEFINE x == [call[c] EXCEPT !.at = "ready", !.s = st']
    <3>2. x \in Call /\ x.op = "start" /\ x.at = "ready" BY <2>2, <2>3, <3>1 DEF Call, Places
    <3>3. call' = [call EXCEPT ![c] = x] BY <2>5
    <3> HIDE DEF x
    <3>4. call' \in [Calls -> Call \cup {Idle}] /\ Shaped' BY <2>2, <3>2, <3>3, Moved
    <3> QED BY <1>1, <2>1, <3>1, <3>4, ReadOnly DEF IType, TypeOK, StartListed
  <2> QED BY <2>1, <2>4, <2>5
<1>2. CASE StartReady(c)
  <2>1. PICK ok \in BOOLEAN :
            /\ BrReads(ok)
            /\ \/ call' = [call EXCEPT ![c].at = "lock", ![c].todo = Ready]
               \/ Finish(c)
    BY <1>2 DEF StartReady
  <2>2. call[c].at \in Places /\ call[c].op = "start" BY <1>2 DEF StartReady, Places
  <2>3. call[c] \in Call BY <2>2, Begun DEF IType
  <2>4. call' \in [Calls -> Call \cup {Idle}] /\ Shaped'
    <3>1. CASE Finish(c) BY <3>1, Finished
    <3>2. ASSUME call' = [call EXCEPT ![c].at = "lock", ![c].todo = Ready]
          PROVE call' \in [Calls -> Call \cup {Idle}] /\ Shaped'
      <4> DEFINE x == [call[c] EXCEPT !.at = "lock", !.todo = Ready]
      <4>1. x \in Call /\ x.op = "start" /\ x.at = "lock" BY <2>2, <2>3 DEF Call, Places, Ready
      <4>2. call' = [call EXCEPT ![c] = x] BY <3>2
      <4> HIDE DEF x
      <4> QED BY <2>2, <4>1, <4>2, Moved
    <3> QED BY <2>1, <3>1, <3>2
  <2> QED BY <1>2, <2>1, <2>4, ReadOnly DEF IType, TypeOK, StartReady
<1>3. CASE StartLock(c)
  <2>1. call[c].at \in Places /\ call[c].op = "start" BY <1>3 DEF StartLock, Places
  <2>2. call[c] \in Call BY <2>1, Begun DEF IType
  <2>3. call' \in [Calls -> Call \cup {Idle}] /\ Shaped'
    <3>1. CASE Finish(c) BY <3>1, Finished
    <3>2. CASE Goto(c, "mark")
      <4> DEFINE x == [call[c] EXCEPT !.at = "mark"]
      <4>1. x \in Call /\ x.op = "start" /\ x.at = "mark" BY <2>1, <2>2 DEF Call, Places
      <4>2. call' = [call EXCEPT ![c] = x] BY <3>2 DEF Goto
      <4> HIDE DEF x
      <4> QED BY <2>1, <4>1, <4>2, Moved
    <3> QED BY <1>3, <3>1, <3>2 DEF StartLock
  <2> QED BY <1>3, <2>3 DEF IType, TypeOK, StartLock, NoBr
<1>4. CASE StartMark(c)
  <2>1. PICK b \in call[c].todo, ok \in BOOLEAN :
            /\ BrUpdate(b, "in_progress", ok)
            /\ call' = IF ok THEN [call EXCEPT ![c].todo = @ \ {b}, ![c].done = @ \cup {b}]
                             ELSE [call EXCEPT ![c].at = "rollback"]
    BY <1>4 DEF StartMark
  <2>2. call[c].at \in Places /\ call[c].at = "mark" /\ call[c].op = "start" BY <1>4 DEF StartMark, Places
  <2>3. call[c] \in Call /\ b \in Beads BY <2>1, <2>2, Begun DEF IType
  <2> DEFINE x == IF ok THEN [call[c] EXCEPT !.todo = @ \ {b}, !.done = @ \cup {b}]
                        ELSE [call[c] EXCEPT !.at = "rollback"]
  <2>4. x \in Call /\ x.op = "start" /\ x.at \in {"mark", "rollback"} BY <2>2, <2>3 DEF Call, Places
  <2>5. call' = [call EXCEPT ![c] = x] BY <2>1
  <2> HIDE DEF x
  <2>6. call' \in [Calls -> Call \cup {Idle}] /\ Shaped' BY <2>2, <2>4, <2>5, Moved
  <2>7. bead' \in [Beads -> Statuses] /\ closed' \subseteq Beads /\ trouble' \in 0..MaxTrouble
    BY <2>1, <2>3, Updated DEF IType, Statuses
  <2> QED BY <1>4, <2>6, <2>7 DEF IType, TypeOK, StartMark
<1>5. CASE StartRollback(c)
  <2>1. PICK b \in call[c].done, ok \in BOOLEAN :
            BrUpdate(b, "open", ok) /\ call' = [call EXCEPT ![c].done = @ \ {b}]
    BY <1>5 DEF StartRollback
  <2>2. call[c].at \in Places /\ call[c].at = "rollback" /\ call[c].op = "start"
    BY <1>5 DEF StartRollback, Places
  <2>3. call[c] \in Call /\ b \in Beads BY <2>1, <2>2, Begun DEF IType
  <2> DEFINE x == [call[c] EXCEPT !.done = @ \ {b}]
  <2>4. x \in Call /\ x.op = "start" /\ x.at = "rollback" BY <2>2, <2>3 DEF Call
  <2>5. call' = [call EXCEPT ![c] = x] BY <2>1
  <2> HIDE DEF x
  <2>6. call' \in [Calls -> Call \cup {Idle}] /\ Shaped' BY <2>2, <2>4, <2>5, Moved
  <2>7. bead' \in [Beads -> Statuses] /\ closed' \subseteq Beads /\ trouble' \in 0..MaxTrouble
    BY <2>1, <2>3, Updated DEF IType, Statuses
  <2> QED BY <1>5, <2>6, <2>7 DEF IType, TypeOK, StartRollback
<1>6. CASE StartRolledBack(c)
  BY <1>6, Finished DEF IType, TypeOK, StartRolledBack, NoBr
<1>7. CASE StartLaunch(c)
  <2>1. call[c].at \in Places BY <1>7 DEF StartLaunch, Places
  <2>2. call[c].done \subseteq Beads BY <2>1, Begun DEF IType
  <2>3. st' \in State BY <1>7 DEF StartLaunch, State, Phases
  <2> QED BY <1>7, <2>2, <2>3, Finished, Sent DEF IType, TypeOK, StartLaunch, NoBr
<1> QED BY <1>1, <1>2, <1>3, <1>4, <1>5, <1>6, <1>7

-----------------------------------------------------------------------------
\* A call of a tool at its place: it has its type, and a review has a bead.
LEMMA Reviewing ==
    ASSUME IType, NEW c \in Calls, call[c].op \in {"looks-good", "skip"}, call[c].at \in Places
    PROVE  /\ call[c] \in Call /\ My(c) \in State /\ call[c].bead \in Beads
           /\ call[c].at \in {"parent", "close"} => Parent[call[c].bead] \in Beads
BY Begun DEF IType, Shaped

\* A review that moves to a place with another copy of the checkpoint.
LEMMA ReviewMoves ==
    ASSUME IType, NEW c \in Calls, call[c] \in Call,
           call[c].op \in {"looks-good", "skip"},
           NEW at \in Places, NEW s \in State,
           call' = [call EXCEPT ![c].at = at, ![c].s = s] \/ Goto(c, at) \/ Finish(c),
           at = "parent" => Parent[call[c].bead] \in Beads,
           at = "close" => call[c].at = "parent"
    PROVE  call' \in [Calls -> Call \cup {Idle}] /\ Shaped'
<1>1. call[c].at \in Places BY DEF Call
<1>2. CASE Finish(c) BY <1>2, Finished
<1>3. CASE call' = [call EXCEPT ![c].at = at, ![c].s = s]
  <2> DEFINE x == [call[c] EXCEPT !.at = at, !.s = s]
  <2>1. x \in Call /\ x.op = call[c].op /\ x.at = at /\ x.bead = call[c].bead BY DEF Call
  <2>2. call' = [call EXCEPT ![c] = x] BY <1>3
  <2> HIDE DEF x
  <2> QED BY <1>1, <2>1, <2>2, Moved
<1>4. CASE Goto(c, at)
  <2> DEFINE x == [call[c] EXCEPT !.at = at]
  <2>1. x \in Call /\ x.op = call[c].op /\ x.at = at /\ x.bead = call[c].bead BY DEF Call
  <2>2. call' = [call EXCEPT ![c] = x] BY <1>4 DEF Goto
  <2> HIDE DEF x
  <2> QED BY <1>1, <2>1, <2>2, Moved
<1> QED BY <1>2, <1>3, <1>4

\* flywheel_review keeps the types, up to the beads that come next.
LEMMA ReviewTypes ==
    ASSUME IType, NEW c \in Calls,
           ReviewClose(c) \/ ReviewSiblings(c) \/ ReviewParent(c) \/ ReviewSkip(c) \/ EnterGates(c)
    PROVE  IType'
<1> USE DEF At
<1>0. /\ call[c].op \in {"looks-good", "skip"} /\ call[c].at \in Places
  BY DEF ReviewClose, ReviewSiblings, ReviewParent, ReviewSkip, EnterGates, Places
<1>00. /\ call[c] \in Call /\ My(c) \in State /\ call[c].bead \in Beads
       /\ call[c].at \in {"parent", "close"} => Parent[call[c].bead] \in Beads
  BY <1>0, Reviewing
<1>1. CASE ReviewClose(c)
  <2> DEFINE b == call[c].bead
             s == [My(c) EXCEPT !.results[b] = "success"]
  <2>1. s \in State BY <1>00, StateUpdate DEF Results, Phases
  <2>2. st' \in State BY <1>1, <2>1 DEF ReviewClose, IType, TypeOK
  <2>3. call' \in [Calls -> Call \cup {Idle}] /\ Shaped'
    <3>1. Parent[b] # NoBead => Parent[b] \in Beads BY <1>00, WaveAssumption DEF WaveAssumption
    <3>2. call' = [call EXCEPT ![c].at = IF Parent[b] = NoBead THEN "ready" ELSE "parent", ![c].s = s]
      BY <1>1 DEF ReviewClose
    <3> HIDE DEF b, s
    <3>3. CASE Parent[b] = NoBead
      <4>1. call' = [call EXCEPT ![c].at = "ready", ![c].s = s] BY <3>2, <3>3
      <4> QED BY <1>0, <1>00, <2>1, <4>1, ReviewMoves DEF Places
    <3>4. CASE Parent[b] # NoBead
      <4>1. call' = [call EXCEPT ![c].at = "parent", ![c].s = s] BY <3>2, <3>4
      <4>2. Parent[call[c].bead] \in Beads BY <3>1, <3>4 DEF b
      <4> QED BY <1>0, <1>00, <2>1, <4>1, <4>2, ReviewMoves DEF Places
    <3> QED BY <3>3, <3>4
  <2>4. bead' \in [Beads -> Statuses] /\ closed' \subseteq Beads /\ trouble' \in 0..MaxTrouble
    BY <1>1, <1>00, Updated DEF ReviewClose, IType, Statuses
  <2> QED BY <1>1, <2>2, <2>3, <2>4 DEF ReviewClose, IType, TypeOK
<1>2. CASE ReviewSiblings(c)
  <2>1. /\ \E ok \in BOOLEAN : BrReads(ok)
        /\ Goto(c, "close") \/ Goto(c, "ready")
        /\ st' = My(c) \/ st' = st
    BY <1>2 DEF ReviewSiblings
  <2>2. call[c].at = "parent" BY <1>2 DEF ReviewSiblings
  <2>3. call' \in [Calls -> Call \cup {Idle}] /\ Shaped'
    BY <1>0, <1>00, <2>1, <2>2, ReviewMoves DEF Places
  <2>4. st' \in State BY <1>00, <2>1 DEF IType, TypeOK
  <2> QED BY <1>2, <2>1, <2>3, <2>4, ReadOnly DEF ReviewSiblings, IType, TypeOK
<1>3. CASE ReviewParent(c)
  <2>1. Parent[call[c].bead] \in Beads BY <1>3, <1>00 DEF ReviewParent
  <2>2. st' = [My(c) EXCEPT !.results[Parent[call[c].bead]] = "success"] BY <1>3 DEF ReviewParent
  <2>3. st' \in State BY <1>00, <2>2, StateUpdate DEF Results, Phases
  <2>4. call' = [call EXCEPT ![c].at = "ready", ![c].s = st'] BY <1>3 DEF ReviewParent
  <2>5. call' \in [Calls -> Call \cup {Idle}] /\ Shaped'
    BY <1>0, <1>00, <2>3, <2>4, ReviewMoves DEF Places
  <2>6. bead' \in [Beads -> Statuses] /\ closed' \subseteq Beads /\ trouble' \in 0..MaxTrouble
    BY <1>3, <2>1, Updated DEF ReviewParent, IType, Statuses
  <2> QED BY <1>3, <2>3, <2>5, <2>6 DEF ReviewParent, IType, TypeOK
<1>4. CASE ReviewSkip(c)
  <2>1. st' = [My(c) EXCEPT !.results[call[c].bead] = "blocked"] BY <1>4 DEF ReviewSkip
  <2>2. st' \in State BY <1>00, <2>1, StateUpdate DEF Results, Phases
  <2>3. call' = [call EXCEPT ![c].at = "ready", ![c].s = st'] BY <1>4 DEF ReviewSkip
  <2>4. call' \in [Calls -> Call \cup {Idle}] /\ Shaped'
    BY <1>0, <1>00, <2>2, <2>3, ReviewMoves DEF Places
  <2>5. bead' \in [Beads -> Statuses] /\ closed' \subseteq Beads /\ trouble' \in 0..MaxTrouble
    BY <1>4, <1>00, Updated DEF ReviewSkip, IType, Statuses
  <2> QED BY <1>4, <2>2, <2>4, <2>5 DEF ReviewSkip, IType, TypeOK
<1>5. CASE EnterGates(c)
  <2>1. st' = [My(c) EXCEPT !.phase = "iterating"] BY <1>5 DEF EnterGates
  <2>2. st' \in State BY <1>00, <2>1, StateUpdate DEF Results, Phases
  <2> QED BY <1>5, <2>2, Finished, ReadOnly DEF EnterGates, IType, TypeOK
<1> QED BY <1>1, <1>2, <1>3, <1>4, <1>5

\* The lookup of a review, and the launch of what comes next, keep the types.
LEMMA NextTypes ==
    ASSUME IType, NEW c \in Calls,
           ReviewShow(c) \/ ReviewNext(c) \/ ReviewMark(c) \/ ReviewLaunch(c)
    PROVE  IType'
<1> USE DEF At
<1>0. call[c].at \in Places BY DEF ReviewShow, ReviewNext, ReviewMark, ReviewLaunch, Places
<1>00. /\ call[c] \in Call /\ My(c) \in State
       /\ call[c].todo \subseteq Beads /\ call[c].done \subseteq Beads
  BY <1>0, Begun DEF IType
<1>1. CASE ReviewShow(c)
  <2> DEFINE b == call[c].bead
             s == IF My(c).results[b] = "none" THEN [My(c) EXCEPT !.results[b] = "success"] ELSE My(c)
  <2>1. s \in State BY <1>00, StateUpdate DEF Results, Phases
  <2>2. PICK ok \in BOOLEAN :
            /\ BrReads(ok)
            /\ CASE ~ok \/ (bead[b] = "closed" /\ call[c].op = "skip")
                      \/ (bead[b] # "closed" /\ My(c).results[b] = "success") ->
                      Finish(c) /\ UNCHANGED st
                 [] ok /\ bead[b] = "closed" /\ call[c].op = "looks-good" ->
                      /\ call' = [call EXCEPT ![c].at = "ready", ![c].s = s]
                      /\ st' = IF s = My(c) THEN st ELSE s
                 [] OTHER -> Goto(c, "update") /\ UNCHANGED st
    BY <1>1 DEF ReviewShow
  <2>22. /\ call[c].at = "show" /\ UNCHANGED <<lock, agents, launched>> BY <1>1 DEF ReviewShow
  <2> HIDE DEF s, b
  <2>3. \/ Finish(c) /\ UNCHANGED st
        \/ /\ call[c].op = "looks-good" /\ st' \in {st, s}
           /\ call' = [call EXCEPT ![c].at = "ready", ![c].s = s]
        \/ Goto(c, "update") /\ UNCHANGED st
    BY <2>2
  <2>4. st' \in State BY <2>1, <2>3 DEF IType, TypeOK
  <2>5. call' \in [Calls -> Call \cup {Idle}] /\ Shaped'
    <3>1. CASE Finish(c) BY <3>1, Finished
    <3>2. ASSUME call[c].op = "looks-good", call' = [call EXCEPT ![c].at = "ready", ![c].s = s]
          PROVE  call' \in [Calls -> Call \cup {Idle}] /\ Shaped'
      BY <1>00, <2>1, <3>2, ReviewMoves DEF Places
    <3>3. CASE Goto(c, "update")
      <4> DEFINE x == [call[c] EXCEPT !.at = "update"]
      <4>1. x \in Call /\ x.op = call[c].op /\ x.at = "update" /\ x.bead = call[c].bead
        BY <1>00 DEF Call, Places
      <4>2. call' = [call EXCEPT ![c] = x] BY <3>3 DEF Goto
      <4> HIDE DEF x
      <4> QED BY <1>0, <4>1, <4>2, Moved
    <3> QED BY <2>3, <3>1, <3>2, <3>3
  <2> QED BY <2>2, <2>22, <2>4, <2>5, ReadOnly DEF IType, TypeOK
<1>2. CASE ReviewNext(c)
  <2>1. PICK ok \in BOOLEAN :
            /\ BrReads(ok)
            /\ \/ call' = [call EXCEPT ![c].at = "launch", ![c].todo = NextBeads(My(c))]
               \/ Finish(c)
    BY <1>2 DEF ReviewNext
  <2> DEFINE x == [call[c] EXCEPT !.at = "launch", !.todo = NextBeads(My(c))]
  <2>2. x \in Call /\ x.op = call[c].op /\ x.at = "launch" /\ x.bead = call[c].bead
    BY <1>00 DEF Call, Places, NextBeads, Ready
  <2>3. call' = [call EXCEPT ![c] = x] \/ Finish(c) BY <2>1
  <2> HIDE DEF x
  <2>4. call' \in [Calls -> Call \cup {Idle}] /\ Shaped' BY <1>0, <2>2, <2>3, Moved, Finished
  <2> QED BY <1>2, <2>1, <2>4, ReadOnly DEF ReviewNext, IType, TypeOK
<1>3. CASE ReviewMark(c)
  <2>1. PICK b \in call[c].todo, ok \in BOOLEAN :
            /\ BrUpdate(b, "in_progress", ok)
            /\ call' = [call EXCEPT ![c].todo = @ \ {b}, ![c].done = @ \cup {b}]
    BY <1>3 DEF ReviewMark
  <2>2. call[c].at = "launch" /\ b \in Beads BY <1>3, <1>00, <2>1 DEF ReviewMark
  <2> DEFINE x == [call[c] EXCEPT !.todo = @ \ {b}, !.done = @ \cup {b}]
  <2>3. x \in Call /\ x.op = call[c].op /\ x.at = "launch" /\ x.bead = call[c].bead
    BY <1>00, <2>2 DEF Call
  <2>4. call' = [call EXCEPT ![c] = x] BY <2>1
  <2> HIDE DEF x
  <2>5. call' \in [Calls -> Call \cup {Idle}] /\ Shaped' BY <1>0, <2>3, <2>4, Moved
  <2>6. bead' \in [Beads -> Statuses] /\ closed' \subseteq Beads /\ trouble' \in 0..MaxTrouble
    BY <2>1, <2>2, Updated DEF IType, Statuses
  <2> QED BY <1>3, <2>5, <2>6 DEF ReviewMark, IType, TypeOK
<1>4. CASE ReviewLaunch(c)
  <2>1. st' = [My(c) EXCEPT !.phase = "implementing"] BY <1>4 DEF ReviewLaunch
  <2>2. st' \in State BY <1>00, <2>1, StateUpdate DEF Results, Phases
  <2> QED BY <1>00, <1>4, <2>2, Finished, Sent DEF ReviewLaunch, IType, TypeOK, NoBr
<1> QED BY <1>1, <1>2, <1>3, <1>4

-----------------------------------------------------------------------------
\* flywheel_advance_wave keeps the types.
LEMMA AdvanceTypes ==
    ASSUME IType, NEW c \in Calls,
           AdvanceShow(c) \/ AdvanceClose(c) \/ AdvanceVerified(c) \/ AdvanceDispatch(c)
    PROVE  IType'
<1> USE DEF At
<1>0. call[c].at \in Places /\ call[c].op = "advance"
  BY DEF AdvanceShow, AdvanceClose, AdvanceVerified, AdvanceDispatch, Places
<1>00. /\ call[c] \in Call /\ My(c) \in State
       /\ call[c].todo \subseteq Beads /\ call[c].done \subseteq Beads
  BY <1>0, Begun DEF IType
<1>1. CASE AdvanceShow(c)
  <2>1. PICK read \in SUBSET call[c].todo :
            /\ BrReads(read = call[c].todo)
            /\ call' = [call EXCEPT ![c].at = "close", ![c].todo = {b \in read : bead[b] # "closed"}]
    BY <1>1 DEF AdvanceShow
  <2> DEFINE x == [call[c] EXCEPT !.at = "close", !.todo = {b \in read : bead[b] # "closed"}]
  <2>2. x \in Call /\ x.op = "advance" BY <1>0, <1>00, <2>1 DEF Call, Places
  <2>3. call' = [call EXCEPT ![c] = x] BY <2>1
  <2> HIDE DEF x
  <2>4. call' \in [Calls -> Call \cup {Idle}] /\ Shaped' BY <1>0, <2>2, <2>3, Moved
  <2>5. (read = call[c].todo) \in BOOLEAN OBVIOUS
  <2> QED BY <1>1, <2>1, <2>4, <2>5, ReadOnly DEF AdvanceShow, IType, TypeOK
<1>2. CASE AdvanceClose(c)
  <2>1. PICK b \in call[c].todo :
         \/ /\ BrUpdate(b, "closed", TRUE)
            /\ call' = [call EXCEPT ![c].todo = @ \ {b}, ![c].done = @ \cup {b},
                                    ![c].s = [@ EXCEPT !.results[b] = "success"]]
         \/ /\ BrUpdate(b, "closed", FALSE) \/ NoBr
            /\ call' = [call EXCEPT ![c].todo = @ \ {b}, ![c].bead = b]
    BY <1>2 DEF AdvanceClose
  <2>2. b \in Beads BY <1>00, <2>1
  <2> DEFINE s == [My(c) EXCEPT !.results[b] = "success"]
             x == [call[c] EXCEPT !.todo = @ \ {b}, !.done = @ \cup {b}, !.s = s]
             y == [call[c] EXCEPT !.todo = @ \ {b}, !.bead = b]
  <2>3. s \in State BY <1>00, <2>2, StateUpdate DEF Results, Phases
  <2> HIDE DEF s
  <2>4. x \in Call /\ x.op = "advance" BY <1>0, <1>00, <2>2, <2>3 DEF Call
  <2>5. y \in Call /\ y.op = "advance" BY <1>0, <1>00, <2>2 DEF Call
  <2>6. call' = [call EXCEPT ![c] = x] \/ call' = [call EXCEPT ![c] = y]
    BY <2>1 DEF s, My
  <2> HIDE DEF x, y
  <2>7. call' \in [Calls -> Call \cup {Idle}] /\ Shaped' BY <1>0, <2>4, <2>5, <2>6, Moved
  <2>8. bead' \in [Beads -> Statuses] /\ closed' \subseteq Beads /\ trouble' \in 0..MaxTrouble
    BY <2>1, <2>2, Updated DEF IType, TypeOK, Statuses, NoBr
  <2> QED BY <1>2, <2>7, <2>8 DEF AdvanceClose, IType, TypeOK
<1>3. CASE AdvanceVerified(c)
  <2>1. Finish(c) \/ Goto(c, "ready") BY <1>3 DEF AdvanceVerified
  <2> DEFINE x == [call[c] EXCEPT !.at = "ready"]
  <2>2. x \in Call /\ x.op = "advance" BY <1>0, <1>00 DEF Call, Places
  <2>3. Finish(c) \/ call' = [call EXCEPT ![c] = x] BY <2>1 DEF Goto
  <2>33. x.at = "ready" BY <1>00 DEF Call
  <2> HIDE DEF x
  <2>4. call' \in [Calls -> Call \cup {Idle}] /\ Shaped' BY <1>0, <2>2, <2>3, <2>33, Moved, Finished
  <2>5. st' \in State BY <1>3, <1>00 DEF AdvanceVerified, IType, TypeOK
  <2> QED BY <1>3, <2>4, <2>5 DEF AdvanceVerified, IType, TypeOK, NoBr
<1>4. CASE AdvanceDispatch(c)
  <2>1. \E wave \in SUBSET Beads : Launch(wave) BY <1>4 DEF AdvanceDispatch, Ready
  <2> QED BY <1>4, <2>1, Finished, Sent DEF AdvanceDispatch, IType, TypeOK, NoBr
<1> QED BY <1>1, <1>2, <1>3, <1>4

-----------------------------------------------------------------------------
\* The calls of the coordinator and the implementers keep the types.
LEMMA BeginTypes ==
    ASSUME IType, NEW c \in Calls, NEW op, NEW b \in Beads \cup {NoBead},
           NEW at \in {"list", "show", "verify"}, NEW todo \in SUBSET Beads,
           op \in {"looks-good", "skip"} => b \in Beads, Begin(c, op, b, at, todo)
    PROVE  IType'
<1> DEFINE x == [op |-> op, at |-> at, bead |-> b, s |-> st, todo |-> todo, done |-> {}]
<1>1. x \in Call BY DEF Begin, Call, Places, IType, TypeOK
<1>2. x.op = op /\ x.bead = b /\ x.at = at OBVIOUS
<1>3. call' = [call EXCEPT ![c] = x] BY DEF Begin
<1> HIDE DEF x
<1>4. call' \in [Calls -> Call \cup {Idle}] /\ Shaped'
  BY <1>1, <1>2, <1>3 DEF IType, TypeOK, Shaped
<1>5. trouble' \in 0..MaxTrouble
  BY WaveAssumption DEF Begin, Trouble, IType, TypeOK, WaveAssumption
<1> QED BY <1>4, <1>5 DEF Begin, IType, TypeOK

LEMMA ImplementTypes ==
    ASSUME IType, NEW b \in Beads, Implement(b)
    PROVE  IType'
<1>1. CASE Claim(b)
  BY <1>1 DEF Claim, IType, TypeOK, Shaped, Statuses
<1>2. CASE Done(b)
  BY <1>2 DEF Done, IType, TypeOK, Shaped, Statuses
<1> QED BY <1>1, <1>2 DEF Implement

\* Every step keeps the types, and the shape of the reviews.
LEMMA StepTypes == IType /\ [Next]_vars => IType'
<1> SUFFICES ASSUME IType, [Next]_vars PROVE IType' OBVIOUS
<1>1. CASE CallStart
  <2>1. PICK c \in Calls : Begin(c, "start", NoBead, "list", {}) BY <1>1 DEF CallStart
  <2> QED BY <2>1, BeginTypes
<1>2. CASE CallAdvance
  <2>1. PICK c \in Calls, wave \in SUBSET Beads : Begin(c, "advance", NoBead, "verify", wave)
    BY <1>2 DEF CallAdvance
  <2> QED BY <2>1, BeginTypes
<1>3. ASSUME NEW b \in Beads, Review(b) \/ Skip(b) PROVE IType'
  <2>1. PICK c \in Calls, op \in {"looks-good", "skip"} : Begin(c, op, b, "show", {})
    BY <1>3 DEF Review, Skip
  <2> QED BY <2>1, BeginTypes
<1>4. ASSUME NEW b \in Beads, Implement(b) PROVE IType'
  BY <1>4, ImplementTypes
<1>5. ASSUME NEW c \in Calls, Step(c) PROVE IType'
  BY <1>5, StartTypes, ReviewTypes, NextTypes, AdvanceTypes DEF Step
<1>6. CASE UNCHANGED vars
  BY <1>6 DEF vars, IType, TypeOK, Shaped
<1> QED BY <1>1, <1>2, <1>3, <1>4, <1>5, <1>6 DEF Next

LEMMA InitTypes == Init => IType
<1> SUFFICES ASSUME Init PROVE IType OBVIOUS
<1>1. st \in State BY DEF Init, State, Phases
<1>2. call \in [Calls -> Call \cup {Idle}] BY DEF Init
<1>3. Shaped
  <2>1. \A c \in Calls : call[c] = Idle BY DEF Init
  <2>2. Idle.op = "none" BY DEF Idle
  <2> QED BY <2>1, <2>2 DEF Shaped
<1>4. bead \in [Beads -> Statuses] /\ lock \in BOOLEAN BY DEF Init, Statuses
<1>5. agents \in [Beads -> 0..2] /\ closed \subseteq Beads /\ launched \subseteq Beads BY DEF Init
<1>6. trouble \in 0..MaxTrouble BY WaveAssumption DEF Init, WaveAssumption
<1> QED BY <1>1, <1>2, <1>3, <1>4, <1>5, <1>6 DEF IType, TypeOK

\* Every variable keeps its type: for every program of beads, however many
\* calls overlap and however often br fails.
THEOREM TypeCorrect == Spec => []TypeOK
<1>1. IType => TypeOK BY DEF IType
<1> QED BY <1>1, InitTypes, StepTypes, PTL DEF Spec

-----------------------------------------------------------------------------
\* The mutex is held exactly while one call marks or takes marks back.
LEMMA MutexStep == TypeOK /\ MutexExclusive /\ [Next]_vars => MutexExclusive'
<1> SUFFICES ASSUME TypeOK, MutexExclusive, [Next]_vars PROVE MutexExclusive' OBVIOUS
<1>00. Idle.at = "none" BY DEF Idle
<1> USE DEF MutexExclusive, Marking, TypeOK, At
<1>1. ASSUME NEW c \in Calls, StartListed(c) PROVE MutexExclusive'
  <2>1. call[c] \in Call BY <1>1, Begun DEF StartListed, Places
  <2> QED BY <1>1, <1>00, <2>1 DEF StartListed, Call, Finish, Goto
<1>2. ASSUME NEW c \in Calls, StartReady(c) PROVE MutexExclusive'
  <2>1. call[c] \in Call BY <1>2, Begun DEF StartReady, Places
  <2> QED BY <1>2, <1>00, <2>1 DEF StartReady, Call, Finish, Goto
<1>3. ASSUME NEW c \in Calls, StartLock(c) PROVE MutexExclusive'
  <2>1. call[c] \in Call BY <1>3, Begun DEF StartLock, Places
  <2> QED BY <1>3, <1>00, <2>1 DEF StartLock, Call, Finish, Goto
<1>4. ASSUME NEW c \in Calls, StartMark(c) PROVE MutexExclusive'
  <2>1. call[c] \in Call BY <1>4, Begun DEF StartMark, Places
  <2> QED BY <1>4, <1>00, <2>1 DEF StartMark, Call, Finish, Goto
<1>5. ASSUME NEW c \in Calls, StartRollback(c) PROVE MutexExclusive'
  <2>1. call[c] \in Call BY <1>5, Begun DEF StartRollback, Places
  <2> QED BY <1>5, <1>00, <2>1 DEF StartRollback, Call, Finish, Goto
<1>6. ASSUME NEW c \in Calls, StartRolledBack(c) PROVE MutexExclusive'
  <2>1. call[c] \in Call BY <1>6, Begun DEF StartRolledBack, Places
  <2> QED BY <1>6, <1>00, <2>1 DEF StartRolledBack, Call, Finish, Goto
<1>7. ASSUME NEW c \in Calls, StartLaunch(c) PROVE MutexExclusive'
  <2>1. call[c] \in Call BY <1>7, Begun DEF StartLaunch, Places
  <2> QED BY <1>7, <1>00, <2>1 DEF StartLaunch, Call, Finish, Goto
<1>8. ASSUME NEW c \in Calls, ReviewShow(c) PROVE MutexExclusive'
  <2>1. call[c] \in Call BY <1>8, Begun DEF ReviewShow, Places
  <2> QED BY <1>8, <1>00, <2>1 DEF ReviewShow, Call, Finish, Goto
<1>9. ASSUME NEW c \in Calls, ReviewClose(c) PROVE MutexExclusive'
  <2>1. call[c] \in Call BY <1>9, Begun DEF ReviewClose, Places
  <2> QED BY <1>9, <1>00, <2>1 DEF ReviewClose, Call, Finish, Goto
<1>10. ASSUME NEW c \in Calls, ReviewSiblings(c) PROVE MutexExclusive'
  <2>1. call[c] \in Call BY <1>10, Begun DEF ReviewSiblings, Places
  <2> QED BY <1>10, <1>00, <2>1 DEF ReviewSiblings, Call, Finish, Goto
<1>11. ASSUME NEW c \in Calls, ReviewParent(c) PROVE MutexExclusive'
  <2>1. call[c] \in Call BY <1>11, Begun DEF ReviewParent, Places
  <2> QED BY <1>11, <1>00, <2>1 DEF ReviewParent, Call, Finish, Goto
<1>12. ASSUME NEW c \in Calls, ReviewSkip(c) PROVE MutexExclusive'
  <2>1. call[c] \in Call BY <1>12, Begun DEF ReviewSkip, Places
  <2> QED BY <1>12, <1>00, <2>1 DEF ReviewSkip, Call, Finish, Goto
<1>13. ASSUME NEW c \in Calls, EnterGates(c) PROVE MutexExclusive'
  <2>1. call[c] \in Call BY <1>13, Begun DEF EnterGates, Places
  <2> QED BY <1>13, <1>00, <2>1 DEF EnterGates, Call, Finish, Goto
<1>14. ASSUME NEW c \in Calls, ReviewNext(c) PROVE MutexExclusive'
  <2>1. call[c] \in Call BY <1>14, Begun DEF ReviewNext, Places
  <2> QED BY <1>14, <1>00, <2>1 DEF ReviewNext, Call, Finish, Goto
<1>15. ASSUME NEW c \in Calls, ReviewMark(c) PROVE MutexExclusive'
  <2>1. call[c] \in Call BY <1>15, Begun DEF ReviewMark, Places
  <2> QED BY <1>15, <1>00, <2>1 DEF ReviewMark, Call, Finish, Goto
<1>16. ASSUME NEW c \in Calls, ReviewLaunch(c) PROVE MutexExclusive'
  <2>1. call[c] \in Call BY <1>16, Begun DEF ReviewLaunch, Places
  <2> QED BY <1>16, <1>00, <2>1 DEF ReviewLaunch, Call, Finish, Goto
<1>17. ASSUME NEW c \in Calls, AdvanceShow(c) PROVE MutexExclusive'
  <2>1. call[c] \in Call BY <1>17, Begun DEF AdvanceShow, Places
  <2> QED BY <1>17, <1>00, <2>1 DEF AdvanceShow, Call, Finish, Goto
<1>18. ASSUME NEW c \in Calls, AdvanceClose(c) PROVE MutexExclusive'
  <2>1. call[c] \in Call BY <1>18, Begun DEF AdvanceClose, Places
  <2>2. PICK b \in call[c].todo :
           \/ call' = [call EXCEPT ![c].todo = @ \ {b}, ![c].done = @ \cup {b},
                                   ![c].s = [@ EXCEPT !.results[b] = "success"]]
           \/ call' = [call EXCEPT ![c].todo = @ \ {b}, ![c].bead = b]
    BY <1>18 DEF AdvanceClose
  <2>3. \A d \in Calls : call'[d].at = call[d].at
    BY <2>1, <2>2 DEF Call
  <2> QED BY <1>18, <2>3 DEF AdvanceClose
<1>19. ASSUME NEW c \in Calls, AdvanceVerified(c) PROVE MutexExclusive'
  <2>1. call[c] \in Call BY <1>19, Begun DEF AdvanceVerified, Places
  <2> QED BY <1>19, <1>00, <2>1 DEF AdvanceVerified, Call, Finish, Goto
<1>20. ASSUME NEW c \in Calls, AdvanceDispatch(c) PROVE MutexExclusive'
  <2>1. call[c] \in Call BY <1>20, Begun DEF AdvanceDispatch, Places
  <2> QED BY <1>20, <1>00, <2>1 DEF AdvanceDispatch, Call, Finish, Goto
<1>21. ASSUME NEW c \in Calls, Step(c) PROVE MutexExclusive'
  BY <1>21, <1>1, <1>2, <1>3, <1>4, <1>5, <1>6, <1>7, <1>8, <1>9, <1>10,
     <1>11, <1>12, <1>13, <1>14, <1>15, <1>16, <1>17, <1>18, <1>19, <1>20 DEF Step
<1>22. ASSUME CallStart \/ CallAdvance \/ \E b \in Beads : Review(b) \/ Skip(b)
       PROVE  MutexExclusive'
  <2>1. PICK c \in Calls, at \in {"list", "show", "verify"} :
            \E op, b, todo : Begin(c, op, b, at, todo)
    BY <1>22 DEF CallStart, CallAdvance, Review, Skip
  <2>2. call[c].at = "none" /\ call'[c].at = at BY <1>00, <2>1 DEF Begin
  <2>3. \A d \in Calls : d # c => call'[d] = call[d] BY <2>1 DEF Begin
  <2> QED BY <2>1, <2>2, <2>3 DEF Begin
<1>23. ASSUME NEW b \in Beads, Implement(b) PROVE MutexExclusive'
  BY <1>23 DEF Implement, Claim, Done
<1>24. CASE UNCHANGED vars
  BY <1>24 DEF vars
<1> QED BY <1>21, <1>22, <1>23, <1>24 DEF Next

\* At any time at most one start marks beads or takes marks back, and the mutex
\* is held exactly then: every way out of handleStart frees it.
THEOREM MutexHeld == Spec => []MutexExclusive
<1>1. Init => MutexExclusive
  BY DEF Init, MutexExclusive, Marking, Idle
<1>2. IType => TypeOK BY DEF IType
<1> QED BY <1>1, <1>2, InitTypes, StepTypes, MutexStep, PTL DEF Spec

-----------------------------------------------------------------------------
\* What br calls closed was closed, and the beads that a call marks or launches
\* have what they need: for start and review they are all taken from br ready.
ClosedWas == \A b \in Beads : bead[b] = "closed" => b \in closed
Due(bs)   == \A b \in bs : Needs[b] \subseteq closed
Early     == {"list", "show", "update", "parent", "close", "ready"}
Ordered ==
    \A c \in Calls :
        /\ call[c].at \in {"lock", "mark", "launch"} => Due(call[c].todo) /\ Due(call[c].done)
        /\ call[c].op # "advance" /\ call[c].at \in Early => call[c].done = {}

\* What is ready has what it needs.
LEMMA ReadyDue == ASSUME TypeOK, ClosedWas PROVE Due(Ready)
BY WaveAssumption DEF WaveAssumption, TypeOK, ClosedWas, Due, Ready

\* A step of a call gives br one update at most.
LEMMA OneUpdate ==
    ASSUME NEW c \in Calls, Step(c)
    PROVE  (UNCHANGED <<bead, closed>>) \/ \E b, s, ok : BrUpdate(b, s, ok)
BY DEF Step, StartListed, StartReady, StartLock, StartMark, StartRollback, StartRolledBack,
       StartLaunch, ReviewShow, ReviewClose, ReviewSiblings, ReviewParent, ReviewSkip, EnterGates,
       ReviewNext, ReviewMark, ReviewLaunch, AdvanceShow, AdvanceClose, AdvanceVerified,
       AdvanceDispatch, BrReads, NoBr

LEMMA ClosedStep ==
    ASSUME TypeOK, ClosedWas, [Next]_vars
    PROVE  ClosedWas' /\ closed \subseteq closed'
<1>1. ASSUME NEW c \in Calls, Step(c) PROVE ClosedWas' /\ closed \subseteq closed'
  <2>1. (UNCHANGED <<bead, closed>>) \/ \E b, s, ok : BrUpdate(b, s, ok) BY <1>1, OneUpdate
  <2>2. CASE UNCHANGED <<bead, closed>> BY <2>2 DEF ClosedWas
  <2>3. ASSUME NEW b, NEW s, NEW ok, BrUpdate(b, s, ok) PROVE ClosedWas' /\ closed \subseteq closed'
    BY <2>3 DEF BrUpdate, ClosedWas, TypeOK
  <2> QED BY <2>1, <2>2, <2>3
<1>2. ASSUME NEW b \in Beads, Implement(b) PROVE ClosedWas' /\ closed \subseteq closed'
  BY <1>2 DEF Implement, Claim, Done, ClosedWas, TypeOK
<1>3. CASE CallStart \/ CallAdvance \/ \E b \in Beads : Review(b) \/ Skip(b)
  BY <1>3 DEF CallStart, CallAdvance, Review, Skip, Begin, ClosedWas
<1>4. CASE UNCHANGED vars
  BY <1>4 DEF vars, ClosedWas
<1> QED BY <1>1, <1>2, <1>3, <1>4 DEF Next

\* What a call has still to do is taken from br ready, and it is done only with
\* what it had to do.
LEMMA OrderedStep ==
    ASSUME TypeOK, ClosedWas, Ordered, [Next]_vars
    PROVE  Ordered'
<1>0. closed \subseteq closed' /\ Due(Ready) BY ClosedStep, ReadyDue
<1>00. Idle.at = "none" BY DEF Idle
<1> USE DEF Ordered, Due, Early, TypeOK, At
<1>1. ASSUME NEW c \in Calls, StartListed(c) PROVE Ordered'
  <2>1. call[c] \in Call BY <1>1, Begun DEF StartListed, Places
  <2> QED BY <1>1, <1>0, <1>00, <2>1 DEF StartListed, Call, Finish, Goto
<1>2. ASSUME NEW c \in Calls, StartReady(c) PROVE Ordered'
  <2>1. call[c] \in Call BY <1>2, Begun DEF StartReady, Places
  <2> QED BY <1>2, <1>0, <1>00, <2>1 DEF StartReady, Call, Finish, Goto
<1>3. ASSUME NEW c \in Calls, StartLock(c) PROVE Ordered'
  <2>1. call[c] \in Call BY <1>3, Begun DEF StartLock, Places
  <2> QED BY <1>3, <1>0, <1>00, <2>1 DEF StartLock, Call, Finish, Goto
<1>4. ASSUME NEW c \in Calls, StartMark(c) PROVE Ordered'
  <2>1. call[c] \in Call BY <1>4, Begun DEF StartMark, Places
  <2> QED BY <1>4, <1>0, <1>00, <2>1 DEF StartMark, Call, Finish, Goto
<1>5. ASSUME NEW c \in Calls, StartRollback(c) PROVE Ordered'
  <2>1. call[c] \in Call BY <1>5, Begun DEF StartRollback, Places
  <2> QED BY <1>5, <1>0, <1>00, <2>1 DEF StartRollback, Call, Finish, Goto
<1>6. ASSUME NEW c \in Calls, StartRolledBack(c) PROVE Ordered'
  <2>1. call[c] \in Call BY <1>6, Begun DEF StartRolledBack, Places
  <2> QED BY <1>6, <1>0, <1>00, <2>1 DEF StartRolledBack, Call, Finish, Goto
<1>7. ASSUME NEW c \in Calls, StartLaunch(c) PROVE Ordered'
  <2>1. call[c] \in Call BY <1>7, Begun DEF StartLaunch, Places
  <2> QED BY <1>7, <1>0, <1>00, <2>1 DEF StartLaunch, Call, Finish, Goto
<1>8. ASSUME NEW c \in Calls, ReviewShow(c) PROVE Ordered'
  <2>1. call[c] \in Call BY <1>8, Begun DEF ReviewShow, Places
  <2> QED BY <1>8, <1>0, <1>00, <2>1 DEF ReviewShow, Call, Finish, Goto
<1>9. ASSUME NEW c \in Calls, ReviewClose(c) PROVE Ordered'
  <2>1. call[c] \in Call BY <1>9, Begun DEF ReviewClose, Places
  <2> QED BY <1>9, <1>0, <1>00, <2>1 DEF ReviewClose, Call, Finish, Goto
<1>10. ASSUME NEW c \in Calls, ReviewSiblings(c) PROVE Ordered'
  <2>1. call[c] \in Call BY <1>10, Begun DEF ReviewSiblings, Places
  <2> QED BY <1>10, <1>0, <1>00, <2>1 DEF ReviewSiblings, Call, Finish, Goto
<1>11. ASSUME NEW c \in Calls, ReviewParent(c) PROVE Ordered'
  <2>1. call[c] \in Call BY <1>11, Begun DEF ReviewParent, Places
  <2> QED BY <1>11, <1>0, <1>00, <2>1 DEF ReviewParent, Call, Finish, Goto
<1>12. ASSUME NEW c \in Calls, ReviewSkip(c) PROVE Ordered'
  <2>1. call[c] \in Call BY <1>12, Begun DEF ReviewSkip, Places
  <2> QED BY <1>12, <1>0, <1>00, <2>1 DEF ReviewSkip, Call, Finish, Goto
<1>13. ASSUME NEW c \in Calls, EnterGates(c) PROVE Ordered'
  <2>1. call[c] \in Call BY <1>13, Begun DEF EnterGates, Places
  <2> QED BY <1>13, <1>0, <1>00, <2>1 DEF EnterGates, Call, Finish, Goto
<1>14. ASSUME NEW c \in Calls, ReviewNext(c) PROVE Ordered'
  <2>1. call[c] \in Call BY <1>14, Begun DEF ReviewNext, Places
  <2>2. NextBeads(My(c)) \subseteq Ready BY DEF NextBeads
  <2> QED BY <1>14, <1>0, <1>00, <2>1, <2>2 DEF ReviewNext, Call, Finish, Goto
<1>15. ASSUME NEW c \in Calls, ReviewMark(c) PROVE Ordered'
  <2>1. call[c] \in Call BY <1>15, Begun DEF ReviewMark, Places
  <2> QED BY <1>15, <1>0, <1>00, <2>1 DEF ReviewMark, Call, Finish, Goto
<1>16. ASSUME NEW c \in Calls, ReviewLaunch(c) PROVE Ordered'
  <2>1. call[c] \in Call BY <1>16, Begun DEF ReviewLaunch, Places
  <2> QED BY <1>16, <1>0, <1>00, <2>1 DEF ReviewLaunch, Call, Finish, Goto
<1>17. ASSUME NEW c \in Calls, AdvanceShow(c) PROVE Ordered'
  <2>1. call[c] \in Call BY <1>17, Begun DEF AdvanceShow, Places
  <2> QED BY <1>17, <1>0, <1>00, <2>1 DEF AdvanceShow, Call, Finish, Goto
<1>18. ASSUME NEW c \in Calls, AdvanceClose(c) PROVE Ordered'
  <2>1. call[c] \in Call BY <1>18, Begun DEF AdvanceClose, Places
  <2>2. PICK b \in call[c].todo :
           \/ call' = [call EXCEPT ![c].todo = @ \ {b}, ![c].done = @ \cup {b},
                                   ![c].s = [@ EXCEPT !.results[b] = "success"]]
           \/ call' = [call EXCEPT ![c].todo = @ \ {b}, ![c].bead = b]
    BY <1>18 DEF AdvanceClose
  <2>3. call'[c].at = "close" /\ call'[c].op = "advance"
    BY <1>18, <2>1, <2>2 DEF AdvanceClose, Call
  <2>4. \A d \in Calls : d # c => call'[d] = call[d]
    BY <2>2
  <2> QED BY <1>0, <2>3, <2>4
<1>19. ASSUME NEW c \in Calls, AdvanceVerified(c) PROVE Ordered'
  <2>1. call[c] \in Call BY <1>19, Begun DEF AdvanceVerified, Places
  <2> QED BY <1>19, <1>0, <1>00, <2>1 DEF AdvanceVerified, Call, Finish, Goto
<1>20. ASSUME NEW c \in Calls, AdvanceDispatch(c) PROVE Ordered'
  <2>1. call[c] \in Call BY <1>20, Begun DEF AdvanceDispatch, Places
  <2> QED BY <1>20, <1>0, <1>00, <2>1 DEF AdvanceDispatch, Call, Finish, Goto
<1>21. ASSUME NEW c \in Calls, Step(c) PROVE Ordered'
  BY <1>21, <1>1, <1>2, <1>3, <1>4, <1>5, <1>6, <1>7, <1>8, <1>9, <1>10,
     <1>11, <1>12, <1>13, <1>14, <1>15, <1>16, <1>17, <1>18, <1>19, <1>20 DEF Step
<1>22. ASSUME CallStart \/ CallAdvance \/ \E b \in Beads : Review(b) \/ Skip(b)
       PROVE  Ordered'
  <2>1. PICK c \in Calls, at \in {"list", "show", "verify"} :
            \E op, b, todo : Begin(c, op, b, at, todo)
    BY <1>22 DEF CallStart, CallAdvance, Review, Skip
  <2>2. call'[c].at = at /\ call'[c].done = {} BY <2>1 DEF Begin
  <2>3. \A d \in Calls : d # c => call'[d] = call[d] BY <2>1 DEF Begin
  <2> QED BY <1>0, <2>1, <2>2, <2>3 DEF Begin
<1>23. ASSUME NEW b \in Beads, Implement(b) PROVE Ordered'
  BY <1>0, <1>23 DEF Implement, Claim, Done
<1>24. CASE UNCHANGED vars
  BY <1>24 DEF vars
<1> QED BY <1>21, <1>22, <1>23, <1>24 DEF Next

\* The implementers that a step adds are sent to what is due.
LEMMA LaunchesDue ==
    ASSUME TypeOK, ClosedWas, Ordered, [Next]_vars, NEW b \in Beads, agents'[b] > agents[b]
    PROVE  Needs[b] \subseteq closed
<1>1. \A bs : Launch(bs) => b \in bs
  BY DEF Launch, TypeOK
<1>2. ASSUME NEW c \in Calls, StartLaunch(c) PROVE Needs[b] \subseteq closed
  BY <1>1, <1>2 DEF StartLaunch, At, Ordered, Due
<1>3. ASSUME NEW c \in Calls, ReviewLaunch(c) PROVE Needs[b] \subseteq closed
  BY <1>1, <1>3 DEF ReviewLaunch, Ordered, Due
<1>4. ASSUME NEW c \in Calls, AdvanceDispatch(c) PROVE Needs[b] \subseteq closed
  BY <1>1, <1>4, ReadyDue DEF AdvanceDispatch, Due
<1>5. agents' # agents /\ ~(agents' = agents) BY DEF TypeOK
<1>6. ASSUME NEW d \in Beads, Implement(d) PROVE FALSE
  BY <1>6 DEF Implement, Claim, Done, TypeOK
<1>7. ASSUME NEW c \in Calls, Step(c)
      PROVE  StartLaunch(c) \/ ReviewLaunch(c) \/ AdvanceDispatch(c)
  BY <1>5, <1>7
     DEF Step, StartListed, StartReady, StartLock, StartMark, StartRollback, StartRolledBack,
         ReviewShow, ReviewClose, ReviewSiblings, ReviewParent, ReviewSkip, EnterGates, ReviewNext,
         ReviewMark, AdvanceShow, AdvanceClose, AdvanceVerified
<1> QED BY <1>2, <1>3, <1>4, <1>5, <1>6, <1>7
        DEF Next, vars, CallStart, CallAdvance, Review, Skip, Begin

\* No bead is launched before its dependencies were closed, for every program,
\* whichever of the tools launch and however many calls overlap.
THEOREM LaunchedInOrder == Spec => DependenciesFirst
<1>1. Init => ClosedWas /\ Ordered
  BY DEF Init, ClosedWas, Ordered, Early, Idle
<1>2. IType => TypeOK BY DEF IType
<1>3. TypeOK /\ ClosedWas /\ Ordered /\ [Next]_vars =>
          [\A b \in Beads : agents'[b] > agents[b] => Needs[b] \subseteq closed]_vars
  BY LaunchesDue
<1> QED BY <1>1, <1>2, <1>3, InitTypes, StepTypes, ClosedStep, OrderedStep, PTL
        DEF Spec, DependenciesFirst
-----------------------------------------------------------------------------
\* A step of a call is about that call; what was closed stays so, and trouble
\* is not undone.
LEMMA OneCall ==
    ASSUME TypeOK, NEW c \in Calls, Step(c)
    PROVE  /\ call[c].at \in Places /\ call[c] \in Call
           /\ \A d \in Calls : d # c => call'[d] = call[d]
           /\ trouble \in Nat /\ trouble' \in {trouble, trouble + 1}
<1>1. call[c].at \in Places
  BY DEF Step, At, Places, StartListed, StartReady, StartLock, StartMark, StartRollback, StartRolledBack,
       StartLaunch, ReviewShow, ReviewClose, ReviewSiblings, ReviewParent, ReviewSkip, EnterGates,
       ReviewNext, ReviewMark, ReviewLaunch, AdvanceShow, AdvanceClose, AdvanceVerified, AdvanceDispatch
<1>2. \A d \in Calls : d # c => call'[d] = call[d]
  BY DEF TypeOK, Step, Finish, Goto, StartListed, StartReady, StartLock, StartMark, StartRollback,
       StartRolledBack, StartLaunch, ReviewShow, ReviewClose, ReviewSiblings, ReviewParent, ReviewSkip,
       EnterGates, ReviewNext, ReviewMark, ReviewLaunch, AdvanceShow, AdvanceClose, AdvanceVerified,
       AdvanceDispatch
<1>3. (UNCHANGED trouble) \/ (\E ok : Trouble(~ok))
  BY DEF Step, BrUpdate, BrReads, NoBr, StartListed, StartReady, StartLock, StartMark, StartRollback,
       StartRolledBack, StartLaunch, ReviewShow, ReviewClose, ReviewSiblings, ReviewParent, ReviewSkip,
       EnterGates, ReviewNext, ReviewMark, ReviewLaunch, AdvanceShow, AdvanceClose, AdvanceVerified,
       AdvanceDispatch
<1>4. trouble \in Nat /\ trouble' \in {trouble, trouble + 1}
  BY <1>3, WaveAssumption DEF WaveAssumption, TypeOK, Trouble
<1> QED BY <1>1, <1>2, <1>4, Begun

-----------------------------------------------------------------------------
\* While nothing went wrong, every copy of the checkpoint records as success
\* only what was closed.
Told(s) == \A b \in Beads : s.results[b] = "success" => b \in closed
SuccessInv ==
    trouble = 0 =>
        /\ Told(st)
        /\ \A c \in Calls : call[c].at # "none" => call[c].op # "advance" /\ Told(My(c))

\* It is enough to look at the copy that a step stores and at that of its call.
LEMMA SuccessMoves ==
    ASSUME SuccessInv, NEW c \in Calls, \A d \in Calls : d # c => call'[d] = call[d],
           trouble \in Nat, trouble' \in {trouble, trouble + 1}, closed \subseteq closed',
           trouble' = 0 /\ trouble = 0 => Told(st)' \/ st' = st,
           trouble' = 0 /\ trouble = 0 => \/ call'[c].at = "none"
                                          \/ call'[c].op # "advance" /\ Told(My(c))'
    PROVE  SuccessInv'
BY DEF SuccessInv, Told, My

LEMMA SuccessCalls ==
    ASSUME IType, ClosedWas, SuccessInv, NEW c \in Calls, Step(c), closed \subseteq closed'
    PROVE  SuccessInv'
<1>0. /\ call[c].at \in Places /\ call[c] \in Call
      /\ \A d \in Calls : d # c => call'[d] = call[d]
      /\ trouble \in Nat /\ trouble' \in {trouble, trouble + 1}
  BY OneCall DEF IType
<1> SUFFICES ASSUME trouble = 0, trouble' = 0
             PROVE  /\ Told(st)' \/ st' = st
                    /\ call'[c].at = "none" \/ (call'[c].op # "advance" /\ Told(My(c))')
  BY <1>0, SuccessMoves
<1>1. call[c].op # "advance" /\ Told(st) /\ Told(My(c)) /\ My(c) \in State /\ st \in State
  BY <1>0, Begun DEF SuccessInv, Places, IType, TypeOK
<1>2. Idle.at = "none" BY DEF Idle
<1>t. call \in [Calls -> Call \cup {Idle}]
  BY DEF IType, TypeOK
<1> USE <1>0, <1>1, <1>2, <1>t DEF At, Told, My, Call, State
<1>3. CASE StartListed(c)
  BY <1>3 DEF StartListed, Finish, Goto
<1>4. CASE StartReady(c)
  BY <1>4 DEF StartReady, Finish, Goto
<1>5. CASE StartLock(c)
  BY <1>5 DEF StartLock, Finish, Goto
<1>6. CASE StartMark(c)
  BY <1>6 DEF StartMark, Finish, Goto
<1>7. CASE StartRollback(c)
  BY <1>7 DEF StartRollback, Finish, Goto
<1>8. CASE StartRolledBack(c)
  BY <1>8 DEF StartRolledBack, Finish, Goto
<1>9. CASE StartLaunch(c)
  BY <1>9 DEF StartLaunch, Finish, Goto
<1>10. CASE ReviewShow(c)
  BY <1>10 DEF ReviewShow, Finish, Goto, ClosedWas
<1>11. CASE ReviewClose(c)
  BY <1>11 DEF ReviewClose, Finish, Goto, BrUpdate, Trouble
<1>12. CASE ReviewSiblings(c)
  BY <1>12 DEF ReviewSiblings, Finish, Goto
<1>13. CASE ReviewParent(c)
  BY <1>13 DEF ReviewParent, Finish, Goto, BrUpdate, Trouble
<1>14. CASE ReviewSkip(c)
  BY <1>14 DEF ReviewSkip, Finish, Goto
<1>15. CASE EnterGates(c)
  BY <1>15 DEF EnterGates, Finish, Goto
<1>16. CASE ReviewNext(c)
  BY <1>16 DEF ReviewNext, Finish, Goto
<1>17. CASE ReviewMark(c)
  BY <1>17 DEF ReviewMark, Finish, Goto
<1>18. CASE ReviewLaunch(c)
  BY <1>18 DEF ReviewLaunch, Finish, Goto
<1> QED BY <1>3, <1>4, <1>5, <1>6, <1>7, <1>8, <1>9, <1>10, <1>11, <1>12, <1>13, <1>14, <1>15, <1>16, <1>17, <1>18
      DEF Step, AdvanceShow, AdvanceClose, AdvanceVerified, AdvanceDispatch

LEMMA SuccessStep ==
    ASSUME IType, ClosedWas, SuccessInv, [Next]_vars PROVE SuccessInv'
<1>1. closed \subseteq closed' /\ trouble \in Nat
  BY ClosedStep, WaveAssumption DEF IType, TypeOK, WaveAssumption
<1>2. ASSUME CallStart \/ CallAdvance \/ \E b \in Beads : Review(b) \/ Skip(b)
      PROVE  SuccessInv'
  <2>1. PICK c \in Calls, op \in {"start", "looks-good", "skip", "advance"} :
            \E b, at, todo : Begin(c, op, b, at, todo)
    BY <1>2 DEF CallStart, CallAdvance, Review, Skip
  <2>2. /\ call'[c].op = op /\ call'[c].s = st /\ \A d \in Calls : d # c => call'[d] = call[d]
        /\ trouble' \in {trouble, trouble + 1} /\ (op = "advance" => trouble' # 0) /\ st' = st
    BY <1>1, <2>1 DEF Begin, Trouble, IType, TypeOK
  <2> QED BY <1>1, <2>1, <2>2, SuccessMoves DEF SuccessInv, Told, My
<1>3. ASSUME NEW b \in Beads, Implement(b) PROVE SuccessInv'
  BY <1>1, <1>3 DEF Implement, Claim, Done, SuccessInv, Told, My
<1>4. CASE UNCHANGED vars
  BY <1>4 DEF vars, SuccessInv, Told, My
<1> QED BY <1>1, <1>2, <1>3, <1>4, SuccessCalls DEF Next

\* While br works, calls do not overlap and flywheel_advance_wave is not used,
\* what the checkpoint records as success was closed in br: no review records
\* a result that it did not see, or bring, about.
THEOREM SuccessIsClosed == Spec => []SuccessWasClosed
<1>1. Init => ClosedWas /\ SuccessInv
  BY DEF Init, ClosedWas, SuccessInv, Told, Idle
<1>2. IType /\ SuccessInv => SuccessWasClosed
  BY WaveAssumption DEF WaveAssumption, IType, TypeOK, SuccessInv, Told, SuccessWasClosed
<1>3. IType => TypeOK BY DEF IType
<1> QED BY <1>1, <1>2, <1>3, InitTypes, StepTypes, ClosedStep, SuccessStep, PTL DEF Spec

-----------------------------------------------------------------------------
\* What is in_progress was launched, or is marked by a call that has still to
\* launch it or to take the mark back.  Who takes marks back had trouble.
Working(c) == call[c].at \in {"mark", "rollback", "launch"}
SentOut == \A b \in Beads : agents[b] > 0 => b \in launched
MarkInv ==
    /\ SentOut
    /\ \A c \in Calls : call[c].at = "rollback" => trouble > 0
    /\ trouble <= 1 =>
        \A b \in Beads : bead[b] = "in_progress" =>
            b \in launched \/ \E c \in Calls : Working(c) /\ b \in call[c].done

LEMMA LaunchGrows ==
    ASSUME TypeOK, SentOut, NEW bs, Launch(bs) \/ UNCHANGED <<agents, launched>>
    PROVE  SentOut' /\ launched \subseteq launched'
BY DEF TypeOK, SentOut, Launch

\* It is enough to look at the beads that a call had marked and at the one that
\* a step marks.
LEMMA MarkMoves ==
    ASSUME MarkInv, NEW c \in Calls, \A d \in Calls : d # c => call'[d] = call[d],
           trouble \in Nat, trouble' \in {trouble, trouble + 1},
           SentOut', launched \subseteq launched',
           call'[c].at = "rollback" => trouble' > 0,
           trouble' <= 1 => \A b \in Beads : bead'[b] = "in_progress" =>
               \/ bead[b] = "in_progress" /\ (Working(c) /\ b \in call[c].done => b \in launched' \/ (Working(c)' /\ b \in call'[c].done))
               \/ b \in launched' \/ (Working(c)' /\ b \in call'[c].done)
    PROVE  MarkInv'
BY DEF MarkInv, Working

LEMMA MarkCalls ==
    ASSUME IType, Ordered, MarkInv, NEW c \in Calls, Step(c)
    PROVE  MarkInv'
<1>0. /\ call[c].at \in Places /\ call[c] \in Call
      /\ \A d \in Calls : d # c => call'[d] = call[d]
      /\ trouble \in Nat /\ trouble' \in {trouble, trouble + 1}
  BY OneCall DEF IType
<1>1. \A bs : Launch(bs) \/ UNCHANGED <<agents, launched>> => SentOut' /\ launched \subseteq launched'
  BY LaunchGrows DEF IType, MarkInv
<1>2. Idle.at = "none" BY DEF Idle
<1>t. call \in [Calls -> Call \cup {Idle}] /\ bead \in [Beads -> Statuses]
  BY DEF IType, TypeOK
<1>m. call[c].at = "rollback" => trouble > 0 BY DEF MarkInv
<1>3. CASE StartListed(c)
  BY <1>0, <1>1, <1>2, <1>t, <1>m, <1>3, MarkMoves DEF StartListed, BrReads, NoBr, Working, Call, At, Finish, Goto
<1>4. CASE StartReady(c)
  BY <1>0, <1>1, <1>2, <1>t, <1>m, <1>4, MarkMoves DEF StartReady, BrReads, NoBr, Working, Call, At, Finish, Goto
<1>5. CASE StartLock(c)
  BY <1>0, <1>1, <1>2, <1>t, <1>m, <1>5, MarkMoves DEF StartLock, BrReads, NoBr, Working, Call, At, Finish, Goto
<1>6. CASE StartMark(c)
  BY <1>0, <1>1, <1>2, <1>t, <1>m, <1>6, MarkMoves DEF StartMark, BrUpdate, Trouble, Working, Launch, Call, At, Finish, Goto
<1>7. CASE StartRollback(c)
  BY <1>0, <1>1, <1>2, <1>t, <1>m, <1>7, MarkMoves DEF StartRollback, BrUpdate, Trouble, Working, Launch, Call, At, Finish, Goto
<1>8. CASE StartRolledBack(c)
  BY <1>0, <1>1, <1>2, <1>t, <1>m, <1>8, MarkMoves DEF StartRolledBack, BrReads, NoBr, Working, Call, At, Finish, Goto
<1>9. CASE StartLaunch(c)
  <2>1. /\ call[c].at = "mark" /\ call'[c] = Idle /\ UNCHANGED <<bead, trouble>>
        /\ Launch(call[c].done)
    BY <1>0, <1>t, <1>9 DEF StartLaunch, At, Finish, NoBr
  <2>2. SentOut' /\ launched \subseteq launched' /\ call[c].done \subseteq launched'
    BY <2>1, LaunchGrows DEF IType, MarkInv, Launch
  <2>3. \A b \in Beads : bead'[b] = "in_progress" =>
            bead[b] = "in_progress" /\ (b \in call[c].done => b \in launched')
    BY <2>1, <2>2
  <2> QED BY <1>0, <1>2, <2>1, <2>2, <2>3, MarkMoves
<1>10. CASE ReviewShow(c)
  BY <1>0, <1>1, <1>2, <1>t, <1>m, <1>10, MarkMoves DEF ReviewShow, BrReads, NoBr, Working, Call, At, Finish, Goto
<1>11. CASE ReviewClose(c)
  BY <1>0, <1>1, <1>2, <1>t, <1>m, <1>11, MarkMoves DEF ReviewClose, BrUpdate, Trouble, Working, Launch, Call, At, Finish, Goto
<1>12. CASE ReviewSiblings(c)
  BY <1>0, <1>1, <1>2, <1>t, <1>m, <1>12, MarkMoves DEF ReviewSiblings, BrReads, NoBr, Working, Call, At, Finish, Goto
<1>13. CASE ReviewParent(c)
  BY <1>0, <1>1, <1>2, <1>t, <1>m, <1>13, MarkMoves DEF ReviewParent, BrUpdate, Trouble, Working, Launch, Call, At, Finish, Goto
<1>14. CASE ReviewSkip(c)
  BY <1>0, <1>1, <1>2, <1>t, <1>m, <1>14, MarkMoves DEF ReviewSkip, BrUpdate, Trouble, Working, Launch, Call, At, Finish, Goto
<1>15. CASE EnterGates(c)
  BY <1>0, <1>1, <1>2, <1>t, <1>m, <1>15, MarkMoves DEF EnterGates, BrReads, NoBr, Working, Call, At, Finish, Goto
<1>16. CASE ReviewNext(c)
  BY <1>0, <1>1, <1>2, <1>t, <1>m, <1>16, MarkMoves DEF ReviewNext, BrReads, NoBr, Working, Call, At, Finish, Goto
<1>17. CASE ReviewMark(c)
  BY <1>0, <1>1, <1>2, <1>t, <1>m, <1>17, MarkMoves DEF ReviewMark, BrUpdate, Trouble, Working, Launch, Call, At, Finish, Goto
<1>18. CASE ReviewLaunch(c)
  <2>1. /\ call[c].at = "launch" /\ call'[c] = Idle /\ UNCHANGED <<bead, trouble>>
        /\ Launch(call[c].done)
    BY <1>0, <1>t, <1>18 DEF ReviewLaunch, At, Finish, NoBr
  <2>2. SentOut' /\ launched \subseteq launched' /\ call[c].done \subseteq launched'
    BY <2>1, LaunchGrows DEF IType, MarkInv, Launch
  <2>3. \A b \in Beads : bead'[b] = "in_progress" =>
            bead[b] = "in_progress" /\ (b \in call[c].done => b \in launched')
    BY <2>1, <2>2
  <2> QED BY <1>0, <1>2, <2>1, <2>2, <2>3, MarkMoves
<1>19. CASE AdvanceShow(c)
  BY <1>0, <1>1, <1>2, <1>t, <1>m, <1>19, MarkMoves DEF AdvanceShow, BrReads, NoBr, Working, Call, At, Finish, Goto
<1>20. CASE AdvanceClose(c)
  <2>1. /\ call[c].at = "close" /\ UNCHANGED <<agents, launched>>
        /\ \E b \in call[c].todo : BrUpdate(b, "closed", TRUE) \/ BrUpdate(b, "closed", FALSE) \/ NoBr
    BY <1>20 DEF AdvanceClose, At
  <2>2. call'[c].at = "close"
    <3>1. PICK b \in call[c].todo :
              \/ call' = [call EXCEPT ![c].todo = @ \ {b}, ![c].done = @ \cup {b},
                                      ![c].s = [@ EXCEPT !.results[b] = "success"]]
              \/ call' = [call EXCEPT ![c].todo = @ \ {b}, ![c].bead = b]
      BY <1>20 DEF AdvanceClose
    <3>2. CASE call' = [call EXCEPT ![c].todo = @ \ {b}, ![c].bead = b]
      BY <1>0, <1>t, <2>1, <3>2 DEF Call
    <3>3. CASE call' = [call EXCEPT ![c].todo = @ \ {b}, ![c].done = @ \cup {b},
                                    ![c].s = [@ EXCEPT !.results[b] = "success"]]
      BY <1>0, <1>t, <2>1, <3>3 DEF Call
    <3> QED BY <3>1, <3>2, <3>3
  <2>3. ~Working(c) /\ ~Working(c)'
    BY <2>1, <2>2 DEF Working
  <2>4. \A b \in Beads : bead'[b] = "in_progress" => bead[b] = "in_progress"
    BY <1>t, <2>1 DEF BrUpdate, NoBr
  <2>5. SentOut' /\ launched \subseteq launched'
    BY <1>1, <2>1
  <2> QED BY <1>0, <2>2, <2>3, <2>4, <2>5, MarkMoves
<1>21. CASE AdvanceVerified(c)
  BY <1>0, <1>1, <1>2, <1>t, <1>m, <1>21, MarkMoves DEF AdvanceVerified, BrReads, NoBr, Working, Call, At, Finish, Goto
<1>22. CASE AdvanceDispatch(c)
  <2>1. /\ call[c].at = "ready" /\ call'[c] = Idle /\ UNCHANGED <<bead, trouble>>
        /\ \E wave \in SUBSET Ready : Launch(wave)
    BY <1>0, <1>t, <1>22 DEF AdvanceDispatch, At, Finish, NoBr
  <2>2. SentOut' /\ launched \subseteq launched'
    BY <2>1, LaunchGrows DEF IType, MarkInv
  <2>3. ~Working(c) /\ \A b \in Beads : bead'[b] = "in_progress" => bead[b] = "in_progress"
    BY <2>1 DEF Working
  <2> QED BY <1>0, <1>2, <2>1, <2>2, <2>3, MarkMoves
<1> QED BY <1>3, <1>4, <1>5, <1>6, <1>7, <1>8, <1>9, <1>10, <1>11, <1>12, <1>13, <1>14, <1>15, <1>16, <1>17, <1>18, <1>19, <1>20, <1>21, <1>22 DEF Step

LEMMA MarkStep ==
    ASSUME IType, Ordered, MarkInv, [Next]_vars PROVE MarkInv'
<1>1. trouble \in Nat
  BY WaveAssumption DEF IType, TypeOK, WaveAssumption
<1>2. ASSUME CallStart \/ CallAdvance \/ \E b \in Beads : Review(b) \/ Skip(b)
      PROVE  MarkInv'
  <2>1. PICK c \in Calls, at \in {"list", "show", "verify"} :
            \E op, b, todo : Begin(c, op, b, at, todo)
    BY <1>2 DEF CallStart, CallAdvance, Review, Skip
  <2>2. /\ call[c] = Idle /\ call'[c].at = at /\ \A d \in Calls : d # c => call'[d] = call[d]
        /\ trouble' \in {trouble, trouble + 1}
        /\ UNCHANGED <<bead, agents, launched>>
    BY <1>1, <2>1 DEF Begin, Trouble, IType, TypeOK
  <2>3. call[c].at = "none" BY <2>2 DEF Idle
  <2> QED BY <1>1, <2>2, <2>3, MarkMoves DEF MarkInv, SentOut, Working
<1>3. ASSUME NEW b \in Beads, Implement(b) PROVE MarkInv'
  BY <1>1, <1>3 DEF Implement, Claim, Done, MarkInv, SentOut, Working, IType, TypeOK
<1>4. CASE UNCHANGED vars
  BY <1>4 DEF vars, MarkInv, SentOut, Working
<1> QED BY <1>1, <1>2, <1>3, <1>4, MarkCalls DEF Next

\* A start that fails half way takes its marks back, for every program: after at
\* most one failure or overlap no bead is in_progress that nobody was sent to.
THEOREM MarksAreTakenBack == Spec => []NoOrphanMarks
<1>1. Init => ClosedWas /\ Ordered /\ MarkInv
  BY DEF Init, ClosedWas, Ordered, Early, MarkInv, SentOut, Working, Idle
<1>2. MarkInv => NoOrphanMarks
  BY DEF MarkInv, NoOrphanMarks
<1>3. IType => TypeOK BY DEF IType
<1> QED BY <1>1, <1>2, <1>3, InitTypes, StepTypes, ClosedStep, OrderedStep, MarkStep, PTL DEF Spec

-----------------------------------------------------------------------------
\* While nothing went wrong one call runs, nobody works on an open bead, and
\* nobody on what the call is about to launch.
OnceInv ==
    trouble = 0 =>
        /\ \A c, d \in Calls : call[c].at # "none" /\ call[d].at # "none" => c = d
        /\ \A b \in Beads : agents[b] <= 1 /\ (agents[b] > 0 => bead[b] # "open")
        /\ \A c \in Calls :
            /\ call[c].op # "advance" /\ call[c].at # "rollback"
            /\ call[c].at \in {"lock", "mark", "launch"} => \A b \in call[c].todo \cup call[c].done : agents[b] = 0
            /\ call[c].at \in {"lock", "mark", "launch"} => \A b \in call[c].done : bead[b] # "open"

LEMMA LaunchTo ==
    ASSUME TypeOK, NEW bs, Launch(bs), \A b \in bs : agents[b] = 0
    PROVE  \A b \in Beads : agents'[b] = IF b \in bs THEN 1 ELSE agents[b]
BY DEF TypeOK, Launch

LEMMA OnceCalls ==
    ASSUME IType, Ordered, OnceInv, NEW c \in Calls, Step(c)
    PROVE  OnceInv'
<1>0. /\ call[c].at \in Places /\ call[c] \in Call
      /\ \A d \in Calls : d # c => call'[d] = call[d]
      /\ trouble \in Nat /\ trouble' \in {trouble, trouble + 1}
  BY OneCall DEF IType
<1> SUFFICES ASSUME trouble = 0, trouble' = 0 PROVE OnceInv'
  BY <1>0 DEF OnceInv
<1>1. Idle.at = "none" /\ Idle.op = "none" BY DEF Idle
<1>2. /\ call[c].op # "advance" /\ call[c].at # "rollback" /\ \A d \in Calls : d # c => call[d].at = "none" /\ call[d].op # "advance"
      /\ \A b \in Beads : agents[b] <= 1 /\ (agents[b] > 0 => bead[b] # "open")
      /\ call[c].at \in {"lock", "mark", "launch"} => \A b \in call[c].todo \cup call[c].done : agents[b] = 0
      /\ call[c].at \in {"lock", "mark", "launch"} => \A b \in call[c].done : bead[b] # "open"
  BY <1>0 DEF OnceInv, Places
<1>3. /\ call \in [Calls -> Call \cup {Idle}] /\ bead \in [Beads -> Statuses] /\ agents \in [Beads -> 0..2]
      /\ call[c].at \in Early => call[c].done = {}
  BY <1>2 DEF IType, TypeOK, Ordered
<1>4. ASSUME \A b \in Beads : agents'[b] <= 1 /\ (agents'[b] > 0 => bead'[b] # "open"),
             call'[c].op # "advance", call'[c].at # "rollback",
             call'[c].at \in {"lock", "mark", "launch"} => \A b \in call'[c].todo \cup call'[c].done : agents'[b] = 0,
             call'[c].at \in {"lock", "mark", "launch"} => \A b \in call'[c].done : bead'[b] # "open"
      PROVE  OnceInv'
  BY <1>0, <1>2, <1>4 DEF OnceInv
<1>5. CASE StartListed(c)
  BY <1>0, <1>1, <1>2, <1>3, <1>4, <1>5 DEF StartListed, Early, Call, At, Finish, Goto, BrReads, NoBr
<1>6. CASE StartReady(c)
  BY <1>0, <1>1, <1>2, <1>3, <1>4, <1>6 DEF StartReady, Early, Call, At, Finish, Goto, BrReads, NoBr, Ready, NextBeads
<1>7. CASE StartLock(c)
  BY <1>0, <1>1, <1>2, <1>3, <1>4, <1>7 DEF StartLock, Early, Call, At, Finish, Goto, BrReads, NoBr
<1>8. CASE StartMark(c)
  <2>1. PICK b \in call[c].todo :
            /\ bead' = [bead EXCEPT ![b] = "in_progress"]
            /\ call' = [call EXCEPT ![c].todo = @ \ {b}, ![c].done = @ \cup {b}]
    <3>1. PICK b \in call[c].todo, ok \in BOOLEAN :
              /\ BrUpdate(b, "in_progress", ok)
              /\ call' = IF ok THEN [call EXCEPT ![c].todo = @ \ {b}, ![c].done = @ \cup {b}]
                              ELSE [call EXCEPT ![c].at = "rollback"]
      BY <1>8 DEF StartMark
    <3>2. ok = TRUE BY <3>1 DEF BrUpdate, Trouble
    <3> QED BY <3>1, <3>2 DEF BrUpdate
  <2>2. call[c].op = "start" /\ call[c].at = "mark" /\ UNCHANGED agents
    BY <1>8 DEF StartMark, At
  <2>3. /\ call'[c].op = "start" /\ call'[c].at = "mark"
        /\ call'[c].todo = call[c].todo \ {b} /\ call'[c].done = call[c].done \cup {b}
    BY <1>0, <1>3, <2>1, <2>2 DEF Call
  <2>4. \A d \in Beads : bead'[d] = "in_progress" \/ bead'[d] = bead[d]
    BY <1>3, <2>1
  <2>5. call[c].done \subseteq Beads /\ b \in Beads
    BY <1>0, <2>1 DEF Call
  <2>6. bead'[b] = "in_progress"
    BY <1>3, <2>1, <2>5
  <2>7. \A d \in call'[c].done : bead'[d] # "open"
    BY <1>2, <2>2, <2>3, <2>4, <2>5, <2>6
  <2>8. \A d \in call'[c].todo \cup call'[c].done : agents'[d] = 0
    BY <1>2, <2>1, <2>2, <2>3
  <2>9. \A d \in Beads : agents'[d] <= 1 /\ (agents'[d] > 0 => bead'[d] # "open")
    BY <1>2, <2>2, <2>4
  <2> QED BY <1>4, <2>3, <2>7, <2>8, <2>9
<1>9. CASE StartRollback(c) \/ StartRolledBack(c)
  BY <1>2, <1>9 DEF StartRollback, StartRolledBack, At
<1>11. CASE StartLaunch(c)
  <2>1. \A b \in Beads : agents'[b] = IF b \in call[c].done THEN 1 ELSE agents[b]
    BY <1>2, <1>11, LaunchTo DEF StartLaunch, At, IType
  <2> QED BY <1>0, <1>1, <1>2, <1>3, <1>4, <1>11, <2>1 DEF StartLaunch, At, Finish, NoBr
<1>12. CASE ReviewShow(c)
  BY <1>0, <1>1, <1>2, <1>3, <1>4, <1>12 DEF ReviewShow, Early, Call, At, Finish, Goto, BrReads, NoBr
<1>13. CASE ReviewClose(c)
  BY <1>0, <1>1, <1>2, <1>3, <1>4, <1>13 DEF ReviewClose, Early, Call, At, Finish, Goto, BrUpdate, Trouble
<1>14. CASE ReviewSiblings(c)
  BY <1>0, <1>1, <1>2, <1>3, <1>4, <1>14 DEF ReviewSiblings, Early, Call, At, Finish, Goto, BrReads, NoBr
<1>15. CASE ReviewParent(c)
  BY <1>0, <1>1, <1>2, <1>3, <1>4, <1>15 DEF ReviewParent, Early, Call, At, Finish, Goto, BrUpdate, Trouble
<1>16. CASE ReviewSkip(c)
  BY <1>0, <1>1, <1>2, <1>3, <1>4, <1>16 DEF ReviewSkip, Early, Call, At, Finish, Goto, BrUpdate, Trouble
<1>17. CASE EnterGates(c)
  BY <1>0, <1>1, <1>2, <1>3, <1>4, <1>17 DEF EnterGates, Early, Call, At, Finish, Goto, BrReads, NoBr
<1>18. CASE ReviewNext(c)
  BY <1>0, <1>1, <1>2, <1>3, <1>4, <1>18 DEF ReviewNext, Early, Call, At, Finish, Goto, BrReads, NoBr, Ready, NextBeads
<1>19. CASE ReviewMark(c)
  BY <1>0, <1>1, <1>2, <1>3, <1>4, <1>19 DEF ReviewMark, Early, Call, At, Finish, Goto, BrUpdate, Trouble
<1>20. CASE ReviewLaunch(c)
  <2>1. \A b \in Beads : agents'[b] = IF b \in call[c].done THEN 1 ELSE agents[b]
    BY <1>2, <1>20, LaunchTo DEF ReviewLaunch, At, IType
  <2> QED BY <1>0, <1>1, <1>2, <1>3, <1>4, <1>20, <2>1 DEF ReviewLaunch, At, Finish, NoBr
<1> QED BY <1>2, <1>5, <1>6, <1>7, <1>8, <1>9, <1>11, <1>12, <1>13, <1>14, <1>15, <1>16, <1>17, <1>18, <1>19, <1>20
      DEF Step, At, AdvanceShow, AdvanceClose, AdvanceVerified, AdvanceDispatch

LEMMA OnceStep ==
    ASSUME IType, Ordered, OnceInv, [Next]_vars PROVE OnceInv'
<1>1. trouble \in Nat
  BY WaveAssumption DEF IType, TypeOK, WaveAssumption
<1>2. ASSUME CallStart \/ CallAdvance \/ \E b \in Beads : Review(b) \/ Skip(b)
      PROVE  OnceInv'
  <2>1. PICK c \in Calls, op \in {"start", "looks-good", "skip", "advance"}, at \in {"list", "show", "verify"} :
            \E b, todo : Begin(c, op, b, at, todo)
    BY <1>2 DEF CallStart, CallAdvance, Review, Skip
  <2>2. /\ call'[c].at = at /\ call'[c].op = op /\ \A d \in Calls : d # c => call'[d] = call[d]
        /\ trouble' \in {trouble, trouble + 1} /\ UNCHANGED <<bead, agents>>
        /\ trouble' = trouble => op # "advance" /\ \A d \in Calls : call[d] = Idle
    BY <1>1, <2>1 DEF Begin, Trouble, IType, TypeOK
  <2> QED BY <1>1, <2>2 DEF OnceInv, Idle
<1>3. ASSUME NEW b \in Beads, Implement(b) PROVE OnceInv'
  <2>1. UNCHANGED <<call, trouble>> /\ agents \in [Beads -> 0..2] /\ bead \in [Beads -> Statuses]
    BY <1>3 DEF Implement, Claim, Done, IType, TypeOK
  <2>2. \A d \in Beads : agents'[d] <= agents[d] /\ agents'[d] \in Nat
    BY <1>3, <2>1 DEF Implement, Claim, Done
  <2>3. \A d \in Beads : bead'[d] = "open" => bead[d] = "open"
    BY <1>3, <2>1 DEF Implement, Claim, Done
  <2>4. \A c \in Calls : call[c].at \in {"lock", "mark", "launch"} => call[c].todo \cup call[c].done \subseteq Beads
    BY DEF IType, TypeOK, Call, Idle
  <2> SUFFICES ASSUME trouble = 0 PROVE OnceInv'
    BY <2>1 DEF OnceInv
  <2>5. \A d \in Beads : agents'[d] <= 1 /\ (agents'[d] > 0 => bead'[d] # "open")
    BY <2>1, <2>2, <2>3 DEF OnceInv
  <2>6. \A c \in Calls :
            /\ call[c].at \in {"lock", "mark", "launch"} => \A d \in call[c].todo \cup call[c].done : agents'[d] = 0
            /\ call[c].at \in {"lock", "mark", "launch"} => \A d \in call[c].done : bead'[d] # "open"
    BY <2>1, <2>2, <2>3, <2>4 DEF OnceInv
  <2> QED BY <2>1, <2>5, <2>6 DEF OnceInv
<1>4. CASE UNCHANGED vars
  BY <1>4 DEF vars, OnceInv
<1> QED BY <1>1, <1>2, <1>3, <1>4, OnceCalls DEF Next

\* While one call runs at a time, br works and flywheel_advance_wave is not used,
\* no bead has two implementers, for every program: what is launched was marked,
\* and what is marked was ready, so that nobody was at work on it.
THEOREM OneImplementer == Spec => []LaunchedOnce
<1>1. Init => ClosedWas /\ Ordered /\ OnceInv
  BY DEF Init, ClosedWas, Ordered, Early, OnceInv, Idle
<1>2. IType /\ OnceInv => LaunchedOnce
  BY WaveAssumption DEF WaveAssumption, IType, TypeOK, OnceInv, LaunchedOnce
<1>3. IType => TypeOK BY DEF IType
<1> QED BY <1>1, <1>2, <1>3, InitTypes, StepTypes, ClosedStep, OrderedStep, OnceStep, PTL DEF Spec
-----------------------------------------------------------------------------
\* Who is at work was sent to what is due.
Attended == \A b \in Beads : agents[b] > 0 => Needs[b] \subseteq closed

LEMMA AttendedStep ==
    ASSUME TypeOK, ClosedWas, Ordered, Attended, [Next]_vars PROVE Attended'
<1>1. closed \subseteq closed' BY ClosedStep
<1>2. agents \in [Beads -> 0..2] /\ TypeOK BY DEF TypeOK
<1>3. ASSUME NEW b \in Beads, agents'[b] > 0 PROVE Needs[b] \subseteq closed
  <2>1. CASE agents'[b] > agents[b] BY <2>1, LaunchesDue
  <2>2. CASE agents[b] > 0 BY <2>2 DEF Attended
  <2>3. agents[b] \in 0..2 BY <1>2
  <2> QED BY <1>3, <2>1, <2>2, <2>3
<1> QED BY <1>1, <1>3 DEF Attended

\* While nothing went wrong, what a call is about to mark is open and what it marked
\* is in_progress; a review is of a bead that was begun; and it closes the
\* parent of a family that is closed.
Steady(c) ==
    /\ call[c].at \in {"lock", "mark", "launch"} =>
          /\ \A b \in call[c].todo : bead[b] = "open"
          /\ \A b \in call[c].done : bead[b] = "in_progress"
    /\ call[c].at \in {"show", "update", "parent", "close"} => call[c].bead \in Beads
    /\ call[c].at \in {"show", "update"} => bead[call[c].bead] # "open"
    /\ call[c].at = "parent" => bead[call[c].bead] = "closed"
    /\ call[c].at = "close" =>
          \A d \in Beads : Parent[d] = Parent[call[c].bead] => bead[d] = "closed"
SteadyInv == trouble = 0 => \A c \in Calls : Steady(c)

LEMMA SteadyCalls ==
    ASSUME IType, Ordered, OnceInv, SteadyInv, NEW c \in Calls, Step(c)
    PROVE  SteadyInv'
<1>0. /\ call[c].at \in Places /\ call[c] \in Call
      /\ \A d \in Calls : d # c => call'[d] = call[d]
      /\ trouble \in Nat /\ trouble' \in {trouble, trouble + 1}
  BY OneCall DEF IType
<1> SUFFICES ASSUME trouble = 0, trouble' = 0 PROVE SteadyInv'
  BY <1>0 DEF SteadyInv
<1>1. Idle.at = "none" BY DEF Idle
<1>2. /\ call[c].op # "advance" /\ call[c].at # "rollback" /\ Steady(c)
      /\ \A d \in Calls : d # c => call[d].at = "none"
  BY <1>0 DEF OnceInv, SteadyInv, Places
<1>3. /\ call \in [Calls -> Call \cup {Idle}] /\ bead \in [Beads -> Statuses]
      /\ call[c].at \in Early => call[c].done = {}
  BY <1>2 DEF IType, TypeOK, Ordered
<1>4. ASSUME Steady(c)' PROVE SteadyInv'
  BY <1>0, <1>2, <1>4 DEF SteadyInv, Steady
<1>5. ASSUME call'[c].at \in {"none", "list", "ready"} PROVE Steady(c)'
  BY <1>5 DEF Steady
<1>6. CASE StartListed(c) \/ StartRolledBack(c) \/ StartLaunch(c) \/ EnterGates(c) \/ ReviewLaunch(c)
           \/ ReviewParent(c) \/ ReviewSkip(c)
  BY <1>0, <1>1, <1>3, <1>4, <1>5, <1>6
     DEF StartListed, StartRolledBack, StartLaunch, EnterGates, ReviewLaunch, ReviewParent, ReviewSkip,
         Finish, Call
<1>7. CASE StartReady(c)
  <2>1. call[c].at = "ready" /\ UNCHANGED bead BY <1>7 DEF StartReady, At, BrReads
  <2>2. CASE Finish(c) BY <1>0, <1>1, <1>3, <1>4, <1>5, <2>2 DEF Finish
  <2>3. CASE call' = [call EXCEPT ![c].at = "lock", ![c].todo = Ready]
    <3>1. call'[c].at = "lock" /\ call'[c].todo = Ready /\ call'[c].done = {}
      BY <1>0, <1>3, <2>1, <2>3 DEF Call, Early
    <3> QED BY <1>4, <2>1, <3>1 DEF Steady, Ready
  <2> QED BY <1>7, <2>2, <2>3 DEF StartReady
<1>8. CASE StartLock(c)
  <2>1. call[c].at = "lock" /\ UNCHANGED bead BY <1>8 DEF StartLock, At, NoBr
  <2>2. CASE Finish(c) BY <1>0, <1>1, <1>3, <1>4, <1>5, <2>2 DEF Finish
  <2>3. CASE Goto(c, "mark")
    <3>1. call'[c].at = "mark" /\ call'[c].todo = call[c].todo /\ call'[c].done = call[c].done
      BY <1>0, <1>3, <2>3 DEF Call, Goto
    <3> QED BY <1>2, <1>4, <2>1, <3>1 DEF Steady
  <2> QED BY <1>8, <2>2, <2>3 DEF StartLock
<1>9. CASE StartMark(c) \/ ReviewMark(c)
  <2>1. PICK b \in call[c].todo :
            /\ bead' = [bead EXCEPT ![b] = "in_progress"]
            /\ call' = [call EXCEPT ![c].todo = @ \ {b}, ![c].done = @ \cup {b}]
    BY <1>9 DEF StartMark, ReviewMark, BrUpdate, Trouble
  <2>2. call[c].at \in {"mark", "launch"} BY <1>9 DEF StartMark, ReviewMark, At
  <2>3. /\ call'[c].at = call[c].at /\ call'[c].todo = call[c].todo \ {b}
        /\ call'[c].done = call[c].done \cup {b}
    BY <1>0, <1>3, <2>1 DEF Call
  <2>4. call[c].todo \subseteq Beads /\ call[c].done \subseteq Beads BY <1>0 DEF Call
  <2>5. \A d \in Beads : bead'[d] = IF d = b THEN "in_progress" ELSE bead[d] BY <1>3, <2>1
  <2> QED BY <1>2, <1>4, <2>2, <2>3, <2>4, <2>5 DEF Steady
<1>10. CASE ReviewShow(c)
  <2>1. call[c].at = "show" /\ UNCHANGED bead BY <1>10 DEF ReviewShow, BrReads
  <2>2. CASE Goto(c, "update")
    <3>1. call'[c].at = "update" /\ call'[c].bead = call[c].bead BY <1>0, <1>3, <2>2 DEF Call, Goto
    <3> QED BY <1>2, <1>4, <2>1, <3>1 DEF Steady
  <2>3. CASE ~Goto(c, "update")
    <3>1. call'[c].at \in {"none", "ready"}
      BY <1>0, <1>1, <1>3, <1>10, <2>3 DEF ReviewShow, Finish, Call
    <3> QED BY <1>4, <1>5, <3>1
  <2> QED BY <2>2, <2>3
<1>11. CASE ReviewClose(c)
  <2>1. bead' = [bead EXCEPT ![call[c].bead] = "closed"]
    BY <1>11 DEF ReviewClose, BrUpdate, Trouble
  <2>2. call'[c].at \in {"ready", "parent"} /\ call'[c].bead = call[c].bead
    BY <1>0, <1>3, <1>11 DEF ReviewClose, Call
  <2>3. call[c].bead \in Beads BY <1>11 DEF ReviewClose, At, IType, Shaped
  <2> QED BY <1>3, <1>4, <2>1, <2>2, <2>3 DEF Steady
<1>12. CASE ReviewSiblings(c)
  <2>1. call[c].at = "parent" /\ UNCHANGED bead BY <1>12 DEF ReviewSiblings, At, BrReads
  <2>2. CASE Goto(c, "ready") BY <1>0, <1>3, <1>4, <1>5, <2>2 DEF Goto, Call
  <2>3. CASE Goto(c, "close") /\ ~Goto(c, "ready")
    <3>1. \A b \in Beads : Parent[b] = Parent[call[c].bead] => bead[b] = "closed" \/ b = call[c].bead
      BY <1>12, <2>3 DEF ReviewSiblings
    <3>2. call'[c].at = "close" /\ call'[c].bead = call[c].bead BY <1>0, <1>3, <2>3 DEF Call, Goto
    <3> QED BY <1>2, <1>4, <2>1, <3>1, <3>2 DEF Steady
  <2> QED BY <1>12, <2>2, <2>3 DEF ReviewSiblings
<1>13. CASE ReviewNext(c)
  <2>1. call[c].at = "ready" /\ UNCHANGED bead BY <1>13 DEF ReviewNext, BrReads
  <2>2. CASE Finish(c) BY <1>0, <1>1, <1>3, <1>4, <1>5, <2>2 DEF Finish
  <2>3. CASE call' = [call EXCEPT ![c].at = "launch", ![c].todo = NextBeads(My(c))]
    <3>1. call'[c].at = "launch" /\ call'[c].todo \subseteq Ready /\ call'[c].done = {}
      BY <1>0, <1>3, <2>1, <2>3 DEF Call, Early, NextBeads
    <3> QED BY <1>4, <2>1, <3>1 DEF Steady, Ready
  <2> QED BY <1>13, <2>2, <2>3 DEF ReviewNext
<1> QED BY <1>2, <1>6, <1>7, <1>8, <1>9, <1>10, <1>11, <1>12, <1>13
      DEF Step, At, StartRollback, AdvanceShow, AdvanceClose, AdvanceVerified, AdvanceDispatch

LEMMA SteadyStep ==
    ASSUME IType, Ordered, OnceInv, SteadyInv, [Next]_vars PROVE SteadyInv'
<1>1. trouble \in Nat /\ bead \in [Beads -> Statuses] /\ agents \in [Beads -> 0..2]
  BY WaveAssumption DEF IType, TypeOK, WaveAssumption
<1>2. ASSUME CallStart \/ CallAdvance \/ \E b \in Beads : Review(b) \/ Skip(b)
      PROVE  SteadyInv'
  <2>1. PICK c \in Calls, b \in Beads \cup {NoBead}, at \in {"list", "show", "verify"} :
            /\ \E op, todo : Begin(c, op, b, at, todo)
            /\ at = "show" => b \in Beads /\ Launched(b)
    BY <1>2 DEF CallStart, CallAdvance, Review, Skip
  <2>2. /\ call'[c].at = at /\ call'[c].bead = b /\ \A d \in Calls : d # c => call'[d] = call[d]
        /\ trouble' \in {trouble, trouble + 1} /\ UNCHANGED <<bead, agents>>
    BY <1>1, <2>1 DEF Begin, Trouble, IType, TypeOK
  <2> SUFFICES ASSUME trouble = 0 PROVE \A d \in Calls : Steady(d)'
    BY <1>1, <2>2 DEF SteadyInv
  <2>3. at = "show" => bead[b] # "open" BY <1>1, <2>1 DEF OnceInv, Launched
  <2> QED BY <2>1, <2>2, <2>3 DEF SteadyInv, Steady
<1>3. ASSUME NEW b \in Beads, Implement(b) PROVE SteadyInv'
  <2>1. UNCHANGED <<call, trouble>> BY <1>3 DEF Implement, Claim, Done
  <2> SUFFICES ASSUME trouble = 0, NEW c \in Calls PROVE Steady(c)'
    BY <2>1 DEF SteadyInv
  <2>2. agents[b] > 0 /\ bead[b] # "open" BY <1>3 DEF Implement, Claim, Done, OnceInv
  <2>3. \A d \in Beads : bead'[d] = bead[d] \/ (d = b /\ bead'[d] = "closed")
    BY <1>1, <1>3, <2>2 DEF Implement, Claim, Done
  <2>4. call[c].at \in {"lock", "mark", "launch"} =>
            call[c].todo \cup call[c].done \subseteq Beads /\ b \notin call[c].todo \cup call[c].done
    <3>1. call[c] = Idle \/ call[c] \in Call BY DEF IType, TypeOK
    <3> QED BY <2>2, <3>1 DEF OnceInv, Call, Idle
  <2>5. Steady(c) BY DEF SteadyInv
  <2> QED BY <2>1, <2>3, <2>4, <2>5 DEF Steady
<1>4. CASE UNCHANGED vars
  BY <1>4 DEF vars, SteadyInv, Steady
<1> QED BY <1>1, <1>2, <1>3, <1>4, SteadyCalls DEF Next

\* However a bead comes to be in_progress, what it needs was done.
LEMMA MarksDue ==
    ASSUME IType, ClosedWas, Ordered, Attended, [Next]_vars,
           NEW b \in Beads, bead[b] = "open", bead'[b] = "in_progress"
    PROVE  Needs[b] \subseteq closed
<1>1. bead' # bead /\ bead \in [Beads -> Statuses] BY DEF IType, TypeOK
<1>2. ASSUME NEW c \in Calls, StartMark(c) \/ ReviewMark(c) PROVE Needs[b] \subseteq closed
  <2>1. PICK d \in call[c].todo : \E ok : BrUpdate(d, "in_progress", ok)
    BY <1>2 DEF StartMark, ReviewMark
  <2>2. b = d BY <1>1, <2>1 DEF BrUpdate
  <2> QED BY <1>2, <2>2 DEF StartMark, ReviewMark, At, Ordered, Due
<1>3. ASSUME NEW c \in Calls, Step(c) PROVE StartMark(c) \/ ReviewMark(c)
  <2>1. ASSUME NEW d, NEW s, NEW ok, BrUpdate(d, s, ok) PROVE s = "in_progress"
    BY <1>1, <2>1 DEF BrUpdate
  <2> QED BY <1>1, <1>3, <2>1
          DEF Step, BrReads, NoBr, StartListed, StartReady, StartLock, StartRollback, StartRolledBack,
              StartLaunch, ReviewShow, ReviewClose, ReviewSiblings, ReviewParent, ReviewSkip, EnterGates,
              ReviewNext, ReviewLaunch, AdvanceShow, AdvanceClose, AdvanceVerified, AdvanceDispatch
<1>4. ASSUME NEW d \in Beads, Implement(d) PROVE Needs[b] \subseteq closed
  <2>1. b = d /\ agents[d] > 0 BY <1>1, <1>4 DEF Implement, Claim, Done
  <2> QED BY <2>1 DEF Attended
<1> QED BY <1>1, <1>2, <1>3, <1>4 DEF Next, vars, CallStart, CallAdvance, Review, Skip, Begin

\* Whatever went wrong, a step begins only what is due.
LEMMA CarefulStep ==
    ASSUME IType, ClosedWas, Ordered, Attended, [Next]_vars
    PROVE  Program!Careful
<1>1. closed \subseteq closed' /\ ClosedWas' BY ClosedStep DEF IType
<1>2. \A b \in Beads : agents'[b] > agents[b] => Needs[b] \subseteq closed
  BY LaunchesDue DEF IType
<1>3. \A b \in Beads : bead[b] = "open" /\ bead'[b] = "in_progress" => Needs[b] \subseteq closed
  BY MarksDue
<1> QED BY <1>1, <1>2, <1>3 DEF Program!Careful, Program!Due, ClosedWas

\* While nothing went wrong, a step of a call is one of a bead, or of a wave, or
\* none.
LEMMA SmoothCalls ==
    ASSUME IType, Ordered, OnceInv, SteadyInv, NEW c \in Calls, Step(c), trouble = 0, trouble' = 0
    PROVE  Program!Smooth \/ UNCHANGED <<bead, agents, closed>>
<1>1. /\ call[c].at \in Places /\ call[c] \in Call
      /\ trouble \in Nat
  BY OneCall DEF IType
<1>2. /\ call[c].op # "advance" /\ call[c].at # "rollback" /\ Steady(c)
      /\ call[c].at \in {"lock", "mark", "launch"} => \A b \in call[c].todo \cup call[c].done : agents[b] = 0
  BY <1>1 DEF OnceInv, SteadyInv
<1>3. call[c].todo \subseteq Beads /\ call[c].done \subseteq Beads BY <1>1 DEF Call
<1>4. CASE StartMark(c) \/ ReviewMark(c)
  <2>1. PICK b \in call[c].todo : bead' = [bead EXCEPT ![b] = "in_progress"] /\ UNCHANGED <<agents, closed>>
    <3>1. PICK b \in call[c].todo, ok \in BOOLEAN : BrUpdate(b, "in_progress", ok) /\ UNCHANGED agents
      BY <1>4 DEF StartMark, ReviewMark
    <3>2. ok = TRUE BY <3>1 DEF BrUpdate, Trouble
    <3> QED BY <3>1, <3>2 DEF BrUpdate
  <2>2. call[c].at \in {"mark", "launch"} BY <1>4 DEF StartMark, ReviewMark, At
  <2>3. bead[b] = "open" /\ agents[b] = 0 /\ Needs[b] \subseteq closed
    BY <1>2, <2>2 DEF Steady, Ordered, Due
  <2>4. Program!Start(b) BY <2>1, <2>3 DEF Program!Start, Program!Due, Program!Becomes
  <2> QED BY <1>3, <2>4 DEF Program!Smooth
<1>5. CASE StartLaunch(c) \/ ReviewLaunch(c)
  <2>1. call[c].at \in {"mark", "launch"} /\ Launch(call[c].done) /\ UNCHANGED <<bead, closed>>
    BY <1>5 DEF StartLaunch, ReviewLaunch, At, NoBr
  <2>2. \A b \in call[c].done : bead[b] = "in_progress" /\ agents[b] = 0 /\ Needs[b] \subseteq closed
    BY <1>2, <2>1 DEF Steady, Ordered, Due
  <2>3. agents' = [b \in Beads |-> IF b \in call[c].done THEN 1 ELSE agents[b]]
    BY <2>1, <2>2 DEF Launch, IType, TypeOK
  <2>4. Program!Send(call[c].done) BY <2>1, <2>2, <2>3 DEF Program!Send, Program!Due
  <2> QED BY <1>3, <2>4 DEF Program!Smooth
<1>6. CASE ReviewClose(c)
  <2> DEFINE b == call[c].bead
  <2>1. bead' = [bead EXCEPT ![b] = "closed"] /\ closed' = closed \cup {b} /\ UNCHANGED agents
    BY <1>6 DEF ReviewClose, BrUpdate, Trouble
  <2>2. b \in Beads /\ bead[b] # "open" BY <1>2, <1>6 DEF ReviewClose, At, Steady
  <2>3. Program!Close(b) BY <2>1, <2>2 DEF Program!Close, Program!Becomes
  <2> QED BY <2>2, <2>3 DEF Program!Smooth
<1>7. CASE ReviewParent(c)
  <2> DEFINE p == Parent[call[c].bead]
  <2>1. bead' = [bead EXCEPT ![p] = "closed"] /\ closed' = closed \cup {p} /\ UNCHANGED agents
    BY <1>7 DEF ReviewParent, BrUpdate, Trouble
  <2>2. call[c].bead \in Beads /\ \A d \in Beads : Parent[d] = p => bead[d] = "closed"
    BY <1>2, <1>7 DEF ReviewParent, At, Steady
  <2>3. p \in Beads BY <1>7 DEF ReviewParent, At, IType, Shaped
  <2>4. Program!Whole(p) BY <2>2 DEF Program!Whole, Program!Children
  <2>5. Program!Close(p) BY <2>1, <2>4 DEF Program!Close, Program!Becomes
  <2> QED BY <2>3, <2>5 DEF Program!Smooth
<1>8. CASE ReviewSkip(c)
  <2> DEFINE b == call[c].bead
  <2>1. bead' = [bead EXCEPT ![b] = "deferred"] /\ UNCHANGED <<agents, closed>>
    BY <1>8 DEF ReviewSkip, BrUpdate, Trouble
  <2>2. b \in Beads /\ bead[b] # "open" BY <1>2, <1>8 DEF ReviewSkip, At, Steady
  <2>3. Program!Defer(b) BY <2>1, <2>2 DEF Program!Defer, Program!Becomes
  <2> QED BY <2>2, <2>3 DEF Program!Smooth
<1> QED BY <1>2, <1>4, <1>5, <1>6, <1>7, <1>8
      DEF Step, At, NoBr, BrReads, StartListed, StartReady, StartLock, StartRollback, StartRolledBack,
          ReviewShow, ReviewSiblings, EnterGates, ReviewNext, AdvanceShow, AdvanceClose, AdvanceVerified,
          AdvanceDispatch

\* So is one of the coordinator or of an implementer.
LEMMA SmoothStep ==
    ASSUME IType, Ordered, OnceInv, SteadyInv, [Next]_vars, trouble = 0, trouble' = 0
    PROVE  Program!Smooth \/ UNCHANGED <<bead, agents, closed>>
<1>1. ASSUME NEW b \in Beads, Implement(b) PROVE Program!Smooth
  <2>1. agents[b] > 0 /\ agents[b] <= 1 /\ bead[b] # "open" /\ agents[b] \in 0..2
    BY <1>1 DEF Implement, Claim, Done, OnceInv, IType, TypeOK
  <2>2. agents[b] = 1 BY <2>1
  <2>3. Done(b) BY <1>1, <2>1 DEF Implement, Claim
  <2>4. agents' = [agents EXCEPT ![b] = 0] BY <2>2, <2>3 DEF Done
  <2>5. Program!Leave(b) BY <2>1, <2>2, <2>3, <2>4 DEF Done, Program!Leave, Program!Becomes
  <2> QED BY <2>5 DEF Program!Smooth
<1> QED BY <1>1, SmoothCalls DEF Next, vars, CallStart, CallAdvance, Review, Skip, Begin

LEMMA ProgramStep ==
    ASSUME IType, ClosedWas, Ordered, Attended, OnceInv, SteadyInv, [Next]_vars
    PROVE  [Program!Next]_Program!vars
<1>1. trouble \in Nat /\ trouble' \in Nat
  BY StepTypes, WaveAssumption DEF IType, TypeOK, WaveAssumption
<1>2. CASE trouble' > 0
  BY <1>2, CarefulStep DEF Program!Next
<1>3. CASE trouble' = 0
  <2>1. trouble = 0
    <3>1. ASSUME NEW c \in Calls, Step(c) PROVE trouble' \in {trouble, trouble + 1}
      BY <3>1, OneCall DEF IType
    <3> QED BY <1>1, <1>3, <3>1
            DEF Next, vars, CallStart, CallAdvance, Review, Skip, Begin, Trouble, Implement, Claim, Done
  <2>2. Program!Smooth \/ UNCHANGED <<bead, agents, closed>> BY <1>3, <2>1, SmoothStep
  <2>3. (trouble' > 0) = (trouble > 0) /\ ~(trouble > 0) /\ ~(trouble' > 0) BY <1>3, <2>1
  <2>4. CASE Program!Smooth BY <2>3, <2>4 DEF Program!Next
  <2>5. CASE UNCHANGED <<bead, agents, closed>> BY <2>3, <2>5 DEF Program!vars
  <2> QED BY <2>2, <2>4, <2>5
<1> QED BY <1>1, <1>2, <1>3

\* The waves implement the abstract program of beads, for every program, however many
\* calls overlap and whatever fails: until something goes wrong a bead goes
\* from open over in_progress to closed or deferred, with one implementer and
\* after what it needs, and no tool opens it again; after that still none is
\* begun before what it needs was done.
THEOREM WavesImplementProgram == Spec => ImplementsProgram
<1>1. Init => ClosedWas /\ Ordered /\ OnceInv /\ Attended /\ SteadyInv
  BY DEF Init, ClosedWas, Ordered, Early, OnceInv, Attended, SteadyInv, Steady, Idle
<1>2. Init => Program!Init
  <2>1. (0 > 0) = FALSE OBVIOUS
  <2> QED BY <2>1 DEF Init, Program!Init
<1>3. IType => TypeOK BY DEF IType
<1> QED BY <1>1, <1>2, <1>3, InitTypes, StepTypes, ClosedStep, OrderedStep, OnceStep, AttendedStep,
           SteadyStep, ProgramStep, PTL DEF Spec, ImplementsProgram, Program!Spec
=============================================================================
