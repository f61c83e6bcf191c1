------------------------- MODULE TenderDaemonProofs -------------------------
(***************************************************************************)
(* Theorems about TenderDaemon, for every number of messages and panes and *)
(* every limit of the tracked ids that is no less than the fetch's.        *)
(***************************************************************************)
EXTENDS TenderDaemon, FiniteSetTheorems, TLAPS

\* The ids fetched for the first time outlive the trimming: no more are fetched
\* than the daemon tracks.
LEMMA FreshIdsStay ==
    ASSUME NEW ids \in SUBSET Messages, NEW fetched \in SUBSET Messages, NEW left,
           Cardinality(fetched) <= Limit, Trimmed(ids, fetched, left)
    PROVE  fetched \ ids \subseteq left
<1> USE LimitAssumption, MessagesAssumption
<1> DEFINE fresh == fetched \ ids
<1>1. IsFiniteSet(fetched)
  BY FS_Subset
<1>2. IsFiniteSet(fresh) /\ Cardinality(fresh) <= Cardinality(fetched)
  BY <1>1, FS_Subset DEF fresh
<1>3. Cardinality(fresh) \in Nat /\ Cardinality(fetched) \in Nat
  BY <1>1, <1>2, FS_CardinalityType
<1>4. CASE Cardinality(left) = MaxTracked /\ left \subseteq fresh
  <2>1. Cardinality(fresh) <= MaxTracked
    BY <1>2, <1>3
  <2>2. Cardinality(left) <= Cardinality(fresh)
    BY <1>2, <1>4, FS_Subset
  <2>3. Cardinality(left) = Cardinality(fresh)
    BY <2>1, <2>2, <1>3, <1>4
  <2> QED BY <2>3, <1>2, <1>4, FS_Subset
<1> QED BY <1>4 DEF Trimmed, fresh

(***************************************************************************)
(* Type correctness.                                                       *)
(***************************************************************************)

\* The stamps of a poll are stamps.
LEMMA PolledType ==
    ASSUME NEW ms \in [Messages -> Stamps]
    PROVE  Polled(ms) \in [Messages -> Stamps]
BY DEF Polled, Stamps

\* The state keeps its type, and no more ids are tracked than the limit.
THEOREM TypeCorrect == Spec => []TypeOK
<1>1. Init => TypeOK
  <2> SUFFICES ASSUME Init PROVE TypeOK
    OBVIOUS
  <2>1. Cardinality(known) <= MaxTracked
    BY FS_EmptySet, LimitAssumption DEF Init
  <2>2. stamp \in [Messages -> Stamps]
    BY DEF Init, Stamps
  <2>3. panes \in [Panes -> PaneStates] /\ log \in Log
    BY PanesAssumption DEF Init, Log
  <2>4. pending \in Events
    BY DEF Init, NoEvents, Events
  <2> QED BY <2>1, <2>2, <2>3, <2>4 DEF Init, TypeOK
<1>2. TypeOK /\ [Next]_vars => TypeOK'
  <2> SUFFICES ASSUME TypeOK, [Next]_vars PROVE TypeOK'
    OBVIOUS
  <2> USE DEF TypeOK
  <2>1. ASSUME NEW m \in Messages, Send(m) PROVE TypeOK'
    BY <2>1 DEF Send, Stamps
  <2>2. CASE Poll
    <3>1. stamp' \in [Messages -> Stamps]
      BY <2>2 DEF Poll, Stamps
    <3> QED BY <2>2, <3>1 DEF Poll
  <2>3. CASE Fetch
    <3>1. got' \subseteq Messages /\ seen' \subseteq Messages /\ missed' \subseteq Messages
      BY <2>3 DEF Fetch, Sent
    <3> QED BY <2>3, <3>1 DEF Fetch
  <2>4. CASE Read
    <3>1. PICK view \in [Panes -> PaneStates], left \in SUBSET Messages :
            /\ Trimmed(known, got, left) /\ known' = left /\ panes' = view
            /\ pending' = [tick |-> TRUE, messages |-> New,
                           panes |-> {p \in Panes : view[p] # panes[p]}]
      BY <2>4 DEF Read
    <3>2. Cardinality(known') <= MaxTracked
      BY <3>1 DEF Trimmed
    <3>3. pending' \in Events
      BY <3>1 DEF Events, New
    <3> QED BY <2>4, <3>1, <3>2, <3>3, PolledType DEF Read
  <2>5. CASE WriteTick
    BY <2>5 DEF WriteTick, Events
  <2>6. CASE WriteMessage
    <3>1. PICK m \in pending.messages :
            /\ pending' = [pending EXCEPT !.messages = @ \ {m}]
            /\ log' = [log EXCEPT !.messages[m] = IF @ < 2 THEN @ + 1 ELSE @]
      BY <2>6 DEF WriteMessage
    <3>2. m \in Messages /\ pending' \in Events
      BY <3>1 DEF Events
    <3>3. log.messages[m] \in 0..2
      BY <3>2 DEF Log
    <3>4. (IF log.messages[m] < 2 THEN log.messages[m] + 1 ELSE log.messages[m]) \in 0..2
      BY <3>3
    <3>5. log' \in Log
      BY <3>1, <3>2, <3>4 DEF Log
    <3> QED BY <2>6, <3>2, <3>5 DEF WriteMessage
  <2>7. CASE WritePane
    <3>1. PICK p \in pending.panes : /\ pending' = [pending EXCEPT !.panes = @ \ {p}]
                                     /\ log' = [log EXCEPT !.panes[p] = panes[p]]
      BY <2>7 DEF WritePane
    <3>2. p \in Panes /\ pending' \in Events
      BY <3>1 DEF Events
    <3>3. log' \in Log
      BY <3>1, <3>2 DEF Log
    <3> QED BY <2>7, <3>2, <3>3 DEF WritePane
  <2>8. CASE WriteFails
    BY <2>8 DEF WriteFails
  <2>9. CASE PollEnds
    BY <2>9 DEF PollEnds, NoEvents, Events
  <2>10. CASE StopAsked \/ Killed
    BY <2>10 DEF StopAsked, Killed
  <2>11. CASE StopWrites
    BY <2>11 DEF StopWrites, Log
  <2>12. CASE UNCHANGED vars
    BY <2>12 DEF vars
  <2> QED BY <2>1, <2>2, <2>3, <2>4, <2>5, <2>6, <2>7, <2>8, <2>9, <2>10, <2>11, <2>12 DEF Next
<1> QED BY <1>1, <1>2, PTL DEF Spec

(***************************************************************************)
(* A message is recorded at most once.                                     *)
(***************************************************************************)

\* A message that is in the log or about to be.
Taken(m) == log.messages[m] > 0 \/ m \in pending.messages

\* Why the code is right: what was taken is older than lastPollTs or still
\* known, and once the next poll is stamped it is no later than that stamp, so
\* that it is old when its id may be dropped.
Once == /\ \A m \in Messages :
             /\ log.messages[m] <= 1
             /\ m \in pending.messages => log.messages[m] = 0
             /\ Taken(m) => \/ stamp[m] = "old"
                            \/ m \in known /\ stamp[m] \in {"recent", "now"}
             /\ Taken(m) /\ at \in {"inbox", "panes"} => stamp[m] # "now"
        /\ at # "append" => pending.messages = {}
        /\ got \subseteq Sent /\ Cardinality(got) <= Limit

\* RecordedOnce holds in every reachable state, for every limit of the tracked
\* ids that is no less than the fetch's (runTenderDaemonOnce).
THEOREM RecordsOnce == Spec => []RecordedOnce
<1>1. Init => Once
  BY FS_EmptySet, LimitAssumption DEF Init, Once, Taken, NoEvents
<1>2. TypeOK /\ Once /\ [Next]_vars => Once'
  <2> SUFFICES ASSUME TypeOK, Once, [Next]_vars PROVE Once'
    OBVIOUS
  <2>1. ASSUME NEW m \in Messages, Send(m) PROVE Once'
    BY <2>1 DEF TypeOK, Once, Taken, Send, Sent
  <2>2. CASE Poll
    BY <2>2 DEF TypeOK, Once, Taken, Poll, Sent
  <2>3. CASE Fetch
    <3>1. got' \subseteq Sent /\ Cardinality(got') <= Limit
      BY <2>3, FS_EmptySet, LimitAssumption DEF Fetch, Newest
    <3> QED BY <2>3, <3>1 DEF TypeOK, Once, Taken, Fetch, Sent
  <2>4. CASE Read
    <3>1. PICK left \in SUBSET Messages :
            Trimmed(known, got, left) /\ known' = left /\ pending'.messages = New
      BY <2>4 DEF Read
    <3>2. got \ known \subseteq known'
      BY <3>1, FreshIdsStay DEF TypeOK, Once
    <3>3. /\ at = "panes" /\ pending.messages = {} /\ at' = "append"
          /\ stamp' = Polled(stamp) /\ UNCHANGED <<log, got>>
      BY <2>4 DEF Read, Once
    <3>4. ASSUME NEW m \in Messages, log.messages[m] > 0 PROVE m \notin New /\ stamp'[m] = "old"
      BY <3>3, <3>4 DEF TypeOK, Once, Taken, New, Polled
    <3>5. ASSUME NEW m \in New PROVE m \in known' /\ stamp'[m] \in {"old", "now"}
      BY <3>2, <3>3, <3>5 DEF TypeOK, Once, Sent, Stamps, New, Polled
    <3>6. \A m \in Messages : m \notin New => log.messages[m] > 0 \/ log.messages[m] = 0
      BY DEF TypeOK, Log
    <3>7. New \subseteq Messages /\ \A m \in New : log.messages[m] = 0
      BY <3>4 DEF TypeOK, Log, New
    <3>8. got' \subseteq Sent'
      BY <3>3 DEF TypeOK, Once, Sent, Polled
    <3> QED BY <3>1, <3>3, <3>4, <3>5, <3>7, <3>8 DEF Once, Taken
  <2>5. CASE WriteTick
    BY <2>5 DEF TypeOK, Events, Once, Taken, WriteTick, Sent
  <2>6. CASE WriteMessage
    <3>1. PICK m \in pending.messages :
            /\ pending' = [pending EXCEPT !.messages = @ \ {m}]
            /\ log' = [log EXCEPT !.messages[m] = IF @ < 2 THEN @ + 1 ELSE @]
      BY <2>6 DEF WriteMessage
    <3>2. m \in Messages /\ log.messages[m] = 0 /\ at = "append"
      BY <2>6, <3>1 DEF TypeOK, Events, Once, WriteMessage, Appending
    <3>3. log'.messages = [log.messages EXCEPT ![m] = 1]
      BY <3>1, <3>2 DEF TypeOK, Log
    <3>4. pending'.messages = pending.messages \ {m}
      BY <3>1 DEF TypeOK, Events
    <3>5. UNCHANGED <<stamp, known, at, got>>
      BY <2>6 DEF WriteMessage
    <3>6. ASSUME NEW n \in Messages PROVE log'.messages[n] = IF n = m THEN 1 ELSE log.messages[n]
      BY <3>2, <3>3 DEF TypeOK, Log
    <3> QED BY <3>1, <3>2, <3>4, <3>5, <3>6 DEF Once, Taken, Sent
  <2>7. CASE WritePane
    BY <2>7 DEF TypeOK, Events, Log, Once, Taken, WritePane, Appending, Sent
  <2>8. CASE WriteFails
    BY <2>8 DEF Once, Taken, WriteFails, Sent
  <2>9. CASE PollEnds
    BY <2>9, FS_EmptySet, LimitAssumption
    DEF Once, Taken, PollEnds, NoEvents, Sent
  <2>10. CASE StopAsked \/ Killed
    BY <2>10 DEF Once, Taken, StopAsked, Killed, Sent
  <2>11. CASE StopWrites
    <3>1. log'.messages = log.messages
      BY <2>11 DEF TypeOK, Log, StopWrites
    <3> QED BY <2>11, <3>1 DEF Once, Taken, StopWrites, Sent
  <2>12. CASE UNCHANGED vars
    BY <2>12 DEF Once, Taken, vars, Sent
  <2> QED BY <2>1, <2>2, <2>3, <2>4, <2>5, <2>6, <2>7, <2>8, <2>9, <2>10, <2>11, <2>12 DEF Next
<1>3. Once => RecordedOnce
  BY DEF Once, RecordedOnce
<1> QED BY <1>1, <1>2, <1>3, TypeCorrect, PTL DEF Spec

(***************************************************************************)
(* The log replays to the states the daemon compares with.                 *)
(***************************************************************************)

\* While a poll's events are written the log lags behind by the pending ones.
Lag == /\ ~broken => \A p \in Panes : p \in pending.panes \/ log.panes[p] = panes[p]
       /\ at # "append" => pending.panes = {}

\* PanesReplay holds in every reachable state, for any panes (doPoll).
THEOREM PanesReplayed == Spec => []PanesReplay
<1>1. Init => Lag
  BY DEF Init, Lag, NoEvents
<1>2. TypeOK /\ Lag /\ [Next]_vars => Lag'
  <2> SUFFICES ASSUME TypeOK, Lag, [Next]_vars PROVE Lag'
    OBVIOUS
  <2> USE DEF Lag
  <2>1. ASSUME NEW m \in Messages, Send(m) PROVE Lag'
    BY <2>1 DEF Send
  <2>2. CASE Poll
    BY <2>2 DEF Poll
  <2>3. CASE Fetch
    BY <2>3 DEF Fetch
  <2>4. CASE Read
    <3>1. /\ pending'.panes = {p \in Panes : panes'[p] # panes[p]}
          /\ at = "panes" /\ at' = "append" /\ UNCHANGED <<log, broken>>
      BY <2>4 DEF Read
    <3> QED BY <3>1
  <2>5. CASE WriteTick
    BY <2>5 DEF TypeOK, Events, WriteTick
  <2>6. CASE WriteMessage
    <3>1. pending'.panes = pending.panes /\ log'.panes = log.panes
      BY <2>6 DEF TypeOK, Events, Log, WriteMessage
    <3> QED BY <2>6, <3>1 DEF WriteMessage
  <2>7. CASE WritePane
    <3>1. PICK p \in pending.panes : /\ pending' = [pending EXCEPT !.panes = @ \ {p}]
                                     /\ log' = [log EXCEPT !.panes[p] = panes[p]]
      BY <2>7 DEF WritePane
    <3>2. p \in Panes
      BY DEF TypeOK, Events
    <3>3. pending'.panes = pending.panes \ {p} /\ log'.panes = [log.panes EXCEPT ![p] = panes[p]]
      BY <3>1 DEF TypeOK, Events, Log
    <3>4. \A q \in Panes : log'.panes[q] = IF q = p THEN panes[p] ELSE log.panes[q]
      BY <3>2, <3>3 DEF TypeOK, Log
    <3>5. at = "append" /\ UNCHANGED <<at, panes, broken>>
      BY <2>7 DEF WritePane, Appending
    <3> QED BY <3>2, <3>3, <3>4, <3>5
  <2>8. CASE WriteFails
    BY <2>8 DEF WriteFails, Appending
  <2>9. CASE PollEnds
    <3>1. pending'.panes = {} /\ (broken \/ pending.panes = {})
      BY <2>9 DEF PollEnds, NoEvents
    <3> QED BY <2>9, <3>1 DEF PollEnds
  <2>10. CASE StopAsked \/ Killed
    BY <2>10 DEF StopAsked, Killed
  <2>11. CASE StopWrites
    <3>1. log'.panes = log.panes
      BY <2>11 DEF TypeOK, Log, StopWrites
    <3> QED BY <2>11, <3>1 DEF StopWrites
  <2>12. CASE UNCHANGED vars
    BY <2>12 DEF vars
  <2> QED BY <2>1, <2>2, <2>3, <2>4, <2>5, <2>6, <2>7, <2>8, <2>9, <2>10, <2>11, <2>12 DEF Next
<1>3. TypeOK /\ Lag => PanesReplay
  BY DEF TypeOK, Log, Lag, PanesReplay
<1> QED BY <1>1, <1>2, <1>3, TypeCorrect, PTL DEF Spec

(***************************************************************************)
(* daemon_stopped is the last event.                                       *)
(***************************************************************************)

\* Only a daemon that ended has written it.
StoppedEnded == log.stopped => life = "ended"

\* Nothing is appended after daemon_stopped (stop, runPoll).
THEOREM NothingAfterStopped == Spec => StoppedLast
<1>1. Init => StoppedEnded
  BY DEF Init, StoppedEnded
<1>2. TypeOK /\ StoppedEnded /\ [Next]_vars => StoppedEnded' /\ [log.stopped => UNCHANGED log]_vars
  <2> SUFFICES ASSUME TypeOK, StoppedEnded, [Next]_vars
               PROVE  StoppedEnded' /\ (log.stopped => UNCHANGED log)
    OBVIOUS
  <2>1. CASE UNCHANGED <<log, life>>
    BY <2>1 DEF StoppedEnded
  <2>2. CASE StopWrites
    BY <2>2 DEF StopWrites, StoppedEnded
  <2>3. CASE WriteMessage \/ WritePane
    <3>1. ~log.stopped /\ log'.stopped = log.stopped
      BY <2>3 DEF TypeOK, Log, WriteMessage, WritePane, Appending, Alive, StoppedEnded
    <3> QED BY <3>1 DEF StoppedEnded
  <2>4. CASE PollEnds \/ StopAsked \/ Killed
    <3>1. ~log.stopped /\ UNCHANGED log
      BY <2>4 DEF PollEnds, StopAsked, Killed, Alive, StoppedEnded
    <3> QED BY <3>1 DEF StoppedEnded
  <2>5. (\E m \in Messages : Send(m)) \/ Poll \/ Fetch \/ Read \/ WriteTick \/ WriteFails
            \/ UNCHANGED vars => UNCHANGED <<log, life>>
    BY DEF Send, Poll, Fetch, Read, WriteTick, WriteFails, vars
  <2> QED BY <2>1, <2>2, <2>3, <2>4, <2>5 DEF Next
<1> QED BY <1>1, <1>2, TypeCorrect, PTL DEF Spec, StoppedLast
=============================================================================
