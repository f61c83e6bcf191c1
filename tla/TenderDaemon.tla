---------------------------- MODULE TenderDaemon ----------------------------
(***************************************************************************)
(* The tender daemon (mcp-server/src/tender-daemon.ts), which polls the    *)
(* coordinator's Agent Mail inbox and the panes of the swarm's session and *)
(* appends what changed to tender-events.log.                              *)
(*                                                                         *)
(* A poll has awaits between the clock reading it is stamped with, the     *)
(* inbox, the panes and each append; agents send messages, a stop is asked *)
(* for and the process dies in between.  The timer never starts a poll     *)
(* during another.  Times matter only by their order with the stamps of    *)
(* polls, so a message's created_ts is one of four classes.                *)
(***************************************************************************)
EXTENDS Naturals, FiniteSets

CONSTANTS
    Messages,    \* messages of the inbox, with different ids
    Panes,       \* panes of the session, "_session" (robotState) among them
    PaneStates,  \* what ntm says of a pane
    Unknown,     \* what a pane is of which ntm says nothing
    Limit,       \* how many messages fetch_inbox is asked for (200)
    MaxTracked   \* MAX_TRACKED_MESSAGE_IDS (2000)

ASSUME LimitAssumption == Limit \in Nat /\ MaxTracked \in Nat /\ Limit <= MaxTracked
ASSUME PanesAssumption == Unknown \in PaneStates
ASSUME MessagesAssumption == IsFiniteSet(Messages)

VARIABLES
    stamp,    \* created_ts of each message: "unsent"; "old", up to the
              \* state's lastPollTs; "recent", after it and up to the pollTs of
              \* the poll in progress; "now", later
    known,    \* state.knownMessageIds
    panes,    \* state.paneStates and state.robotState
    at,       \* what the poll in progress awaits
    got,      \* the messages its snapshot has
    pending,  \* the events it has still to append
    log,      \* the file: how often it has a message, up to 2, what its last
              \* event of a pane says, and whether daemon_stopped is there
    broken,   \* whether writeQueue is rejected
    life,     \* of the process: "starting" until the first poll has ended
    seen,     \* history: messages some fetch answered
    missed    \* history: messages a fetch made after them did not answer

vars == <<stamp, known, panes, at, got, pending, log, broken, life, seen, missed>>

Stamps == {"unsent", "old", "recent", "now"}
Events == [tick : BOOLEAN, messages : SUBSET Messages, panes : SUBSET Panes]
Log    == [messages : [Messages -> 0..2], panes : [Panes -> PaneStates], stopped : BOOLEAN]

NoEvents == [tick |-> FALSE, messages |-> {}, panes |-> {}]
Sent     == {m \in Messages : stamp[m] # "unsent"}
Recorded == {m \in Messages : log.messages[m] > 0}
Alive    == life \in {"starting", "running", "stopping"}

\* The mailbox may hold messages when the daemon starts: lastPollTs is 0.
Init == /\ stamp \in [Messages -> {"unsent", "now"}]
        /\ known = {} /\ panes = [p \in Panes |-> Unknown]
        /\ at = "idle" /\ got = {} /\ pending = NoEvents
        /\ log = [messages |-> [m \in Messages |-> 0], panes |-> panes, stopped |-> FALSE]
        /\ broken = FALSE /\ life = "starting"
        /\ seen = {} /\ missed = {}

(***************************************************************************)
(* A poll.                                                                 *)
(***************************************************************************)

\* An agent sends a message.
Send(m) == /\ Alive /\ stamp[m] = "unsent"
           /\ stamp' = [stamp EXCEPT ![m] = "now"]
           /\ UNCHANGED <<known, panes, at, got, pending, log, broken, life, seen, missed>>

\* The timer fires, or the daemon starts, with no poll in flight: pollTs is read.
Poll == /\ at = "idle" /\ life \in {"starting", "running"}
        /\ at' = "inbox"
        /\ stamp' = [m \in Messages |-> IF stamp[m] = "now" THEN "recent" ELSE stamp[m]]
        /\ UNCHANGED <<known, panes, got, pending, log, broken, life, seen, missed>>

\* What fetch_inbox answers: the newest messages, up to the limit.
Newest(ms) == /\ ms \subseteq Sent /\ Cardinality(ms) <= Limit
              /\ ms = Sent \/ Cardinality(ms) = Limit
              /\ \A m \in ms, n \in Sent \ ms : stamp[m] = "old" => stamp[n] = "old"
              /\ \A m \in ms, n \in Sent \ ms : stamp[n] = "now" => stamp[m] = "now"

\* The inbox answers; a failed RPC (ms = {}) answers like an empty inbox.
Fetch == /\ at = "inbox" /\ Alive
         /\ \E ms \in SUBSET Messages :
              /\ ms = {} \/ Newest(ms)
              /\ got' = ms /\ seen' = seen \cup ms /\ missed' = missed \cup (Sent \ ms)
         /\ at' = "panes"
         /\ UNCHANGED <<stamp, known, panes, pending, log, broken, life>>

\* trimKnownMessageIds: what is left of the known ids when the fetched ones
\* are added.  The ids are in the order of their adding; the oldest go.
Trimmed(ids, fetched, left) ==
    /\ left \subseteq ids \cup fetched /\ Cardinality(left) <= MaxTracked
    /\ left = ids \cup fetched \/ Cardinality(left) = MaxTracked
    /\ fetched \ ids \subseteq left \/ left \subseteq fetched \ ids

\* Mutant: only the time decides what is new.
NewByTime == {m \in got : stamp[m] # "old"}

\* The messages of the snapshot that are recorded: not known and later than
\* the poll before.
New == {m \in got \ known : stamp[m] # "old"}

\* Mutant: the poll is stamped when its snapshot is complete, not when it begins.
PolledLate(ms) == [m \in Messages |-> IF ms[m] \in {"recent", "now"} THEN "old" ELSE ms[m]]

\* When the poll's pollTs becomes lastPollTs.
Polled(ms) == [m \in Messages |-> IF ms[m] = "recent" THEN "old" ELSE ms[m]]

\* ntm answers, or fails and every pane is unknown; runTenderDaemonOnce
\* compares and the daemon's state is the new one before any event is written.
Read == /\ at = "panes" /\ Alive
        /\ \E view \in [Panes -> PaneStates], left \in SUBSET Messages :
             /\ Trimmed(known, got, left)
             /\ known' = left /\ panes' = view
             /\ pending' = [tick |-> TRUE, messages |-> New,
                            panes |-> {p \in Panes : view[p] # panes[p]}]
        /\ stamp' = Polled(stamp)
        /\ at' = "append"
        /\ UNCHANGED <<got, log, broken, life, seen, missed>>

\* queueEvent for the events of a poll in their order: the tick, the messages,
\* the panes.  An append is awaited before the next is queued.
Appending == at = "append" /\ Alive /\ ~broken

WriteTick == /\ Appending /\ pending.tick
             /\ pending' = [pending EXCEPT !.tick = FALSE]
             /\ UNCHANGED <<stamp, known, panes, at, got, log, broken, life, seen, missed>>

WriteMessage == /\ Appending /\ ~pending.tick
                /\ \E m \in pending.messages :
                     /\ pending' = [pending EXCEPT !.messages = @ \ {m}]
                     /\ log' = [log EXCEPT !.messages[m] = IF @ < 2 THEN @ + 1 ELSE @]
                /\ UNCHANGED <<stamp, known, panes, at, got, broken, life, seen, missed>>

WritePane == /\ Appending /\ ~pending.tick /\ pending.messages = {}
             /\ \E p \in pending.panes :
                  /\ pending' = [pending EXCEPT !.panes = @ \ {p}]
                  /\ log' = [log EXCEPT !.panes[p] = panes[p]]
             /\ UNCHANGED <<stamp, known, panes, at, got, broken, life, seen, missed>>

\* Mutant: the queue recovers from a failed append and the poll's other events are dropped.
DropsEvents == /\ Appending /\ pending # NoEvents
               /\ pending' = NoEvents
               /\ UNCHANGED <<stamp, known, panes, at, got, log, broken, life, seen, missed>>

\* An append fails: the poll ends there, and the queue, which every later
\* append is chained to, stays rejected.
WriteFails == /\ Appending /\ pending # NoEvents
              /\ broken' = TRUE
              /\ UNCHANGED <<stamp, known, panes, at, got, pending, log, life, seen, missed>>

\* The poll is over: its events are written, or the queue rejects the next.
\* After the first one the caller has the daemon and its signals are handled.
PollEnds == /\ at = "append" /\ Alive /\ (broken \/ pending = NoEvents)
            /\ at' = "idle" /\ pending' = NoEvents /\ got' = {}
            /\ life' = IF life = "starting" THEN "running" ELSE life
            /\ UNCHANGED <<stamp, known, panes, log, broken, seen, missed>>

(***************************************************************************)
(* The end of the daemon.                                                  *)
(***************************************************************************)

\* Mutant: stop() does not await the poll in flight.
StopsAtOnce == /\ life = "stopping" /\ ~log.stopped /\ ~broken
               /\ log' = [log EXCEPT !.stopped = TRUE]
               /\ UNCHANGED <<stamp, known, panes, at, got, pending, broken, life, seen, missed>>

\* SIGTERM or SIGINT: no further poll begins.
StopAsked == /\ life = "running" /\ life' = "stopping"
             /\ UNCHANGED <<stamp, known, panes, at, got, pending, log, broken, seen, missed>>

\* Mutant: runCli waits for the stop to succeed.
StoppedWritten(file) == ~broken /\ file = [log EXCEPT !.stopped = TRUE]

\* stop() has awaited the poll in flight and appends daemon_stopped; whether
\* that succeeds or not, runCli returns.
Stopped(file) == IF broken THEN file = log ELSE file \in {log, [log EXCEPT !.stopped = TRUE]}

StopWrites == /\ life = "stopping" /\ at = "idle"
              /\ \E file \in {log, [log EXCEPT !.stopped = TRUE]} : Stopped(file) /\ log' = file
              /\ life' = "ended"
              /\ UNCHANGED <<stamp, known, panes, at, got, pending, broken, seen, missed>>

\* The process dies: by a signal before the handlers are there, by SIGKILL,
\* with the machine.
Killed == /\ Alive /\ life' = "killed"
          /\ UNCHANGED <<stamp, known, panes, at, got, pending, log, broken, seen, missed>>

Append == WriteTick \/ WriteMessage \/ WritePane

Next == \/ \E m \in Messages : Send(m)
        \/ Poll \/ Fetch \/ Read
        \/ WriteTick \/ WriteMessage \/ WritePane \/ WriteFails \/ PollEnds
        \/ StopAsked \/ StopWrites \/ Killed

Spec == Init /\ [][Next]_vars

\* The timer fires, and what a poll awaits ends: the RPC and ntm have
\* timeouts, an append succeeds or fails.  Nobody has to send or to stop.
FairSpec == /\ Spec
            /\ WF_vars(Poll) /\ WF_vars(Fetch) /\ WF_vars(Read)
            /\ WF_vars(Append) /\ WF_vars(PollEnds) /\ WF_vars(StopWrites)

(***************************************************************************)
(* Properties.                                                             *)
(***************************************************************************)

\* The type of the state; the daemon tracks no more ids than its limit.
TypeOK == /\ stamp \in [Messages -> Stamps]
          /\ known \subseteq Messages /\ Cardinality(known) <= MaxTracked
          /\ panes \in [Panes -> PaneStates]
          /\ at \in {"idle", "inbox", "panes", "append"}
          /\ got \subseteq Messages /\ pending \in Events
          /\ log \in Log /\ broken \in BOOLEAN
          /\ life \in {"starting", "running", "stopping", "ended", "killed"}
          /\ seen \subseteq Messages /\ missed \subseteq Messages

\* A message is recorded at most once by a daemon, although the inbox answers
\* it at every poll and the ids it knows are dropped past a limit
\* (runTenderDaemonOnce, trimKnownMessageIds).
RecordedOnce == \A m \in Messages : log.messages[m] <= 1

\* Between two polls the log's pane events, replayed, give the states the
\* daemon compares with next: no change is lost or told from a wrong base.
PanesReplay == at = "idle" /\ ~broken => log.panes = panes

\* daemon_stopped is the last event of a daemon: nothing is appended after it,
\* a poll in flight when the stop was asked for included (stop).
StoppedLast == [][log.stopped => UNCHANGED log]_vars

\* A message that every fetch made after it answers is recorded in the end,
\* whatever it was sent between, unless an append fails or the daemon stops.
MessagesRecorded ==
    \A m \in Messages : m \in Sent ~> m \in Recorded \cup missed \/ broken \/ life # "running"

\* A daemon that is asked to stop ends, its queue broken or not (runCli).
StopEnds == life = "stopping" ~> life \in {"ended", "killed"}
=============================================================================
