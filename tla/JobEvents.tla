------------------------------ MODULE JobEvents ------------------------------
(***************************************************************************)
(* How the events of a job reach the browsers: the debouncing EventBus     *)
(* (fuzzbin/core/event_bus.py) on top of the ConnectionManager and the     *)
(* /ws/events endpoint (fuzzbin/web/routes/websocket.py).                  *)
(*                                                                         *)
(* One asyncio loop runs the handler of each job, the tasks that report    *)
(* its progress, the timers that flush it, the worker that announces its   *)
(* end, and one endpoint per connection.  An action is the code between    *)
(* two awaits that may suspend.  Every websocket send may suspend; the     *)
(* senders suspended on one connection resume in the order they came.      *)
(*                                                                         *)
(* A progress value n is the n-th update_progress() of the job.            *)
(***************************************************************************)
EXTENDS Naturals, Sequences, FiniteSets

CONSTANTS
  Jobs,         \* the jobs whose handlers are running
  Connections,  \* the websocket connections
  Order,        \* [Connections -> Nat], iteration order of the connection set
  NoJob,        \* nobody holds the lock of the event bus
  MaxProgress   \* bound on the updates of each job

ASSUME EventsAssumption ==
  /\ NoJob \notin Jobs
  /\ Order \in [Connections -> Nat]
  /\ \A c, d \in Connections : Order[c] = Order[d] => c = d
  /\ MaxProgress \in [Jobs -> Nat]

Progress(j, n) == [job |-> j, kind |-> "progress", value |-> n]
TerminalEvent(j) == [job |-> j, kind |-> "terminal", value |-> 0]
Events == (UNION {{Progress(j, n) : n \in 1..MaxProgress[j]} : j \in Jobs})
          \cup {TerminalEvent(j) : j \in Jobs}

VARIABLES
  job,       \* "running", "ended", then the stages of its terminal event
  progress,  \* the progress of each job object
  emits,     \* the emit_job_progress() tasks not yet run
  pending,   \* _pending_progress, 0 without an entry
  flush,     \* the flush task of the entry
  lock,      \* the terminal event that holds the bus lock over an await
  down,      \* the bus was shut down
  todo,      \* for each broadcast, the connections it has still to serve
  stuck,     \* for each connection, the broadcasts suspended in a send to it
  client,    \* the endpoint of each connection
  active,    \* active_connections
  subs,      \* _job_subscriptions: the jobs a connection follows, {} for none
  sent,      \* history: the events whose broadcast has begun
  got,       \* history: the events written to each connection
  listed     \* history: the jobs its last job_state listed as active

bus == <<job, progress, emits, pending, flush, lock, down>>
wire == <<todo, stuck, sent, got>>
manager == <<client, active, subs, listed>>
vars == <<bus, wire, manager>>

(***************************************************************************)
(* ConnectionManager.broadcast_dict().                                     *)
(***************************************************************************)

First(cs) == {c \in cs : \A d \in cs : Order[c] <= Order[d]}

Live(cs) == {c \in cs : client[c] \in {"open", "confirming"}}

\* The broadcast of e goes on with the connections `rest`: it writes to the
\* first one that is alive and waits there.  `queue` is `stuck` without e.
\* At the end the connections whose send failed are dropped.
Go(e, rest, queue) ==
  /\ got' = [c \in Connections |->
               IF c \in First(Live(rest)) THEN got[c] \cup {e} ELSE got[c]]
  /\ stuck' = [c \in Connections |->
                 IF c \in First(Live(rest)) THEN Append(queue[c], e) ELSE queue[c]]
  /\ todo' = [todo EXCEPT ![e] = IF Live(rest) = {} THEN {}
                                 ELSE rest \ First(Live(rest))]
  /\ IF Live(rest) = {}
     THEN /\ active' = active \ rest
          /\ subs' = [c \in Connections |-> IF c \in rest THEN {} ELSE subs[c]]
     ELSE UNCHANGED <<active, subs>>

\* The subscriptions are read once, when the broadcast begins.
Broadcast(e) ==
  /\ sent' = sent \cup {e}
  /\ Go(e, {c \in active : e.job \in subs[c]}, stuck)
  /\ UNCHANGED <<client, listed>>

InFlight(e) == todo[e] # {} \/ \E c \in Connections : \E i \in DOMAIN stuck[c] : stuck[c][i] = e

\* The oldest sender suspended on c resumes; on a dead connection its send
\* raises, and c counts as served in vain.
Resume(c) ==
  /\ stuck[c] # <<>>
  /\ LET e == Head(stuck[c])
         failed == {c} \ Live({c})
     IN Go(e, todo[e] \cup failed, [stuck EXCEPT ![c] = Tail(@)])
  /\ UNCHANGED <<bus, sent, client, listed>>

(***************************************************************************)
(* EventBus.                                                               *)
(***************************************************************************)

\* Job.update_progress(): the callback starts a task that will emit.
UpdateProgress(j) ==
  /\ job[j] = "running"
  /\ progress[j] < MaxProgress[j]
  /\ progress' = [progress EXCEPT ![j] = @ + 1]
  /\ emits' = [emits EXCEPT ![j] = @ + 1]
  /\ UNCHANGED <<job, pending, flush, lock, down, wire, manager>>

\* The handler is left and the job marked; the worker persists the status
\* and only then announces it.
HandlerEnds(j) ==
  /\ job[j] = "running"
  /\ job' = [job EXCEPT ![j] = "ended"]
  /\ UNCHANGED <<progress, emits, pending, flush, lock, down, wire, manager>>

\* Mutant: the first of several updates is kept.
FirstOf(j) == IF pending[j] = 0 THEN progress[j] ELSE pending[j]

\* What the pending entry holds after an update: the state of the job now.
LatestOf(j) == progress[j]

\* emit_job_progress(): a new entry gets a timer, an old one keeps its own.
EmitProgress(j) ==
  /\ emits[j] > 0
  /\ lock = NoJob
  /\ emits' = [emits EXCEPT ![j] = @ - 1]
  /\ pending' = [pending EXCEPT ![j] = LatestOf(j)]
  /\ flush' = [flush EXCEPT ![j] = IF @ = "none" THEN "sleeping" ELSE @]
  /\ UNCHANGED <<job, progress, lock, down, wire, manager>>

\* The debounce interval is over: the flush task asks for the lock, behind
\* the tasks that were ready before.
FlushWakes(j) ==
  /\ flush[j] = "sleeping"
  /\ emits[j] = 0
  /\ flush' = [flush EXCEPT ![j] = "locking"]
  /\ UNCHANGED <<job, progress, emits, pending, lock, down, wire, manager>>

\* _flush_progress(): take the entry out and broadcast it.
Flush(j) ==
  /\ pending' = [pending EXCEPT ![j] = 0]
  /\ flush' = [flush EXCEPT ![j] = "none"]
  /\ Broadcast(Progress(j, pending[j]))

FlushTimer(j) ==
  /\ flush[j] = "locking"
  /\ lock = NoJob
  /\ Flush(j)
  /\ UNCHANGED <<job, progress, emits, lock, down>>

\* Mutants: the task is not cancelled before it is awaited; a terminal
\* event does not look for pending progress.
NotCancelled(j) == flush[j]
NeverPending(j) == FALSE

\* What is left of the flush task that a terminal event cancels.
Cancelled(j) == "cancelled"

HasPending(j) == pending[j] # 0

\* A terminal event, up to the await of the flush task it cancels under the
\* lock.  The updates of the handler were emitted before: their tasks are
\* older than the write of the status.
TerminalBegins(j) ==
  /\ job[j] = "ended"
  /\ emits[j] = 0
  /\ lock = NoJob
  /\ IF HasPending(j)
     THEN /\ job' = [job EXCEPT ![j] = "cancelling"]
          /\ flush' = [flush EXCEPT ![j] = Cancelled(j)]
          /\ lock' = j
          /\ UNCHANGED <<wire, manager>>
     ELSE /\ job' = [job EXCEPT ![j] = "told"]
          /\ Broadcast(TerminalEvent(j))
          /\ UNCHANGED <<flush, lock>>
  /\ UNCHANGED <<progress, emits, pending, down>>

\* The flush task has ended: release the lock and flush in its place.
TerminalFlushes(j) ==
  /\ job[j] = "cancelling"
  /\ flush[j] \in {"cancelled", "none"}
  /\ job' = [job EXCEPT ![j] = "flushing"]
  /\ lock' = NoJob
  /\ Flush(j)
  /\ UNCHANGED <<progress, emits, down>>

\* The progress is out: the terminal event follows.
TerminalTells(j) ==
  /\ job[j] = "flushing"
  /\ ~InFlight(Progress(j, progress[j]))
  /\ job' = [job EXCEPT ![j] = "told"]
  /\ Broadcast(TerminalEvent(j))
  /\ UNCHANGED <<progress, emits, pending, flush, lock, down>>

\* shutdown(): cancels the timers and drops what they would have sent.
Shutdown ==
  /\ ~down
  /\ lock = NoJob
  /\ down' = TRUE
  /\ pending' = [j \in Jobs |-> 0]
  /\ flush' = [j \in Jobs |-> "none"]
  /\ UNCHANGED <<job, progress, emits, lock, wire, manager>>

(***************************************************************************)
(* The endpoint of a connection.                                           *)
(***************************************************************************)

\* Accepted, authenticated and added.
Connect(c) ==
  /\ client[c] = "none"
  /\ client' = [client EXCEPT ![c] = "open"]
  /\ active' = active \cup {c}
  /\ UNCHANGED <<bus, wire, subs, listed>>

\* Mutants: finished jobs that the registry still holds are listed; an
\* endpoint forgets only its connection.
AllJobs == Jobs
KeepFilter(c) == subs[c]

\* subscribe_jobs(): the filter of a connection is replaced.
Subscribe(c, js) ==
  /\ client[c] = "open"
  /\ js # {}
  /\ subs' = [subs EXCEPT ![c] = js]
  /\ client' = [client EXCEPT ![c] = "confirming"]
  /\ listed' = [listed EXCEPT ![c] = {}]
  /\ UNCHANGED <<bus, wire, active>>

\* list_jobs() without the jobs in a terminal status.
ActiveJobs == {j \in Jobs : job[j] = "running"}

\* The confirmation is out: the active jobs that match the message follow,
\* unless the client did not ask for them.
SendState(c) ==
  /\ client[c] = "confirming"
  /\ client' = [client EXCEPT ![c] = "open"]
  /\ listed' \in {listed, [listed EXCEPT ![c] = subs[c] \cap ActiveJobs]}
  /\ UNCHANGED <<bus, wire, active, subs>>

Unsubscribe(c) ==
  /\ client[c] = "open"
  /\ subs[c] # {}
  /\ subs' = [subs EXCEPT ![c] = {}]
  /\ listed' = [listed EXCEPT ![c] = {}]
  /\ UNCHANGED <<bus, wire, client, active>>

\* The peer vanishes: sends to it raise from now on.
PeerGone(c) ==
  /\ client[c] \in {"open", "confirming"}
  /\ client' = [client EXCEPT ![c] = "gone"]
  /\ UNCHANGED <<bus, wire, active, subs, listed>>

\* What disconnect() leaves of the subscription.
DroppedFilter(c) == {}

\* The endpoint notices and runs its finally.
Disconnect(c) ==
  /\ client[c] = "gone"
  /\ client' = [client EXCEPT ![c] = "closed"]
  /\ active' = active \ {c}
  /\ subs' = [subs EXCEPT ![c] = DroppedFilter(c)]
  /\ UNCHANGED <<bus, wire, listed>>

-----------------------------------------------------------------------------

Init ==
  /\ job = [j \in Jobs |-> "running"]
  /\ progress = [j \in Jobs |-> 0]
  /\ emits = [j \in Jobs |-> 0]
  /\ pending = [j \in Jobs |-> 0]
  /\ flush = [j \in Jobs |-> "none"]
  /\ lock = NoJob
  /\ down = FALSE
  /\ todo = [e \in Events |-> {}]
  /\ stuck = [c \in Connections |-> <<>>]
  /\ sent = {}
  /\ got = [c \in Connections |-> {}]
  /\ client = [c \in Connections |-> "none"]
  /\ active = {}
  /\ subs = [c \in Connections |-> {}]
  /\ listed = [c \in Connections |-> {}]

BusStep(j) ==
  \/ EmitProgress(j)
  \/ FlushWakes(j)
  \/ FlushTimer(j)
  \/ TerminalBegins(j)
  \/ TerminalFlushes(j)
  \/ TerminalTells(j)

ClientStep(c) ==
  \/ Connect(c)
  \/ \E js \in SUBSET Jobs : Subscribe(c, js)
  \/ SendState(c)
  \/ Unsubscribe(c)
  \/ PeerGone(c)
  \/ Disconnect(c)

Next ==
  \/ \E j \in Jobs : UpdateProgress(j) \/ HandlerEnds(j) \/ BusStep(j)
  \/ \E c \in Connections : Resume(c) \/ ClientStep(c)
  \/ Shutdown

Spec == Init /\ [][Next]_vars

\* The loop runs whatever can go on, and a suspended send ends: the peer
\* reads, or the server's keep-alive closes the connection.
Fairness ==
  /\ \A j \in Jobs : WF_vars(BusStep(j))
  /\ \A c \in Connections : WF_vars(Resume(c))

FairSpec == Spec /\ Fairness

-----------------------------------------------------------------------------

\* Every variable has its type; there is an entry in _pending_progress as
\* long as there is a task that will flush it, and the lock is held exactly
\* by the terminal event that awaits such a task, which is then cancelled.
TypeOK ==
  /\ job \in [Jobs -> {"running", "ended", "cancelling", "flushing", "told"}]
  /\ \A j \in Jobs : {progress[j], emits[j], pending[j]} \subseteq 0..MaxProgress[j]
  /\ flush \in [Jobs -> {"none", "sleeping", "locking", "cancelled"}]
  /\ lock \in Jobs \cup {NoJob}
  /\ down \in BOOLEAN
  /\ todo \in [Events -> SUBSET Connections]
  /\ \A c \in Connections : stuck[c] \in Seq(Events)
  /\ client \in [Connections -> {"none", "open", "confirming", "gone", "closed"}]
  /\ active \subseteq Connections
  /\ subs \in [Connections -> SUBSET Jobs]
  /\ sent \subseteq Events
  /\ got \in [Connections -> SUBSET Events]
  /\ listed \in [Connections -> SUBSET Jobs]
  /\ \A j \in Jobs : /\ pending[j] = 0 <=> flush[j] = "none"
                     /\ lock = j <=> job[j] = "cancelling"
                     /\ flush[j] = "cancelled" <=> job[j] = "cancelling"

\* Debouncing loses no final state: when the end of a job is announced, the
\* last progress it reported has been handed to the connections.
LastProgressSent ==
  \A j \in Jobs :
    TerminalEvent(j) \in sent /\ progress[j] > 0 /\ ~down => Progress(j, progress[j]) \in sent

\* A client that was told that a job is active is told of its end too, as
\* long as it stays connected and subscribed: no job ends unnoticed between
\* the list of active jobs and the stream of events.
ListedJobsEnd ==
  \A c \in Connections : \A j \in listed[c] :
    TerminalEvent(j) \in sent /\ client[c] \in {"open", "confirming"}
      => TerminalEvent(j) \in got[c] \/ c \in todo[TerminalEvent(j)]

\* Nothing makes an ended job look alive: no flush of its progress begins after
\* its end was announced, and no job_state message lists it as active to a
\* client that has been told of its end.
NothingAfterEnd ==
  [][/\ \A j \in Jobs : \A n \in 1..MaxProgress[j] :
          TerminalEvent(j) \in sent /\ Progress(j, n) \in sent' => Progress(j, n) \in sent
     /\ \A c \in Connections : \A j \in listed'[c] \ listed[c] :
          TerminalEvent(j) \notin got[c]]_vars

\* Once its endpoint has ended, nothing is left of a connection, whatever
\* broadcasts were under way.
ClosedIsForgotten ==
  \A c \in Connections : client[c] = "closed" => c \notin active /\ subs[c] = {}

\* The tables of the bus and of the connection manager are in order.
Inv == TypeOK /\ ClosedIsForgotten

\* The end of a job is announced: the terminal event does not wait forever
\* for the flush task, which itself needs the lock the event holds.
EndIsAnnounced == \A j \in Jobs : job[j] = "ended" ~> job[j] = "told"
=============================================================================
