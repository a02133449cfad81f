---------------------------- MODULE TrafficProofs ----------------------------
(***************************************************************************)
(* Theorems about the server's traffic with others: the events it sends to *)
(* browsers (JobEvents), for every set of jobs and connections and every   *)
(* number of progress updates, and the calls it makes to remote APIs       *)
(* (ApiClients), for every number of tasks, size of the bucket, set of     *)
(* rates and limit of the semaphore.                                       *)
(***************************************************************************)
EXTENDS JobEvents, ApiClients, FiniteSetTheorems, SequenceTheorems, TLAPS

(* JobEvents.  Two layers: BusOrder says what the bus still owes for a job, *)
(* and FollowersServed what it owes to those who were told that the job is  *)
(* active.                                                                  *)


\* What TypeOK leaves open: the tables have an entry for each job and each
\* connection.
Tables ==
  /\ progress \in [Jobs -> Nat]
  /\ emits \in [Jobs -> Nat]
  /\ pending \in [Jobs -> Nat]
  /\ stuck \in [Connections -> Seq(Events)]

\* A job's latest progress is in a task that will emit it, in the pending
\* entry, or has been sent; the first two are over before the end is announced.
BusOrder ==
  \A j \in Jobs :
    /\ emits[j] <= progress[j]
    /\ job[j] \in {"cancelling", "flushing", "told"} => emits[j] = 0
    /\ job[j] \in {"flushing", "told"} => pending[j] = 0
    /\ emits[j] = 0 /\ pending[j] # 0 => pending[j] = progress[j]
    /\ ~down /\ emits[j] = 0 /\ pending[j] = 0 /\ progress[j] > 0
         => Progress(j, progress[j]) \in sent
    /\ job[j] = "told" <=> TerminalEvent(j) \in sent

Alive(c) == client[c] \in {"open", "confirming"}

\* Only what was sent is received or on its way, and whoever is alive is still
\* registered for the jobs it was told of.
FollowersServed ==
  \A c \in Connections :
    /\ \A i \in DOMAIN stuck[c] : stuck[c][i] \in sent
    /\ got[c] \subseteq sent
    /\ Alive(c) => c \in active /\ listed[c] \subseteq subs[c]
    /\ client[c] = "none" => listed[c] = {}

IInv ==
  TypeOK /\ Tables /\ BusOrder /\ FollowersServed /\ ListedJobsEnd /\ ClosedIsForgotten

-----------------------------------------------------------------------------
(***************************************************************************)
(* Events and broadcasts.                                                  *)
(***************************************************************************)

\* Which events there are, and that no two of them are the same.
LEMMA EventFacts ==
  ASSUME NEW j \in Jobs
  PROVE  /\ TerminalEvent(j) \in Events
         /\ \A n \in 1..MaxProgress[j] : Progress(j, n) \in Events
         /\ \A k \in Jobs : TerminalEvent(j) = TerminalEvent(k) => j = k
         /\ \A k \in Jobs : \A n : TerminalEvent(j) # Progress(k, n)
         /\ \A k \in Jobs : \A m, n : Progress(j, m) = Progress(k, n) => j = k /\ m = n
         /\ TerminalEvent(j).job = j
         /\ \A n : Progress(j, n).job = j
<1> DEFINE reports == UNION {{Progress(k, m) : m \in 1..MaxProgress[k]} : k \in Jobs}
           ends == {TerminalEvent(k) : k \in Jobs}
<1>0. Events = reports \cup ends
  BY DEF Events
<1>1. TerminalEvent(j) \in Events
  <2>1. TerminalEvent(j) \in ends
    OBVIOUS
  <2> HIDE DEF ends, reports
  <2> QED
    BY <1>0, <2>1
<1>2. ASSUME NEW n \in 1..MaxProgress[j]
      PROVE  Progress(j, n) \in Events
  <2> DEFINE mine == {Progress(j, m) : m \in 1..MaxProgress[j]}
  <2>1. Progress(j, n) \in mine
    OBVIOUS
  <2>2. mine \in {{Progress(k, m) : m \in 1..MaxProgress[k]} : k \in Jobs}
    OBVIOUS
  <2>3. Progress(j, n) \in reports
    BY <2>1, <2>2
  <2> HIDE DEF reports, ends
  <2> QED
    BY <1>0, <2>3
<1>3. \A k \in Jobs : TerminalEvent(j) = TerminalEvent(k) => j = k
  BY DEF TerminalEvent
<1>4. \A k \in Jobs : \A n : TerminalEvent(j) # Progress(k, n)
  BY DEF TerminalEvent, Progress
<1>5. \A k \in Jobs : \A m, n : Progress(j, m) = Progress(k, n) => j = k /\ m = n
  BY DEF Progress
<1>6. TerminalEvent(j).job = j /\ \A n : Progress(j, n).job = j
  BY DEF TerminalEvent, Progress
<1> QED
  BY <1>1, <1>2, <1>3, <1>4, <1>5, <1>6

\* A broadcast that goes on leaves the tables typed, drops only connections
\* that are dead and only those it was to serve.
LEMMA GoKeepsTables ==
  ASSUME TypeOK, Tables, NEW e \in Events, NEW rest \in SUBSET Connections,
         NEW queue \in [Connections -> Seq(Events)], Go(e, rest, queue)
  PROVE  /\ got' \in [Connections -> SUBSET Events]
         /\ stuck' \in [Connections -> Seq(Events)]
         /\ todo' \in [Events -> SUBSET Connections]
         /\ active' \subseteq active
         /\ subs' \in [Connections -> SUBSET Jobs]
         /\ \A c \in Connections : subs'[c] = {} \/ subs'[c] = subs[c]
         /\ \A c \in Connections : Alive(c) /\ c \in active => c \in active'
         /\ \A c \in Connections : Alive(c) => subs'[c] = subs[c]
<1>1. Live(rest) \subseteq rest /\ First(Live(rest)) \subseteq Live(rest)
  BY DEF Live, First
<1>2. got' \in [Connections -> SUBSET Events]
  <2>1. \A c \in Connections : got[c] \subseteq Events
    BY DEF TypeOK
  <2> QED
    BY <2>1 DEF Go
<1>3. stuck' \in [Connections -> Seq(Events)]
  BY DEF Go
<1>4. todo' \in [Events -> SUBSET Connections]
  BY <1>1 DEF Go, TypeOK
<1>5. CASE Live(rest) = {}
  <2>1. \A c \in Connections : Alive(c) => c \notin rest
    BY <1>5 DEF Live, Alive
  <2>2. active' = active \ rest
    BY <1>5 DEF Go
  <2>3. subs' = [c \in Connections |-> IF c \in rest THEN {} ELSE subs[c]]
    BY <1>5 DEF Go
  <2>4. \A c \in Connections : subs[c] \in SUBSET Jobs
    BY DEF TypeOK
  <2>5. subs' \in [Connections -> SUBSET Jobs]
    BY <2>3, <2>4
  <2> QED
    BY <1>2, <1>3, <1>4, <2>1, <2>2, <2>3, <2>5
<1>6. CASE Live(rest) # {}
  BY <1>2, <1>3, <1>4, <1>6 DEF Go, TypeOK
<1> QED
  BY <1>5, <1>6

\* Whom the broadcast of e was to serve and who is alive has been written to or
\* is still to be served; no other event is concerned.
LEMMA GoServes ==
  ASSUME TypeOK, Tables, NEW e \in Events, NEW rest \in SUBSET Connections,
         NEW queue \in [Connections -> Seq(Events)], Go(e, rest, queue)
  PROVE  /\ \A c \in Connections : got[c] \subseteq got'[c] /\ got'[c] \subseteq got[c] \cup {e}
         /\ \A c \in rest : Alive(c) => e \in got'[c] \/ c \in todo'[e]
         /\ \A f \in Events \ {e} : todo'[f] = todo[f]
         /\ \A c \in Connections : stuck'[c] = queue[c] \/ stuck'[c] = Append(queue[c], e)
<1>1. \A c \in rest : Alive(c) => c \in Live(rest)
  BY DEF Live, Alive
<1>2. \A c \in rest : Alive(c) => e \in got'[c] \/ c \in todo'[e]
  BY <1>1 DEF Go, TypeOK
<1> QED
  BY <1>2 DEF Go, TypeOK

\* What waits behind the head was waiting before.
LEMMA TailHolds ==
  ASSUME NEW S, NEW s \in Seq(S), s # <<>>
  PROVE  /\ Head(s) = s[1] /\ Head(s) \in S /\ 1 \in DOMAIN s
         /\ Tail(s) \in Seq(S)
         /\ \A i \in DOMAIN Tail(s) : i + 1 \in DOMAIN s /\ Tail(s)[i] = s[i + 1]
OBVIOUS

\* What is in a queue that has got one more.
LEMMA AppendHolds ==
  ASSUME NEW S, NEW s \in Seq(S), NEW e \in S
  PROVE  \A i \in DOMAIN Append(s, e) :
           (i \in DOMAIN s /\ Append(s, e)[i] = s[i]) \/ Append(s, e)[i] = e
OBVIOUS

\* What a broadcast that begins leaves in order.
LEMMA BroadcastKeeps ==
  ASSUME TypeOK, Tables, FollowersServed, ListedJobsEnd, ClosedIsForgotten,
         NEW e \in Events, Broadcast(e)
  PROVE  /\ got' \in [Connections -> SUBSET Events]
         /\ stuck' \in [Connections -> Seq(Events)]
         /\ todo' \in [Events -> SUBSET Connections]
         /\ active' \subseteq active
         /\ subs' \in [Connections -> SUBSET Jobs]
         /\ sent' = sent \cup {e}
         /\ FollowersServed' /\ ListedJobsEnd' /\ ClosedIsForgotten'
<1> DEFINE rest == {c \in active : e.job \in subs[c]}
<1>1. /\ sent' = sent \cup {e} /\ UNCHANGED <<client, listed>>
      /\ Go(e, rest, stuck)
      /\ rest \in SUBSET Connections /\ stuck \in [Connections -> Seq(Events)]
  BY DEF Broadcast, TypeOK, Tables
<1> HIDE DEF rest
<1>2. /\ got' \in [Connections -> SUBSET Events]
      /\ stuck' \in [Connections -> Seq(Events)]
      /\ todo' \in [Events -> SUBSET Connections]
      /\ active' \subseteq active
      /\ subs' \in [Connections -> SUBSET Jobs]
  BY <1>1, GoKeepsTables
<1>3. \A c \in Connections :
        /\ subs'[c] = {} \/ subs'[c] = subs[c]
        /\ Alive(c) /\ c \in active => c \in active'
        /\ Alive(c) => subs'[c] = subs[c]
  BY <1>1, GoKeepsTables
<1>4. /\ \A c \in Connections : got[c] \subseteq got'[c] /\ got'[c] \subseteq got[c] \cup {e}
      /\ \A c \in rest : Alive(c) => e \in got'[c] \/ c \in todo'[e]
      /\ \A f \in Events \ {e} : todo'[f] = todo[f]
      /\ \A c \in Connections : stuck'[c] = stuck[c] \/ stuck'[c] = Append(stuck[c], e)
  BY <1>1, GoServes
<1>5. FollowersServed'
  <2>1. ASSUME NEW c \in Connections, NEW i \in DOMAIN stuck'[c]
        PROVE  stuck'[c][i] \in sent'
    <3>1. stuck[c] \in Seq(Events)
      BY DEF Tables
    <3>2. (i \in DOMAIN stuck[c] /\ stuck'[c][i] = stuck[c][i]) \/ stuck'[c][i] = e
      BY <1>4, <2>1, <3>1, AppendHolds
    <3> QED
      BY <1>1, <3>2 DEF FollowersServed
  <2> QED
    BY <1>1, <1>3, <1>4, <2>1 DEF FollowersServed, Alive
<1>6. ListedJobsEnd'
  <2> SUFFICES ASSUME NEW c \in Connections, NEW j \in listed[c], Alive(c),
                      TerminalEvent(j) \in sent'
               PROVE  TerminalEvent(j) \in got'[c] \/ c \in todo'[TerminalEvent(j)]
    BY <1>1 DEF ListedJobsEnd, Alive
  <2>1. j \in Jobs /\ c \in active /\ j \in subs[c]
    BY DEF TypeOK, FollowersServed
  <2>2. TerminalEvent(j) \in Events /\ TerminalEvent(j).job = j
    BY <2>1, EventFacts
  <2>3. CASE TerminalEvent(j) = e
    <3>1. c \in rest
      BY <2>1, <2>2, <2>3 DEF rest
    <3> QED
      BY <1>4, <2>3, <3>1
  <2>4. CASE TerminalEvent(j) # e
    BY <1>1, <1>4, <2>2, <2>4 DEF ListedJobsEnd, Alive
  <2> QED
    BY <2>3, <2>4
<1>7. ClosedIsForgotten'
  BY <1>1, <1>2, <1>3 DEF ClosedIsForgotten
<1> QED
  BY <1>1, <1>2, <1>5, <1>6, <1>7

\* What one that goes on leaves in order.
LEMMA ResumeKeeps ==
  ASSUME IInv, NEW d \in Connections, Resume(d)
  PROVE  IInv'
<1> DEFINE e == Head(stuck[d])
           rest == todo[e] \cup ({d} \ Live({d}))
           queue == [stuck EXCEPT ![d] = Tail(@)]
<1>1. TypeOK /\ Tables /\ FollowersServed /\ ListedJobsEnd /\ ClosedIsForgotten /\ BusOrder
  BY DEF IInv
<1>2. /\ stuck[d] \in Seq(Events) /\ stuck[d] # <<>>
      /\ UNCHANGED <<bus, sent, client, listed>>
      /\ Go(e, rest, queue)
  BY <1>1 DEF Resume, Tables
<1>3. /\ e \in Events /\ e \in sent
      /\ Tail(stuck[d]) \in Seq(Events)
      /\ \A i \in DOMAIN Tail(stuck[d]) : Tail(stuck[d])[i] \in sent
  BY <1>1, <1>2, TailHolds DEF FollowersServed
<1>4. /\ rest \in SUBSET Connections
      /\ queue \in [Connections -> Seq(Events)]
      /\ \A c \in Connections : \A i \in DOMAIN queue[c] : queue[c][i] \in sent
  BY <1>1, <1>3 DEF TypeOK, Tables, FollowersServed
<1>5. todo[e] \subseteq rest
  OBVIOUS
<1> HIDE DEF e, rest, queue
<1>6. /\ got' \in [Connections -> SUBSET Events]
      /\ stuck' \in [Connections -> Seq(Events)]
      /\ todo' \in [Events -> SUBSET Connections]
      /\ active' \subseteq active
      /\ subs' \in [Connections -> SUBSET Jobs]
  BY <1>1, <1>2, <1>3, <1>4, GoKeepsTables
<1>7. \A c \in Connections :
        /\ subs'[c] = {} \/ subs'[c] = subs[c]
        /\ Alive(c) /\ c \in active => c \in active'
        /\ Alive(c) => subs'[c] = subs[c]
  BY <1>1, <1>2, <1>3, <1>4, GoKeepsTables
<1>8. /\ \A c \in Connections : got[c] \subseteq got'[c] /\ got'[c] \subseteq got[c] \cup {e}
      /\ \A c \in rest : Alive(c) => e \in got'[c] \/ c \in todo'[e]
      /\ \A f \in Events \ {e} : todo'[f] = todo[f]
      /\ \A c \in Connections : stuck'[c] = queue[c] \/ stuck'[c] = Append(queue[c], e)
  BY <1>1, <1>2, <1>3, <1>4, GoServes
<1>9. /\ UNCHANGED <<job, progress, emits, pending, flush, lock, down>>
      /\ UNCHANGED <<sent, client, listed>>
  BY <1>2 DEF bus
<1>10. TypeOK'
  BY <1>1, <1>6, <1>9 DEF TypeOK
<1>11. Tables'
  BY <1>1, <1>6, <1>9 DEF Tables
<1>12. BusOrder'
  BY <1>1, <1>9 DEF BusOrder
<1>13. FollowersServed'
  <2>1. ASSUME NEW c \in Connections, NEW i \in DOMAIN stuck'[c]
        PROVE  stuck'[c][i] \in sent'
    <3>1. queue[c] \in Seq(Events)
      BY <1>4
    <3>2. (i \in DOMAIN queue[c] /\ stuck'[c][i] = queue[c][i]) \/ stuck'[c][i] = e
      BY <1>3, <1>8, <2>1, <3>1, AppendHolds
    <3> QED
      BY <1>3, <1>4, <1>9, <3>2
  <2> QED
    BY <1>1, <1>3, <1>7, <1>8, <1>9, <2>1 DEF FollowersServed, Alive
<1>14. ListedJobsEnd'
  <2> SUFFICES ASSUME NEW c \in Connections, NEW j \in listed[c], Alive(c),
                      TerminalEvent(j) \in sent
               PROVE  TerminalEvent(j) \in got'[c] \/ c \in todo'[TerminalEvent(j)]
    BY <1>9 DEF ListedJobsEnd, Alive
  <2>1. j \in Jobs /\ TerminalEvent(j) \in Events
    BY <1>1, EventFacts DEF TypeOK
  <2>2. TerminalEvent(j) \in got[c] \/ c \in todo[TerminalEvent(j)]
    BY <1>1 DEF ListedJobsEnd, Alive
  <2>3. CASE TerminalEvent(j) = e
    BY <1>5, <1>8, <2>2, <2>3
  <2>4. CASE TerminalEvent(j) # e
    BY <1>8, <2>1, <2>2, <2>4
  <2> QED
    BY <2>3, <2>4
<1>15. ClosedIsForgotten'
  BY <1>1, <1>6, <1>7, <1>9 DEF ClosedIsForgotten
<1> QED
  BY <1>10, <1>11, <1>12, <1>13, <1>14, <1>15 DEF IInv

\* A step of the bus that sends nothing concerns the connections no more than
\* a step of somebody else's.
LEMMA NothingSent ==
  ASSUME FollowersServed, ListedJobsEnd, ClosedIsForgotten,
         UNCHANGED <<todo, stuck, sent, got, client, active, subs, listed>>
  PROVE  FollowersServed' /\ ListedJobsEnd' /\ ClosedIsForgotten'
BY DEF FollowersServed, Alive, ListedJobsEnd, ClosedIsForgotten
-----------------------------------------------------------------------------
(***************************************************************************)
(* The steps of the bus.                                                   *)
(***************************************************************************)

\* Progress is reported and collected, and the end of a handler noted, without
\* a word to the connections.
LEMMA QuietSteps ==
  ASSUME IInv, UNCHANGED <<wire, manager>>, NEW j \in Jobs,
         UpdateProgress(j) \/ HandlerEnds(j) \/ EmitProgress(j) \/ FlushWakes(j)
  PROVE  IInv'
<1>1. TypeOK /\ Tables /\ FollowersServed /\ ListedJobsEnd /\ ClosedIsForgotten /\ BusOrder
  BY DEF IInv
<1>2. UNCHANGED <<todo, stuck, sent, got, client, active, subs, listed>>
  BY DEF wire, manager
<1>3. FollowersServed' /\ ListedJobsEnd' /\ ClosedIsForgotten'
  BY <1>1, <1>2, NothingSent
<1>4. MaxProgress[j] \in Nat /\ progress[j] \in Nat /\ emits[j] \in Nat /\ pending[j] \in Nat
  BY <1>1, EventsAssumption DEF Tables
<1>6. CASE UpdateProgress(j)
  <2>0. Tables'
    BY <1>1, <1>2, <1>4, <1>6 DEF Tables, UpdateProgress
  <2>1. TypeOK'
    BY <1>1, <1>2, <1>4, <1>6, EventsAssumption DEF UpdateProgress, TypeOK, Tables, BusOrder
  <2>2. BusOrder'
    BY <1>1, <1>2, <1>4, <1>6 DEF UpdateProgress, Tables, BusOrder
  <2> QED
    BY <1>3, <2>0, <2>1, <2>2 DEF IInv
<1>7. CASE HandlerEnds(j)
  <2>0. Tables'
    BY <1>1, <1>2, <1>4, <1>7 DEF Tables, HandlerEnds
  <2>1. TypeOK'
    BY <1>1, <1>2, <1>7 DEF HandlerEnds, TypeOK
  <2>2. BusOrder'
    BY <1>1, <1>2, <1>7 DEF HandlerEnds, TypeOK, BusOrder
  <2> QED
    BY <1>3, <2>0, <2>1, <2>2 DEF IInv
<1>8. CASE EmitProgress(j)
  <2>0. Tables'
    BY <1>1, <1>2, <1>4, <1>8 DEF Tables, EmitProgress, LatestOf
  <2>1. TypeOK'
    BY <1>1, <1>2, <1>4, <1>8 DEF EmitProgress, LatestOf, TypeOK, Tables, BusOrder
  <2>2. BusOrder'
    BY <1>1, <1>2, <1>4, <1>8 DEF EmitProgress, LatestOf, Tables, BusOrder
  <2> QED
    BY <1>3, <2>0, <2>1, <2>2 DEF IInv
<1>9. CASE FlushWakes(j)
  <2>0. Tables'
    BY <1>1, <1>2, <1>4, <1>9 DEF Tables, FlushWakes
  <2>1. TypeOK'
    BY <1>1, <1>2, <1>9 DEF FlushWakes, TypeOK
  <2>2. BusOrder'
    BY <1>1, <1>2, <1>9 DEF FlushWakes, BusOrder
  <2> QED
    BY <1>3, <2>0, <2>1, <2>2 DEF IInv
<1> QED
  BY <1>6, <1>7, <1>8, <1>9

\* What is known of a job whose pending entry can be flushed, and of the event
\* that flushing it sends.
LEMMA PendingEvent ==
  ASSUME TypeOK, Tables, NEW j \in Jobs, pending[j] # 0
  PROVE  /\ Progress(j, pending[j]) \in Events
         /\ \A k \in Jobs : TerminalEvent(k) # Progress(j, pending[j])
<1>1. pending[j] \in 1..MaxProgress[j]
  BY EventsAssumption DEF TypeOK, Tables
<1> QED
  BY <1>1, EventFacts

\* A timer sends the pending progress when it gets the lock.
LEMMA FlushTimerKeeps ==
  ASSUME IInv, NEW j \in Jobs, FlushTimer(j)
  PROVE  IInv'
<1> DEFINE e == Progress(j, pending[j])
<1>1. TypeOK /\ Tables /\ FollowersServed /\ ListedJobsEnd /\ ClosedIsForgotten /\ BusOrder
  BY DEF IInv
<1>2. /\ flush[j] = "locking" /\ lock = NoJob
      /\ pending' = [pending EXCEPT ![j] = 0]
      /\ flush' = [flush EXCEPT ![j] = "none"]
      /\ Broadcast(e)
      /\ UNCHANGED <<job, progress, emits, lock, down>>
  BY DEF FlushTimer, Flush
<1>3. pending[j] # 0 /\ job[j] # "cancelling"
  BY <1>1, <1>2 DEF TypeOK
<1>4. e \in Events /\ \A k \in Jobs : TerminalEvent(k) # e
  BY <1>1, <1>3, PendingEvent
<1>5. UNCHANGED <<client, listed>>
  BY <1>2 DEF Broadcast
<1>6. \A k \in Jobs : \A n : n # pending[j] /\ k = j => Progress(k, n) # e
  BY EventFacts
<1> HIDE DEF e
<1>7. /\ got' \in [Connections -> SUBSET Events]
      /\ stuck' \in [Connections -> Seq(Events)]
      /\ todo' \in [Events -> SUBSET Connections]
      /\ active' \subseteq active
      /\ subs' \in [Connections -> SUBSET Jobs]
      /\ sent' = sent \cup {e}
      /\ FollowersServed' /\ ListedJobsEnd' /\ ClosedIsForgotten'
  BY <1>1, <1>2, <1>4, BroadcastKeeps
<1>8. Tables'
  BY <1>1, <1>2, <1>7 DEF Tables
<1>9. TypeOK'
  <2>a. /\ \A k \in Jobs : {progress[k], emits[k], pending[k]} \subseteq 0..MaxProgress[k]
        /\ flush \in [Jobs -> {"none", "sleeping", "locking", "cancelled"}]
    BY <1>1 DEF TypeOK
  <2>b. ASSUME NEW k \in Jobs
        PROVE  /\ pending[k] = 0 <=> flush[k] = "none"
               /\ flush[k] = "cancelled" <=> job[k] = "cancelling"
    BY <1>1, Zenon DEF TypeOK
  <2>c. pending \in [Jobs -> Nat] /\ \A k \in Jobs : MaxProgress[k] \in Nat
    BY <1>1, EventsAssumption DEF Tables
  <2>1. \A k \in Jobs : {progress'[k], emits'[k], pending'[k]} \subseteq 0..MaxProgress[k]
    BY <1>2, <2>a, <2>b, <2>c
  <2>2. ASSUME NEW k \in Jobs
        PROVE  /\ pending'[k] = 0 <=> flush'[k] = "none"
               /\ flush'[k] = "cancelled" <=> job[k] = "cancelling"
    <3>1. CASE k = j
      <4>1. pending'[k] = 0 /\ flush'[k] = "none" /\ job[k] # "cancelling"
        BY <1>2, <1>3, <2>a, <2>c, <3>1
      <4> QED
        BY <4>1
    <3>2. CASE k # j
      <4>1. pending'[k] = pending[k] /\ flush'[k] = flush[k]
        BY <1>2, <2>a, <2>c, <3>2
      <4> QED
        BY <2>b, <4>1
    <3> QED
      BY <3>1, <3>2
  <2> QED
    BY <1>1, <1>2, <1>4, <1>5, <1>7, <2>1, <2>2 DEF TypeOK
<1>10. BusOrder'
  BY <1>1, <1>2, <1>3, <1>4, <1>7 DEF BusOrder, Tables, e
<1> QED
  BY <1>7, <1>8, <1>9, <1>10 DEF IInv

\* A terminal event takes the pending progress, or waits for its timer.
LEMMA TerminalBeginsKeeps ==
  ASSUME IInv, NEW j \in Jobs, TerminalBegins(j)
  PROVE  IInv'
<1>1. TypeOK /\ Tables /\ FollowersServed /\ ListedJobsEnd /\ ClosedIsForgotten /\ BusOrder
  BY DEF IInv
<1>2. /\ job[j] = "ended" /\ emits[j] = 0 /\ lock = NoJob
      /\ UNCHANGED <<progress, emits, pending, down>>
  BY DEF TerminalBegins
<1>3. CASE HasPending(j)
  <2>1. /\ pending[j] # 0
        /\ job' = [job EXCEPT ![j] = "cancelling"]
        /\ flush' = [flush EXCEPT ![j] = "cancelled"]
        /\ lock' = j
        /\ UNCHANGED <<todo, stuck, sent, got, client, active, subs, listed>>
    BY <1>3 DEF TerminalBegins, HasPending, Cancelled, wire, manager
  <2>2. FollowersServed' /\ ListedJobsEnd' /\ ClosedIsForgotten'
    BY <1>1, <2>1, NothingSent
  <2>3. Tables'
    BY <1>1, <1>2, <2>1 DEF Tables
  <2>4. TypeOK'
    BY <1>1, <1>2, <2>1, EventsAssumption DEF TypeOK
  <2>5. BusOrder'
    BY <1>1, <1>2, <2>1 DEF BusOrder, TypeOK
  <2> QED
    BY <2>2, <2>3, <2>4, <2>5 DEF IInv
<1>4. CASE ~HasPending(j)
  <2> DEFINE e == TerminalEvent(j)
  <2>1. /\ pending[j] = 0
        /\ job' = [job EXCEPT ![j] = "told"]
        /\ Broadcast(e)
        /\ UNCHANGED <<flush, lock>>
    BY <1>4 DEF TerminalBegins, HasPending
  <2>2. /\ e \in Events /\ \A k \in Jobs : TerminalEvent(k) = e => k = j
        /\ UNCHANGED <<client, listed>>
    BY <2>1, EventFacts DEF Broadcast
  <2> HIDE DEF e
  <2>3. /\ got' \in [Connections -> SUBSET Events]
        /\ stuck' \in [Connections -> Seq(Events)]
        /\ todo' \in [Events -> SUBSET Connections]
        /\ active' \subseteq active
        /\ subs' \in [Connections -> SUBSET Jobs]
        /\ sent' = sent \cup {e}
        /\ FollowersServed' /\ ListedJobsEnd' /\ ClosedIsForgotten'
    BY <1>1, <2>1, <2>2, BroadcastKeeps
  <2>4. Tables'
    BY <1>1, <1>2, <2>3 DEF Tables
  <2>5. TypeOK'
    BY <1>1, <1>2, <2>1, <2>2, <2>3 DEF TypeOK
  <2>6. BusOrder'
    BY <1>1, <1>2, <2>1, <2>2, <2>3 DEF BusOrder, TypeOK, e
  <2> QED
    BY <2>3, <2>4, <2>5, <2>6 DEF IInv
<1> QED
  BY <1>3, <1>4

\* The progress it took is sent first.
LEMMA TerminalFlushesKeeps ==
  ASSUME IInv, NEW j \in Jobs, TerminalFlushes(j)
  PROVE  IInv'
<1> DEFINE e == Progress(j, pending[j])
<1>1. TypeOK /\ Tables /\ FollowersServed /\ ListedJobsEnd /\ ClosedIsForgotten /\ BusOrder
  BY DEF IInv
<1>2. /\ job[j] = "cancelling" /\ job' = [job EXCEPT ![j] = "flushing"]
      /\ lock' = NoJob
      /\ pending' = [pending EXCEPT ![j] = 0]
      /\ flush' = [flush EXCEPT ![j] = "none"]
      /\ Broadcast(e)
      /\ UNCHANGED <<progress, emits, down>>
  BY DEF TerminalFlushes, Flush
<1>3. /\ pending[j] # 0 /\ lock = j /\ emits[j] = 0
      /\ \A k \in Jobs : k # j => job[k] # "cancelling" /\ flush[k] # "cancelled"
  BY <1>1, <1>2 DEF TypeOK, BusOrder
<1>4. e \in Events /\ \A k \in Jobs : TerminalEvent(k) # e
  BY <1>1, <1>3, PendingEvent
<1>5. UNCHANGED <<client, listed>>
  BY <1>2 DEF Broadcast
<1> HIDE DEF e
<1>6. /\ got' \in [Connections -> SUBSET Events]
      /\ stuck' \in [Connections -> Seq(Events)]
      /\ todo' \in [Events -> SUBSET Connections]
      /\ active' \subseteq active
      /\ subs' \in [Connections -> SUBSET Jobs]
      /\ sent' = sent \cup {e}
      /\ FollowersServed' /\ ListedJobsEnd' /\ ClosedIsForgotten'
  BY <1>1, <1>2, <1>4, BroadcastKeeps
<1>7. Tables'
  BY <1>1, <1>2, <1>6 DEF Tables
<1>8. TypeOK'
  BY <1>1, <1>2, <1>3, <1>4, <1>5, <1>6, EventsAssumption DEF TypeOK, Tables
<1>9. BusOrder'
  BY <1>1, <1>2, <1>3, <1>4, <1>6 DEF BusOrder, TypeOK, Tables, e
<1> QED
  BY <1>6, <1>7, <1>8, <1>9 DEF IInv

\* Then the end is told.
LEMMA TerminalTellsKeeps ==
  ASSUME IInv, NEW j \in Jobs, TerminalTells(j)
  PROVE  IInv'
<1> DEFINE e == TerminalEvent(j)
<1>1. TypeOK /\ Tables /\ FollowersServed /\ ListedJobsEnd /\ ClosedIsForgotten /\ BusOrder
  BY DEF IInv
<1>2. /\ job[j] = "flushing" /\ job' = [job EXCEPT ![j] = "told"]
      /\ Broadcast(e)
      /\ UNCHANGED <<progress, emits, pending, flush, lock, down>>
  BY DEF TerminalTells
<1>3. /\ e \in Events /\ \A k \in Jobs : TerminalEvent(k) = e => k = j
      /\ UNCHANGED <<client, listed>>
  BY <1>2, EventFacts DEF Broadcast
<1> HIDE DEF e
<1>4. /\ got' \in [Connections -> SUBSET Events]
      /\ stuck' \in [Connections -> Seq(Events)]
      /\ todo' \in [Events -> SUBSET Connections]
      /\ active' \subseteq active
      /\ subs' \in [Connections -> SUBSET Jobs]
      /\ sent' = sent \cup {e}
      /\ FollowersServed' /\ ListedJobsEnd' /\ ClosedIsForgotten'
  BY <1>1, <1>2, <1>3, BroadcastKeeps
<1>5. Tables'
  BY <1>1, <1>2, <1>4 DEF Tables
<1>6. TypeOK'
  BY <1>1, <1>2, <1>3, <1>4 DEF TypeOK
<1>7. BusOrder'
  BY <1>1, <1>2, <1>3, <1>4 DEF BusOrder, TypeOK, e
<1> QED
  BY <1>4, <1>5, <1>6, <1>7 DEF IInv

\* After shutdown() the bus owes nothing.
LEMMA ShutdownKeeps ==
  ASSUME IInv, Shutdown
  PROVE  IInv'
<1>1. TypeOK /\ Tables /\ FollowersServed /\ ListedJobsEnd /\ ClosedIsForgotten /\ BusOrder
  BY DEF IInv
<1>2. UNCHANGED <<todo, stuck, sent, got, client, active, subs, listed>>
  BY DEF Shutdown, wire, manager
<1>3. FollowersServed' /\ ListedJobsEnd' /\ ClosedIsForgotten'
  BY <1>1, <1>2, NothingSent
<1>4. Tables'
  BY <1>1, <1>2 DEF Tables, Shutdown
<1>5. \A j \in Jobs : job[j] # "cancelling" /\ MaxProgress[j] \in Nat
  BY <1>1, EventsAssumption DEF Shutdown, TypeOK
<1>6. TypeOK'
  BY <1>1, <1>2, <1>5 DEF Shutdown, TypeOK
<1>7. BusOrder'
  BY <1>1, <1>2 DEF Shutdown, BusOrder
<1> QED
  BY <1>3, <1>4, <1>6, <1>7 DEF IInv
-----------------------------------------------------------------------------
(***************************************************************************)
(* The steps of the endpoints.                                             *)
(***************************************************************************)

\* What a client and its endpoint do leaves the bus alone.
LEMMA ClientKeeps ==
  ASSUME IInv, NEW c \in Connections, ClientStep(c)
  PROVE  IInv'
<1>1. TypeOK /\ Tables /\ FollowersServed /\ ListedJobsEnd /\ ClosedIsForgotten /\ BusOrder
  BY DEF IInv
<1>2. UNCHANGED <<job, progress, emits, pending, flush, lock, down, todo, stuck, sent, got>>
  BY DEF ClientStep, Connect, Subscribe, SendState, Unsubscribe, PeerGone, Disconnect, bus, wire
<1>3. Tables' /\ BusOrder'
  BY <1>1, <1>2 DEF Tables, BusOrder
<1>4. /\ client' \in [Connections -> {"none", "open", "confirming", "gone", "closed"}]
      /\ active' \subseteq Connections
      /\ subs' \in [Connections -> SUBSET Jobs]
      /\ listed' \in [Connections -> SUBSET Jobs]
  <2>1. /\ client \in [Connections -> {"none", "open", "confirming", "gone", "closed"}]
        /\ active \subseteq Connections
        /\ subs \in [Connections -> SUBSET Jobs]
        /\ listed \in [Connections -> SUBSET Jobs]
    BY <1>1 DEF TypeOK
  <2>2. client' \in [Connections -> {"none", "open", "confirming", "gone", "closed"}]
    BY <2>1 DEF ClientStep, Connect, Subscribe, SendState, Unsubscribe, PeerGone, Disconnect
  <2>3. active' \subseteq Connections
    BY <2>1 DEF ClientStep, Connect, Subscribe, SendState, Unsubscribe, PeerGone, Disconnect
  <2>4. subs' \in [Connections -> SUBSET Jobs]
    BY <2>1
    DEF ClientStep, Connect, Subscribe, SendState, Unsubscribe, PeerGone, Disconnect, DroppedFilter
  <2>5. listed' \in [Connections -> SUBSET Jobs]
    BY <2>1 DEF ClientStep, Connect, Subscribe, SendState, Unsubscribe, PeerGone, Disconnect
  <2> QED
    BY <2>2, <2>3, <2>4, <2>5
<1>5. TypeOK'
  BY <1>1, <1>2, <1>4 DEF TypeOK
<1>6. FollowersServed'
  <2>1. ASSUME NEW d \in Connections
        PROVE  /\ client'[d] \in {"open", "confirming"} =>
                    d \in active' /\ listed'[d] \subseteq subs'[d]
               /\ client'[d] = "none" => listed'[d] = {}
    <3>1. CASE Connect(c)
      BY <1>1, <3>1 DEF TypeOK, FollowersServed, Alive, Connect
    <3>2. CASE \E js \in SUBSET Jobs : Subscribe(c, js)
      BY <1>1, <3>2 DEF TypeOK, FollowersServed, Alive, Subscribe
    <3>3. CASE SendState(c)
      BY <1>1, <3>3 DEF TypeOK, FollowersServed, Alive, SendState
    <3>4. CASE Unsubscribe(c)
      BY <1>1, <3>4 DEF TypeOK, FollowersServed, Alive, Unsubscribe
    <3>5. CASE PeerGone(c) \/ Disconnect(c)
      BY <1>1, <3>5 DEF TypeOK, FollowersServed, Alive, PeerGone, Disconnect
    <3> QED
      BY <3>1, <3>2, <3>3, <3>4, <3>5 DEF ClientStep
  <2> QED
    BY <1>1, <1>2, <2>1 DEF FollowersServed, Alive
<1>7. ListedJobsEnd'
  <2>1. ASSUME NEW d \in Connections, NEW k \in listed'[d], TerminalEvent(k) \in sent
        PROVE  k \in listed[d]
    <3>1. k \in Jobs /\ job[k] # "running"
      BY <1>1, <1>4, <2>1 DEF BusOrder
    <3> QED
      BY <1>1, <2>1, <3>1
      DEF TypeOK, ClientStep, Connect, Subscribe, SendState, Unsubscribe, PeerGone, Disconnect,
          ActiveJobs
  <2>2. \A d \in Connections : client'[d] \in {"open", "confirming"} =>
          client[d] \in {"open", "confirming"} \/ listed[d] = {}
    BY <1>1
    DEF TypeOK, FollowersServed, ClientStep, Connect, Subscribe, SendState, Unsubscribe, PeerGone,
        Disconnect
  <2> QED
    BY <1>1, <1>2, <2>1, <2>2 DEF ListedJobsEnd
<1>8. ClosedIsForgotten'
  BY <1>1
  DEF TypeOK, ClosedIsForgotten, ClientStep, Connect, Subscribe, SendState, Unsubscribe, PeerGone,
      Disconnect, DroppedFilter
<1> QED
  BY <1>3, <1>5, <1>6, <1>7, <1>8 DEF IInv
-----------------------------------------------------------------------------
(***************************************************************************)
(* Theorems.                                                               *)
(***************************************************************************)

\* An idle bus without clients satisfies the invariant.
LEMMA IInvInit == Init => IInv
<1> SUFFICES ASSUME Init PROVE IInv
  OBVIOUS
<1>1. TypeOK
  <2>1. \A j \in Jobs : MaxProgress[j] \in Nat /\ NoJob # j
    BY EventsAssumption
  <2>2. \A c \in Connections : stuck[c] \in Seq(Events)
    BY DEF Init
  <2>3. \A j \in Jobs : {progress[j], emits[j], pending[j]} \subseteq 0..MaxProgress[j]
    BY <2>1 DEF Init
  <2> QED
    BY <2>1, <2>2, <2>3 DEF Init, TypeOK
<1>2. Tables
  BY DEF Init, Tables
<1>3. BusOrder /\ FollowersServed
  BY DEF Init, BusOrder, FollowersServed, Alive
<1>4. ListedJobsEnd /\ ClosedIsForgotten
  BY DEF Init, ListedJobsEnd, ClosedIsForgotten
<1> QED
  BY <1>1, <1>2, <1>3, <1>4 DEF IInv

\* Every step of bus, jobs and clients keeps it.
LEMMA IInvStep == IInv /\ [Next]_vars => IInv'
<1> SUFFICES ASSUME IInv, [Next]_vars
             PROVE  IInv'
  OBVIOUS
<1>1. ASSUME NEW j \in Jobs, UpdateProgress(j) \/ HandlerEnds(j) \/ BusStep(j)
      PROVE  IInv'
  <2>1. CASE UpdateProgress(j) \/ HandlerEnds(j) \/ EmitProgress(j) \/ FlushWakes(j)
    BY <2>1, QuietSteps DEF UpdateProgress, HandlerEnds, EmitProgress, FlushWakes
  <2> QED
    BY <1>1, <2>1, FlushTimerKeeps, TerminalBeginsKeeps, TerminalFlushesKeeps, TerminalTellsKeeps
    DEF BusStep
<1>2. ASSUME NEW c \in Connections, Resume(c) \/ ClientStep(c)
      PROVE  IInv'
  BY <1>2, ResumeKeeps, ClientKeeps
<1>3. CASE Shutdown
  BY <1>3, ShutdownKeeps
<1>4. CASE UNCHANGED vars
  <2>1. TypeOK' /\ Tables' /\ BusOrder'
    BY <1>4 DEF vars, bus, wire, manager, IInv, TypeOK, Tables, BusOrder
  <2>2. UNCHANGED <<todo, stuck, sent, got, client, active, subs, listed>>
    BY <1>4 DEF vars, wire, manager
  <2> QED
    BY <2>1, <2>2, NothingSent DEF IInv
<1> QED
  BY <1>1, <1>2, <1>3, <1>4 DEF Next

\* The tables of the bus and of the connections are in order in every
\* reachable state: an entry has a task, the lock its holder, and nothing is
\* left of a connection that was closed.
THEOREM InvCorrect == Spec => []Inv
<1>1. IInv => Inv
  BY DEF IInv, Inv
<1> QED
  BY <1>1, IInvInit, IInvStep, PTL DEF Spec

\* However updates, timers and the end of the job interleave, the last
\* progress has been handed to the connections when the end is announced.
THEOREM LastProgressSentCorrect == Spec => []LastProgressSent
<1>1. IInv => LastProgressSent
  BY DEF IInv, BusOrder, LastProgressSent
<1> QED
  BY <1>1, IInvInit, IInvStep, PTL DEF Spec

\* Whoever is told that a job is active is told of its end as long as it stays
\* connected and subscribed, whatever sends are suspended meanwhile.
THEOREM ListedJobsEndCorrect == Spec => []ListedJobsEnd
<1>1. IInv => ListedJobsEnd
  BY DEF IInv
<1> QED
  BY <1>1, IInvInit, IInvStep, PTL DEF Spec

\* No step flushes progress of a job whose end was announced, and none lists
\* such a job as active to somebody who was told.
LEMMA QuietAfterEnd ==
  ASSUME IInv, [Next]_vars
  PROVE  /\ \A j \in Jobs : \A n \in 1..MaxProgress[j] :
              TerminalEvent(j) \in sent /\ Progress(j, n) \in sent' => Progress(j, n) \in sent
         /\ \A c \in Connections : \A j \in listed'[c] \ listed[c] : TerminalEvent(j) \notin got[c]
<1>1. TypeOK /\ Tables /\ BusOrder /\ FollowersServed
  BY DEF IInv
<1>2. ASSUME NEW j \in Jobs, NEW n \in 1..MaxProgress[j], TerminalEvent(j) \in sent,
             Progress(j, n) \in sent'
      PROVE  Progress(j, n) \in sent
  <2>1. job[j] = "told" /\ pending[j] = 0 /\ emits[j] = 0
    BY <1>1, <1>2 DEF BusOrder
  <2>2. ASSUME NEW k \in Jobs, FlushTimer(k) \/ TerminalFlushes(k)
        PROVE  Progress(j, n) \in sent
    <3>1. sent' = sent \cup {Progress(k, pending[k])}
      BY <2>2 DEF FlushTimer, TerminalFlushes, Flush, Broadcast
    <3>2. flush[k] \in {"locking", "cancelled"}
      BY <1>1, <2>2 DEF FlushTimer, TerminalFlushes, TypeOK
    <3>3. pending[k] # 0
      BY <1>1, <3>2 DEF TypeOK
    <3>4. Progress(j, n) # Progress(k, pending[k])
      BY <2>1, <3>3, EventFacts
    <3> QED
      BY <1>2, <3>1, <3>4
  <2>3. ASSUME NEW k \in Jobs, TerminalBegins(k) \/ TerminalTells(k)
        PROVE  Progress(j, n) \in sent
    <3>1. sent' = sent \/ sent' = sent \cup {TerminalEvent(k)}
      BY <2>3 DEF TerminalBegins, TerminalTells, Broadcast, wire
    <3>2. Progress(j, n) # TerminalEvent(k)
      BY EventFacts
    <3> QED
      BY <1>2, <3>1, <3>2
  <2>4. ASSUME UNCHANGED sent
        PROVE  Progress(j, n) \in sent
    BY <1>2, <2>4
  <2>5. ASSUME NEW k \in Jobs,
               UpdateProgress(k) \/ HandlerEnds(k) \/ EmitProgress(k) \/ FlushWakes(k)
        PROVE  UNCHANGED sent
    BY <2>5 DEF UpdateProgress, HandlerEnds, EmitProgress, FlushWakes, wire
  <2>6. ASSUME NEW c \in Connections, Resume(c) \/ ClientStep(c)
        PROVE  UNCHANGED sent
    BY <2>6
    DEF Resume, ClientStep, Connect, Subscribe, SendState, Unsubscribe, PeerGone, Disconnect, wire
  <2>7. Shutdown \/ UNCHANGED vars => UNCHANGED sent
    BY DEF Shutdown, vars, wire
  <2> QED
    BY <2>2, <2>3, <2>4, <2>5, <2>6, <2>7 DEF Next, BusStep
<1>3. ASSUME NEW c \in Connections, NEW j \in listed'[c] \ listed[c]
      PROVE  TerminalEvent(j) \notin got[c]
  <2>1. CASE UNCHANGED listed
    BY <1>3, <2>1
  <2>2. ASSUME NEW k \in Jobs, UpdateProgress(k) \/ HandlerEnds(k) \/ BusStep(k)
        PROVE  UNCHANGED listed
    BY <2>2
    DEF UpdateProgress, HandlerEnds, BusStep, EmitProgress, FlushWakes, FlushTimer, TerminalBegins,
        TerminalFlushes, TerminalTells, Flush, Broadcast, manager
  <2>3. Shutdown \/ UNCHANGED vars \/ (\E d \in Connections : Resume(d)) => UNCHANGED listed
    BY DEF Shutdown, Resume, vars, manager
  <2>4. ASSUME NEW d \in Connections, ClientStep(d), ~UNCHANGED listed
        PROVE  TerminalEvent(j) \notin got[c]
    <3>1. CASE SendState(d)
      <4>1. listed'[c] = listed[c] \/ listed'[c] = subs[c] \cap ActiveJobs
        BY <1>1, <3>1 DEF SendState, TypeOK
      <4>2. j \in Jobs /\ job[j] = "running"
        BY <1>3, <4>1 DEF ActiveJobs
      <4>3. TerminalEvent(j) \notin sent
        BY <1>1, <4>2 DEF BusOrder
      <4> QED
        BY <1>1, <4>3 DEF FollowersServed
    <3>2. CASE Unsubscribe(d) \/ \E js \in SUBSET Jobs : Subscribe(d, js)
      BY <1>1, <1>3, <3>2 DEF Unsubscribe, Subscribe, TypeOK
    <3> QED
      BY <2>4, <3>1, <3>2 DEF ClientStep, Connect, PeerGone, Disconnect
  <2> QED
    BY <2>1, <2>2, <2>3, <2>4 DEF Next
<1> QED
  BY <1>2, <1>3

\* Nothing makes an ended job look alive: after its end was announced no flush
\* of its progress begins, and nobody who was told of the end is told that the
\* job is active.
THEOREM NothingAfterEndCorrect == Spec => NothingAfterEnd
<1>1. IInv /\ [Next]_vars =>
        [/\ \A j \in Jobs : \A n \in 1..MaxProgress[j] :
              TerminalEvent(j) \in sent /\ Progress(j, n) \in sent' => Progress(j, n) \in sent
         /\ \A c \in Connections : \A j \in listed'[c] \ listed[c] :
              TerminalEvent(j) \notin got[c]]_vars
  BY QuietAfterEnd
<1> QED
  BY <1>1, IInvInit, IInvStep, PTL DEF Spec, NothingAfterEnd

-----------------------------------------------------------------------------
(* ApiClients *)


\* There is a highest rate, and it is a rate.
LEMMA TopRateIsTop ==
  /\ TopRate \in Rates
  /\ \A r \in Rates : r <= TopRate
BY ClientAssumption DEF TopRate

\* Sizes are what they should be.
LEMMA Sizes == Full \in Nat \ {0} /\ Cost \in Nat \ {0} /\ TopRate \in Nat \ {0}
<1>1. Burst * Cost \in Nat \ {0}
  BY ClientAssumption
<1> QED
  BY <1>1, TopRateIsTop, ClientAssumption DEF Full
-----------------------------------------------------------------------------
(* The bucket.                                                             *)

\* What the bucket would hold if every tick since its last update had brought
\* the highest rate there is: a change of the rate cannot take it further.
Promised == Lesser(Full, tokens + since * TopRate)
PromiseKept == Promised <= meter

\* A product grows with each of its factors.
LEMMA TimesGrows ==
  /\ \A a, b \in Nat : a * b \in Nat
  /\ \A a, b, c \in Nat : a <= b => a * c <= b * c
  /\ \A a, b, c \in Nat : b <= c => a * b <= a * c
<1>1. \A a, b \in Nat : a * b \in Nat
  OBVIOUS
<1>2. ASSUME NEW a \in Nat, NEW b \in Nat, NEW c \in Nat, a <= b
      PROVE  a * c <= b * c
  <2>1. PICK d \in Nat : b = a + d
    BY <1>2
  <2>2. b * c = a * c + d * c
    BY <2>1
  <2> QED
    BY <2>2
<1>3. ASSUME NEW a \in Nat, NEW b \in Nat, NEW c \in Nat, b <= c
      PROVE  a * b <= a * c
  <2>1. PICK d \in Nat : c = b + d
    BY <1>3
  <2>2. a * c = a * b + a * d
    BY <2>1
  <2> QED
    BY <2>2
<1> QED
  BY <1>1, <1>2, <1>3

\* The tokens that acquire() finds are a number of the bucket, and never more
\* than the eager bucket has.
LEMMA AvailableBounds ==
  ASSUME ClientTypeOK
  PROVE  /\ Available \in 0 .. Full
         /\ PromiseKept => Available <= meter
<1>1. rate \in Nat /\ rate <= TopRate
  BY TopRateIsTop, ClientAssumption DEF ClientTypeOK
<1>2. since * rate \in Nat /\ since * TopRate \in Nat
  BY <1>1, Sizes DEF ClientTypeOK
<1>3. since * rate <= since * TopRate
  BY <1>1, TimesGrows, Sizes DEF ClientTypeOK
<1> QED
  BY <1>2, <1>3, Sizes DEF ClientTypeOK, Available, Lesser, PromiseKept, Promised

-----------------------------------------------------------------------------
(* Sequences without repetition.                                           *)

\* A task that joins a line it is not in.
LEMMA AppendToLine ==
  ASSUME NEW S, NEW s \in Seq(S), NEW x \in S
  PROVE  /\ Append(s, x) \in Seq(S)
         /\ ToSet(Append(s, x)) = ToSet(s) \cup {x}
         /\ IsInjective(s) /\ x \notin ToSet(s) => IsInjective(Append(s, x))
<1> DEFINE r == Append(s, x)
<1>1. /\ r \in Seq(S) /\ Len(r) = Len(s) + 1
      /\ r[Len(s) + 1] = x
      /\ \A i \in 1 .. Len(s) : r[i] = s[i]
  OBVIOUS
<1>2. DOMAIN s = 1 .. Len(s) /\ DOMAIN r = 1 .. Len(s) + 1 /\ Len(s) \in Nat
  BY <1>1
<1> HIDE DEF r
<1>3. ToSet(r) = ToSet(s) \cup {x}
  BY <1>1, <1>2 DEF ToSet
<1>4. IsInjective(s) /\ x \notin ToSet(s) => IsInjective(r)
  BY <1>1, <1>2 DEF ToSet, IsInjective
<1> QED
  BY <1>1, <1>3, <1>4 DEF r

\* The first of a line leaves it.
LEMMA HeadLeavesLine ==
  ASSUME NEW S, NEW s \in Seq(S), s # << >>
  PROVE  /\ Head(s) \in ToSet(s)
         /\ Tail(s) \in Seq(S)
         /\ IsInjective(s) => /\ ToSet(Tail(s)) = ToSet(s) \ {Head(s)}
                              /\ IsInjective(Tail(s))
<1> DEFINE r == Tail(s)
<1>1. /\ r \in Seq(S) /\ Len(r) = Len(s) - 1
      /\ Head(s) = s[1]
      /\ \A i \in 1 .. Len(r) : r[i] = s[i + 1]
  BY HeadTailProperties
<1>2. /\ Len(s) \in Nat \ {0}
      /\ DOMAIN s = 1 .. Len(s) /\ DOMAIN r = 1 .. Len(s) - 1
  BY <1>1, EmptySeq
<1> HIDE DEF r
<1>3. Head(s) \in ToSet(s)
  BY <1>1, <1>2 DEF ToSet
<1>4. ASSUME IsInjective(s)
      PROVE  ToSet(r) = ToSet(s) \ {Head(s)}
  <2>1. ASSUME NEW y \in ToSet(r)
        PROVE  y \in ToSet(s) /\ y # Head(s)
    <3>1. PICK i \in 1 .. Len(s) - 1 : y = r[i]
      BY <1>2 DEF ToSet
    <3>2. i + 1 \in DOMAIN s /\ y = s[i + 1] /\ 1 \in DOMAIN s /\ i + 1 # 1
      BY <3>1, <1>1, <1>2
    <3> QED
      BY <3>2, <1>1, <1>4 DEF ToSet, IsInjective
  <2>2. ASSUME NEW y \in ToSet(s), y # Head(s)
        PROVE  y \in ToSet(r)
    <3>1. PICK i \in 1 .. Len(s) : y = s[i]
      BY <1>2 DEF ToSet
    <3>2. i - 1 \in 1 .. Len(s) - 1 /\ y = r[i - 1]
      BY <3>1, <2>2, <1>1, <1>2
    <3> QED
      BY <3>2, <1>2 DEF ToSet
  <2> QED
    BY <2>1, <2>2
<1>5. ASSUME IsInjective(s)
      PROVE  IsInjective(r)
  <2>1. ASSUME NEW i \in 1 .. Len(s) - 1, NEW j \in 1 .. Len(s) - 1, r[i] = r[j]
        PROVE  i = j
    <3>1. i + 1 \in DOMAIN s /\ j + 1 \in DOMAIN s /\ s[i + 1] = s[j + 1]
      BY <2>1, <1>1, <1>2
    <3>2. i + 1 = j + 1
      BY <3>1, <1>5 DEF IsInjective
    <3> QED
      BY <3>2
  <2> QED
    BY <2>1, <1>2 DEF IsInjective
<1> QED
  BY <1>1, <1>3, <1>4, <1>5 DEF r

\* Somebody in the line leaves it.
LEMMA OneLeavesLine ==
  ASSUME NEW S, NEW s \in Seq(S), NEW n \in DOMAIN s
  PROVE  /\ RemoveAt(s, n) \in Seq(S)
         /\ s[n] \in ToSet(s)
         /\ IsInjective(s) => /\ ToSet(RemoveAt(s, n)) = ToSet(s) \ {s[n]}
                              /\ IsInjective(RemoveAt(s, n))
<1> DEFINE before == SubSeq(s, 1, n - 1)
           after == SubSeq(s, n + 1, Len(s))
           r == before \o after
<1>1. /\ DOMAIN s = 1 .. Len(s) /\ Len(s) \in Nat /\ n \in 1 .. Len(s)
      /\ \A i \in 1 .. Len(s) : s[i] \in S
  BY LenProperties
<1>2. /\ before \in Seq(S) /\ Len(before) = n - 1
      /\ \A i \in 1 .. n - 1 : before[i] = s[i]
  <2>1. /\ before \in Seq(S)
        /\ Len(before) = IF 1 <= n - 1 THEN n - 1 - 1 + 1 ELSE 0
        /\ \A i \in 1 .. n - 1 - 1 + 1 : before[i] = s[1 + i - 1]
    <3>1. n - 1 \in Int /\ 1 \in Int /\ \A i \in 1 .. n - 1 : s[i] \in S
      BY <1>1
    <3> QED
      BY <3>1, SubSeqProperties
  <2> QED
    BY <2>1, <1>1
<1>3. /\ after \in Seq(S) /\ Len(after) = Len(s) - n
      /\ \A i \in 1 .. Len(s) - n : after[i] = s[n + i]
  <2>1. /\ after \in Seq(S)
        /\ Len(after) = IF n + 1 <= Len(s) THEN Len(s) - (n + 1) + 1 ELSE 0
        /\ \A i \in 1 .. Len(s) - (n + 1) + 1 : after[i] = s[n + 1 + i - 1]
    <3>1. n + 1 \in Int /\ Len(s) \in Int /\ \A i \in n + 1 .. Len(s) : s[i] \in S
      BY <1>1
    <3> QED
      BY <3>1, SubSeqProperties
  <2> QED
    BY <2>1, <1>1
<1> HIDE DEF before, after
<1>4. /\ r \in Seq(S) /\ Len(r) = Len(before) + Len(after)
      /\ \A i \in 1 .. Len(before) + Len(after) :
           r[i] = IF i <= Len(before) THEN before[i] ELSE after[i - Len(before)]
  BY <1>2, <1>3, ConcatProperties
<1>5. /\ DOMAIN r = 1 .. Len(s) - 1
      /\ \A i \in 1 .. Len(s) - 1 : r[i] = IF i < n THEN s[i] ELSE s[i + 1]
  <2>1. Len(r) = Len(s) - 1
    BY <1>1, <1>2, <1>3, <1>4
  <2>2. ASSUME NEW i \in 1 .. Len(s) - 1
        PROVE  r[i] = IF i < n THEN s[i] ELSE s[i + 1]
    <3>1. CASE i < n
      BY <3>1, <1>1, <1>2, <1>3, <1>4
    <3>2. CASE ~(i < n)
      <4>1. i - (n - 1) \in 1 .. Len(s) - n
        BY <3>2, <1>1
      <4>2. after[i - (n - 1)] = s[n + (i - (n - 1))]
        BY <4>1, <1>3
      <4>3. n + (i - (n - 1)) = i + 1
        BY <1>1
      <4>4. r[i] = after[i - (n - 1)]
        BY <3>2, <1>1, <1>2, <1>3, <1>4, SMTT(30)
      <4> QED
        BY <4>2, <4>3, <4>4, <3>2
    <3> QED
      BY <3>1, <3>2
  <2> QED
    BY <2>1, <2>2, <1>4, LenProperties
<1> HIDE DEF r
<1>6. ASSUME IsInjective(s)
      PROVE  ToSet(r) = ToSet(s) \ {s[n]}
  <2>1. ASSUME NEW y \in ToSet(r)
        PROVE  y \in ToSet(s) /\ y # s[n]
    <3>1. PICK i \in 1 .. Len(s) - 1 : y = r[i]
      BY <1>5 DEF ToSet
    <3>2. PICK k \in DOMAIN s : y = s[k] /\ k # n
      BY <3>1, <1>5, <1>1
    <3> QED
      BY <3>2, <1>6 DEF ToSet, IsInjective
  <2>2. ASSUME NEW y \in ToSet(s), y # s[n]
        PROVE  y \in ToSet(r)
    <3>1. PICK i \in 1 .. Len(s) : y = s[i]
      BY <1>1 DEF ToSet
    <3>2. PICK k \in 1 .. Len(s) - 1 : y = r[k]
      <4>1. CASE i < n
        BY <4>1, <3>1, <1>1, <1>5
      <4>2. CASE i > n
        <5>1. i - 1 \in 1 .. Len(s) - 1 /\ ~(i - 1 < n) /\ (i - 1) + 1 = i
          BY <4>2, <1>1
        <5> QED
          BY <5>1, <3>1, <1>5
      <4>3. i # n
        BY <3>1, <2>2
      <4> QED
        BY <4>1, <4>2, <4>3, <1>1
    <3> QED
      BY <3>2, <1>5 DEF ToSet
  <2> QED
    BY <2>1, <2>2
<1>7. ASSUME IsInjective(s)
      PROVE  IsInjective(r)
  <2>1. ASSUME NEW i \in 1 .. Len(s) - 1, NEW j \in 1 .. Len(s) - 1, r[i] = r[j]
        PROVE  i = j
    <3> DEFINE Old(k) == IF k < n THEN k ELSE k + 1
    <3>1. Old(i) \in DOMAIN s /\ Old(j) \in DOMAIN s /\ s[Old(i)] = s[Old(j)]
      BY <2>1, <1>1, <1>5
    <3>2. Old(i) = Old(j)
      BY <3>1, <1>7 DEF IsInjective
    <3> QED
      BY <3>2, <1>1
  <2> QED
    BY <2>1, <1>5 DEF IsInjective
<1> QED
  BY <1>1, <1>4, <1>6, <1>7 DEF r, before, after, RemoveAt, ToSet

-----------------------------------------------------------------------------
(* The inductive invariant.                                                *)

Granted == {t \in Tasks : pc[t] = "granted"}
Queued == {t \in Tasks : pc[t] = "queued"}

\* SlotsConserved speaks of finite sets, however many tasks there are.
FewHoldSlots == IsFiniteSet(InSlot) /\ IsFiniteSet(Granted)

\* Whoever waits for another attempt has one left.
AttemptLeft == \A t \in Tasks : pc[t] = "backoff" => attempt[t] + 1 < MaxAttempts

ClientIInv == ClientTypeOK /\ PromiseKept /\ SlotsConserved /\ FewHoldSlots /\ AttemptLeft

\* What a task that goes on does to the sets of those that hold a slot, have
\* been handed one, or wait for one.
LEMMA OneMoves ==
  ASSUME NEW t \in Tasks, NEW step \in Steps, pc \in [Tasks -> Steps],
         pc' = [pc EXCEPT ![t] = step]
  PROVE  /\ pc' \in [Tasks -> Steps]
         /\ InSlot' = IF step \in {"sending", "backoff"} THEN InSlot \cup {t} ELSE InSlot \ {t}
         /\ Granted' = IF step = "granted" THEN Granted \cup {t} ELSE Granted \ {t}
         /\ Queued' = IF step = "queued" THEN Queued \cup {t} ELSE Queued \ {t}
BY DEF InSlot, Granted, Queued

\* How many calls the client lets in is a number.
LEMMA CapacityIs ==
  ASSUME api \in Apis
  PROVE  Capacity \in Nat \ {0}
BY ClientAssumption DEF Capacity

\* The parts of SlotsConserved, in the words of these proofs.
LEMMA SlotBooks ==
  SlotsConserved <=> /\ activeCount = Cardinality(InSlot)
                     /\ value + activeCount + Cardinality(Granted) = Capacity
                     /\ ToSet(waiters) = Queued
                     /\ IsInjective(waiters)
                     /\ value > 0 => waiters = << >>
BY DEF SlotsConserved, Granted, Queued

\* The same after a step.
LEMMA SlotBooksAfter ==
  ASSUME api' = api
  PROVE  SlotsConserved' <=> /\ activeCount' = Cardinality(InSlot')
                             /\ value' + activeCount' + Cardinality(Granted') = Capacity
                             /\ ToSet(waiters') = Queued'
                             /\ IsInjective(waiters')
                             /\ value' > 0 => waiters' = << >>
BY DEF SlotsConserved, Granted, Queued, Capacity

\* A step after which the same tasks hold slots, are handed one and wait.
LEMMA SlotsUntouched ==
  ASSUME SlotsConserved, FewHoldSlots, value \in Nat, UNCHANGED <<slots, api>>,
         InSlot' = InSlot, Granted' = Granted, Queued' = Queued
  PROVE  SlotsConserved' /\ FewHoldSlots' /\ value' \in Nat
<1>1. SlotsConserved'
  BY SlotBooks DEF slots, SlotsConserved, Granted, Queued, Capacity
<1> QED
  BY <1>1 DEF FewHoldSlots, slots

\* Semaphore.release() hands the slot that t gives back to the first waiter.
LEMMA HandOnKeepsBooks ==
  ASSUME ClientIInv, NEW t \in Tasks, NEW step \in Steps \ {"sending", "backoff", "granted", "queued"},
         HandOn(t, step), api' = api,
         \/ pc[t] \in {"sending", "backoff"} /\ activeCount' = activeCount - 1
         \/ pc[t] = "granted" /\ UNCHANGED activeCount
  PROVE  pc' \in [Tasks -> Steps] /\ waiters' \in Seq(Tasks)
         /\ SlotsConserved' /\ FewHoldSlots' /\ value' \in Nat
<1>1. /\ pc \in [Tasks -> Steps] /\ waiters \in Seq(Tasks)
      /\ value \in Nat /\ activeCount \in Nat
  BY DEF ClientIInv, ClientTypeOK
<1>2. /\ activeCount = Cardinality(InSlot)
      /\ value + activeCount + Cardinality(Granted) = Capacity
      /\ ToSet(waiters) = Queued
      /\ IsInjective(waiters)
      /\ value > 0 => waiters = << >>
      /\ IsFiniteSet(InSlot) /\ IsFiniteSet(Granted)
  BY SlotBooks DEF ClientIInv, FewHoldSlots
<1>3. Cardinality(InSlot) \in Nat /\ Cardinality(Granted) \in Nat
  BY <1>2, FS_CardinalityType
<1>4. /\ IsFiniteSet(InSlot \ {t}) /\ IsFiniteSet(Granted \ {t})
      /\ Cardinality(InSlot \ {t}) = IF t \in InSlot THEN Cardinality(InSlot) - 1
                                     ELSE Cardinality(InSlot)
      /\ Cardinality(Granted \ {t}) = IF t \in Granted THEN Cardinality(Granted) - 1
                                      ELSE Cardinality(Granted)
  BY <1>2, FS_RemoveElement
<1>5. t \notin Queued /\ (t \in InSlot <=> t \notin Granted)
      /\ (t \in Granted <=> pc[t] = "granted")
  BY <1>1 DEF Queued, InSlot, Granted
<1>6. activeCount' = Cardinality(InSlot \ {t})
  BY <1>2, <1>4, <1>5 DEF InSlot, Granted
<1>7. /\ activeCount' \in Nat /\ Cardinality(Granted \ {t}) \in Nat
      /\ value + activeCount' + Cardinality(Granted \ {t}) + 1 = Capacity
  <2>1. CASE t \in InSlot /\ t \notin Granted
    <3>1. activeCount' = activeCount - 1 /\ activeCount' \in Nat
      BY <2>1, <1>2, <1>3, <1>4, <1>6, FS_CardinalityType
    <3> QED
      BY <2>1, <3>1, <1>1, <1>2, <1>3, <1>4
  <2>2. CASE t \notin InSlot /\ t \in Granted
    <3>1. Cardinality(Granted \ {t}) \in Nat
      BY <1>4, FS_CardinalityType
    <3>2. activeCount' = activeCount
      BY <2>2, <1>2, <1>4, <1>6
    <3> QED
      BY <2>2, <3>1, <3>2, <1>1, <1>2, <1>3, <1>4
  <2> QED
    BY <2>1, <2>2, <1>5
<1>8. CASE waiters = << >>
  <2>1. /\ value' = value + 1 /\ waiters' = << >>
        /\ pc' = [pc EXCEPT ![t] = step]
    BY <1>8 DEF HandOn, Goto
  <2>2. pc' \in [Tasks -> Steps] /\ InSlot' = InSlot \ {t} /\ Granted' = Granted \ {t}
        /\ Queued' = Queued \ {t}
    BY <2>1, <1>1, OneMoves
  <2>3. value' + activeCount' + Cardinality(Granted') = Capacity
    BY <2>1, <2>2, <1>1, <1>7
  <2>4. ToSet(waiters') = Queued' /\ IsInjective(waiters')
    BY <2>1, <2>2, <1>2, <1>5, <1>8
  <2>5. SlotsConserved' /\ FewHoldSlots'
    BY <2>1, <2>2, <2>3, <2>4, <1>4, <1>6, SlotBooksAfter DEF FewHoldSlots
  <2> QED
    BY <2>1, <2>2, <2>5, <1>1, EmptySeq
<1>9. CASE waiters # << >>
  <2> DEFINE h == Head(waiters)
  <2>1. /\ value' = value /\ waiters' = Tail(waiters)
        /\ pc' = [pc EXCEPT ![t] = step, ![h] = "granted"]
    BY <1>9 DEF HandOn
  <2>2. /\ h \in Queued /\ waiters' \in Seq(Tasks)
        /\ ToSet(waiters') = Queued \ {h} /\ IsInjective(waiters')
    BY <2>1, <1>1, <1>2, <1>9, HeadLeavesLine
  <2>3. h \in Tasks /\ pc[h] = "queued" /\ h # t
    BY <2>2, <1>5 DEF Queued
  <2> HIDE DEF h
  <2>4. /\ pc' \in [Tasks -> Steps] /\ InSlot' = InSlot \ {t}
        /\ Granted' = (Granted \ {t}) \cup {h} /\ Queued' = Queued \ {h}
    BY <2>1, <2>3, <1>1, <1>5 DEF InSlot, Granted, Queued, Steps
  <2>5. h \notin Granted \ {t}
    BY <2>3 DEF Granted
  <2>6. /\ IsFiniteSet(Granted')
        /\ Cardinality(Granted') = Cardinality(Granted \ {t}) + 1
    BY <2>4, <2>5, <1>4, FS_AddElement
  <2>7. value = 0
    BY <1>9, <1>2, <1>1
  <2>8. value' + activeCount' + Cardinality(Granted') = Capacity
    BY <2>1, <2>6, <1>1, <1>7
  <2>9. SlotsConserved' /\ FewHoldSlots'
    BY <2>1, <2>2, <2>4, <2>6, <2>7, <2>8, <1>4, <1>6, SlotBooksAfter DEF FewHoldSlots
  <2> QED
    BY <2>1, <2>2, <2>4, <2>9, <1>1
<1> QED
  BY <1>8, <1>9

\* What every step must see to; value' and activeCount' are bounded by the books.
SlotBooksKept == /\ pc' \in [Tasks -> Steps] /\ waiters' \in Seq(Tasks) /\ value' \in Nat
                 /\ SlotsConserved' /\ FewHoldSlots'

\* Steps at which a task neither holds a slot nor waits for one.
Outside == {"idle", "token", "fetching", "limiter", "slot", "charge"}

\* A task that goes on outside the semaphore, or keeps its slot.
LEMMA GoingOnKeepsBooks ==
  ASSUME ClientIInv, NEW t \in Tasks, NEW step \in Steps,
         pc' = [pc EXCEPT ![t] = step], UNCHANGED <<slots, api>>,
         \/ pc[t] \in Outside /\ step \in Outside
         \/ pc[t] \in {"sending", "backoff"} /\ step \in {"sending", "backoff"}
  PROVE  SlotBooksKept
<1>1. pc \in [Tasks -> Steps] /\ waiters \in Seq(Tasks) /\ value \in Nat
  BY DEF ClientIInv, ClientTypeOK
<1>2. pc' \in [Tasks -> Steps] /\ InSlot' = InSlot /\ Granted' = Granted /\ Queued' = Queued
  BY <1>1 DEF InSlot, Granted, Queued, Outside
<1> QED
  BY <1>1, <1>2, SlotsUntouched DEF ClientIInv, SlotBooksKept, slots

\* Nobody moves and nobody's slot changes.
LEMMA StandingStillKeepsBooks ==
  ASSUME ClientIInv, UNCHANGED <<pc, slots, api>>
  PROVE  SlotBooksKept
<1>1. pc \in [Tasks -> Steps] /\ waiters \in Seq(Tasks) /\ value \in Nat
  BY DEF ClientIInv, ClientTypeOK
<1>2. InSlot' = InSlot /\ Granted' = Granted /\ Queued' = Queued
  BY DEF InSlot, Granted, Queued
<1> QED
  BY <1>1, <1>2, SlotsUntouched DEF ClientIInv, SlotBooksKept, slots

\* acquire() takes a free slot, or joins the line.
LEMMA EnterSlotKeepsBooks ==
  ASSUME ClientIInv, NEW t \in Tasks, EnterSlot(t)
  PROVE  SlotBooksKept
<1>1. /\ pc \in [Tasks -> Steps] /\ waiters \in Seq(Tasks)
      /\ value \in Nat /\ activeCount \in Nat /\ pc[t] = "slot" /\ api' = api
  BY DEF ClientIInv, ClientTypeOK, EnterSlot, At
<1>2. /\ activeCount = Cardinality(InSlot)
      /\ value + activeCount + Cardinality(Granted) = Capacity
      /\ ToSet(waiters) = Queued
      /\ IsInjective(waiters)
      /\ value > 0 => waiters = << >>
      /\ IsFiniteSet(InSlot) /\ IsFiniteSet(Granted)
  BY SlotBooks DEF ClientIInv, FewHoldSlots
<1>3. t \notin InSlot /\ t \notin Granted /\ t \notin Queued
  BY <1>1 DEF InSlot, Granted, Queued
<1>4. Cardinality(InSlot) \in Nat /\ Cardinality(Granted) \in Nat
  BY <1>2, FS_CardinalityType
<1>5. CASE ~Locked /\ value' = value - 1 /\ activeCount' = activeCount + 1
           /\ Goto(t, "sending") /\ UNCHANGED waiters
  <2>1. value > 0 /\ value' \in Nat /\ waiters = << >>
    BY <1>5, <1>1 DEF Locked
  <2>2. pc' \in [Tasks -> Steps] /\ InSlot' = InSlot \cup {t} /\ Granted' = Granted \ {t}
        /\ Queued' = Queued \ {t}
    BY <1>5, <1>1, OneMoves DEF Goto, Steps
  <2>3. Granted' = Granted /\ Queued' = Queued
    BY <2>2, <1>3
  <2>4. IsFiniteSet(InSlot') /\ Cardinality(InSlot') = Cardinality(InSlot) + 1
    BY <2>2, <1>2, <1>3, FS_AddElement
  <2>5. value' + activeCount' + Cardinality(Granted') = Capacity
    BY <1>5, <1>1, <1>2, <1>4, <2>1, <2>3
  <2>6. SlotsConserved' /\ FewHoldSlots'
    BY <1>5, <1>1, <1>2, <2>1, <2>3, <2>4, <2>5, SlotBooksAfter DEF FewHoldSlots
  <2> QED
    BY <1>5, <1>1, <2>1, <2>2, <2>6 DEF SlotBooksKept
<1>6. CASE Locked /\ waiters' = Append(waiters, t) /\ Goto(t, "queued")
           /\ UNCHANGED <<value, activeCount>>
  <2>1. pc' \in [Tasks -> Steps] /\ InSlot' = InSlot \ {t} /\ Granted' = Granted \ {t}
        /\ Queued' = Queued \cup {t}
    BY <1>6, <1>1, OneMoves DEF Goto, Steps
  <2>2. InSlot' = InSlot /\ Granted' = Granted
    BY <2>1, <1>3
  <2>3. waiters' \in Seq(Tasks) /\ ToSet(waiters') = Queued' /\ IsInjective(waiters')
    BY <1>6, <1>1, <1>2, <1>3, <2>1, AppendToLine
  <2>4. value' = 0
    BY <1>6, <1>1, <1>2 DEF Locked
  <2>5. SlotsConserved' /\ FewHoldSlots'
    BY <1>6, <1>1, <1>2, <2>2, <2>3, <2>4, SlotBooksAfter DEF FewHoldSlots
  <2> QED
    BY <1>6, <1>1, <2>1, <2>3, <2>5 DEF SlotBooksKept
<1> QED
  BY <1>5, <1>6 DEF EnterSlot

\* Who was handed a slot takes it.
LEMMA TakeSlotKeepsBooks ==
  ASSUME ClientIInv, NEW t \in Tasks, TakeSlot(t)
  PROVE  SlotBooksKept
<1>1. /\ pc \in [Tasks -> Steps] /\ waiters \in Seq(Tasks)
      /\ value \in Nat /\ activeCount \in Nat /\ pc[t] = "granted"
      /\ activeCount' = activeCount + 1 /\ pc' = [pc EXCEPT ![t] = "sending"]
      /\ UNCHANGED <<value, waiters, api>>
  BY DEF ClientIInv, ClientTypeOK, TakeSlot, At, Goto
<1>2. /\ activeCount = Cardinality(InSlot)
      /\ value + activeCount + Cardinality(Granted) = Capacity
      /\ ToSet(waiters) = Queued
      /\ IsInjective(waiters)
      /\ value > 0 => waiters = << >>
      /\ IsFiniteSet(InSlot) /\ IsFiniteSet(Granted)
  BY SlotBooks DEF ClientIInv, FewHoldSlots
<1>3. t \notin InSlot /\ t \in Granted /\ t \notin Queued
  BY <1>1 DEF InSlot, Granted, Queued
<1>4. pc' \in [Tasks -> Steps] /\ InSlot' = InSlot \cup {t} /\ Granted' = Granted \ {t}
      /\ Queued' = Queued \ {t}
  BY <1>1, OneMoves DEF Steps
<1>5. Queued' = Queued
  BY <1>3, <1>4
<1>6. IsFiniteSet(InSlot') /\ Cardinality(InSlot') = Cardinality(InSlot) + 1
  BY <1>2, <1>3, <1>4, FS_AddElement
<1>7. IsFiniteSet(Granted') /\ Cardinality(Granted') = Cardinality(Granted) - 1
  BY <1>2, <1>3, <1>4, FS_RemoveElement
<1>8. Cardinality(Granted) \in Nat
  BY <1>2, FS_CardinalityType
<1>9. value' + activeCount' + Cardinality(Granted') = Capacity
  BY <1>1, <1>2, <1>7, <1>8
<1>10. SlotsConserved' /\ FewHoldSlots'
  BY <1>1, <1>2, <1>5, <1>6, <1>7, <1>9, SlotBooksAfter DEF FewHoldSlots
<1> QED
  BY <1>1, <1>4, <1>10 DEF SlotBooksKept

\* A task is cancelled wherever it waits.
LEMMA CancelKeepsBooks ==
  ASSUME ClientIInv, NEW t \in Tasks, Cancel(t)
  PROVE  SlotBooksKept
<1>1. /\ pc \in [Tasks -> Steps] /\ waiters \in Seq(Tasks)
      /\ value \in Nat /\ activeCount \in Nat /\ api' = api
  BY DEF ClientIInv, ClientTypeOK, Cancel
<1>2. CASE pc[t] \in {"limiter", "charge", "fetching"} /\ Goto(t, "idle") /\ UNCHANGED slots
  BY <1>1, <1>2, GoingOnKeepsBooks DEF Goto, Outside, Steps
<1>3. CASE /\ pc[t] = "queued"
           /\ \E i \in DOMAIN waiters : waiters[i] = t /\ waiters' = RemoveAt(waiters, i)
           /\ Goto(t, "idle") /\ UNCHANGED <<value, activeCount>>
  <2>1. PICK i \in DOMAIN waiters : waiters[i] = t /\ waiters' = RemoveAt(waiters, i)
    BY <1>3
  <2>2. /\ activeCount = Cardinality(InSlot)
        /\ value + activeCount + Cardinality(Granted) = Capacity
        /\ ToSet(waiters) = Queued
        /\ IsInjective(waiters)
        /\ value > 0 => waiters = << >>
        /\ IsFiniteSet(InSlot) /\ IsFiniteSet(Granted)
    BY SlotBooks DEF ClientIInv, FewHoldSlots
  <2>3. /\ waiters' \in Seq(Tasks) /\ IsInjective(waiters')
        /\ ToSet(waiters') = Queued \ {t}
    BY <2>1, <2>2, <1>1, OneLeavesLine
  <2>4. pc' \in [Tasks -> Steps] /\ InSlot' = InSlot \ {t} /\ Granted' = Granted \ {t}
        /\ Queued' = Queued \ {t}
    BY <1>1, <1>3, OneMoves DEF Goto, Steps
  <2>5. InSlot' = InSlot /\ Granted' = Granted
    BY <2>4, <1>3 DEF InSlot, Granted
  <2>6. value = 0 /\ value' = 0 /\ activeCount' = activeCount
    BY <2>1, <2>2, <1>1, <1>3
  <2>7. value' + activeCount' + Cardinality(Granted') = Capacity
    BY <2>2, <2>5, <2>6
  <2>8. activeCount' = Cardinality(InSlot') /\ FewHoldSlots'
    BY <2>2, <2>5, <2>6 DEF FewHoldSlots
  <2>9. SlotsConserved'
    BY <1>1, <2>3, <2>4, <2>6, <2>7, <2>8, SlotBooksAfter
  <2> QED
    BY <1>1, <2>3, <2>4, <2>6, <2>8, <2>9 DEF SlotBooksKept
<1>4. CASE pc[t] = "granted" /\ HandOn(t, "idle") /\ UNCHANGED activeCount
  BY <1>1, <1>4, HandOnKeepsBooks DEF Steps, SlotBooksKept
<1>5. CASE pc[t] \in {"sending", "backoff"} /\ Release(t, "idle")
  BY <1>1, <1>5, HandOnKeepsBooks DEF Steps, Release, SlotBooksKept
<1> QED
  BY <1>2, <1>3, <1>4, <1>5 DEF Cancel

\* The response is there: the slot goes on, unless another attempt follows.
LEMMA RespondKeepsBooks ==
  ASSUME ClientIInv, NEW t \in Tasks, Respond(t)
  PROVE  SlotBooksKept
<1>1. pc[t] = "sending" /\ api' = api
  BY DEF Respond, At
<1>2. CASE \/ Release(t, IF Cached THEN "charge" ELSE "idle")
           \/ Release(t, "idle")
  BY <1>1, <1>2, HandOnKeepsBooks DEF Steps, Release, SlotBooksKept
<1>3. CASE Goto(t, "backoff") /\ UNCHANGED slots
  BY <1>1, <1>3, GoingOnKeepsBooks DEF Goto, Steps
<1> QED
  BY <1>2, <1>3 DEF Respond

\* Everything that happens keeps the books of the semaphore.
LEMMA NextKeepsBooks ==
  ASSUME ClientIInv, [ClientNext]_clientVars
  PROVE  SlotBooksKept
<1>1. ASSUME NEW t \in Tasks, Call(t)
      PROVE  SlotBooksKept
  BY <1>1, GoingOnKeepsBooks DEF Call, Goto, Outside, Steps, Entry
<1>2. ASSUME NEW t \in Tasks, CheckToken(t)
      PROVE  SlotBooksKept
  BY <1>2, GoingOnKeepsBooks DEF CheckToken, Goto, At, Outside, Steps, Entry
<1>3. ASSUME NEW t \in Tasks, ObtainToken(t)
      PROVE  SlotBooksKept
  BY <1>3, GoingOnKeepsBooks DEF ObtainToken, Goto, At, Outside, Steps, Entry
<1>4. ASSUME NEW t \in Tasks, Limit(t)
      PROVE  SlotBooksKept
  <2>1. CASE UNCHANGED pc
    BY <2>1, <1>4, StandingStillKeepsBooks DEF Limit
  <2>2. CASE Goto(t, "slot") \/ Goto(t, "idle")
    BY <2>2, <1>4, GoingOnKeepsBooks DEF Limit, Goto, At, Outside, Steps
  <2> QED
    BY <1>4, <2>1, <2>2 DEF Limit, AcquireToken
<1>5. ASSUME NEW t \in Tasks, Retry(t)
      PROVE  SlotBooksKept
  BY <1>5, GoingOnKeepsBooks DEF Retry, Goto, At, Steps
<1>6. CASE Tick
  BY <1>6, StandingStillKeepsBooks DEF Tick
<1>7. CASE Restart
  <2>1. /\ pc' = [t \in Tasks |-> "idle"] /\ value' = Capacity /\ waiters' = << >>
        /\ activeCount' = 0 /\ api' = api
    BY <1>7 DEF Restart
  <2>2. InSlot' = {} /\ Granted' = {} /\ Queued' = {}
    BY <2>1 DEF InSlot, Granted, Queued
  <2>3. ToSet(waiters') = {} /\ IsInjective(waiters') /\ waiters' \in Seq(Tasks)
    BY <2>1, EmptySeq DEF ToSet, IsInjective
  <2>4. Capacity \in Nat
    BY CapacityIs DEF ClientIInv, ClientTypeOK
  <2>5. SlotsConserved' /\ FewHoldSlots' /\ value' \in Nat
    BY <2>1, <2>2, <2>3, <2>4, FS_EmptySet, SlotBooksAfter DEF FewHoldSlots
  <2> QED
    BY <2>1, <2>3, <2>5 DEF SlotBooksKept, Steps
<1>8. CASE UNCHANGED clientVars
  BY <1>8, StandingStillKeepsBooks DEF clientVars, task
<1> QED
  BY <1>1, <1>2, <1>3, <1>4, <1>5, <1>6, <1>7, <1>8, EnterSlotKeepsBooks, TakeSlotKeepsBooks,
     RespondKeepsBooks, CancelKeepsBooks
     DEF ClientNext, Proceed

-----------------------------------------------------------------------------
(* The rest of the invariant.                                              *)

\* acquire() sleeps a number of ticks.
LEMMA SleepIsNat ==
  ASSUME ClientTypeOK, rate > 0
  PROVE  Available < Cost => (Cost - Available + rate - 1) \div rate \in Nat
<1>1. rate \in Nat \ {0} /\ Available \in Nat /\ Cost \in Nat
  BY AvailableBounds, Sizes, ClientAssumption DEF ClientTypeOK
<1>2. ASSUME NEW n \in Nat, NEW d \in Nat \ {0}
      PROVE  n \div d \in Nat
  BY <1>2
<1>3. Available < Cost => Cost - Available + rate - 1 \in Nat
  BY <1>1
<1> QED
  BY <1>1, <1>2, <1>3

\* What acquire() leaves in the bucket is a number of units, and the eager
\* bucket has as many.
LEMMA AcquireKeepsPromise ==
  ASSUME ClientTypeOK, PromiseKept, NEW t \in Tasks, NEW next \in Steps, AcquireToken(t, next)
  PROVE  /\ tokens' \in 0 .. Full /\ since' = 0 /\ rate' = rate /\ meter' \in 0 .. Full
         /\ tokens' <= meter'
         /\ left' \in [Tasks -> Nat]
         /\ UNCHANGED meter \/ (meter >= Cost /\ meter' = meter - Cost)
<1>1. Available \in 0 .. Full /\ Available <= meter /\ meter \in 0 .. Full
  BY AvailableBounds DEF ClientTypeOK
<1>2. Cost \in Nat \ {0} /\ Full \in Nat
  BY Sizes
<1>3. CASE Available >= Cost
  <2>1. /\ tokens' = Available - Cost /\ since' = 0 /\ meter' = meter - Cost
        /\ UNCHANGED <<rate, left>>
    BY <1>3, <1>1, <1>2 DEF AcquireToken, Updated
  <2> QED
    BY <2>1, <1>1, <1>2, <1>3 DEF ClientTypeOK
<1>a. \/ Available >= Cost
      \/ Available < Cost /\ rate > 0
      \/ Available < Cost /\ rate = 0
  BY <1>1, <1>2 DEF AcquireToken
<1>5. CASE Available < Cost /\ rate = 0
  <2>1. tokens' = Available /\ since' = 0 /\ UNCHANGED <<rate, left, meter>>
    BY <1>5, <1>1, <1>2 DEF AcquireToken, Updated
  <2> QED
    BY <2>1, <1>1 DEF ClientTypeOK
<1>4. CASE Available < Cost /\ rate > 0
  <2>1. /\ tokens' = Available /\ since' = 0
        /\ left' = [left EXCEPT ![t] = (Cost - Available + rate - 1) \div rate]
        /\ UNCHANGED <<rate, meter>>
    BY <1>4, <1>1, <1>2 DEF AcquireToken, Updated, Sleep
  <2>2. (Cost - Available + rate - 1) \div rate \in Nat
    BY <1>1, <1>2, <1>4, SleepIsNat
  <2>3. left' \in [Tasks -> Nat]
    BY <2>1, <2>2 DEF ClientTypeOK
  <2>4. tokens' \in 0 .. Full /\ meter' \in 0 .. Full /\ tokens' <= meter' /\ UNCHANGED meter
        /\ since' = 0 /\ rate' = rate
    BY <2>1, <1>1
  <2> QED
    BY <2>3, <2>4
<1> QED
  BY <1>3, <1>4, <1>5, <1>a

\* The promise after an update of the bucket: no tick has passed since.
LEMMA FreshPromise ==
  ASSUME tokens' \in 0 .. Full, since' = 0, tokens' <= meter'
  PROVE  PromiseKept'
<1>1. since' * TopRate = 0 /\ Full \in Nat
  BY Sizes
<1>2. Lesser(Full, tokens' + since' * TopRate) = tokens'
  BY <1>1 DEF Lesser
<1>3. PromiseKept' <=> Lesser(Full, tokens' + since' * TopRate) <= meter'
  BY DEF PromiseKept, Promised, Lesser, Full, TopRate
<1> QED
  BY <1>2, <1>3

\* A tick brings the eager bucket as much as it promises the other one.
LEMMA TickKeepsPromise ==
  ASSUME ClientTypeOK, PromiseKept, Tick
  PROVE  PromiseKept' /\ meter' \in 0 .. Full /\ since' \in Nat
<1>1. /\ tokens \in Nat /\ since \in Nat /\ meter \in 0 .. Full /\ tokens' = tokens
      /\ since' = Lesser(since + 1, Full)
      /\ meter' = Lesser(meter + TopRate, Full)
      /\ Full \in Nat /\ TopRate \in Nat
  BY Sizes DEF ClientTypeOK, Tick
<1>2. since' \in Nat /\ since' <= since + 1 /\ meter' \in 0 .. Full
  BY <1>1 DEF Lesser
<1>3. since' * TopRate <= (since + 1) * TopRate
  BY <1>1, <1>2, TimesGrows
<1>4. (since + 1) * TopRate = since * TopRate + TopRate
  BY <1>1
<1>5. since * TopRate \in Nat /\ since' * TopRate \in Nat
  BY <1>1, <1>2, TimesGrows
<1>6. Lesser(Full, tokens + since * TopRate) <= meter
  BY DEF PromiseKept, Promised
<1>7. Lesser(Full, tokens' + since' * TopRate) <= meter'
  BY <1>1, <1>3, <1>4, <1>5, <1>6 DEF Lesser
<1> QED
  BY <1>2, <1>7 DEF PromiseKept, Promised, Lesser, Full, TopRate

\* No step breaks the promise: ticks bring as much to the eager bucket, grants
\* take as much from it, and a new rate is none that was not promised.
LEMMA NextKeepsPromise ==
  ASSUME ClientIInv, [ClientNext]_clientVars
  PROVE  PromiseKept' /\ meter' \in 0 .. Full /\ tokens' \in 0 .. Full
         /\ since' \in Nat /\ rate' \in Rates
<1>0. /\ ClientTypeOK /\ PromiseKept
      /\ meter \in 0 .. Full /\ tokens \in 0 .. Full /\ since \in Nat /\ rate \in Rates
  BY DEF ClientIInv, ClientTypeOK
<1> DEFINE Kept == PromiseKept' /\ meter' \in 0 .. Full /\ tokens' \in 0 .. Full
                   /\ since' \in Nat /\ rate' \in Rates
<1>1. CASE UNCHANGED <<tokens, since, meter>> /\ rate' \in Rates
  <2>1. PromiseKept'
    BY <1>0, <1>1 DEF PromiseKept, Promised, Lesser, Full, TopRate
  <2> QED
    BY <1>0, <1>1, <2>1
<1>2. ASSUME NEW t \in Tasks, Limit(t)
      PROVE  Kept
  <2>1. PICK next \in Steps : AcquireToken(t, next)
    BY <1>2 DEF Limit, Steps
  <2>2. /\ tokens' \in 0 .. Full /\ since' = 0 /\ rate' = rate /\ meter' \in 0 .. Full
        /\ tokens' <= meter'
    BY <1>0, <2>1, AcquireKeepsPromise
  <2> QED
    BY <1>0, <2>2, FreshPromise
<1>3. CASE Tick
  BY <1>0, <1>3, TickKeepsPromise DEF Tick
<1>4. CASE Restart
  <2>1. /\ tokens' = Full /\ since' = 0 /\ rate' = FirstRate /\ meter' = Full
    BY <1>4 DEF Restart
  <2>2. tokens' \in 0 .. Full /\ tokens' <= meter'
    BY <2>1, Sizes
  <2> QED
    BY <2>1, <2>2, FreshPromise, ClientAssumption
<1>5. ASSUME NEW t \in Tasks, Respond(t)
      PROVE  UNCHANGED <<tokens, since, meter>> /\ rate' \in Rates
  BY <1>0, <1>5 DEF Respond, AdjustRate, bucket
<1>6. ASSUME NEW t \in Tasks,
             Call(t) \/ CheckToken(t) \/ ObtainToken(t) \/ EnterSlot(t)
               \/ TakeSlot(t) \/ Retry(t) \/ Cancel(t)
      PROVE  UNCHANGED <<tokens, since, meter>> /\ rate' \in Rates
  BY <1>0, <1>6 DEF Call, CheckToken, ObtainToken, EnterSlot, TakeSlot, Retry, Cancel, bucket
<1>7. CASE UNCHANGED clientVars
  BY <1>0, <1>1, <1>7 DEF clientVars, bucket
<1> QED
  BY <1>1, <1>2, <1>3, <1>4, <1>5, <1>6, <1>7 DEF ClientNext, Proceed

\* A task that begins to wait for another attempt has one left.
LEMMA NextLeavesAttempt ==
  ASSUME ClientIInv, [ClientNext]_clientVars, pc' \in [Tasks -> Steps]
  PROVE  /\ attempt' \in [Tasks -> Nat] /\ \A t \in Tasks : attempt'[t] < MaxAttempts
         /\ AttemptLeft'
<1>0. /\ pc \in [Tasks -> Steps]
      /\ attempt \in [Tasks -> Nat] /\ \A u \in Tasks : attempt[u] < MaxAttempts
      /\ \A u \in Tasks : pc[u] = "backoff" => attempt[u] + 1 < MaxAttempts
      /\ MaxAttempts \in Nat \ {0}
  BY ClientAssumption DEF ClientIInv, ClientTypeOK, AttemptLeft
<1> DEFINE Kept == /\ attempt' \in [Tasks -> Nat] /\ \A u \in Tasks : attempt'[u] < MaxAttempts
                   /\ AttemptLeft'
<1>1. CASE /\ UNCHANGED attempt
           /\ \A u \in Tasks : pc'[u] = "backoff" => pc[u] = "backoff"
  BY <1>0, <1>1 DEF AttemptLeft
<1>2. ASSUME NEW t \in Tasks, Call(t)
      PROVE  Kept
  BY <1>0, <1>2 DEF Call, AttemptLeft, Goto, Entry
<1>3. ASSUME NEW t \in Tasks, Retry(t)
      PROVE  Kept
  BY <1>0, <1>3 DEF Retry, AttemptLeft, Goto, At
<1>4. ASSUME NEW t \in Tasks, NEW step \in Steps \ {"backoff"},
             HandOn(t, step)
      PROVE  \A u \in Tasks : pc'[u] = "backoff" => pc[u] = "backoff"
  BY <1>0, <1>4 DEF HandOn, Goto
<1>5. ASSUME NEW t \in Tasks, Respond(t)
      PROVE  Kept
  <2>1. UNCHANGED attempt
    BY <1>5 DEF Respond
  <2>2. CASE HandOn(t, "charge") \/ HandOn(t, "idle")
    BY <1>1, <1>4, <2>1, <2>2 DEF Steps
  <2>3. CASE attempt[t] + 1 < MaxAttempts /\ Goto(t, "backoff")
    BY <1>0, <2>1, <2>3 DEF Goto, AttemptLeft
  <2> QED
    BY <1>5, <2>2, <2>3 DEF Respond, Release
<1>6. ASSUME NEW t \in Tasks, Cancel(t)
      PROVE  Kept
  <2>1. UNCHANGED attempt
    BY <1>6 DEF Cancel
  <2>2. CASE HandOn(t, "idle")
    BY <1>1, <1>4, <2>1, <2>2 DEF Steps
  <2>3. CASE Goto(t, "idle")
    BY <1>0, <1>1, <2>1, <2>3 DEF Goto
  <2> QED
    BY <1>6, <2>2, <2>3 DEF Cancel, Release
<1>7. ASSUME NEW t \in Tasks,
             CheckToken(t) \/ ObtainToken(t) \/ Limit(t) \/ EnterSlot(t) \/ TakeSlot(t)
      PROVE  Kept
  <2>1. UNCHANGED attempt
    BY <1>7 DEF CheckToken, ObtainToken, Limit, EnterSlot, TakeSlot
  <2>2. UNCHANGED pc \/ \E step \in Steps \ {"backoff"} : Goto(t, step)
    BY <1>7 DEF CheckToken, ObtainToken, Limit, AcquireToken, EnterSlot, TakeSlot, Steps, Entry
  <2>3. \A u \in Tasks : pc'[u] = "backoff" => pc[u] = "backoff"
    BY <1>0, <2>2 DEF Goto
  <2> QED
    BY <1>1, <2>1, <2>3
<1>8. CASE Tick \/ UNCHANGED clientVars
  BY <1>1, <1>8 DEF Tick, clientVars, task
<1>9. CASE Restart
  BY <1>0, <1>9 DEF Restart, AttemptLeft
<1> QED
  BY <1>2, <1>3, <1>5, <1>6, <1>7, <1>8, <1>9 DEF ClientNext, Proceed

\* A client is for one API, for good.
LEMMA ApiStays ==
  ASSUME [ClientNext]_clientVars
  PROVE  api' = api
<1>1. ASSUME NEW t \in Tasks, Call(t) \/ Proceed(t)
      PROVE  api' = api
  BY <1>1 DEF Proceed, Call, CheckToken, ObtainToken, EnterSlot, TakeSlot, Limit, Respond, Retry
<1>2. ASSUME NEW t \in Tasks, Cancel(t)
      PROVE  api' = api
  BY <1>2 DEF Cancel
<1>3. CASE Tick \/ Restart \/ UNCHANGED clientVars
  BY <1>3 DEF Tick, Restart, clientVars
<1> QED
  BY <1>1, <1>2, <1>3 DEF ClientNext

\* The remaining variables have their types after every step.
LEMMA NextKeepsRest ==
  ASSUME ClientIInv, [ClientNext]_clientVars
  PROVE  /\ left' \in [Tasks -> Nat]
         /\ ttl' \in 0 .. Life /\ saved' \in 0 .. Life
         /\ restarts' \in 0 .. MaxRestarts
<1>0. /\ ClientTypeOK /\ PromiseKept
      /\ left \in [Tasks -> Nat]
      /\ ttl \in 0 .. Life /\ saved \in 0 .. Life
      /\ restarts \in 0 .. MaxRestarts
      /\ Life \in Nat /\ MaxRestarts \in Nat
      /\ Backoffs \subseteq Nat
  BY ClientAssumption DEF ClientIInv, ClientTypeOK
<1>1. ASSUME NEW t \in Tasks, Call(t)
      PROVE  left' = left /\ ttl' = ttl /\ saved' = saved /\ restarts' = restarts
  BY <1>0, <1>1 DEF Call, oauth
<1>2. ASSUME NEW t \in Tasks, CheckToken(t) \/ EnterSlot(t) \/ TakeSlot(t) \/ Retry(t)
      PROVE  UNCHANGED <<left, ttl, saved, restarts>>
  BY <1>2 DEF CheckToken, EnterSlot, TakeSlot, Retry, oauth
<1>3. ASSUME NEW t \in Tasks, ObtainToken(t)
      PROVE  UNCHANGED <<left, restarts>> /\ ttl' \in 0 .. Life /\ saved' \in 0 .. Life
  BY <1>0, <1>3 DEF ObtainToken, oauth
<1>4. ASSUME NEW t \in Tasks, Limit(t)
      PROVE  UNCHANGED <<ttl, saved, restarts>> /\ left' \in [Tasks -> Nat]
  <2>1. PICK next \in Steps : AcquireToken(t, next)
    BY <1>4 DEF Limit, Steps
  <2> QED
    BY <1>0, <1>4, <2>1, AcquireKeepsPromise DEF Limit, oauth
<1>5. ASSUME NEW t \in Tasks, Respond(t)
      PROVE  UNCHANGED <<ttl, saved, restarts>> /\ left' \in [Tasks -> Nat]
  <2>1. UNCHANGED left \/ \E n \in Nat : left' = [left EXCEPT ![t] = n]
    BY <1>0, <1>5 DEF Respond, Sleep
  <2> QED
    BY <1>0, <1>5, <2>1 DEF Respond, oauth
<1>6. ASSUME NEW t \in Tasks, Cancel(t)
      PROVE  UNCHANGED <<ttl, saved, restarts>> /\ left' \in [Tasks -> Nat]
  BY <1>0, <1>6 DEF Cancel, oauth
<1>7. CASE Tick
  <2>1. /\ left' = [t \in Tasks |-> Older(left[t])]
        /\ ttl' = Older(ttl) /\ saved' = Older(saved) /\ restarts' = restarts
    BY <1>7 DEF Tick
  <2>2. ASSUME NEW m \in Nat, NEW n \in 0 .. m
        PROVE  Older(n) \in 0 .. m
    BY <2>2 DEF Older
  <2>3. ASSUME NEW n \in Nat
        PROVE  Older(n) \in Nat
    BY <2>3 DEF Older
  <2> QED
    BY <1>0, <2>1, <2>2, <2>3
<1>8. CASE Restart
  BY <1>0, <1>8 DEF Restart
<1>9. CASE UNCHANGED clientVars
  BY <1>0, <1>9 DEF clientVars, task, oauth
<1> QED
  BY <1>0, <1>1, <1>2, <1>3, <1>4, <1>5, <1>6, <1>7, <1>8, <1>9 DEF ClientNext, Proceed

-----------------------------------------------------------------------------
(* The theorems.                                                           *)

\* A new client begins with a full bucket and free slots.
LEMMA ClientInitIInv == ClientInit => ClientIInv
<1> SUFFICES ASSUME ClientInit
             PROVE  ClientIInv
  OBVIOUS
<1>0. api \in Apis
  BY DEF ClientInit
<1>1. /\ pc = [t \in Tasks |-> "idle"] /\ value = Capacity /\ activeCount = 0 /\ waiters = << >>
      /\ tokens = Full /\ since = 0 /\ meter = Full
  BY DEF ClientInit
<1>2. InSlot = {} /\ Granted = {} /\ Queued = {} /\ ToSet(waiters) = {} /\ IsInjective(waiters)
  BY <1>1 DEF InSlot, Granted, Queued, ToSet, IsInjective
<1>3. SlotsConserved /\ FewHoldSlots
  BY <1>0, <1>1, <1>2, FS_EmptySet, SlotBooks, CapacityIs DEF FewHoldSlots
<1>4. ClientTypeOK
  BY <1>0, <1>1, EmptySeq, Sizes, CapacityIs, ClientAssumption DEF ClientInit, ClientTypeOK, Steps
<1>5. PromiseKept
  <2>1. since * TopRate = 0 /\ Full \in Nat
    BY <1>1, Sizes
  <2> QED
    BY <1>1, <2>1 DEF PromiseKept, Promised, Lesser
<1>6. AttemptLeft
  BY <1>1 DEF AttemptLeft
<1> QED
  BY <1>3, <1>4, <1>5, <1>6 DEF ClientIInv

\* Every step keeps the invariant.
LEMMA ClientNextIInv == ClientIInv /\ [ClientNext]_clientVars => ClientIInv'
<1> SUFFICES ASSUME ClientIInv, [ClientNext]_clientVars
             PROVE  ClientIInv'
  OBVIOUS
<1>1. SlotBooksKept
  BY NextKeepsBooks
<1>0. api' = api /\ api \in Apis /\ Capacity \in Nat
  BY ApiStays, CapacityIs DEF ClientIInv, ClientTypeOK
<1>2. value' \in 0 .. Capacity /\ activeCount' \in 0 .. Capacity
  <2>1. SlotsConserved' /\ FewHoldSlots' /\ value' \in Nat
    BY <1>1 DEF SlotBooksKept
  <2>2. Cardinality(InSlot') \in Nat /\ Cardinality(Granted') \in Nat
    BY <2>1, FS_CardinalityType DEF FewHoldSlots
  <2> QED
    BY <1>0, <2>1, <2>2, SlotBooksAfter
<1>3. /\ PromiseKept' /\ meter' \in 0 .. Full /\ tokens' \in 0 .. Full
      /\ since' \in Nat /\ rate' \in Rates
  BY NextKeepsPromise
<1>4. /\ attempt' \in [Tasks -> Nat] /\ \A t \in Tasks : attempt'[t] < MaxAttempts
      /\ AttemptLeft'
  BY <1>1, NextLeavesAttempt DEF SlotBooksKept
<1>5. ClientTypeOK'
  BY <1>0, <1>1, <1>2, <1>3, <1>4, NextKeepsRest DEF ClientTypeOK, SlotBooksKept, Full, Capacity
<1> QED
  BY <1>1, <1>3, <1>4, <1>5 DEF ClientIInv, SlotBooksKept

\* The invariant of the proofs holds in every state.
LEMMA ClientSpecIInv == ClientSpec => []ClientIInv
BY ClientInitIInv, ClientNextIInv, PTL DEF ClientSpec

\* The books of the two limiters: the bucket of the client is never ahead of one
\* that is filled eagerly at the highest rate, and no slot of the semaphore is
\* lost or doubled (rate_limiter.py, concurrency_limiter.py).
THEOREM ClientInvCorrect == ClientSpec => []ClientInv
<1>1. ClientIInv => ClientInv
  BY AvailableBounds DEF ClientIInv, ClientInv, BucketNotAhead
<1> QED
  BY <1>1, ClientSpecIInv, PTL

\* What a step of the client is to the bucket of RateContract.
LEMMA StepIsContractStep == ClientIInv /\ [ClientNext]_clientVars => [Contract!Next]_meter
<1> SUFFICES ASSUME ClientIInv, [ClientNext]_clientVars
             PROVE  Contract!Next \/ UNCHANGED meter
  BY DEF Contract!Next
<1>0. ClientTypeOK /\ PromiseKept
  BY DEF ClientIInv
<1>1. ASSUME NEW t \in Tasks, Limit(t)
      PROVE  Contract!Next \/ UNCHANGED meter
  <2>1. PICK next \in Steps : AcquireToken(t, next)
    BY <1>1 DEF Limit, Steps
  <2>2. UNCHANGED meter \/ (meter >= Cost /\ meter' = meter - Cost)
    BY <1>0, <2>1, AcquireKeepsPromise
  <2> QED
    BY <2>2 DEF Contract!Next, Contract!Request
<1>2. CASE Tick
  <2>1. meter' = Lesser(meter + TopRate, Full)
    BY <1>2 DEF Tick
  <2>2. meter \in Nat /\ TopRate \in Nat /\ Full \in Nat
    BY <1>0, Sizes DEF ClientTypeOK
  <2>3. Lesser(meter + TopRate, Full) = Contract!Capped(meter + TopRate)
    BY <2>2 DEF Lesser, Contract!Capped
  <2> QED
    BY <2>1, <2>3 DEF Contract!Next, Contract!Wait
<1>3. CASE Restart
  BY <1>3 DEF Restart, Contract!Next, Contract!Renew
<1>4. ASSUME NEW t \in Tasks,
             Call(t) \/ CheckToken(t) \/ ObtainToken(t) \/ EnterSlot(t)
               \/ TakeSlot(t) \/ Respond(t) \/ Retry(t) \/ Cancel(t)
      PROVE  UNCHANGED meter
  BY <1>4 DEF Call, CheckToken, ObtainToken, EnterSlot, TakeSlot, Respond, Retry, Cancel
<1>5. CASE UNCHANGED clientVars
  BY <1>5 DEF clientVars
<1> QED
  BY <1>1, <1>2, <1>3, <1>4, <1>5 DEF ClientNext, Proceed

\* However tasks overlap, are cancelled, retry and sleep, and whatever rates the
\* service announces, the requests let through are ones that the contract with
\* the service allows: in any stretch of time no more than the burst and what
\* the highest rate brings in it.
THEOREM GrantsWithinRateCorrect == ClientSpec => GrantsWithinRate
<1>1. ClientInit => Contract!Init
  BY DEF ClientInit, Contract!Init
<1> QED
  BY <1>1, ClientSpecIInv, StepIsContractStep, PTL DEF ClientSpec, GrantsWithinRate, Contract!Spec
=============================================================================
