--------------------------- MODULE JobQueueProofs ---------------------------
(***************************************************************************)
(* Theorems about JobQueue, for every set of jobs and workers.  The        *)
(* inductive invariant is built in layers: Placement says where a job can  *)
(* be, Readiness that whatever may still be executed has its dependencies, *)
(* and Committedness that whatever was started is never queued again.      *)
(***************************************************************************)
EXTENDS JobQueue, TLAPS, FiniteSetTheorems

\* A job nobody submitted has left no trace.
FreshJobs ==
  \A j \in Jobs \ submitted :
    /\ j \notin jobs /\ j \notin heap /\ j \notin templates
    /\ ~Held(j)
    /\ submit[j] = "idle"
    /\ starts[j] = 0
    /\ row[j] = "absent" /\ disk[j] = "absent"

HeapPlacement ==
  \A j \in heap :
    /\ j \in jobs
    /\ ~Held(j)
    /\ submit[j] = "idle"
    /\ status[j] \in {"pending", "cancelled"}

HeldPlacement ==
  /\ \A w \in Workers : wjob[w] # NoJob =>
       /\ wjob[w] \in jobs
       /\ submit[wjob[w]] = "idle"
       /\ status[wjob[w]] \in {"running"} \cup Terminal
  /\ \A u, w \in Workers : wjob[u] = wjob[w] /\ wjob[u] # NoJob => u = w

SubmitPlacement ==
  \A j \in Jobs : submit[j] = "queueing" =>
    j \in jobs /\ status[j] \in {"pending", "cancelled"}

RegistryPlacement ==
  \A j \in jobs :
    /\ j \notin templates
    /\ status[j] = "pending" => j \in heap \/ submit[j] = "queueing"
    /\ status[j] = "running" => Held(j) \/ phase = "stopping"

\* Where a job can be.
Placement ==
  /\ FreshJobs
  /\ HeapPlacement
  /\ HeldPlacement
  /\ SubmitPlacement
  /\ RegistryPlacement

\* Whatever may still be executed has all its dependencies.
Readiness ==
  /\ \A j \in Jobs : status[j] = "completed" => j \in succeeded
  /\ \A j \in Jobs :
       \/ j \in heap \/ Held(j) \/ submit[j] = "queueing"
       \/ row[j] = "pending" \/ disk[j] = "pending"
       => DependsOn[j] \subseteq succeeded

\* Whatever has been started is not queued, in memory or in the database.
StartedJobs ==
  \A j \in Jobs : starts[j] # 0 =>
    /\ starts[j] = 1
    /\ j \notin heap
    /\ submit[j] = "idle"
    /\ j \in jobs => status[j] # "waiting"
    /\ row[j] \notin Queued /\ disk[j] \notin Queued

HeldRows == \A w \in Workers : wjob[w] # NoJob => row[wjob[w]] \notin Queued

StartingJobs == \A w \in Workers : wpc[w] = "starting" => starts[wjob[w]] = 0

Committedness == StartedJobs /\ HeldRows /\ StartingJobs

-----------------------------------------------------------------------------
(***************************************************************************)
(* Lemmas about the helpers.                                               *)
(***************************************************************************)

\* What a write, successful or not, can leave in the status column.
LEMMA WriteEffect ==
  ASSUME TypeOK, NEW r \in [Jobs -> JobStatus \cup {"absent"}], Write(r)
  PROVE  /\ disk' = disk
         /\ row' \in [Jobs -> JobStatus \cup {"absent"}]
         /\ \A j \in Jobs : row'[j] = r[j] \/ row'[j] = disk[j]
         /\ faults' \in 0..MaxFaults
         /\ MaxFaults = 0 => row' = r
BY JobsAssumption DEF TypeOK, Write

\* A write of job rows keeps their type.
LEMMA UpdatedType ==
  ASSUME TypeOK, NEW js \in SUBSET Jobs, NEW s \in JobStatus
  PROVE  Updated(js, s) \in [Jobs -> JobStatus \cup {"absent"}]
BY DEF TypeOK, Updated

\* What a new process begins with, whether the recovery ends or fails midway: the
\* rows, less some that were RUNNING, and a registry of jobs whose rows are queued.
LEMMA StartEffect ==
  ASSUME Start
  PROVE  /\ phase = "down" /\ phase' = "up" /\ row' = disk' /\ templates' = {}
         /\ submit' = [j \in Jobs |-> "idle"]
         /\ wpc' = [w \in Workers |-> "idle"] /\ wjob' = [w \in Workers |-> NoJob]
         /\ UNCHANGED <<submitted, starts, succeeded, announced>>
         /\ faults' = faults \/ (faults < MaxFaults /\ faults' = faults + 1)
         /\ row' = [j \in Jobs |-> row'[j]] /\ status' = [j \in Jobs |-> status'[j]]
         /\ \A j \in Jobs : row'[j] = disk[j] \/ (disk[j] = "running" /\ row'[j] = "failed")
         /\ faults' = faults => \A j \in Jobs : row'[j] # "running"
         /\ jobs' \subseteq Jobs /\ \A j \in jobs' : row'[j] \in Queued /\ status'[j] = row'[j]
         /\ \A j \in Jobs : j \notin jobs' => status'[j] = "none"
         /\ heap' = {j \in jobs' : row'[j] = "pending"}
<1>1. PICK seen \in SUBSET Jobs, loads \in SUBSET Jobs :
        /\ Recover(seen, loads)
        /\ \/ UNCHANGED faults /\ seen = Jobs
           \/ faults < MaxFaults /\ faults' = faults + 1
  BY DEF Start
<1>2. /\ row' = [j \in Jobs |-> IF j \in seen THEN Recovered(disk[j]) ELSE disk[j]]
      /\ disk' = row'
  BY <1>1 DEF Recover
<1>3. jobs' = {j \in loads : row'[j] \in Queued}
  BY <1>1, <1>2 DEF Recover
<1>4. /\ heap' = {j \in jobs' : row'[j] = "pending"}
      /\ status' = [j \in Jobs |-> IF j \in jobs' THEN row'[j] ELSE "none"]
  BY <1>1, <1>2, <1>3 DEF Recover
<1>5. \A j \in Jobs : row'[j] = disk[j] \/ (disk[j] = "running" /\ row'[j] = "failed")
  BY <1>2 DEF Recovered
<1>6. ASSUME seen = Jobs, NEW j \in Jobs
      PROVE  row'[j] # "running"
  BY <1>2, <1>6 DEF Recovered
<1>7. faults' = faults => \A j \in Jobs : row'[j] # "running"
  <2>1. CASE UNCHANGED faults /\ seen = Jobs
    BY <1>6, <2>1
  <2>2. CASE faults < MaxFaults /\ faults' = faults + 1 /\ seen # Jobs
    BY <2>2, <1>6
  <2> QED
    BY <1>1, <1>6, <2>1, <2>2
<1> QED
  BY <1>1, <1>2, <1>3, <1>4, <1>5, <1>7 DEF Start, history

-----------------------------------------------------------------------------
(***************************************************************************)
(* Type correctness.                                                       *)
(***************************************************************************)

\* An empty queue has the types.
LEMMA TypeInit == Init => TypeOK
BY JobsAssumption DEF Init, TypeOK, Busy

\* The end of a handler writes a status.
LEMMA SettleType ==
  ASSUME TypeOK, NEW w \in Workers, NEW s \in Terminal, NEW next \in Busy,
         wpc[w] \in Busy, Settle(w, s, next)
  PROVE  TypeOK'
<1>1. wjob[w] \in Jobs /\ {wjob[w]} \in SUBSET Jobs
  BY DEF TypeOK
<1>2. s \in JobStatus
  BY DEF JobStatus
<1>3. /\ disk' = disk
      /\ row' \in [Jobs -> JobStatus \cup {"absent"}]
      /\ faults' \in 0..MaxFaults
  BY <1>1, <1>2, UpdatedType, WriteEffect DEF Settle
<1> QED
  BY <1>1, <1>2, <1>3 DEF Settle, TypeOK, JobStatus, Busy

\* Every step keeps the types.
LEMMA TypeStep == TypeOK /\ [Next]_vars => TypeOK'
<1> SUFFICES ASSUME TypeOK, [Next]_vars
             PROVE  TypeOK'
  OBVIOUS
<1>1. ASSUME NEW j \in Jobs, SubmitBegin(j)
      PROVE  TypeOK'
  <2>1. PICK s \in Queued, p \in {"queueing", "parking"} :
          /\ status' = [status EXCEPT ![j] = s]
          /\ submit' = [submit EXCEPT ![j] = p]
          /\ Write([row EXCEPT ![j] = s])
    BY <1>1 DEF SubmitBegin, SubmitTemplate, SubmitRegular, Queued
  <2>2. [row EXCEPT ![j] = s] \in [Jobs -> JobStatus \cup {"absent"}]
    BY DEF TypeOK, JobStatus
  <2>3. /\ disk' = disk
        /\ row' \in [Jobs -> JobStatus \cup {"absent"}]
        /\ faults' \in 0..MaxFaults
    BY <2>1, <2>2, WriteEffect
  <2>4. jobs' \subseteq Jobs /\ templates' \subseteq Templates
    BY <1>1 DEF TypeOK, SubmitBegin, SubmitTemplate, SubmitRegular
  <2>5. /\ submitted' = submitted \cup {j}
        /\ UNCHANGED <<phase, heap, wpc, wjob, starts, succeeded, announced>>
    BY <1>1 DEF SubmitBegin
  <2> QED
    BY <2>1, <2>3, <2>4, <2>5 DEF TypeOK, JobStatus
<1>2. ASSUME NEW j \in Jobs, CancelJob(j)
      PROVE  TypeOK'
  <2>1. Updated({j}, "cancelled") \in [Jobs -> JobStatus \cup {"absent"}]
    BY UpdatedType DEF JobStatus, Terminal
  <2> QED
    BY <1>2, <2>1, WriteEffect DEF TypeOK, CancelJob, memory, history, JobStatus, Terminal
<1>3. ASSUME NEW v \in Videos, CancelVideoJobs(v)
      PROVE  TypeOK'
  <2> DEFINE victims == {j \in Jobs : VideoOf[j] = v /\ row[j] \in Queued}
  <2>1. Updated(victims, "cancelled") \in [Jobs -> JobStatus \cup {"absent"}]
    BY UpdatedType DEF JobStatus, Terminal
  <2> QED
    BY <1>3, <2>1, WriteEffect DEF TypeOK, CancelVideoJobs, memory, history
<1>4. ASSUME NEW old \in SUBSET Jobs, PurgeHistory(old)
      PROVE  TypeOK'
  <2>1. [j \in Jobs |-> IF j \in old THEN "absent" ELSE row[j]]
          \in [Jobs -> JobStatus \cup {"absent"}]
    BY DEF TypeOK
  <2> QED
    BY <1>4, <2>1, WriteEffect DEF TypeOK, PurgeHistory, memory, history
<1>5. ASSUME NEW due \in SUBSET Templates, NEW spent \in SUBSET due,
             NEW clone \in [due -> Execs], SchedulerPass(due, spent, clone)
      PROVE  TypeOK'
  BY <1>5, JobsAssumption
  DEF TypeOK, SchedulerPass, database, JobStatus, Queued, Terminal
<1>6. ASSUME NEW j \in Jobs, SubmitEnd(j)
      PROVE  TypeOK'
  BY <1>6 DEF TypeOK, SubmitEnd, database, history
<1>7. ASSUME NEW w \in Workers, HandlerStep(w) \/ CancelBusyWorker(w)
      PROVE  TypeOK'
  BY <1>7, SettleType
  DEF HandlerStep, HandlerReturns, HandlerRaises, HandlerTimesOut, HandlerAborts,
      CancelBusyWorker, Terminal, Busy
<1>8. ASSUME NEW w \in Workers, TakeCancelled(w)
      PROVE  TypeOK'
  BY <1>8 DEF TypeOK, TakeCancelled, NextRound, Pop, HeapTop, database, Terminal, Busy
<1>9. ASSUME NEW w \in Workers, Take(w)
      PROVE  TypeOK'
  <2>1. PICK j \in heap : /\ heap' = heap \ {j}
                          /\ status' = [status EXCEPT ![j] = "running"]
                          /\ wjob' = [wjob EXCEPT ![w] = j]
                          /\ Write(Updated({j}, "running"))
    BY <1>9 DEF Take, Pop, HeapTop
  <2>2. j \in Jobs /\ Updated({j}, "running") \in [Jobs -> JobStatus \cup {"absent"}]
    BY UpdatedType DEF TypeOK, JobStatus
  <2>3. /\ disk' = disk
        /\ row' \in [Jobs -> JobStatus \cup {"absent"}]
        /\ faults' \in 0..MaxFaults
    BY <2>1, <2>2, WriteEffect
  <2>4. \A u \in Workers : wjob'[u] # NoJob <=> wpc'[u] \in Busy
    BY <1>9, <2>1, <2>2, JobsAssumption DEF TypeOK, Take, Busy
  <2> QED
    BY <1>9, <2>1, <2>2, <2>3, <2>4 DEF TypeOK, Take, history, Busy, JobStatus
<1>10. ASSUME NEW w \in Workers, StartHandler(w)
       PROVE  TypeOK'
  BY <1>10 DEF TypeOK, StartHandler, database, Busy
<1>11. ASSUME NEW w \in Workers, AnnounceCompletion(w)
       PROVE  TypeOK'
  BY <1>11 DEF TypeOK, AnnounceCompletion, Announce, EventOf, database, Busy, Terminal
<1>12. ASSUME NEW w \in Workers, AnnounceFailure(w) \/ AnnounceAbort(w)
       PROVE  TypeOK'
  BY <1>12
  DEF TypeOK, AnnounceFailure, AnnounceAbort, Announce, EventOf, Release, NextRound,
      database, Busy, Terminal
<1>13. ASSUME NEW w \in Workers, CheckWaitingJobs(w)
       PROVE  TypeOK'
  BY <1>13
  DEF TypeOK, CheckWaitingJobs, NextRound, Release, database, history, Busy, JobStatus, Queued
<1>14. ASSUME NEW w \in Workers,
              CancelIdleWorker(w) \/ CancelStartingWorker(w) \/ CancelEndingWorker(w)
       PROVE  TypeOK'
  BY <1>14
  DEF TypeOK, CancelIdleWorker, CancelStartingWorker, CancelEndingWorker, Release,
      database, history, Busy
<1>15. CASE Commit
  BY <1>15 DEF TypeOK, Commit, memory, history
<1>16. CASE Start
  <2>1. row' \in [Jobs -> JobStatus \cup {"absent"}] /\ disk' = row'
    BY <1>16, StartEffect DEF TypeOK, JobStatus, Terminal
  <2>2. \A j \in Jobs : status'[j] \in JobStatus \cup {"none"}
    BY <1>16, StartEffect DEF Queued, JobStatus
  <2>3. status' \in [Jobs -> JobStatus \cup {"none"}] /\ jobs' \subseteq Jobs /\ heap' \subseteq Jobs
    BY <1>16, <2>2, StartEffect
  <2>4. faults' \in 0..MaxFaults
    BY <1>16, StartEffect, JobsAssumption DEF TypeOK
  <2>5. /\ phase' = "up" /\ templates' = {}
        /\ submit' = [j \in Jobs |-> "idle"]
        /\ wpc' = [w \in Workers |-> "idle"] /\ wjob' = [w \in Workers |-> NoJob]
        /\ UNCHANGED <<submitted, starts, succeeded, announced>>
    BY <1>16, StartEffect
  <2> QED
    BY <2>1, <2>3, <2>4, <2>5 DEF TypeOK, Busy
<1>17. CASE Stop
  BY <1>17 DEF TypeOK, Stop, memory, database, history
<1>18. CASE Exit
  BY <1>18 DEF TypeOK, Exit, Busy, Terminal
<1>19. CASE UNCHANGED vars
  BY <1>19 DEF TypeOK, vars, memory, database, history
<1> QED
  BY <1>1, <1>2, <1>3, <1>4, <1>5, <1>6, <1>7, <1>8, <1>9, <1>10, <1>11, <1>12,
     <1>13, <1>14, <1>15, <1>16, <1>17, <1>18, <1>19
  DEF Next, Request, Submit, Retry, WorkerStep, CancelWorker

\* Every reachable state of the queue is well typed.
THEOREM TypeCorrect == Spec => []TypeOK
BY TypeInit, TypeStep, PTL DEF Spec

-----------------------------------------------------------------------------
(***************************************************************************)
(* Placement.                                                              *)
(***************************************************************************)

\* Placement speaks of rows only for jobs nobody submitted: every write
\* leaves those absent.
LEMMA WriteKeepsFresh ==
  ASSUME TypeOK, NEW r \in [Jobs -> JobStatus \cup {"absent"}], Write(r),
         NEW k \in Jobs, r[k] = "absent", disk[k] = "absent"
  PROVE  row'[k] = "absent" /\ disk'[k] = "absent"
BY WriteEffect

\* In an empty queue no job is anywhere.
LEMMA PlacementInit == Init => Placement
BY JobsAssumption
DEF Init, Placement, FreshJobs, HeapPlacement, HeldPlacement, SubmitPlacement,
    RegistryPlacement, Held

\* The end of a handler leaves the job with its worker.
LEMMA PlacementSettle ==
  ASSUME TypeOK, Placement, NEW w \in Workers, NEW s \in Terminal,
         NEW next \in Busy, wpc[w] \in Busy, Settle(w, s, next)
  PROVE  Placement'
<1> DEFINE j == wjob[w]
<1>1. j \in Jobs /\ j \in submitted /\ wjob[w] # NoJob
  BY DEF TypeOK, Placement, FreshJobs, Held
<1>2. Updated({j}, s) \in [Jobs -> JobStatus \cup {"absent"}]
  BY <1>1, UpdatedType DEF JobStatus
<1>3. /\ status' = [status EXCEPT ![j] = s]
      /\ Write(Updated({j}, s))
      /\ UNCHANGED <<phase, jobs, templates, heap, submit, wjob, submitted, starts>>
  BY DEF Settle
<1>4. FreshJobs'
  BY <1>1, <1>2, <1>3, WriteKeepsFresh DEF Placement, FreshJobs, Held, Updated
<1>5. j \notin heap /\ submit[j] = "idle"
  BY <1>1 DEF Placement, HeapPlacement, HeldPlacement, Held
<1>6. HeapPlacement'
  BY <1>3, <1>5 DEF Placement, HeapPlacement, Held, TypeOK
<1>7. HeldPlacement'
  BY <1>3 DEF Placement, HeldPlacement, TypeOK
<1>8. SubmitPlacement'
  BY <1>3, <1>5 DEF Placement, SubmitPlacement, TypeOK
<1>9. RegistryPlacement'
  BY <1>1, <1>3 DEF Placement, RegistryPlacement, Held, TypeOK, Terminal
<1> QED
  BY <1>4, <1>6, <1>7, <1>8, <1>9 DEF Placement

\* Every step keeps each job in its place.
LEMMA PlacementStep == TypeOK /\ Placement /\ [Next]_vars => Placement'
<1> SUFFICES ASSUME TypeOK, Placement, [Next]_vars
             PROVE  Placement'
  OBVIOUS
<1>1. ASSUME NEW j \in Jobs, SubmitBegin(j)
      PROVE  Placement'
  <2>1. PICK s \in Queued, p \in {"queueing", "parking"} :
          /\ status' = [status EXCEPT ![j] = s]
          /\ submit' = [submit EXCEPT ![j] = p]
          /\ Write([row EXCEPT ![j] = s])
          /\ s = "pending" <=> p = "queueing"
          /\ \/ jobs' = jobs \cup {j} /\ templates' = templates
             \/ jobs' = jobs /\ templates' = templates \cup {j} /\ p = "parking"
    BY <1>1 DEF SubmitBegin, SubmitTemplate, SubmitRegular, Queued
  <2>2. /\ j \notin submitted
        /\ submitted' = submitted \cup {j}
        /\ UNCHANGED <<phase, heap, wpc, wjob, starts>>
    BY <1>1 DEF SubmitBegin, Fresh
  <2>3. \/ jobs' = jobs \cup {j} /\ templates' = templates
        \/ jobs' = jobs /\ templates' = templates \cup {j} /\ p = "parking"
    BY <2>1
  <2>4. [row EXCEPT ![j] = s] \in [Jobs -> JobStatus \cup {"absent"}]
    BY DEF TypeOK, JobStatus
  <2>5. /\ j \notin jobs /\ j \notin heap /\ j \notin templates
        /\ \A w \in Workers : wjob[w] # j
    BY <2>2 DEF Placement, FreshJobs, Held
  <2>6. FreshJobs'
    <3> SUFFICES ASSUME NEW k \in Jobs, k \notin submitted'
                 PROVE  /\ k \notin jobs' /\ k \notin heap' /\ k \notin templates'
                        /\ ~Held(k)'
                        /\ submit'[k] = "idle"
                        /\ starts'[k] = 0
                        /\ row'[k] = "absent" /\ disk'[k] = "absent"
      BY DEF FreshJobs
    <3>1. k # j /\ k \notin submitted
      BY <2>2
    <3>2. [row EXCEPT ![j] = s][k] = "absent" /\ disk[k] = "absent"
      BY <3>1 DEF Placement, FreshJobs, TypeOK
    <3>3. row'[k] = "absent" /\ disk'[k] = "absent"
      BY <2>1, <2>4, <3>2, WriteKeepsFresh
    <3> QED
      BY <2>1, <2>2, <2>3, <3>1, <3>3 DEF Placement, FreshJobs, Held, TypeOK
  <2>7. HeapPlacement'
    BY <2>1, <2>2, <2>3, <2>5 DEF Placement, HeapPlacement, Held, TypeOK
  <2>8. HeldPlacement'
    BY <2>1, <2>2, <2>3, <2>5 DEF Placement, HeldPlacement, TypeOK
  <2>9. SubmitPlacement'
    BY <2>1, <2>2, <2>3, <2>5 DEF Placement, SubmitPlacement, TypeOK
  <2>10. RegistryPlacement'
    BY <2>1, <2>2, <2>3, <2>5 DEF Placement, RegistryPlacement, Held, TypeOK, Queued
  <2> QED
    BY <2>6, <2>7, <2>8, <2>9, <2>10 DEF Placement
<1>2. ASSUME NEW j \in Jobs, CancelJob(j)
      PROVE  Placement'
  <2>1. /\ Write(Updated({j}, "cancelled"))
        /\ UNCHANGED <<phase, jobs, templates, heap, submit, wpc, wjob, submitted, starts>>
        /\ \A k \in Jobs : status'[k] = status[k] \/ status'[k] = "cancelled"
    BY <1>2 DEF CancelJob, memory, history, TypeOK
  <2>2. Updated({j}, "cancelled") \in [Jobs -> JobStatus \cup {"absent"}]
    BY UpdatedType DEF JobStatus, Terminal
  <2>3. FreshJobs'
    BY <2>1, <2>2, WriteKeepsFresh DEF Placement, FreshJobs, Held, Updated
  <2> QED
    BY <2>1, <2>3
    DEF TypeOK, Placement, HeapPlacement, HeldPlacement, SubmitPlacement,
        RegistryPlacement, Held, Terminal
<1>3. ASSUME NEW v \in Videos, CancelVideoJobs(v)
      PROVE  Placement'
  <2> DEFINE victims == {j \in Jobs : VideoOf[j] = v /\ row[j] \in Queued}
  <2>1. /\ Write(Updated(victims, "cancelled"))
        /\ UNCHANGED <<phase, status, jobs, templates, heap, submit, wpc, wjob,
                       submitted, starts>>
    BY <1>3 DEF CancelVideoJobs, memory, history
  <2>2. Updated(victims, "cancelled") \in [Jobs -> JobStatus \cup {"absent"}]
    BY UpdatedType DEF JobStatus, Terminal
  <2>3. FreshJobs'
    BY <2>1, <2>2, WriteKeepsFresh DEF Placement, FreshJobs, Held, Updated
  <2> QED
    BY <2>1, <2>3
    DEF Placement, HeapPlacement, HeldPlacement, SubmitPlacement, RegistryPlacement, Held
<1>4. ASSUME NEW old \in SUBSET Jobs, PurgeHistory(old)
      PROVE  Placement'
  <2> DEFINE kept == [j \in Jobs |-> IF j \in old THEN "absent" ELSE row[j]]
  <2>1. /\ Write(kept)
        /\ UNCHANGED <<phase, status, jobs, templates, heap, submit, wpc, wjob,
                       submitted, starts>>
    BY <1>4 DEF PurgeHistory, memory, history
  <2>2. kept \in [Jobs -> JobStatus \cup {"absent"}]
    BY DEF TypeOK
  <2>3. FreshJobs'
    BY <2>1, <2>2, WriteKeepsFresh DEF Placement, FreshJobs, Held
  <2> QED
    BY <2>1, <2>3
    DEF Placement, HeapPlacement, HeldPlacement, SubmitPlacement, RegistryPlacement, Held
<1>5. ASSUME NEW due \in SUBSET Templates, NEW spent \in SUBSET due,
             NEW clone \in [due -> Execs], SchedulerPass(due, spent, clone)
      PROVE  Placement'
  <2> DEFINE clones == {clone[t] : t \in due}
  <2>1. /\ \A k \in clones : k \in Jobs /\ k \notin submitted /\ k \notin spent
        /\ \A k \in spent : k \in templates
    BY <1>5, JobsAssumption DEF SchedulerPass, Fresh
  <2>2. /\ submitted' = submitted \cup clones
        /\ jobs' = jobs \cup clones
        /\ heap' = heap \cup clones
        /\ status' = [k \in Jobs |-> IF k \in clones THEN "pending"
                                     ELSE IF k \in spent THEN "failed"
                                     ELSE status[k]]
        /\ UNCHANGED <<phase, templates, submit, wpc, wjob, row, disk, starts>>
    BY <1>5 DEF SchedulerPass, database
  <2>3. \A k \in clones : /\ k \notin jobs /\ k \notin heap /\ k \notin templates
                          /\ ~Held(k) /\ submit[k] = "idle"
    BY <2>1 DEF Placement, FreshJobs
  <2> HIDE DEF clones
  <2>4. FreshJobs'
    BY <2>2 DEF Placement, FreshJobs, Held
  <2>5. HeapPlacement'
    BY <2>1, <2>2, <2>3 DEF Placement, HeapPlacement, RegistryPlacement, Held, TypeOK
  <2>6. HeldPlacement'
    BY <2>1, <2>2, <2>3
    DEF Placement, HeldPlacement, RegistryPlacement, Held, TypeOK, Terminal
  <2>7. SubmitPlacement'
    BY <2>1, <2>2, <2>3 DEF Placement, SubmitPlacement, RegistryPlacement, TypeOK
  <2>8. RegistryPlacement'
    BY <2>1, <2>2, <2>3 DEF Placement, RegistryPlacement, Held, TypeOK
  <2> QED
    BY <2>4, <2>5, <2>6, <2>7, <2>8 DEF Placement
<1>6. ASSUME NEW j \in Jobs, SubmitEnd(j)
      PROVE  Placement'
  <2>1. /\ submit[j] # "idle"
        /\ submit' = [submit EXCEPT ![j] = "idle"]
        /\ heap' = IF submit[j] = "queueing" THEN heap \cup {j} ELSE heap
        /\ UNCHANGED <<phase, status, jobs, templates, wpc, wjob, row, disk,
                       submitted, starts>>
    BY <1>6 DEF SubmitEnd, database, history
  <2>2. j \in submitted /\ ~Held(j)
    BY <2>1, JobsAssumption DEF Placement, FreshJobs, HeldPlacement, Held, TypeOK
  <2>3. FreshJobs'
    BY <2>1, <2>2 DEF Placement, FreshJobs, Held, TypeOK
  <2>4. HeapPlacement'
    BY <2>1, <2>2 DEF Placement, HeapPlacement, SubmitPlacement, Held, TypeOK
  <2>5. HeldPlacement' /\ SubmitPlacement'
    BY <2>1, <2>2 DEF Placement, HeldPlacement, SubmitPlacement, Held, TypeOK
  <2>6. RegistryPlacement'
    BY <2>1 DEF Placement, RegistryPlacement, Held, TypeOK
  <2> QED
    BY <2>3, <2>4, <2>5, <2>6 DEF Placement
<1>7. ASSUME NEW w \in Workers, HandlerStep(w) \/ CancelBusyWorker(w)
      PROVE  Placement'
  BY <1>7, PlacementSettle
  DEF HandlerStep, HandlerReturns, HandlerRaises, HandlerTimesOut, HandlerAborts,
      CancelBusyWorker, Terminal, Busy
<1>8. ASSUME NEW w \in Workers, TakeCancelled(w)
      PROVE  Placement'
  BY <1>8
  DEF TakeCancelled, NextRound, Pop, HeapTop, database,
      Placement, FreshJobs, HeapPlacement, HeldPlacement, SubmitPlacement,
      RegistryPlacement, Held, TypeOK
<1>9. ASSUME NEW w \in Workers, Take(w)
      PROVE  Placement'
  <2>1. PICK j \in heap : /\ heap' = heap \ {j}
                          /\ status' = [status EXCEPT ![j] = "running"]
                          /\ wjob' = [wjob EXCEPT ![w] = j]
                          /\ Write(Updated({j}, "running"))
    BY <1>9 DEF Take, Pop, HeapTop
  <2>2. /\ j \in Jobs /\ j \in jobs /\ j # NoJob
        /\ submit[j] = "idle"
        /\ \A u \in Workers : wjob[u] # j
        /\ wjob[w] = NoJob
    BY <1>9, <2>1, JobsAssumption DEF Take, Placement, HeapPlacement, Held, TypeOK, Busy
  <2>3. Updated({j}, "running") \in [Jobs -> JobStatus \cup {"absent"}]
    BY <2>2, UpdatedType DEF JobStatus
  <2>4. UNCHANGED <<phase, jobs, templates, submit, submitted, starts>>
    BY <1>9 DEF Take, history
  <2>5. FreshJobs'
    BY <2>1, <2>2, <2>3, <2>4, WriteKeepsFresh
    DEF Placement, FreshJobs, Held, Updated, TypeOK
  <2>6. HeapPlacement'
    BY <2>1, <2>2, <2>4 DEF Placement, HeapPlacement, Held, TypeOK
  <2>7. HeldPlacement'
    BY <2>1, <2>2, <2>4 DEF Placement, HeldPlacement, TypeOK
  <2>8. SubmitPlacement'
    BY <2>1, <2>2, <2>4 DEF Placement, SubmitPlacement, TypeOK
  <2>9. RegistryPlacement'
    <3>1. \A k \in Jobs : Held(k) \/ k = j => Held(k)'
      BY <2>1, <2>2, JobsAssumption DEF Held, TypeOK
    <3> QED
      BY <2>1, <2>2, <2>4, <3>1 DEF Placement, RegistryPlacement, TypeOK
  <2> QED
    BY <2>5, <2>6, <2>7, <2>8, <2>9 DEF Placement
<1>10. ASSUME NEW w \in Workers, StartHandler(w)
       PROVE  Placement'
  <2>1. /\ wjob[w] \in submitted
        /\ starts' = [starts EXCEPT ![wjob[w]] = @ + 1]
        /\ UNCHANGED <<phase, status, jobs, templates, heap, submit, wjob, row, disk,
                       submitted>>
    BY <1>10 DEF StartHandler, database, Placement, FreshJobs, Held, TypeOK, Busy
  <2> QED
    BY <2>1 DEF TypeOK, Placement, FreshJobs, HeapPlacement, HeldPlacement, SubmitPlacement,
      RegistryPlacement, Held
<1>11. ASSUME NEW w \in Workers, AnnounceCompletion(w)
       PROVE  Placement'
  BY <1>11 DEF AnnounceCompletion, Announce, database,
      Placement, FreshJobs, HeapPlacement, HeldPlacement, SubmitPlacement,
      RegistryPlacement, Held
<1>12. ASSUME NEW w \in Workers, NEW pc \in {"idle", "dead"}, Release(w, pc),
              wjob[w] # NoJob,
              UNCHANGED <<phase, status, templates, heap, submit, row, disk,
                          submitted, starts>>
       PROVE  Placement'
  <2>1. /\ jobs' = jobs \ {wjob[w]}
        /\ wjob' = [wjob EXCEPT ![w] = NoJob]
        /\ status[wjob[w]] \notin {"pending"}
        /\ wjob[w] \notin heap
    BY <1>12 DEF Release, Placement, HeapPlacement, HeldPlacement, Held, TypeOK, Terminal
  <2>2. \A u \in Workers : wjob[u] = wjob[w] => u = w
    BY <1>12 DEF Placement, HeldPlacement
  <2>3. submit[wjob[w]] = "idle"
    BY <1>12 DEF Placement, HeldPlacement
  <2>0. \A k \in Jobs : Held(k)' => Held(k)
    BY <2>1, JobsAssumption DEF Held, TypeOK
  <2>4. FreshJobs' /\ HeapPlacement'
    BY <1>12, <2>1, <2>0 DEF Placement, FreshJobs, HeapPlacement, TypeOK
  <2>5. HeldPlacement'
    BY <1>12, <2>1, <2>2 DEF Placement, HeldPlacement, TypeOK
  <2>6. SubmitPlacement'
    BY <1>12, <2>1, <2>3 DEF Placement, SubmitPlacement, TypeOK
  <2>7. RegistryPlacement'
    BY <1>12, <2>1, <2>2 DEF Placement, RegistryPlacement, Held, TypeOK
  <2> QED
    BY <2>4, <2>5, <2>6, <2>7 DEF Placement
<1>13. ASSUME NEW w \in Workers,
              AnnounceFailure(w) \/ AnnounceAbort(w) \/ CancelEndingWorker(w)
       PROVE  Placement'
  BY <1>12, <1>13
  DEF AnnounceFailure, NextRound, AnnounceAbort, CancelEndingWorker, Announce, database, history,
      TypeOK, Busy
<1>14. ASSUME NEW w \in Workers, CheckWaitingJobs(w)
       PROVE  Placement'
  <2>1. PICK ready \in SUBSET jobs :
          /\ \A k \in ready : status[k] = "waiting"
          /\ status' = [k \in Jobs |-> IF k \in ready THEN "pending" ELSE status[k]]
          /\ heap' = heap \cup ready
    BY <1>14 DEF CheckWaitingJobs, Promotable
  <2>2. /\ jobs' = jobs \ {wjob[w]}
        /\ wjob' = [wjob EXCEPT ![w] = NoJob]
        /\ wjob[w] # NoJob
        /\ \A k \in Jobs : submit[k] = "idle"
        /\ UNCHANGED <<phase, templates, submit, row, disk, submitted, starts>>
    BY <1>14
    DEF CheckWaitingJobs, NextRound, Release, Unlocked, database, history, TypeOK, Busy
  <2>3. /\ \A k \in ready : ~Held(k) /\ k \in jobs /\ k \in Jobs
        /\ \A u \in Workers : wjob[u] = wjob[w] => u = w
        /\ status[wjob[w]] \in {"running"} \cup Terminal
        /\ wjob[w] \notin heap /\ wjob[w] \in Jobs
    BY <2>1, <2>2, JobsAssumption
    DEF Placement, HeldPlacement, HeapPlacement, Held, Terminal, TypeOK
  <2>0. \A k \in Jobs : Held(k)' => Held(k)
    BY <2>2, JobsAssumption DEF Held, TypeOK
  <2>4. FreshJobs'
    BY <2>1, <2>2, <2>3, <2>0 DEF Placement, FreshJobs, TypeOK
  <2>5. HeapPlacement'
    BY <2>1, <2>2, <2>3, <2>0 DEF Placement, HeapPlacement, TypeOK, Terminal
  <2>6. HeldPlacement'
    BY <2>1, <2>2, <2>3 DEF Placement, HeldPlacement, TypeOK, Terminal
  <2>7. SubmitPlacement'
    BY <2>2 DEF Placement, SubmitPlacement, TypeOK
  <2>8. RegistryPlacement'
    BY <2>1, <2>2, <2>3 DEF Placement, RegistryPlacement, Held, TypeOK
  <2> QED
    BY <2>4, <2>5, <2>6, <2>7, <2>8 DEF Placement
<1>15. ASSUME NEW w \in Workers, CancelIdleWorker(w)
       PROVE  Placement'
  BY <1>15 DEF CancelIdleWorker, database, history,
      Placement, FreshJobs, HeapPlacement, HeldPlacement, SubmitPlacement,
      RegistryPlacement, Held
<1>16. ASSUME NEW w \in Workers, CancelStartingWorker(w)
       PROVE  Placement'
  <2>1. /\ wjob' = [wjob EXCEPT ![w] = NoJob]
        /\ phase = "stopping"
        /\ UNCHANGED <<phase, status, jobs, templates, heap, submit, row, disk,
                       submitted, starts>>
    BY <1>16 DEF CancelStartingWorker, database, history
  <2>2. \A k \in Jobs : Held(k)' => Held(k)
    BY <2>1, JobsAssumption DEF Held, TypeOK
  <2>3. FreshJobs' /\ HeapPlacement' /\ SubmitPlacement'
    BY <2>1, <2>2 DEF Placement, FreshJobs, HeapPlacement, SubmitPlacement, TypeOK
  <2>4. HeldPlacement' /\ RegistryPlacement'
    BY <2>1 DEF Placement, HeldPlacement, RegistryPlacement, TypeOK
  <2> QED
    BY <2>3, <2>4 DEF Placement
<1>17. CASE Commit
  BY <1>17 DEF Commit, memory, history,
      Placement, FreshJobs, HeapPlacement, HeldPlacement, SubmitPlacement,
      RegistryPlacement, Held
<1>18. CASE Start
  <2>1. \A j \in Jobs : ~Held(j)'
    BY <1>18, StartEffect, JobsAssumption DEF Held
  <2>2. \A j \in Jobs : submit'[j] = "idle"
    BY <1>18, StartEffect
  <2>3. \A j \in jobs' : j \in Jobs /\ status'[j] \in Queued /\ (status'[j] = "pending" => j \in heap')
    BY <1>18, StartEffect
  <2>4. \A j \in Jobs \ submitted : row'[j] = "absent" /\ disk'[j] = "absent"
    BY <1>18, StartEffect DEF Placement, FreshJobs
  <2>5. FreshJobs'
    BY <1>18, <2>1, <2>2, <2>4, StartEffect DEF FreshJobs, Placement, Queued
  <2>6. HeapPlacement'
    BY <1>18, <2>1, <2>2, StartEffect DEF HeapPlacement
  <2>7. HeldPlacement' /\ SubmitPlacement'
    BY <1>18, StartEffect DEF HeldPlacement, SubmitPlacement
  <2>8. RegistryPlacement'
    BY <1>18, <2>3, StartEffect DEF RegistryPlacement, Queued
  <2> QED
    BY <2>5, <2>6, <2>7, <2>8 DEF Placement
<1>19. CASE Stop
  BY <1>19 DEF Stop, memory, database, history,
      Placement, FreshJobs, HeapPlacement, HeldPlacement, SubmitPlacement,
      RegistryPlacement, Held
<1>20. CASE Exit
  BY <1>20, JobsAssumption DEF Exit,
      Placement, FreshJobs, HeapPlacement, HeldPlacement, SubmitPlacement,
      RegistryPlacement, Held
<1>21. CASE UNCHANGED vars
  BY <1>21 DEF vars, memory, database, history,
      Placement, FreshJobs, HeapPlacement, HeldPlacement, SubmitPlacement,
      RegistryPlacement, Held
<1> QED
  BY <1>1, <1>2, <1>3, <1>4, <1>5, <1>6, <1>7, <1>8, <1>9, <1>10, <1>11, <1>13,
     <1>14, <1>15, <1>16, <1>17, <1>18, <1>19, <1>20, <1>21
  DEF Next, Request, Submit, Retry, WorkerStep, CancelWorker

\* A job is always in exactly one place, whatever requests, failures,
\* crashes and restarts occur.
THEOREM PlacementCorrect == Spec => []Placement
BY TypeInit, TypeStep, PlacementInit, PlacementStep, PTL DEF Spec

\* No job is lost between the registry, the heap and the workers.
THEOREM NoJobLostCorrect == Spec => []NoJobLost
<1>1. Placement => NoJobLost
  BY DEF Placement, HeapPlacement, HeldPlacement, RegistryPlacement, NoJobLost, Held
<1> QED
  BY <1>1, PlacementCorrect, PTL

\* The invariant of the run: the state is well typed and no job is lost.
THEOREM InvCorrect == Spec => []Inv
<1>1. TypeOK /\ NoJobLost => Inv
  BY DEF Inv
<1> QED
  BY <1>1, TypeCorrect, NoJobLostCorrect, PTL

-----------------------------------------------------------------------------
(***************************************************************************)
(* Readiness.                                                              *)
(***************************************************************************)

\* The jobs of which Readiness demands that their dependencies completed.
Executable(j) ==
  j \in heap \/ Held(j) \/ submit[j] = "queueing" \/ row[j] = "pending" \/ disk[j] = "pending"

\* Nothing is about to be executed.
LEMMA ReadinessInit == Init => Readiness
BY JobsAssumption DEF Init, Readiness, Held

\* A step that keeps `succeeded`, marks nothing completed and makes nothing
\* executable but jobs whose dependencies are met keeps Readiness.
LEMMA ReadinessFrame ==
  ASSUME Readiness, succeeded \subseteq succeeded',
         \A j \in Jobs : status'[j] = "completed" => status[j] = "completed" \/ j \in succeeded',
         \A j \in Jobs : Executable(j)' => Executable(j) \/ DependsOn[j] \subseteq succeeded
  PROVE  Readiness'
BY DEF Readiness, Executable

\* Every step keeps what may be executed ready for it.
LEMMA ReadinessStep == TypeOK /\ Placement /\ Readiness /\ [Next]_vars => Readiness'
<1> SUFFICES ASSUME TypeOK, Placement, Readiness, [Next]_vars
             PROVE  Readiness'
  OBVIOUS
<1>1. ASSUME NEW j \in Jobs, SubmitBegin(j)
      PROVE  Readiness'
  <2>1. PICK s \in Queued, p \in {"queueing", "parking"} :
          /\ status' = [status EXCEPT ![j] = s]
          /\ submit' = [submit EXCEPT ![j] = p]
          /\ Write([row EXCEPT ![j] = s])
          /\ s = "pending" <=> p = "queueing"
          /\ p = "queueing" => DependsOn[j] \subseteq MetDependencies
    BY <1>1 DEF SubmitBegin, SubmitTemplate, SubmitRegular, Queued
  <2>2. MetDependencies \subseteq succeeded
    BY DEF MetDependencies, Readiness, TypeOK
  <2>3. [row EXCEPT ![j] = s] \in [Jobs -> JobStatus \cup {"absent"}]
    BY DEF TypeOK, JobStatus
  <2>4. /\ disk' = disk
        /\ \A k \in Jobs : row'[k] = [row EXCEPT ![j] = s][k] \/ row'[k] = disk[k]
    BY <2>1, <2>3, WriteEffect
  <2>5. UNCHANGED <<heap, wjob, succeeded>>
    BY <1>1 DEF SubmitBegin
  <2>6. ASSUME NEW k \in Jobs, Executable(k)'
        PROVE  Executable(k) \/ DependsOn[k] \subseteq succeeded
    <3>1. CASE k = j
      BY <2>1, <2>2, <2>4, <2>5, <2>6, <3>1 DEF Executable, Held, TypeOK
    <3>2. CASE k # j
      BY <2>1, <2>4, <2>5, <2>6, <3>2 DEF Executable, Held, TypeOK
    <3> QED
      BY <3>1, <3>2
  <2>7. \A k \in Jobs : status'[k] = "completed" => status[k] = "completed"
    BY <2>1 DEF TypeOK, Queued
  <2> QED
    BY <2>5, <2>6, <2>7, ReadinessFrame
<1>2. ASSUME NEW r \in [Jobs -> JobStatus \cup {"absent"}], Write(r),
             \A k \in Jobs : r[k] = "pending" => row[k] = "pending",
             UNCHANGED <<heap, submit, wjob, succeeded>>,
             \A k \in Jobs : status'[k] = "completed" => status[k] = "completed"
      PROVE  Readiness'
  <2>1. disk' = disk /\ \A k \in Jobs : row'[k] = r[k] \/ row'[k] = disk[k]
    BY <1>2, WriteEffect
  <2>2. \A k \in Jobs : Executable(k)' => Executable(k)
    BY <1>2, <2>1 DEF Executable, Held
  <2> QED
    BY <1>2, <2>2, ReadinessFrame
<1>3. ASSUME NEW js \in SUBSET Jobs, NEW s \in {"cancelled", "running", "completed",
                                                "failed", "timeout"}
      PROVE  /\ Updated(js, s) \in [Jobs -> JobStatus \cup {"absent"}]
             /\ \A k \in Jobs : Updated(js, s)[k] = "pending" => row[k] = "pending"
  BY <1>3, UpdatedType DEF Updated, JobStatus, Terminal
<1>4. ASSUME NEW j \in Jobs, CancelJob(j)
      PROVE  Readiness'
  <2>1. /\ Write(Updated({j}, "cancelled"))
        /\ UNCHANGED <<heap, submit, wjob, succeeded>>
        /\ \A k \in Jobs : status'[k] = "completed" => status[k] = "completed"
    BY <1>4 DEF CancelJob, memory, history, TypeOK
  <2> QED
    BY <1>2, <1>3, <2>1
<1>5. ASSUME NEW v \in Videos, CancelVideoJobs(v)
      PROVE  Readiness'
  <2> DEFINE victims == {j \in Jobs : VideoOf[j] = v /\ row[j] \in Queued}
  <2>1. /\ Write(Updated(victims, "cancelled"))
        /\ UNCHANGED <<heap, submit, wjob, succeeded, status>>
    BY <1>5 DEF CancelVideoJobs, memory, history
  <2> QED
    BY <1>2, <1>3, <2>1
<1>6. ASSUME NEW old \in SUBSET Jobs, PurgeHistory(old)
      PROVE  Readiness'
  <2> DEFINE kept == [j \in Jobs |-> IF j \in old THEN "absent" ELSE row[j]]
  <2>1. /\ Write(kept)
        /\ UNCHANGED <<heap, submit, wjob, succeeded, status>>
    BY <1>6 DEF PurgeHistory, memory, history
  <2>2. /\ kept \in [Jobs -> JobStatus \cup {"absent"}]
        /\ \A k \in Jobs : kept[k] = "pending" => row[k] = "pending"
    BY DEF TypeOK
  <2> QED
    BY <1>2, <2>1, <2>2
<1>7. ASSUME NEW due \in SUBSET Templates, NEW spent \in SUBSET due,
             NEW clone \in [due -> Execs], SchedulerPass(due, spent, clone)
      PROVE  Readiness'
  <2> DEFINE clones == {clone[t] : t \in due}
  <2>1. /\ heap' = heap \cup clones
        /\ \A k \in Jobs : status'[k] = "completed" => status[k] = "completed"
        /\ UNCHANGED <<submit, wjob, row, disk, succeeded>>
    BY <1>7 DEF SchedulerPass, database
  <2>2. \A k \in clones : DependsOn[k] = {}
    BY ParametersAssumption
  <2>3. \A k \in Jobs : Executable(k)' => Executable(k) \/ DependsOn[k] \subseteq succeeded
    BY <2>1, <2>2 DEF Executable, Held
  <2> QED
    BY <2>1, <2>3, ReadinessFrame
<1>8. ASSUME NEW j \in Jobs, SubmitEnd(j)
      PROVE  Readiness'
  <2>1. \A k \in Jobs : Executable(k)' => Executable(k)
    BY <1>8 DEF SubmitEnd, database, Executable, Held, TypeOK
  <2> QED
    BY <1>8, <2>1, ReadinessFrame DEF SubmitEnd, history
<1>9. ASSUME NEW w \in Workers, NEW s \in Terminal, NEW next \in Busy,
             wpc[w] \in Busy, Settle(w, s, next)
      PROVE  Readiness'
  <2> DEFINE j == wjob[w]
  <2>1. j \in Jobs
    BY <1>9 DEF TypeOK
  <2>2. /\ Write(Updated({j}, s))
        /\ UNCHANGED <<heap, submit, wjob>>
        /\ status' = [status EXCEPT ![j] = s]
        /\ succeeded' = IF s = "completed" THEN succeeded \cup {j} ELSE succeeded
    BY <1>9 DEF Settle
  <2>3. /\ Updated({j}, s) \in [Jobs -> JobStatus \cup {"absent"}]
        /\ \A k \in Jobs : Updated({j}, s)[k] = "pending" => row[k] = "pending"
    BY <1>3, <2>1 DEF Terminal
  <2>4. disk' = disk /\ \A k \in Jobs : row'[k] = Updated({j}, s)[k] \/ row'[k] = disk[k]
    BY <2>2, <2>3, WriteEffect
  <2>5. \A k \in Jobs : Executable(k)' => Executable(k)
    BY <2>2, <2>3, <2>4 DEF Executable, Held
  <2>6. \A k \in Jobs : status'[k] = "completed" => status[k] = "completed" \/ k \in succeeded'
    BY <2>1, <2>2 DEF TypeOK
  <2> QED
    BY <2>2, <2>5, <2>6, ReadinessFrame
<1>10. ASSUME NEW w \in Workers, HandlerStep(w) \/ CancelBusyWorker(w)
       PROVE  Readiness'
  BY <1>9, <1>10
  DEF HandlerStep, HandlerReturns, HandlerRaises, HandlerTimesOut, HandlerAborts,
      CancelBusyWorker, Terminal, Busy
<1>11. ASSUME NEW w \in Workers, Take(w)
       PROVE  Readiness'
  <2>1. PICK j \in heap : /\ heap' = heap \ {j}
                          /\ status' = [status EXCEPT ![j] = "running"]
                          /\ wjob' = [wjob EXCEPT ![w] = j]
                          /\ Write(Updated({j}, "running"))
    BY <1>11 DEF Take, Pop, HeapTop
  <2>2. j \in Jobs
    BY DEF TypeOK
  <2>3. /\ Updated({j}, "running") \in [Jobs -> JobStatus \cup {"absent"}]
        /\ \A k \in Jobs : Updated({j}, "running")[k] = "pending" => row[k] = "pending"
    BY <1>3, <2>2
  <2>4. disk' = disk /\ \A k \in Jobs : row'[k] = Updated({j}, "running")[k] \/ row'[k] = disk[k]
    BY <2>1, <2>3, WriteEffect
  <2>5. \A k \in Jobs : Held(k)' => Held(k) \/ k = j
    BY <2>1 DEF Held, TypeOK
  <2>6. UNCHANGED <<submit, succeeded>>
    BY <1>11 DEF Take, history
  <2>7. \A k \in Jobs : Executable(k)' => Executable(k)
    BY <2>1, <2>3, <2>4, <2>5, <2>6 DEF Executable
  <2>8. \A k \in Jobs : status'[k] = "completed" => status[k] = "completed"
    BY <2>1 DEF TypeOK
  <2> QED
    BY <2>6, <2>7, <2>8, ReadinessFrame
<1>12. ASSUME NEW w \in Workers,
              \/ TakeCancelled(w) \/ StartHandler(w) \/ AnnounceCompletion(w)
              \/ CancelIdleWorker(w)
       PROVE  Readiness'
  <2>1. \A k \in Jobs : Executable(k)' => Executable(k)
    BY <1>12
    DEF TakeCancelled, NextRound, StartHandler, AnnounceCompletion, CancelIdleWorker, Announce,
        Pop, HeapTop, database, Executable, Held
  <2> QED
    BY <1>12, <2>1, ReadinessFrame
    DEF TakeCancelled, NextRound, StartHandler, AnnounceCompletion, CancelIdleWorker, Announce, history
<1>13. ASSUME NEW w \in Workers,
              AnnounceFailure(w) \/ AnnounceAbort(w) \/ CancelEndingWorker(w)
                \/ CancelStartingWorker(w)
       PROVE  Readiness'
  <2>1. /\ wjob' = [wjob EXCEPT ![w] = NoJob]
        /\ UNCHANGED <<status, heap, submit, row, disk, succeeded>>
    BY <1>13
    DEF AnnounceFailure, NextRound, AnnounceAbort, CancelEndingWorker, CancelStartingWorker,
        Announce, Release, database, history
  <2>2. \A k \in Jobs : Held(k)' => Held(k)
    BY <2>1, JobsAssumption DEF Held, TypeOK
  <2>3. \A k \in Jobs : Executable(k)' => Executable(k)
    BY <2>1, <2>2 DEF Executable
  <2> QED
    BY <2>1, <2>3, ReadinessFrame
<1>14. ASSUME NEW w \in Workers, CheckWaitingJobs(w)
       PROVE  Readiness'
  <2>1. PICK ready \in SUBSET jobs :
          /\ \A k \in ready : DependsOn[k] \subseteq MetDependencies
          /\ status' = [k \in Jobs |-> IF k \in ready THEN "pending" ELSE status[k]]
          /\ heap' = heap \cup ready
    BY <1>14 DEF CheckWaitingJobs, Promotable
  <2>2. /\ wjob' = [wjob EXCEPT ![w] = NoJob]
        /\ UNCHANGED <<submit, row, disk, succeeded>>
    BY <1>14 DEF CheckWaitingJobs, NextRound, Release, database, history
  <2>3. MetDependencies \subseteq succeeded
    BY DEF MetDependencies, Readiness, TypeOK
  <2>4. \A k \in Jobs : Held(k)' => Held(k)
    BY <2>2, JobsAssumption DEF Held, TypeOK
  <2>5. \A k \in Jobs : Executable(k)' => Executable(k) \/ DependsOn[k] \subseteq succeeded
    BY <2>1, <2>2, <2>3, <2>4 DEF Executable
  <2> QED
    BY <2>1, <2>2, <2>5, ReadinessFrame DEF TypeOK
<1>15. CASE Commit
  BY <1>15, ReadinessFrame DEF Commit, memory, history, Executable, Held
<1>16. CASE Start
  <2>1. \A k \in Jobs : Executable(k)' => Executable(k)
    BY <1>16, StartEffect, JobsAssumption DEF Executable, Held
  <2>2. \A k \in Jobs : status'[k] # "completed"
    BY <1>16, StartEffect DEF Queued
  <2>3. UNCHANGED succeeded
    BY <1>16, StartEffect
  <2> QED
    BY <2>1, <2>2, <2>3, ReadinessFrame
<1>17. CASE Stop
  BY <1>17, ReadinessFrame DEF Stop, memory, database, history, Executable, Held
<1>18. CASE Exit
  <2>1. \A k \in Jobs : Executable(k)' => Executable(k)
    BY <1>18, JobsAssumption DEF Exit, Executable, Held
  <2> QED
    BY <1>18, <2>1, ReadinessFrame DEF Exit
<1>19. CASE UNCHANGED vars
  BY <1>19, ReadinessFrame DEF vars, memory, database, history, Executable, Held
<1> QED
  BY <1>1, <1>4, <1>5, <1>6, <1>7, <1>8, <1>10, <1>11, <1>12, <1>13, <1>14, <1>15,
     <1>16, <1>17, <1>18, <1>19
  DEF Next, Request, Submit, Retry, WorkerStep, CancelWorker

\* A handler runs only when every dependency of its job has completed, also
\* after crashes, restarts and failing database writes.
THEOREM DependenciesFirstCorrect == Spec => []DependenciesFirst
<1>1. TypeOK /\ Readiness => DependenciesFirst
  BY DEF Readiness, DependenciesFirst, Held, TypeOK
<1> QED
  BY <1>1, TypeInit, TypeStep, PlacementInit, PlacementStep, ReadinessInit,
     ReadinessStep, PTL DEF Spec

-----------------------------------------------------------------------------
(***************************************************************************)
(* Committedness, and with it execution at most once.  It needs the        *)
(* database to take every write: a RUNNING row that was rolled back would  *)
(* be PENDING again after a restart.                                       *)
(***************************************************************************)

\* Nothing was started.
LEMMA CommittednessInit == Init => Committedness
BY DEF Init, Committedness, StartedJobs, HeldRows, StartingJobs

\* A write that only takes rows out of the queue, with everything else that
\* Committedness speaks of unchanged.
LEMMA CommittednessWrite ==
  ASSUME MaxFaults = 0, TypeOK, Committedness,
         NEW r \in [Jobs -> JobStatus \cup {"absent"}], Write(r),
         \A k \in Jobs : r[k] \in Queued => row[k] \in Queued,
         UNCHANGED <<jobs, heap, submit, wjob, starts>>,
         \A k \in Jobs : status'[k] = "waiting" => status[k] = "waiting",
         \A u \in Workers : wpc'[u] = "starting" => wpc[u] = "starting"
  PROVE  Committedness'
<1>1. row' = r /\ disk' = disk
  BY WriteEffect
<1>2. StartedJobs'
  BY <1>1 DEF Committedness, StartedJobs
<1>3. HeldRows'
  BY <1>1 DEF Committedness, HeldRows, TypeOK
<1>4. StartingJobs'
  BY DEF Committedness, StartingJobs
<1> QED
  BY <1>2, <1>3, <1>4 DEF Committedness

\* A step that touches neither rows nor starts and queues nothing started.
LEMMA CommittednessFrame ==
  ASSUME Committedness, UNCHANGED <<row, disk, starts>>,
         \A k \in Jobs : starts[k] # 0 =>
           /\ k \notin heap' /\ submit'[k] = "idle"
           /\ k \in jobs' => status'[k] # "waiting",
         \A u \in Workers : wjob'[u] = wjob[u] \/ wjob'[u] = NoJob,
         \A u \in Workers : wpc'[u] = "starting" => wpc[u] = "starting" /\ wjob'[u] = wjob[u]
  PROVE  Committedness'
<1>1. StartedJobs'
  BY DEF Committedness, StartedJobs
<1>2. HeldRows'
  BY DEF Committedness, HeldRows
<1>3. StartingJobs'
  BY DEF Committedness, StartingJobs
<1> QED
  BY <1>1, <1>2, <1>3 DEF Committedness

\* Without failing writes, no step lets a started job be queued again.
LEMMA CommittednessStep ==
  ASSUME MaxFaults = 0
  PROVE  TypeOK /\ Placement /\ Committedness /\ [Next]_vars => Committedness'
<1> SUFFICES ASSUME TypeOK, Placement, Committedness, [Next]_vars
             PROVE  Committedness'
  OBVIOUS
<1>1. ASSUME NEW j \in Jobs, SubmitBegin(j)
      PROVE  Committedness'
  <2>1. PICK s \in Queued, p \in {"queueing", "parking"} :
          /\ status' = [status EXCEPT ![j] = s]
          /\ submit' = [submit EXCEPT ![j] = p]
          /\ Write([row EXCEPT ![j] = s])
          /\ jobs' \subseteq jobs \cup {j}
    BY <1>1 DEF SubmitBegin, SubmitTemplate, SubmitRegular, Queued
  <2>2. [row EXCEPT ![j] = s] \in [Jobs -> JobStatus \cup {"absent"}]
    BY DEF TypeOK, JobStatus
  <2>3. row' = [row EXCEPT ![j] = s] /\ disk' = disk
    BY <2>1, <2>2, WriteEffect
  <2>4. /\ starts[j] = 0
        /\ \A w \in Workers : wjob[w] # j
        /\ UNCHANGED <<heap, wpc, wjob, starts>>
    BY <1>1 DEF SubmitBegin, Fresh, Placement, FreshJobs, Held
  <2>5. StartedJobs'
    BY <2>1, <2>3, <2>4 DEF Committedness, StartedJobs, TypeOK
  <2>6. HeldRows'
    BY <2>3, <2>4 DEF Committedness, HeldRows, TypeOK
  <2>7. StartingJobs'
    BY <2>4 DEF Committedness, StartingJobs
  <2> QED
    BY <2>5, <2>6, <2>7 DEF Committedness
<1>2. ASSUME NEW js \in SUBSET Jobs, NEW s \in {"cancelled", "running", "completed",
                                                "failed", "timeout"}
      PROVE  /\ Updated(js, s) \in [Jobs -> JobStatus \cup {"absent"}]
             /\ \A k \in Jobs : Updated(js, s)[k] \in Queued => row[k] \in Queued
             /\ \A k \in js : Updated(js, s)[k] \notin Queued
             /\ \A k \in Jobs \ js : Updated(js, s)[k] = row[k]
  BY <1>2, UpdatedType DEF Updated, JobStatus, Terminal, Queued
<1>3. ASSUME NEW j \in Jobs, CancelJob(j)
      PROVE  Committedness'
  <2>1. /\ Write(Updated({j}, "cancelled"))
        /\ UNCHANGED <<jobs, heap, submit, wpc, wjob, starts>>
        /\ \A k \in Jobs : status'[k] = "waiting" => status[k] = "waiting"
    BY <1>3 DEF CancelJob, memory, history, TypeOK
  <2> QED
    BY <1>2, <2>1, CommittednessWrite
<1>4. ASSUME NEW v \in Videos, CancelVideoJobs(v)
      PROVE  Committedness'
  <2> DEFINE victims == {j \in Jobs : VideoOf[j] = v /\ row[j] \in Queued}
  <2>1. /\ Write(Updated(victims, "cancelled"))
        /\ UNCHANGED <<status, jobs, heap, submit, wpc, wjob, starts>>
    BY <1>4 DEF CancelVideoJobs, memory, history
  <2> QED
    BY <1>2, <2>1, CommittednessWrite
<1>5. ASSUME NEW old \in SUBSET Jobs, PurgeHistory(old)
      PROVE  Committedness'
  <2> DEFINE kept == [j \in Jobs |-> IF j \in old THEN "absent" ELSE row[j]]
  <2>1. /\ Write(kept)
        /\ UNCHANGED <<status, jobs, heap, submit, wpc, wjob, starts>>
    BY <1>5 DEF PurgeHistory, memory, history
  <2>2. /\ kept \in [Jobs -> JobStatus \cup {"absent"}]
        /\ \A k \in Jobs : kept[k] \in Queued => row[k] \in Queued
    BY DEF TypeOK, Queued
  <2> QED
    BY <2>1, <2>2, CommittednessWrite
<1>6. ASSUME NEW due \in SUBSET Templates, NEW spent \in SUBSET due,
             NEW clone \in [due -> Execs], SchedulerPass(due, spent, clone)
      PROVE  Committedness'
  <2> DEFINE clones == {clone[t] : t \in due}
  <2>1. \A k \in clones : k \in Jobs /\ k \notin submitted
    BY <1>6, JobsAssumption DEF SchedulerPass, Fresh
  <2>2. \A k \in clones : starts[k] = 0
    BY <2>1 DEF Placement, FreshJobs
  <2>3. /\ heap' = heap \cup clones
        /\ jobs' = jobs \cup clones
        /\ \A k \in Jobs : status'[k] = "waiting" => status[k] = "waiting"
        /\ UNCHANGED <<submit, wpc, wjob, row, disk, starts>>
    BY <1>6 DEF SchedulerPass, database
  <2>4. \A k \in Jobs : starts[k] # 0 =>
          /\ k \notin heap' /\ submit'[k] = "idle"
          /\ k \in jobs' => status'[k] # "waiting"
    BY <2>2, <2>3 DEF Committedness, StartedJobs
  <2> QED
    BY <2>3, <2>4, CommittednessFrame
<1>7. ASSUME NEW j \in Jobs, SubmitEnd(j)
      PROVE  Committedness'
  <2>1. starts[j] = 0
    BY <1>7 DEF SubmitEnd, Committedness, StartedJobs
  <2>2. \A k \in Jobs : starts[k] # 0 =>
          /\ k \notin heap' /\ submit'[k] = "idle"
          /\ k \in jobs' => status'[k] # "waiting"
    BY <1>7, <2>1 DEF SubmitEnd, Committedness, StartedJobs, TypeOK
  <2> QED
    BY <1>7, <2>2, CommittednessFrame DEF SubmitEnd, database, history
<1>8. ASSUME NEW w \in Workers, NEW s \in Terminal, NEW next \in Busy \ {"starting"},
             wpc[w] \in Busy, Settle(w, s, next)
      PROVE  Committedness'
  <2>1. wjob[w] \in Jobs /\ {wjob[w]} \in SUBSET Jobs
    BY <1>8 DEF TypeOK
  <2>2. /\ Write(Updated({wjob[w]}, s))
        /\ UNCHANGED <<jobs, heap, submit, wjob, starts>>
        /\ \A k \in Jobs : status'[k] = "waiting" => status[k] = "waiting"
        /\ \A u \in Workers : wpc'[u] = "starting" => wpc[u] = "starting"
    BY <1>8, <2>1 DEF Settle, TypeOK, Terminal
  <2>3. s \in {"cancelled", "running", "completed", "failed", "timeout"}
    BY <1>8 DEF Terminal
  <2> QED
    BY <1>2, <2>1, <2>2, <2>3, CommittednessWrite
<1>9. ASSUME NEW w \in Workers, HandlerStep(w) \/ CancelBusyWorker(w)
      PROVE  Committedness'
  BY <1>8, <1>9
  DEF HandlerStep, HandlerReturns, HandlerRaises, HandlerTimesOut, HandlerAborts,
      CancelBusyWorker, Terminal, Busy
<1>10. ASSUME NEW w \in Workers, Take(w)
       PROVE  Committedness'
  <2>1. PICK j \in heap : /\ heap' = heap \ {j}
                          /\ status' = [status EXCEPT ![j] = "running"]
                          /\ wjob' = [wjob EXCEPT ![w] = j]
                          /\ Write(Updated({j}, "running"))
    BY <1>10 DEF Take, Pop, HeapTop
  <2>2. j \in Jobs /\ {j} \in SUBSET Jobs /\ starts[j] = 0
    BY <2>1 DEF TypeOK, Committedness, StartedJobs
  <2>3. row' = Updated({j}, "running") /\ disk' = disk
    BY <1>2, <2>1, <2>2, WriteEffect
  <2>4. /\ \A k \in Jobs : row'[k] \in Queued => row[k] \in Queued
        /\ row'[j] \notin Queued
    BY <1>2, <2>2, <2>3
  <2>5. /\ wpc' = [wpc EXCEPT ![w] = "starting"]
        /\ UNCHANGED <<jobs, submit, starts>>
    BY <1>10 DEF Take, history
  <2>6. StartedJobs'
    BY <2>1, <2>2, <2>3, <2>4, <2>5 DEF Committedness, StartedJobs, TypeOK
  <2>7. HeldRows'
    BY <2>1, <2>4 DEF Committedness, HeldRows, TypeOK
  <2>8. StartingJobs'
    BY <2>1, <2>2, <2>5 DEF Committedness, StartingJobs, TypeOK
  <2> QED
    BY <2>6, <2>7, <2>8 DEF Committedness
<1>11. ASSUME NEW w \in Workers, StartHandler(w)
       PROVE  Committedness'
  <2> DEFINE j == wjob[w]
  <2>1. /\ j \in Jobs /\ j # NoJob /\ j \in jobs
        /\ starts[j] = 0 /\ disk[j] = row[j] /\ row[j] \notin Queued
        /\ starts' = [starts EXCEPT ![j] = @ + 1]
        /\ wpc' = [wpc EXCEPT ![w] = "running"]
        /\ UNCHANGED <<status, jobs, heap, submit, wjob, row, disk>>
    BY <1>11
    DEF StartHandler, Committed, database, Committedness, HeldRows, StartingJobs,
        Placement, HeldPlacement, TypeOK, Busy
  <2>2. /\ j \notin heap /\ submit[j] = "idle" /\ status[j] # "waiting"
        /\ \A u \in Workers : wjob[u] = j => u = w
    BY <2>1 DEF Placement, HeapPlacement, HeldPlacement, Held, Terminal
  <2>3. StartedJobs'
    BY <2>1, <2>2 DEF Committedness, StartedJobs, TypeOK
  <2>4. HeldRows'
    BY <2>1 DEF Committedness, HeldRows
  <2>5. StartingJobs'
    BY <2>1, <2>2 DEF Committedness, StartingJobs, TypeOK, Busy
  <2> QED
    BY <2>3, <2>4, <2>5 DEF Committedness
<1>12. ASSUME NEW w \in Workers,
              \/ TakeCancelled(w) \/ AnnounceCompletion(w) \/ AnnounceFailure(w)
              \/ AnnounceAbort(w) \/ CancelIdleWorker(w) \/ CancelStartingWorker(w)
              \/ CancelEndingWorker(w)
       PROVE  Committedness'
  <2>1. /\ UNCHANGED <<status, submit, row, disk, starts>>
        /\ heap' \subseteq heap /\ jobs' \subseteq jobs
        /\ \/ wjob' = wjob
           \/ wjob' = [wjob EXCEPT ![w] = NoJob]
        /\ \/ wpc' = wpc
           \/ \E pc \in {"idle", "dead", "checking"} : wpc' = [wpc EXCEPT ![w] = pc]
    BY <1>12
    DEF TakeCancelled, NextRound, Pop, AnnounceCompletion, AnnounceFailure, AnnounceAbort,
        CancelIdleWorker, CancelStartingWorker, CancelEndingWorker, Announce, Release,
        database, history
  <2>2. \A u \in Workers : /\ wjob'[u] = wjob[u] \/ wjob'[u] = NoJob
                           /\ u # w => wjob'[u] = wjob[u]
    BY <2>1 DEF TypeOK
  <2>3. \A u \in Workers : wpc'[u] = "starting" => wpc[u] = "starting" /\ wjob'[u] = wjob[u]
    BY <1>12, <2>1
    DEF TypeOK, TakeCancelled, NextRound, AnnounceCompletion, AnnounceFailure, AnnounceAbort,
        CancelIdleWorker, CancelStartingWorker, CancelEndingWorker, Release
  <2> QED
    BY <2>1, <2>2, <2>3, CommittednessFrame DEF Committedness, StartedJobs
<1>13. ASSUME NEW w \in Workers, CheckWaitingJobs(w)
       PROVE  Committedness'
  <2>1. PICK ready \in SUBSET jobs :
          /\ \A k \in ready : status[k] = "waiting"
          /\ status' = [k \in Jobs |-> IF k \in ready THEN "pending" ELSE status[k]]
          /\ heap' = heap \cup ready
    BY <1>13 DEF CheckWaitingJobs, Promotable
  <2>2. /\ jobs' = jobs \ {wjob[w]}
        /\ wjob' = [wjob EXCEPT ![w] = NoJob]
        /\ wpc' = [wpc EXCEPT ![w] = NextRound]
        /\ UNCHANGED <<submit, row, disk, starts>>
    BY <1>13 DEF CheckWaitingJobs, Release, database, history
  <2>3. \A k \in Jobs : starts[k] # 0 =>
          /\ k \notin heap' /\ submit'[k] = "idle"
          /\ k \in jobs' => status'[k] # "waiting"
    BY <2>1, <2>2 DEF Committedness, StartedJobs
  <2>4. \A u \in Workers : wpc'[u] = "starting" => wpc[u] = "starting" /\ wjob'[u] = wjob[u]
    BY <2>2 DEF TypeOK, NextRound
  <2> QED
    BY <2>2, <2>3, <2>4, CommittednessFrame DEF TypeOK
<1>14. CASE Commit
  BY <1>14
  DEF Commit, memory, history, Committedness, StartedJobs, HeldRows, StartingJobs
<1>15. CASE Start
  <2>1. StartedJobs'
    BY <1>15, StartEffect DEF Committedness, StartedJobs, Queued
  <2>2. HeldRows' /\ StartingJobs'
    BY <1>15, StartEffect DEF HeldRows, StartingJobs
  <2> QED
    BY <2>1, <2>2 DEF Committedness
<1>16. CASE Stop
  BY <1>16
  DEF Stop, memory, database, history, Committedness, StartedJobs, HeldRows, StartingJobs
<1>17. CASE Exit
  BY <1>17 DEF Exit, Committedness, StartedJobs, HeldRows, StartingJobs, TypeOK
<1>18. CASE UNCHANGED vars
  BY <1>18
  DEF vars, memory, database, history, Committedness, StartedJobs, HeldRows, StartingJobs
<1> QED
  BY <1>1, <1>3, <1>4, <1>5, <1>6, <1>7, <1>9, <1>10, <1>11, <1>12, <1>13, <1>14,
     <1>15, <1>16, <1>17, <1>18
  DEF Next, Request, Submit, Retry, WorkerStep, CancelWorker

\* If the database takes every write, no job is executed twice, whatever
\* crashes and restarts occur.
THEOREM AtMostOnceCorrect ==
  ASSUME MaxFaults = 0
  PROVE  Spec => []AtMostOnce
<1>1. Committedness /\ TypeOK => AtMostOnce
  BY DEF Committedness, StartedJobs, AtMostOnce, TypeOK
<1> QED
  BY <1>1, TypeInit, TypeStep, PlacementInit, PlacementStep, CommittednessInit,
     CommittednessStep, PTL DEF Spec

-----------------------------------------------------------------------------
(***************************************************************************)
(* The queue implements the abstract lifecycle.                            *)
(***************************************************************************)

Executing(j) == \E w \in Workers : wjob[w] = j /\ wpc[w] = "running"

\* An empty queue has accepted no job.
LEMMA RefinementInit == Init => Lifecycle!Init
BY DEF Init, Lifecycle!Init, StageOf

\* A step that submits nothing and starts and leaves no handler.
LEMMA StageFrame ==
  ASSUME UNCHANGED <<submitted, starts, succeeded>>,
         \A u \in Workers : wpc'[u] = "running" <=> wpc[u] = "running",
         \A u \in Workers : wpc[u] = "running" => wjob'[u] = wjob[u]
  PROVE  UNCHANGED Lifecycle!vars
<1>1. \A j \in Jobs : Executing(j)' <=> Executing(j)
  BY DEF Executing
<1>2. StageOf' = StageOf
  BY <1>1 DEF StageOf, Executing
<1> QED
  BY <1>2 DEF Lifecycle!vars

\* The end of a handler is the end of its job.
LEMMA RefinementSettle ==
  ASSUME TypeOK, Placement, Committedness, NEW w \in Workers, NEW s \in Terminal,
         NEW next \in Busy \ {"running"}, wpc[w] \in Busy, Settle(w, s, next),
         wpc[w] # "running" => s # "completed",
         wpc[w] = "running" => starts[wjob[w]] # 0
  PROVE  [Lifecycle!Next]_(Lifecycle!vars)
<1> DEFINE j == wjob[w]
<1>1. /\ j \in Jobs /\ j # NoJob /\ j \in submitted
      /\ wpc' = [wpc EXCEPT ![w] = next]
      /\ UNCHANGED <<wjob, submitted, starts>>
      /\ succeeded' = IF s = "completed" THEN succeeded \cup {j} ELSE succeeded
  BY JobsAssumption DEF Settle, Placement, FreshJobs, Held, TypeOK
<1>2. CASE wpc[w] = "running"
  <2>1. \A u \in Workers : wjob[u] = j => u = w
    BY <1>1 DEF Placement, HeldPlacement
  <2>2. Executing(j) /\ ~Executing(j)' /\ \A k \in Jobs : k # j => (Executing(k)' <=> Executing(k))
    BY <1>1, <1>2, <2>1 DEF Executing, TypeOK
  <2>3. StageOf[j] = "executing" /\ StageOf' = [StageOf EXCEPT ![j] = "over"]
    BY <1>1, <1>2, <2>2 DEF StageOf, Executing
  <2>4. Lifecycle!End(j)
    BY <1>1, <2>3 DEF Lifecycle!End
  <2> QED
    BY <1>1, <2>4 DEF Lifecycle!Next
<1>3. CASE wpc[w] # "running"
  BY <1>1, <1>3, StageFrame DEF TypeOK
<1> QED
  BY <1>2, <1>3

\* The handler of a worker that runs one has been started.
RunningStarted == \A w \in Workers : wpc[w] = "running" => starts[wjob[w]] # 0

\* No handler is at work.
LEMMA RunningStartedInit == Init => RunningStarted
BY DEF Init, RunningStarted

\* Every step keeps a handler at work among those started.
LEMMA RunningStartedStep == TypeOK /\ RunningStarted /\ [Next]_vars => RunningStarted'
<1> SUFFICES ASSUME TypeOK, RunningStarted, [Next]_vars
             PROVE  RunningStarted'
  OBVIOUS
<1>1. ASSUME UNCHANGED starts,
             \A u \in Workers : wpc'[u] = "running" => wpc[u] = "running" /\ wjob'[u] = wjob[u]
      PROVE  RunningStarted'
  BY <1>1 DEF RunningStarted
<1>2. ASSUME NEW j \in Jobs, SubmitBegin(j) \/ CancelJob(j) \/ SubmitEnd(j)
      PROVE  RunningStarted'
  BY <1>1, <1>2 DEF SubmitBegin, CancelJob, SubmitEnd, memory, history
<1>3. ASSUME NEW v \in Videos, CancelVideoJobs(v)
      PROVE  RunningStarted'
  BY <1>1, <1>3 DEF CancelVideoJobs, memory, history
<1>4. ASSUME NEW old \in SUBSET Jobs, PurgeHistory(old)
      PROVE  RunningStarted'
  BY <1>1, <1>4 DEF PurgeHistory, memory, history
<1>5. ASSUME NEW due \in SUBSET Templates, NEW spent \in SUBSET due,
             NEW clone \in [due -> Execs], SchedulerPass(due, spent, clone)
      PROVE  RunningStarted'
  BY <1>1, <1>5 DEF SchedulerPass
<1>6. ASSUME NEW w \in Workers, NEW s \in Terminal, NEW next \in Busy \ {"running"},
             Settle(w, s, next)
      PROVE  RunningStarted'
  BY <1>1, <1>6 DEF Settle, TypeOK
<1>7. ASSUME NEW w \in Workers, HandlerStep(w) \/ CancelBusyWorker(w)
      PROVE  RunningStarted'
  BY <1>6, <1>7
  DEF HandlerStep, HandlerReturns, HandlerRaises, HandlerTimesOut, HandlerAborts,
      CancelBusyWorker, Terminal, Busy
<1>8. ASSUME NEW w \in Workers, StartHandler(w)
      PROVE  RunningStarted'
  BY <1>8 DEF StartHandler, RunningStarted, TypeOK, Busy
<1>9. ASSUME NEW w \in Workers, Take(w)
      PROVE  RunningStarted'
  <2>1. /\ UNCHANGED starts
        /\ wpc' = [wpc EXCEPT ![w] = "starting"]
        /\ \E j \in HeapTop : wjob' = [wjob EXCEPT ![w] = j]
    BY <1>9 DEF Take, history
  <2> QED
    BY <1>1, <2>1 DEF TypeOK
<1>10. ASSUME NEW w \in Workers, TakeCancelled(w) \/ AnnounceCompletion(w)
                                   \/ CancelIdleWorker(w)
       PROVE  RunningStarted'
  BY <1>1, <1>10
  DEF TakeCancelled, NextRound, AnnounceCompletion, CancelIdleWorker, Announce, history, TypeOK
<1>11. ASSUME NEW w \in Workers,
              \/ AnnounceFailure(w) \/ AnnounceAbort(w) \/ CheckWaitingJobs(w)
              \/ CancelStartingWorker(w) \/ CancelEndingWorker(w)
       PROVE  RunningStarted'
  <2>1. /\ UNCHANGED starts
        /\ \E pc \in {"idle", "dead"} : wpc' = [wpc EXCEPT ![w] = pc]
        /\ wjob' = [wjob EXCEPT ![w] = NoJob]
    BY <1>11
    DEF AnnounceFailure, NextRound, AnnounceAbort, CheckWaitingJobs, CancelStartingWorker,
        CancelEndingWorker, Announce, Release, history
  <2> QED
    BY <1>1, <2>1 DEF TypeOK
<1>12. CASE Commit \/ Stop \/ UNCHANGED vars
  BY <1>1, <1>12 DEF Commit, Stop, vars, memory, history
<1>13. CASE Start \/ Exit
  BY <1>13 DEF Start, Recover, Recovered, Exit, RunningStarted
<1> QED
  BY <1>2, <1>3, <1>4, <1>5, <1>7, <1>8, <1>9, <1>10, <1>11, <1>12, <1>13
  DEF Next, Request, Submit, Retry, WorkerStep, CancelWorker

\* Every step of the queue is one of the lifecycle, or a stutter.
LEMMA RefinementStep ==
  TypeOK /\ Placement /\ Readiness /\ Committedness /\ RunningStarted /\ [Next]_vars
    => [Lifecycle!Next]_(Lifecycle!vars)
<1> SUFFICES ASSUME TypeOK, Placement, Readiness, Committedness, RunningStarted,
                    [Next]_vars
             PROVE  [Lifecycle!Next]_(Lifecycle!vars)
  OBVIOUS
<1>1. ASSUME NEW js \in SUBSET Jobs, \A j \in js : j \notin submitted,
             submitted' = submitted \cup js,
             UNCHANGED <<wpc, wjob, starts, succeeded>>
      PROVE  [Lifecycle!Next]_(Lifecycle!vars)
  <2>1. \A j \in js : StageOf[j] = "none" /\ starts[j] = 0
    BY <1>1 DEF StageOf, Placement, FreshJobs
  <2>2. StageOf' = [j \in Jobs |-> IF j \in js THEN "accepted" ELSE StageOf[j]]
    BY <1>1, <2>1 DEF StageOf
  <2>3. Lifecycle!Accept(js)
    BY <1>1, <2>1, <2>2 DEF Lifecycle!Accept
  <2> QED
    BY <2>3 DEF Lifecycle!Next
<1>2. ASSUME NEW j \in Jobs, SubmitBegin(j)
      PROVE  [Lifecycle!Next]_(Lifecycle!vars)
  <2>1. {j} \in SUBSET Jobs /\ j \notin submitted /\ submitted' = submitted \cup {j}
    BY <1>2 DEF SubmitBegin, Fresh
  <2> QED
    BY <1>1, <1>2, <2>1 DEF SubmitBegin
<1>3. ASSUME NEW due \in SUBSET Templates, NEW spent \in SUBSET due,
             NEW clone \in [due -> Execs], SchedulerPass(due, spent, clone)
      PROVE  [Lifecycle!Next]_(Lifecycle!vars)
  <2> DEFINE clones == {clone[t] : t \in due}
  <2>1. /\ clones \in SUBSET Jobs
        /\ \A k \in clones : k \notin submitted
        /\ submitted' = submitted \cup clones
    BY <1>3, JobsAssumption DEF SchedulerPass, Fresh
  <2>2. UNCHANGED <<wpc, wjob, starts, succeeded>>
    BY <1>3 DEF SchedulerPass
  <2> QED
    BY <1>1, <2>1, <2>2
<1>4. ASSUME NEW w \in Workers, HandlerStep(w) \/ CancelBusyWorker(w)
      PROVE  [Lifecycle!Next]_(Lifecycle!vars)
  BY <1>4, RefinementSettle
  DEF HandlerStep, HandlerReturns, HandlerRaises, HandlerTimesOut, HandlerAborts,
      CancelBusyWorker, Terminal, Busy, RunningStarted
<1>5. ASSUME NEW w \in Workers, StartHandler(w)
      PROVE  [Lifecycle!Next]_(Lifecycle!vars)
  <2> DEFINE j == wjob[w]
  <2>1. /\ wpc[w] = "starting"
        /\ j \in Jobs /\ j # NoJob /\ j \in submitted /\ starts[j] = 0
        /\ starts' = [starts EXCEPT ![j] = @ + 1]
        /\ wpc' = [wpc EXCEPT ![w] = "running"]
        /\ UNCHANGED <<wjob, submitted, succeeded>>
    BY <1>5, JobsAssumption
    DEF StartHandler, database, Committedness, StartingJobs, Placement, FreshJobs, Held,
        TypeOK, Busy
  <2>2. Executing(j)' /\ \A k \in Jobs : k # j => (Executing(k)' <=> Executing(k))
    BY <2>1 DEF Executing, TypeOK
  <2>3. StageOf[j] = "accepted" /\ StageOf' = [StageOf EXCEPT ![j] = "executing"]
    <3>1. StageOf[j] = "accepted"
      BY <2>1 DEF StageOf
    <3>2. starts'[j] = 1 /\ \A k \in Jobs : k # j => starts'[k] = starts[k]
      BY <2>1 DEF TypeOK
    <3>3. StageOf' = [k \in Jobs |-> IF k = j THEN "executing" ELSE StageOf[k]]
      BY <2>1, <2>2, <3>2 DEF StageOf, Executing
    <3> QED
      BY <3>1, <3>3 DEF StageOf
  <2>4. DependsOn[j] \subseteq succeeded
    BY <2>1 DEF Readiness, Held
  <2>5. Lifecycle!Begin(j)
    BY <2>1, <2>3, <2>4 DEF Lifecycle!Begin
  <2> QED
    BY <2>1, <2>5 DEF Lifecycle!Next
<1>6. ASSUME \A w \in Workers : wpc'[w] # "running",
             UNCHANGED <<submitted, starts, succeeded>>
      PROVE  [Lifecycle!Next]_(Lifecycle!vars)
  <2>1. StageOf' = [j \in Jobs |-> IF StageOf[j] = "executing" THEN "over" ELSE StageOf[j]]
    BY <1>6 DEF StageOf
  <2>2. Lifecycle!Interrupt
    BY <1>6, <2>1 DEF Lifecycle!Interrupt
  <2> QED
    BY <2>2 DEF Lifecycle!Next
<1>7. CASE Start \/ Exit
  BY <1>6, <1>7 DEF Start, Recover, Recovered, Exit, history
<1>8. ASSUME NEW j \in Jobs, CancelJob(j) \/ SubmitEnd(j)
      PROVE  [Lifecycle!Next]_(Lifecycle!vars)
  BY <1>8, StageFrame DEF CancelJob, SubmitEnd, memory, history
<1>9. ASSUME NEW v \in Videos, CancelVideoJobs(v)
      PROVE  [Lifecycle!Next]_(Lifecycle!vars)
  BY <1>9, StageFrame DEF CancelVideoJobs, memory, history
<1>10. ASSUME NEW old \in SUBSET Jobs, PurgeHistory(old)
       PROVE  [Lifecycle!Next]_(Lifecycle!vars)
  BY <1>10, StageFrame DEF PurgeHistory, memory, history
<1>11. ASSUME NEW w \in Workers, Take(w)
       PROVE  [Lifecycle!Next]_(Lifecycle!vars)
  <2>1. /\ wpc[w] = "idle" /\ wpc' = [wpc EXCEPT ![w] = "starting"]
        /\ \E j \in HeapTop : wjob' = [wjob EXCEPT ![w] = j]
        /\ UNCHANGED <<submitted, starts, succeeded>>
    BY <1>11 DEF Take, history
  <2> QED
    BY <2>1, StageFrame DEF TypeOK
<1>12. ASSUME NEW w \in Workers, TakeCancelled(w) \/ AnnounceCompletion(w)
                                   \/ CancelIdleWorker(w)
       PROVE  [Lifecycle!Next]_(Lifecycle!vars)
  BY <1>12, StageFrame
  DEF TakeCancelled, NextRound, AnnounceCompletion, CancelIdleWorker, Announce, history, TypeOK
<1>13. ASSUME NEW w \in Workers,
              \/ AnnounceFailure(w) \/ AnnounceAbort(w) \/ CheckWaitingJobs(w)
              \/ CancelStartingWorker(w) \/ CancelEndingWorker(w)
       PROVE  [Lifecycle!Next]_(Lifecycle!vars)
  <2>1. /\ wpc[w] # "running"
        /\ UNCHANGED <<submitted, starts, succeeded>>
        /\ \E pc \in {"idle", "dead"} : wpc' = [wpc EXCEPT ![w] = pc]
        /\ wjob' = [wjob EXCEPT ![w] = NoJob]
    BY <1>13
    DEF AnnounceFailure, NextRound, AnnounceAbort, CheckWaitingJobs, CancelStartingWorker,
        CancelEndingWorker, Announce, Release, history
  <2> QED
    BY <2>1, StageFrame DEF TypeOK
<1>14. CASE Commit \/ Stop \/ UNCHANGED vars
  BY <1>14, StageFrame DEF Commit, Stop, vars, memory, history
<1> QED
  BY <1>2, <1>3, <1>4, <1>5, <1>7, <1>8, <1>9, <1>10, <1>11, <1>12, <1>13, <1>14
  DEF Next, Request, Submit, Retry, WorkerStep, CancelWorker

\* If the database takes every write, the queue implements the abstract
\* lifecycle: no job is executed twice or before its dependencies.
THEOREM ImplementsLifecycleCorrect ==
  ASSUME MaxFaults = 0
  PROVE  Spec => ImplementsLifecycle
<1> QED
  BY TypeInit, TypeStep, PlacementInit, PlacementStep, ReadinessInit, ReadinessStep,
     CommittednessInit, CommittednessStep, RunningStartedInit, RunningStartedStep,
     RefinementInit, RefinementStep, PTL
  DEF Spec, ImplementsLifecycle, Lifecycle!Spec

-----------------------------------------------------------------------------
(***************************************************************************)
(* Templates are never executed.                                           *)
(***************************************************************************)

\* Writes that make no row PENDING.
LEMMA WriteQueuesNothing ==
  ASSUME TypeOK, NEW r \in [Jobs -> JobStatus \cup {"absent"}], Write(r),
         NEW k \in Jobs, r[k] # "pending", disk[k] # "pending"
  PROVE  row'[k] # "pending" /\ disk'[k] # "pending"
BY WriteEffect

\* Rows that an UPDATE to another status than PENDING leaves.
LEMMA UpdatedQueuesNothing ==
  ASSUME TypeOK, NEW js \in SUBSET Jobs, NEW s \in JobStatus \ {"pending"}
  PROVE  /\ Updated(js, s) \in [Jobs -> JobStatus \cup {"absent"}]
         /\ \A k \in Jobs : row[k] # "pending" => Updated(js, s)[k] # "pending"
BY UpdatedType DEF Updated

\* No step makes a template executable: submit() parks it, recovery finds its
\* row WAITING, promotion skips it, and the scheduler queues clones.
LEMMA TemplatesStayIdle ==
  ASSUME TypeOK, [Next]_vars, NEW t \in Templates, ~Executable(t)
  PROVE  ~Executable(t)'
<1>0. /\ t \in Jobs /\ t \notin Execs /\ t # NoJob
      /\ t \notin heap /\ ~Held(t) /\ submit[t] # "queueing"
      /\ row[t] # "pending" /\ disk[t] # "pending"
  BY JobsAssumption DEF Executable
<1>1. ASSUME NEW j \in Jobs, SubmitBegin(j)
      PROVE  ~Executable(t)'
  <2>1. PICK s \in Queued, p \in {"queueing", "parking"} :
          /\ submit' = [submit EXCEPT ![j] = p]
          /\ Write([row EXCEPT ![j] = s])
          /\ j = t => s = "waiting" /\ p = "parking"
    BY <1>0, <1>1 DEF SubmitBegin, SubmitTemplate, SubmitRegular, Queued
  <2>2. [row EXCEPT ![j] = s] \in [Jobs -> JobStatus \cup {"absent"}]
    BY DEF TypeOK, JobStatus
  <2>3. [row EXCEPT ![j] = s][t] # "pending"
    BY <1>0, <2>1 DEF TypeOK
  <2>4. row'[t] # "pending" /\ disk'[t] # "pending"
    BY <1>0, <2>1, <2>2, <2>3, WriteQueuesNothing
  <2>5. UNCHANGED <<heap, wjob>>
    BY <1>1 DEF SubmitBegin
  <2> QED
    BY <1>0, <2>1, <2>4, <2>5 DEF Executable, Held, TypeOK
<1>2. ASSUME NEW r \in [Jobs -> JobStatus \cup {"absent"}], Write(r), r[t] # "pending",
             heap' \subseteq heap, Held(t)' => Held(t), UNCHANGED submit
      PROVE  ~Executable(t)'
  BY <1>0, <1>2, WriteQueuesNothing DEF Executable
<1>3. ASSUME NEW j \in Jobs, CancelJob(j)
      PROVE  ~Executable(t)'
  <2>1. Write(Updated({j}, "cancelled")) /\ UNCHANGED <<heap, submit, wjob>>
    BY <1>3 DEF CancelJob, memory
  <2>2. "cancelled" \in JobStatus \ {"pending"} /\ {j} \in SUBSET Jobs
    BY DEF JobStatus, Terminal
  <2> QED
    BY <1>0, <1>2, <2>1, <2>2, UpdatedQueuesNothing DEF Held
<1>4. ASSUME NEW v \in Videos, CancelVideoJobs(v)
      PROVE  ~Executable(t)'
  <2> DEFINE victims == {j \in Jobs : VideoOf[j] = v /\ row[j] \in Queued}
  <2>1. Write(Updated(victims, "cancelled")) /\ UNCHANGED <<heap, submit, wjob>>
    BY <1>4 DEF CancelVideoJobs, memory
  <2>2. "cancelled" \in JobStatus \ {"pending"} /\ victims \in SUBSET Jobs
    BY DEF JobStatus, Terminal
  <2> QED
    BY <1>0, <1>2, <2>1, <2>2, UpdatedQueuesNothing DEF Held
<1>5. ASSUME NEW old \in SUBSET Jobs, PurgeHistory(old)
      PROVE  ~Executable(t)'
  <2> DEFINE kept == [j \in Jobs |-> IF j \in old THEN "absent" ELSE row[j]]
  <2>1. Write(kept) /\ UNCHANGED <<heap, submit, wjob>>
    BY <1>5 DEF PurgeHistory, memory
  <2>2. kept \in [Jobs -> JobStatus \cup {"absent"}] /\ kept[t] # "pending"
    BY <1>0 DEF TypeOK
  <2> QED
    BY <1>2, <2>1, <2>2 DEF Held
<1>6. ASSUME NEW due \in SUBSET Templates, NEW spent \in SUBSET due,
             NEW clone \in [due -> Execs], SchedulerPass(due, spent, clone)
      PROVE  ~Executable(t)'
  <2>1. heap' = heap \cup {clone[u] : u \in due} /\ UNCHANGED <<submit, wjob, row, disk>>
    BY <1>6 DEF SchedulerPass, database
  <2> QED
    BY <1>0, <2>1 DEF Executable, Held
<1>7. ASSUME NEW j \in Jobs, SubmitEnd(j)
      PROVE  ~Executable(t)'
  BY <1>0, <1>7 DEF SubmitEnd, database, Executable, Held, TypeOK
<1>8. ASSUME NEW w \in Workers, NEW s \in Terminal, NEW next \in Busy,
             wpc[w] \in Busy, Settle(w, s, next)
      PROVE  ~Executable(t)'
  <2>1. Write(Updated({wjob[w]}, s)) /\ UNCHANGED <<heap, submit, wjob>>
    BY <1>8 DEF Settle
  <2>2. s \in JobStatus \ {"pending"} /\ {wjob[w]} \in SUBSET Jobs
    BY <1>8 DEF JobStatus, Terminal, TypeOK
  <2> QED
    BY <1>0, <1>2, <2>1, <2>2, UpdatedQueuesNothing DEF Held
<1>9. ASSUME NEW w \in Workers, HandlerStep(w) \/ CancelBusyWorker(w)
      PROVE  ~Executable(t)'
  BY <1>8, <1>9
  DEF HandlerStep, HandlerReturns, HandlerRaises, HandlerTimesOut, HandlerAborts,
      CancelBusyWorker, Terminal, Busy
<1>10. ASSUME NEW w \in Workers, Take(w)
       PROVE  ~Executable(t)'
  <2>1. PICK j \in heap : /\ heap' = heap \ {j}
                          /\ wjob' = [wjob EXCEPT ![w] = j]
                          /\ Write(Updated({j}, "running"))
    BY <1>10 DEF Take, Pop, HeapTop
  <2>2. "running" \in JobStatus \ {"pending"} /\ {j} \in SUBSET Jobs
    BY DEF JobStatus, TypeOK
  <2>3. Held(t)' => Held(t)
    BY <1>0, <2>1 DEF Held, TypeOK
  <2> QED
    BY <1>0, <1>2, <1>10, <2>1, <2>2, <2>3, UpdatedQueuesNothing DEF Take
<1>11. ASSUME NEW w \in Workers,
              \/ TakeCancelled(w) \/ StartHandler(w) \/ AnnounceCompletion(w)
              \/ AnnounceFailure(w) \/ AnnounceAbort(w)
              \/ CancelIdleWorker(w) \/ CancelStartingWorker(w) \/ CancelEndingWorker(w)
       PROVE  ~Executable(t)'
  <2>1. /\ heap' \subseteq heap /\ UNCHANGED <<submit, row, disk>>
        /\ wjob' = wjob \/ wjob' = [wjob EXCEPT ![w] = NoJob]
    BY <1>11
    DEF TakeCancelled, Pop, StartHandler, AnnounceCompletion, AnnounceFailure, AnnounceAbort,
        CancelIdleWorker, CancelStartingWorker, CancelEndingWorker, Announce, Release, database
  <2>2. Held(t)' => Held(t)
    BY <1>0, <2>1 DEF Held, TypeOK
  <2> QED
    BY <1>0, <2>1, <2>2 DEF Executable
<1>12. ASSUME NEW w \in Workers, CheckWaitingJobs(w)
       PROVE  ~Executable(t)'
  <2>1. PICK ready \in SUBSET jobs : t \notin ready /\ heap' = heap \cup ready
    BY <1>12 DEF CheckWaitingJobs, Promotable
  <2>2. wjob' = [wjob EXCEPT ![w] = NoJob] /\ UNCHANGED <<submit, row, disk>>
    BY <1>12 DEF CheckWaitingJobs, Release, database
  <2>3. Held(t)' => Held(t)
    BY <1>0, <2>2 DEF Held, TypeOK
  <2> QED
    BY <1>0, <2>1, <2>2, <2>3 DEF Executable
<1>13. CASE Commit
  BY <1>0, <1>13 DEF Commit, memory, Executable, Held
<1>14. CASE Start
  BY <1>0, <1>14 DEF Start, Recover, Recovered, Executable, Held
<1>15. CASE Stop
  BY <1>0, <1>15 DEF Stop, memory, database, Executable, Held
<1>16. CASE Exit
  BY <1>0, <1>16 DEF Exit, Executable, Held
<1>17. CASE UNCHANGED vars
  BY <1>0, <1>17 DEF vars, memory, database, Executable, Held
<1> QED
  BY <1>1, <1>3, <1>4, <1>5, <1>6, <1>7, <1>9, <1>10, <1>11, <1>12, <1>13, <1>14,
     <1>15, <1>16, <1>17
  DEF Next, Request, Submit, Retry, WorkerStep, CancelWorker

IdleTemplates == \A t \in Templates : ~Executable(t)

\* A template only ever serves to make clones: neither a recovery of its row nor
\* the promotion of waiting jobs brings it to the heap or to a worker.
THEOREM TemplatesNeverRunCorrect == Spec => []TemplatesNeverRun
<1>1. Init => IdleTemplates
  BY JobsAssumption DEF Init, IdleTemplates, Executable, Held
<1>2. TypeOK /\ IdleTemplates /\ [Next]_vars => IdleTemplates'
  BY TemplatesStayIdle DEF IdleTemplates
<1>3. IdleTemplates => TemplatesNeverRun
  BY DEF IdleTemplates, Executable, TemplatesNeverRun
<1> QED
  BY <1>1, <1>2, <1>3, TypeInit, TypeStep, PTL DEF Spec

-----------------------------------------------------------------------------
(***************************************************************************)
(* Every job ends once.                                                    *)
(***************************************************************************)

\* Where a worker is once its job has left the handler.
Ending == {"finishing", "failing", "timing", "checking", "dying"}

\* Nothing has been said or decided of a job nobody submitted.
FreshUntold == \A j \in Jobs \ submitted : status[j] = "none" /\ announced[j] = {}

\* What a worker's job can be, before the handler is left and after.
WorkStatus ==
  \A w \in Workers :
    /\ wpc[w] \in {"starting", "running"} => status[wjob[w]] \in {"running", "cancelled"}
    /\ wpc[w] \in Ending => status[wjob[w]] \in Terminal

\* A job that was announced is over: it is not queued and no worker has more to
\* do for it than look for the jobs that waited for it.
Told(j) == /\ \E e \in Terminal : announced[j] = {e}
           /\ status[j] \in Terminal
           /\ j \notin heap /\ submit[j] = "idle"
           /\ \A w \in Workers : wjob[w] = j => wpc[w] = "checking"

AnnouncedOnce ==
  /\ phase = "down" => \A j \in Jobs : announced[j] = {}
  /\ phase = "up" => \A j \in Jobs : announced[j] # {} => Told(j)

Endings == FreshUntold /\ WorkStatus /\ AnnouncedOnce

\* A status that is final changes only under a handler that goes on after a
\* cancellation.
FinalStays ==
  \A j \in Jobs :
    /\ phase = "up" /\ phase' = "up"
    /\ status[j] \in Terminal
    /\ status'[j] # status[j]
    => /\ status[j] = "cancelled"
       /\ \E w \in Workers : wjob[w] = j /\ wpc[w] = "running"

\* What is known of the job that a busy worker holds.
LEMMA HeldJob ==
  ASSUME TypeOK, Placement, NEW w \in Workers, wpc[w] \in Busy
  PROVE  /\ wjob[w] \in Jobs /\ wjob[w] # NoJob /\ wjob[w] \in jobs
         /\ wjob[w] \in submitted /\ wjob[w] \notin heap /\ submit[wjob[w]] = "idle"
         /\ \A u \in Workers : wjob[u] = wjob[w] => u = w
BY DEF TypeOK, Placement, FreshJobs, HeapPlacement, HeldPlacement, Held

\* A step that concerns none of the variables of Endings, but to go down the
\* road from "up" to "stopping", to submit jobs and to forget workers' jobs.
LEMMA EndingsFrame ==
  ASSUME Endings, UNCHANGED <<status, heap, announced>>, submitted \subseteq submitted',
         phase' = phase \/ phase' = "stopping",
         \A j \in Jobs : submit[j] = "idle" => submit'[j] = "idle",
         \A u \in Workers : \/ wpc'[u] = wpc[u] /\ wjob'[u] = wjob[u]
                            \/ wpc'[u] \in {"idle", "dead"} /\ wjob'[u] \notin Jobs
                            \/ wpc[u] = "starting" /\ wpc'[u] = "running" /\ wjob'[u] = wjob[u],
         \A u \in Workers : wjob[u] \in Jobs => wpc[u] \in Busy
  PROVE  Endings'
<1>1. FreshUntold'
  BY DEF Endings, FreshUntold
<1>2. WorkStatus'
  BY DEF Endings, WorkStatus, Ending
<1>3. AnnouncedOnce'
  BY DEF Endings, AnnouncedOnce, Told
<1> QED
  BY <1>1, <1>2, <1>3 DEF Endings

\* The handler of worker w's job is left: the job has a final status.
LEMMA EndingsSettle ==
  ASSUME TypeOK, Placement, Endings, NEW w \in Workers, NEW s \in Terminal,
         NEW next \in Ending \ {"checking"}, wpc[w] \in Busy, Settle(w, s, next),
         wpc[w] = "running" \/ phase = "stopping"
  PROVE  Endings'
<1> DEFINE j == wjob[w]
<1>1. /\ j \in Jobs /\ j \in submitted
      /\ \A u \in Workers : wjob[u] = j => u = w
  BY HeldJob
<1>2. /\ status' = [status EXCEPT ![j] = s] /\ wpc' = [wpc EXCEPT ![w] = next]
      /\ UNCHANGED <<phase, heap, submit, wjob, submitted, announced>>
  BY DEF Settle
<1> HIDE DEF j
<1>3. FreshUntold'
  BY <1>1, <1>2 DEF Endings, FreshUntold, TypeOK
<1>4. WorkStatus'
  BY <1>1, <1>2 DEF Endings, WorkStatus, Ending, TypeOK, j, Terminal
<1>5. phase = "up" => announced[j] = {}
  BY <1>1 DEF Endings, AnnouncedOnce, Told, j
<1>6. ASSUME phase = "up", NEW k \in Jobs, announced[k] # {}
      PROVE  Told(k)'
  <2>1. k # j /\ Told(k)
    BY <1>5, <1>6 DEF Endings, AnnouncedOnce
  <2>2. \A u \in Workers : wjob'[u] = k => wpc'[u] = "checking"
    BY <1>2, <2>1 DEF Told, j, TypeOK
  <2> QED
    BY <1>2, <2>1, <2>2 DEF Told, TypeOK
<1> QED
  BY <1>2, <1>3, <1>4, <1>6 DEF Endings, AnnouncedOnce

\* A worker announces the end of its job and is done with it, or all but.
LEMMA EndingsAnnounce ==
  ASSUME TypeOK, Placement, Endings, phase # "down", NEW w \in Workers,
         wpc[w] \in Ending \ {"checking"}, Announce(w),
         \/ wpc' = [wpc EXCEPT ![w] = "checking"] /\ UNCHANGED wjob
         \/ \E pc \in {"idle", "dead"} : /\ wpc' = [wpc EXCEPT ![w] = pc]
                                         /\ wjob' = [wjob EXCEPT ![w] = NoJob]
  PROVE  Endings'
<1> DEFINE j == wjob[w]
           e == EventOf[wpc[w]]
<1>1. /\ j \in Jobs /\ j \in submitted /\ j \notin heap /\ submit[j] = "idle" /\ j # NoJob
      /\ \A u \in Workers : wjob[u] = j => u = w
  BY HeldJob DEF Ending, Busy
<1>2. /\ announced' = [announced EXCEPT ![j] = @ \cup {e}]
      /\ UNCHANGED <<phase, status, heap, submit, submitted>>
  BY DEF Announce
<1>3. e \in Terminal /\ status[j] \in Terminal
  BY DEF EventOf, Ending, Terminal, Endings, WorkStatus
<1> HIDE DEF j, e
<1>4. FreshUntold'
  BY <1>1, <1>2 DEF Endings, FreshUntold, TypeOK
<1>5. WorkStatus'
  BY <1>1, <1>2, <1>3 DEF Endings, WorkStatus, Ending, TypeOK, j
<1>6. ASSUME phase = "up", NEW k \in Jobs, announced'[k] # {}
      PROVE  Told(k)'
  <2>1. CASE k = j
    <3>1. announced[j] = {}
      BY <1>1, <1>6, <2>1 DEF Endings, AnnouncedOnce, Told, j
    <3>2. announced'[j] = {e}
      BY <1>1, <1>2, <3>1 DEF TypeOK
    <3>3. \A u \in Workers : wjob'[u] = j => wpc'[u] = "checking"
      BY <1>1 DEF TypeOK, j
    <3> QED
      BY <1>1, <1>2, <1>3, <2>1, <3>2, <3>3 DEF Told
  <2>2. CASE k # j
    <3>1. Told(k) /\ announced'[k] = announced[k]
      BY <1>2, <1>6, <2>2 DEF Endings, AnnouncedOnce, TypeOK
    <3>2. \A u \in Workers : wjob'[u] = k => wpc'[u] = "checking"
      BY <1>1, <2>2, <3>1, JobsAssumption DEF Told, TypeOK, j
    <3> QED
      BY <1>2, <3>1, <3>2 DEF Told
  <2> QED
    BY <2>1, <2>2
<1> QED
  BY <1>2, <1>4, <1>5, <1>6 DEF Endings, AnnouncedOnce

\* Nothing has ended before anything began.
LEMMA EndingsInit == Init => Endings
BY DEF Init, Endings, FreshUntold, WorkStatus, Ending, AnnouncedOnce

\* Every step keeps Endings.
LEMMA EndingsStep == TypeOK /\ Placement /\ Endings /\ [Next]_vars => Endings'
<1> SUFFICES ASSUME TypeOK, Placement, Endings, [Next]_vars
             PROVE  Endings'
  OBVIOUS
<1>0. \A u \in Workers : wjob[u] \in Jobs => wpc[u] \in Busy
  BY JobsAssumption DEF TypeOK
<1>1. ASSUME NEW j \in Jobs, SubmitBegin(j)
      PROVE  Endings'
  <2>1. PICK s \in Queued, p \in {"queueing", "parking"} :
          /\ status' = [status EXCEPT ![j] = s]
          /\ submit' = [submit EXCEPT ![j] = p]
    BY <1>1 DEF SubmitBegin, SubmitTemplate, SubmitRegular, Queued
  <2>2. /\ j \notin submitted /\ submitted' = submitted \cup {j}
        /\ UNCHANGED <<phase, heap, wpc, wjob, announced>>
    BY <1>1 DEF SubmitBegin, Fresh
  <2>3. announced[j] = {} /\ \A w \in Workers : wjob[w] # j
    BY <2>2 DEF Endings, FreshUntold, Placement, FreshJobs, Held
  <2>4. FreshUntold'
    BY <2>1, <2>2 DEF Endings, FreshUntold, TypeOK
  <2>5. WorkStatus'
    BY <2>1, <2>2, <2>3 DEF Endings, WorkStatus, TypeOK, Ending, Busy
  <2>6. AnnouncedOnce'
    BY <2>1, <2>2, <2>3 DEF Endings, AnnouncedOnce, Told, TypeOK
  <2> QED
    BY <2>4, <2>5, <2>6 DEF Endings
<1>2. ASSUME NEW j \in Jobs, CancelJob(j)
      PROVE  Endings'
  <2>1. UNCHANGED <<phase, heap, submit, wpc, wjob, submitted, announced>>
    BY <1>2 DEF CancelJob, memory, history
  <2>2. CASE j \in jobs
    <3>1. status' = [status EXCEPT ![j] = "cancelled"] /\ status[j] \notin Terminal
      BY <1>2, <2>2 DEF CancelJob, Visible, Cancellable
    <3>2. j \in submitted
      BY <2>2 DEF Placement, FreshJobs
    <3>3. FreshUntold'
      BY <2>1, <3>1, <3>2 DEF Endings, FreshUntold, TypeOK
    <3>4. WorkStatus'
      BY <2>1, <3>1 DEF Endings, WorkStatus, TypeOK, Terminal, Ending, Busy
    <3>5. AnnouncedOnce'
      BY <2>1, <3>1 DEF Endings, AnnouncedOnce, Told, TypeOK
    <3> QED
      BY <3>3, <3>4, <3>5 DEF Endings
  <2>3. CASE j \notin jobs
    BY <1>0, <1>2, <2>1, <2>3, EndingsFrame DEF CancelJob
  <2> QED
    BY <2>2, <2>3
<1>3. ASSUME UNCHANGED <<status, heap, submit, wpc, wjob, submitted, announced>>,
             phase' = phase \/ phase' = "stopping"
      PROVE  Endings'
  BY <1>0, <1>3, EndingsFrame
<1>4. ASSUME NEW v \in Videos, CancelVideoJobs(v)
      PROVE  Endings'
  BY <1>3, <1>4 DEF CancelVideoJobs, memory, history
<1>5. ASSUME NEW old \in SUBSET Jobs, PurgeHistory(old)
      PROVE  Endings'
  BY <1>3, <1>5 DEF PurgeHistory, memory, history
<1>6. ASSUME NEW due \in SUBSET Templates, NEW spent \in SUBSET due,
             NEW clone \in [due -> Execs], SchedulerPass(due, spent, clone)
      PROVE  Endings'
  <2> DEFINE clones == {clone[t] : t \in due}
  <2>1. /\ phase = "up" /\ submitted' = submitted \cup clones /\ heap' = heap \cup clones
        /\ status' = [j \in Jobs |-> IF j \in clones THEN "pending"
                                     ELSE IF j \in spent THEN "failed"
                                     ELSE status[j]]
        /\ UNCHANGED <<phase, submit, wpc, wjob, announced>>
    BY <1>6 DEF SchedulerPass
  <2>2. \A t \in due : status[t] = "waiting" /\ t \in templates
    BY <1>6 DEF SchedulerPass
  <2>3. \A k \in clones : k \in Jobs /\ k \notin submitted
    BY <1>6, JobsAssumption DEF SchedulerPass, Fresh
  <2> HIDE DEF clones
  <2>4. \A k \in clones : announced[k] = {} /\ \A w \in Workers : wjob[w] # k
    BY <2>3 DEF Endings, FreshUntold, Placement, FreshJobs, Held
  <2>5. \A k \in spent : k \in submitted
    BY <2>2, JobsAssumption DEF Placement, FreshJobs
  <2>6. FreshUntold'
    BY <2>1, <2>5 DEF Endings, FreshUntold
  <2>7. WorkStatus'
    BY <2>1, <2>2, <2>4 DEF Endings, WorkStatus, TypeOK, Terminal, Ending, Busy
  <2>8. AnnouncedOnce'
    BY <2>1, <2>2, <2>4 DEF Endings, AnnouncedOnce, Told, Terminal
  <2> QED
    BY <2>6, <2>7, <2>8 DEF Endings
<1>7. ASSUME NEW j \in Jobs, SubmitEnd(j)
      PROVE  Endings'
  <2>1. /\ submit[j] # "idle" /\ submit' = [submit EXCEPT ![j] = "idle"]
        /\ heap' \subseteq heap \cup {j}
        /\ UNCHANGED <<phase, status, wpc, wjob, submitted, announced>>
    BY <1>7 DEF SubmitEnd, history
  <2>2. FreshUntold' /\ WorkStatus'
    BY <2>1 DEF Endings, FreshUntold, WorkStatus
  <2>3. AnnouncedOnce'
    BY <2>1 DEF Endings, AnnouncedOnce, Told, TypeOK
  <2> QED
    BY <2>2, <2>3 DEF Endings
<1>8. ASSUME NEW w \in Workers, HandlerStep(w)
      PROVE  Endings'
  BY <1>8, EndingsSettle
  DEF HandlerStep, HandlerReturns, HandlerRaises, HandlerTimesOut, HandlerAborts,
      Terminal, Ending, Busy
<1>9. ASSUME NEW w \in Workers, CancelBusyWorker(w)
      PROVE  Endings'
  BY <1>9, EndingsSettle DEF CancelBusyWorker, Terminal, Ending, Busy
<1>10. ASSUME NEW w \in Workers, Take(w)
       PROVE  Endings'
  <2>1. PICK j \in heap : /\ heap' = heap \ {j}
                          /\ status' = [status EXCEPT ![j] = "running"]
                          /\ wjob' = [wjob EXCEPT ![w] = j]
    BY <1>10 DEF Take, Pop, HeapTop
  <2>2. wpc' = [wpc EXCEPT ![w] = "starting"]
        /\ UNCHANGED <<phase, submit, submitted, announced>>
    BY <1>10 DEF Take, history
  <2>3. j \in Jobs /\ j \in submitted /\ \A u \in Workers : wjob[u] # j
    BY <2>1 DEF TypeOK, Placement, HeapPlacement, FreshJobs, Held
  <2>4. phase # "stopping" => announced[j] = {}
    BY <2>1, <2>3 DEF Endings, AnnouncedOnce, Told, TypeOK
  <2>5. FreshUntold'
    BY <2>1, <2>2, <2>3 DEF Endings, FreshUntold, TypeOK
  <2>6. WorkStatus'
    BY <2>1, <2>2, <2>3 DEF Endings, WorkStatus, TypeOK, Ending, Busy
  <2>7. AnnouncedOnce'
    BY <2>1, <2>2, <2>3, <2>4 DEF Endings, AnnouncedOnce, Told, TypeOK
  <2> QED
    BY <2>5, <2>6, <2>7 DEF Endings
<1>11. ASSUME NEW w \in Workers, TakeCancelled(w)
       PROVE  Endings'
  <2>1. PICK j \in heap : /\ status[j] = "cancelled" /\ heap' = heap \ {j}
                          /\ announced' = [announced EXCEPT ![j] = @ \cup {"cancelled"}]
    BY <1>11 DEF TakeCancelled, Pop, HeapTop
  <2>2. /\ phase # "down" /\ wpc[w] = "idle" /\ wpc'[w] \in {"idle", "dead"}
        /\ wpc' = [wpc EXCEPT ![w] = NextRound]
        /\ UNCHANGED <<phase, status, submit, wjob, submitted>>
    BY <1>11 DEF TakeCancelled, NextRound, TypeOK
  <2>3. /\ j \in Jobs /\ j \in submitted /\ submit[j] = "idle"
        /\ \A u \in Workers : wjob[u] # j
    BY <2>1 DEF TypeOK, Placement, HeapPlacement, FreshJobs, Held
  <2>4. FreshUntold'
    BY <2>1, <2>2, <2>3 DEF Endings, FreshUntold, TypeOK
  <2>5. WorkStatus'
    BY <2>2 DEF Endings, WorkStatus, TypeOK, Ending
  <2>6. ASSUME phase = "up", NEW k \in Jobs, announced'[k] # {}
        PROVE  Told(k)'
    <3>1. CASE k = j
      <4>1. announced[j] = {}
        BY <2>1, <2>3, <2>6 DEF Endings, AnnouncedOnce, Told
      <4>2. announced'[j] = {"cancelled"}
        BY <2>1, <2>3, <4>1 DEF TypeOK
      <4> QED
        BY <2>1, <2>2, <2>3, <3>1, <4>2 DEF Told, Terminal
    <3>2. CASE k # j
      <4>1. Told(k) /\ announced'[k] = announced[k]
        BY <2>1, <2>6, <3>2 DEF Endings, AnnouncedOnce, TypeOK
      <4>2. \A u \in Workers : wjob'[u] = k => wpc'[u] = "checking"
        BY <2>2, <4>1 DEF Told, TypeOK
      <4> QED
        BY <2>1, <2>2, <4>1, <4>2 DEF Told
    <3> QED
      BY <3>1, <3>2
  <2> QED
    BY <2>2, <2>4, <2>5, <2>6 DEF Endings, AnnouncedOnce
<1>12. ASSUME NEW w \in Workers, AnnounceCompletion(w) \/ AnnounceFailure(w) \/ AnnounceAbort(w)
       PROVE  Endings'
  BY <1>12, EndingsAnnounce
  DEF AnnounceCompletion, AnnounceFailure, AnnounceAbort, Release, NextRound, Ending
<1>13. ASSUME NEW w \in Workers, StartHandler(w)
       PROVE  Endings'
  <2>1. /\ \A u \in Workers : \/ wpc'[u] = wpc[u] /\ wjob'[u] = wjob[u]
                              \/ wpc[u] = "starting" /\ wpc'[u] = "running" /\ wjob'[u] = wjob[u]
        /\ UNCHANGED <<phase, status, heap, submit, submitted, announced>>
    BY <1>13 DEF StartHandler, TypeOK
  <2> QED
    BY <1>0, <2>1, EndingsFrame
<1>14. ASSUME NEW w \in Workers,
              CancelIdleWorker(w) \/ CancelStartingWorker(w) \/ CancelEndingWorker(w)
       PROVE  Endings'
  <2>1. \A u \in Workers : \/ wpc'[u] = wpc[u] /\ wjob'[u] = wjob[u]
                           \/ wpc'[u] = "dead" /\ wjob'[u] \notin Jobs
    BY <1>14, JobsAssumption
    DEF CancelIdleWorker, CancelStartingWorker, CancelEndingWorker, Release, TypeOK, Busy
  <2>2. UNCHANGED <<phase, status, heap, submit, submitted, announced>>
    BY <1>14 DEF CancelIdleWorker, CancelStartingWorker, CancelEndingWorker, history
  <2> QED
    BY <1>0, <2>1, <2>2, EndingsFrame
<1>15. ASSUME NEW w \in Workers, CheckWaitingJobs(w)
       PROVE  Endings'
  <2>1. PICK ready \in SUBSET jobs :
          /\ \A k \in ready : status[k] = "waiting"
          /\ status' = [k \in Jobs |-> IF k \in ready THEN "pending" ELSE status[k]]
          /\ heap' = heap \cup ready
    BY <1>15 DEF CheckWaitingJobs, Promotable
  <2>2. /\ wjob' = [wjob EXCEPT ![w] = NoJob]
        /\ wpc' = [wpc EXCEPT ![w] = NextRound]
        /\ UNCHANGED <<phase, submit, submitted, announced>>
    BY <1>15 DEF CheckWaitingJobs, Release, history
  <2>3. FreshUntold'
    BY <2>1, <2>2 DEF Endings, FreshUntold, Placement, FreshJobs
  <2>4. WorkStatus'
    BY <2>1, <2>2 DEF Endings, WorkStatus, Terminal, TypeOK, NextRound, Ending, Busy
  <2>5. ASSUME NEW k \in Jobs, Told(k)
        PROVE  Told(k)'
    <3>1. \A u \in Workers : wjob'[u] = k => wpc'[u] = "checking"
      BY <2>2, <2>5, JobsAssumption DEF Told, TypeOK
    <3> QED
      BY <2>1, <2>2, <2>5, <3>1 DEF Told, Terminal
  <2>6. AnnouncedOnce'
    BY <2>2, <2>5 DEF Endings, AnnouncedOnce
  <2> QED
    BY <2>3, <2>4, <2>6 DEF Endings
<1>16. CASE Commit
  BY <1>3, <1>16 DEF Commit, memory, history
<1>17. CASE Start
  <2>1. FreshUntold'
    BY <1>17 DEF Start, Recover, Recovered, Queued, history, Endings, FreshUntold, AnnouncedOnce,
                 Placement, FreshJobs
  <2>2. WorkStatus'
    BY <1>17 DEF Start, WorkStatus, Ending
  <2>3. AnnouncedOnce'
    BY <1>17 DEF Start, history, Endings, AnnouncedOnce
  <2> QED
    BY <2>1, <2>2, <2>3 DEF Endings
<1>18. CASE Stop
  BY <1>3, <1>18 DEF Stop, memory, history
<1>19. CASE Exit
  BY <1>19 DEF Exit, Endings, FreshUntold, WorkStatus, Ending, AnnouncedOnce
<1>20. CASE UNCHANGED vars
  BY <1>3, <1>20 DEF vars, memory, history
<1> QED
  BY <1>1, <1>2, <1>4, <1>5, <1>6, <1>7, <1>8, <1>9, <1>10, <1>11, <1>12, <1>13, <1>14,
     <1>15, <1>16, <1>17, <1>18, <1>19, <1>20
  DEF Next, Request, Submit, Retry, WorkerStep, CancelWorker

\* No step changes a final status while the queue is up, but that of a handler
\* which goes on after its job was cancelled.
LEMMA FinalStaysStep == TypeOK /\ Placement /\ Endings /\ [Next]_vars => FinalStays
<1> SUFFICES ASSUME TypeOK, Placement, Endings, [Next]_vars, phase = "up", phase' = "up",
                    NEW k \in Jobs, status[k] \in Terminal, status'[k] # status[k]
             PROVE  /\ status[k] = "cancelled"
                    /\ \E w \in Workers : wjob[w] = k /\ wpc[w] = "running"
  BY DEF FinalStays
<1>1. ASSUME NEW j \in Jobs, SubmitBegin(j)
      PROVE  FALSE
  <2>1. \E s \in Queued : status' = [status EXCEPT ![j] = s]
    BY <1>1 DEF SubmitBegin, SubmitTemplate, SubmitRegular, Queued
  <2>2. status[j] = "none"
    BY <1>1 DEF SubmitBegin, Fresh, Endings, FreshUntold
  <2> QED
    BY <2>1, <2>2 DEF TypeOK, Terminal
<1>2. ASSUME NEW j \in Jobs, CancelJob(j)
      PROVE  FALSE
  BY <1>2 DEF CancelJob, Visible, Cancellable, TypeOK
<1>3. ASSUME NEW due \in SUBSET Templates, NEW spent \in SUBSET due,
             NEW clone \in [due -> Execs], SchedulerPass(due, spent, clone)
      PROVE  FALSE
  <2>1. \A t \in due : status[t] = "waiting" /\ status[clone[t]] = "none"
    BY <1>3, JobsAssumption DEF SchedulerPass, Fresh, Endings, FreshUntold
  <2> QED
    BY <1>3, <2>1 DEF SchedulerPass, Terminal
<1>4. ASSUME NEW w \in Workers, HandlerStep(w)
      PROVE  /\ status[k] = "cancelled"
             /\ wjob[w] = k /\ wpc[w] = "running"
  <2>1. wpc[w] = "running" /\ \E s \in Terminal : status' = [status EXCEPT ![wjob[w]] = s]
    BY <1>4
    DEF HandlerStep, HandlerReturns, HandlerRaises, HandlerTimesOut, HandlerAborts, Settle, Terminal
  <2>2. k = wjob[w] /\ status[k] \in {"running", "cancelled"}
    BY <2>1 DEF TypeOK, Endings, WorkStatus
  <2> QED
    BY <2>1, <2>2 DEF Terminal
<1>5. ASSUME NEW w \in Workers, Take(w)
      PROVE  FALSE
  <2>1. PICK j \in heap : status[j] # "cancelled" /\ status' = [status EXCEPT ![j] = "running"]
    BY <1>5 DEF Take, HeapTop
  <2>2. status[j] = "pending"
    BY <2>1 DEF Placement, HeapPlacement
  <2> QED
    BY <2>1, <2>2 DEF TypeOK, Terminal
<1>6. ASSUME NEW w \in Workers, CheckWaitingJobs(w)
      PROVE  FALSE
  BY <1>6 DEF CheckWaitingJobs, Promotable, Terminal
<1>7. CASE UNCHANGED status
  BY <1>7
<1>8. ASSUME NEW w \in Workers,
             \/ TakeCancelled(w) \/ StartHandler(w) \/ AnnounceCompletion(w)
             \/ AnnounceFailure(w) \/ AnnounceAbort(w) \/ CancelWorker(w)
      PROVE  UNCHANGED status
  BY <1>8
  DEF TakeCancelled, StartHandler, AnnounceCompletion, AnnounceFailure, AnnounceAbort, Announce,
      CancelWorker, CancelIdleWorker, CancelStartingWorker, CancelBusyWorker, CancelEndingWorker
<1>9. ASSUME \/ \E v \in Videos : CancelVideoJobs(v)
             \/ \E old \in SUBSET Jobs : PurgeHistory(old)
             \/ \E j \in Jobs : SubmitEnd(j)
             \/ Commit \/ Stop \/ UNCHANGED vars
      PROVE  UNCHANGED status
  BY <1>9 DEF CancelVideoJobs, PurgeHistory, SubmitEnd, Commit, Stop, vars
<1>10. ~Start /\ ~Exit
  BY DEF Start, Exit
<1> QED
  BY <1>1, <1>2, <1>3, <1>4, <1>5, <1>6, <1>7, <1>8, <1>9, <1>10
  DEF Next, Request, Submit, Retry, WorkerStep

\* A job ends once: whatever cancellations, timeouts, failing writes and
\* shutdowns come together, at most one terminal event is broadcast for it, and
\* its final status is not changed behind it.
THEOREM EndsOnceCorrect == Spec => EndsOnce
<1>1. Endings => (phase = "up" => \A j \in Jobs : Cardinality(announced[j]) <= 1)
  <2> SUFFICES ASSUME Endings, phase = "up", NEW j \in Jobs
               PROVE  Cardinality(announced[j]) <= 1
    OBVIOUS
  <2>1. CASE announced[j] = {}
    <3>1. Cardinality(announced[j]) = 0
      BY <2>1, FS_EmptySet
    <3> QED
      BY <3>1
  <2>2. CASE announced[j] # {}
    <3>1. PICK e \in Terminal : announced[j] = {e}
      BY <2>2 DEF Endings, AnnouncedOnce, Told
    <3>2. Cardinality(announced[j]) = 1
      BY <3>1, FS_Singleton
    <3> QED
      BY <3>2
  <2> QED
    BY <2>1, <2>2
<1>2. TypeOK /\ Placement /\ Endings /\ [Next]_vars
        => [\A j \in Jobs :
              /\ phase = "up" /\ phase' = "up"
              /\ status[j] \in Terminal
              /\ status'[j] # status[j]
              => /\ status[j] = "cancelled"
                 /\ \E w \in Workers : wjob[w] = j /\ wpc[w] = "running"]_vars
  BY FinalStaysStep DEF FinalStays
<1> QED
  BY <1>1, <1>2, TypeInit, TypeStep, PlacementInit, PlacementStep, EndingsInit, EndingsStep, PTL
  DEF Spec, EndsOnce

-----------------------------------------------------------------------------
(***************************************************************************)
(* Rows tell what became of their jobs.                                    *)
(***************************************************************************)

\* While the queue is up: a RUNNING row has a worker, the row of a job whose
\* handler was left says so, also in the file once it was announced, and that
\* of a job the registry has dropped does not change any more.
LiveRows == \A j \in Jobs : row[j] = "running" => Held(j)
EndedRows ==
  \A w \in Workers :
    /\ wpc[w] \in Ending => row[wjob[w]] \in {"absent", status[wjob[w]]}
    /\ wpc[w] = "checking" => disk[wjob[w]] = row[wjob[w]]
DroppedRows ==
  \A j \in submitted \ (jobs \cup Templates) :
    status[j] \in Terminal /\ row[j] # "absent" => row[j] = status[j] /\ disk[j] = status[j]

TrueRows == phase = "up" => LiveRows /\ EndedRows /\ DroppedRows

\* A write by somebody else than the worker of a job: it makes no row RUNNING
\* and leaves the rows of jobs that have ended, or takes them away.
LEMMA TrueRowsWrite ==
  ASSUME MaxFaults = 0, TypeOK, Placement, TrueRows,
         NEW r \in [Jobs -> JobStatus \cup {"absent"}], Write(r), phase = "up",
         UNCHANGED <<jobs, wpc, wjob, submitted>>,
         \A j \in Jobs : status'[j] = status[j] \/ (j \in jobs /\ status[j] \notin Terminal),
         \A j \in Jobs : r[j] = "running" => row[j] = "running",
         \A w \in Workers : wpc[w] \in Ending =>
           r[wjob[w]] = row[wjob[w]] \/ row[wjob[w]] \notin Terminal \cup {"absent"},
         \A j \in Jobs : j \notin jobs /\ row[j] \in Terminal => r[j] \in {row[j], "absent"},
         \A j \in Jobs : row[j] = "absent" => r[j] = "absent",
         Endings
  PROVE  TrueRows'
<1>1. row' = r /\ disk' = disk
  BY WriteEffect
<1>2. LiveRows'
  BY <1>1 DEF TrueRows, LiveRows, Held
<1>3. EndedRows'
  BY <1>1 DEF TrueRows, EndedRows, Endings, WorkStatus, Ending, TypeOK, Busy
<1>4. DroppedRows'
  BY <1>1 DEF TrueRows, DroppedRows, TypeOK
<1> QED
  BY <1>2, <1>3, <1>4 DEF TrueRows

\* A step that leaves the rows alone and drops no job from the registry.
LEMMA TrueRowsFrame ==
  ASSUME TrueRows, UNCHANGED <<phase, row, disk>>, Placement, Endings, TypeOK,
         jobs \subseteq jobs',
         \A j \in Jobs : Held(j) => Held(j)',
         \A w \in Workers : /\ wpc'[w] \in Ending => wpc[w] \in Ending
                            /\ wpc'[w] = "checking" => wpc[w] = "checking"
                            /\ wpc'[w] \in Ending => wjob'[w] = wjob[w],
         \A w \in Workers : wpc[w] \in Ending => status'[wjob[w]] = status[wjob[w]],
         \A j \in submitted' \ (jobs' \cup Templates) : j \in submitted /\ status'[j] = status[j]
  PROVE  TrueRows'
<1>1. ASSUME phase = "up"
      PROVE  LiveRows' /\ EndedRows' /\ DroppedRows'
  <2>1. LiveRows'
    BY <1>1 DEF TrueRows, LiveRows
  <2>2. EndedRows'
    BY <1>1 DEF TrueRows, EndedRows, Ending
  <2>3. DroppedRows'
    BY <1>1 DEF TrueRows, DroppedRows
  <2> QED
    BY <2>1, <2>2, <2>3
<1> QED
  BY <1>1 DEF TrueRows

\* There are no rows.
LEMMA TrueRowsInit == Init => TrueRows
BY DEF Init, TrueRows

\* Rows stay true when no write fails: the worker that leaves a handler is the
\* only one to write its job's row until the job has been announced.
LEMMA TrueRowsStep ==
  ASSUME MaxFaults = 0
  PROVE  TypeOK /\ Placement /\ Committedness /\ Endings /\ TrueRows /\ [Next]_vars => TrueRows'
<1> SUFFICES ASSUME TypeOK, Placement, Committedness, Endings, TrueRows, [Next]_vars
             PROVE  TrueRows'
  OBVIOUS
<1>1. ASSUME NEW j \in Jobs, SubmitBegin(j)
      PROVE  TrueRows'
  <2>1. PICK s \in Queued :
          /\ status' = [status EXCEPT ![j] = s]
          /\ Write([row EXCEPT ![j] = s])
          /\ jobs' = jobs \cup {j} \/ (j \in Templates /\ jobs' = jobs)
    BY <1>1 DEF SubmitBegin, SubmitTemplate, SubmitRegular, Queued
  <2>2. [row EXCEPT ![j] = s] \in [Jobs -> JobStatus \cup {"absent"}]
    BY DEF TypeOK, JobStatus
  <2>3. row' = [row EXCEPT ![j] = s] /\ disk' = disk
    BY <2>1, <2>2, WriteEffect
  <2>4. /\ submitted' = submitted \cup {j}
        /\ \A w \in Workers : wjob[w] # j
        /\ UNCHANGED <<phase, wpc, wjob>>
    BY <1>1 DEF SubmitBegin, Fresh, Placement, FreshJobs, Held
  <2> SUFFICES ASSUME phase = "up"
               PROVE  TrueRows'
    BY <2>4 DEF TrueRows
  <2>5. LiveRows'
    BY <2>1, <2>3, <2>4 DEF TrueRows, LiveRows, Held, TypeOK, Queued
  <2>6. EndedRows'
    BY <2>1, <2>3, <2>4 DEF TrueRows, EndedRows, TypeOK, Ending, Busy
  <2>7. DroppedRows'
    BY <2>1, <2>3, <2>4 DEF TrueRows, DroppedRows, TypeOK, Queued, Terminal
  <2> QED
    BY <2>5, <2>6, <2>7 DEF TrueRows
<1>2. ASSUME NEW js \in SUBSET Jobs, NEW s \in JobStatus
      PROVE  /\ Updated(js, s) \in [Jobs -> JobStatus \cup {"absent"}]
             /\ \A k \in js : Updated(js, s)[k] = IF row[k] = "absent" THEN "absent" ELSE s
             /\ \A k \in Jobs \ js : Updated(js, s)[k] = row[k]
  BY <1>2, UpdatedType DEF Updated
<1>3. "cancelled" \in JobStatus /\ "running" \in JobStatus
  BY DEF JobStatus, Terminal
<1>4. ASSUME NEW j \in Jobs, CancelJob(j)
      PROVE  TrueRows'
  <2> DEFINE r == Updated({j}, "cancelled")
  <2>1. /\ Write(r) /\ phase = "up"
        /\ UNCHANGED <<jobs, wpc, wjob, submitted>>
        /\ Visible(j) \notin Terminal
        /\ \A k \in Jobs : status'[k] = status[k] \/ (k = j /\ j \in jobs)
    BY <1>4 DEF CancelJob, Cancellable, memory, history, TypeOK
  <2>2. /\ r \in [Jobs -> JobStatus \cup {"absent"}]
        /\ r[j] \in {"absent", "cancelled"} /\ (row[j] = "absent" => r[j] = "absent")
        /\ \A k \in Jobs \ {j} : r[k] = row[k]
    BY <1>2, <1>3
  <2>3. \A k \in Jobs : status'[k] = status[k] \/ (k \in jobs /\ status[k] \notin Terminal)
    BY <2>1 DEF Visible
  <2>4. \A w \in Workers : wpc[w] \in Ending => wjob[w] # j
    BY <2>1, HeldJob DEF Visible, Endings, WorkStatus, Ending, Busy
  <2>5. \A k \in Jobs : k \notin jobs /\ row[k] \in Terminal => k # j
    BY <2>1 DEF Visible
  <2>6. \A w \in Workers : wpc[w] \in Ending => wjob[w] \in Jobs
    BY HeldJob DEF Ending, Busy
  <2> HIDE DEF r
  <2> QED
    BY <2>1, <2>2, <2>3, <2>4, <2>5, <2>6, TrueRowsWrite
<1>5. ASSUME NEW v \in Videos, CancelVideoJobs(v)
      PROVE  TrueRows'
  <2> DEFINE victims == {j \in Jobs : VideoOf[j] = v /\ row[j] \in Queued}
             r == Updated(victims, "cancelled")
  <2>1. /\ Write(r) /\ phase = "up"
        /\ UNCHANGED <<status, jobs, wpc, wjob, submitted>>
    BY <1>5 DEF CancelVideoJobs, memory, history
  <2>2. r \in [Jobs -> JobStatus \cup {"absent"}]
    BY <1>2, <1>3
  <2>3. ASSUME NEW k \in Jobs
        PROVE  r[k] = row[k] \/ (row[k] \in Queued /\ r[k] = "cancelled")
    BY <1>2, <1>3, <2>3, SMTT(30) DEF Queued
  <2>4. \A w \in Workers : wpc[w] \in Ending => wjob[w] \in Jobs /\ row[wjob[w]] \notin Queued
    BY HeldJob DEF Ending, Busy, Committedness, HeldRows
  <2>5. /\ \A k \in Jobs : r[k] = "running" => row[k] = "running"
        /\ \A w \in Workers : wpc[w] \in Ending => r[wjob[w]] = row[wjob[w]]
        /\ \A k \in Jobs : row[k] \in Terminal => r[k] = row[k]
        /\ \A k \in Jobs : row[k] = "absent" => r[k] = "absent"
    BY <2>3, <2>4 DEF Queued, Terminal
  <2> HIDE DEF r
  <2> QED
    BY <2>1, <2>2, <2>5, TrueRowsWrite
<1>6. ASSUME NEW old \in SUBSET Jobs, PurgeHistory(old)
      PROVE  TrueRows'
  <2> DEFINE r == [j \in Jobs |-> IF j \in old THEN "absent" ELSE row[j]]
  <2>1. /\ Write(r) /\ phase = "up"
        /\ UNCHANGED <<status, jobs, wpc, wjob, submitted>>
        /\ \A k \in old : \A w \in Workers : wjob[w] # k
    BY <1>6 DEF PurgeHistory, memory, history
  <2>2. /\ r \in [Jobs -> JobStatus \cup {"absent"}]
        /\ \A k \in Jobs : r[k] = row[k] \/ (k \in old /\ r[k] = "absent")
    BY DEF TypeOK
  <2>3. \A w \in Workers : wpc[w] \in Ending => wjob[w] \in Jobs
    BY HeldJob DEF Ending, Busy
  <2> HIDE DEF r
  <2> QED
    BY <2>1, <2>2, <2>3, TrueRowsWrite
<1>7. ASSUME NEW due \in SUBSET Templates, NEW spent \in SUBSET due,
             NEW clone \in [due -> Execs], SchedulerPass(due, spent, clone)
      PROVE  TrueRows'
  <2> DEFINE clones == {clone[t] : t \in due}
  <2>1. /\ jobs' = jobs \cup clones /\ submitted' = submitted \cup clones
        /\ status' = [j \in Jobs |-> IF j \in clones THEN "pending"
                                     ELSE IF j \in spent THEN "failed" ELSE status[j]]
        /\ due \subseteq templates
        /\ \A k \in clones : k \in Jobs /\ k \notin submitted
        /\ UNCHANGED <<phase, row, disk, wpc, wjob>>
    BY <1>7, JobsAssumption DEF SchedulerPass, Fresh, database
  <2>2. \A w \in Workers : wpc[w] \in Ending =>
          wjob[w] \in Jobs /\ wjob[w] \notin clones /\ wjob[w] \notin templates
    BY <2>1, HeldJob DEF Ending, Busy, Placement, RegistryPlacement
  <2>3. \A j \in submitted' \ (jobs' \cup Templates) : j \in submitted /\ status'[j] = status[j]
    BY <2>1 DEF TypeOK
  <2>4. \A w \in Workers : wpc[w] \in Ending => status'[wjob[w]] = status[wjob[w]]
    BY <2>1, <2>2
  <2> HIDE DEF clones
  <2> QED
    BY <2>1, <2>3, <2>4, TrueRowsFrame DEF Held
<1>8. ASSUME NEW j \in Jobs, SubmitEnd(j)
      PROVE  TrueRows'
  BY <1>8, TrueRowsFrame DEF SubmitEnd, database, history, Held
<1>9. ASSUME NEW w \in Workers, HandlerStep(w)
      PROVE  TrueRows'
  <2> DEFINE j == wjob[w]
  <2>1. PICK s \in Terminal, next \in {"finishing", "failing", "timing", "dying"} :
          Settle(w, s, next)
    BY <1>9 DEF HandlerStep, HandlerReturns, HandlerRaises, HandlerTimesOut, HandlerAborts, Terminal
  <2>2. wpc[w] = "running"
    BY <1>9 DEF HandlerStep, HandlerReturns, HandlerRaises, HandlerTimesOut, HandlerAborts
  <2>3. /\ j \in Jobs /\ j \in jobs
        /\ \A u \in Workers : wjob[u] = j => u = w
    BY <2>2, HeldJob DEF Busy
  <2>4. /\ status' = [status EXCEPT ![j] = s]
        /\ wpc' = [wpc EXCEPT ![w] = next]
        /\ Write(Updated({j}, s))
        /\ UNCHANGED <<phase, jobs, wjob, submitted>>
    BY <2>1 DEF Settle
  <2>5. s \in JobStatus /\ {j} \in SUBSET Jobs
    BY <2>3 DEF JobStatus
  <2>6. row' = Updated({j}, s) /\ disk' = disk
    BY <1>2, <2>4, <2>5, WriteEffect
  <2>7. /\ row'[j] \in {"absent", s}
        /\ \A k \in Jobs \ {j} : row'[k] = row[k]
    BY <1>2, <2>5, <2>6, SMTT(30)
  <2> HIDE DEF j
  <2>8. SUFFICES ASSUME phase = "up"
                 PROVE  LiveRows' /\ EndedRows' /\ DroppedRows'
    BY <2>4 DEF TrueRows
  <2>9. LiveRows'
    BY <2>3, <2>4, <2>7, <2>8 DEF TrueRows, LiveRows, Held, Terminal
  <2>10. EndedRows'
    <3> SUFFICES ASSUME NEW u \in Workers
                 PROVE  /\ wpc'[u] \in Ending => row'[wjob[u]] \in {"absent", status'[wjob[u]]}
                        /\ wpc'[u] = "checking" => disk[wjob[u]] = row'[wjob[u]]
      BY <2>4, <2>6 DEF EndedRows
    <3>1. CASE u = w
      BY <2>3, <2>4, <2>7, <3>1 DEF TypeOK, j
    <3>2. CASE u # w
      <4>1. wpc'[u] = wpc[u]
        BY <2>4, <3>2 DEF TypeOK
      <4>2. wpc[u] \in Ending => wjob[u] \in Jobs \ {j}
        BY <2>3, <3>2, HeldJob DEF Ending, Busy
      <4>3. wpc[u] \in Ending => row'[wjob[u]] = row[wjob[u]] /\ status'[wjob[u]] = status[wjob[u]]
        BY <2>4, <2>7, <4>2 DEF TypeOK
      <4> QED
        BY <2>8, <4>1, <4>3 DEF TrueRows, EndedRows, Ending
    <3> QED
      BY <3>1, <3>2
  <2>11. DroppedRows'
    BY <2>3, <2>4, <2>6, <2>7, <2>8 DEF TrueRows, DroppedRows, TypeOK
  <2> QED
    BY <2>9, <2>10, <2>11
<1>10. ASSUME NEW w \in Workers, Take(w)
       PROVE  TrueRows'
  <2>1. PICK j \in heap : /\ status' = [status EXCEPT ![j] = "running"]
                          /\ wjob' = [wjob EXCEPT ![w] = j]
                          /\ Write(Updated({j}, "running"))
    BY <1>10 DEF Take, HeapTop
  <2>2. /\ wpc[w] = "idle" /\ wpc' = [wpc EXCEPT ![w] = "starting"]
        /\ UNCHANGED <<phase, jobs, submitted>>
    BY <1>10 DEF Take, history
  <2>3. /\ j \in Jobs /\ j \in jobs /\ \A u \in Workers : wjob[u] # j
    BY <2>1 DEF TypeOK, Placement, HeapPlacement, Held
  <2>4. row' = Updated({j}, "running") /\ disk' = disk
    BY <1>2, <1>3, <2>1, <2>3, WriteEffect
  <2>5. \A k \in Jobs \ {j} : row'[k] = row[k]
    BY <1>2, <1>3, <2>3, <2>4
  <2>6. SUFFICES ASSUME phase = "up"
                 PROVE  LiveRows' /\ EndedRows' /\ DroppedRows'
    BY <2>2 DEF TrueRows
  <2>7. LiveRows'
    BY <2>1, <2>2, <2>3, <2>5, <2>6, JobsAssumption DEF TrueRows, LiveRows, Held, TypeOK, Busy
  <2>8. EndedRows'
    <3> SUFFICES ASSUME NEW u \in Workers, wpc'[u] \in Ending
                 PROVE  /\ row'[wjob'[u]] \in {"absent", status'[wjob'[u]]}
                        /\ wpc'[u] = "checking" => disk[wjob'[u]] = row'[wjob'[u]]
      BY <2>4 DEF EndedRows, Ending
    <3>1. u # w /\ wpc[u] \in Ending /\ wpc'[u] = wpc[u] /\ wjob'[u] = wjob[u]
      BY <2>1, <2>2 DEF TypeOK, Ending
    <3>2. wjob[u] \in Jobs \ {j}
      BY <2>3, <3>1, HeldJob DEF Ending, Busy
    <3>3. row'[wjob[u]] = row[wjob[u]] /\ status'[wjob[u]] = status[wjob[u]]
      BY <2>1, <2>5, <3>2 DEF TypeOK
    <3> QED
      BY <2>6, <3>1, <3>3 DEF TrueRows, EndedRows
  <2>9. DroppedRows'
    BY <2>1, <2>2, <2>3, <2>4, <2>5, <2>6 DEF TrueRows, DroppedRows, TypeOK
  <2> QED
    BY <2>7, <2>8, <2>9
<1>11. ASSUME NEW w \in Workers, TakeCancelled(w) \/ StartHandler(w)
       PROVE  TrueRows'
  <2>1. /\ UNCHANGED <<phase, row, disk, status, jobs, wjob, submitted>>
        /\ \A u \in Workers : wpc'[u] = wpc[u] \/ wpc'[u] \in {"idle", "dead", "running"}
    BY <1>11 DEF TakeCancelled, StartHandler, NextRound, database, TypeOK
  <2> QED
    BY <2>1, TrueRowsFrame DEF Held, Ending
<1>12. ASSUME NEW w \in Workers, AnnounceCompletion(w)
       PROVE  TrueRows'
  <2>1. /\ wpc[w] = "finishing" /\ wpc' = [wpc EXCEPT ![w] = "checking"]
        /\ disk[wjob[w]] = row[wjob[w]]
        /\ UNCHANGED <<phase, status, jobs, wjob, row, disk, submitted>>
    BY <1>12 DEF AnnounceCompletion, Announce, Committed, database
  <2>2. SUFFICES ASSUME phase = "up"
                 PROVE  LiveRows' /\ EndedRows' /\ DroppedRows'
    BY <2>1 DEF TrueRows
  <2>3. LiveRows' /\ DroppedRows'
    BY <2>1, <2>2 DEF TrueRows, LiveRows, DroppedRows, Held
  <2>4. EndedRows'
    BY <2>1, <2>2 DEF TrueRows, EndedRows, Ending, TypeOK
  <2> QED
    BY <2>3, <2>4
<1>13. ASSUME NEW w \in Workers, NEW ready \in SUBSET jobs,
              \A k \in ready : status[k] = "waiting",
              wpc[w] \in Ending, disk[wjob[w]] = row[wjob[w]],
              status' = [k \in Jobs |-> IF k \in ready THEN "pending" ELSE status[k]],
              jobs' = jobs \ {wjob[w]},
              wjob' = [wjob EXCEPT ![w] = NoJob],
              wpc'[w] \in {"idle", "dead"},
              \A u \in Workers \ {w} : wpc'[u] = wpc[u],
              UNCHANGED <<phase, row, disk, submitted>>
       PROVE  TrueRows'
  <2> DEFINE j == wjob[w]
  <2>1. SUFFICES ASSUME phase = "up"
                 PROVE  LiveRows' /\ EndedRows' /\ DroppedRows'
    BY <1>13 DEF TrueRows
  <2>2. /\ j \in Jobs /\ status[j] \in Terminal
        /\ row[j] \in {"absent", status[j]}
        /\ j \notin ready
    BY <1>13, <2>1, HeldJob DEF TrueRows, EndedRows, Endings, WorkStatus, Ending, Busy, Terminal
  <2>3. row[j] # "running"
    BY <2>2 DEF Terminal
  <2>4. LiveRows'
    BY <1>13, <2>1, <2>3 DEF TrueRows, LiveRows, Held, TypeOK
  <2>5. EndedRows'
    <3> SUFFICES ASSUME NEW u \in Workers, wpc'[u] \in Ending
                 PROVE  /\ row'[wjob'[u]] \in {"absent", status'[wjob'[u]]}
                        /\ wpc'[u] = "checking" => disk'[wjob'[u]] = row'[wjob'[u]]
      BY DEF EndedRows, Ending
    <3>1. u # w /\ wpc[u] = wpc'[u] /\ wjob'[u] = wjob[u]
      BY <1>13 DEF TypeOK, Ending
    <3>2. wjob[u] \in Jobs /\ status[wjob[u]] \in Terminal
      BY <3>1, HeldJob DEF Endings, WorkStatus, Ending, Busy
    <3>3. status'[wjob[u]] = status[wjob[u]]
      BY <1>13, <3>2 DEF Terminal
    <3> QED
      BY <1>13, <2>1, <3>1, <3>3 DEF TrueRows, EndedRows
  <2>6. DroppedRows'
    <3> SUFFICES ASSUME NEW k \in submitted, k \notin jobs', k \notin Templates,
                        status'[k] \in Terminal, row[k] # "absent"
                 PROVE  row[k] = status'[k] /\ disk[k] = status'[k]
      BY <1>13 DEF DroppedRows
    <3>1. k \in Jobs /\ status'[k] = status[k]
      BY <1>13, <2>2 DEF TypeOK
    <3>2. CASE k = j
      BY <1>13, <2>2, <3>1, <3>2
    <3>3. CASE k # j
      BY <1>13, <2>1, <3>1, <3>3 DEF TrueRows, DroppedRows
    <3> QED
      BY <3>2, <3>3
  <2> QED
    BY <2>4, <2>5, <2>6
<1>14. ASSUME NEW w \in Workers, AnnounceFailure(w) \/ AnnounceAbort(w)
       PROVE  TrueRows'
  <2>1. /\ wpc[w] \in Ending /\ disk[wjob[w]] = row[wjob[w]]
        /\ wpc'[w] \in {"idle", "dead"}
        /\ \A u \in Workers \ {w} : wpc'[u] = wpc[u]
        /\ jobs' = jobs \ {wjob[w]}
        /\ wjob' = [wjob EXCEPT ![w] = NoJob]
        /\ UNCHANGED <<phase, status, row, disk, submitted>>
    BY <1>14
    DEF AnnounceFailure, AnnounceAbort, Announce, Release, NextRound, Committed, Ending,
        database, TypeOK
  <2> DEFINE ready == {}
  <2>2. /\ ready \in SUBSET jobs
        /\ \A k \in ready : status[k] = "waiting"
        /\ status' = [k \in Jobs |-> IF k \in ready THEN "pending" ELSE status[k]]
    BY <2>1 DEF TypeOK
  <2> HIDE DEF ready
  <2> QED
    BY <1>13, <2>1, <2>2
<1>15. ASSUME NEW w \in Workers, CheckWaitingJobs(w)
       PROVE  TrueRows'
  <2>1. PICK ready \in SUBSET jobs :
          /\ \A k \in ready : status[k] = "waiting"
          /\ status' = [k \in Jobs |-> IF k \in ready THEN "pending" ELSE status[k]]
    BY <1>15 DEF CheckWaitingJobs, Promotable
  <2>2. /\ wpc[w] = "checking" /\ wpc[w] \in Ending
        /\ wpc'[w] \in {"idle", "dead"}
        /\ \A u \in Workers \ {w} : wpc'[u] = wpc[u]
        /\ jobs' = jobs \ {wjob[w]}
        /\ wjob' = [wjob EXCEPT ![w] = NoJob]
        /\ UNCHANGED <<phase, row, disk, submitted>>
    BY <1>15 DEF CheckWaitingJobs, Release, NextRound, Ending, database, history, TypeOK
  <2>3. CASE phase = "up"
    <3>1. disk[wjob[w]] = row[wjob[w]]
      BY <2>2, <2>3 DEF TrueRows, EndedRows
    <3> QED
      BY <1>13, <2>1, <2>2, <3>1
  <2>4. CASE phase # "up"
    BY <2>2, <2>4 DEF TrueRows
  <2> QED
    BY <2>3, <2>4
<1>16. CASE Commit
  BY <1>16 DEF Commit, memory, history, TrueRows, LiveRows, EndedRows, DroppedRows, Held
<1>17. CASE Start
  <2>1. LiveRows'
    BY <1>17, StartEffect DEF LiveRows, TypeOK
  <2>2. EndedRows'
    BY <1>17 DEF Start, Recover, EndedRows, Ending
  <2>3. DroppedRows'
    BY <1>17 DEF Start, Recover, DroppedRows, Queued, Terminal, TypeOK, history
  <2> QED
    BY <2>1, <2>2, <2>3 DEF TrueRows
<1>18. CASE Stop \/ Exit \/ \E w \in Workers : CancelWorker(w)
  BY <1>18
  DEF Stop, Exit, CancelWorker, CancelIdleWorker, CancelStartingWorker, CancelBusyWorker,
      CancelEndingWorker, Settle, TrueRows
<1>19. CASE UNCHANGED vars
  BY <1>19 DEF vars, memory, database, history, TrueRows, LiveRows, EndedRows, DroppedRows, Held
<1> QED
  BY <1>1, <1>4, <1>5, <1>6, <1>7, <1>8, <1>9, <1>10, <1>11, <1>12, <1>14, <1>15,
     <1>16, <1>17, <1>18, <1>19
  DEF Next, Request, Submit, Retry, WorkerStep

\* While the queue is up and no write of the status column fails, no row says
\* RUNNING of a job without a worker, and the committed row of a job the
\* registry has dropped holds its final status.
THEOREM RowsTellTruthCorrect ==
  ASSUME MaxFaults = 0
  PROVE  Spec => []RowsTellTruth
<1>1. TrueRows => RowsTellTruth
  BY DEF TrueRows, LiveRows, DroppedRows, RowsTellTruth
<1>2. TypeOK /\ Placement /\ Committedness /\ Endings /\ TrueRows /\ [Next]_vars => TrueRows'
  BY TrueRowsStep
<1>3. TypeOK /\ Placement /\ Committedness /\ [Next]_vars => Committedness'
  BY CommittednessStep
<1> QED
  BY <1>1, <1>2, <1>3, TypeInit, TypeStep, PlacementInit, PlacementStep, CommittednessInit,
     EndingsInit, EndingsStep, TrueRowsInit, PTL
  DEF Spec
=============================================================================
