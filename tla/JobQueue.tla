------------------------------ MODULE JobQueue ------------------------------
(***************************************************************************)
(* The background job queue of Fuzzbin (fuzzbin/tasks/queue.py): a         *)
(* registry of in-memory jobs, a priority heap, a pool of workers, a       *)
(* cron-like scheduler and the rows of the jobs table.                     *)
(*                                                                         *)
(* The program is one asyncio event loop.  An action is the code that runs *)
(* between two awaits that may really suspend; every await is a place      *)
(* where the actions of the other coroutines interleave.                   *)
(*                                                                         *)
(* All coroutines share ONE aiosqlite connection, whose statements run in  *)
(* the order they are issued.  `row` is what that connection sees, `disk`  *)
(* what is committed.  A commit makes everything issued so far durable, a  *)
(* failed write rolls everything uncommitted back, a crash loses it.       *)
(***************************************************************************)
EXTENDS Naturals, FiniteSets

CONSTANTS
  Jobs,        \* identifiers a job object may get
  Templates,   \* the jobs that carry a cron schedule
  Execs,       \* the execution clones the scheduler makes of templates
  Workers,     \* the worker tasks, max_workers of them
  Videos,      \* the videos jobs are grouped by
  NoJob,       \* what a worker holds between two jobs
  NoVideo,     \* the group of a maintenance job
  Priority,    \* [Jobs -> Nat], JobPriority of each job
  CreatedAt,   \* [Jobs -> Nat], created_at of each job
  DependsOn,   \* [Jobs -> SUBSET Jobs], depends_on of each job
  VideoOf,     \* [Jobs -> Videos \cup {NoVideo}], video_id of each row
  CloneOf,     \* [Execs -> Templates], the template a clone copies
  Timed,       \* the jobs with timeout_seconds
  Aborting,    \* the jobs whose handler raises CancelledError when cancelled
  MaxFaults    \* bound on the number of failing database writes

ASSUME JobsAssumption ==
  /\ Templates \subseteq Jobs
  /\ Execs \subseteq Jobs
  /\ Templates \cap Execs = {}
  /\ NoJob \notin Jobs
  /\ NoVideo \notin Videos
  /\ Timed \subseteq Jobs
  /\ Aborting \subseteq Jobs
  /\ MaxFaults \in Nat

ASSUME ParametersAssumption ==
  /\ Priority \in [Jobs -> Nat]
  /\ CreatedAt \in [Jobs -> Nat]
  /\ DependsOn \in [Jobs -> SUBSET Jobs]
  /\ \A j \in Templates \cup Execs : DependsOn[j] = {}
  /\ VideoOf \in [Jobs -> Videos \cup {NoVideo}]
  /\ CloneOf \in [Execs -> Templates]

Terminal == {"completed", "failed", "cancelled", "timeout"}
Queued == {"pending", "waiting"}
JobStatus == Queued \cup {"running"} \cup Terminal

VARIABLES
  phase,      \* "down", "up", or "stopping" once stop() cleared self.running
  status,     \* status of each in-memory Job object, "none" without one
  jobs,       \* the keys of self.jobs
  templates,  \* the keys of self.scheduled_templates
  heap,       \* the jobs on the priority heap
  submit,     \* where submit() of a job is; a job not "idle" holds self._lock
  wpc,        \* what each worker awaits
  wjob,       \* the job each worker holds
  row,        \* the status column as the shared connection sees it
  disk,       \* the committed status column
  faults,     \* how many database writes have failed
  submitted,  \* history: the jobs ever handed to submit() or cloned
  starts,     \* history: how often each job's handler was started
  succeeded,  \* history: the jobs that reached COMPLETED
  announced   \* history: terminal events broadcast by this process

memory == <<jobs, templates, heap, submit, wpc, wjob>>
database == <<row, disk, faults>>
history == <<submitted, starts, succeeded, announced>>
vars == <<phase, status, memory, database, history>>

(***************************************************************************)
(* The database.                                                           *)
(***************************************************************************)

\* A write that should leave the status column as r.  It fails when the
\* connection raises; the error path rolls the shared connection back and
\* the queue swallows the error.
Write(r) ==
  /\ UNCHANGED disk
  /\ \/ row' = r /\ UNCHANGED faults
     \/ /\ faults < MaxFaults
        /\ faults' = faults + 1
        /\ row' = disk

\* UPDATE jobs SET status = s WHERE id IN js: rows that do not exist stay so.
Updated(js, s) == [j \in Jobs |-> IF j \in js /\ row[j] # "absent" THEN s ELSE row[j]]

\* Mutant: the write is not awaited.
NotAwaited(j) == TRUE

\* The awaited write of job j has returned: it is committed.
Committed(j) == disk[j] = row[j]

Commit ==
  /\ phase # "down"
  /\ disk # row
  /\ disk' = row
  /\ UNCHANGED <<phase, status, memory, row, faults, history>>

(***************************************************************************)
(* submit() and retry_job().                                               *)
(***************************************************************************)

Fresh(j) == j \notin submitted

\* self._lock: the only await under it is the INSERT of submit().
Unlocked == \A j \in Jobs : submit[j] = "idle"

\* Mutant: a dependency that failed counts as met.
FinishedDependencies == {d \in jobs : status[d] \in Terminal}

\* The dependencies that _check_waiting_jobs and submit() count as met: the
\* registry still holds the job and it is COMPLETED.
MetDependencies == {d \in jobs : status[d] = "completed"}

\* submit() up to its INSERT: a job with an unmet dependency is parked as
\* WAITING, any other one will be queued once its row is inserted.
SubmitRegular(j) ==
  LET met == DependsOn[j] \subseteq (MetDependencies \ {j})
      initial == IF met THEN "pending" ELSE "waiting"
  IN /\ jobs' = jobs \cup {j}
     /\ status' = [status EXCEPT ![j] = initial]
     /\ submit' = [submit EXCEPT ![j] = IF met THEN "queueing" ELSE "parking"]
     /\ Write([row EXCEPT ![j] = initial])
     /\ UNCHANGED templates

\* submit() of a cron job: kept as a template, never queued itself.
SubmitTemplate(j) ==
  /\ templates' = templates \cup {j}
  /\ status' = [status EXCEPT ![j] = "waiting"]
  /\ submit' = [submit EXCEPT ![j] = "parking"]
  /\ Write([row EXCEPT ![j] = "waiting"])
  /\ UNCHANGED jobs

\* submit() does not ask whether the queue is running.
SubmitBegin(j) ==
  /\ phase # "down"
  /\ Unlocked
  /\ Fresh(j)
  /\ submitted' = submitted \cup {j}
  /\ IF j \in Templates THEN SubmitTemplate(j) ELSE SubmitRegular(j)
  /\ UNCHANGED <<phase, heap, wpc, wjob, starts, succeeded, announced>>

Submit(j) == j \notin Execs /\ SubmitBegin(j)

\* The INSERT has returned: put the job on the heap and release the lock.
SubmitEnd(j) ==
  /\ phase # "down"
  /\ submit[j] # "idle"
  /\ Committed(j)
  /\ submit' = [submit EXCEPT ![j] = "idle"]
  /\ heap' = IF submit[j] = "queueing" THEN heap \cup {j} ELSE heap
  /\ UNCHANGED <<phase, status, jobs, templates, wpc, wjob, database, history>>

\* What retry_job() and cancel_job() see of a job: the object in the
\* registry, else one rebuilt from the row.
Visible(j) == IF j \in jobs THEN status[j] ELSE row[j]

SameParameters(j, k) ==
  /\ Priority[j] = Priority[k]
  /\ DependsOn[j] = DependsOn[k]
  /\ VideoOf[j] = VideoOf[k]
  /\ (j \in Timed) = (k \in Timed)
  /\ (j \in Aborting) = (k \in Aborting)

\* retry_job(): a failed, timed-out or cancelled job is submitted anew as k.
Retry(j, k) ==
  /\ Visible(j) \in {"failed", "timeout", "cancelled"}
  /\ k \notin Templates \cup Execs
  /\ SameParameters(j, k)
  /\ SubmitBegin(k)

(***************************************************************************)
(* Cancelling.                                                             *)
(***************************************************************************)

\* Mutant: cancel_job() does not look at is_terminal.
AnyStatus == JobStatus

\* Job.is_terminal, negated.
Cancellable == JobStatus \ Terminal

\* cancel_job(): marks the live object, or only a copy of a row.
CancelJob(j) ==
  /\ phase = "up"
  /\ Visible(j) \in Cancellable
  /\ status' = IF j \in jobs THEN [status EXCEPT ![j] = "cancelled"] ELSE status
  /\ Write(Updated({j}, "cancelled"))
  /\ UNCHANGED <<phase, memory, history>>

\* cancel_jobs_by_video_id(): updates the rows and nothing else.
CancelVideoJobs(v) ==
  LET victims == {j \in Jobs : VideoOf[j] = v /\ row[j] \in Queued}
  IN /\ phase = "up"
     /\ victims # {}
     /\ Write(Updated(victims, "cancelled"))
     /\ UNCHANGED <<phase, status, memory, history>>

\* delete_old_jobs(): terminal rows past retention, so not one that a worker
\* is finishing right now.
PurgeHistory(old) ==
  /\ phase = "up"
  /\ old # {}
  /\ \A j \in old : row[j] \in Terminal /\ \A w \in Workers : wjob[w] # j
  /\ Write([j \in Jobs |-> IF j \in old THEN "absent" ELSE row[j]])
  /\ UNCHANGED <<phase, status, memory, history>>

(***************************************************************************)
(* _worker().  `wpc` names the await a worker is at:                       *)
(*   idle       queue.get                                                  *)
(*   starting   the RUNNING row and the job_started event, before the try  *)
(*   running    the handler                                                *)
(*   finishing  the row, the metrics and the event of a handler that       *)
(*              returned;  failing, timing, dying: the same after an       *)
(*              exception, a timeout, a CancelledError                     *)
(*   checking   the lock of _check_waiting_jobs                            *)
(*   dead       the task has ended                                         *)
(***************************************************************************)

\* Job.__lt__: higher priority first, then the older job.
Before(j, k) ==
  \/ Priority[j] > Priority[k]
  \/ Priority[j] = Priority[k] /\ CreatedAt[j] < CreatedAt[k]

HeapTop == {j \in heap : \A k \in heap : ~Before(k, j)}

\* Mutant: the job is read but not removed.
Peek(j) == UNCHANGED heap

Pop(j) == heap' = heap \ {j}

\* `while self.running`: where a worker goes after a job.
NextRound == IF phase = "up" THEN "idle" ELSE "dead"

\* A job cancelled while it was queued is dropped: its event is sent, and
\* the `continue` leaves it in the registry.
TakeCancelled(w) ==
  /\ phase # "down"
  /\ wpc[w] = "idle"
  /\ \E j \in HeapTop :
       /\ status[j] = "cancelled"
       /\ Pop(j)
       /\ announced' = [announced EXCEPT ![j] = @ \cup {"cancelled"}]
  /\ wpc' = [wpc EXCEPT ![w] = NextRound]
  /\ UNCHANGED <<phase, status, jobs, templates, submit, wjob, database,
                 submitted, starts, succeeded>>

Take(w) ==
  /\ phase # "down"
  /\ wpc[w] = "idle"
  /\ \E j \in HeapTop :
       /\ status[j] # "cancelled"
       /\ Pop(j)
       /\ status' = [status EXCEPT ![j] = "running"]
       /\ wjob' = [wjob EXCEPT ![w] = j]
       /\ Write(Updated({j}, "running"))
  /\ wpc' = [wpc EXCEPT ![w] = "starting"]
  /\ UNCHANGED <<phase, jobs, templates, submit, history>>

StartHandler(w) ==
  /\ phase # "down"
  /\ wpc[w] = "starting"
  /\ Committed(wjob[w])
  /\ wpc' = [wpc EXCEPT ![w] = "running"]
  /\ starts' = [starts EXCEPT ![wjob[w]] = @ + 1]
  /\ UNCHANGED <<phase, status, jobs, templates, heap, submit, wjob, database,
                 submitted, succeeded, announced>>

\* The job of worker w leaves the try body with status s; the worker goes on
\* at `next`, awaiting the write of that status.
Settle(w, s, next) ==
  LET j == wjob[w]
  IN /\ status' = [status EXCEPT ![j] = s]
     /\ succeeded' = IF s = "completed" THEN succeeded \cup {j} ELSE succeeded
     /\ wpc' = [wpc EXCEPT ![w] = next]
     /\ Write(Updated({j}, s))
     /\ UNCHANGED <<phase, jobs, templates, heap, submit, wjob,
                    submitted, starts, announced>>

\* The handler returns.  A handler that saw the cancellation leaves the job
\* CANCELLED; one that did not look again marks it completed all the same.
HandlerReturns(w) ==
  /\ phase # "down"
  /\ wpc[w] = "running"
  /\ \/ Settle(w, "completed", "finishing")
     \/ /\ status[wjob[w]] = "cancelled"
        /\ Settle(w, "cancelled", "finishing")

HandlerRaises(w) ==
  /\ phase # "down"
  /\ wpc[w] = "running"
  /\ Settle(w, "failed", "failing")

HandlerTimesOut(w) ==
  /\ phase # "down"
  /\ wpc[w] = "running"
  /\ wjob[w] \in Timed
  /\ Settle(w, "timeout", "timing")

\* A handler that answers the cancellation by raising CancelledError: the
\* worker re-raises it once the job is accounted for.
HandlerAborts(w) ==
  /\ phase # "down"
  /\ wpc[w] = "running"
  /\ wjob[w] \in Aborting
  /\ status[wjob[w]] = "cancelled"
  /\ Settle(w, "cancelled", "dying")

\* The terminal event a worker broadcasts from each of its awaits.
EventOf == [finishing |-> "completed", failing |-> "failed",
            timing |-> "timeout", dying |-> "cancelled"]

\* The `finally` of the worker: forget the job, go to pc.
Release(w, pc) ==
  /\ jobs' = jobs \ {wjob[w]}
  /\ wpc' = [wpc EXCEPT ![w] = pc]
  /\ wjob' = [wjob EXCEPT ![w] = NoJob]

Announce(w) ==
  /\ announced' = [announced EXCEPT ![wjob[w]] = @ \cup {EventOf[wpc[w]]}]
  /\ UNCHANGED <<phase, status, templates, heap, submit, database,
                 submitted, starts, succeeded>>

AnnounceCompletion(w) ==
  /\ phase # "down"
  /\ wpc[w] = "finishing"
  /\ Committed(wjob[w])
  /\ Announce(w)
  /\ wpc' = [wpc EXCEPT ![w] = "checking"]
  /\ UNCHANGED <<jobs, wjob>>

AnnounceFailure(w) ==
  /\ phase # "down"
  /\ wpc[w] \in {"failing", "timing"}
  /\ Committed(wjob[w])
  /\ Announce(w)
  /\ Release(w, NextRound)

AnnounceAbort(w) ==
  /\ phase # "down"
  /\ wpc[w] = "dying"
  /\ Committed(wjob[w])
  /\ Announce(w)
  /\ Release(w, "dead")

\* Mutant: scheduled jobs and jobs without dependencies are not skipped.
PromoteAnyWaiting(k) ==
  status[k] = "waiting" /\ DependsOn[k] \subseteq MetDependencies

Promotable(k) ==
  /\ status[k] = "waiting"
  /\ k \notin Templates
  /\ DependsOn[k] # {}
  /\ DependsOn[k] \subseteq MetDependencies

\* _check_waiting_jobs() under the lock, then the `finally`.
CheckWaitingJobs(w) ==
  LET ready == {k \in jobs : Promotable(k)}
  IN /\ phase # "down"
     /\ wpc[w] = "checking"
     /\ Unlocked
     /\ status' = [k \in Jobs |-> IF k \in ready THEN "pending" ELSE status[k]]
     /\ heap' = heap \cup ready
     /\ Release(w, NextRound)
     /\ UNCHANGED <<phase, templates, submit, database, history>>

(***************************************************************************)
(* _scheduler(): one pass over the templates.  A due template gets a clone *)
(* that is queued without a row; a template whose schedule has no further  *)
(* run is marked failed, in memory only.                                   *)
(***************************************************************************)
SchedulerPass(due, spent, clone) ==
  LET clones == {clone[t] : t \in due}
  IN /\ phase = "up"
     /\ Unlocked
     /\ due # {} /\ due \subseteq templates /\ spent \subseteq due
     /\ \A t \in due : /\ status[t] = "waiting"
                       /\ CloneOf[clone[t]] = t
                       /\ Fresh(clone[t])
     /\ submitted' = submitted \cup clones
     /\ jobs' = jobs \cup clones
     /\ heap' = heap \cup clones
     /\ status' = [j \in Jobs |-> IF j \in clones THEN "pending"
                                  ELSE IF j \in spent THEN "failed"
                                  ELSE status[j]]
     /\ UNCHANGED <<phase, templates, submit, wpc, wjob, database,
                    starts, succeeded, announced>>

(***************************************************************************)
(* start(), stop() and the end of the process.                             *)
(***************************************************************************)

\* Mutant: recovery queues an interrupted job again.
RequeueRunning(s) == IF s = "running" THEN "pending" ELSE s

\* Recovery fails what was running when the server went down.
Recovered(s) == IF s = "running" THEN "failed" ELSE s

\* _recover_jobs_from_database(): of the rows in `seen` those of running jobs are
\* updated, one commit each, and those of queued jobs make up the registry.
Recover(seen, loads) ==
  LET recovered == [j \in Jobs |-> IF j \in seen THEN Recovered(disk[j]) ELSE disk[j]]
      loaded == {j \in loads : recovered[j] \in Queued}
  IN /\ row' = recovered
     /\ disk' = recovered
     /\ jobs' = loaded
     /\ heap' = {j \in loaded : recovered[j] = "pending"}
     /\ status' = [j \in Jobs |-> IF j \in loaded THEN recovered[j] ELSE "none"]

\* start() of a new process: the recovery, then the workers.  An error of the
\* recovery is logged: what it has not reached stays in the table only.
Start ==
  /\ phase = "down"
  /\ phase' = "up"
  /\ \/ Recover(Jobs, Jobs) /\ UNCHANGED faults
     \/ /\ faults < MaxFaults
        /\ faults' = faults + 1
        /\ \E seen \in SUBSET Jobs : Recover(seen, {})
  /\ templates' = {}
  /\ submit' = [j \in Jobs |-> "idle"]
  /\ wpc' = [w \in Workers |-> "idle"]
  /\ wjob' = [w \in Workers |-> NoJob]
  /\ UNCHANGED history

\* stop() clears self.running and cancels the scheduler.
Stop ==
  /\ phase = "up"
  /\ phase' = "stopping"
  /\ UNCHANGED <<status, memory, database, history>>

\* stop() cancels a worker between two jobs.
CancelIdleWorker(w) ==
  /\ phase = "stopping"
  /\ wpc[w] = "idle"
  /\ wpc' = [wpc EXCEPT ![w] = "dead"]
  /\ UNCHANGED <<phase, status, jobs, templates, heap, submit, wjob, database, history>>

\* ... before the try: the job is left behind as RUNNING.
CancelStartingWorker(w) ==
  /\ phase = "stopping"
  /\ wpc[w] = "starting"
  /\ wpc' = [wpc EXCEPT ![w] = "dead"]
  /\ wjob' = [wjob EXCEPT ![w] = NoJob]
  /\ UNCHANGED <<phase, status, jobs, templates, heap, submit, database, history>>

\* ... inside the try: whatever the job had become, it is now CANCELLED.
CancelBusyWorker(w) ==
  /\ phase = "stopping"
  /\ wpc[w] \in {"running", "finishing", "timing", "checking"}
  /\ Settle(w, "cancelled", "dying")

\* ... inside an except clause: only the finally is left.
CancelEndingWorker(w) ==
  /\ phase = "stopping"
  /\ wpc[w] \in {"failing", "dying"}
  /\ Release(w, "dead")
  /\ UNCHANGED <<phase, status, templates, heap, submit, database, history>>

\* The process ends, by a crash at any time or after stop().
Exit ==
  /\ phase # "down"
  /\ phase' = "down"
  /\ row' = disk
  /\ status' = [j \in Jobs |-> "none"]
  /\ jobs' = {} /\ templates' = {} /\ heap' = {}
  /\ submit' = [j \in Jobs |-> "idle"]
  /\ wpc' = [w \in Workers |-> "dead"]
  /\ wjob' = [w \in Workers |-> NoJob]
  /\ announced' = [j \in Jobs |-> {}]
  /\ UNCHANGED <<disk, faults, submitted, starts, succeeded>>

-----------------------------------------------------------------------------

Init ==
  /\ phase = "down"
  /\ status = [j \in Jobs |-> "none"]
  /\ jobs = {} /\ templates = {} /\ heap = {}
  /\ submit = [j \in Jobs |-> "idle"]
  /\ wpc = [w \in Workers |-> "dead"]
  /\ wjob = [w \in Workers |-> NoJob]
  /\ row = [j \in Jobs |-> "absent"]
  /\ disk = [j \in Jobs |-> "absent"]
  /\ faults = 0
  /\ submitted = {}
  /\ starts = [j \in Jobs |-> 0]
  /\ succeeded = {}
  /\ announced = [j \in Jobs |-> {}]

\* What a handler may do next, and what a worker does by itself.
HandlerStep(w) ==
  \/ HandlerReturns(w)
  \/ HandlerRaises(w)
  \/ HandlerTimesOut(w)
  \/ HandlerAborts(w)

WorkerStep(w) ==
  \/ TakeCancelled(w)
  \/ Take(w)
  \/ StartHandler(w)
  \/ AnnounceCompletion(w)
  \/ AnnounceFailure(w)
  \/ AnnounceAbort(w)
  \/ CheckWaitingJobs(w)

CancelWorker(w) ==
  \/ CancelIdleWorker(w)
  \/ CancelStartingWorker(w)
  \/ CancelBusyWorker(w)
  \/ CancelEndingWorker(w)

\* What clients of the queue and the scheduler ask for.
Request ==
  \/ \E j \in Jobs : Submit(j)
  \/ \E j \in Jobs, k \in Jobs : Retry(j, k)
  \/ \E j \in Jobs : CancelJob(j)
  \/ \E v \in Videos : CancelVideoJobs(v)
  \/ \E old \in SUBSET Jobs : PurgeHistory(old)
  \/ \E due \in SUBSET Templates : \E spent \in SUBSET due :
       \E clone \in [due -> Execs] : SchedulerPass(due, spent, clone)

Next ==
  \/ Request
  \/ \E j \in Jobs : SubmitEnd(j)
  \/ \E w \in Workers : HandlerStep(w) \/ WorkerStep(w) \/ CancelWorker(w)
  \/ Commit
  \/ Start
  \/ Stop
  \/ Exit

Spec == Init /\ [][Next]_vars

\* The event loop runs every coroutine that can go on, the connection's
\* thread commits, and handlers are assumed to end.
Fairness ==
  /\ WF_vars(Commit)
  /\ WF_vars(Start)
  /\ \A j \in Jobs : WF_vars(SubmitEnd(j))
  /\ \A w \in Workers : WF_vars(HandlerStep(w)) /\ WF_vars(WorkerStep(w))

FairSpec == Spec /\ Fairness

-----------------------------------------------------------------------------
(***************************************************************************)
(* Properties.                                                             *)
(***************************************************************************)

Held(j) == \E w \in Workers : wjob[w] = j
Busy == {"starting", "running", "finishing", "failing", "timing", "checking", "dying"}

\* Every variable has its type.
TypeOK ==
  /\ phase \in {"down", "up", "stopping"}
  /\ status \in [Jobs -> JobStatus \cup {"none"}]
  /\ jobs \subseteq Jobs
  /\ templates \subseteq Templates
  /\ heap \subseteq Jobs
  /\ submit \in [Jobs -> {"idle", "queueing", "parking"}]
  /\ wpc \in [Workers -> {"idle", "dead"} \cup Busy]
  /\ wjob \in [Workers -> Jobs \cup {NoJob}]
  /\ \A w \in Workers : wjob[w] # NoJob <=> wpc[w] \in Busy
  /\ row \in [Jobs -> JobStatus \cup {"absent"}]
  /\ disk \in [Jobs -> JobStatus \cup {"absent"}]
  /\ faults \in 0..MaxFaults
  /\ submitted \subseteq Jobs
  /\ starts \in [Jobs -> Nat]
  /\ succeeded \subseteq Jobs
  /\ announced \in [Jobs -> SUBSET Terminal]

\* No job is lost between the registry, the heap and the workers: a PENDING
\* job of the registry is on the heap or about to be put there by submit(),
\* a RUNNING one is held by a worker (until stop() abandons it), and a job
\* is never on the heap, in the hands of a worker and inside submit() at
\* the same time, nor held by two workers.
NoJobLost ==
  /\ \A j \in jobs :
       /\ status[j] = "pending" => j \in heap \/ submit[j] = "queueing"
       /\ status[j] = "running" => Held(j) \/ phase = "stopping"
  /\ \A j \in heap : j \in jobs /\ ~Held(j) /\ submit[j] = "idle"
  /\ \A v, w \in Workers : wjob[v] = wjob[w] /\ wjob[v] # NoJob => v = w

\* What holds of the queue's own data, whatever writes fail.
Inv == TypeOK /\ NoJobLost

\* A job's handler is started at most once, over all crashes and restarts:
\* the RUNNING row is committed before the handler starts, so recovery
\* never queues a job that had begun.
AtMostOnce == \A j \in Jobs : starts[j] <= 1

\* A handler runs only when every dependency of its job has completed, also
\* when the job was parked, promoted or recovered from the database.
DependenciesFirst ==
  \A w \in Workers :
    wpc[w] \in Busy => DependsOn[wjob[w]] \subseteq succeeded

\* Rows tell what became of their jobs while the queue is up.  One that says
\* RUNNING has a worker: no crash or restart leaves a zombie behind.  "DB has
\* full record": once a worker has forgotten a job, the committed row holds
\* its final status (stop() does not wait for it).
RowsTellTruth ==
  phase = "up" =>
    /\ \A j \in Jobs : row[j] = "running" => Held(j)
    /\ \A j \in submitted \ (jobs \cup Templates) :
         status[j] \in Terminal /\ row[j] # "absent" => disk[j] = status[j]

\* While the queue is up, a job ends once: it is announced as finished at most
\* once, and a terminal status changes only under a handler that is still
\* running after a cancellation; a job cancelled in the queue stays
\* cancelled, a finished job stays finished.
EndsOnce ==
  /\ [](phase = "up" => \A j \in Jobs : Cardinality(announced[j]) <= 1)
  /\ [][\A j \in Jobs :
         /\ phase = "up" /\ phase' = "up"
         /\ status[j] \in Terminal
         /\ status'[j] # status[j]
         => /\ status[j] = "cancelled"
            /\ \E w \in Workers : wjob[w] = j /\ wpc[w] = "running"]_vars

\* Every queued job is finished, unless the process goes down: holds as long
\* as fewer jobs than workers answer a cancellation by raising.
QueuedJobsFinish ==
  \A j \in Jobs :
    (phase = "up" /\ j \in heap) ~> (phase # "up" \/ status[j] \in Terminal)

\* A template is only ever cloned: no template, not even one reloaded from
\* its row by recovery, reaches the heap or a worker.
TemplatesNeverRun ==
  \A j \in Templates : j \notin heap /\ ~Held(j)

\* The stage of a job in the abstract specification.
StageOf ==
  [j \in Jobs |->
     IF j \notin submitted THEN "none"
     ELSE IF starts[j] = 0 THEN "accepted"
     ELSE IF \E w \in Workers : wjob[w] = j /\ wpc[w] = "running" THEN "executing"
     ELSE "over"]

Lifecycle == INSTANCE JobLifecycle WITH stage <- StageOf, done <- succeeded

\* The queue implements the abstract lifecycle: at most one execution per
\* job, and none before its dependencies.
ImplementsLifecycle == Lifecycle!Spec

(***************************************************************************)
(* Statements of the documentation and of comments that the code does not  *)
(* keep.                                                                   *)
(***************************************************************************)

\* A job "will wait for" the jobs it depends on: once they all completed it
\* stops waiting.
DependentsStopWaiting ==
  \A j \in Jobs \ Templates :
    (phase = "up" /\ status[j] = "waiting" /\ DependsOn[j] \subseteq succeeded)
      ~> (phase # "up" \/ status[j] # "waiting")

=============================================================================
