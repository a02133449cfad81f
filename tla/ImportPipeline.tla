---------------------------- MODULE ImportPipeline ----------------------------
(***************************************************************************)
(* How a video gets into the library (fuzzbin/tasks/handlers.py).          *)
(*                                                                         *)
(* Two kinds of work do the same four things - download, post-process,     *)
(* organize, write the NFO: a chain of jobs, each of which submits the     *)
(* next and hands it the path of the temporary file, and the job "import   *)
(* pipeline", which does everything itself.  Any number of them may work   *)
(* on one video at a time; they meet in its row and in its file.           *)
(*                                                                         *)
(* The queue is reduced to what the handlers see of it: a pending job is   *)
(* taken by one of the workers, a cancellation changes only the status of  *)
(* the job, which the handler reads where its code does, a restart ends    *)
(* the jobs that were running, and a job that failed or was cancelled can  *)
(* be submitted again with the same parameters.                            *)
(*                                                                         *)
(* A file is named by the job that made its temporary directory or by the  *)
(* library path the organizer builds; its content is the video it shows.   *)
(***************************************************************************)
EXTENDS Naturals, Sequences, FiniteSets, Functions

CONSTANTS
  Videos,
  Names,       \* paths the organizer can build
  Titles,      \* [Videos -> SUBSET Names]: where the metadata may put a video
  FirstTitles, \* where they put it at first
  Offered,     \* the kinds of job users submit themselves
  Workers,     \* number of workers
  MaxRequests, \* bound on the jobs users submit
  MaxEvents,   \* bound on cancellations, edits of metadata, failures and restarts
  NoPlace

ASSUME ImportAssumption ==
  /\ Titles \in [Videos -> SUBSET Names]
  /\ FirstTitles \in [Videos -> Names] /\ \A v \in Videos : FirstTitles[v] \in Titles[v]
  /\ Offered \subseteq {"add", "download", "pipeline"}
  /\ Workers \in Nat \ {0}
  /\ MaxRequests \in Nat
  /\ MaxEvents \in Nat
  /\ Names \cap Nat = {}
  /\ NoPlace \notin Names \cup Nat

VARIABLES
  status,    \* the column status of each video's row, or "absent"
  path,      \* the column video_file_path
  title,     \* the path the row's metadata stand for
  edited,    \* history: the videos whose metadata were edited
  files,     \* [existing files -> Videos]
  torn,      \* library paths whose file is a copy that was cut short
  jobs,      \* every job ever submitted, in order
  requests,  \* number of jobs submitted by users so far
  changes,   \* number of cancellations and edits so far
  faults     \* number of failures and restarts so far

vars == <<status, path, title, edited, files, torn, jobs, requests, changes, faults>>
bounds == <<requests, changes, faults>>
row == <<status, path, title, edited>>
disk == <<files, torn>>

Kinds == {"add", "download", "post", "organize", "nfo", "pipeline"}
Steps == {"queued", "begin", "create", "created", "acquire", "fetch", "process", "probe",
          "organize", "move", "record", "export", "handoff", "ending", "done"}
JobStatus == {"pending", "running", "completed", "failed", "cancelled"}
VideoStatus == {"absent", "discovered", "pending_download", "downloading",
                "downloaded", "download_failed", "processing",
                "processing_failed", "organizing", "organize_failed",
                "organized", "complete"}

Places == Names \cup DOMAIN jobs \cup {NoPlace}
Job == [kind : Kinds, video : Videos, temp : Places, dest : Names \cup {NoPlace},
        step : Steps, status : JobStatus]

NewJob(kind, v, temp) ==
  [kind |-> kind, video |-> v, temp |-> temp, dest |-> NoPlace,
   step |-> "queued", status |-> "pending"]

Init ==
  /\ status \in [Videos -> {"absent", "discovered"}]
  /\ path = [v \in Videos |-> NoPlace]
  /\ title = FirstTitles
  /\ edited = {}
  /\ files = << >>
  /\ torn = {}
  /\ jobs = << >>
  /\ requests = 0
  /\ changes = 0
  /\ faults = 0

Exists(p) == p \in DOMAIN files
Without(p) == Restrict(files, DOMAIN files \ {p})
With(p, v) == [q \in DOMAIN files \cup {p} |-> IF q = p THEN v ELSE files[q]]

\* Mutant: the file is copied.
Copied(p, q) == With(q, files[p])

\* shutil.move() replaces a file that is already there.
Moved(p, q) == [x \in (DOMAIN files \ {p}) \cup {q} |->
                  IF x = q THEN files[p] ELSE files[x]]

Cancelled(j) == jobs[j].status = "cancelled"
AtStep(j, step) == j \in DOMAIN jobs /\ jobs[j].step = step
Handling(j) == jobs[j].step \notin {"queued", "done"}

Advance(j, step) == jobs' = [jobs EXCEPT ![j].step = step]
Finish(j, result) ==
  jobs' = [jobs EXCEPT ![j].step = "done", ![j].status = result,
                       ![j].dest = NoPlace]
SetStatus(j, s) == status' = [status EXCEPT ![jobs[j].video] = s]

----------------------------------------------------------------------------
(* What users and the process do.                                          *)

Asked ==
  /\ requests < MaxRequests
  /\ requests' = requests + 1
  /\ UNCHANGED <<changes, faults>>

Changed ==
  /\ changes + faults < MaxEvents
  /\ changes' = changes + 1
  /\ UNCHANGED <<requests, faults>>

Fault ==
  /\ changes + faults < MaxEvents
  /\ faults' = faults + 1
  /\ UNCHANGED <<requests, changes>>

Submit(kind, v, temp) ==
  /\ Asked
  /\ jobs' = Append(jobs, NewJob(kind, v, temp))
  /\ UNCHANGED <<row, disk>>

\* POST /add/import; POST /videos/{id}/download and /videos/bulk/download;
\* the batch imports, which create the row and submit a pipeline.
Request(kind, v) ==
  /\ kind \in Offered
  /\ kind = "add" \/ status[v] # "absent"
  /\ Submit(kind, v, NoPlace)

Parameter(j) == IF jobs[j].kind \in {"post", "organize"} THEN jobs[j].temp ELSE NoPlace

Retry(j) ==
  /\ jobs[j].status \in {"failed", "cancelled"}
  /\ Submit(jobs[j].kind, jobs[j].video, Parameter(j))

Cancel(j) ==
  /\ Changed
  /\ jobs[j].status \in {"pending", "running"}
  /\ jobs' = [jobs EXCEPT ![j].status = "cancelled"]
  /\ UNCHANGED <<row, disk>>

\* PATCH /videos/{id}: the next run of the organizer builds another path.
EditMetadata(v, n) ==
  /\ Changed
  /\ status[v] # "absent"
  /\ n \in Titles[v] \ {title[v]}
  /\ title' = [title EXCEPT ![v] = n]
  /\ edited' = edited \cup {v}
  /\ UNCHANGED <<status, path, disk, jobs>>

\* The copy that shutil.move() makes from /tmp to the library, over what is
\* there, has begun: it is cut short, or all there with the source still to go.
CopyLeft(j) ==
  /\ files' = With(jobs[j].dest, jobs[j].video)
  /\ torn' \in {torn \cup {jobs[j].dest}, torn \ {jobs[j].dest}}

\* The chain's temporary files are under /tmp, a pipeline's are in the library.
Copies(j) == AtStep(j, "move") /\ jobs[j].kind = "organize" /\ Exists(jobs[j].temp)

\* A stop cancels the handlers, a crash leaves their jobs running and the next
\* start marks them failed; neither runs the handlers' own error paths.  Only a
\* crash comes in the middle of a copy.
Restart(result) ==
  /\ Fault
  /\ jobs' = [j \in DOMAIN jobs |->
                IF ~Handling(j) THEN jobs[j]
                ELSE [jobs[j] EXCEPT !.step = "done", !.dest = NoPlace,
                        !.status = IF @ = "running" THEN result ELSE @]]
  /\ \/ UNCHANGED disk
     \/ result = "failed" /\ \E j \in DOMAIN jobs : Copies(j) /\ CopyLeft(j)
  /\ UNCHANGED row

----------------------------------------------------------------------------
(* What a worker does with one job.  The steps of a handler are separated  *)
(* by its awaits.                                                          *)

Take(j) ==
  /\ AtStep(j, "queued") /\ ~Cancelled(j)
  /\ Cardinality({i \in DOMAIN jobs : Handling(i)}) < Workers
  /\ jobs' = [jobs EXCEPT ![j].status = "running", ![j].step = "begin"]
  /\ UNCHANGED <<row, disk, bounds>>

Discard(j) ==
  /\ AtStep(j, "queued") /\ Cancelled(j)
  /\ Finish(j, "cancelled")
  /\ UNCHANGED <<row, disk, bounds>>

\* handle_add_single_import() looks the row up, unless it was asked not to or
\* the lookup fails ...
BeginAdd(j) ==
  /\ AtStep(j, "begin") /\ jobs[j].kind = "add"
  /\ \/ Cancelled(j) /\ Finish(j, "cancelled")
     \/ ~Cancelled(j) /\ status[jobs[j].video] # "absent" /\ Advance(j, "ending")
     \/ ~Cancelled(j) /\ Advance(j, "create")
  /\ UNCHANGED <<row, disk, bounds>>

\* ... and inserts one: its ids are unique.
Create(j) ==
  /\ AtStep(j, "create")
  /\ \/ /\ status[jobs[j].video] = "absent"
        /\ SetStatus(j, "discovered")
        /\ Advance(j, "created")
     \/ /\ status[jobs[j].video] # "absent"
        /\ Finish(j, "failed")
        /\ UNCHANGED status
  /\ UNCHANGED <<path, title, edited, disk, bounds>>

\* auto_download is a parameter of the request.
Created(j) ==
  /\ AtStep(j, "created")
  /\ \/ /\ Cancelled(j)
        /\ Finish(j, "cancelled")
        /\ UNCHANGED status
     \/ /\ ~Cancelled(j)
        /\ SetStatus(j, "pending_download")
        /\ Advance(j, "handoff")
     \/ /\ ~Cancelled(j)
        /\ SetStatus(j, "discovered")
        /\ Advance(j, "ending")
  /\ UNCHANGED <<path, title, edited, disk, bounds>>

\* handle_import_download() makes a directory under /tmp ...
BeginDownload(j) ==
  /\ AtStep(j, "begin") /\ jobs[j].kind = "download"
  /\ \/ /\ Cancelled(j)
        /\ Finish(j, "cancelled")
        /\ UNCHANGED status
     \/ /\ ~Cancelled(j)
        /\ SetStatus(j, "downloading")
        /\ jobs' = [jobs EXCEPT ![j].temp = j, ![j].step = "fetch"]
  /\ UNCHANGED <<path, title, edited, disk, bounds>>

\* ... _download_video_by_id() one in the library, unless the file the row
\* names is there: then the pipeline goes on with that file.
BeginPipeline(j) ==
  LET file == path[jobs[j].video]
  IN /\ AtStep(j, "begin") /\ jobs[j].kind = "pipeline"
     /\ \/ /\ Cancelled(j)
           /\ Finish(j, "cancelled")
           /\ UNCHANGED status
        \/ /\ ~Cancelled(j) /\ Exists(file)
           /\ jobs' = [jobs EXCEPT ![j].temp = file, ![j].step = "process"]
           /\ UNCHANGED status
        \/ /\ ~Cancelled(j) /\ ~Exists(file)
           /\ SetStatus(j, "downloading")
           /\ jobs' = [jobs EXCEPT ![j].temp = j, ![j].step = "acquire"]
     /\ UNCHANGED <<path, title, edited, disk, bounds>>

\* Only pipelines ask for the semaphore.
Acquire(j) ==
  /\ AtStep(j, "acquire")
  /\ \A i \in DOMAIN jobs : jobs[i].kind = "pipeline" => ~AtStep(i, "fetch")
  /\ IF Cancelled(j) THEN Finish(j, "cancelled") ELSE Advance(j, "fetch")
  /\ UNCHANGED <<row, disk, bounds>>

\* yt-dlp has written the file; a cancelled handler removes it again.
Fetched(j) ==
  /\ AtStep(j, "fetch")
  /\ \/ /\ Cancelled(j)
        /\ Finish(j, "cancelled")
        /\ UNCHANGED <<status, files>>
     \/ /\ ~Cancelled(j)
        /\ files' = With(jobs[j].temp, jobs[j].video)
        /\ SetStatus(j, "downloaded")
        /\ Advance(j, IF jobs[j].kind = "pipeline" THEN "process" ELSE "handoff")
  /\ UNCHANGED <<path, title, edited, torn, bounds>>

\* handle_video_post_process() and _post_process_video() up to ffprobe.
Process(j) ==
  /\ \/ AtStep(j, "begin") /\ jobs[j].kind = "post"
     \/ AtStep(j, "process")
  /\ \/ /\ Cancelled(j)
        /\ Finish(j, "cancelled")
        /\ UNCHANGED status
     \/ /\ ~Exists(jobs[j].temp)
        /\ Finish(j, "failed")
        /\ UNCHANGED status
     \/ /\ ~Cancelled(j) /\ Exists(jobs[j].temp)
        /\ SetStatus(j, "processing")
        /\ Advance(j, "probe")
  /\ UNCHANGED <<path, title, edited, disk, bounds>>

\* Failures of ffprobe and of the thumbnail are swallowed.
Probed(j) ==
  /\ AtStep(j, "probe")
  /\ IF Cancelled(j) THEN Finish(j, "cancelled")
     ELSE Advance(j, IF jobs[j].kind = "pipeline" THEN "organize" ELSE "handoff")
  /\ UNCHANGED <<row, disk, bounds>>

\* handle_import_organize() and _organize_video(): the target is built from
\* the row as it is now.
Organize(j) ==
  /\ \/ AtStep(j, "begin") /\ jobs[j].kind = "organize"
     \/ AtStep(j, "organize")
  /\ \/ /\ ~Exists(jobs[j].temp)
        /\ Finish(j, "failed")
        /\ UNCHANGED <<status, files>>
     \/ /\ Exists(jobs[j].temp) /\ Cancelled(j) /\ jobs[j].kind = "organize"
        /\ files' = Without(jobs[j].temp)
        /\ Finish(j, "cancelled")
        /\ UNCHANGED status
     \/ /\ Exists(jobs[j].temp) /\ (Cancelled(j) => jobs[j].kind = "pipeline")
        /\ SetStatus(j, "organizing")
        /\ jobs' = [jobs EXCEPT ![j].dest = title[jobs[j].video], ![j].step = "move"]
        /\ UNCHANGED files
  /\ UNCHANGED <<path, title, edited, torn, bounds>>

\* What a move takes along, and what it replaces.
Carried(j) == IF jobs[j].temp \in torn THEN {jobs[j].dest} ELSE {}

\* Mutant: a file that is no longer there is taken for one already moved.
MoveOnce(j) ==
  /\ AtStep(j, "move")
  /\ files' = IF Exists(jobs[j].temp) THEN Moved(jobs[j].temp, jobs[j].dest) ELSE files
  /\ torn' = (torn \ {jobs[j].temp, jobs[j].dest}) \cup Carried(j)
  /\ Advance(j, "record")
  /\ UNCHANGED <<row, bounds>>

Move(j) ==
  /\ AtStep(j, "move") /\ Exists(jobs[j].temp)
  /\ files' = Moved(jobs[j].temp, jobs[j].dest)
  /\ torn' = (torn \ {jobs[j].temp, jobs[j].dest}) \cup Carried(j)
  /\ Advance(j, "record")
  /\ UNCHANGED <<row, bounds>>

\* The row learns where the file went.
Record(j) ==
  /\ AtStep(j, "record")
  /\ path' = [path EXCEPT ![jobs[j].video] = jobs[j].dest]
  /\ SetStatus(j, "organized")
  /\ IF Cancelled(j) THEN Finish(j, "cancelled")
     ELSE Advance(j, IF jobs[j].kind = "pipeline" THEN "export" ELSE "handoff")
  /\ UNCHANGED <<title, edited, disk, bounds>>

BeginNfo(j) ==
  /\ AtStep(j, "begin") /\ jobs[j].kind = "nfo"
  /\ IF Cancelled(j) THEN Finish(j, "cancelled") ELSE Advance(j, "export")
  /\ UNCHANGED <<row, disk, bounds>>

\* _generate_nfo()
Export(j) ==
  /\ AtStep(j, "export")
  /\ SetStatus(j, "complete")
  /\ Advance(j, "ending")
  /\ UNCHANGED <<path, title, edited, disk, bounds>>

Successor(j) ==
  LET next(kind, temp) == NewJob(kind, jobs[j].video, temp)
  IN CASE jobs[j].kind = "add" -> next("download", NoPlace)
       [] jobs[j].kind = "download" -> next("post", jobs[j].temp)
       [] jobs[j].kind = "post" -> next("organize", jobs[j].temp)
       [] jobs[j].kind = "organize" -> next("nfo", NoPlace)

\* Mutant: the download is not queued.
HandOffNothing(j) ==
  /\ AtStep(j, "handoff")
  /\ Advance(j, "ending")
  /\ UNCHANGED <<row, disk, bounds>>

HandOff(j) ==
  /\ AtStep(j, "handoff")
  /\ jobs' = Append([jobs EXCEPT ![j].step = "ending"], Successor(j))
  /\ UNCHANGED <<row, disk, bounds>>

\* mark_completed(), whatever the status was, and the worker's write of it.
End(j) ==
  /\ AtStep(j, "ending")
  /\ Finish(j, "completed")
  /\ UNCHANGED <<row, disk, bounds>>

\* Mutant: the pipeline cleans up like the jobs of the chain.
AlwaysCleansUp(j) == jobs[j].temp # NoPlace

\* Who removes the temporary file and what the row says after an exception.
CleansUp(j) == jobs[j].kind \in {"download", "organize"} \/ AtStep(j, "fetch")
Blame(j) ==
  CASE jobs[j].kind = "download" \/ AtStep(j, "fetch") -> "download_failed"
    [] jobs[j].kind = "post" -> "processing_failed"
    [] jobs[j].kind = "organize" -> "organize_failed"
    [] OTHER -> status[jobs[j].video]

\* A move finds its file gone, or the progress hook of a pipeline's download
\* finds the job cancelled and makes the client raise.
Raises(j) ==
  \/ AtStep(j, "move") /\ ~Exists(jobs[j].temp)
  \/ AtStep(j, "fetch") /\ jobs[j].kind = "pipeline" /\ Cancelled(j)

\* Any other await may raise, too.  What precedes the handler's try block
\* leaves the row and the file as they are; the worker marks the job failed
\* even if it was cancelled.
Fail(j) ==
  /\ \/ Fault
     \/ Raises(j) /\ UNCHANGED bounds
  /\ Handling(j) /\ ~AtStep(j, "ending") /\ ~AtStep(j, "acquire")
  /\ Finish(j, "failed")
  /\ IF AtStep(j, "begin") THEN UNCHANGED <<status, disk>>
     ELSE /\ SetStatus(j, Blame(j))
          /\ files' = IF CleansUp(j) THEN Without(jobs[j].temp) ELSE files
  /\ UNCHANGED <<path, title, edited, torn>>

\* The copy to the library raises when it has begun, and the clean-up removes
\* the file it was made from.
FailCopy(j) ==
  /\ Fault
  /\ Copies(j)
  /\ Finish(j, "failed")
  /\ SetStatus(j, Blame(j))
  /\ files' = Moved(jobs[j].temp, jobs[j].dest)
  /\ torn' \in {torn \cup {jobs[j].dest}, torn \ {jobs[j].dest}}
  /\ UNCHANGED <<path, title, edited>>

Step(j) ==
  \/ Take(j) \/ Discard(j)
  \/ BeginAdd(j) \/ Create(j) \/ Created(j)
  \/ BeginDownload(j) \/ BeginPipeline(j) \/ Acquire(j) \/ Fetched(j)
  \/ Process(j) \/ Probed(j)
  \/ Organize(j) \/ Move(j) \/ Record(j)
  \/ BeginNfo(j) \/ Export(j)
  \/ HandOff(j) \/ End(j) \/ Fail(j) \/ FailCopy(j)

Progress == \E j \in DOMAIN jobs : Step(j)

Next ==
  \/ \E v \in Videos, kind \in Kinds : Request(kind, v)
  \/ \E v \in Videos, n \in Names : EditMetadata(v, n)
  \/ \E j \in DOMAIN jobs : Retry(j) \/ Cancel(j)
  \/ \E result \in {"failed", "cancelled"} : Restart(result)
  \/ Progress

Spec == Init /\ [][Next]_vars

\* Requests are finitely many and so are the steps they cause: it is enough
\* that the process runs and that every handler's awaits end.
FairSpec == Spec /\ WF_vars(Progress)

----------------------------------------------------------------------------
(* Properties.                                                             *)

TypeOK ==
  /\ status \in [Videos -> VideoStatus]
  /\ path \in [Videos -> Names \cup {NoPlace}]
  /\ \A v \in Videos : title[v] \in Titles[v]
  /\ edited \subseteq Videos
  /\ DOMAIN files \subseteq Places \ {NoPlace} /\ Range(files) \subseteq Videos
  /\ torn \subseteq Names
  /\ jobs \in Seq(Job)
  /\ requests \in 0 .. MaxRequests /\ changes \in 0 .. MaxEvents /\ faults \in 0 .. MaxEvents

Active(j) == jobs[j].step # "done"
Retryable(j) == jobs[j].status \in {"failed", "cancelled"}
Library(v) == {n \in Names : Exists(n) /\ files[n] = v}

\* The file at a row's path shows the row's video when the row says organized
\* or complete, or is what a copy that was cut short left of it, however many
\* jobs worked on the video and however they ended, as long as nobody edited
\* the metadata the path is built from.
OrganizedRowHasFile ==
  \A v \in Videos \ edited :
    status[v] \in {"organized", "complete"} => path[v] \in Library(v)

\* The copies of v in the library that are whole.
Whole(v) == Library(v) \ torn

\* Once a video is in the library some whole copy of it stays there: no error
\* path, clean-up, cancellation, restart or repeated run removes the last one,
\* even while it is moved to the path of its edited metadata.  What can is a move
\* onto it: a copy from /tmp that fails or is cut off, or the move of a file that
\* such a copy left.
LibraryKeepsVideos ==
  [][\A v \in Videos : Whole(v) # {} =>
       \/ Whole(v)' # {}
       \/ \E j \in DOMAIN jobs :
            /\ AtStep(j, "move") /\ Whole(v) = {jobs[j].dest}
            /\ \/ jobs[j].kind = "organize" /\ jobs'[j].step = "done"
               \/ jobs[j].temp \in torn]_vars

\* A post-process or organize job whose file is missing shares it with
\* another job that a retry made: no handler removes a file it has handed on.
FileWaitsForJob ==
  \A j \in DOMAIN jobs :
    (/\ jobs[j].kind \in {"post", "organize"}
     /\ jobs[j].step \in {"queued", "begin", "probe", "move"})
       => \/ Exists(jobs[j].temp)
          \/ \E i \in DOMAIN jobs \ {j} : jobs[i].kind = "organize" /\ jobs[i].temp = jobs[j].temp

\* A temporary file is in the hands of a job that is still at work on it or
\* whose retry will be: a chain that ends well leaves nothing behind.
TempHasHeir ==
  \A t \in DOMAIN files \ Names :
    \E j \in DOMAIN jobs : jobs[j].temp = t /\ (Active(j) \/ Retryable(j))

\* Every job that needs a file has it and every temporary file a job.
Inv == TypeOK /\ FileWaitsForJob /\ TempHasHeir

\* A video that waits for its download gets into the library or one of its
\* jobs says why not.
ImportSettles ==
  \A v \in Videos :
    status[v] = "pending_download"
      ~> \/ status[v] = "complete"
         \/ \E j \in DOMAIN jobs : jobs[j].video = v /\ Retryable(j)
=============================================================================
