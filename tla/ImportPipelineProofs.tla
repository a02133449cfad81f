-------------------------- MODULE ImportPipelineProofs --------------------------
(***************************************************************************)
(* Theorems about ImportPipeline, for every set of videos whose metadata   *)
(* build different paths, any number of jobs, workers, requests, changes   *)
(* and faults.                                                             *)
(*                                                                         *)
(* Fine says what a job is to its temporary file, to the jobs that made it *)
(* or that it made, and to the row and the library file of its video.      *)
(***************************************************************************)
EXTENDS ImportPipeline, TLAPS

\* Two videos are never put at the same path: when they are, one replaces the
\* other's file.
TitlesApart == \A v, w \in Videos : v # w => Titles[v] \cap Titles[w] = {}

JobType == [kind : Kinds, video : Videos, temp : Names \cup Nat \cup {NoPlace},
            dest : Names \cup {NoPlace}, step : Steps, status : JobStatus]

\* Which kinds of job are at which steps.
Course ==
  {"queued", "begin", "ending", "done"} \X Kinds
  \cup {<<"create", "add">>, <<"created", "add">>, <<"acquire", "pipeline">>, <<"process", "pipeline">>,
        <<"organize", "pipeline">>}
  \cup {"handoff"} \X {"add", "download", "post", "organize"}
  \cup {"fetch"} \X {"download", "pipeline"} \cup {"probe"} \X {"post", "pipeline"}
  \cup {"move", "record"} \X {"organize", "pipeline"} \cup {"export"} \X {"nfo", "pipeline"}

WellFormed(r) ==
  /\ r \in JobType /\ <<r.step, r.kind>> \in Course
  /\ CASE r.step = "queued" -> r.status \in {"pending", "cancelled"}
       [] r.step = "done" -> r.status \in {"completed", "failed", "cancelled"}
       [] OTHER -> r.status \in {"running", "cancelled"}
  /\ r.step \in {"move", "record"} => r.dest \in Titles[r.video]

\* A job and its temporary file: the chain works on that of a download which
\* has handed it on, a pipeline on its own or on the library's.
OwnsTemp(j, r) ==
  /\ r.kind \in {"add", "nfo"} => r.temp = NoPlace
  /\ r.kind = "download" => r.temp \in {NoPlace, j}
  /\ r.kind = "pipeline" => r.temp \in {NoPlace, j} \cup Titles[r.video]
  /\ r.kind \in {"download", "pipeline"} =>
       /\ r.step \in {"queued", "begin"} => r.temp = NoPlace
       /\ r.step \in {"acquire", "fetch", "handoff"} => r.temp = j
  /\ r.kind \in {"post", "organize"} =>
       /\ r.temp \in DOMAIN jobs /\ jobs[r.temp].kind = "download"
       /\ jobs[r.temp].video = r.video /\ jobs[r.temp].step \in {"ending", "done"}

Organizes(i, t) == jobs[i].kind = "organize" /\ jobs[i].temp = t
Over(r) == r.step = "ending" \/ (r.step = "done" /\ r.status = "completed")

\* The file is there until it is moved, and then there are jobs that took it.
Hands(j, r) ==
  /\ r.kind = "download" /\ r.step = "handoff" => j \in DOMAIN files
  /\ r.kind = "download" /\ Over(r) =>
       \E i \in DOMAIN jobs : jobs[i].kind = "post" /\ jobs[i].temp = j
  /\ r.kind = "post" =>
       r.temp \in DOMAIN files \/ \E i \in DOMAIN jobs : Organizes(i, r.temp)
  /\ r.kind = "post" /\ Over(r) => \E i \in DOMAIN jobs : Organizes(i, r.temp)
  /\ r.kind = "organize" /\ r.step \in {"queued", "begin", "move"} =>
       r.temp \in DOMAIN files \/ \E i \in DOMAIN jobs \ {j} : Organizes(i, r.temp)
  /\ r.kind \in {"organize", "pipeline"} /\ r.temp \notin Names
       /\ (Over(r) \/ r.step \in {"record", "export", "handoff"}) => r.temp \notin DOMAIN files

\* The row of a video names its file in the library.
Shelved(v) == path[v] = title[v] /\ title[v] \in DOMAIN files

\* What a job on a video whose metadata nobody edited knows of the library.
Shelves(r) ==
  r.video \notin edited =>
    /\ r.temp \in Names => r.temp = title[r.video]
    /\ r.step \in {"move", "record"} => r.dest = title[r.video]
    /\ r.step = "record" => title[r.video] \in DOMAIN files
    /\ \/ r.kind = "nfo"
       \/ r.kind = "pipeline" /\ r.step = "export"
       \/ r.kind = "organize" /\ r.step = "handoff"
       => Shelved(r.video)

Fine(j, r) == WellFormed(r) /\ OwnsTemp(j, r) /\ Hands(j, r) /\ Shelves(r)

Jobs == jobs \in Seq(JobType) /\ \A j \in DOMAIN jobs : Fine(j, jobs[j])

Types ==
  /\ status \in [Videos -> VideoStatus] /\ path \in [Videos -> Names \cup {NoPlace}]
  /\ title \in [Videos -> Names] /\ edited \subseteq Videos
  /\ files \in [DOMAIN files -> Videos]
  /\ requests \in 0 .. MaxRequests /\ changes \in 0 .. MaxEvents /\ faults \in 0 .. MaxEvents

\* A file is at a path of its video or in the directory of the job that made it.
Stored ==
  /\ \A n \in DOMAIN files : n \in Names => n \in Titles[files[n]]
  /\ \A t \in DOMAIN files : t \notin Names =>
       /\ t \in DOMAIN jobs /\ jobs[t].kind \in {"download", "pipeline"}
       /\ jobs[t].temp = t /\ files[t] = jobs[t].video

\* Rows stand for their files.
Rows ==
  \A v \in Videos :
    /\ title[v] \in Titles[v] /\ path[v] \in Titles[v] \cup {NoPlace}
    /\ v \notin edited =>
         /\ path[v] \in {title[v], NoPlace}
         /\ \A n \in DOMAIN files : n \in Names /\ files[n] = v => n = title[v]
         /\ status[v] \in {"organized", "complete"} => Shelved(v)

World == Types /\ Stored /\ Rows

IInv == World /\ Jobs

-----------------------------------------------------------------------------
(* What a step leaves alone *)

\* Job numbers, paths of the library and no place are different things.
LEMMA Apart ==
  /\ \A n \in Names : n \notin Nat /\ n # NoPlace
  /\ NoPlace \notin Nat
  /\ \A v \in Videos : Titles[v] \subseteq Names
  /\ MaxRequests \in Nat /\ MaxEvents \in Nat
BY ImportAssumption

\* Jobs are numbered.
LEMMA Numbered == Jobs => DOMAIN jobs = 1 .. Len(jobs) /\ Len(jobs) \in Nat /\ DOMAIN jobs \subseteq Nat
BY DEF Jobs

\* The fields of a job.
LEMMA FieldTypes ==
  ASSUME NEW r \in JobType
  PROVE  /\ r.kind \in Kinds /\ r.video \in Videos /\ r.temp \in Names \cup Nat \cup {NoPlace}
         /\ r.dest \in Names \cup {NoPlace} /\ r.step \in Steps /\ r.status \in JobStatus
BY DEF JobType

\* One job is changed.
LEMMA Replaced ==
  ASSUME Jobs, NEW k \in DOMAIN jobs, NEW r \in JobType, jobs' = [jobs EXCEPT ![k] = r]
  PROVE  /\ jobs' \in Seq(JobType) /\ DOMAIN jobs' = DOMAIN jobs /\ jobs'[k] = r
         /\ \A i \in DOMAIN jobs \ {k} : jobs'[i] = jobs[i]
BY DEF Jobs

\* What a step of job k leaves to the others: their kinds, videos and files,
\* but for the file that job k works on.
Carries(k) ==
  /\ DOMAIN jobs \subseteq DOMAIN jobs'
  /\ \A i \in DOMAIN jobs :
       /\ jobs'[i].kind = jobs[i].kind /\ jobs'[i].video = jobs[i].video
       /\ jobs[i].kind \in {"post", "organize"} => jobs'[i].temp = jobs[i].temp
       /\ jobs[i].kind = "download" /\ jobs[i].step \in {"ending", "done"} =>
            jobs'[i].step \in {"ending", "done"}
  /\ \A t \in DOMAIN files : t \notin Names /\ t \notin DOMAIN files' =>
       /\ k \in DOMAIN jobs
       /\ \/ t = k /\ jobs[k].kind = "pipeline"
          \/ t = k /\ jobs[k].kind = "download" /\ jobs[k].step \in {"fetch", "handoff"}
          \/ Organizes(k, t)
  /\ \A t \in DOMAIN files' : t \notin Names /\ t \notin DOMAIN files =>
       k \in DOMAIN jobs /\ t = k /\ jobs[k].step = "fetch"
  /\ edited \subseteq edited'
  /\ \A v \in Videos : v \notin edited' =>
       /\ title'[v] = title[v]
       /\ title[v] \in DOMAIN files => title[v] \in DOMAIN files'
       /\ Shelved(v) => Shelved(v)'

\* No temporary file comes or goes.
TempsStay == DOMAIN files \subseteq DOMAIN files' /\ DOMAIN files' \subseteq DOMAIN files \cup Names

\* What another job knows is still so.
LEMMA CarryFine ==
  ASSUME Jobs, NEW k, Carries(k), NEW j \in Nat, NEW r, Fine(j, r),
         (j # k /\ j \in DOMAIN jobs /\ r = jobs[j]) \/ TempsStay
  PROVE  Fine(j, r)'
<1>1. WellFormed(r) /\ r \in JobType
  BY DEF Fine, WellFormed
<1>2. WellFormed(r)'
  BY <1>1 DEF WellFormed
<1>a. OwnsTemp(j, r) /\ Hands(j, r) /\ Shelves(r)
  BY DEF Fine
<1>3. OwnsTemp(j, r)'
  <2>1. r.kind \in {"post", "organize"} =>
          /\ r.temp \in DOMAIN jobs' /\ jobs'[r.temp].kind = "download"
          /\ jobs'[r.temp].video = r.video /\ jobs'[r.temp].step \in {"ending", "done"}
    BY <1>a DEF OwnsTemp, Carries
  <2> QED
    BY <1>a, <2>1 DEF OwnsTemp
<1>4. \A i \in DOMAIN jobs : \A t : Organizes(i, t) => i \in DOMAIN jobs' /\ Organizes(i, t)'
  BY DEF Carries, Organizes
<1>5. \A i \in DOMAIN jobs : jobs[i].kind = "post" =>
        i \in DOMAIN jobs' /\ jobs'[i].kind = "post" /\ jobs'[i].temp = jobs[i].temp
  BY DEF Carries
<1>6. ASSUME NEW t \in DOMAIN jobs, t \in DOMAIN files, t \notin DOMAIN files',
             jobs[t].kind = "download", jobs[t].step \in {"ending", "done"}
      PROVE  k \in DOMAIN jobs /\ Organizes(k, t)
  <2>1. t \notin Names
    BY Apart, Numbered
  <2> QED
    BY <1>6, <2>1 DEF Carries
<1>7. r.kind = "download" /\ r.step = "handoff" => j \in DOMAIN files'
  <2> SUFFICES ASSUME r.kind = "download", r.step = "handoff", j \notin DOMAIN files'
               PROVE  FALSE
    OBVIOUS
  <2>1. j \in DOMAIN files /\ j \notin Names
    BY <1>a, Apart DEF Hands
  <2>2. j # k /\ j \in DOMAIN jobs /\ r = jobs[j]
    BY <2>1 DEF TempsStay
  <2>3. k \in DOMAIN jobs /\ Organizes(k, j)
    BY <2>1, <2>2 DEF Carries
  <2>4. OwnsTemp(k, jobs[k])
    BY <2>3 DEF Jobs, Fine
  <2> QED
    BY <2>2, <2>3, <2>4 DEF OwnsTemp, Organizes
<1>8. r.kind = "post" => r.temp \in DOMAIN files' \/ \E i \in DOMAIN jobs' : Organizes(i, r.temp)'
  <2> HAVE r.kind = "post"
  <2>1. CASE \E i \in DOMAIN jobs : Organizes(i, r.temp)
    BY <1>4, <2>1
  <2>2. CASE r.temp \in DOMAIN files
    BY <1>4, <1>6, <1>a, <2>2 DEF OwnsTemp
  <2> QED
    BY <1>a, <2>1, <2>2 DEF Hands
<1>9. r.kind = "organize" /\ r.step \in {"queued", "begin", "move"} =>
        r.temp \in DOMAIN files' \/ \E i \in DOMAIN jobs' \ {j} : Organizes(i, r.temp)'
  <2> HAVE r.kind = "organize" /\ r.step \in {"queued", "begin", "move"}
  <2>1. CASE \E i \in DOMAIN jobs \ {j} : Organizes(i, r.temp)
    BY <1>4, <2>1
  <2>2. CASE r.temp \in DOMAIN files
    <3>1. CASE TempsStay
      BY <2>2, <3>1 DEF TempsStay
    <3>2. CASE j # k
      BY <1>4, <1>6, <1>a, <2>2, <3>2 DEF OwnsTemp
    <3> QED
      BY <3>1, <3>2
  <2> QED
    BY <1>a, <2>1, <2>2 DEF Hands
<1>10. r.kind \in {"organize", "pipeline"} /\ r.temp \notin Names
         /\ (Over(r) \/ r.step \in {"record", "export", "handoff"}) => r.temp \notin DOMAIN files'
  <2> SUFFICES ASSUME r.kind \in {"organize", "pipeline"}, r.temp \notin Names,
                      Over(r) \/ r.step \in {"record", "export", "handoff"},
                      r.temp \in DOMAIN files'
               PROVE  FALSE
    OBVIOUS
  <2>1. r.temp \notin DOMAIN files
    BY <1>a DEF Hands
  <2>2. j # k
    BY <2>1 DEF TempsStay
  <2>3. k \in DOMAIN jobs /\ r.temp = k /\ jobs[k].step = "fetch"
    BY <2>1 DEF Carries
  <2>4. k # NoPlace /\ k \notin Names
    BY <2>3, Apart, Numbered
  <2> QED
    BY <1>1, <1>a, <2>2, <2>3, <2>4, Apart, FieldTypes DEF OwnsTemp
<1>11. Hands(j, r)'
  <2>1. r.kind = "download" /\ Over(r) =>
          \E i \in DOMAIN jobs' : jobs'[i].kind = "post" /\ jobs'[i].temp = j
    BY <1>5, <1>a DEF Hands
  <2>2. r.kind = "post" /\ Over(r) => \E i \in DOMAIN jobs' : Organizes(i, r.temp)'
    BY <1>4, <1>a DEF Hands
  <2> QED
    BY <1>7, <1>8, <1>9, <1>10, <2>1, <2>2 DEF Hands, Organizes, Over
<1>12. Shelves(r)'
  <2>1. r.video \in Videos
    BY <1>1, FieldTypes
  <2> QED
    BY <1>a, <2>1 DEF Shelves, Carries
<1> QED
  BY <1>2, <1>3, <1>11, <1>12 DEF Fine

\* Job k has taken a step, the others wait.
LEMMA OneStep ==
  ASSUME IInv, World', NEW k \in DOMAIN jobs, Carries(k), NEW r, r \in JobType,
         jobs' = [jobs EXCEPT ![k] = r], Fine(k, r)'
  PROVE  IInv'
<1>1. Jobs
  BY DEF IInv
<1>2. /\ jobs' \in Seq(JobType) /\ DOMAIN jobs' = DOMAIN jobs /\ jobs'[k] = r
      /\ \A i \in DOMAIN jobs \ {k} : jobs'[i] = jobs[i]
  BY <1>1, Replaced
<1>3. ASSUME NEW i \in DOMAIN jobs
      PROVE  Fine(i, jobs[i])'
  <2>1. PICK q : q = jobs'[i]
    OBVIOUS
  <2>2. Fine(i, q)'
    <3>1. CASE i = k
      BY <1>2, <2>1, <3>1
    <3>2. CASE i # k
      <4>1. q = jobs[i] /\ Fine(i, q) /\ i \in Nat
        BY <1>1, <1>2, <2>1, <3>2, Numbered DEF Jobs
      <4> QED
        BY <1>1, <3>2, <4>1, CarryFine
    <3> QED
      BY <3>1, <3>2
  <2> QED
    BY <2>1, <2>2
<1>4. Jobs'
  BY <1>2, <1>3 DEF Jobs
<1> QED
  BY <1>4 DEF IInv

-----------------------------------------------------------------------------
(* How jobs move *)

Counted ==
  requests' \in 0 .. MaxRequests /\ changes' \in 0 .. MaxEvents /\ faults' \in 0 .. MaxEvents

\* The bounds.
LEMMA BoundsCount ==
  ASSUME Types, UNCHANGED bounds \/ Asked \/ Changed \/ Fault
  PROVE  Counted
BY Apart DEF Types, Counted, bounds, Asked, Changed, Fault

\* What is known of a job at its step.
LEMMA AtItsStep ==
  ASSUME IInv, NEW k \in DOMAIN jobs
  PROVE  /\ Fine(k, jobs[k]) /\ jobs[k] \in JobType /\ jobs[k].video \in Videos /\ k \in Nat
         /\ AtStep(k, "create") \/ AtStep(k, "created") => jobs[k].kind = "add"
         /\ jobs[k].step \in {"acquire", "process", "organize"} => jobs[k].kind = "pipeline"
         /\ AtStep(k, "fetch") => jobs[k].kind \in {"download", "pipeline"}
         /\ AtStep(k, "probe") => jobs[k].kind \in {"post", "pipeline"}
         /\ jobs[k].step \in {"move", "record"} => jobs[k].kind \in {"organize", "pipeline"}
         /\ AtStep(k, "export") => jobs[k].kind \in {"nfo", "pipeline"}
         /\ AtStep(k, "handoff") => jobs[k].kind \in {"add", "download", "post", "organize"}
         /\ AtStep(k, "queued") => jobs[k].status \in {"pending", "cancelled"}
         /\ AtStep(k, "done") => jobs[k].status \in {"completed", "failed", "cancelled"}
         /\ jobs[k].step \notin {"queued", "done"} => jobs[k].status \in {"running", "cancelled"}
<1>1. Fine(k, jobs[k]) /\ k \in Nat
  BY Numbered DEF IInv, Jobs
<1>2. jobs[k] \in JobType /\ <<jobs[k].step, jobs[k].kind>> \in Course
  BY <1>1 DEF Fine, WellFormed
<1>3. /\ AtStep(k, "queued") => jobs[k].status \in {"pending", "cancelled"}
      /\ AtStep(k, "done") => jobs[k].status \in {"completed", "failed", "cancelled"}
      /\ jobs[k].step \notin {"queued", "done"} => jobs[k].status \in {"running", "cancelled"}
  BY <1>1 DEF Fine, WellFormed, AtStep
<1> QED
  BY <1>1, <1>2, <1>3, FieldTypes DEF Course, AtStep

\* A job that goes on from one step to the next, and may write a status of its
\* row: organized or complete only if the row names its file.
LEMMA StepKeeps ==
  ASSUME IInv, NEW k \in DOMAIN jobs, NEW r, Fine(k, r), jobs' = [jobs EXCEPT ![k] = r],
         r.kind = jobs[k].kind, r.video = jobs[k].video,
         r.kind \in {"post", "organize"} \/ k \in DOMAIN files => r.temp = jobs[k].temp,
         r.kind = "download" /\ jobs[k].step \in {"ending", "done"} => r.step \in {"ending", "done"},
         UNCHANGED <<path, title, edited, files>>, Counted, NEW s \in VideoStatus,
         status' = status \/ status' = [status EXCEPT ![r.video] = s],
         s \in {"organized", "complete"} /\ r.video \notin edited => Shelved(r.video)
  PROVE  IInv'
<1>1. World /\ Types /\ Stored /\ Rows /\ Jobs /\ r \in JobType
  BY DEF IInv, World, Fine, WellFormed
<1>2. /\ jobs' \in Seq(JobType) /\ DOMAIN jobs' = DOMAIN jobs /\ jobs'[k] = r
      /\ \A i \in DOMAIN jobs \ {k} : jobs'[i] = jobs[i]
  BY <1>1, Replaced
<1>3. Carries(k)
  <2>1. ASSUME NEW i \in DOMAIN jobs
        PROVE  /\ jobs'[i].kind = jobs[i].kind /\ jobs'[i].video = jobs[i].video
               /\ jobs[i].kind \in {"post", "organize"} => jobs'[i].temp = jobs[i].temp
               /\ jobs[i].kind = "download" /\ jobs[i].step \in {"ending", "done"} =>
                    jobs'[i].step \in {"ending", "done"}
    <3>1. CASE i = k
      BY <1>2, <3>1
    <3>2. CASE i # k
      BY <1>2, <3>2
    <3> QED
      BY <3>1, <3>2
  <2> QED
    BY <1>2, <2>1 DEF Carries, Shelved
<1>4. status' \in [Videos -> VideoStatus]
      /\ \A v \in Videos : status'[v] = status[v] \/ (v = r.video /\ status'[v] = s)
  BY <1>1, FieldTypes DEF Types
<1>5. World'
  <2>1. Types'
    BY <1>1, <1>4 DEF Types, Counted
  <2>2. Stored'
    <3>1. ASSUME NEW t \in DOMAIN files, t \notin Names
          PROVE  /\ t \in DOMAIN jobs' /\ jobs'[t].kind \in {"download", "pipeline"}
                 /\ jobs'[t].temp = t /\ files[t] = jobs'[t].video
      <4>1. /\ t \in DOMAIN jobs /\ jobs[t].kind \in {"download", "pipeline"}
            /\ jobs[t].temp = t /\ files[t] = jobs[t].video
        BY <1>1, <3>1 DEF Stored
      <4>2. CASE t = k
        BY <1>2, <4>1, <4>2
      <4>3. CASE t # k
        BY <1>2, <4>1, <4>3
      <4> QED
        BY <4>2, <4>3
    <3> QED
      BY <1>1, <3>1 DEF Stored
  <2>3. Rows'
    BY <1>1, <1>4 DEF Rows, Shelved
  <2> QED
    BY <2>1, <2>2, <2>3 DEF World
<1>6. Fine(k, r)'
  BY <1>1, <1>3, CarryFine, Numbered DEF TempsStay
<1> QED
  BY <1>1, <1>3, <1>5, <1>6, OneStep

\* A job that is done knows no more than it did.
LEMMA DoneFine ==
  ASSUME NEW k, NEW q \in JobType, Fine(k, q), NEW r \in JobType,
         r.kind = q.kind, r.video = q.video, r.temp = q.temp, r.step = "done",
         r.status \in {"completed", "failed", "cancelled"},
         r.status = "completed" => q.step = "ending"
  PROVE  Fine(k, r)
<1>1. WellFormed(r)
  BY FieldTypes DEF WellFormed, Course
<1>2. OwnsTemp(k, r)
  BY DEF Fine, OwnsTemp
<1>3. Over(r) => Over(q)
  BY DEF Over
<1>4. Hands(k, r)
  BY <1>3 DEF Fine, Hands
<1>5. Shelves(r)
  BY DEF Fine, Shelves
<1> QED
  BY <1>1, <1>2, <1>4, <1>5 DEF Fine

\* Finish.
LEMMA FinishFine ==
  ASSUME IInv, NEW k \in DOMAIN jobs, NEW x \in {"completed", "failed", "cancelled"},
         Finish(k, x), x = "completed" => jobs[k].step = "ending"
  PROVE  \E r : /\ Fine(k, r) /\ jobs' = [jobs EXCEPT ![k] = r]
                /\ r.kind = jobs[k].kind /\ r.video = jobs[k].video /\ r.temp = jobs[k].temp
                /\ r.step = "done" /\ r.status = x
<1>1. PICK q : q = jobs[k]
  OBVIOUS
<1>2. PICK r : r = [q EXCEPT !.step = "done", !.status = x, !.dest = NoPlace]
  OBVIOUS
<1>3. q \in JobType /\ Fine(k, q)
  BY <1>1, AtItsStep
<1>4. jobs' = [jobs EXCEPT ![k] = r]
  BY <1>1, <1>2 DEF Finish, IInv, Jobs
<1>5. /\ r \in JobType
      /\ r.kind = q.kind /\ r.video = q.video /\ r.temp = q.temp /\ r.step = "done" /\ r.status = x
  BY <1>2, <1>3 DEF JobType, Steps, JobStatus
<1>6. x = "completed" => q.step = "ending"
  BY <1>1
<1>7. Fine(k, r)
  BY <1>3, <1>5, <1>6, DoneFine
<1> QED
  BY <1>1, <1>4, <1>5, <1>7

\* A job ends, and its row keeps a status that names no file.
LEMMA FinishKeeps ==
  ASSUME IInv, NEW k \in DOMAIN jobs, NEW x \in {"completed", "failed", "cancelled"},
         Finish(k, x), x = "completed" => jobs[k].step = "ending",
         UNCHANGED <<path, title, edited, files>>, Counted,
         NEW s \in VideoStatus \ {"organized", "complete"},
         status' = status \/ SetStatus(k, s)
  PROVE  IInv'
<1>1. PICK r : /\ Fine(k, r) /\ jobs' = [jobs EXCEPT ![k] = r]
               /\ r.kind = jobs[k].kind /\ r.video = jobs[k].video /\ r.temp = jobs[k].temp
               /\ r.step = "done" /\ r.status = x
  BY FinishFine
<1>2. status' = status \/ status' = [status EXCEPT ![r.video] = s]
  BY <1>1 DEF SetStatus
<1> QED
  BY <1>1, <1>2, StepKeeps, ZenonT(40)

\* Advance, for a job that knows enough for the step.
LEMMA AdvanceFine ==
  ASSUME IInv, NEW k \in DOMAIN jobs,
         NEW s \in Steps \ {"queued", "begin", "acquire", "move", "record", "done"}, Advance(k, s),
         jobs[k].step \notin {"queued", "done"}, <<s, jobs[k].kind>> \in Course,
         jobs[k].kind # "download", jobs[k].kind \in {"post", "organize"} => s # "ending",
         s = "fetch" => jobs[k].temp = k,
         jobs[k].kind \in {"organize", "pipeline"} /\ s \in {"export", "handoff", "ending"}
           /\ jobs[k].temp \notin Names => jobs[k].temp \notin DOMAIN files,
         s \in {"export", "handoff"} /\ jobs[k].kind \in {"organize", "pipeline"}
           /\ jobs[k].video \notin edited => Shelved(jobs[k].video)
  PROVE  \E r : /\ Fine(k, r) /\ jobs' = [jobs EXCEPT ![k] = r]
                /\ r.kind = jobs[k].kind /\ r.video = jobs[k].video /\ r.temp = jobs[k].temp
                /\ r.step = s
<1> DEFINE q == jobs[k]
<1>1. PICK r : r = [q EXCEPT !.step = s]
  OBVIOUS
<1>2. q \in JobType /\ Fine(k, q) /\ q.status \in {"running", "cancelled"}
  BY AtItsStep
<1>3. jobs' = [jobs EXCEPT ![k] = r]
  BY <1>1 DEF Advance, IInv, Jobs
<1>a. /\ q.kind # "download" /\ <<s, q.kind>> \in Course
      /\ q.kind \in {"post", "organize"} => s # "ending"
      /\ s = "fetch" => q.temp = k
      /\ q.kind \in {"organize", "pipeline"} /\ s \in {"export", "handoff", "ending"}
           /\ q.temp \notin Names => q.temp \notin DOMAIN files
      /\ s \in {"export", "handoff"} /\ q.kind \in {"organize", "pipeline"}
           /\ q.video \notin edited => Shelved(q.video)
  OBVIOUS
<1> HIDE DEF q
<1>4. /\ r \in JobType
      /\ r.kind = q.kind /\ r.video = q.video /\ r.temp = q.temp /\ r.step = s
      /\ r.status = q.status /\ r.dest = q.dest
  BY <1>1, <1>2 DEF JobType
<1>5. WellFormed(r)
  BY <1>2, <1>4, <1>a DEF WellFormed
<1>b. s = "handoff" => q.kind # "pipeline"
  BY <1>a DEF Course
<1>6. OwnsTemp(k, r)
  BY <1>2, <1>4, <1>a, <1>b DEF Fine, OwnsTemp
<1>7. Over(r) => s = "ending"
  BY <1>4 DEF Over
<1>8. Hands(k, r)
  BY <1>2, <1>4, <1>7, <1>a DEF Fine, Hands
<1>9. Shelves(r)
  BY <1>2, <1>4, <1>a DEF Fine, Shelves
<1> QED
  BY <1>3, <1>4, <1>5, <1>6, <1>8, <1>9 DEF Fine, q

\* A job goes on to a step for which it knows enough.
LEMMA AdvanceKeeps ==
  ASSUME IInv, NEW k \in DOMAIN jobs,
         NEW s \in Steps \ {"queued", "begin", "acquire", "move", "record", "done"}, Advance(k, s),
         jobs[k].step \notin {"queued", "done"}, <<s, jobs[k].kind>> \in Course,
         jobs[k].kind # "download", jobs[k].kind \in {"post", "organize"} => s # "ending",
         s = "fetch" => jobs[k].temp = k,
         jobs[k].kind \in {"organize", "pipeline"} /\ s \in {"export", "handoff", "ending"}
           /\ jobs[k].temp \notin Names => jobs[k].temp \notin DOMAIN files,
         s \in {"export", "handoff"} /\ jobs[k].kind \in {"organize", "pipeline"}
           /\ jobs[k].video \notin edited => Shelved(jobs[k].video),
         UNCHANGED <<path, title, edited, files>>, Counted, NEW x \in VideoStatus,
         status' = status \/ SetStatus(k, x),
         x \in {"organized", "complete"} /\ jobs[k].video \notin edited => Shelved(jobs[k].video)
  PROVE  IInv'
<1>1. PICK r : /\ Fine(k, r) /\ jobs' = [jobs EXCEPT ![k] = r]
               /\ r.kind = jobs[k].kind /\ r.video = jobs[k].video /\ r.temp = jobs[k].temp
               /\ r.step = s
  BY AdvanceFine
<1>2. status' = status \/ status' = [status EXCEPT ![r.video] = x]
  BY <1>1 DEF SetStatus
<1> QED
  BY <1>1, <1>2, StepKeeps, ZenonT(40)

-----------------------------------------------------------------------------
(* Actions that leave the files alone *)

\* A job that nothing was downloaded for yet has no file of its own.
LEMMA NothingYet ==
  ASSUME IInv, NEW k \in DOMAIN jobs, AtStep(k, "begin"), jobs[k].kind \in {"download", "pipeline"}
  PROVE  k \notin DOMAIN files /\ jobs[k].temp = NoPlace
<1>1. jobs[k].temp = NoPlace
  BY AtItsStep DEF AtStep, Fine, OwnsTemp
<1>2. k \notin Names /\ k # NoPlace
  BY AtItsStep, Apart
<1> QED
  BY <1>1, <1>2 DEF IInv, World, Stored

\* A worker takes a job.
LEMMA TakeKeeps ==
  ASSUME IInv, NEW k \in DOMAIN jobs, Take(k)
  PROVE  IInv'
<1> DEFINE q == jobs[k]
<1>1. PICK r : r = [q EXCEPT !.status = "running", !.step = "begin"]
  OBVIOUS
<1>2. q \in JobType /\ Fine(k, q) /\ q.step = "queued"
  BY AtItsStep DEF Take, disk, AtStep
<1>3. jobs' = [jobs EXCEPT ![k] = r]
  BY <1>1 DEF Take, disk, IInv, Jobs
<1>4. UNCHANGED <<path, title, edited, files>> /\ status' = status /\ Counted
  BY BoundsCount DEF Take, disk, row, IInv, World
<1> HIDE DEF q
<1>5. /\ r \in JobType /\ r.kind = q.kind /\ r.video = q.video /\ r.temp = q.temp
      /\ r.step = "begin" /\ r.status = "running"
  BY <1>1, <1>2 DEF JobType, Steps, JobStatus
<1>6. WellFormed(r)
  BY <1>5, FieldTypes DEF WellFormed, Course
<1>7. OwnsTemp(k, r)
  BY <1>2, <1>5 DEF Fine, OwnsTemp
<1>8. ~Over(r)
  BY <1>5 DEF Over
<1>9. Hands(k, r)
  BY <1>2, <1>5, <1>8 DEF Fine, Hands
<1>10. Shelves(r)
  BY <1>2, <1>5 DEF Fine, Shelves
<1>11. "discovered" \in VideoStatus
  BY DEF VideoStatus
<1>12. Fine(k, r)
  BY <1>6, <1>7, <1>9, <1>10 DEF Fine
<1> QED
  BY <1>2, <1>3, <1>4, <1>5, <1>11, <1>12, StepKeeps DEF q

\* A worker drops a cancelled job.
LEMMA DiscardKeeps ==
  ASSUME IInv, NEW k \in DOMAIN jobs, Discard(k)
  PROVE  IInv'
<1>1. UNCHANGED <<path, title, edited, files>> /\ status' = status /\ Counted /\ Finish(k, "cancelled")
  BY BoundsCount DEF Discard, disk, row, IInv, World
<1>2. "discovered" \in VideoStatus \ {"organized", "complete"}
  BY DEF VideoStatus
<1> QED
  BY <1>1, <1>2, FinishKeeps

\* The handler of an add looks for the row.
LEMMA BeginAddKeeps ==
  ASSUME IInv, NEW k \in DOMAIN jobs, BeginAdd(k)
  PROVE  IInv'
<1>1. /\ UNCHANGED <<path, title, edited, files>> /\ status' = status /\ Counted
      /\ AtStep(k, "begin") /\ jobs[k].kind = "add"
  BY BoundsCount DEF BeginAdd, disk, row, IInv, World
<1>2. "discovered" \in VideoStatus \ {"organized", "complete"}
  BY DEF VideoStatus
<1>3. CASE Finish(k, "cancelled")
  BY <1>1, <1>2, <1>3, FinishKeeps
<1>4. CASE Advance(k, "ending")
  BY <1>1, <1>2, <1>4, AdvanceKeeps DEF AtStep, Course, Steps, Kinds
<1>5. CASE Advance(k, "create")
  BY <1>1, <1>2, <1>5, AdvanceKeeps DEF AtStep, Course, Steps, Kinds
<1> QED
  BY <1>3, <1>4, <1>5 DEF BeginAdd

\* It creates a row unless somebody else did.
LEMMA CreateKeeps ==
  ASSUME IInv, NEW k \in DOMAIN jobs, Create(k)
  PROVE  IInv'
<1>1. UNCHANGED <<path, title, edited, files>> /\ Counted /\ AtStep(k, "create") /\ jobs[k].kind = "add"
  BY BoundsCount, AtItsStep DEF Create, disk, IInv, World
<1>2. "discovered" \in VideoStatus \ {"organized", "complete"}
  BY DEF VideoStatus
<1>3. CASE Finish(k, "failed") /\ status' = status
  BY <1>1, <1>2, <1>3, FinishKeeps
<1>4. CASE Advance(k, "created") /\ SetStatus(k, "discovered")
  BY <1>1, <1>2, <1>4, AdvanceKeeps DEF AtStep, Course, Steps, Kinds
<1> QED
  BY <1>3, <1>4 DEF Create

\* The row of an add has been created.
LEMMA CreatedKeeps ==
  ASSUME IInv, NEW k \in DOMAIN jobs, Created(k)
  PROVE  IInv'
<1>1. UNCHANGED <<path, title, edited, files>> /\ Counted /\ AtStep(k, "created") /\ jobs[k].kind = "add"
  BY BoundsCount, AtItsStep DEF Created, disk, IInv, World
<1>2. {"discovered", "pending_download"} \subseteq VideoStatus \ {"organized", "complete"}
  BY DEF VideoStatus
<1>3. CASE Finish(k, "cancelled") /\ status' = status
  BY <1>1, <1>2, <1>3, FinishKeeps
<1>4. CASE Advance(k, "handoff") /\ SetStatus(k, "pending_download")
  BY <1>1, <1>2, <1>4, AdvanceKeeps DEF AtStep, Course, Steps, Kinds
<1>5. CASE Advance(k, "ending") /\ SetStatus(k, "discovered")
  BY <1>1, <1>2, <1>5, AdvanceKeeps DEF AtStep, Course, Steps, Kinds
<1> QED
  BY <1>3, <1>4, <1>5 DEF Created, disk

\* A download begins: the file is to be in the directory of the job.
LEMMA Begun ==
  ASSUME IInv, NEW k \in DOMAIN jobs, AtStep(k, "begin"), NEW s \in {"fetch", "acquire"},
         jobs[k].kind = "pipeline" \/ (jobs[k].kind = "download" /\ s = "fetch"),
         UNCHANGED <<path, title, edited, files>>, Counted, SetStatus(k, "downloading"),
         jobs' = [jobs EXCEPT ![k].temp = k, ![k].step = s]
  PROVE  IInv'
<1> DEFINE q == jobs[k]
<1>1. PICK r : r = [q EXCEPT !.temp = k, !.step = s]
  OBVIOUS
<1>2. q \in JobType /\ Fine(k, q) /\ q.status \in {"running", "cancelled"} /\ k \in Nat
  BY AtItsStep DEF AtStep
<1>3. jobs' = [jobs EXCEPT ![k] = r]
  BY <1>1 DEF IInv, Jobs
<1>4. k \notin DOMAIN files /\ q.kind \in {"download", "pipeline"} /\ q.step = "begin"
  BY NothingYet DEF AtStep
<1>a. <<s, q.kind>> \in Course
  BY DEF Course
<1> HIDE DEF q
<1>5. /\ r \in JobType /\ r.kind = q.kind /\ r.video = q.video /\ r.temp = k
      /\ r.step = s /\ r.status = q.status
  BY <1>1, <1>2 DEF JobType, Steps
<1>6. WellFormed(r)
  BY <1>2, <1>5, <1>a DEF WellFormed
<1>7. OwnsTemp(k, r)
  BY <1>4, <1>5 DEF OwnsTemp
<1>8. ~Over(r)
  BY <1>5 DEF Over
<1>9. Hands(k, r)
  BY <1>4, <1>5, <1>8 DEF Hands
<1>10. Shelves(r)
  BY <1>2, <1>4, <1>5, Apart DEF Shelves
<1>11. "downloading" \in VideoStatus
  BY DEF VideoStatus
<1>12. Fine(k, r)
  BY <1>6, <1>7, <1>9, <1>10 DEF Fine
<1>13. status' = [status EXCEPT ![r.video] = "downloading"]
  BY <1>5 DEF SetStatus, q
<1>14. /\ r.kind = jobs[k].kind /\ r.video = jobs[k].video
       /\ ~(r.kind \in {"post", "organize"} \/ k \in DOMAIN files)
       /\ ~(r.kind = "download" /\ jobs[k].step \in {"ending", "done"})
  BY <1>4, <1>5 DEF q
<1> QED
  BY <1>3, <1>11, <1>12, <1>13, <1>14, StepKeeps

\* A download job begins.
LEMMA BeginDownloadKeeps ==
  ASSUME IInv, NEW k \in DOMAIN jobs, BeginDownload(k)
  PROVE  IInv'
<1>1. UNCHANGED <<path, title, edited, files>> /\ Counted /\ AtStep(k, "begin") /\ jobs[k].kind = "download"
  BY BoundsCount DEF BeginDownload, disk, IInv, World
<1>2. "discovered" \in VideoStatus \ {"organized", "complete"}
  BY DEF VideoStatus
<1>3. CASE Finish(k, "cancelled") /\ status' = status
  BY <1>1, <1>2, <1>3, FinishKeeps
<1>4. CASE SetStatus(k, "downloading") /\ jobs' = [jobs EXCEPT ![k].temp = k, ![k].step = "fetch"]
  BY <1>1, <1>4, Begun
<1> QED
  BY <1>3, <1>4 DEF BeginDownload, disk

\* A pipeline begins, with the file its row names or with a download.
LEMMA BeginPipelineKeeps ==
  ASSUME IInv, NEW k \in DOMAIN jobs, BeginPipeline(k)
  PROVE  IInv'
<1> DEFINE q == jobs[k]
           file == path[q.video]
<1>1. UNCHANGED <<path, title, edited, files>> /\ Counted /\ AtStep(k, "begin") /\ q.kind = "pipeline"
  BY BoundsCount DEF BeginPipeline, disk, IInv, World
<1>2. "discovered" \in VideoStatus \ {"organized", "complete"}
  BY DEF VideoStatus
<1>3. CASE Finish(k, "cancelled") /\ status' = status
  BY <1>1, <1>2, <1>3, FinishKeeps
<1>4. CASE SetStatus(k, "downloading") /\ jobs' = [jobs EXCEPT ![k].temp = k, ![k].step = "acquire"]
  BY <1>1, <1>4, Begun
<1>5. CASE /\ Exists(file) /\ status' = status
           /\ jobs' = [jobs EXCEPT ![k].temp = file, ![k].step = "process"]
  <2>1. PICK r : r = [q EXCEPT !.temp = file, !.step = "process"]
    OBVIOUS
  <2>2. q \in JobType /\ Fine(k, q) /\ q.status \in {"running", "cancelled"} /\ q.video \in Videos
    BY <1>1, AtItsStep DEF AtStep
  <2>3. jobs' = [jobs EXCEPT ![k] = r]
    BY <1>5, <2>1 DEF IInv, Jobs
  <2>4. k \notin DOMAIN files /\ q.step = "begin"
    BY <1>1, NothingYet DEF AtStep
  <2>5. NoPlace \notin DOMAIN files
    BY Apart, Numbered DEF IInv, World, Stored
  <2>6. file \in Titles[q.video] /\ file \in Names /\ (q.video \notin edited => file = title[q.video])
    BY <1>5, <2>2, <2>5, Apart DEF IInv, World, Rows, Exists
  <2> HIDE DEF q, file
  <2>7. /\ r \in JobType /\ r.kind = "pipeline" /\ r.video = q.video /\ r.temp = file
        /\ r.step = "process" /\ r.status = q.status
    BY <1>1, <2>1, <2>2, <2>6 DEF JobType, Steps
  <2>8. WellFormed(r)
    BY <2>2, <2>7 DEF WellFormed, Course
  <2>9. OwnsTemp(k, r)
    BY <2>6, <2>7 DEF OwnsTemp
  <2>10. ~Over(r)
    BY <2>7 DEF Over
  <2>11. Hands(k, r)
    BY <2>7, <2>10 DEF Hands
  <2>12. Shelves(r)
    BY <2>6, <2>7 DEF Shelves
  <2>13. Fine(k, r)
    BY <2>8, <2>9, <2>11, <2>12 DEF Fine
  <2>14. /\ r.kind = jobs[k].kind /\ r.video = jobs[k].video
         /\ ~(r.kind \in {"post", "organize"} \/ k \in DOMAIN files)
         /\ ~(r.kind = "download" /\ jobs[k].step \in {"ending", "done"})
    BY <1>1, <2>4, <2>7 DEF q
  <2> QED
    BY <1>1, <1>2, <1>5, <2>3, <2>13, <2>14, StepKeeps
<1> QED
  BY <1>3, <1>4, <1>5 DEF BeginPipeline, disk

\* A pipeline gets the semaphore.
LEMMA AcquireKeeps ==
  ASSUME IInv, NEW k \in DOMAIN jobs, Acquire(k)
  PROVE  IInv'
<1>1. /\ UNCHANGED <<path, title, edited, files>> /\ status' = status /\ Counted
      /\ AtStep(k, "acquire") /\ jobs[k].kind = "pipeline" /\ jobs[k].temp = k
  <2>1. AtStep(k, "acquire") /\ jobs[k].kind = "pipeline"
    BY AtItsStep DEF Acquire, disk, AtStep
  <2>2. jobs[k].temp = k
    BY <2>1, AtItsStep DEF Fine, OwnsTemp, AtStep
  <2> QED
    BY <2>1, <2>2, BoundsCount DEF Acquire, disk, row, IInv, World
<1>2. "discovered" \in VideoStatus \ {"organized", "complete"}
  BY DEF VideoStatus
<1>3. CASE Finish(k, "cancelled")
  BY <1>1, <1>2, <1>3, FinishKeeps
<1>4. CASE Advance(k, "fetch")
  BY <1>1, <1>2, <1>4, AdvanceKeeps DEF AtStep, Course, Steps, Kinds
<1> QED
  BY <1>3, <1>4 DEF Acquire, disk

\* Post-processing begins.
LEMMA ProcessKeeps ==
  ASSUME IInv, NEW k \in DOMAIN jobs, Process(k)
  PROVE  IInv'
<1>1. /\ UNCHANGED <<path, title, edited, files>> /\ Counted
      /\ jobs[k].step \in {"begin", "process"} /\ jobs[k].kind \in {"post", "pipeline"}
  BY BoundsCount, AtItsStep DEF Process, disk, IInv, World, AtStep
<1>2. {"discovered", "processing"} \subseteq VideoStatus \ {"organized", "complete"}
  BY DEF VideoStatus
<1>3. CASE Finish(k, "cancelled") /\ status' = status
  BY <1>1, <1>2, <1>3, FinishKeeps
<1>4. CASE Finish(k, "failed") /\ status' = status
  BY <1>1, <1>2, <1>4, FinishKeeps
<1>5. CASE Advance(k, "probe") /\ SetStatus(k, "processing")
  <2>1. <<"probe", jobs[k].kind>> \in Course /\ "probe" \in Steps
    BY <1>1 DEF Course, Steps
  <2> QED
    BY <1>1, <1>2, <1>5, <2>1, AdvanceKeeps
<1> QED
  BY <1>3, <1>4, <1>5 DEF Process, disk

\* The file has been looked at.
LEMMA ProbedKeeps ==
  ASSUME IInv, NEW k \in DOMAIN jobs, Probed(k)
  PROVE  IInv'
<1>1. /\ UNCHANGED <<path, title, edited, files>> /\ status' = status /\ Counted
      /\ jobs[k].step = "probe" /\ jobs[k].kind \in {"post", "pipeline"}
  BY BoundsCount, AtItsStep DEF Probed, disk, IInv, World, AtStep, row
<1>2. "discovered" \in VideoStatus \ {"organized", "complete"}
  BY DEF VideoStatus
<1>3. CASE Finish(k, "cancelled")
  BY <1>1, <1>2, <1>3, FinishKeeps
<1>4. CASE Advance(k, "organize") /\ jobs[k].kind = "pipeline"
  BY <1>1, <1>2, <1>4, AdvanceKeeps DEF Course, Steps
<1>5. CASE Advance(k, "handoff") /\ jobs[k].kind = "post"
  BY <1>1, <1>2, <1>5, AdvanceKeeps DEF Course, Steps
<1> QED
  BY <1>1, <1>3, <1>4, <1>5 DEF Probed, disk

\* The job that writes the NFO begins.
LEMMA BeginNfoKeeps ==
  ASSUME IInv, NEW k \in DOMAIN jobs, BeginNfo(k)
  PROVE  IInv'
<1>1. /\ UNCHANGED <<path, title, edited, files>> /\ status' = status /\ Counted
      /\ jobs[k].step = "begin" /\ jobs[k].kind = "nfo"
  BY BoundsCount DEF BeginNfo, disk, IInv, World, AtStep, row
<1>2. "discovered" \in VideoStatus \ {"organized", "complete"}
  BY DEF VideoStatus
<1>3. CASE Finish(k, "cancelled")
  BY <1>1, <1>2, <1>3, FinishKeeps
<1>4. CASE Advance(k, "export")
  BY <1>1, <1>2, <1>4, AdvanceKeeps DEF Course, Steps
<1> QED
  BY <1>3, <1>4 DEF BeginNfo, disk

\* The NFO is written and the row complete: its file is there.
LEMMA ExportKeeps ==
  ASSUME IInv, NEW k \in DOMAIN jobs, Export(k)
  PROVE  IInv'
<1> DEFINE q == jobs[k]
<1>1. /\ UNCHANGED <<path, title, edited, files>> /\ Counted /\ Advance(k, "ending")
      /\ SetStatus(k, "complete") /\ q.step = "export" /\ q.kind \in {"nfo", "pipeline"}
  BY BoundsCount, AtItsStep DEF Export, disk, IInv, World, AtStep
<1>2. Fine(k, q)
  BY AtItsStep
<1>3. /\ q.video \notin edited => Shelved(q.video)
      /\ q.kind \in {"organize", "pipeline"} /\ q.temp \notin Names => q.temp \notin DOMAIN files
  BY <1>1, <1>2 DEF Fine, Hands, Shelves
<1>4. "complete" \in VideoStatus /\ <<"ending", q.kind>> \in Course /\ "ending" \in Steps
  BY <1>1 DEF VideoStatus, Course, Steps, Kinds
<1> QED
  BY <1>1, <1>3, <1>4, AdvanceKeeps

\* A job ends.
LEMMA EndKeeps ==
  ASSUME IInv, NEW k \in DOMAIN jobs, End(k)
  PROVE  IInv'
<1>1. /\ UNCHANGED <<path, title, edited, files>> /\ status' = status /\ Counted
      /\ Finish(k, "completed") /\ jobs[k].step = "ending"
  BY BoundsCount DEF End, disk, row, IInv, World, AtStep
<1>2. "discovered" \in VideoStatus \ {"organized", "complete"}
  BY DEF VideoStatus
<1> QED
  BY <1>1, <1>2, FinishKeeps

\* A user cancels a job, wherever it is.
LEMMA CancelKeeps ==
  ASSUME IInv, NEW k \in DOMAIN jobs, Cancel(k)
  PROVE  IInv'
<1> DEFINE q == jobs[k]
<1>1. PICK r : r = [q EXCEPT !.status = "cancelled"]
  OBVIOUS
<1>2. q \in JobType /\ Fine(k, q) /\ q.status \in {"pending", "running"}
  BY AtItsStep DEF Cancel, disk
<1>3. jobs' = [jobs EXCEPT ![k] = r]
  BY <1>1 DEF Cancel, disk, IInv, Jobs
<1>4. UNCHANGED <<path, title, edited, files>> /\ status' = status /\ Counted
  BY BoundsCount DEF Cancel, disk, row, IInv, World
<1> HIDE DEF q
<1>5. /\ r \in JobType /\ r.kind = q.kind /\ r.video = q.video /\ r.temp = q.temp
      /\ r.step = q.step /\ r.dest = q.dest /\ r.status = "cancelled"
  BY <1>1, <1>2 DEF JobType, JobStatus
<1>6. WellFormed(r)
  BY <1>2, <1>5 DEF Fine, WellFormed
<1>7. OwnsTemp(k, r)
  BY <1>2, <1>5 DEF Fine, OwnsTemp
<1>8. Over(r) => Over(q)
  BY <1>5 DEF Over
<1>9. Hands(k, r)
  BY <1>2, <1>5, <1>8 DEF Fine, Hands
<1>10. Shelves(r)
  BY <1>2, <1>5 DEF Fine, Shelves
<1>11. "discovered" \in VideoStatus
  BY DEF VideoStatus
<1>12. Fine(k, r)
  BY <1>6, <1>7, <1>9, <1>10 DEF Fine
<1> QED
  BY <1>3, <1>4, <1>5, <1>11, <1>12, StepKeeps DEF q

\* The organizer finds its file, and builds the path it will move it to.
LEMMA OrganizesKeeps ==
  ASSUME IInv, NEW k \in DOMAIN jobs, jobs[k].step \in {"begin", "organize"},
         jobs[k].kind \in {"organize", "pipeline"}, <<"move", jobs[k].kind>> \in Course,
         UNCHANGED <<path, title, edited, files>>, Counted, SetStatus(k, "organizing"),
         jobs' = [jobs EXCEPT ![k].dest = title[jobs[k].video], ![k].step = "move"],
         jobs[k].kind = "pipeline" => jobs[k].step = "organize"
  PROVE  IInv'
<1> DEFINE q == jobs[k]
           dest == title[q.video]
<1>1. PICK r : r = [q EXCEPT !.dest = dest, !.step = "move"]
  OBVIOUS
<1>2. q \in JobType /\ Fine(k, q) /\ q.status \in {"running", "cancelled"} /\ q.video \in Videos
  BY AtItsStep
<1>3. jobs' = [jobs EXCEPT ![k] = r]
  BY <1>1 DEF IInv, Jobs
<1>4. dest \in Titles[q.video] /\ dest \in Names
  BY <1>2, Apart DEF IInv, World, Rows
<1>a. /\ <<"move", q.kind>> \in Course /\ q.kind \in {"organize", "pipeline"}
      /\ q.step \in {"begin", "organize"} /\ (q.kind = "pipeline" => q.step = "organize")
      /\ dest = title[q.video]
  OBVIOUS
<1> HIDE DEF q, dest
<1>5. /\ r \in JobType /\ r.kind = q.kind /\ r.video = q.video /\ r.temp = q.temp
      /\ r.step = "move" /\ r.dest = dest /\ r.status = q.status
  BY <1>1, <1>2, <1>4 DEF JobType, Steps
<1>6. WellFormed(r)
  BY <1>2, <1>4, <1>5, <1>a DEF WellFormed
<1>7. OwnsTemp(k, r)
  BY <1>2, <1>5, <1>a DEF Fine, OwnsTemp
<1>8. ~Over(r)
  BY <1>5 DEF Over
<1>b. WellFormed(q)
  BY <1>2 DEF Fine
<1>c. q.kind = "organize" => q.step = "begin"
  BY <1>a, <1>b DEF WellFormed, Course
<1>9. Hands(k, r)
  BY <1>2, <1>5, <1>8, <1>a, <1>c DEF Fine, Hands
<1>10. Shelves(r)
  BY <1>2, <1>5, <1>a DEF Fine, Shelves
<1>11. "organizing" \in VideoStatus
  BY DEF VideoStatus
<1>12. Fine(k, r)
  BY <1>6, <1>7, <1>9, <1>10 DEF Fine
<1>13. status' = [status EXCEPT ![r.video] = "organizing"]
  BY <1>5 DEF SetStatus, q
<1>14. /\ r.kind = jobs[k].kind /\ r.video = jobs[k].video /\ r.temp = jobs[k].temp
       /\ r.kind # "download"
  BY <1>5, <1>a DEF q
<1> QED
  BY <1>3, <1>11, <1>12, <1>13, <1>14, StepKeeps

\* A handler fails and leaves the file.
LEMMA FailKeeps ==
  ASSUME IInv, NEW k \in DOMAIN jobs, Finish(k, "failed"), UNCHANGED <<path, title, edited, files>>,
         Counted, status' = status \/ SetStatus(k, Blame(k))
  PROVE  IInv'
<1> DEFINE v == jobs[k].video
<1>1. PICK r : /\ Fine(k, r) /\ jobs' = [jobs EXCEPT ![k] = r]
               /\ r.kind = jobs[k].kind /\ r.video = v /\ r.temp = jobs[k].temp
               /\ r.step = "done" /\ r.status = "failed"
  BY FinishFine
<1>2. v \in Videos /\ status[v] \in VideoStatus
      /\ (status[v] \in {"organized", "complete"} /\ v \notin edited => Shelved(v))
  <2>1. v \in Videos
    BY AtItsStep
  <2> HIDE DEF v
  <2> QED
    BY <2>1 DEF IInv, World, Types, Rows
<1>3. /\ Blame(k) \in VideoStatus
      /\ Blame(k) \in {"organized", "complete"} /\ v \notin edited => Shelved(v)
  BY <1>2 DEF Blame, VideoStatus
<1>4. PICK s \in VideoStatus : s = Blame(k)
  BY <1>3
<1>5. status' = status \/ status' = [status EXCEPT ![r.video] = s]
  BY <1>1, <1>4 DEF SetStatus
<1> QED
  BY <1>1, <1>3, <1>4, <1>5, StepKeeps, ZenonT(40)

-----------------------------------------------------------------------------
(* Actions that change files *)

\* What the other jobs see of a job that takes a step.
LEMMA JobsCarry ==
  ASSUME Jobs, NEW k \in DOMAIN jobs, NEW r \in JobType, jobs' = [jobs EXCEPT ![k] = r],
         r.kind = jobs[k].kind, r.video = jobs[k].video,
         r.kind \in {"post", "organize"} => r.temp = jobs[k].temp,
         r.kind = "download" /\ jobs[k].step \in {"ending", "done"} => r.step \in {"ending", "done"}
  PROVE  /\ DOMAIN jobs' = DOMAIN jobs
         /\ \A i \in DOMAIN jobs :
              /\ jobs'[i].kind = jobs[i].kind /\ jobs'[i].video = jobs[i].video
              /\ jobs[i].kind \in {"post", "organize"} => jobs'[i].temp = jobs[i].temp
              /\ jobs[i].kind = "download" /\ jobs[i].step \in {"ending", "done"} =>
                   jobs'[i].step \in {"ending", "done"}
<1>1. /\ DOMAIN jobs' = DOMAIN jobs /\ jobs'[k] = r
      /\ \A i \in DOMAIN jobs \ {k} : jobs'[i] = jobs[i]
  BY Replaced
<1>2. ASSUME NEW i \in DOMAIN jobs
      PROVE  /\ jobs'[i].kind = jobs[i].kind /\ jobs'[i].video = jobs[i].video
             /\ jobs[i].kind \in {"post", "organize"} => jobs'[i].temp = jobs[i].temp
             /\ jobs[i].kind = "download" /\ jobs[i].step \in {"ending", "done"} =>
                  jobs'[i].step \in {"ending", "done"}
  <2>1. CASE i = k
    BY <1>1, <2>1
  <2>2. CASE i # k
    BY <1>1, <2>2
  <2> QED
    BY <2>1, <2>2
<1> QED
  BY <1>1, <1>2

\* The temporary files after a step of one job.
LEMMA StoredKeeps ==
  ASSUME IInv, NEW k \in DOMAIN jobs, NEW r \in JobType, jobs' = [jobs EXCEPT ![k] = r],
         r.kind = jobs[k].kind, r.video = jobs[k].video, k \in DOMAIN files' => r.temp = k,
         \A t \in DOMAIN files' : t \notin Names =>
           \/ t \in DOMAIN files /\ files'[t] = files[t]
           \/ t = k /\ r.kind \in {"download", "pipeline"} /\ files'[k] = r.video,
         \A n \in DOMAIN files' : n \in Names => n \in Titles[files'[n]]
  PROVE  Stored'
<1>1. Stored /\ Jobs
  BY DEF IInv, World
<1>2. /\ DOMAIN jobs' = DOMAIN jobs /\ jobs'[k] = r
      /\ \A i \in DOMAIN jobs \ {k} : jobs'[i] = jobs[i]
  BY <1>1, Replaced
<1>3. ASSUME NEW t \in DOMAIN files', t \notin Names
      PROVE  /\ t \in DOMAIN jobs' /\ jobs'[t].kind \in {"download", "pipeline"}
             /\ jobs'[t].temp = t /\ files'[t] = jobs'[t].video
  <2>1. CASE t \in DOMAIN files /\ files'[t] = files[t]
    <3>1. /\ t \in DOMAIN jobs /\ jobs[t].kind \in {"download", "pipeline"}
          /\ jobs[t].temp = t /\ files[t] = jobs[t].video
      BY <1>1, <1>3, <2>1 DEF Stored
    <3>2. CASE t = k
      BY <1>2, <1>3, <2>1, <3>1, <3>2
    <3>3. CASE t # k
      BY <1>2, <2>1, <3>1, <3>3
    <3> QED
      BY <3>2, <3>3
  <2>2. CASE t = k /\ r.kind \in {"download", "pipeline"} /\ files'[k] = r.video
    BY <1>2, <1>3, <2>2
  <2> QED
    BY <1>3, <2>1, <2>2
<1> QED
  BY <1>3 DEF Stored

\* Removing a file.
LEMMA WithoutIs ==
  ASSUME Types, NEW p
  PROVE  /\ Without(p) \in [DOMAIN files \ {p} -> Videos]
         /\ \A n \in DOMAIN files \ {p} : Without(p)[n] = files[n]
BY DEF Types, Without, Restrict

\* A job ends and removes the temporary file it worked on.
LEMMA CleanUpKeeps ==
  ASSUME IInv, NEW k \in DOMAIN jobs, NEW x \in {"failed", "cancelled"}, Finish(k, x),
         files' = Without(jobs[k].temp),
         \/ jobs[k].kind = "organize"
         \/ jobs[k].kind = "download" /\ jobs[k].step \in {"fetch", "handoff"}
         \/ jobs[k].kind = "pipeline" /\ jobs[k].step = "fetch",
         UNCHANGED <<path, title, edited>>, Counted,
         NEW s \in VideoStatus \ {"organized", "complete"}, status' = status \/ SetStatus(k, s)
  PROVE  IInv' /\ \A n \in Names : n \in DOMAIN files => n \in DOMAIN files' /\ files'[n] = files[n]
<1> DEFINE q == jobs[k]
           p == q.temp
<1>1. World /\ Types /\ Stored /\ Rows /\ Jobs
  BY DEF IInv, World
<1>2. PICK r : /\ Fine(k, r) /\ jobs' = [jobs EXCEPT ![k] = r]
               /\ r.kind = q.kind /\ r.video = q.video /\ r.temp = p /\ r.step = "done" /\ r.status = x
  BY FinishFine
<1>3. r \in JobType /\ Fine(k, q) /\ q.video \in Videos /\ k \in Nat
  BY <1>2, AtItsStep DEF Fine, WellFormed
<1>4. /\ q.kind = "organize" => p \in DOMAIN jobs
      /\ q.kind # "organize" => p = k
      /\ p \notin Names
  <2>1. q.kind = "organize" => p \in DOMAIN jobs
    BY <1>3 DEF Fine, OwnsTemp
  <2>2. q.kind # "organize" => p = k
    BY <1>3 DEF Fine, OwnsTemp
  <2> HIDE DEF q, p
  <2> QED
    BY <1>1, <1>3, <2>1, <2>2, Apart, Numbered
<1>5. /\ DOMAIN files' = DOMAIN files \ {p} /\ files' \in [DOMAIN files \ {p} -> Videos]
      /\ \A n \in DOMAIN files \ {p} : files'[n] = files[n]
  BY <1>1, WithoutIs
<1>6. \A n \in Names : n \in DOMAIN files => n \in DOMAIN files' /\ files'[n] = files[n]
  BY <1>4, <1>5
<1>7. /\ DOMAIN jobs' = DOMAIN jobs
      /\ \A i \in DOMAIN jobs :
           /\ jobs'[i].kind = jobs[i].kind /\ jobs'[i].video = jobs[i].video
           /\ jobs[i].kind \in {"post", "organize"} => jobs'[i].temp = jobs[i].temp
           /\ jobs[i].kind = "download" /\ jobs[i].step \in {"ending", "done"} =>
                jobs'[i].step \in {"ending", "done"}
  BY <1>1, <1>2, <1>3, JobsCarry
<1>8. \A v \in Videos : title[v] \in Names
  BY <1>1, Apart DEF Rows
<1>9. Carries(k)
  <2>1. \A t \in DOMAIN files : t \notin DOMAIN files' =>
          \/ t = k /\ jobs[k].kind = "pipeline"
          \/ t = k /\ jobs[k].kind = "download" /\ jobs[k].step \in {"fetch", "handoff"}
          \/ Organizes(k, t)
    BY <1>4, <1>5 DEF Organizes
  <2>2. \A v \in Videos : title[v] \in DOMAIN files => title[v] \in DOMAIN files'
    BY <1>6, <1>8
  <2> QED
    BY <1>5, <1>7, <2>1, <2>2 DEF Carries, Shelved
<1>10. World'
  <2>1. /\ status' \in [Videos -> VideoStatus]
        /\ \A v \in Videos : status'[v] = status[v] \/ (v = q.video /\ status'[v] = s)
    BY <1>1, <1>3 DEF Types, SetStatus
  <2>2. Types'
    BY <1>1, <1>5, <2>1 DEF Types, Counted
  <2>3. Stored'
    <3>1. k \in DOMAIN files' => r.temp = k
      BY <1>1, <1>2, <1>3, <1>5, Apart DEF Stored
    <3>2. \A n \in DOMAIN files' : n \in Names => n \in Titles[files'[n]]
      BY <1>1, <1>5 DEF Stored
    <3> QED
      BY <1>2, <1>3, <1>5, <3>1, <3>2, StoredKeeps
  <2>4. Rows'
    BY <1>1, <1>5, <1>6, <1>8, <2>1 DEF Rows, Shelved
  <2> QED
    BY <2>2, <2>3, <2>4 DEF World
<1>11. Fine(k, r)'
  <2> HIDE DEF q, p
  <2>1. WellFormed(r)' /\ OwnsTemp(k, r)
    BY <1>2 DEF Fine, WellFormed
  <2>2. OwnsTemp(k, r)'
    <3>1. r.kind \in {"post", "organize"} =>
            /\ r.temp \in DOMAIN jobs' /\ jobs'[r.temp].kind = "download"
            /\ jobs'[r.temp].video = r.video /\ jobs'[r.temp].step \in {"ending", "done"}
      BY <1>7, <2>1 DEF OwnsTemp
    <3> QED
      BY <2>1, <3>1 DEF OwnsTemp
  <2>3. r.kind # "post" /\ ~Over(r)
    BY <1>2 DEF Over, q
  <2>4. Hands(k, r)'
    BY <1>2, <2>3 DEF Hands, Over
  <2>5. Shelves(r)'
    BY <1>2, <1>4, <2>3 DEF Shelves, q
  <2> QED
    BY <2>1, <2>2, <2>4, <2>5 DEF Fine
<1> QED
  BY <1>2, <1>3, <1>6, <1>9, <1>10, <1>11, OneStep

\* The organizer begins.
LEMMA OrganizeKeeps ==
  ASSUME IInv, NEW k \in DOMAIN jobs, Organize(k)
  PROVE  IInv' /\ \A n \in Names : n \in DOMAIN files => n \in DOMAIN files' /\ files'[n] = files[n]
<1>1. /\ UNCHANGED <<path, title, edited>> /\ Counted
      /\ jobs[k].step \in {"begin", "organize"} /\ jobs[k].kind \in {"organize", "pipeline"}
      /\ jobs[k].kind = "pipeline" => jobs[k].step = "organize"
  <2>1. jobs[k].step = "organize" => jobs[k].kind = "pipeline"
    BY AtItsStep
  <2> QED
    BY <2>1, BoundsCount DEF Organize, IInv, World, AtStep
<1>2. "discovered" \in VideoStatus \ {"organized", "complete"}
  BY DEF VideoStatus
<1>3. CASE Finish(k, "failed") /\ status' = status /\ files' = files
  BY <1>1, <1>2, <1>3, FinishKeeps
<1>4. CASE /\ Finish(k, "cancelled") /\ status' = status /\ jobs[k].kind = "organize"
           /\ files' = Without(jobs[k].temp)
  BY <1>1, <1>2, <1>4, CleanUpKeeps
<1>5. CASE /\ SetStatus(k, "organizing") /\ files' = files
           /\ jobs' = [jobs EXCEPT ![k].dest = title[jobs[k].video], ![k].step = "move"]
  <2>1. <<"move", jobs[k].kind>> \in Course
    BY <1>1 DEF Course
  <2> QED
    BY <1>1, <1>5, <2>1, OrganizesKeeps
<1> QED
  BY <1>3, <1>4, <1>5 DEF Organize

\* A handler raises.
LEMMA FailsKeep ==
  ASSUME IInv, NEW k \in DOMAIN jobs, Fail(k)
  PROVE  IInv' /\ \A n \in Names : n \in DOMAIN files => n \in DOMAIN files' /\ files'[n] = files[n]
<1>1. /\ UNCHANGED <<path, title, edited>> /\ Counted /\ Finish(k, "failed")
      /\ jobs[k].step \notin {"queued", "done", "ending"}
  BY BoundsCount DEF Fail, disk, IInv, World, AtStep, Handling
<1>2. CASE files' = files /\ (status' = status \/ SetStatus(k, Blame(k)))
  BY <1>1, <1>2, FailKeeps
<1>3. CASE ~AtStep(k, "begin") /\ CleansUp(k) /\ files' = Without(jobs[k].temp) /\ SetStatus(k, Blame(k))
  <2>1. /\ <<jobs[k].step, jobs[k].kind>> \in Course
        /\ jobs[k].step = "fetch" => jobs[k].kind \in {"download", "pipeline"}
    BY AtItsStep DEF Fine, WellFormed, AtStep
  <2>2. \/ jobs[k].kind = "organize"
        \/ jobs[k].kind = "download" /\ jobs[k].step \in {"fetch", "handoff"}
        \/ jobs[k].kind = "pipeline" /\ jobs[k].step = "fetch"
    BY <1>1, <1>3, <2>1 DEF CleansUp, AtStep, Course
  <2>3. Blame(k) \in {"download_failed", "organize_failed"}
    BY <2>2 DEF Blame, AtStep
  <2>4. PICK s \in VideoStatus \ {"organized", "complete"} : s = Blame(k)
    BY <2>3 DEF VideoStatus
  <2>5. SetStatus(k, s)
    BY <1>3, <2>4 DEF SetStatus
  <2> QED
    BY <1>1, <1>3, <2>2, <2>5, CleanUpKeeps
<1> QED
  BY <1>2, <1>3 DEF Fail, disk

\* A download is done, or was cancelled.
LEMMA FetchedKeeps ==
  ASSUME IInv, NEW k \in DOMAIN jobs, Fetched(k)
  PROVE  IInv' /\ \A n \in Names : n \in DOMAIN files => n \in DOMAIN files' /\ files'[n] = files[n]
<1> DEFINE q == jobs[k]
<1>1. /\ UNCHANGED <<path, title, edited>> /\ Counted
      /\ q.step = "fetch" /\ q.kind \in {"download", "pipeline"}
  BY BoundsCount, AtItsStep DEF Fetched, IInv, World, AtStep
<1>2. World /\ Types /\ Stored /\ Rows /\ Jobs
  BY DEF IInv, World
<1>3. CASE Finish(k, "cancelled") /\ UNCHANGED <<status, files>>
  <2>1. "discovered" \in VideoStatus \ {"organized", "complete"}
    BY DEF VideoStatus
  <2> QED
    BY <1>1, <1>3, <2>1, FinishKeeps
<1>4. CASE /\ files' = With(q.temp, q.video) /\ SetStatus(k, "downloaded")
           /\ Advance(k, IF q.kind = "pipeline" THEN "process" ELSE "handoff")
  <2> DEFINE step == IF q.kind = "pipeline" THEN "process" ELSE "handoff"
  <2>1. PICK r : r = [q EXCEPT !.step = step]
    OBVIOUS
  <2>2. q \in JobType /\ Fine(k, q) /\ q.status \in {"running", "cancelled"} /\ k \in Nat
        /\ q.video \in Videos
    BY <1>1, AtItsStep
  <2>3. q.temp = k
    BY <1>1, <2>2 DEF Fine, OwnsTemp
  <2>4. jobs' = [jobs EXCEPT ![k] = r]
    BY <1>2, <1>4, <2>1 DEF Advance, Jobs
  <2>5. /\ files' \in [DOMAIN files \cup {k} -> Videos] /\ files'[k] = q.video
        /\ \A n \in DOMAIN files \ {k} : files'[n] = files[n]
    BY <1>2, <1>4, <2>2, <2>3 DEF With, Types
  <2>6. DOMAIN files' = DOMAIN files \cup {k}
    BY <2>5
  <2>7. k \notin Names
    BY <2>2, Apart
  <2>8. \A n \in Names : n \in DOMAIN files => n \in DOMAIN files' /\ files'[n] = files[n]
    BY <2>5, <2>7
  <2>9. status' = [status EXCEPT ![q.video] = "downloaded"]
    BY <1>4 DEF SetStatus
  <2> HIDE DEF q
  <2>10. /\ r \in JobType /\ r.kind = q.kind /\ r.video = q.video /\ r.temp = k
         /\ r.step = step /\ r.status = q.status
    BY <2>1, <2>2, <2>3 DEF JobType, Steps
  <2>11. /\ DOMAIN jobs' = DOMAIN jobs
         /\ \A i \in DOMAIN jobs :
              /\ jobs'[i].kind = jobs[i].kind /\ jobs'[i].video = jobs[i].video
              /\ jobs[i].kind \in {"post", "organize"} => jobs'[i].temp = jobs[i].temp
              /\ jobs[i].kind = "download" /\ jobs[i].step \in {"ending", "done"} =>
                   jobs'[i].step \in {"ending", "done"}
    <3>1. r.kind = jobs[k].kind /\ r.video = jobs[k].video /\ r.kind \notin {"post", "organize"}
          /\ jobs[k].step \notin {"ending", "done"}
      BY <1>1, <2>10 DEF q
    <3> QED
      BY <1>2, <2>4, <2>10, <3>1, JobsCarry
  <2>12. \A v \in Videos : title[v] \in Names
    BY <1>2, Apart DEF Rows
  <2>13. Carries(k)
    <3>1. \A v \in Videos : title[v] \in DOMAIN files => title[v] \in DOMAIN files'
      BY <2>6
    <3> QED
      BY <1>1, <2>6, <2>11, <3>1 DEF Carries, Shelved, q
  <2>14. World'
    <3>1. /\ status' \in [Videos -> VideoStatus]
          /\ \A v \in Videos : status'[v] = status[v] \/ status'[v] = "downloaded"
      BY <1>2, <2>2, <2>9 DEF Types, VideoStatus
    <3>2. Types'
      BY <1>1, <1>2, <2>5, <2>6, <3>1 DEF Types, Counted
    <3>3. Stored'
      <4>1. \A t \in DOMAIN files' : t \notin Names =>
              \/ t \in DOMAIN files /\ files'[t] = files[t]
              \/ t = k /\ r.kind \in {"download", "pipeline"} /\ files'[k] = r.video
        BY <1>1, <2>5, <2>10
      <4>2. \A n \in DOMAIN files' : n \in Names => n \in Titles[files'[n]]
        BY <1>2, <2>5, <2>6, <2>7 DEF Stored
      <4>3. r.kind = jobs[k].kind /\ r.video = jobs[k].video
        BY <2>10 DEF q
      <4> QED
        BY <2>4, <2>10, <4>1, <4>2, <4>3, StoredKeeps
    <3>4. Rows'
      BY <1>1, <1>2, <2>5, <2>6, <2>7, <2>8, <2>12, <3>1 DEF Rows, Shelved
    <3> QED
      BY <3>2, <3>3, <3>4 DEF World
  <2>15. Fine(k, r)'
    <3>1. WellFormed(r)'
      BY <1>1, <2>2, <2>10 DEF WellFormed, Course
    <3>2. OwnsTemp(k, r)'
      BY <1>1, <2>10 DEF OwnsTemp
    <3>3. ~Over(r) /\ r.kind \in {"download", "pipeline"}
      BY <1>1, <2>10 DEF Over
    <3>4. Hands(k, r)'
      BY <2>6, <2>10, <3>3 DEF Hands, Over
    <3>5. Shelves(r)'
      BY <2>7, <2>10, <3>3 DEF Shelves
    <3> QED
      BY <3>1, <3>2, <3>4, <3>5 DEF Fine
  <2> QED
    BY <2>4, <2>8, <2>10, <2>13, <2>14, <2>15, OneStep
<1> QED
  BY <1>3, <1>4 DEF Fetched

\* Moving a file, over another or not.
LEMMA MovedIs ==
  ASSUME Types, NEW p \in DOMAIN files, NEW n, files' = Moved(p, n)
  PROVE  /\ files' \in [(DOMAIN files \ {p}) \cup {n} -> Videos] /\ files'[n] = files[p]
         /\ \A m \in DOMAIN files \ {p, n} : files'[m] = files[m]
BY DEF Types, Moved

\* A file that is moved into the library shows the video of its job.
LEMMA Landing ==
  ASSUME TitlesApart, IInv, NEW k \in DOMAIN jobs, AtStep(k, "move"),
         jobs[k].temp \in DOMAIN files, files' = Moved(jobs[k].temp, jobs[k].dest)
  PROVE  /\ files[jobs[k].temp] = jobs[k].video /\ jobs[k].dest \in Titles[jobs[k].video]
         /\ jobs[k].dest \in Names
         /\ jobs[k].kind = "organize" =>
              /\ jobs[k].temp \in DOMAIN jobs /\ jobs[jobs[k].temp].video = jobs[k].video
              /\ jobs[k].temp \notin Names /\ Organizes(k, jobs[k].temp)
         /\ jobs[k].kind = "pipeline" =>
              \/ jobs[k].temp = k /\ jobs[k].temp \notin Names
              \/ jobs[k].temp \in Titles[jobs[k].video] /\ jobs[k].temp \in Names
         /\ files' \in [(DOMAIN files \ {jobs[k].temp}) \cup {jobs[k].dest} -> Videos]
         /\ files'[jobs[k].dest] = jobs[k].video
         /\ \A m \in DOMAIN files \ {jobs[k].temp, jobs[k].dest} : files'[m] = files[m]
<1> DEFINE q == jobs[k]
           p == q.temp
           dest == q.dest
<1>1. Types /\ Stored /\ Jobs
  BY DEF IInv, World
<1>2. q.step = "move" /\ p \in DOMAIN files /\ q.kind \in {"organize", "pipeline"}
  BY AtItsStep DEF AtStep
<1>3. q \in JobType /\ Fine(k, q) /\ k \in Nat /\ q.video \in Videos
  BY AtItsStep
<1>6. files' \in [(DOMAIN files \ {p}) \cup {dest} -> Videos] /\ files'[dest] = files[p]
      /\ \A m \in DOMAIN files \ {p, dest} : files'[m] = files[m]
  <2>1. files' = Moved(p, dest)
    OBVIOUS
  <2> HIDE DEF q, p, dest
  <2>2. Types /\ p \in DOMAIN files
    BY <1>1, <1>2
  <2> QED
    BY <2>1, <2>2, MovedIs
<1>8. dest \in Titles[q.video] /\ dest \in Names
  BY <1>2, <1>3, Apart DEF Fine, WellFormed
<1>a. q.kind = "organize" => /\ p \in DOMAIN jobs /\ jobs[p].video = q.video
                             /\ p \notin Names /\ Organizes(k, p)
  BY <1>1, <1>3, Apart, Numbered DEF Fine, OwnsTemp, Organizes
<1>b. p # NoPlace
  BY <1>1, <1>2, Apart, Numbered DEF Stored
<1>c. q.kind = "pipeline" =>
        \/ p = k /\ jobs[p].video = q.video /\ p \notin Names
        \/ p \in Titles[q.video] /\ p \in Names
  BY <1>b, <1>3, Apart DEF Fine, OwnsTemp
<1>9. files[p] = q.video
  <2> HIDE DEF q, p, dest
  <2>1. CASE p \notin Names
    BY <1>1, <1>2, <1>a, <1>c, <2>1 DEF Stored
  <2>2. CASE p \in Names
    <3>1. p \in Titles[files[p]] /\ p \in Titles[q.video] /\ files[p] \in Videos
      BY <1>1, <1>2, <1>a, <1>c, <2>2 DEF Stored, Types
    <3> QED
      BY <1>3, <3>1 DEF TitlesApart
  <2> QED
    BY <2>1, <2>2
<1> QED
  BY <1>6, <1>8, <1>9, <1>a, <1>c

\* Rows and files after a job has put its file into the library.
LEMMA LandingKeeps ==
  ASSUME TitlesApart, IInv, NEW k \in DOMAIN jobs, AtStep(k, "move"),
         jobs[k].temp \in DOMAIN files, files' = Moved(jobs[k].temp, jobs[k].dest),
         NEW r \in JobType, jobs' = [jobs EXCEPT ![k] = r],
         r.kind = jobs[k].kind, r.video = jobs[k].video, r.temp = jobs[k].temp,
         UNCHANGED <<path, title, edited>>, Counted,
         status' = status \/ status' = [status EXCEPT ![r.video] = "organize_failed"]
  PROVE  World' /\ Carries(k) /\ DOMAIN jobs' = DOMAIN jobs
<1> DEFINE q == jobs[k]
           p == q.temp
           dest == q.dest
<1>1. World /\ Types /\ Stored /\ Rows /\ Jobs
  BY DEF IInv, World
<1>2. q.step = "move" /\ p \in DOMAIN files /\ q.kind \in {"organize", "pipeline"}
  BY AtItsStep DEF AtStep
<1>3. q \in JobType /\ Fine(k, q) /\ k \in Nat /\ q.video \in Videos
  BY AtItsStep
<1>4. /\ files[p] = q.video /\ dest \in Titles[q.video] /\ dest \in Names
      /\ q.kind = "organize" => p \notin Names /\ Organizes(k, p)
      /\ q.kind = "pipeline" => (p = k /\ p \notin Names) \/ (p \in Titles[q.video] /\ p \in Names)
      /\ files' \in [(DOMAIN files \ {p}) \cup {dest} -> Videos] /\ files'[dest] = q.video
      /\ \A m \in DOMAIN files \ {p, dest} : files'[m] = files[m]
  BY Landing
<1>5. Shelves(q)
  BY <1>3 DEF Fine
<1>6. r.kind = q.kind /\ r.video = q.video /\ r.temp = p
  OBVIOUS
<1>7. r.kind # "download"
  BY <1>2
<1>8. /\ DOMAIN jobs' = DOMAIN jobs
      /\ \A i \in DOMAIN jobs :
           /\ jobs'[i].kind = jobs[i].kind /\ jobs'[i].video = jobs[i].video
           /\ jobs[i].kind \in {"post", "organize"} => jobs'[i].temp = jobs[i].temp
           /\ jobs[i].kind = "download" /\ jobs[i].step \in {"ending", "done"} =>
                jobs'[i].step \in {"ending", "done"}
  BY <1>1, <1>7, JobsCarry
<1> HIDE DEF q, p, dest
<1>9. DOMAIN files' = (DOMAIN files \ {p}) \cup {dest}
  BY <1>4
<1>14. ASSUME NEW v \in Videos, v \notin edited, title[v] \in DOMAIN files
       PROVE  title[v] \in DOMAIN files'
  <2>1. CASE title[v] # p
    BY <1>9, <1>14, <2>1
  <2>2. CASE title[v] = p
    <3>1. title[v] \in Titles[v] /\ p \in Names /\ p \in Titles[q.video]
      BY <1>1, <1>2, <1>4, <2>2, Apart DEF Rows
    <3>2. v = q.video
      BY <1>3, <2>2, <3>1 DEF TitlesApart
    <3>3. p = title[v] /\ dest = title[v]
      BY <1>2, <1>5, <1>14, <3>1, <3>2 DEF Shelves, p, dest
    <3> QED
      BY <1>9, <3>3
  <2> QED
    BY <2>1, <2>2
<1>15. Carries(k)
  <2>1. \A t \in DOMAIN files : t \notin Names /\ t \notin DOMAIN files' =>
          (t = k /\ jobs[k].kind = "pipeline") \/ Organizes(k, t)
    BY <1>2, <1>4, <1>9 DEF q
  <2>2. \A t \in DOMAIN files' : t \notin Names => t \in DOMAIN files
    BY <1>4, <1>9
  <2> QED
    BY <1>8, <1>14, <2>1, <2>2 DEF Carries, Shelved
<1>16. \A n \in DOMAIN files' : n = dest \/ (n \in DOMAIN files /\ n # p /\ files'[n] = files[n])
  BY <1>4, <1>9
<1>17. /\ status' \in [Videos -> VideoStatus]
       /\ \A v \in Videos : status'[v] = status[v] \/ status'[v] = "organize_failed"
  <2>1. "organize_failed" \in VideoStatus
    BY DEF VideoStatus
  <2> QED
    BY <1>1, <2>1 DEF Types
<1>18. Types'
  BY <1>1, <1>4, <1>9, <1>17 DEF Types, Counted
<1>19. Stored'
  <2>1. k \in DOMAIN files' => r.temp = k
    BY <1>1, <1>3, <1>4, <1>6, <1>16, Apart DEF Stored, q, p
  <2>2. \A t \in DOMAIN files' : t \notin Names => t \in DOMAIN files /\ files'[t] = files[t]
    BY <1>4, <1>16
  <2>3. \A n \in DOMAIN files' : n \in Names => n \in Titles[files'[n]]
    BY <1>1, <1>4, <1>16 DEF Stored
  <2> QED
    BY <2>1, <2>2, <2>3, StoredKeeps
<1>20. ASSUME NEW v \in Videos, v \notin edited, NEW n \in DOMAIN files', n \in Names, files'[n] = v
       PROVE  n = title[v]
  <2>1. CASE n = dest
    BY <1>2, <1>4, <1>5, <1>20, <2>1 DEF Shelves, dest
  <2>2. CASE n # dest
    BY <1>1, <1>16, <1>20, <2>2 DEF Rows
  <2> QED
    BY <2>1, <2>2
<1>21. \A v \in Videos : v \notin edited /\ Shelved(v) => Shelved(v)'
  BY <1>14 DEF Shelved
<1>22. Rows'
  <2>1. ASSUME NEW v \in Videos
        PROVE  /\ title'[v] \in Titles[v] /\ path'[v] \in Titles[v] \cup {NoPlace}
               /\ v \notin edited => /\ path'[v] \in {title'[v], NoPlace}
                                     /\ status'[v] \in {"organized", "complete"} => Shelved(v)'
    BY <1>1, <1>17, <1>21 DEF Rows
  <2> QED
    BY <1>20, <2>1 DEF Rows
<1> QED
  BY <1>8, <1>15, <1>18, <1>19, <1>22 DEF World

\* A job has moved its file into the library.
LEMMA MoveKeeps ==
  ASSUME TitlesApart, IInv, NEW k \in DOMAIN jobs, Move(k)
  PROVE  IInv'
<1> DEFINE q == jobs[k]
           p == q.temp
           dest == q.dest
<1>1. Types /\ Jobs
  BY DEF IInv, World
<1>2. /\ UNCHANGED <<path, title, edited>> /\ status' = status /\ Counted
      /\ AtStep(k, "move") /\ q.step = "move" /\ p \in DOMAIN files
      /\ q.kind \in {"organize", "pipeline"} /\ files' = Moved(p, dest)
  BY <1>1, BoundsCount, AtItsStep DEF Move, AtStep, Exists, row
<1>3. q \in JobType /\ Fine(k, q) /\ q.status \in {"running", "cancelled"} /\ q.video \in Videos
  BY <1>2, AtItsStep
<1>4. PICK r : r = [q EXCEPT !.step = "record"]
  OBVIOUS
<1>5. jobs' = [jobs EXCEPT ![k] = r]
  BY <1>1, <1>4 DEF Move, Advance, Jobs
<1>6. dest \in Titles[q.video] /\ DOMAIN files' = (DOMAIN files \ {p}) \cup {dest} /\ dest \in Names
  BY <1>2, Landing
<1> HIDE DEF q
<1>7. /\ r \in JobType /\ r.kind = q.kind /\ r.video = q.video /\ r.temp = p
      /\ r.step = "record" /\ r.dest = dest /\ r.status = q.status
  BY <1>3, <1>4 DEF JobType, Steps
<1>8. World' /\ Carries(k) /\ DOMAIN jobs' = DOMAIN jobs
  BY <1>2, <1>5, <1>7, LandingKeeps DEF q
<1>9. Fine(k, r)'
  <2>1. WellFormed(r)'
    BY <1>2, <1>3, <1>6, <1>7 DEF WellFormed, Course
  <2>2. OwnsTemp(k, r)'
    <3>1. OwnsTemp(k, q)
      BY <1>3 DEF Fine
    <3>2. r.kind \in {"post", "organize"} =>
            /\ r.temp \in DOMAIN jobs' /\ jobs'[r.temp].kind = "download"
            /\ jobs'[r.temp].video = r.video /\ jobs'[r.temp].step \in {"ending", "done"}
      BY <1>7, <1>8, <3>1 DEF OwnsTemp, Carries
    <3> QED
      BY <1>2, <1>7, <3>1, <3>2 DEF OwnsTemp
  <2>3. ~Over(r) /\ r.kind \in {"organize", "pipeline"}
    BY <1>2, <1>7 DEF Over
  <2>4. r.temp \notin Names => r.temp \notin DOMAIN files'
    BY <1>6, <1>7
  <2>5. Hands(k, r)'
    BY <1>7, <2>3, <2>4 DEF Hands, Over
  <2>6. Shelves(q)
    BY <1>3 DEF Fine
  <2>7. Shelves(r)'
    BY <1>2, <1>6, <1>7, <2>3, <2>6 DEF Shelves
  <2> QED
    BY <2>1, <2>2, <2>5, <2>7 DEF Fine
<1> QED
  BY <1>5, <1>7, <1>8, <1>9, OneStep

\* A copy into the library has failed.
LEMMA FailCopyKeeps ==
  ASSUME TitlesApart, IInv, NEW k \in DOMAIN jobs, FailCopy(k)
  PROVE  IInv'
<1>1. /\ UNCHANGED <<path, title, edited>> /\ Counted /\ Finish(k, "failed")
      /\ AtStep(k, "move") /\ jobs[k].temp \in DOMAIN files /\ jobs[k].kind = "organize"
      /\ files' = Moved(jobs[k].temp, jobs[k].dest)
  BY BoundsCount DEF FailCopy, Copies, Exists, IInv, World
<1>2. PICK r : /\ Fine(k, r) /\ jobs' = [jobs EXCEPT ![k] = r]
               /\ r.kind = jobs[k].kind /\ r.video = jobs[k].video /\ r.temp = jobs[k].temp
               /\ r.step = "done" /\ r.status = "failed"
  BY <1>1, FinishFine
<1>3. status' = [status EXCEPT ![r.video] = "organize_failed"]
  BY <1>1, <1>2 DEF FailCopy, SetStatus, Blame, AtStep
<1>4. r \in JobType /\ WellFormed(r) /\ OwnsTemp(k, r)
  BY <1>2 DEF Fine, WellFormed
<1>5. World' /\ Carries(k) /\ DOMAIN jobs' = DOMAIN jobs
  BY <1>1, <1>2, <1>3, <1>4, LandingKeeps
<1>6. r.temp \notin Names
  BY <1>1, <1>2, Landing
<1>7. Fine(k, r)'
  <2>1. WellFormed(r)'
    BY <1>4 DEF WellFormed
  <2>2. OwnsTemp(k, r)'
    <3>1. /\ r.temp \in DOMAIN jobs' /\ jobs'[r.temp].kind = "download"
          /\ jobs'[r.temp].video = r.video /\ jobs'[r.temp].step \in {"ending", "done"}
      BY <1>1, <1>2, <1>4, <1>5 DEF OwnsTemp, Carries
    <3> QED
      BY <1>1, <1>2, <3>1 DEF OwnsTemp
  <2>3. ~Over(r) /\ r.kind = "organize"
    BY <1>1, <1>2 DEF Over
  <2>4. Hands(k, r)'
    BY <1>2, <2>3 DEF Hands, Over
  <2>5. Shelves(r)'
    BY <1>2, <1>6, <2>3 DEF Shelves
  <2> QED
    BY <2>1, <2>2, <2>4, <2>5 DEF Fine
<1> QED
  BY <1>2, <1>4, <1>5, <1>7, OneStep

\* The row learns where the file went.
LEMMA RecordKeeps ==
  ASSUME IInv, NEW k \in DOMAIN jobs, Record(k)
  PROVE  IInv'
<1> DEFINE q == jobs[k]
<1>1. World /\ Types /\ Stored /\ Rows /\ Jobs
  BY DEF IInv, World
<1>2. /\ UNCHANGED <<title, edited, files>> /\ Counted
      /\ q.step = "record" /\ q.kind \in {"organize", "pipeline"}
  BY <1>1, BoundsCount, AtItsStep DEF Record, disk, AtStep
<1>3. q \in JobType /\ Fine(k, q) /\ q.status \in {"running", "cancelled"} /\ k \in Nat /\ q.video \in Videos
  BY <1>2, AtItsStep
<1>4. path' = [path EXCEPT ![q.video] = q.dest] /\ status' = [status EXCEPT ![q.video] = "organized"]
  BY DEF Record, disk, SetStatus
<1>5. q.dest \in Titles[q.video] /\ q.dest \in Names
  BY <1>2, <1>3, Apart DEF Fine, WellFormed
<1>6. PICK r : /\ r \in JobType /\ jobs' = [jobs EXCEPT ![k] = r]
               /\ r.kind = q.kind /\ r.video = q.video /\ r.temp = q.temp
               /\ \/ r.step = "done" /\ r.status = "cancelled"
                  \/ r.step = "export" /\ q.kind = "pipeline" /\ r.status = q.status
                  \/ r.step = "handoff" /\ q.kind = "organize" /\ r.status = q.status
  <2>1. CASE Finish(k, "cancelled")
    <3>1. PICK r : r = [q EXCEPT !.step = "done", !.status = "cancelled", !.dest = NoPlace]
      OBVIOUS
    <3>2. jobs' = [jobs EXCEPT ![k] = r]
      BY <1>1, <2>1, <3>1 DEF Finish, Jobs
    <3> HIDE DEF q
    <3>3. /\ r \in JobType /\ r.kind = q.kind /\ r.video = q.video /\ r.temp = q.temp
          /\ r.step = "done" /\ r.status = "cancelled"
      BY <1>3, <3>1 DEF JobType, Steps, JobStatus
    <3> QED
      BY <3>2, <3>3
  <2>2. CASE Advance(k, IF q.kind = "pipeline" THEN "export" ELSE "handoff")
    <3> DEFINE step == IF q.kind = "pipeline" THEN "export" ELSE "handoff"
    <3>1. PICK r : r = [q EXCEPT !.step = step]
      OBVIOUS
    <3>2. jobs' = [jobs EXCEPT ![k] = r]
      BY <1>1, <2>2, <3>1 DEF Advance, Jobs
    <3> HIDE DEF q
    <3>3. /\ r \in JobType /\ r.kind = q.kind /\ r.video = q.video /\ r.temp = q.temp
          /\ r.step = step /\ r.status = q.status
      BY <1>3, <3>1 DEF JobType, Steps
    <3> QED
      BY <1>2, <3>2, <3>3
  <2> QED
    BY <2>1, <2>2 DEF Record, disk
<1>v. PICK w \in Videos : w = q.video
  BY <1>3
<1>7. OwnsTemp(k, q) /\ Hands(k, q) /\ Shelves(q)
  BY <1>3 DEF Fine
<1> HIDE DEF q
<1>8. /\ DOMAIN jobs' = DOMAIN jobs
      /\ \A i \in DOMAIN jobs :
           /\ jobs'[i].kind = jobs[i].kind /\ jobs'[i].video = jobs[i].video
           /\ jobs[i].kind \in {"post", "organize"} => jobs'[i].temp = jobs[i].temp
           /\ jobs[i].kind = "download" /\ jobs[i].step \in {"ending", "done"} =>
                jobs'[i].step \in {"ending", "done"}
  <2>1. r.kind = jobs[k].kind /\ r.video = jobs[k].video /\ r.temp = jobs[k].temp /\ r.kind # "download"
    BY <1>2, <1>6 DEF q
  <2> QED
    BY <1>1, <1>6, <2>1, JobsCarry
<1>9. /\ path' \in [Videos -> Names \cup {NoPlace}] /\ status' \in [Videos -> VideoStatus]
      /\ path'[q.video] = q.dest /\ status'[q.video] = "organized"
      /\ \A v \in Videos \ {q.video} : path'[v] = path[v] /\ status'[v] = status[v]
  BY <1>1, <1>3, <1>4, <1>5 DEF Types, VideoStatus
<1>10. q.video \notin edited => q.dest = title[q.video] /\ Shelved(w)'
  BY <1>2, <1>7, <1>9, <1>v DEF Shelves, Shelved
<1>11. \A v \in Videos : v \notin edited /\ Shelved(v) => Shelved(v)'
  BY <1>2, <1>9, <1>10, <1>v DEF Shelved
<1>12. Carries(k)
  BY <1>2, <1>8, <1>11 DEF Carries
<1>13. World'
  <2>1. Types'
    BY <1>1, <1>2, <1>9 DEF Types, Counted
  <2>2. Stored'
    <3>1. k \in DOMAIN files' => r.temp = k
      BY <1>1, <1>2, <1>3, <1>6, Apart DEF Stored, q
    <3>2. r.kind = jobs[k].kind /\ r.video = jobs[k].video
      BY <1>6 DEF q
    <3>3. \A n \in DOMAIN files' : n \in Names => n \in Titles[files'[n]]
      BY <1>1, <1>2 DEF Stored
    <3> QED
      BY <1>2, <1>6, <3>1, <3>2, <3>3, StoredKeeps
  <2>3. ASSUME NEW v \in Videos
        PROVE  /\ title'[v] \in Titles[v] /\ path'[v] \in Titles[v] \cup {NoPlace}
               /\ v \notin edited => /\ path'[v] \in {title'[v], NoPlace}
                                     /\ \A n \in DOMAIN files : n \in Names /\ files[n] = v => n = title[v]
                                     /\ status'[v] \in {"organized", "complete"} => Shelved(v)'
    <3>1. CASE v = q.video
      BY <1>1, <1>2, <1>5, <1>9, <1>10, <1>v, <3>1 DEF Rows
    <3>2. CASE v # q.video
      BY <1>1, <1>2, <1>9, <1>11, <3>2 DEF Rows
    <3> QED
      BY <3>1, <3>2
  <2>4. Rows'
    BY <1>2, <2>3 DEF Rows
  <2> QED
    BY <2>1, <2>2, <2>4 DEF World
<1>14. Fine(k, r)'
  <2>1. WellFormed(r)'
    BY <1>2, <1>3, <1>6, FieldTypes DEF WellFormed, Course
  <2>2. OwnsTemp(k, r)'
    <3>1. r.kind \in {"post", "organize"} =>
            /\ r.temp \in DOMAIN jobs' /\ jobs'[r.temp].kind = "download"
            /\ jobs'[r.temp].video = r.video /\ jobs'[r.temp].step \in {"ending", "done"}
      BY <1>6, <1>7, <1>8 DEF OwnsTemp
    <3> QED
      BY <1>2, <1>6, <1>7, <3>1 DEF OwnsTemp
  <2>3. ~Over(r) /\ r.kind \in {"organize", "pipeline"}
    BY <1>2, <1>6 DEF Over
  <2>4. Hands(k, r)'
    BY <1>2, <1>6, <1>7, <2>3 DEF Hands, Over
  <2>5. Shelves(r)'
    BY <1>2, <1>6, <1>7, <1>10, <1>v, <2>3 DEF Shelves
  <2> QED
    BY <2>1, <2>2, <2>4, <2>5 DEF Fine
<1> QED
  BY <1>6, <1>12, <1>13, <1>14, OneStep

-----------------------------------------------------------------------------
(* Actions on more than one job *)

\* A step that touches no file and makes no job forget what it knew.
LEMMA AllCarry ==
  ASSUME Jobs, Carries(0), TempsStay, jobs' \in Seq(JobType),
         \A j \in DOMAIN jobs' : Fine(j, jobs'[j])
  PROVE  Jobs'
<1>1. ASSUME NEW j \in DOMAIN jobs'
      PROVE  Fine(j, jobs[j])'
  <2>1. PICK r : r = jobs'[j]
    OBVIOUS
  <2>2. j \in Nat
    <3>1. DOMAIN jobs' \subseteq Nat
      OBVIOUS
    <3> QED
      BY <3>1
  <2>3. Fine(j, r)
    BY <2>1
  <2>4. Fine(j, r)'
    BY <2>2, <2>3, CarryFine
  <2> QED
    BY <2>1, <2>4
<1> QED
  BY <1>1 DEF Jobs

\* A job is appended.
LEMMA Appended ==
  ASSUME Jobs, NEW new \in JobType, jobs' = Append(jobs, new)
  PROVE  /\ jobs' \in Seq(JobType) /\ DOMAIN jobs' = DOMAIN jobs \cup {Len(jobs) + 1}
         /\ jobs'[Len(jobs) + 1] = new /\ \A i \in DOMAIN jobs : jobs'[i] = jobs[i]
         /\ Len(jobs) + 1 \in Nat /\ Len(jobs) + 1 \notin DOMAIN jobs
BY DEF Jobs

\* A job is submitted that has what it needs.
LEMMA SubmitKeeps ==
  ASSUME IInv, NEW kind \in Kinds, NEW v \in Videos, NEW t, Submit(kind, v, t),
         NEW r, r = NewJob(kind, v, t), r \in JobType,
         OwnsTemp(Len(jobs) + 1, r), Hands(Len(jobs) + 1, r), Shelves(r)
  PROVE  IInv'
<1> DEFINE n == Len(jobs) + 1
<1>1. World /\ Types /\ Stored /\ Rows /\ Jobs
  BY DEF IInv, World
<1>2. UNCHANGED <<status, path, title, edited, files>> /\ Counted /\ jobs' = Append(jobs, r)
  BY <1>1, BoundsCount DEF Submit, disk, row
<1>3. /\ jobs' \in Seq(JobType) /\ DOMAIN jobs' = DOMAIN jobs \cup {n}
      /\ jobs'[n] = r /\ \A i \in DOMAIN jobs : jobs'[i] = jobs[i]
  BY <1>1, <1>2, Appended
<1>4. WellFormed(r)
  <2>1. r.kind = kind /\ r.step = "queued" /\ r.status = "pending"
    BY DEF NewJob
  <2> QED
    BY <2>1 DEF WellFormed, Course
<1>5. Fine(n, r)
  BY <1>4 DEF Fine
<1> HIDE DEF n
<1>6. Carries(0)
  BY <1>2, <1>3 DEF Carries, Shelved
<1>7. \A j \in DOMAIN jobs' : Fine(j, jobs'[j])
  <2>1. \A j \in DOMAIN jobs : Fine(j, jobs[j])
    BY <1>1 DEF Jobs
  <2> QED
    BY <1>3, <1>5, <2>1
<1>8. Jobs'
  BY <1>1, <1>2, <1>3, <1>6, <1>7, AllCarry DEF TempsStay
<1>9. World'
  <2>1. Types'
    BY <1>1, <1>2 DEF Types, Counted
  <2>2. Stored'
    BY <1>1, <1>2, <1>3 DEF Stored
  <2>3. Rows'
    BY <1>1, <1>2 DEF Rows, Shelved
  <2> QED
    BY <2>1, <2>2, <2>3 DEF World
<1> QED
  BY <1>8, <1>9 DEF IInv

\* Users ask for an import.
LEMMA RequestKeeps ==
  ASSUME IInv, NEW v \in Videos, NEW kind \in Kinds, Request(kind, v)
  PROVE  IInv'
<1>1. PICK r : r = NewJob(kind, v, NoPlace)
  OBVIOUS
<1>2. kind \in {"add", "download", "pipeline"} /\ Submit(kind, v, NoPlace)
  BY ImportAssumption DEF Request
<1>3. /\ r \in JobType /\ r.kind = kind /\ r.video = v /\ r.temp = NoPlace /\ r.step = "queued"
  BY <1>1 DEF NewJob, JobType, Steps, JobStatus
<1>4. ~Over(r)
  BY <1>3 DEF Over
<1>5. OwnsTemp(Len(jobs) + 1, r)
  BY <1>2, <1>3 DEF OwnsTemp
<1>6. Hands(Len(jobs) + 1, r)
  BY <1>2, <1>3, <1>4 DEF Hands
<1>7. Shelves(r)
  BY <1>2, <1>3, Apart DEF Shelves
<1> QED
  BY <1>1, <1>2, <1>3, <1>5, <1>6, <1>7, SubmitKeeps

\* Users submit a job again.
LEMMA RetryKeeps ==
  ASSUME IInv, NEW j \in DOMAIN jobs, Retry(j)
  PROVE  IInv'
<1> DEFINE n == Len(jobs) + 1
<1>1. PICK q : q = jobs[j]
  OBVIOUS
<1>2. PICK t : t = Parameter(j)
  OBVIOUS
<1>3. PICK r : r = NewJob(q.kind, q.video, t)
  OBVIOUS
<1>4. Submit(q.kind, q.video, t)
  BY <1>1, <1>2 DEF Retry
<1>5. q \in JobType /\ Fine(j, q) /\ q.kind \in Kinds /\ q.video \in Videos
  BY <1>1, AtItsStep, FieldTypes
<1>6. /\ q.kind \in {"post", "organize"} => t = q.temp
      /\ q.kind \notin {"post", "organize"} => t = NoPlace
      /\ t \in Names \cup Nat \cup {NoPlace}
  BY <1>1, <1>2, <1>5, FieldTypes DEF Parameter
<1>7. /\ r \in JobType /\ r.kind = q.kind /\ r.video = q.video /\ r.temp = t /\ r.step = "queued"
  BY <1>3, <1>5, <1>6 DEF NewJob, JobType, Steps, JobStatus
<1>8. ~Over(r)
  BY <1>7 DEF Over
<1>9. j # n
  BY Numbered DEF IInv
<1> HIDE DEF n
<1>10. OwnsTemp(n, r)
  BY <1>5, <1>6, <1>7 DEF Fine, OwnsTemp
<1>11. Hands(n, r)
  <2>1. r.kind = "organize" => Organizes(j, r.temp) /\ j \in DOMAIN jobs \ {n}
    BY <1>1, <1>6, <1>7, <1>9 DEF Organizes
  <2>2. r.kind = "post" => r.temp \in DOMAIN files \/ \E i \in DOMAIN jobs : Organizes(i, r.temp)
    BY <1>5, <1>6, <1>7 DEF Fine, Hands
  <2> QED
    BY <1>7, <1>8, <2>1, <2>2 DEF Hands
<1>12. Shelves(r)
  <2>1. Shelves(q)
    BY <1>5 DEF Fine
  <2>2. r.temp \in Names => q.temp = r.temp
    BY <1>6, <1>7, Apart
  <2> QED
    BY <1>7, <2>1, <2>2 DEF Shelves
<1> QED
  BY <1>3, <1>4, <1>5, <1>7, <1>10, <1>11, <1>12, SubmitKeeps DEF n

\* Users change the metadata of a video.
LEMMA EditKeeps ==
  ASSUME IInv, NEW v \in Videos, NEW n \in Names, EditMetadata(v, n)
  PROVE  IInv'
<1>1. World /\ Types /\ Stored /\ Rows /\ Jobs
  BY DEF IInv, World
<1>2. UNCHANGED <<status, path, files, jobs>> /\ Counted /\ n \in Titles[v]
  BY <1>1, BoundsCount DEF EditMetadata, disk
<1>3. /\ title' \in [Videos -> Names] /\ title'[v] = n /\ \A w \in Videos \ {v} : title'[w] = title[w]
      /\ edited' = edited \cup {v}
  BY <1>1 DEF EditMetadata, disk, Types
<1>4. Carries(0)
  BY <1>2, <1>3 DEF Carries, Shelved
<1>5. Jobs'
  BY <1>1, <1>2, <1>4, AllCarry DEF Jobs, TempsStay
<1>6. World'
  <2>1. Types'
    BY <1>1, <1>2, <1>3 DEF Types, Counted
  <2>2. Stored'
    BY <1>1, <1>2 DEF Stored
  <2>3. Rows'
    <3>1. ASSUME NEW w \in Videos
          PROVE  /\ title'[w] \in Titles[w] /\ path'[w] \in Titles[w] \cup {NoPlace}
                 /\ w \notin edited' =>
                      /\ path'[w] \in {title'[w], NoPlace}
                      /\ \A m \in DOMAIN files' : m \in Names /\ files'[m] = w => m = title'[w]
                      /\ status'[w] \in {"organized", "complete"} => Shelved(w)'
      <4>1. CASE w = v
        BY <1>1, <1>2, <1>3, <4>1 DEF Rows
      <4>2. CASE w # v
        BY <1>1, <1>2, <1>3, <4>2 DEF Rows, Shelved
      <4> QED
        BY <4>1, <4>2
    <3> QED
      BY <3>1 DEF Rows
  <2> QED
    BY <2>1, <2>2, <2>3 DEF World
<1> QED
  BY <1>5, <1>6 DEF IInv

\* What a copy into the library that was cut off leaves.
LEMMA CopyLeaves ==
  ASSUME IInv, NEW k \in DOMAIN jobs, Copies(k), CopyLeft(k)
  PROVE  /\ jobs[k].video \in Videos /\ jobs[k].dest \in Titles[jobs[k].video] /\ jobs[k].dest \in Names
         /\ jobs[k].video \notin edited => jobs[k].dest = title[jobs[k].video]
         /\ files' \in [DOMAIN files \cup {jobs[k].dest} -> Videos]
         /\ files'[jobs[k].dest] = jobs[k].video
         /\ \A m \in DOMAIN files \ {jobs[k].dest} : files'[m] = files[m]
<1> DEFINE q == jobs[k]
<1>1. Types /\ Fine(k, q) /\ q.video \in Videos /\ q.step = "move"
  BY AtItsStep DEF IInv, World, Copies, AtStep
<1>2. q.dest \in Titles[q.video] /\ q.dest \in Names /\ (q.video \notin edited => q.dest = title[q.video])
  BY <1>1, Apart DEF Fine, WellFormed, Shelves
<1>3. files' = With(q.dest, q.video)
  BY DEF CopyLeft
<1> HIDE DEF q
<1>4. /\ files' \in [DOMAIN files \cup {q.dest} -> Videos] /\ files'[q.dest] = q.video
      /\ \A m \in DOMAIN files \ {q.dest} : files'[m] = files[m]
  BY <1>1, <1>3 DEF With, Types
<1> QED
  BY <1>1, <1>2, <1>4 DEF q


\* The process stops, or dies and starts again.
LEMMA RestartKeeps ==
  ASSUME IInv, NEW result \in {"failed", "cancelled"}, Restart(result)
  PROVE  IInv'
<1>1. World /\ Types /\ Stored /\ Rows /\ Jobs
  BY DEF IInv, World
<1>2. UNCHANGED <<status, path, title, edited>> /\ Counted
  BY <1>1, BoundsCount DEF Restart, row
<1>a. PICK v, n :
        \/ files' = files
        \/ /\ v \in Videos /\ n \in Names /\ n \in Titles[v] /\ (v \notin edited => n = title[v])
           /\ files' \in [DOMAIN files \cup {n} -> Videos] /\ files'[n] = v
           /\ \A m \in DOMAIN files \ {n} : files'[m] = files[m]
  <2>1. CASE files' = files
    BY <2>1
  <2>2. CASE \E j \in DOMAIN jobs : Copies(j) /\ CopyLeft(j)
    BY <2>2, CopyLeaves
  <2> QED
    BY <2>1, <2>2 DEF Restart, disk
<1>b. /\ DOMAIN files \subseteq DOMAIN files' /\ DOMAIN files' \subseteq DOMAIN files \cup Names
      /\ \A m \in DOMAIN files' :
           \/ m \in DOMAIN files /\ files'[m] = files[m]
           \/ /\ m = n /\ files'[m] = v /\ v \in Videos /\ n \in Names /\ n \in Titles[v]
              /\ v \notin edited => n = title[v]
  BY <1>a
<1>3. DOMAIN jobs' = DOMAIN jobs
  BY DEF Restart
<1>4. ASSUME NEW j \in DOMAIN jobs
      PROVE  /\ Fine(j, jobs'[j]) /\ jobs'[j] \in JobType
             /\ jobs'[j].kind = jobs[j].kind /\ jobs'[j].video = jobs[j].video
             /\ jobs'[j].temp = jobs[j].temp
             /\ jobs'[j].step \in {jobs[j].step, "done"}
  <2>1. PICK q : q = jobs[j]
    OBVIOUS
  <2>2. /\ q \in JobType /\ Fine(j, q)
        /\ q.step \notin {"queued", "done"} => q.status \in {"running", "cancelled"}
    BY <2>1, AtItsStep
  <2>3. CASE ~Handling(j)
    <3>1. jobs'[j] = q
      BY <2>1, <2>3 DEF Restart
    <3> QED
      BY <2>1, <2>2, <3>1
  <2>4. CASE Handling(j)
    <3>1. PICK x : x = IF q.status = "running" THEN result ELSE q.status
      OBVIOUS
    <3>2. PICK r : r = [q EXCEPT !.step = "done", !.status = x, !.dest = NoPlace]
      OBVIOUS
    <3>3. jobs'[j] = r
      BY <2>1, <2>2, <2>4, <3>1, <3>2 DEF Restart, JobType
    <3>4. x \in {"failed", "cancelled"}
      BY <2>1, <2>2, <2>4, <3>1 DEF Handling
    <3>5. /\ r \in JobType /\ r.status = x
          /\ r.kind = q.kind /\ r.video = q.video /\ r.temp = q.temp /\ r.step = "done"
      BY <2>2, <3>2, <3>4 DEF JobType, Steps, JobStatus
    <3>6. Fine(j, r)
      BY <2>2, <3>4, <3>5, DoneFine
    <3> QED
      BY <2>1, <3>3, <3>5, <3>6
  <2> QED
    BY <2>3, <2>4
<1>5. jobs' \in Seq(JobType)
  <2>1. DOMAIN jobs' = 1 .. Len(jobs) /\ Len(jobs) \in Nat
    BY <1>1, <1>3, Numbered
  <2>2. jobs' = [j \in 1 .. Len(jobs) |-> jobs'[j]]
    BY <2>1 DEF Restart
  <2>3. \A j \in 1 .. Len(jobs) : jobs'[j] \in JobType
    BY <1>3, <1>4, <2>1
  <2> QED
    BY <2>1, <2>2, <2>3
<1>6. Carries(0)
  BY <1>2, <1>3, <1>4, <1>b DEF Carries, Shelved
<1>c. TempsStay
  BY <1>b DEF TempsStay
<1>7. Jobs'
  BY <1>1, <1>c, <1>3, <1>4, <1>5, <1>6, AllCarry
<1>8. World'
  <2>1. Types'
    BY <1>1, <1>2, <1>a, <1>b DEF Types, Counted
  <2>2. Stored'
    BY <1>1, <1>a, <1>b, <1>3, <1>4 DEF Stored
  <2>3. Rows'
    BY <1>1, <1>2, <1>a, <1>b DEF Rows, Shelved
  <2> QED
    BY <2>1, <2>2, <2>3 DEF World
<1> QED
  BY <1>7, <1>8 DEF IInv

\* The next job of a chain, which has what it needs once job k is ending.
LEMMA SuccessorFine ==
  ASSUME IInv, NEW k \in DOMAIN jobs, AtStep(k, "handoff"), NEW r, r = Successor(k),
         NEW n, n \notin DOMAIN jobs
  PROVE  /\ WellFormed(r) /\ r.video = jobs[k].video /\ Hands(n, r) /\ Shelves(r)
         /\ \/ jobs[k].kind = "add" /\ r.kind = "download" /\ r.temp = NoPlace
            \/ jobs[k].kind = "download" /\ r.kind = "post" /\ r.temp = k
            \/ jobs[k].kind = "post" /\ r.kind = "organize" /\ r.temp = jobs[k].temp
            \/ jobs[k].kind = "organize" /\ r.kind = "nfo" /\ r.temp = NoPlace
         /\ r.step = "queued"
<1>1. PICK q : q = jobs[k]
  OBVIOUS
<1>2. /\ q \in JobType /\ Fine(k, q) /\ q.video \in Videos /\ k \in Nat /\ q.step = "handoff"
      /\ q.kind \in {"add", "download", "post", "organize"}
  BY <1>1, AtItsStep DEF AtStep
<1>3. OwnsTemp(k, q) /\ Hands(k, q) /\ Shelves(q)
  BY <1>2 DEF Fine
<1>4. /\ q.kind = "download" => q.temp = k /\ k \in DOMAIN files
      /\ q.kind \in {"post", "organize"} => q.temp \in DOMAIN jobs
  BY <1>2, <1>3 DEF OwnsTemp, Hands
<1>5. \/ q.kind = "add" /\ r = NewJob("download", q.video, NoPlace)
      \/ q.kind = "download" /\ r = NewJob("post", q.video, q.temp)
      \/ q.kind = "post" /\ r = NewJob("organize", q.video, q.temp)
      \/ q.kind = "organize" /\ r = NewJob("nfo", q.video, NoPlace)
  BY <1>1, <1>2 DEF Successor
<1>6. /\ r \in JobType /\ r.video = q.video /\ r.step = "queued" /\ r.status = "pending"
      /\ \/ q.kind = "add" /\ r.kind = "download" /\ r.temp = NoPlace
         \/ q.kind = "download" /\ r.kind = "post" /\ r.temp = k
         \/ q.kind = "post" /\ r.kind = "organize" /\ r.temp = q.temp
         \/ q.kind = "organize" /\ r.kind = "nfo" /\ r.temp = NoPlace
  <2>1. q.temp \in Names \cup Nat \cup {NoPlace}
    BY <1>2, FieldTypes
  <2> QED
    BY <1>2, <1>4, <1>5, <2>1 DEF NewJob, JobType, Kinds, Steps, JobStatus
<1>7. WellFormed(r)
  BY <1>6 DEF WellFormed, Course, Kinds
<1>8. ~Over(r)
  BY <1>6 DEF Over
<1>9. Hands(n, r)
  <2>1. r.kind = "post" => r.temp \in DOMAIN files
    BY <1>4, <1>6
  <2>2. r.kind = "organize" => r.temp \in DOMAIN files \/ \E i \in DOMAIN jobs \ {n} : Organizes(i, r.temp)
    BY <1>3, <1>6 DEF Hands
  <2> QED
    BY <1>6, <1>8, <2>1, <2>2 DEF Hands
<1>10. Shelves(r)
  <2>1. r.temp \notin Names
    BY <1>2, <1>4, <1>6, Apart, Numbered DEF IInv
  <2>2. r.kind = "nfo" /\ r.video \notin edited => Shelved(r.video)
    BY <1>2, <1>3, <1>6 DEF Shelves
  <2> QED
    BY <1>6, <2>1, <2>2 DEF Shelves
<1> QED
  BY <1>1, <1>6, <1>7, <1>9, <1>10

\* A job of a chain submits the next.
LEMMA HandOffKeeps ==
  ASSUME IInv, NEW k \in DOMAIN jobs, HandOff(k)
  PROVE  IInv'
<1>1. World /\ Types /\ Stored /\ Rows /\ Jobs
  BY DEF IInv, World
<1>2. UNCHANGED <<status, path, title, edited, files>> /\ Counted /\ AtStep(k, "handoff")
  BY <1>1, BoundsCount DEF HandOff, disk, row
<1>3. PICK q : q = jobs[k]
  OBVIOUS
<1>4. PICK r : r = [q EXCEPT !.step = "ending"]
  OBVIOUS
<1>5. PICK new : new = Successor(k)
  OBVIOUS
<1>6. PICK n : n = Len(jobs) + 1
  OBVIOUS
<1>7. /\ q \in JobType /\ Fine(k, q) /\ q.video \in Videos /\ k \in Nat /\ q.step = "handoff"
      /\ q.kind \in {"add", "download", "post", "organize"} /\ q.status \in {"running", "cancelled"}
  BY <1>2, <1>3, AtItsStep DEF AtStep
<1>8. /\ r \in JobType /\ r.kind = q.kind /\ r.video = q.video /\ r.temp = q.temp
      /\ r.step = "ending" /\ r.status = q.status
  BY <1>4, <1>7 DEF JobType, Steps
<1>9. n \notin DOMAIN jobs /\ n \in Nat /\ n # k
  BY <1>1, <1>6, Numbered
<1>10. /\ WellFormed(new) /\ new.video = q.video /\ Hands(n, new) /\ Shelves(new)
       /\ \/ q.kind = "add" /\ new.kind = "download" /\ new.temp = NoPlace
          \/ q.kind = "download" /\ new.kind = "post" /\ new.temp = k
          \/ q.kind = "post" /\ new.kind = "organize" /\ new.temp = q.temp
          \/ q.kind = "organize" /\ new.kind = "nfo" /\ new.temp = NoPlace
       /\ new.step = "queued"
  BY <1>2, <1>3, <1>5, <1>9, SuccessorFine
<1>11. new \in JobType
  BY <1>10 DEF WellFormed
<1>12. /\ jobs' \in Seq(JobType) /\ DOMAIN jobs' = DOMAIN jobs \cup {n}
       /\ jobs'[n] = new /\ jobs'[k] = r /\ \A i \in DOMAIN jobs \ {k} : jobs'[i] = jobs[i]
  <2> DEFINE mid == [jobs EXCEPT ![k] = r]
  <2>1. jobs' = Append(mid, new)
    BY <1>1, <1>3, <1>4, <1>5 DEF HandOff, disk, Jobs
  <2>2. mid \in Seq(JobType) /\ Len(mid) = Len(jobs) /\ DOMAIN mid = DOMAIN jobs /\ mid[k] = r
        /\ \A i \in DOMAIN jobs \ {k} : mid[i] = jobs[i]
    BY <1>1, <1>8 DEF Jobs
  <2> HIDE DEF mid
  <2> QED
    BY <1>6, <1>9, <1>11, <2>1, <2>2
<1>13. Carries(k)
  <2>1. ASSUME NEW i \in DOMAIN jobs
        PROVE  /\ jobs'[i].kind = jobs[i].kind /\ jobs'[i].video = jobs[i].video
               /\ jobs[i].kind \in {"post", "organize"} => jobs'[i].temp = jobs[i].temp
               /\ jobs[i].kind = "download" /\ jobs[i].step \in {"ending", "done"} =>
                    jobs'[i].step \in {"ending", "done"}
    <3>1. CASE i = k
      BY <1>3, <1>8, <1>12, <3>1
    <3>2. CASE i # k
      BY <1>12, <3>2
    <3> QED
      BY <3>1, <3>2
  <2> QED
    BY <1>2, <1>12, <2>1 DEF Carries, Shelved
<1>14. OwnsTemp(k, q) /\ Hands(k, q) /\ Shelves(q) /\ WellFormed(q)
  BY <1>7 DEF Fine
<1>15. q.kind \in {"post", "organize"} =>
         /\ q.temp \in DOMAIN jobs' /\ jobs'[q.temp].kind = "download"
         /\ jobs'[q.temp].video = q.video /\ jobs'[q.temp].step \in {"ending", "done"}
  BY <1>13, <1>14 DEF OwnsTemp, Carries
<1>16. Fine(n, new)'
  <2>1. WellFormed(new)'
    BY <1>10 DEF WellFormed
  <2>2. OwnsTemp(n, new)'
    BY <1>3, <1>7, <1>8, <1>10, <1>12, <1>15 DEF OwnsTemp
  <2>3. Hands(n, new)'
    <3>1. ~Over(new) /\ new.kind \notin {"pipeline"}
      BY <1>10 DEF Over
    <3>2. new.kind = "post" => new.temp \in DOMAIN files'
      BY <1>2, <1>7, <1>10, <1>14 DEF Hands
    <3>3. new.kind = "organize" =>
            new.temp \in DOMAIN files' \/ \E i \in DOMAIN jobs' \ {n} : Organizes(i, new.temp)'
      <4>1. new.kind = "organize" =>
              new.temp \in DOMAIN files \/ \E i \in DOMAIN jobs \ {n} : Organizes(i, new.temp)
        BY <1>10 DEF Hands
      <4>2. \A i \in DOMAIN jobs : Organizes(i, new.temp) => i \in DOMAIN jobs' /\ Organizes(i, new.temp)'
        BY <1>13 DEF Carries, Organizes
      <4> QED
        BY <1>2, <4>1, <4>2
    <3> QED
      BY <1>10, <3>1, <3>2, <3>3 DEF Hands, Over
  <2>4. Shelves(new)'
    BY <1>2, <1>10 DEF Shelves, Shelved
  <2> QED
    BY <2>1, <2>2, <2>3, <2>4 DEF Fine
<1>17. Fine(k, r)'
  <2>1. WellFormed(r)'
    BY <1>7, <1>8 DEF WellFormed, Course, Kinds
  <2>2. OwnsTemp(k, r)'
    BY <1>7, <1>8, <1>14, <1>15 DEF OwnsTemp
  <2>3. Hands(k, r)'
    <3>1. r.kind = "download" => n \in DOMAIN jobs' /\ jobs'[n].kind = "post" /\ jobs'[n].temp = k
      BY <1>8, <1>10, <1>12
    <3>2. r.kind = "post" => n \in DOMAIN jobs' /\ Organizes(n, r.temp)'
      BY <1>8, <1>10, <1>12 DEF Organizes
    <3>3. r.kind = "organize" /\ r.temp \notin Names => r.temp \notin DOMAIN files'
      BY <1>2, <1>7, <1>8, <1>14 DEF Hands
    <3>4. r.kind # "pipeline"
      BY <1>7, <1>8
    <3> QED
      BY <1>8, <3>1, <3>2, <3>3, <3>4 DEF Hands
  <2>4. Shelves(r)'
    BY <1>2, <1>7, <1>8, <1>14 DEF Shelves, Shelved
  <2> QED
    BY <2>1, <2>2, <2>3, <2>4 DEF Fine
<1>18. ASSUME NEW j \in DOMAIN jobs'
       PROVE  Fine(j, jobs[j])'
  <2>1. PICK x : x = jobs'[j]
    OBVIOUS
  <2>2. Fine(j, x)'
    <3>1. CASE j = n
      BY <1>12, <1>16, <2>1, <3>1
    <3>2. CASE j = k
      BY <1>12, <1>17, <2>1, <3>2
    <3>3. CASE j \in DOMAIN jobs \ {k}
      <4>1. x = jobs[j] /\ Fine(j, x) /\ j \in Nat
        BY <1>1, <1>12, <2>1, <3>3, Numbered DEF Jobs
      <4> QED
        BY <1>1, <1>13, <3>3, <4>1, CarryFine
    <3> QED
      BY <1>12, <3>1, <3>2, <3>3
  <2> QED
    BY <2>1, <2>2
<1>19. World'
  <2>1. Types'
    BY <1>1, <1>2 DEF Types, Counted
  <2>2. Stored'
    <3>1. ASSUME NEW t \in DOMAIN files, t \notin Names
          PROVE  /\ t \in DOMAIN jobs' /\ jobs'[t].kind \in {"download", "pipeline"}
                 /\ jobs'[t].temp = t /\ files[t] = jobs'[t].video
      <4>1. /\ t \in DOMAIN jobs /\ jobs[t].kind \in {"download", "pipeline"}
            /\ jobs[t].temp = t /\ files[t] = jobs[t].video
        BY <1>1, <3>1 DEF Stored
      <4>2. CASE t = k
        BY <1>3, <1>8, <1>12, <4>1, <4>2
      <4>3. CASE t # k
        BY <1>12, <4>1, <4>3
      <4> QED
        BY <4>2, <4>3
    <3> QED
      BY <1>1, <1>2, <3>1 DEF Stored
  <2>3. Rows'
    BY <1>1, <1>2 DEF Rows, Shelved
  <2> QED
    BY <2>1, <2>2, <2>3 DEF World
<1>20. Jobs'
  BY <1>12, <1>18 DEF Jobs
<1> QED
  BY <1>19, <1>20 DEF IInv

-----------------------------------------------------------------------------
(* Theorems *)

\* The initial state.
LEMMA InitIInv == ASSUME Init PROVE IInv
<1>1. Types
  <2>1. status \in [Videos -> VideoStatus]
    BY DEF Init, VideoStatus
  <2> QED
    BY <2>1, ImportAssumption DEF Init, Types
<1>2. Stored
  BY DEF Init, Stored
<1>3. Rows
  BY ImportAssumption DEF Init, Rows
<1>4. Jobs
  BY DEF Init, Jobs
<1> QED
  BY <1>1, <1>2, <1>3, <1>4 DEF IInv, World

-----------------------------------------------------------------------------
(* The whole copies of a video *)

\* The only whole copy of v is what a move writes over.
Struck(v) ==
  \E j \in DOMAIN jobs :
    /\ AtStep(j, "move") /\ Whole(v) = {jobs[j].dest}
    /\ \/ jobs[j].kind = "organize" /\ jobs'[j].step = "done"
       \/ jobs[j].temp \in torn

Kept == \A v \in Videos : Whole(v) # {} => Whole(v)' # {} \/ Struck(v)

\* What changes one file of the library, that of video w at n, strikes at w alone.
LEMMA OthersWhole ==
  ASSUME TitlesApart, IInv, NEW w \in Videos, NEW n \in Titles[w],
         \A m \in Names : m \in DOMAIN files /\ m # n =>
           m \in DOMAIN files' /\ files'[m] = files[m],
         torn' \subseteq torn \cup {n},
         NEW v \in Videos, Whole(v) # {}
  PROVE  Whole(v)' # {} \/ (v = w /\ Whole(v) = {n})
<1>1. Stored /\ n \in Names
  BY Apart DEF IInv, World
<1>2. \A m \in Whole(v) : m # n => m \in Whole(v)'
  BY DEF Whole, Library, Exists
<1>3. n \in Whole(v) => v = w
  BY <1>1 DEF Whole, Library, Exists, Stored, TitlesApart
<1> QED
  BY <1>2, <1>3

\* A move takes a whole file along, or the torn one replaces the last whole one.
LEMMA MoveKept ==
  ASSUME TitlesApart, IInv, NEW k \in DOMAIN jobs, Move(k)
  PROVE  Kept
<1> DEFINE q == jobs[k]
           p == q.temp
           dest == q.dest
<1>1. /\ AtStep(k, "move") /\ p \in DOMAIN files /\ files' = Moved(p, dest)
      /\ torn' = (torn \ {p, dest}) \cup Carried(k)
  BY DEF Move, Exists
<1>2. /\ files[p] = q.video /\ dest \in Titles[q.video] /\ dest \in Names
      /\ dest \in DOMAIN files' /\ files'[dest] = q.video
      /\ \A m \in DOMAIN files : m \notin {p, dest} => m \in DOMAIN files' /\ files'[m] = files[m]
      /\ q.video \in Videos
  <2>1. /\ files[p] = q.video /\ dest \in Titles[q.video] /\ dest \in Names
        /\ files' \in [(DOMAIN files \ {p}) \cup {dest} -> Videos] /\ files'[dest] = q.video
        /\ \A m \in DOMAIN files \ {p, dest} : files'[m] = files[m]
    BY <1>1, Landing
  <2>2. q.video \in Videos
    BY AtItsStep
  <2> HIDE DEF q, p, dest
  <2> QED
    BY <2>1, <2>2
<1>3. p \notin torn => Carried(k) = {}
  BY DEF Carried
<1>4. p \in torn => Carried(k) = {dest}
  BY DEF Carried
<1>5. ASSUME NEW v \in Videos, Whole(v) # {}
      PROVE  Whole(v)' # {} \/ Struck(v)
  <2>1. CASE v = q.video /\ p \notin torn
    <3>1. dest \in Whole(v)'
      BY <1>1, <1>2, <1>3, <2>1 DEF Whole, Library, Exists
    <3> QED
      BY <3>1
  <2>2. CASE v = q.video /\ p \in torn
    <3>1. \A m \in Whole(v) : m # p
      BY <2>2 DEF Whole
    <3>2. \A m \in Whole(v) : m # dest => m \in Whole(v)'
      BY <1>1, <1>2, <1>4, <2>2, <3>1 DEF Whole, Library, Exists
    <3>3. CASE Whole(v) = {dest}
      BY <1>1, <2>2, <3>3 DEF Struck
    <3> QED
      BY <1>5, <3>2, <3>3
  <2>3. CASE v # q.video
    <3>1. PICK n \in Whole(v) : TRUE
      BY <1>5
    <3>2. n \in Names /\ n \in DOMAIN files /\ files[n] = v /\ n \notin torn
      BY <3>1 DEF Whole, Library, Exists
    <3>3. n \in Titles[v]
      BY <3>2 DEF IInv, World, Stored
    <3>4. n # p /\ n # dest
      BY <1>2, <2>3, <3>2, <3>3 DEF TitlesApart
    <3>5. n \in Whole(v)'
      <4>1. n \notin torn'
        BY <1>1, <1>3, <1>4, <3>2, <3>4
      <4> QED
        BY <1>2, <3>2, <3>4, <4>1 DEF Whole, Library, Exists
    <3> QED
      BY <3>5
  <2> QED
    BY <2>1, <2>2, <2>3
<1> QED
  BY <1>5 DEF Kept

\* A copy that fails strikes at what it was written over.
LEMMA FailCopyKept ==
  ASSUME TitlesApart, IInv, NEW k \in DOMAIN jobs, FailCopy(k)
  PROVE  Kept
<1> DEFINE q == jobs[k]
           p == q.temp
           dest == q.dest
<1>1. /\ AtStep(k, "move") /\ p \in DOMAIN files /\ files' = Moved(p, dest)
      /\ q.kind = "organize" /\ torn' \subseteq torn \cup {dest} /\ Finish(k, "failed")
  BY DEF FailCopy, Copies, Exists
<1>2. /\ dest \in Titles[q.video] /\ q.video \in Videos
      /\ \A m \in Names : m \in DOMAIN files /\ m # dest =>
           m \in DOMAIN files' /\ files'[m] = files[m]
  <2>1. /\ dest \in Titles[q.video] /\ p \notin Names
        /\ files' \in [(DOMAIN files \ {p}) \cup {dest} -> Videos]
        /\ \A m \in DOMAIN files \ {p, dest} : files'[m] = files[m]
    BY <1>1, Landing
  <2>2. q.video \in Videos
    BY AtItsStep
  <2> HIDE DEF q, p, dest
  <2> QED
    BY <2>1, <2>2
<1>3. jobs'[k].step = "done"
  <2>1. jobs[k] \in JobType
    BY AtItsStep
  <2> QED
    BY <1>1, <2>1 DEF Finish, JobType, IInv, Jobs
<1>4. ASSUME NEW v \in Videos, Whole(v) # {}
      PROVE  Whole(v)' # {} \/ Struck(v)
  <2>1. Whole(v)' # {} \/ Whole(v) = {dest}
    BY <1>1, <1>2, <1>4, OthersWhole
  <2> QED
    BY <1>1, <1>3, <2>1 DEF Struck
<1> QED
  BY <1>4 DEF Kept

\* So does a crash in the middle of one.
LEMMA RestartKept ==
  ASSUME TitlesApart, IInv, NEW result \in {"failed", "cancelled"}, Restart(result)
  PROVE  Kept
<1>1. CASE UNCHANGED disk
  BY <1>1 DEF disk, Kept, Whole, Library, Exists
<1>2. ASSUME NEW k \in DOMAIN jobs, Copies(k), CopyLeft(k)
      PROVE  Kept
  <2>1. /\ jobs[k].dest \in Titles[jobs[k].video] /\ jobs[k].video \in Videos
        /\ files' \in [DOMAIN files \cup {jobs[k].dest} -> Videos]
        /\ \A m \in DOMAIN files \ {jobs[k].dest} : files'[m] = files[m]
    BY <1>2, CopyLeaves
  <2>2. AtStep(k, "move") /\ jobs[k].kind = "organize" /\ torn' \subseteq torn \cup {jobs[k].dest}
    BY <1>2 DEF Copies, CopyLeft
  <2>3. Handling(k)
    BY <2>2 DEF Handling, AtStep
  <2>4. jobs[k] \in JobType
    BY AtItsStep
  <2>5. jobs'[k].step = "done"
    BY <2>3, <2>4 DEF Restart, JobType
  <2>6. ASSUME NEW v \in Videos, Whole(v) # {}
        PROVE  Whole(v)' # {} \/ Struck(v)
    <3>1. \A m \in Names : m \in DOMAIN files /\ m # jobs[k].dest =>
             m \in DOMAIN files' /\ files'[m] = files[m]
      BY <2>1
    <3>2. Whole(v)' # {} \/ Whole(v) = {jobs[k].dest}
      BY <2>1, <2>2, <2>6, <3>1, OthersWhole
    <3> QED
      BY <2>2, <2>5, <3>2 DEF Struck
  <2> QED
    BY <2>6 DEF Kept
<1> QED
  BY <1>1, <1>2 DEF Restart

\* Every step of the program keeps the invariant, and a whole copy of each video
\* or strikes at the only one.
LEMMA NextIInv ==
  ASSUME TitlesApart, IInv, [Next]_vars
  PROVE  IInv' /\ Kept /\ (torn \subseteq Names => torn' \subseteq Names)
<1> DEFINE Stays == \A n \in Names : n \in DOMAIN files => n \in DOMAIN files' /\ files'[n] = files[n]
           Goal == IInv' /\ Kept /\ (torn \subseteq Names => torn' \subseteq Names)
<1>1. IInv' /\ Stays /\ UNCHANGED torn => Goal
  BY DEF Kept, Whole, Library, Exists
<1>2. UNCHANGED disk => Stays /\ UNCHANGED torn
  BY DEF disk
<1>3. ASSUME NEW v \in Videos, NEW kind \in Kinds, Request(kind, v)
      PROVE  Goal
  <2>1. IInv' /\ UNCHANGED disk
    BY <1>3, RequestKeeps DEF Request, Submit
  <2> QED
    BY <1>1, <1>2, <2>1
<1>4. ASSUME NEW v \in Videos, NEW n \in Names, EditMetadata(v, n)
      PROVE  Goal
  <2>1. IInv' /\ UNCHANGED disk
    BY <1>4, EditKeeps DEF EditMetadata
  <2> QED
    BY <1>1, <1>2, <2>1
<1>5. ASSUME NEW j \in DOMAIN jobs, Retry(j)
      PROVE  Goal
  <2>1. IInv' /\ UNCHANGED disk
    BY <1>5, RetryKeeps DEF Retry, Submit
  <2> QED
    BY <1>1, <1>2, <2>1
<1>6. ASSUME NEW j \in DOMAIN jobs, Cancel(j)
      PROVE  Goal
  <2>1. IInv' /\ UNCHANGED disk
    BY <1>6, CancelKeeps DEF Cancel
  <2> QED
    BY <1>1, <1>2, <2>1
<1>7. ASSUME NEW result \in {"failed", "cancelled"}, Restart(result)
      PROVE  Goal
  <2>1. IInv' /\ Kept
    BY <1>7, RestartKeeps, RestartKept
  <2>2. CASE UNCHANGED disk
    BY <2>1, <2>2 DEF disk
  <2>3. ASSUME NEW j \in DOMAIN jobs, Copies(j), CopyLeft(j)
        PROVE  torn' \subseteq torn \cup Names
    <3>1. jobs[j].dest \in Names
      BY <2>3, CopyLeaves
    <3>2. torn' \subseteq torn \cup {jobs[j].dest}
      BY <2>3 DEF CopyLeft
    <3> QED
      BY <3>1, <3>2
  <2> QED
    BY <1>7, <2>1, <2>2, <2>3 DEF Restart
<1>8. ASSUME NEW j \in DOMAIN jobs, Step(j)
      PROVE  Goal
  <2>1. CASE Take(j)
    BY <1>1, <1>2, <2>1, TakeKeeps DEF Take
  <2>2. CASE Discard(j)
    BY <1>1, <1>2, <2>2, DiscardKeeps DEF Discard
  <2>3. CASE BeginAdd(j)
    BY <1>1, <1>2, <2>3, BeginAddKeeps DEF BeginAdd
  <2>a. CASE Create(j)
    BY <1>1, <1>2, <2>a, CreateKeeps DEF Create
  <2>4. CASE Created(j)
    BY <1>1, <1>2, <2>4, CreatedKeeps DEF Created
  <2>5. CASE BeginDownload(j)
    BY <1>1, <1>2, <2>5, BeginDownloadKeeps, ZenonT(40) DEF BeginDownload
  <2>6. CASE BeginPipeline(j)
    BY <1>1, <1>2, <2>6, BeginPipelineKeeps DEF BeginPipeline
  <2>7. CASE Acquire(j)
    BY <1>1, <1>2, <2>7, AcquireKeeps DEF Acquire
  <2>8. CASE Fetched(j)
    BY <1>1, <2>8, FetchedKeeps DEF Fetched
  <2>9. CASE Process(j)
    BY <1>1, <1>2, <2>9, ProcessKeeps DEF Process
  <2>10. CASE Probed(j)
    BY <1>1, <1>2, <2>10, ProbedKeeps DEF Probed
  <2>11. CASE Organize(j)
    BY <1>1, <2>11, OrganizeKeeps DEF Organize
  <2>12. CASE Move(j)
    <3>1. torn' \subseteq torn \cup {jobs[j].dest} /\ jobs[j].dest \in Names
      BY <2>12, Landing DEF Move, Exists, Carried
    <3> QED
      BY <2>12, <3>1, MoveKeeps, MoveKept
  <2>13. CASE Record(j)
    BY <1>1, <1>2, <2>13, RecordKeeps DEF Record
  <2>14. CASE BeginNfo(j)
    BY <1>1, <1>2, <2>14, BeginNfoKeeps DEF BeginNfo
  <2>15. CASE Export(j)
    BY <1>1, <1>2, <2>15, ExportKeeps DEF Export
  <2>16. CASE HandOff(j)
    BY <1>1, <1>2, <2>16, HandOffKeeps DEF HandOff
  <2>17. CASE End(j)
    BY <1>1, <1>2, <2>17, EndKeeps DEF End
  <2>18. CASE Fail(j)
    BY <1>1, <2>18, FailsKeep DEF Fail
  <2>b. CASE FailCopy(j)
    <3>1. torn' \subseteq torn \cup {jobs[j].dest} /\ jobs[j].dest \in Names
      BY <2>b, Landing DEF FailCopy, Copies, Exists
    <3> QED
      BY <2>b, <3>1, FailCopyKeeps, FailCopyKept
  <2> QED
    BY <1>8, <2>1, <2>2, <2>3, <2>4, <2>5, <2>6, <2>7, <2>8, <2>9, <2>10, <2>11, <2>12, <2>13,
       <2>14, <2>15, <2>16, <2>17, <2>18, <2>a, <2>b DEF Step
<1>9. CASE UNCHANGED vars
  <2>1. UNCHANGED <<status, path, title, edited, files, torn, jobs, requests, changes, faults>>
    BY <1>9 DEF vars
  <2>2. Carries(0)
    BY <2>1 DEF Carries, Shelved
  <2>3. Jobs'
    BY <2>1, <2>2, AllCarry DEF IInv, Jobs, TempsStay
  <2>4. World'
    BY <2>1 DEF IInv, World, Types, Stored, Rows, Shelved
  <2> QED
    BY <1>1, <1>2, <2>1, <2>3, <2>4 DEF IInv
<1>10. CASE Next
  <2>1. CASE \E v \in Videos, kind \in Kinds : Request(kind, v)
    BY <1>3, <2>1
  <2>2. CASE \E v \in Videos, n \in Names : EditMetadata(v, n)
    BY <1>4, <2>2
  <2>3. CASE \E j \in DOMAIN jobs : Retry(j) \/ Cancel(j)
    BY <1>5, <1>6, <2>3
  <2>4. CASE \E result \in {"failed", "cancelled"} : Restart(result)
    BY <1>7, <2>4
  <2>5. CASE \E j \in DOMAIN jobs : Step(j)
    BY <1>8, <2>5
  <2> QED
    BY <1>10, <2>1, <2>2, <2>3, <2>4, <2>5 DEF Next, Progress
<1> QED
  BY <1>9, <1>10

\* What the invariant says of the jobs and of the temporary files.
LEMMA InvFollows == ASSUME IInv, torn \subseteq Names PROVE Inv
<1>1. World /\ Types /\ Stored /\ Rows /\ Jobs
  BY DEF IInv, World
<1>2. DOMAIN jobs \subseteq Nat
  BY <1>1, Numbered
<1>3. TypeOK
  <2>1. DOMAIN files \subseteq Places \ {NoPlace}
    BY <1>1, <1>2, Apart DEF Stored, Places
  <2>2. Range(files) \subseteq Videos
    BY <1>1 DEF Types, Range
  <2>3. ASSUME NEW j \in DOMAIN jobs
        PROVE  jobs[j] \in Job
    <3>1. PICK q : q = jobs[j]
      OBVIOUS
    <3>2. q \in JobType /\ Fine(j, q)
      BY <3>1, AtItsStep
    <3>3. q.temp \in Places
      <4>1. q.temp \in {NoPlace, j} \cup Titles[q.video] \cup DOMAIN jobs
        BY <3>2, FieldTypes DEF Fine, OwnsTemp, Kinds
      <4> QED
        BY <3>2, <4>1, FieldTypes, Apart DEF Places
    <3>4. q \in Job
      BY <3>2, <3>3 DEF JobType, Job
    <3> QED
      BY <3>1, <3>4
  <2>4. jobs \in Seq(Job)
    BY <1>1, <2>3 DEF Jobs
  <2>5. \A v \in Videos : title[v] \in Titles[v]
    BY <1>1 DEF Rows
  <2> QED
    BY <1>1, <2>1, <2>2, <2>4, <2>5 DEF Types, TypeOK
<1>4. FileWaitsForJob
  <2>1. ASSUME NEW j \in DOMAIN jobs, jobs[j].kind \in {"post", "organize"},
               jobs[j].step \in {"queued", "begin", "probe", "move"}
        PROVE  \/ Exists(jobs[j].temp)
               \/ \E i \in DOMAIN jobs \ {j} : jobs[i].kind = "organize" /\ jobs[i].temp = jobs[j].temp
    <3>1. PICK q : q = jobs[j]
      OBVIOUS
    <3>2. Hands(j, q) /\ <<q.step, q.kind>> \in Course
      BY <3>1, AtItsStep DEF Fine, WellFormed
    <3>3. CASE q.kind = "post"
      <4>1. q.temp \in DOMAIN files \/ \E i \in DOMAIN jobs : Organizes(i, q.temp)
        BY <3>2, <3>3 DEF Hands
      <4> QED
        BY <3>1, <3>3, <4>1 DEF Exists, Organizes
    <3>4. CASE q.kind = "organize"
      <4>1. q.step \in {"queued", "begin", "move"}
        BY <2>1, <3>1, <3>2, <3>4 DEF Course
      <4>2. q.temp \in DOMAIN files \/ \E i \in DOMAIN jobs \ {j} : Organizes(i, q.temp)
        BY <3>2, <3>4, <4>1 DEF Hands
      <4> QED
        BY <3>1, <4>2 DEF Exists, Organizes
    <3> QED
      BY <2>1, <3>1, <3>3, <3>4
  <2> QED
    BY <2>1 DEF FileWaitsForJob
<1>5. TempHasHeir
  <2>1. ASSUME NEW j \in DOMAIN jobs, ~Active(j), ~Retryable(j)
        PROVE  Over(jobs[j])
    BY <2>1, AtItsStep DEF Active, Retryable, AtStep, Over
  <2>2. ASSUME NEW t \in DOMAIN files, t \notin Names
        PROVE  \E j \in DOMAIN jobs : jobs[j].temp = t /\ (Active(j) \/ Retryable(j))
    <3>1. t \in DOMAIN jobs /\ jobs[t].kind \in {"download", "pipeline"} /\ jobs[t].temp = t
      BY <1>1, <2>2 DEF Stored
    <3>2. ASSUME NEW j \in DOMAIN jobs, jobs[j].kind \in {"organize", "pipeline"}, jobs[j].temp = t
          PROVE  Active(j) \/ Retryable(j)
      <4>1. Over(jobs[j]) => t \notin DOMAIN files
        BY <2>2, <3>2, AtItsStep DEF Fine, Hands
      <4> QED
        BY <2>1, <2>2, <4>1
    <3>3. ASSUME NEW j \in DOMAIN jobs, jobs[j].kind = "post", jobs[j].temp = t
          PROVE  Active(j) \/ Retryable(j) \/ \E i \in DOMAIN jobs : Organizes(i, t)
      <4>1. Over(jobs[j]) => \E i \in DOMAIN jobs : Organizes(i, t)
        BY <3>3, AtItsStep DEF Fine, Hands
      <4> QED
        BY <2>1, <4>1
    <3>4. jobs[t].kind = "download" =>
            Active(t) \/ Retryable(t) \/ \E i \in DOMAIN jobs : jobs[i].kind = "post" /\ jobs[i].temp = t
      <4>1. jobs[t].kind = "download" /\ Over(jobs[t]) =>
              \E i \in DOMAIN jobs : jobs[i].kind = "post" /\ jobs[i].temp = t
        BY <3>1, AtItsStep DEF Fine, Hands
      <4> QED
        BY <2>1, <3>1, <4>1
    <3> QED
      BY <3>1, <3>2, <3>3, <3>4 DEF Organizes
  <2> QED
    BY <2>2 DEF TempHasHeir
<1> QED
  BY <1>3, <1>4, <1>5 DEF Inv

\* Every job that needs a file has it, or shares it with the job of a retry, and
\* every temporary file has a job that is at work on it or can be retried: no
\* handler removes what it handed on and no chain that ends well leaves a file.
THEOREM InvCorrect ==
  ASSUME TitlesApart
  PROVE  Spec => []Inv
<1> DEFINE J == IInv /\ torn \subseteq Names
<1>1. Init => J
  BY InitIInv DEF Init
<1>2. J /\ [Next]_vars => J'
  BY NextIInv
<1>3. J => Inv
  BY InvFollows
<1> QED
  BY <1>1, <1>2, <1>3, PTL DEF Spec

\* A row that says organized or complete names a file that shows its video, as
\* long as nobody edited the metadata, whatever jobs worked on it at a time.
THEOREM OrganizedRowHasFileCorrect ==
  ASSUME TitlesApart
  PROVE  Spec => []OrganizedRowHasFile
<1>1. Init => IInv
  BY InitIInv
<1>2. IInv /\ [Next]_vars => IInv'
  BY NextIInv
<1>3. IInv => OrganizedRowHasFile
  <2> HAVE IInv
  <2>1. World /\ Types /\ Stored /\ Rows
    BY DEF IInv, World
  <2>2. ASSUME NEW v \in Videos, v \notin edited, status[v] \in {"organized", "complete"}
        PROVE  path[v] \in Library(v)
    <3>1. path[v] = title[v] /\ title[v] \in DOMAIN files /\ title[v] \in Titles[v]
      BY <2>1, <2>2 DEF Rows, Shelved
    <3>2. title[v] \in Names /\ title[v] \in Titles[files[title[v]]] /\ files[title[v]] \in Videos
      BY <2>1, <3>1, Apart DEF Stored, Types
    <3>3. files[title[v]] = v
      BY <3>1, <3>2 DEF TitlesApart
    <3> QED
      BY <3>1, <3>2, <3>3 DEF Library, Exists
  <2> QED
    BY <2>2 DEF OrganizedRowHasFile
<1> QED
  BY <1>1, <1>2, <1>3, PTL DEF Spec

\* Once a video is in the library some whole copy of it stays there: no handler,
\* no error path and no clean-up removes the last one.  What can is a move onto
\* it: a copy that fails or is cut off, or the move of what such a copy left.
THEOREM LibraryKeepsVideosCorrect ==
  ASSUME TitlesApart
  PROVE  Spec => LibraryKeepsVideos
<1>1. Init => IInv
  BY InitIInv
<1>2. IInv /\ [Next]_vars => IInv'
  BY NextIInv
<1>3. IInv /\ [Next]_vars =>
        [\A v \in Videos : Whole(v) # {} =>
           \/ Whole(v)' # {}
           \/ \E j \in DOMAIN jobs :
                /\ AtStep(j, "move") /\ Whole(v) = {jobs[j].dest}
                /\ \/ jobs[j].kind = "organize" /\ jobs'[j].step = "done"
                   \/ jobs[j].temp \in torn]_vars
  BY NextIInv DEF Kept, Struck
<1> QED
  BY <1>1, <1>2, <1>3, PTL DEF Spec, LibraryKeepsVideos
=============================================================================
