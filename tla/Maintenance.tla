----------------------------- MODULE Maintenance -----------------------------
(***************************************************************************)
(* The server around its library: schema migrations at the start           *)
(* (fuzzbin/core/db/migrator.py), backups and their retention              *)
(* (services/backup_service.py, core/db/backup.py, web/routes/backup.py),  *)
(* the scheduled cleanups (tasks/handlers.py), and, once it is up, the     *)
(* calls of Catalogue.  The process may crash or be stopped at any point.  *)
(***************************************************************************)
EXTENDS Catalogue

CONSTANTS
  Scripts,    \* the migration files by version: sequences of [repeatable |-> BOOLEAN]
  Backups,    \* backup jobs
  Workers,    \* how many workers of the queue run them
  Retentions, \* values of retention_count
  MaxFaults   \* bound on crashes, stops and failing statements or writes

ASSUME MaintenanceAssumption ==
  /\ Scripts \in Seq(Seq([repeatable : BOOLEAN]))
  /\ Retentions \subseteq Nat
  /\ IsFiniteSet(Backups)
  /\ {Workers, MaxFaults} \subseteq Nat

Statements == UNION {{v} \X DOMAIN Scripts[v] : v \in DOMAIN Scripts}

VARIABLES
  phase,     \* of the process: "down", "migrating" or "up"
  applied,   \* statements whose effect is in the schema
  recorded,  \* rows of schema_migrations
  pending,   \* versions this start still has to apply, the lowest one next
  next,      \* statement of that version that is next
  job,       \* backup jobs
  archive,   \* the backup directory: function from time stamps to archives
  shared,    \* history: time stamps used by more than one backup
  cut,       \* history: a migration was cut off
  refused,   \* history: a start found a statement of an unrecorded version done
  faults

upVars == <<phase, applied, recorded, pending, next, job, archive, shared, cut, refused, faults>>
migration == <<applied, recorded, pending, next, cut, refused>>
backups == <<job, archive, shared>>

vars == <<readVars, upVars>>

Fault == faults < MaxFaults /\ faults' = faults + 1

-----------------------------------------------------------------------------
(* Migrations *)

\* The files whose version is not in schema_migrations; they are taken by
\* version.  The checksum that is stored with a version is not looked at.
Pending == DOMAIN Scripts \ recorded
Version == Min(pending)

Start ==
  /\ phase = "down"
  /\ phase' = "migrating"
  /\ pending' = Pending
  /\ next' = 1
  /\ UNCHANGED <<readVars, applied, recorded, cut, refused, backups, faults>>

Abandon == phase' = "down" /\ pending' = {} /\ UNCHANGED <<applied, recorded, next>>

\* executescript() commits each statement by itself.  ALTER TABLE ADD COLUMN
\* fails on a column that is there; the start fails with it.
RunStatement ==
  LET s == <<Version, next>> IN
  /\ phase = "migrating" /\ pending # {}
  /\ s \in Statements
  /\ IF s \in applied /\ ~Scripts[s[1]][s[2]].repeatable
     THEN Abandon /\ refused' = TRUE /\ UNCHANGED cut
     ELSE applied' = applied \cup {s} /\ next' = next + 1 /\ UNCHANGED <<phase, recorded, pending, cut, refused>>
  /\ UNCHANGED <<readVars, backups, faults>>

\* The rollback finds nothing to undo.
StatementFails ==
  /\ phase = "migrating" /\ pending # {}
  /\ Fault /\ Abandon
  /\ cut' = TRUE
  /\ UNCHANGED <<readVars, refused, backups>>

\* Mutant: the version is recorded before its script is run.
RecordFirst == phase = "migrating" /\ pending # {} /\ next = 1 /\ Version \notin recorded

ScriptDone == phase = "migrating" /\ pending # {} /\ <<Version, next>> \notin Statements

RecordVersion ==
  /\ ScriptDone
  /\ recorded' = recorded \cup {Version}
  /\ pending' = pending \ {Version} /\ next' = 1
  /\ UNCHANGED <<readVars, phase, applied, cut, refused, backups, faults>>

Up ==
  /\ phase = "migrating" /\ pending = {}
  /\ phase' = "up"
  /\ UNCHANGED <<readVars, migration, backups, faults>>

-----------------------------------------------------------------------------
(* Backups *)

\* Whether an archive holds all it should; one without its central directory
\* is no archive yet.
States == {"open", "short", "whole"}
Good(n) == n \in DOMAIN archive /\ archive[n].state = "whole"
Gone(n) == [m \in DOMAIN archive \ {n} |-> archive[m]]

JobGoto(b, pc) == job' = [job EXCEPT ![b].pc = pc]
Active == {"snapshot", "zip", "zipping", "clean"}
Busy == {b \in Backups : job[b].pc \in Active}

\* By the schedule, with the retention of the start, or by a request, with
\* that of its configuration.
SubmitBackup(b, keep) ==
  /\ phase = "up"
  /\ Mixed \/ \A c \in Callers : call[c] = Idle /\ calls = 0 /\ NothingSaved /\ rows = FirstRows
  /\ job[b].pc = "none"
  /\ job' = [job EXCEPT ![b].pc = "queued", ![b].keep = keep]
  /\ UNCHANGED <<readVars, phase, migration, archive, shared, faults>>

\* The archive's name is the second in which create_backup() is called.
StartBackup(b) ==
  /\ phase = "up" /\ job[b].pc = "queued"
  /\ Cardinality(Busy) < Workers
  /\ IF job[b].cancelled THEN JobGoto(b, "cancelled")
     ELSE job' = [job EXCEPT ![b].pc = "snapshot", ![b].stamp = clock]
  /\ shared' = IF job[b].cancelled THEN shared
               ELSE shared \cup {n \in {clock} : n \in DOMAIN archive \/ \E o \in Busy : job[o].stamp = n}
  /\ UNCHANGED <<readVars, phase, migration, archive, faults>>

\* SQLite's backup is the database of one moment; the configuration and the
\* thumbnails are copied right after it.
Moment == Edits

Snapshot(b) ==
  /\ phase = "up" /\ job[b].pc = "snapshot"
  /\ job' = [job EXCEPT ![b].pc = "zip", ![b].edits = Moment]
  /\ UNCHANGED <<readVars, phase, migration, archive, shared, faults>>

\* A thread opens the archive and writes it in place: what was there under
\* this name is gone.
OpenZip(b) ==
  /\ phase = "up" /\ job[b].pc = "zip"
  /\ archive' = [n \in DOMAIN archive \cup {job[b].stamp} |->
       IF n = job[b].stamp THEN [state |-> "open", by |-> b, edits |-> job[b].edits] ELSE archive[n]]
  /\ JobGoto(b, "zipping")
  /\ UNCHANGED <<readVars, phase, migration, shared, faults>>

\* Two threads that write one file leave either's archive or neither's.
Outcomes(b) == IF archive[job[b].stamp].by = b THEN {"whole"} ELSE States

CloseZip(b) ==
  LET n == job[b].stamp IN
  /\ phase = "up" /\ job[b].pc = "zipping"
  /\ IF n \in DOMAIN archive
     THEN /\ \E s \in Outcomes(b) : archive' = [archive EXCEPT ![n].state = s]
          /\ JobGoto(b, "clean")
     ELSE JobGoto(b, "failed") /\ UNCHANGED archive
  /\ UNCHANGED <<readVars, phase, migration, shared, faults>>

RemoveFile(n) == archive' = Gone(n)

\* create_backup() fails: it removes the file of that name, whoever wrote it.
BackupFails(b) ==
  /\ phase = "up" /\ job[b].pc \in {"snapshot", "zip", "zipping"}
  /\ Fault
  /\ RemoveFile(job[b].stamp)
  /\ JobGoto(b, "failed")
  /\ UNCHANGED <<readVars, phase, migration, shared>>

\* list_backups() lists whatever has the name of a backup.
Listed == DOMAIN archive
Newer(n) == {m \in Listed : m > n}

\* Mutant: the archives are listed oldest first.
Oldest(keep) == {n \in Listed : Cardinality({m \in Listed : m < n}) >= keep}

\* All but the newest `keep`.
Surplus(keep) == {n \in Listed : Cardinality(Newer(n)) >= keep}

CleanUp(b) ==
  LET keep == job[b].keep IN
  /\ phase = "up" /\ job[b].pc = "clean"
  /\ IF job[b].cancelled THEN JobGoto(b, "cancelled") /\ UNCHANGED archive
     ELSE /\ archive' = IF keep < 1 THEN archive ELSE [n \in Listed \ Surplus(keep) |-> archive[n]]
          /\ JobGoto(b, "completed")
  /\ UNCHANGED <<readVars, phase, migration, shared, faults>>

CancelBackup(b) ==
  /\ phase = "up" /\ job[b].pc \in Active \cup {"queued"}
  /\ ~job[b].cancelled
  /\ job' = [job EXCEPT ![b].cancelled = TRUE]
  /\ UNCHANGED <<readVars, phase, migration, archive, shared, faults>>

-----------------------------------------------------------------------------
(* Crash, stop and restart *)

\* What is in memory is gone, jobs that were running are failed at the next
\* start.  A crash leaves an archive half-written; when the server is stopped
\* the zip file is closed in an orderly way, without what is still to come.
Down(left) ==
  /\ phase # "down"
  /\ Mixed \/ (calls <= 1 /\ NothingSaved)
  /\ Fault
  /\ Abandon
  /\ cut' = (cut \/ phase = "migrating")
  /\ call' = [c \in Callers |-> Idle]
  /\ cache' = [c \in Caches |-> <<>>]
  /\ job' = [b \in Backups |-> IF job[b].pc \in Active THEN [job[b] EXCEPT !.pc = "failed"] ELSE job[b]]
  /\ archive' = [n \in DOMAIN archive |->
       IF \E b \in Backups : job[b].pc = "zipping" /\ job[b].stamp = n /\ archive[n].by = b
       THEN [archive[n] EXCEPT !.state = left] ELSE archive[n]]
  /\ UNCHANGED <<rows, hidden, files, tables, clock, calls, editAt, shared, refused>>

Crash == Down("open")
Stop == Down("short")

-----------------------------------------------------------------------------

BackupStep(b) ==
  StartBackup(b) \/ Snapshot(b) \/ OpenZip(b) \/ CloseZip(b) \/ CleanUp(b)

\* A step of a request or of a job that reads.
Serve ==
  /\ phase = "up"
  /\ ReadNext
  /\ \/ Mixed
     \/ (\E b \in Backups : job[b].pc # "none") /\ call' = call /\ rows' = rows
     \/ /\ \A b \in Backups : job[b].pc = "none"
        /\ call' # call \/ calls > 0
        /\ faults = 0 \/ calls' = 1
  /\ UNCHANGED upVars

Migrate == RunStatement \/ RecordVersion \/ Up

Init ==
  /\ ReadInit
  /\ phase = "down"
  /\ applied = {} /\ recorded = {} /\ pending = {} /\ next = 1
  /\ cut = FALSE /\ refused = FALSE
  /\ job = [b \in Backups |-> [pc |-> "none", stamp |-> 0, keep |-> 0, edits |-> 0, cancelled |-> FALSE]]
  /\ archive = <<>> /\ shared = {}
  /\ faults = 0

Next ==
  \/ Start \/ Migrate \/ StatementFails \/ Crash \/ Stop
  \/ \E b \in Backups :
       \/ \E keep \in Retentions : SubmitBackup(b, keep)
       \/ BackupStep(b) \/ BackupFails(b) \/ CancelBackup(b)
  \/ Serve

Spec == Init /\ [][Next]_vars

-----------------------------------------------------------------------------
(* Properties *)

\* A good archive that one backup alone has written.
HasGoodArchive == \E n \in DOMAIN archive \ shared : Good(n)

\* Every variable has its type.
TypeOK ==
  /\ phase \in {"down", "migrating", "up"}
  /\ applied \subseteq Statements /\ recorded \subseteq DOMAIN Scripts
  /\ pending \subseteq DOMAIN Scripts
  /\ DOMAIN archive \subseteq 0..MaxClock
  /\ \A n \in DOMAIN archive : archive[n].state \in States
  /\ shared \subseteq 0..MaxClock
  /\ DOMAIN rows \subseteq Videos /\ hidden \subseteq DOMAIN rows
  /\ \A v \in Videos : nfo[v] # NULL => DOMAIN nfo[v] = Columns
  /\ \A c \in Caches : \A k, l \in DOMAIN cache[c] : cache[c][k].place = cache[c][l].place => k = l
  /\ \A t \in Tables : \A i \in DOMAIN saved[t] : i <= lastId[t]

\* Tables, cache and lists are in order.
Inv == TypeOK /\ CacheBounded /\ PagesPartition /\ FacetIsReachable

\* While the server is up its schema is complete, whatever it took to get
\* there; a recorded version is a version whose statements are all done; and a
\* start is refused for a statement already done only where a script was cut
\* off before: never because of what an orderly start, or a crash of the
\* server that was up, left behind.
SchemaIsComplete ==
  /\ phase = "up" => recorded = DOMAIN Scripts
  /\ \A s \in Statements : s[1] \in recorded => s \in applied
  /\ refused => cut

\* Archives last.  There is a good one as long as there has been one, through
\* crashes, failures and retention: unless two backups share a second, or no
\* more archives are retained than there are other backups at work and files
\* that several have written.  One backup's good archive goes for nothing but
\* the newer ones that retention asks for.  And a backup that completes in a
\* second of its own leaves a good archive with the library of a moment while
\* it ran, if retention has left it there.
GoodArchiveStays ==
  [][/\ HasGoodArchive /\ ~HasGoodArchive' =>
          \/ shared' # shared
          \/ \E b \in Backups :
               /\ job[b].pc = "clean"
               /\ \/ job[b].stamp \in shared
                  \/ job[b].keep <= Cardinality(Busy \ {b}) + Cardinality(shared)
     /\ \A n \in DOMAIN archive \ shared' : Good(n) /\ ~Good(n)' =>
          \E b \in Backups :
            job[b].pc = "clean" /\ job[b].keep >= 1 /\ Cardinality(Newer(n)) >= job[b].keep
     /\ \A b \in Backups :
          /\ job[b].pc = "clean" /\ job'[b].pc = "completed"
          /\ job[b].stamp \in DOMAIN archive' \ shared
          => Good(job[b].stamp)' /\ archive'[job[b].stamp].edits = job[b].edits]_vars
=============================================================================
