------------------------------ MODULE BatchImport ------------------------------
(***************************************************************************)
(* Import jobs that work through a list (fuzzbin/tasks/handlers.py with    *)
(* workflows/nfo_importer.py and workflows/spotify_importer.py): a         *)
(* directory of NFO files, a Spotify playlist, a selection of tracks or of *)
(* an artist's videos, a single search result - and the downloads and the  *)
(* metadata jobs that go through rows of the library in the same way.      *)
(*                                                                         *)
(* Every job looks for each item among the videos, creates or updates a    *)
(* row, links its artists and hands the row on to a job of its own.  Jobs  *)
(* interleave between their awaits; a call of the repository is atomic     *)
(* (module Library looks inside).  A cancellation changes only the status  *)
(* of a job, which the handler reads where its code does.                  *)
(***************************************************************************)
EXTENDS Naturals, Sequences, FiniteSets, SequencesExt

CONSTANTS
  Items,       \* what can be imported: [title, imvdb, youtube, file]
  Stock,       \* items of which the library may have one already
  Titles,
  Longer,    \* [Titles -> SUBSET Titles]: titles whose text contains this one
  Versions,    \* [Titles -> SUBSET Titles]: titles that normalize alike
  Offers,      \* what users ask for: [kind, items, skip, auto]
  BatchSize,   \* NFO files in a transaction
  Workers,
  MaxRequests, \* bound on requests
  MaxEvents,   \* bound on cancellations, deletions, restorations, failures and restarts
  NoId

Kinds == {"nfo", "spotify", "list", "imvdb", "discogs", "youtube",
          "split", "fetch", "direct", "enrich", "refresh", "urls"}

ASSUME BatchImportAssumption ==
  /\ Stock \subseteq Items
  /\ \A i \in Items :
       /\ i = [title |-> i.title, imvdb |-> i.imvdb, youtube |-> i.youtube, file |-> i.file]
       /\ i.title \in Titles /\ i.file \in BOOLEAN
  /\ \A t \in Titles : t \in Longer[t] /\ t \in Versions[t]
  /\ \A o \in Offers :
       /\ o.kind \in Kinds \ {"fetch"} /\ o.items \in Seq(Items)
       /\ o.skip \in BOOLEAN /\ o.auto \in BOOLEAN
       /\ o.kind \in {"imvdb", "discogs", "youtube"} => Len(o.items) = 1
       /\ o.kind = "refresh" => o.items = << >>
  /\ BatchSize \in Nat \ {0}
  /\ Workers \in Nat \ {0}
  /\ {MaxRequests, MaxEvents} \subseteq Nat

VARIABLES
  rows,     \* the table videos, in the order of the ids
  jobs,     \* the jobs above, in the order of their submission
  children, \* the jobs they hand rows on to: [kind, row]
  changes,  \* number of changes by users so far
  faults    \* number of failures and restarts so far

vars == <<rows, jobs, children, changes, faults>>

Ids == DOMAIN rows
Jobs == DOMAIN jobs

Row(i, status, by) ==
  [title |-> i.title, imvdb |-> i.imvdb, youtube |-> i.youtube, file |-> i.file,
   status |-> status, hidden |-> FALSE, linked |-> FALSE,
   by |-> by, giver |-> IF i.file THEN by ELSE 0, touched |-> FALSE,
   sought |-> i.title]   \* history: the title it was looked for by

Init ==
  /\ rows \in {<< >>} \cup {<<Row(i, "discovered", 0)>> : i \in Stock}
  /\ jobs = << >>
  /\ children = << >>
  /\ changes = 0
  /\ faults = 0

Shown(v) == ~rows[v].hidden
AtStep(j, step) == j \in Jobs /\ jobs[j].step = step
Kind(j) == jobs[j].kind
Cancelled(j) == jobs[j].status = "cancelled"
Handling(j) == jobs[j].step \notin {"queued", "done"}
Active(j) == jobs[j].step # "done"
Listed(j) == jobs[j].at <= Len(jobs[j].items)
Item(j) == jobs[j].items[jobs[j].at]

Goto(j, step) == jobs' = [jobs EXCEPT ![j].step = step]
Finish(j, result) == jobs' = [jobs EXCEPT ![j].step = "done", ![j].status = result]

Alike(kind, t) == IF kind = "spotify" THEN Versions[t] ELSE Longer[t]

\* Which rows the job takes for the item: LIKE %title% for NFO files and for
\* Discogs, equal normalized titles for a playlist, the column of the source
\* otherwise.  All of them look past deleted rows.
Match(kind, i, v) ==
  /\ Shown(v)
  /\ CASE kind \in {"nfo", "discogs", "spotify"} -> rows[v].title \in Alike(kind, i.title)
       [] kind = "imvdb" -> i.imvdb # NoId /\ rows[v].imvdb = i.imvdb
       [] kind = "youtube" -> i.youtube # NoId /\ rows[v].youtube = i.youtube
       [] OTHER -> FALSE

\* Mutant: a deleted row counts as well.
MatchDeleted(kind, i) == \E v \in Ids : rows[v].title \in Longer[i.title]

\* _check_video_exists(), _check_track_exists() and the lookups of
\* handle_add_single_import().
Exists(kind, i) == \E v \in Ids : Match(kind, i, v)

\* imvdb_video_id and youtube_id are UNIQUE, deleted rows included.
Clash(i, others) ==
  \E v \in others : \/ i.imvdb # NoId /\ rows[v].imvdb = i.imvdb
                    \/ i.youtube # NoId /\ rows[v].youtube = i.youtube

----------------------------------------------------------------------------
(* What users and the process do.                                          *)

Changed ==
  /\ changes + faults < MaxEvents
  /\ changes' = changes + 1
  /\ UNCHANGED faults

Fault ==
  /\ changes + faults < MaxEvents
  /\ faults' = faults + 1
  /\ UNCHANGED changes

Shared == [j \in Jobs |-> [jobs[j] EXCEPT !.alone = @ /\ ~Active(j)]]

\* preview_scan(), preview_batch(): how many items the library does not have.
Wanted(o) == Cardinality({n \in DOMAIN o.items : o.skip => ~Exists(o.kind, o.items[n])})

Job(o, items) ==
  [kind |-> o.kind, items |-> items, skip |-> o.skip, auto |-> o.auto,
   status |-> "pending", step |-> "queued", at |-> 1, row |-> 0, batch |-> << >>,
   imported |-> 0, skipped |-> 0, failed |-> 0,
   wanted |-> Wanted(o),
   alone |-> \A j \in Jobs : ~Active(j), whole |-> TRUE]

\* The user who saw the preview submits the job.
Request(o) ==
  /\ Cardinality({j \in Jobs : Kind(j) # "fetch"}) < MaxRequests
  /\ LET targets == SetToSeq({v \in Ids : Shown(v)})
     IN jobs' = Append(Shared, Job(o, IF o.kind \in {"split", "enrich"} THEN targets
                                      ELSE o.items))
  /\ UNCHANGED <<rows, children, changes, faults>>

Cancel(j) ==
  /\ Changed
  /\ jobs[j].status \in {"pending", "running"}
  /\ jobs' = [Shared EXCEPT ![j].status = "cancelled"]
  /\ UNCHANGED <<rows, children>>

\* DELETE /videos/{id} and POST /videos/{id}/restore.
Hide(v) ==
  /\ Changed
  /\ rows' = [rows EXCEPT ![v].hidden = ~@, ![v].touched = TRUE]
  /\ jobs' = Shared
  /\ UNCHANGED children

\* The jobs at work are marked failed at the next start.
Restart ==
  /\ Fault
  /\ jobs' = [j \in Jobs |->
                IF ~Handling(j) THEN jobs[j]
                ELSE [jobs[j] EXCEPT !.step = "done", !.whole = FALSE,
                        !.status = IF @ = "running" THEN "failed" ELSE @]]
  /\ UNCHANGED <<rows, children>>

----------------------------------------------------------------------------
(* What a worker does with a job.                                          *)

FirstStep(j) ==
  CASE Kind(j) \in {"imvdb", "discogs", "youtube"} -> "begin"
    [] Kind(j) \in {"enrich", "refresh", "urls"} -> "walk"
    [] Kind(j) = "split" -> "spread"
    [] Kind(j) \in {"fetch", "direct"} -> "wait"
    [] OTHER -> "item"

\* handle_metadata_refresh() reads its list when it starts.
Take(j) ==
  /\ AtStep(j, "queued") /\ ~Cancelled(j)
  /\ Cardinality({i \in Jobs : Handling(i)}) < Workers
  /\ jobs' = [jobs EXCEPT
       ![j].status = "running", ![j].step = FirstStep(j),
       ![j].items = IF Kind(j) # "refresh" THEN @
                    ELSE SetToSeq({v \in Ids : Shown(v)})]
  /\ UNCHANGED <<rows, children, changes, faults>>

Discard(j) ==
  /\ AtStep(j, "queued") /\ Cancelled(j)
  /\ Finish(j, "cancelled")
  /\ UNCHANGED <<rows, children, changes, faults>>

\* Where a loop goes after an item: NFO files come in batches.
After(j) ==
  LET last == jobs[j].at = Len(jobs[j].items)
  IN IF Kind(j) # "nfo" THEN IF last THEN "end" ELSE "item"
     ELSE IF last \/ jobs[j].at % BatchSize = 0 THEN "yield" ELSE "item"

Count(j, result) ==
  jobs' = [jobs EXCEPT ![j].at = @ + 1, ![j].row = 0, ![j].step = After(j),
                       ![j][result] = @ + 1]

\* transaction() is entered before the first track of a playlist and before
\* the first file of a batch.
Begins(j) ==
  \/ Kind(j) = "spotify" /\ jobs[j].at = 1
  \/ Kind(j) = "nfo" /\ Listed(j) /\ (jobs[j].at - 1) % BatchSize = 0

\* The head of the loop.  A BEGIN that is refused ends the job.  The progress
\* callback of the importers raises CancelledError out of the transaction; the
\* others return.
NextItem(j) ==
  /\ AtStep(j, "item")
  /\ \/ /\ IF Cancelled(j) THEN Finish(j, "cancelled")
           ELSE IF ~Listed(j) THEN Goto(j, "end")
           ELSE Goto(j, IF Kind(j) = "list" \/ jobs[j].skip THEN "look" ELSE "write")
        /\ UNCHANGED <<changes, faults>>
     \/ Begins(j) /\ Fault /\ Finish(j, "failed")
  /\ UNCHANGED <<rows, children>>

\* An error of the query is taken for "not there".
Look(j) ==
  /\ AtStep(j, "look") /\ Kind(j) \in {"nfo", "spotify"}
  /\ \/ /\ Exists(Kind(j), Item(j))
        /\ Count(j, "skipped")
        /\ UNCHANGED <<changes, faults>>
     \/ /\ ~Exists(Kind(j), Item(j))
        /\ Goto(j, "write")
        /\ UNCHANGED <<changes, faults>>
     \/ /\ Fault
        /\ jobs' = [jobs EXCEPT ![j].step = "write", ![j].whole = FALSE]
  /\ UNCHANGED <<rows, children>>

\* The selected tracks and videos: by IMVDb id, then by YouTube id.
LookUp(j) ==
  LET by(kind) == {v \in Ids : Match(kind, Item(j), v)}
      found == IF by("imvdb") # {} THEN by("imvdb") ELSE by("youtube")
  IN /\ AtStep(j, "look") /\ Kind(j) = "list"
     /\ \/ found = {} /\ Goto(j, "write")
        \/ \E v \in found : jobs' = [jobs EXCEPT ![j].step = "renew", ![j].row = v]
     /\ UNCHANGED <<rows, children, changes, faults>>

Unidentified(i) == [i EXCEPT !.imvdb = NoId, !.youtube = NoId]

\* What a source says of an item: IMVDb may not know the video of an NFO file,
\* a playlist brings no ids, a Discogs release at most a YouTube id.
NfoVideo(i) == {i, Unidentified(i)}
PlaylistTrack(i) == [Unidentified(i) EXCEPT !.file = FALSE]
SelectedVideo(i) == [i EXCEPT !.file = FALSE]
ImvdbVideo(i) == [i EXCEPT !.file = FALSE]
DiscogsRelease(i) == [i EXCEPT !.imvdb = NoId, !.file = FALSE]
YoutubeVideo(i) == [i EXCEPT !.imvdb = NoId, !.file = FALSE]

Found(j) ==
  CASE Kind(j) = "nfo" -> NfoVideo(Item(j))
    [] Kind(j) = "spotify" -> {PlaylistTrack(Item(j))}
    [] Kind(j) = "list" -> {SelectedVideo(Item(j))}
    [] Kind(j) = "imvdb" -> {ImvdbVideo(Item(j))}
    [] Kind(j) = "discogs" -> {DiscogsRelease(Item(j))}
    [] Kind(j) = "youtube" -> {YoutubeVideo(Item(j))}

\* create_video() gives the row the next id.
Insert(row) == rows' = Append(rows, row)

\* A row for the item; a clash with a UNIQUE column is an error of this item.
Write(j) ==
  /\ AtStep(j, "write")
  /\ \E i \in Found(j) :
       /\ ~Clash(i, Ids)
       /\ Insert(Row(i, "discovered", j))
       /\ jobs' = [jobs EXCEPT ![j].step = "link", ![j].row = Len(rows) + 1]
  /\ UNCHANGED <<children, changes, faults>>

\* update_video() of a selected video: the row gets the status of the import,
\* whatever it was, and though it was deleted since the lookup.
Renew(j) ==
  LET v == jobs[j].row
  IN /\ AtStep(j, "renew") /\ ~Clash(Item(j), Ids \ {v})
     /\ rows' = [rows EXCEPT ![v].title = Item(j).title, ![v].status = "discovered",
          ![v].touched = TRUE,
          ![v].imvdb = IF Item(j).imvdb = NoId THEN @ ELSE Item(j).imvdb,
          ![v].youtube = IF Item(j).youtube = NoId THEN @ ELSE Item(j).youtube]
     /\ Goto(j, "link")
     /\ UNCHANGED <<children, changes, faults>>

\* Mutant: the artists are linked by a later pass.
CountUnlinked(j) ==
  /\ AtStep(j, "link")
  /\ Kind(j) \in {"nfo", "spotify", "list"}
  /\ Count(j, "imported")
  /\ UNCHANGED <<rows, children, changes, faults>>

\* Decade tag and artists; then the item counts as imported.
Link(j) ==
  LET v == jobs[j].row
  IN /\ AtStep(j, "link")
     /\ rows' = [rows EXCEPT ![v].linked = TRUE]
     /\ CASE Kind(j) = "nfo" ->
               jobs' = [jobs EXCEPT ![j].at = @ + 1, ![j].row = 0, ![j].step = After(j),
                          ![j].imported = @ + 1, ![j].batch = Append(@, v)]
          [] Kind(j) = "spotify" -> Count(j, "imported")
          [] Kind(j) = "list" ->
               IF jobs[j].auto /\ Item(j).youtube # NoId
               THEN jobs' = [jobs EXCEPT ![j].step = "submit", ![j].imported = @ + 1]
               ELSE Count(j, "imported")
          [] OTHER -> jobs' = [jobs EXCEPT ![j].step = "mark", ![j].imported = @ + 1]
     /\ UNCHANGED <<children, changes, faults>>

\* The except clause of the loops: a row that was created stays, and no list
\* of the job has it (giver is where the properties see that).
ItemFails(j) ==
  /\ Kind(j) \in {"nfo", "spotify", "list"}
  /\ \/ AtStep(j, "write") /\ (\E i \in Found(j) : Clash(i, Ids)) /\ UNCHANGED <<changes, faults>>
     \/ /\ AtStep(j, "renew") /\ UNCHANGED <<changes, faults>>
        /\ Clash(Item(j), Ids \ {jobs[j].row})
     \/ jobs[j].step \in {"write", "renew", "link"} /\ Fault
  /\ Count(j, "failed")
  /\ rows' = [v \in Ids |-> IF v = jobs[j].row /\ rows[v].giver = j
                           THEN [rows[v] EXCEPT !.giver = 0] ELSE rows[v]]
  /\ UNCHANGED children

Child(kind, v) == [kind |-> kind, row |-> v]
PostProcess(v) == Child("post", v)

\* auto_download of the selected tracks and videos.
SubmitPipeline(j) ==
  /\ AtStep(j, "submit") /\ Kind(j) = "list"
  /\ children' = Append(children, Child("pipeline", jobs[j].row))
  /\ jobs' = [jobs EXCEPT ![j].at = @ + 1, ![j].row = 0, ![j].step = After(j)]
  /\ UNCHANGED <<rows, changes, faults>>

\* The importer commits and yields a batch; every call has committed its own
\* writes, so that a refused COMMIT ends the job and undoes none of them.
Yield(j) ==
  /\ AtStep(j, "yield")
  /\ \/ /\ IF Cancelled(j) THEN Finish(j, "cancelled") ELSE Goto(j, "hand")
        /\ UNCHANGED <<changes, faults>>
     \/ Fault /\ Finish(j, "failed")
  /\ UNCHANGED <<rows, children>>

\* Videos with a file are to be post-processed; a failed submission is logged.
HandOn(j) ==
  /\ AtStep(j, "hand")
  /\ IF jobs[j].batch = << >>
     THEN /\ Goto(j, IF Listed(j) THEN "item" ELSE "end")
          /\ UNCHANGED <<children, changes, faults>>
     ELSE LET v == Head(jobs[j].batch)
          IN \/ /\ jobs' = [jobs EXCEPT ![j].batch = Tail(@)]
                /\ children' = IF rows[v].file THEN Append(children, PostProcess(v))
                               ELSE children
                /\ UNCHANGED <<changes, faults>>
             \/ /\ Fault /\ rows[v].file
                /\ jobs' = [jobs EXCEPT ![j].batch = Tail(@), ![j].whole = FALSE]
                /\ UNCHANGED children
  /\ UNCHANGED rows

\* mark_completed(), unless the playlist's handler finds the job cancelled; the
\* one transaction of a playlist is committed before.
End(j) ==
  /\ AtStep(j, "end")
  /\ \/ /\ Finish(j, IF Kind(j) = "spotify" /\ Cancelled(j) THEN "cancelled" ELSE "completed")
        /\ UNCHANGED <<changes, faults>>
     \/ Kind(j) = "spotify" /\ Fault /\ Finish(j, "failed")
  /\ UNCHANGED <<rows, children>>

----------------------------------------------------------------------------
(* handle_add_single_import(): one item, and its download.                 *)

Begin(j) ==
  /\ AtStep(j, "begin")
  /\ IF Cancelled(j) THEN Finish(j, "cancelled")
     ELSE Goto(j, IF jobs[j].skip THEN "look" ELSE "write")
  /\ UNCHANGED <<rows, children, changes, faults>>

LookForOne(j) ==
  /\ AtStep(j, "look") /\ Kind(j) \in {"imvdb", "discogs", "youtube"}
  /\ \/ /\ Exists(Kind(j), Item(j))
        /\ jobs' = [jobs EXCEPT ![j].step = "mark", ![j].skipped = @ + 1]
        /\ UNCHANGED <<changes, faults>>
     \/ /\ ~Exists(Kind(j), Item(j))
        /\ Goto(j, "write")
        /\ UNCHANGED <<changes, faults>>
     \/ /\ Fault
        /\ jobs' = [jobs EXCEPT ![j].step = "write", ![j].whole = FALSE]
  /\ UNCHANGED <<rows, children>>

\* The row says what comes next before the next job exists; update_video()
\* finds deleted rows too.
Mark(j) ==
  LET v == jobs[j].row
      download == jobs[j].auto /\ Item(j).youtube # NoId
  IN /\ AtStep(j, "mark")
     /\ \/ Cancelled(j) /\ Finish(j, "cancelled") /\ UNCHANGED rows
        \/ ~Cancelled(j) /\ v = 0 /\ Goto(j, "end") /\ UNCHANGED rows
        \/ /\ ~Cancelled(j) /\ v # 0
           /\ rows' = [rows EXCEPT ![v].status =
                         IF download THEN "pending_download" ELSE "discovered"]
           /\ Goto(j, IF download THEN "submit" ELSE "end")
     /\ UNCHANGED <<children, changes, faults>>

\* Mutant: a second look at the cancellation.
SubmitUnlessCancelled(j) ==
  /\ AtStep(j, "submit") /\ Kind(j) \in {"imvdb", "discogs", "youtube"}
  /\ IF Cancelled(j) THEN Finish(j, "cancelled") /\ UNCHANGED children
     ELSE /\ children' = Append(children, Child("download", jobs[j].row))
          /\ Goto(j, "end")
  /\ UNCHANGED <<rows, changes, faults>>

SubmitDownload(j) ==
  /\ AtStep(j, "submit") /\ Kind(j) \in {"imvdb", "discogs", "youtube"}
  /\ children' = Append(children, Child("download", jobs[j].row))
  /\ Goto(j, "end")
  /\ UNCHANGED <<rows, changes, faults>>

\* Nothing is caught here: the job fails and the row stays as it is.
OneFails(j) ==
  /\ Kind(j) \in {"imvdb", "discogs", "youtube"}
  /\ \/ /\ AtStep(j, "write") /\ UNCHANGED <<changes, faults>>
        /\ \E i \in Found(j) : Clash(i, Ids)
     \/ jobs[j].step \in {"write", "link", "mark", "submit"} /\ Fault
  /\ jobs' = [jobs EXCEPT ![j].step = "done", ![j].status = "failed", ![j].whole = FALSE]
  /\ UNCHANGED <<rows, children>>

----------------------------------------------------------------------------
(* Downloads of rows: one job for each of them, one download at a time.    *)

\* Mutant: the job ends when those it submitted have ended.
SpreadAndWait(j) ==
  LET only == [kind |-> "fetch", items |-> << >>, skip |-> FALSE, auto |-> FALSE]
  IN /\ AtStep(j, "spread")
     /\ IF Cancelled(j) THEN Finish(j, IF jobs[j].at = 1 THEN "cancelled" ELSE "completed")
        ELSE IF ~Listed(j) THEN /\ \A i \in Jobs : Kind(i) = "fetch" => ~Active(i)
                                /\ Goto(j, "end")
        ELSE jobs' = Append([jobs EXCEPT ![j].at = @ + 1],
                            [Job(only, <<Item(j)>>) EXCEPT !.alone = FALSE])
     /\ UNCHANGED <<rows, children, changes, faults>>

\* _split_batch_youtube_download(): a cancelled one still says completed.
Spread(j) ==
  LET only == [kind |-> "fetch", items |-> << >>, skip |-> FALSE, auto |-> FALSE]
  IN /\ AtStep(j, "spread")
     /\ IF Cancelled(j) THEN Finish(j, IF jobs[j].at = 1 THEN "cancelled" ELSE "completed")
        ELSE IF ~Listed(j) THEN Goto(j, "end")
        ELSE jobs' = Append([jobs EXCEPT ![j].at = @ + 1],
                            [Job(only, <<Item(j)>>) EXCEPT !.alone = FALSE])
     /\ UNCHANGED <<rows, children, changes, faults>>

Downloading == {"fetch", "record", "pass"}
SlotIsFree == \A i \in Jobs : jobs[i].step \notin Downloading

\* _handle_batch_youtube_download() gets the slot and reads the row.
Acquire(j) ==
  /\ AtStep(j, "wait") /\ Kind(j) = "fetch" /\ SlotIsFree
  /\ LET v == Item(j)
     IN \/ Cancelled(j) /\ Finish(j, "cancelled")
        \/ /\ ~Cancelled(j)
           /\ CASE ~Shown(v) -> jobs' = [jobs EXCEPT ![j].step = "end", ![j].failed = 1]
                [] Shown(v) /\ (rows[v].file \/ rows[v].youtube = NoId) ->
                     jobs' = [jobs EXCEPT ![j].step = "end", ![j].skipped = 1]
                [] OTHER -> Goto(j, "fetch")
  /\ UNCHANGED <<rows, children, changes, faults>>

\* The progress hook raises when it finds the job cancelled.
Fetched(j) ==
  /\ AtStep(j, "fetch") /\ Kind(j) = "fetch"
  /\ \/ Cancelled(j) /\ Finish(j, "cancelled")
     \/ Goto(j, "record")
  /\ UNCHANGED <<rows, children, changes, faults>>

RecordFile(j) ==
  /\ AtStep(j, "record")
  /\ rows' = [rows EXCEPT ![Item(j)].file = TRUE, ![Item(j)].status = "downloaded",
                          ![Item(j)].giver = j]
  /\ Goto(j, "pass")
  /\ UNCHANGED <<children, changes, faults>>

PassOn(j) ==
  /\ AtStep(j, "pass")
  /\ children' = Append(children, Child("post", Item(j)))
  /\ jobs' = [jobs EXCEPT ![j].step = IF Cancelled(j) THEN "done" ELSE "end", ![j].imported = 1]
  /\ UNCHANGED <<rows, changes, faults>>

FetchFails(j) ==
  /\ Kind(j) = "fetch"
  /\ jobs[j].step \in Downloading /\ Fault
  /\ jobs' = [jobs EXCEPT ![j].step = IF Cancelled(j) THEN "done" ELSE "end",
                          ![j].failed = 1, ![j].whole = FALSE]
  /\ UNCHANGED <<rows, children>>

\* _handle_direct_url_download(): the same slot, a file and no row.
AcquireDirect(j) ==
  /\ AtStep(j, "wait") /\ Kind(j) = "direct" /\ SlotIsFree
  /\ IF Cancelled(j) THEN Finish(j, "cancelled") ELSE Goto(j, "fetch")
  /\ UNCHANGED <<rows, children, changes, faults>>

FetchedDirect(j) ==
  /\ AtStep(j, "fetch") /\ Kind(j) = "direct"
  /\ \/ /\ IF Cancelled(j) THEN Finish(j, "cancelled") ELSE Goto(j, "end")
        /\ UNCHANGED <<changes, faults>>
     \/ Fault /\ Finish(j, "failed")
  /\ UNCHANGED <<rows, children>>

----------------------------------------------------------------------------
(* Jobs that go through a list and, as the code is, change nothing.        *)

Walk(j, results) ==
  \/ Cancelled(j) /\ Finish(j, "cancelled")
  \/ ~Cancelled(j) /\ ~Listed(j) /\ Goto(j, "end")
  \/ /\ ~Cancelled(j) /\ Listed(j)
     /\ \E result \in results : jobs' = [jobs EXCEPT ![j].at = @ + 1, ![j][result] = @ + 1]

\* handle_metadata_enrich() asks a dict for the attribute title as soon as a
\* client is configured.
EnrichVideo(j) ==
  /\ AtStep(j, "walk") /\ Kind(j) = "enrich"
  /\ Walk(j, IF Listed(j) /\ Shown(Item(j)) THEN {"failed", "skipped"} ELSE {"failed"})
  /\ UNCHANGED <<rows, children, changes, faults>>

\* handle_metadata_refresh() calls both searches with names of parameters they
\* do not have and swallows the errors.
RefreshVideo(j) ==
  /\ AtStep(j, "walk") /\ Kind(j) = "refresh"
  /\ Walk(j, {"skipped"})
  /\ UNCHANGED <<rows, children, changes, faults>>

\* handle_import() makes its yt-dlp client of the whole configuration, which
\* has no path of yt-dlp: the job fails before its first URL.
ImportUrl(j) ==
  /\ AtStep(j, "walk") /\ Kind(j) = "urls"
  /\ Finish(j, "failed")
  /\ UNCHANGED <<rows, children, changes, faults>>

Step(j) ==
  \/ Take(j) \/ Discard(j) \/ End(j)
  \/ NextItem(j) \/ Look(j) \/ LookUp(j) \/ Write(j) \/ Renew(j) \/ Link(j) \/ ItemFails(j)
  \/ SubmitPipeline(j) \/ Yield(j) \/ HandOn(j)
  \/ Begin(j) \/ LookForOne(j) \/ Mark(j) \/ SubmitDownload(j) \/ OneFails(j)
  \/ Spread(j) \/ Acquire(j) \/ Fetched(j) \/ RecordFile(j) \/ PassOn(j) \/ FetchFails(j)
  \/ AcquireDirect(j) \/ FetchedDirect(j)
  \/ EnrichVideo(j) \/ RefreshVideo(j) \/ ImportUrl(j)

Progress == \E j \in Jobs : Step(j)

Next ==
  \/ \E o \in Offers : Request(o)
  \/ \E j \in Jobs : Cancel(j)
  \/ \E v \in Ids : Hide(v)
  \/ Restart
  \/ Progress

Spec == Init /\ [][Next]_vars

\* Lists are finite and every await of a handler ends.
FairSpec == Spec /\ WF_vars(Progress)

----------------------------------------------------------------------------
(* Properties.                                                             *)

TypeOK ==
  /\ \A v \in Ids : /\ rows[v].title \in Titles
                    /\ rows[v].status \in {"discovered", "pending_download", "downloaded"}
                    /\ rows[v].by \in 0 .. Len(jobs)
  /\ \A j \in Jobs : /\ Kind(j) \in Kinds
                     /\ jobs[j].at \in 1 .. Len(jobs[j].items) + 1
                     /\ jobs[j].row \in 0 .. Len(rows)
                     /\ jobs[j].status \in {"pending", "running", "completed", "failed", "cancelled"}
  /\ \A c \in DOMAIN children : children[c].row \in Ids
  /\ changes \in 0 .. MaxEvents /\ faults \in 0 .. MaxEvents

\* A completed import accounts for every item of its list: it is imported,
\* skipped or failed, once, whatever was raised in between.
CountsAddUp ==
  \A j \in Jobs :
    jobs[j].status = "completed" /\ Kind(j) \in {"nfo", "spotify", "enrich", "refresh"}
      => jobs[j].imported + jobs[j].skipped + jobs[j].failed = Len(jobs[j].items)

\* What a completed import counts as imported has its artists: the rows it
\* left without them are among its failures.
ImportedIsLinked ==
  \A j \in Jobs :
    jobs[j].status = "completed" /\ Kind(j) \in {"nfo", "spotify"}
      => Cardinality({v \in Ids : rows[v].by = j /\ rows[v].linked}) >= jobs[j].imported

\* An import that nothing disturbs imports as many items as its preview
\* promised, if no item of its list would be taken for a later one and
\* none clashes with the id of a deleted video.
ImportsAsPreviewed ==
  \A j \in Jobs :
    (/\ jobs[j].status = "completed" /\ Kind(j) \in {"nfo", "spotify"}
     /\ jobs[j].alone /\ jobs[j].whole /\ jobs[j].failed = 0
     /\ \A m, n \in DOMAIN jobs[j].items :
          m < n => jobs[j].items[m].title \notin Alike(Kind(j), jobs[j].items[n].title))
      => jobs[j].imported = jobs[j].wanted

\* Imports report what they did.
Inv == TypeOK /\ CountsAddUp /\ ImportedIsLinked /\ ImportsAsPreviewed

\* Two rows that an import by title takes for one another, the later made by
\* it with skip_existing, whatever that one was renamed to since: the jobs
\* overlapped, the earlier was deleted, restored or renamed, or the lookup
\* failed.
TwinsFromRaces ==
  \A u, v \in Ids :
    LET j == rows[v].by
    IN (/\ u < v /\ j # 0
        /\ jobs[j].skip /\ jobs[j].whole
        /\ Kind(j) \in {"nfo", "spotify"} /\ rows[u].title \in Alike(Kind(j), rows[v].sought))
         => ~jobs[j].alone \/ rows[u].touched

\* No row waits for a job that does not exist.  One that waits for a download
\* has it queued, or the job that is about to queue it is at that step or
\* failed.  One that an import or a download gave a file is on its way to
\* post-processing: its job has submitted the next one, still holds the row,
\* counted it as failed or was cut short.
NoneStranded ==
  \A v \in Ids :
    /\ rows[v].status = "pending_download" =>
         \/ \E c \in DOMAIN children : children[c].kind = "download" /\ children[c].row = v
         \/ \E j \in Jobs : rows[v].by = j /\ (AtStep(j, "submit") \/ ~jobs[j].whole)
    /\ LET j == rows[v].giver
       IN j # 0 =>
            \/ \E c \in DOMAIN children : children[c].kind = "post" /\ children[c].row = v
            \/ Active(j) \/ jobs[j].status \in {"failed", "cancelled"} \/ ~jobs[j].whole

\* Every job ends, cancelled or not, even while others wait for the slot.
JobsEnd == []<>(\A j \in Jobs : AtStep(j, "done"))
=============================================================================
