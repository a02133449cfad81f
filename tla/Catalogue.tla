------------------------------ MODULE Catalogue ------------------------------
(***************************************************************************)
(* What reads the library: lists and searches, page by page; cached        *)
(* counts; .nfo and playlist exports; and the two tables of saved things   *)
(* (fuzzbin/web/routes/{videos,search,exports,jobs}.py, services/          *)
(* search_service.py, services/base.py, core/db/exporter.py and            *)
(* handle_export_nfo of tasks/handlers.py).                                *)
(*                                                                         *)
(* A call is a coroutine; others run at each of its awaits.  Edits of the  *)
(* library arrive in between.  What an edit does to the tables is the      *)
(* subject of Library; here it makes a row hold something else.            *)
(***************************************************************************)
EXTENDS VideoQuery, TLC

CONSTANTS
  Callers,     \* coroutines at work at once: requests and workers
  Videos,      \* ids
  Contents,    \* what rows may hold
  FirstRows,   \* the rows at the start
  Requests,    \* the calls that are made, each a record
  Batch,       \* BATCH_SIZE of the export job
  Ttl,         \* seconds a cached count is served
  MaxSize,     \* entries in the cache of a service method
  MaxEdits,    \* bound on edits
  MaxCalls,    \* bound on calls that read videos
  MaxSaved,    \* bound on the ids given in a table, and on runs
  MaxClock,    \* bound on the clock
  Mixed        \* a bound too: whether calls that read videos, calls about saved
               \* things and what Maintenance adds come in one behaviour, and
               \* whether .nfo files cannot be written more than once

Kinds == {"list", "counts", "nfo request", "nfo job", "playlist", "create", "delete", "run"}
Tables == {"saved_searches", "scheduled_tasks"}
Caches == {"route", "service"}

\* Whether the call is about a saved search or a scheduled task.
AboutSaved(r) == "table" \in DOMAIN r

\* What a column holds is found by its own words.
ProperRow(row) ==
  /\ row = [c \in Columns |-> row[c]]
  /\ \A c \in TextColumns : row[c] = NULL \/ <<row[c], row[c]>> \in Like
  /\ \A t \in row["tags"] : t # NULL /\ <<t, t>> \in Like

ASSUME CatalogueAssumption ==
  /\ Videos \subseteq Nat /\ IsFiniteSet(Videos)
  /\ DOMAIN FirstRows \subseteq Videos
  /\ \A v \in DOMAIN FirstRows : FirstRows[v] \in Contents
  /\ NULL \notin Nat /\ \A row \in Contents : ProperRow(row)
  /\ Batch \in Nat \ {0} /\ MaxSize \in Nat \ {0}
  /\ {Ttl, MaxEdits, MaxCalls, MaxSaved, MaxClock} \subseteq Nat
  /\ Mixed \in BOOLEAN
  /\ \A r \in Requests :
       /\ r.kind \in Kinds
       /\ AboutSaved(r) <=> r.kind \in {"create", "delete", "run"}
       /\ AboutSaved(r) => r.table \in Tables
       /\ r.kind = "counts" => r.cache \in Caches
       /\ ~AboutSaved(r) /\ r.kind # "counts" =>
            /\ DOMAIN r.query = DOMAIN NewQuery
            /\ {r.query.deleted, r.query.desc} \subseteq BOOLEAN
            /\ r.kind # "list" => r.query.limit = NULL /\ r.query.offset = 0
       /\ r.kind = "list" =>
            {r.page, r.size} \subseteq Nat \ {0} /\ DOMAIN r.filter \subseteq Filters

VARIABLES
  rows,      \* videos
  hidden,    \* those with is_deleted = 1
  nfo,       \* .nfo files, by video
  artists,   \* artist.nfo files, by artist
  playlist,  \* the playlist file
  cache,     \* cache[c]: function from keys to entries; "route" is _facet_cache
  saved,     \* saved[t]: function from the ids of the rows to what they hold
  lastId,    \* sqlite_sequence
  runs,      \* jobs submitted for scheduled tasks
  call,      \* what each caller is at
  clock,
  calls,
  editAt,    \* history: when each edit was made
  late       \* history: videos whose .nfo was written from a row that has changed
             \* since, or could not be written

readVars == <<rows, hidden, nfo, artists, playlist, cache, saved, lastId, runs, call, clock,
              calls, editAt, late>>
files == <<nfo, artists, playlist, late>>
tables == <<saved, lastId, runs>>

Edits == Len(editAt)

Idle == [pc |-> "idle"]

\* The locals of a call and, after its end, its answer.
Started(r) ==
  [pc |-> r.kind, req |-> r, edits |-> 0, total |-> 0, offset |-> 0, left |-> <<>>,
   items |-> <<>>, text |-> NULL, dirs |-> {}, first |-> 0, asked |-> 0, set |-> 0, id |-> 0]

Finish(c) == call' = [call EXCEPT ![c] = Idle]
Goto(c, pc) == call' = [call EXCEPT ![c].pc = pc]
At(c, pc) == call[c].pc = pc
Query(c) == call[c].req.query

NothingSaved ==
  /\ runs = <<>> /\ \A t \in Tables : lastId[t] = 0
  /\ {c \in Callers : call[c] # Idle /\ AboutSaved(call[c].req)} = {}

WithinBounds(r) ==
  /\ Mixed \/ IF AboutSaved(r) THEN /\ calls + Edits + clock = 0
                                   /\ \A t \in Tables \ {r.table} : lastId[t] = 0
               ELSE NothingSaved
  /\ r.kind = "create" => lastId[r.table] < MaxSaved
  /\ r.kind = "run" => Len(runs) < MaxSaved
  /\ calls + (IF AboutSaved(r) THEN 0 ELSE 1) <= MaxCalls

Begin(c, r) ==
  /\ call[c].pc = "idle"
  /\ r.kind \notin {"delete", "run"}
  /\ WithinBounds(r)
  /\ calls' = IF AboutSaved(r) THEN calls ELSE calls + 1
  /\ call' = [call EXCEPT ![c] = Started(r)]
  /\ UNCHANGED <<rows, hidden, files, cache, tables, clock, editAt>>

Return(c) ==
  /\ At(c, "done")
  /\ Finish(c)
  /\ UNCHANGED <<rows, hidden, files, cache, tables, clock, calls, editAt>>

-----------------------------------------------------------------------------
(* Lists and searches *)

\* Mutant: the first page is page 0.
OffsetFromZero(page, size) == page * size

Offset(page, size) == (page - 1) * size

\* list_videos(), search_videos(), search_with_facets(): the number of rows
\* first, then the page.
TotalOf(c) == Count(rows, hidden, Query(c))
PageOf(c) ==
  LET r == call[c].req IN Execute(rows, hidden, Paged(r.query, r.size, Offset(r.page, r.size)))

CountRows(c) ==
  /\ At(c, "list")
  /\ call' = [call EXCEPT ![c].pc = "page", ![c].total = TotalOf(c), ![c].edits = Edits]
  /\ UNCHANGED <<rows, hidden, files, cache, tables, clock, calls, editAt>>

FetchRows(c) ==
  /\ At(c, "page")
  /\ call' = [call EXCEPT ![c].pc = "done", ![c].items = PageOf(c)]
  /\ UNCHANGED <<rows, hidden, files, cache, tables, clock, calls, editAt>>

-----------------------------------------------------------------------------
(* Cached counts: get_facets() of the routes and the methods of            *)
(* SearchService behind cached_async.  What they return is told by the     *)
(* first edit it may lack.                                                 *)

Expired(c, e) == IF c = "route" THEN clock >= e.set + Ttl ELSE clock > e.set + Ttl

\* Mutant: an entry is served for as long as it is there.
HitForever(c, key) == key \in DOMAIN cache[c]

Hit(c, key) == key \in DOMAIN cache[c] /\ ~Expired(c, cache[c][key])

Lookup(k) ==
  LET r == call[k].req
      e == cache[r.cache][r.key]
  IN /\ At(k, "counts")
     /\ call' = IF Hit(r.cache, r.key)
                THEN [call EXCEPT ![k].pc = "done", ![k].first = e.first, ![k].asked = e.asked,
                                  ![k].set = e.set, ![k].total = clock]
                ELSE [call EXCEPT ![k].pc = "compute", ![k].first = Edits, ![k].asked = clock]
     /\ UNCHANGED <<rows, hidden, files, cache, tables, clock, calls, editAt>>

\* When the cache is full the oldest entries go until one more fits, also when
\* the key that is stored is there already.  A dict keeps its keys in the
\* order in which they came.
MakeRoom(c, live) ==
  {k \in live : Cardinality({l \in live : cache[c][l].place > cache[c][k].place}) < MaxSize - 1}

PlaceOf(c, key, room) ==
  IF key \in room THEN cache[c][key].place ELSE 1 + Max({0} \cup {cache[c][k].place : k \in room})

Put(c, key, entry) ==
  LET live == {k \in DOMAIN cache[c] : ~Expired(c, cache[c][k])}
      room == IF c = "route" THEN live ELSE MakeRoom(c, live)
      new == [first |-> entry.first, asked |-> entry.asked, set |-> clock, place |-> PlaceOf(c, key, room)]
  IN cache' = [cache EXCEPT ![c] = [k \in room \cup {key} |-> IF k = key THEN new ELSE cache[c][k]]]

\* The last of the queries is answered; the result goes into the cache.
Compute(k) ==
  LET r == call[k].req IN
  /\ At(k, "compute")
  /\ Put(r.cache, r.key, call[k])
  /\ call' = [call EXCEPT ![k].pc = "done", ![k].set = clock, ![k].total = clock]
  /\ UNCHANGED <<rows, hidden, files, tables, clock, calls, editAt>>

-----------------------------------------------------------------------------
(* Exports *)

HasPath(row) == row["file"] # NULL

\* Mutant: the last page of the export is left out.
WholePages(c) == call[c].offset + Batch < call[c].total

MorePages(c) == call[c].offset < call[c].total

\* handle_export_nfo(): the number of videos, then one page after the other.
JobCount(c) ==
  /\ At(c, "nfo job")
  /\ call' = [call EXCEPT ![c].pc = "next page", ![c].total = TotalOf(c), ![c].edits = Edits]
  /\ UNCHANGED <<rows, hidden, files, cache, tables, clock, calls, editAt>>

NextPage(c) ==
  LET page == Execute(rows, hidden, Paged(Query(c), Batch, call[c].offset)) IN
  /\ At(c, "next page")
  /\ IF MorePages(c) /\ page # <<>>
     THEN call' = [call EXCEPT ![c].pc = "export", ![c].left = page, ![c].offset = @ + Batch]
     ELSE Goto(c, "artists")
  /\ UNCHANGED <<rows, hidden, files, cache, tables, clock, calls, editAt>>

\* export_nfo_files(): all rows at once.
RequestRows(c) ==
  /\ At(c, "nfo request")
  /\ call' = [call EXCEPT ![c].pc = "export", ![c].left = Execute(rows, hidden, Query(c)), ![c].edits = Edits]
  /\ UNCHANGED <<rows, hidden, files, cache, tables, clock, calls, editAt>>

Skips(c, v) ==
  \/ v \in DOMAIN rows /\ ~HasPath(rows[v])
  \/ call[c].req.kind = "nfo request" /\ nfo[v] # NULL /\ ~call[c].req.overwrite

\* _build_video_nfo() reads the row, and raises when the video is gone or
\* hidden; the loop then goes on with the next one.
ReadVideo(c) ==
  LET v == Head(call[c].left) IN
  /\ At(c, "export")
  /\ call[c].left # <<>>
  /\ IF v \notin DOMAIN rows \/ v \in hidden \/ Skips(c, v)
     THEN call' = [call EXCEPT ![c].left = Tail(@)]
     ELSE call' = [call EXCEPT ![c].pc = "write", ![c].text = rows[v]]
  /\ UNCHANGED <<rows, hidden, files, cache, tables, clock, calls, editAt>>

\* Content that has not changed is not written again.
Written(c, v, text) == IF call[c].req.incremental /\ nfo[v] = text THEN nfo[v] ELSE text

\* Artists and tags are read by queries of their own; the file is written
\* once the last of them has answered.
WriteNfo(c) ==
  LET v == Head(call[c].left)
      text == [call[c].text EXCEPT !["tags"] = IF v \in DOMAIN rows THEN rows[v]["tags"] ELSE {}]
  IN /\ At(c, "write")
     /\ nfo' = [nfo EXCEPT ![v] = Written(c, v, text)]
     /\ late' = IF v \in DOMAIN rows /\ rows[v] = text THEN late \ {v} ELSE late \cup {v}
     /\ call' = [call EXCEPT ![c].pc = "export", ![c].left = Tail(@), ![c].items = Append(@, v),
                             ![c].dirs = @ \cup ({text["artist"]} \ {NULL})]
     /\ UNCHANGED <<rows, hidden, artists, playlist, cache, tables, clock, calls, editAt>>

\* The row cannot be read, or the file is opened and cut short; the failure is
\* counted, logged and passed over.
WriteFails(c) ==
  LET v == Head(call[c].left) IN
  /\ At(c, "write")
  /\ Mixed \/ (Edits = 0 /\ late = {})
  /\ nfo' \in {nfo, [nfo EXCEPT ![v] = Blank]}
  /\ late' = late \cup {v}
  /\ call' = [call EXCEPT ![c].pc = "export", ![c].left = Tail(@),
                          ![c].dirs = @ \cup ({call[c].text["artist"]} \ {NULL})]
  /\ UNCHANGED <<rows, hidden, artists, playlist, cache, tables, clock, calls, editAt>>

PageDone(c) ==
  /\ At(c, "export")
  /\ call[c].left = <<>>
  /\ Goto(c, IF call[c].req.kind = "nfo job" THEN "next page" ELSE "done")
  /\ UNCHANGED <<rows, hidden, files, cache, tables, clock, calls, editAt>>

\* export_artist_to_nfo(), one by one.
WithArtists(dirs) == artists \cup dirs

\* One artist.nfo for each artist whose directory the job has been in.
WriteArtists(c) ==
  /\ At(c, "artists")
  /\ artists' = WithArtists(call[c].dirs)
  /\ Goto(c, "done")
  /\ UNCHANGED <<rows, hidden, nfo, playlist, late, cache, tables, clock, calls, editAt>>

\* Cancelling is noticed before the next video.
CancelJob(c) ==
  /\ call[c].pc \in {"next page", "export", "artists"}
  /\ call[c].req.kind = "nfo job"
  /\ Finish(c)
  /\ UNCHANGED <<rows, hidden, files, cache, tables, clock, calls, editAt>>

\* An M3U lists the videos that have a file, CSV and JSON all of them.
Tracks(found, format) ==
  IF format = "m3u" THEN SelectSeq(found, LAMBDA v : HasPath(rows[v])) ELSE found

\* export_playlist(): the query's answer is written before anything else happens.
ExportPlaylist(c) ==
  LET tracks == Tracks(Execute(rows, hidden, Query(c)), call[c].req.format)
  IN /\ At(c, "playlist")
     /\ playlist' = tracks
     /\ call' = [call EXCEPT ![c].pc = "done", ![c].items = tracks, ![c].total = Len(tracks)]
     /\ UNCHANGED <<rows, hidden, nfo, artists, late, cache, tables, clock, calls, editAt>>

-----------------------------------------------------------------------------
(* Saved searches and scheduled tasks *)

NextId(t) == lastId[t] + 1

\* The name of a scheduled task is UNIQUE.
NameTaken(t, name) == t = "scheduled_tasks" /\ \E i \in DOMAIN saved[t] : saved[t][i] = name

Found(t, i) == i \in DOMAIN saved[t]
\* get_saved_search_by_id(), get_scheduled_task_by_id().
Fetched(t, i) == saved[t][i]
With(t, i, row) == [saved EXCEPT ![t] = [k \in DOMAIN @ \cup {i} |-> IF k = i THEN row ELSE @[k]]]
Without(t, i) == [saved EXCEPT ![t] = [k \in DOMAIN @ \ {i} |-> @[k]]]

\* create_saved_search(), create_scheduled_task(): the row, then read back.
CreateSaved(c) ==
  LET r == call[c].req IN
  /\ At(c, "create")
  /\ IF NameTaken(r.table, r.name)
     THEN Finish(c) /\ UNCHANGED tables
     ELSE /\ saved' = With(r.table, NextId(r.table), r.name)
          /\ lastId' = [lastId EXCEPT ![r.table] = IF NextId(r.table) > @ THEN NextId(r.table) ELSE @]
          /\ call' = [call EXCEPT ![c].pc = "read back", ![c].id = NextId(r.table)]
          /\ UNCHANGED runs
  /\ UNCHANGED <<rows, hidden, files, cache, clock, calls, editAt>>

\* The answer is the row; when it has been deleted meanwhile there is none and
\* the request fails.
ReadBack(c) ==
  /\ At(c, "read back")
  /\ Finish(c)
  /\ UNCHANGED <<rows, hidden, files, cache, tables, clock, calls, editAt>>

\* A client picks a row off a list; its request to delete it or to run it
\* arrives later.
Pick(c, r) ==
  /\ call[c].pc = "idle"
  /\ r.kind \in {"delete", "run"}
  /\ WithinBounds(r)
  /\ \E i \in DOMAIN saved[r.table] :
       call' = [call EXCEPT ![c] = [Started(r) EXCEPT !.id = i, !.text = Fetched(r.table, i)]]
  /\ UNCHANGED <<rows, hidden, files, cache, tables, clock, calls, editAt>>

DeleteSaved(c) ==
  LET t == call[c].req.table IN
  /\ At(c, "delete")
  /\ saved' = Without(t, call[c].id)
  /\ Finish(c)
  /\ UNCHANGED <<rows, hidden, files, cache, lastId, runs, clock, calls, editAt>>

\* run_scheduled_task_now(): the row is read, a job is submitted, and the
\* row is not touched.  Nothing else ever runs the row.
RunTask(c) ==
  LET t == call[c].req.table
      i == call[c].id
  IN
  /\ At(c, "run")
  /\ runs' = IF Found(t, i) THEN Append(runs, <<Fetched(t, i), call[c].text>>) ELSE runs
  /\ Finish(c)
  /\ UNCHANGED <<rows, hidden, files, cache, saved, lastId, clock, calls, editAt>>

-----------------------------------------------------------------------------

WithRow(v, row) == [w \in DOMAIN rows \cup {v} |-> IF w = v THEN row ELSE rows[w]]

\* Requests and jobs that change the library: a video comes, changes, goes
\* to the trash and back, or for good.
Edit(v) ==
  /\ Edits < MaxEdits
  /\ Mixed \/ NothingSaved
  /\ editAt' = Append(editAt, clock)
  /\ \/ \E row \in Contents : rows' = WithRow(v, row) /\ rows' # rows /\ UNCHANGED hidden
     \/ v \in DOMAIN rows /\ hidden' = (hidden \cup {v}) \ (hidden \cap {v}) /\ UNCHANGED rows
     \/ v \in hidden /\ rows' = [w \in DOMAIN rows \ {v} |-> rows[w]] /\ hidden' = hidden \ {v}
  /\ UNCHANGED <<files, cache, tables, call, clock, calls>>

Tick ==
  /\ clock < MaxClock
  /\ Mixed \/ NothingSaved
  /\ clock' = clock + 1
  /\ UNCHANGED <<rows, hidden, files, cache, tables, call, calls, editAt>>

ReadInit ==
  /\ rows = FirstRows /\ hidden = {}
  /\ nfo = [v \in Videos |-> NULL] /\ artists = {} /\ playlist = <<>>
  /\ cache = [c \in Caches |-> <<>>]
  /\ saved = [t \in Tables |-> <<>>]
  /\ lastId = [t \in Tables |-> 0]
  /\ runs = <<>>
  /\ call = [c \in Callers |-> Idle]
  /\ clock = 0 /\ calls = 0
  /\ editAt = <<>> /\ late = {}

CallStep(c) ==
  \/ CountRows(c) \/ FetchRows(c)
  \/ Lookup(c) \/ Compute(c)
  \/ JobCount(c) \/ NextPage(c) \/ RequestRows(c) \/ ReadVideo(c)
  \/ WriteNfo(c) \/ WriteFails(c) \/ PageDone(c) \/ WriteArtists(c) \/ ExportPlaylist(c)
  \/ CreateSaved(c) \/ ReadBack(c) \/ DeleteSaved(c) \/ RunTask(c)

ReadNext ==
  \/ \E c \in Callers :
       \/ \E r \in Requests : Begin(c, r) \/ Pick(c, r)
       \/ CallStep(c) \/ CancelJob(c) \/ Return(c)
  \/ \E v \in Videos : Edit(v)
  \/ Tick

-----------------------------------------------------------------------------
(* Properties *)

Done(c, kind) == At(c, "done") /\ call[c].req.kind = kind

\* The pages of a list.
Pages(r) == 1..((Count(rows, hidden, r.query) + r.size - 1) \div r.size)
Page(r, p) == Execute(rows, hidden, Paged(r.query, r.size, Offset(p, r.size)))

\* A list during which nobody edited the library answers with a page and a
\* total that fit: the pages up to the total hold each row the query selects
\* once, and a client that turns them all sees every video.
PagesPartition ==
  \A c \in Callers : Done(c, "list") /\ call[c].edits = Edits =>
    LET r == call[c].req
        chosen == Selected(rows, hidden, r.query)
        places == {x \in Pages(r) \X (1..r.size) : x[2] \in DOMAIN Page(r, x[1])}
    IN /\ Cardinality(places) = Cardinality(chosen) /\ Cardinality(chosen) = call[c].total
       /\ {Page(r, x[1])[x[2]] : x \in places} = chosen
       /\ call[c].items # <<>> <=> r.page \in Pages(r)

Choosing(f, c, x) == [d \in DOMAIN f \cup {c} |-> IF d = c THEN {x} ELSE f[d]]

\* A value that a facet offers beside a list, chosen as a filter (alone, or
\* in place of the filter there is on that column), finds at least the
\* videos counted.
FacetIsReachable ==
  \A k \in Callers, c \in {"tags", "genre", "director", "year"} : Done(k, "list") =>
    LET f == call[k].req.filter
        others == [d \in DOMAIN f \ {FilterOf(c)} |-> f[d]]
        facet == Facet(rows, hidden, ApplyToQuery(others), c)
    IN \A x \in DOMAIN facet :
         Count(rows, hidden, ApplyToQuery(Choosing(others, FilterOf(c), x))) >= facet[x]

\* A count that is served lacks no edit older than the time an entry lives
\* and the time its computation took.
ServedIsRecent ==
  \A c \in Callers : Done(c, "counts") =>
    \A e \in 1..Edits : editAt[e] + Ttl + (call[c].set - call[c].asked) < call[c].total => e <= call[c].first

\* Concurrent misses of one key and misses of many keys leave the cache of a
\* method within its size.
CacheBounded == Cardinality(DOMAIN cache["service"]) <= MaxSize

\* After an export during which nothing was edited every video it selects
\* that has a file has the .nfo its row asks for: no video is skipped between
\* two pages, and an unchanged file is one that need not change.  (An export
\* that had read the row before may still overwrite it, or the write failed,
\* until the next that does not: late.)
QuietExportIsFresh ==
  \A c \in Callers :
    /\ Done(c, "nfo job") \/ (Done(c, "nfo request") /\ call[c].req.overwrite)
    /\ call[c].edits = Edits
    => \A v \in Selected(rows, {}, Query(c)) \ (hidden \cup late) :
         HasPath(rows[v]) => nfo[v] = rows[v]

\* A row that is deleted or run is the one the client had picked, however
\* long ago that was: ids are not given twice.
ActsOnWhatWasPicked ==
  [][/\ \A c \in Callers : DeleteSaved(c) =>
          LET t == call[c].req.table IN Found(t, call[c].id) => saved[t][call[c].id] = call[c].text
     /\ \A i \in DOMAIN runs' : runs'[i][1] = runs'[i][2]]_readVars
=============================================================================
