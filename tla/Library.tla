------------------------------- MODULE Library -------------------------------
(***************************************************************************)
(* The video library on its one shared SQLite connection                   *)
(* (fuzzbin/core/db/repository.py, connection.py, the triggers of          *)
(* 001_initial_schema.sql, and the routes, the tag service and the decade  *)
(* tag job that call them).                                                *)
(*                                                                         *)
(* A call is a coroutine whose program is a sequence of statements.  The   *)
(* connection's thread serves statements in the order they are handed to   *)
(* it and a coroutine hands over its next one when the last has returned,  *)
(* so that calls take turns statement by statement.  They share one        *)
(* transaction: the first write opens it, anybody's commit ends it for     *)
(* all, and so does anybody's rollback.                                    *)
(***************************************************************************)
EXTENDS Naturals, FiniteSets, Sequences, SequencesExt

CONSTANTS
  Callers,      \* coroutines at work at once
  Videos,
  Tags,         \* tag names
  Statuses,     \* values of videos.status
  Beginnings,   \* libraries as earlier calls leave them: some videos, some of
                \* which have one tag, set by the decade job or by hand, an artist
                \* and a collection or none: [videos, tagged, tag, auto, named]
  Services,     \* which of the calls below are made
  MaxTagId,     \* bound on tag rows ever inserted
  MaxCalls,     \* bound on calls
  MaxFaults     \* bound on crashes, cancelled jobs and failed exports

\* An artist and a collection: rows with a unique name that are hidden, not
\* deleted, and that videos are linked to.
Named == {"artist", "collection"}

ASSUME LibraryAssumption ==
  /\ IsFiniteSet(Videos) /\ IsFiniteSet(Tags)
  /\ "none" \notin Statuses /\ "discovered" \in Statuses
  /\ Services \subseteq {"videos", "named", "tags", "untag", "bulk", "decades"}
  /\ MaxTagId \in Nat \ {0} /\ MaxCalls \in Nat /\ MaxFaults \in Nat
  /\ \A b \in Beginnings :
       /\ b.videos \subseteq Videos /\ b.tagged \subseteq b.videos
       /\ b.tag \in Tags /\ b.auto \in BOOLEAN
       /\ b.named \in [Named -> {"none", "live", "hidden"}]

VARIABLES
  db,       \* the tables as the connection sees them
  disk,     \* as committed
  open,     \* Connection.in_transaction
  nfo,      \* tags in the .nfo file of each video
  todo,     \* statements that each call still makes, the first one handed over
  seen,     \* id of the tag that each call looked up or inserted last
  line,     \* calls that wait for the connection's thread
  calls, faults,
  upset,    \* history: a call failed or was cut off, or a rollback met the work of another
  untold,   \* history: videos whose tags changed in a way that exports no .nfo
  reverted  \* history: videos whose new status update_video() wrote over unknowingly

vars == <<db, disk, open, nfo, todo, seen, line, calls, faults, upset, untold, reverted>>

Empty ==
  [status |-> [v \in Videos |-> "none"],   \* "none": no row
   born |-> {},                            \* ids given out, none is given again
   hidden |-> {},                          \* rows with is_deleted = 1
   told |-> [v \in Videos |-> "none"],     \* newest new_status of video_status_history
   tag |-> [t \in Tags |-> 0],             \* id of the tag's row, 0: no row
   lastTag |-> 0,                          \* sqlite_sequence
   usage |-> [t \in Tags |-> 0],
   links |-> {},                           \* video_tags
   auto |-> {},                            \* those with source = 'auto'
   indexed |-> {}, words |-> {},           \* videos_fts and its column tags
   named |-> [n \in Named |-> "none"],     \* or "live" or "hidden"
   members |-> {}]                         \* video_artists, video_collections

Exists(d, v) == d.status[v] # "none"
Visible(d, v) == Exists(d, v) /\ v \notin d.hidden
WordsOf(d, v) == {t \in Tags : d.tag[t] # 0 /\ <<v, d.tag[t]>> \in d.links}

-----------------------------------------------------------------------------
(* Tables and triggers *)

\* The videos_fts triggers write the rows of the touched videos anew.
Reindexed(d, touched) ==
  LET shown == {v \in touched : Visible(d, v)} IN
  [d EXCEPT
    !.indexed = (@ \ touched) \cup shown,
    !.words = {w \in @ : w[1] \notin touched} \cup UNION {{v} \X WordsOf(d, v) : v \in shown}]

\* Mutant: a tag outlives its last link.
KeepsTags(d, links) ==
  Reindexed([d EXCEPT !.links = links, !.auto = @ \cap links],
            {l[1] : l \in (d.links \ links) \cup (links \ d.links)})

\* video_tags becomes `links`: tags_usage_increment, tags_usage_decrement, which
\* drops a tag with its last use, and the index.
Linked(d, links) ==
  LET Of(ls, t) == {l \in ls : d.tag[t] # 0 /\ l[2] = d.tag[t]}
      count == [t \in Tags |-> d.usage[t] + Cardinality(Of(links \ d.links, t))
                                 - Cardinality(Of(d.links \ links, t))]
      dropped == {t \in Tags : Of(d.links \ links, t) # {} /\ count[t] = 0}
      touched == {l[1] : l \in (d.links \ links) \cup (links \ d.links)}
  IN Reindexed([d EXCEPT
       !.links = links, !.auto = @ \cap links,
       !.usage = count,
       !.tag = [t \in Tags |-> IF t \in dropped THEN 0 ELSE @[t]]], touched)

SetRow(d, v, s) == Reindexed([d EXCEPT !.status[v] = s], {v})
Hidden(d, v) == Reindexed([d EXCEPT !.hidden = @ \cup {v}], {v})
Shown(d, v) == Reindexed([d EXCEPT !.hidden = @ \ {v}], {v})

\* DELETE FROM videos with what ON DELETE CASCADE takes along.
Removed(d, v) ==
  LET row == [d EXCEPT !.status[v] = "none", !.hidden = @ \ {v}, !.told[v] = "none",
                       !.members = {m \in @ : m[1] # v}]
  IN Reindexed(Linked(row, {l \in d.links : l[1] # v}), {v})

\* DELETE FROM tags, its links cascade.
TagRemoved(d, t) ==
  LET gone == d.tag[t]
  IN Linked([d EXCEPT !.tag[t] = 0, !.usage[t] = 0], {l \in d.links : l[2] # gone})

-----------------------------------------------------------------------------
(* Programs.  A statement is a tuple <<what, operands ...>>.  The marker       *)
(* <<"except", kinds, then>> ends a try block that catches these exceptions.   *)

Fetch == <<"fetch">>
Commit == <<"commit">>
Rollback(raises) == <<"rollback", raises>>
Except(kinds, then) == <<"except", kinds, then>>

\* `except Exception: rollback(); raise QueryError` of most methods.
Guarded(body) == body \o <<Except({"sql"}, <<Rollback("query")>>)>>
Get(v) == <<<<"get", v>>>>
GetAny(v) == <<<<"getany", v>>>>

\* Mutant: the history row is forgotten.
NoHistory(v, s) == <<Commit>>
\* _add_status_history() commits by itself.
History(v, s) == <<<<"history", v, s>>, Commit>>

CreateVideo(v) == Guarded(<<<<"insert", v>>, Commit>> \o History(v, "discovered"))
\* Both read the old status first, see ThenStatus.
UpdateVideo(v, s) == Guarded(<<<<"getstatus", v, s, "update_video">>>>)
UpdateStatus(v, s) == Guarded(<<<<"getstatus", v, s, "update_status">>>>)
\* update_video() of other columns, of a deleted row as well.
EditVideo(v) == Guarded(GetAny(v) \o <<<<"edit", v>>, Commit>>)
DeleteVideo(v) == Guarded(Get(v) \o <<<<"hide", v>>, Commit>>)
HardDeleteVideo(v) == Guarded(GetAny(v) \o <<<<"remove", v>>, Commit>>)
RestoreVideo(v) == Guarded(GetAny(v) \o <<<<"show", v>>, Commit>>)

\* The methods of collections have no handler.
UpsertNamed(n) ==
  IF n = "artist" THEN Guarded(<<<<"find", n, "sql">>>>) ELSE <<<<"find", n, "raw">>>>
HideNamed(n) == <<<<"getnamed", n>>, <<"hidenamed", n>>, Commit>>
LinkNamed(v, n) ==
  IF n = "artist" THEN Guarded(<<<<"link", v, n, "sql">>, Commit>>)
                  ELSE <<<<"link", v, n, "raw">>, Commit>>
UnlinkNamed(v, n) == <<<<"unlink", v, n>>, Commit>>

UpsertTag(t) == <<<<"findtag", t>>>>
AddTag(v, source) == <<<<"addtag", v, source>>, Commit>>
TagOn(v, t, source) == UpsertTag(t) \o AddTag(v, source)

\* auto_add_decade_tag() of an import, which leaves the .nfo file to others.
ImportTag(v, t) == UpsertTag(t) \o <<<<"importtag", v>>, Commit>>

\* _export_nfo_for_video()
Export(v) == <<<<"export", v>>>>

Wiped(v, replace) == IF replace THEN <<<<"wipe", v>>>> ELSE <<>>
SetTags(v, ts, replace) ==
  Get(v) \o Wiped(v, replace) \o FlattenSeq([i \in 1..Len(ts) |-> TagOn(v, ts[i], "manual")])
SetVideoTags(v, ts, replace) == Get(v) \o SetTags(v, ts, replace) \o Export(v)
Untag(v) == <<<<"untag", v>>, Commit>>
RemoveVideoTag(v, t) == Get(v) \o <<<<"gettag", t, TRUE>>>> \o Untag(v) \o Export(v)
DeleteTag(t, force) == <<<<"gettag", t, force>>, <<"deletetag", t>>, Commit>>

\* transaction() around what runs inside it.
InTransaction(body) ==
  <<<<"begin">>>> \o body \o
  <<Commit, Except({"missing", "query", "sql", "busy", "raw"}, <<Rollback("transaction")>>)>>
\* `except VideoNotFoundError` and `except QueryError` in the bulk methods.
Each(vs, body) ==
  FlattenSeq([i \in 1..Len(vs) |-> body[vs[i]] \o <<Except({"missing", "query"}, <<>>)>>])

BulkUpdateStatus(vs, s) == InTransaction(Each(vs, [v \in Videos |-> UpdateStatus(v, s)]))
BulkOrganizeVideos(vs) == InTransaction(Each(vs, [v \in Videos |-> EditVideo(v)]))
BulkDeleteVideos(vs, hard) ==
  InTransaction(Each(vs, [v \in Videos |-> IF hard THEN HardDeleteVideo(v) ELSE DeleteVideo(v)]))
BulkAddToCollection(vs) ==
  <<<<"getnamed", "collection">>>>
  \o InTransaction(Each(vs, [v \in Videos |-> LinkNamed(v, "collection")]))
BulkApplyTags(vs, t, replace) ==
  UpsertTag(t)
  \o InTransaction(Each(vs, [v \in Videos |->
                     Get(v) \o Wiped(v, replace) \o <<<<"addtag", v, "manual">>>>]))
\* TagService has a job export the videos that took the tags.
ExportSelective(vs) == FlattenSeq([i \in 1..Len(vs) |-> Export(vs[i])])
ApplyTags(vs, t, replace) == BulkApplyTags(vs, t, replace) \o ExportSelective(vs)

\* update_decade_tag() from the decade of one tag to that of another.
UpdateDecadeTag(v, old, new) ==
  InTransaction(<<<<"findauto", v, {old}>>>> \o TagOn(v, new, "auto")) \o Export(v)
\* One video of handle_sync_decade_tags(); remove_auto_decade_tags() reads the
\* ids once and removes them one by one.
SyncDecadeTags(v, t, mode) ==
  (IF mode # "apply" THEN <<<<"findauto", v, Tags>>>> ELSE <<>>)
  \o (IF mode # "remove" THEN TagOn(v, t, "auto") ELSE <<>>)
  \o Export(v) \o <<Except({"raw"}, <<>>)>>

Both == SetToSeq(Videos)

\* The calls of VideoService, of the routes of artists, collections, tags and
\* bulk changes, of the decade tags' upkeep, and of imports that set such a tag.
VideoCalls ==
  {CreateVideo(v) : v \in Videos \ db.born}
  \cup {UpdateVideo(v, s) : v \in Videos, s \in Statuses}
  \cup {UpdateStatus(v, s) : v \in Videos, s \in Statuses}
  \cup {EditVideo(v) : v \in Videos}
  \cup {DeleteVideo(v) : v \in Videos} \cup {RestoreVideo(v) : v \in Videos}
  \cup {HardDeleteVideo(v) : v \in Videos}
NamedCalls(n) ==
  {UpsertNamed(n), HideNamed(n)}
  \cup {LinkNamed(v, n) : v \in Videos} \cup {UnlinkNamed(v, n) : v \in Videos}
ArtistCalls == NamedCalls("artist")
CollectionCalls == NamedCalls("collection")
TagCalls ==
  {SetVideoTags(v, <<t>>, r) : v \in Videos, t \in Tags, r \in BOOLEAN}
  \cup {RemoveVideoTag(v, t) : v \in Videos, t \in Tags}
  \cup {DeleteTag(t, f) : t \in Tags, f \in BOOLEAN}
UntagCalls == {SetVideoTags(v, <<>>, TRUE) : v \in Videos}
BulkCalls ==
  {BulkUpdateStatus(Both, s) : s \in Statuses}
  \cup {BulkDeleteVideos(Both, h) : h \in BOOLEAN} \cup {BulkAddToCollection(Both), BulkOrganizeVideos(Both)}
  \cup {ApplyTags(Both, t, r) : t \in Tags, r \in BOOLEAN}
DecadeCalls ==
  {UpdateDecadeTag(v, o, n) : v \in Videos, o \in Tags, n \in Tags}
  \cup {SyncDecadeTags(v, t, m) : v \in {w \in Videos : Visible(db, w)}, t \in Tags,
                                  m \in {"apply", "remove", "migrate"}}
  \cup {ImportTag(v, t) : v \in {w \in Videos : Exists(db, w)}, t \in Tags}

Programs(service) ==
  CASE service = "videos" -> VideoCalls
    [] service = "named" -> ArtistCalls \cup CollectionCalls
    [] service = "tags" -> TagCalls
    [] service = "untag" -> UntagCalls
    [] service = "bulk" -> BulkCalls
    [] service = "decades" -> DecadeCalls

-----------------------------------------------------------------------------
(* The connection *)

Row(d, n) == d.named[n]

\* Whether a lookup finds the video: update_video() looks among deleted rows too.
Finds(d, s) ==
  IF s[1] = "get" \/ (s[1] = "getstatus" /\ s[4] = "update_status") THEN Visible(d, s[2])
  ELSE s[1] \in {"getany", "getstatus"} => Exists(d, s[2])

\* The exception that a statement raises, "none" when it succeeds.
Raises(d, s, id) ==
  CASE ~Finds(d, s) -> "missing"
    [] s[1] = "getnamed" /\ Row(d, s[2]) # "live" -> "notfound"
    [] s[1] = "gettag" /\ (d.tag[s[2]] = 0 \/ (d.usage[s[2]] > 0 /\ ~s[3])) -> "notfound"
    [] s[1] = "insert" /\ s[2] \in d.born -> "sql"
    [] s[1] = "begin" /\ open -> "busy"
    [] s[1] = "history" /\ ~Exists(d, s[2]) -> "sql"
    [] s[1] = "insertnamed" /\ Row(d, s[2]) # "none" -> s[3]
    [] s[1] = "link" /\ (~Exists(d, s[2]) \/ Row(d, s[3]) = "none") -> s[4]
    [] s[1] = "inserttag" /\ d.tag[s[2]] # 0 -> "raw"
    [] s[1] \in {"addtag", "importtag"} /\ (~Exists(d, s[2]) \/ id = 0 \/ \A t \in Tags : d.tag[t] # id) -> "raw"
    [] OTHER -> "none"

Writes == {"insert", "edit", "status", "history", "hide", "show", "remove", "insertnamed",
           "updatenamed", "hidenamed", "link", "unlink", "inserttag", "addtag",
           "importtag", "wipe", "untag", "untagid", "deletetag"}

\* What a write makes of the tables.
Written(d, s, id) ==
  CASE s[1] = "insert" -> SetRow([d EXCEPT !.born = @ \cup {s[2]}], s[2], "discovered")
    [] s[1] = "status" -> IF Exists(d, s[2]) THEN SetRow(d, s[2], s[3]) ELSE d
    [] s[1] = "history" -> [d EXCEPT !.told[s[2]] = s[3]]
    [] s[1] = "hide" -> IF Exists(d, s[2]) THEN Hidden(d, s[2]) ELSE d
    [] s[1] = "show" -> Shown(d, s[2])
    [] s[1] = "remove" -> Removed(d, s[2])
    [] s[1] = "insertnamed" -> [d EXCEPT !.named[s[2]] = "live"]
    [] s[1] = "hidenamed" -> [d EXCEPT !.named[s[2]] = "hidden"]
    [] s[1] = "link" -> [d EXCEPT !.members = @ \cup {<<s[2], s[3]>>}]
    [] s[1] = "unlink" -> [d EXCEPT !.members = @ \ {<<s[2], s[3]>>}]
    [] s[1] = "inserttag" -> [d EXCEPT !.lastTag = @ + 1, !.tag[s[2]] = d.lastTag + 1]
    [] s[1] \in {"addtag", "importtag"} ->
         LET link == <<s[2], id>> IN
         [Linked(d, d.links \cup {link}) EXCEPT
            !.auto = IF (s[1] = "importtag" \/ s[3] = "auto") /\ link \notin d.links
                     THEN @ \cup {link} ELSE @]
    [] s[1] = "wipe" -> Linked(d, {l \in d.links : l[1] # s[2]})
    [] s[1] = "untag" -> Linked(d, d.links \ {<<s[2], id>>})
    [] s[1] = "untagid" -> Linked(d, d.links \ {<<s[2], s[3]>>})
    [] s[1] = "deletetag" -> TagRemoved(d, s[2])
    [] OTHER -> d

\* update_status() stops at an unchanged status, update_video() does not.
ThenStatus(old, v, s, method) ==
  IF old # s THEN <<<<"status", v, s, method>>>> \o History(v, s)
                  \o (IF method = "update_video" THEN <<Commit>> ELSE <<>>)
  ELSE IF method = "update_video" THEN <<<<"status", v, s, method>>, Commit>> ELSE <<>>

\* The statements that follow from what a read returned.
Then(d, s) ==
  CASE s[1] \in {"get", "getany", "getnamed", "gettag"} -> <<Fetch>>
    [] s[1] = "getstatus" -> <<Fetch>> \o ThenStatus(d.status[s[2]], s[2], s[3], s[4])
    [] s[1] = "find" ->
         <<Fetch, <<IF Row(d, s[2]) = "live" THEN "updatenamed" ELSE "insertnamed", s[2], s[3]>>,
           Commit>>
    [] s[1] = "findtag" ->
         <<Fetch>> \o (IF d.tag[s[2]] = 0 THEN <<<<"inserttag", s[2]>>, Commit>> ELSE <<>>)
    [] s[1] = "findauto" ->
         LET ids == SetToSeq({d.tag[t] : t \in {u \in s[3] : <<s[2], d.tag[u]>> \in d.auto}})
         IN <<Fetch>> \o FlattenSeq([i \in 1..Len(ids) |-> <<<<"untagid", s[2], ids[i]>>, Commit>>])
    [] OTHER -> <<>>

\* What is left of a program: markers in front of the next statement are passed.
Rest(program) ==
  LET n == SelectInSeq(program, LAMBDA s : s[1] # "except")
  IN IF n = 0 THEN <<>> ELSE SubSeq(program, n, Len(program))

\* An exception unwinds to the first marker that catches it.
Unwound(program, kind) ==
  LET n == SelectInSeq(program, LAMBDA s : s[1] = "except" /\ kind \in s[2])
  IN IF n = 0 THEN <<>> ELSE Rest(program[n][3] \o SubSeq(program, n + 1, Len(program)))

Advance(p, program) ==
  /\ todo' = [todo EXCEPT ![p] = program]
  /\ line' = IF program = <<>> THEN Tail(line) ELSE Append(Tail(line), p)

-----------------------------------------------------------------------------
Filled(b) ==
  LET first == [v \in Videos |-> IF v \in b.videos THEN "discovered" ELSE "none"]
      rows == [Empty EXCEPT !.status = first, !.told = first, !.born = b.videos,
                            !.indexed = b.videos, !.named = b.named]
      links == b.tagged \X {1}
  IN IF b.tagged = {} THEN rows
     ELSE [rows EXCEPT !.lastTag = 1, !.tag[b.tag] = 1, !.usage[b.tag] = Cardinality(b.tagged),
                       !.links = links, !.auto = IF b.auto THEN links ELSE {},
                       !.words = b.tagged \X {b.tag}]

Init ==
  /\ db \in {Filled(b) : b \in Beginnings}
  /\ disk = db
  /\ open = FALSE
  /\ nfo = [v \in Videos |-> WordsOf(db, v)]
  /\ todo = [p \in Callers |-> <<>>]
  /\ seen = [p \in Callers |-> 0]
  /\ line = <<>>
  /\ calls = 0 /\ faults = 0
  /\ upset = FALSE /\ untold = {} /\ reverted = {}

\* A request or a job calls the repository.
Call(p) ==
  /\ todo[p] = <<>> /\ calls < MaxCalls
  /\ \E service \in Services : \E program \in Programs(service) :
       todo' = [todo EXCEPT ![p] = program]
  /\ line' = Append(line, p)
  /\ seen' = [seen EXCEPT ![p] = 0]
  /\ calls' = calls + 1
  /\ UNCHANGED <<db, disk, open, nfo, faults, upset, untold, reverted>>

Next1(p) == Head(todo[p])
\* No history row follows.
Unsaid(p) == Len(todo[p]) > 1 /\ todo[p][2] = Commit
Turn(p) == line # <<>> /\ Head(line) = p
\* A value that must be unique may be taken: the update or the insert fails.
MayConflict(s) == s[1] \in {"insert", "edit"} \/ (s[1] = "status" /\ s[4] = "update_video")

Read(p) ==
  LET s == Next1(p) IN
  /\ Turn(p)
  /\ s[1] \in {"get", "getany", "getnamed", "gettag", "getstatus", "find", "findtag", "findauto", "fetch"}
  /\ Raises(db, s, seen[p]) = "none"
  /\ seen' = [seen EXCEPT ![p] = IF s[1] \in {"findtag", "gettag"} THEN db.tag[s[2]] ELSE @]
  /\ Advance(p, Rest(Then(db, s) \o Tail(todo[p])))
  /\ UNCHANGED <<db, disk, open, nfo, calls, faults, upset, untold, reverted>>

\* A write opens a transaction when none is open.
Write(p) ==
  LET s == Next1(p) IN
  /\ Turn(p) /\ s[1] \in Writes
  /\ Raises(db, s, seen[p]) = "none"
  /\ s[1] = "inserttag" => db.lastTag < MaxTagId
  /\ db' = Written(db, s, seen[p])
  /\ open' = TRUE
  /\ seen' = [seen EXCEPT ![p] = IF s[1] = "inserttag" THEN db'.lastTag ELSE @]
  /\ untold' = untold \cup (CASE s[1] = "deletetag" -> Videos
                               [] s[1] \in {"show", "importtag"} -> {s[2]}
                               [] OTHER -> {})
  /\ reverted' = IF s[1] = "status" /\ db'.status # db.status /\ Unsaid(p)
                   THEN reverted \cup {s[2]} ELSE reverted
  /\ Advance(p, Rest(Tail(todo[p])))
  /\ UNCHANGED <<disk, nfo, calls, faults, upset>>

Begin(p) ==
  /\ Turn(p) /\ Next1(p) = <<"begin">> /\ ~open
  /\ open' = TRUE
  /\ Advance(p, Rest(Tail(todo[p])))
  /\ UNCHANGED <<db, disk, nfo, seen, calls, faults, upset, untold, reverted>>

\* A statement raises; a failed write leaves the transaction open that it began.
Raise(p) ==
  LET s == Next1(p)
      kind == Raises(db, s, seen[p])
  IN
  /\ Turn(p)
  /\ \/ kind # "none" /\ Advance(p, Unwound(Tail(todo[p]), kind))
     \/ kind = "none" /\ MayConflict(s) /\ Advance(p, Unwound(Tail(todo[p]), "sql"))
  /\ open' = (open \/ s[1] \in Writes)
  /\ upset' = (upset \/ kind = "raw")
  /\ UNCHANGED <<db, disk, nfo, seen, calls, faults, untold, reverted>>

CommitAll(p) ==
  /\ Turn(p) /\ Next1(p) = Commit
  /\ disk' = db /\ open' = FALSE
  /\ Advance(p, Rest(Tail(todo[p])))
  /\ UNCHANGED <<db, nfo, seen, calls, faults, upset, untold, reverted>>

RollbackAll(p) ==
  LET s == Next1(p) IN
  /\ Turn(p) /\ s[1] = "rollback"
  /\ db' = disk /\ open' = FALSE
  /\ upset' = (upset \/ (db # disk /\ Len(line) > 1))
  /\ Advance(p, Unwound(Tail(todo[p]), s[2]))
  /\ UNCHANGED <<disk, nfo, seen, calls, faults, untold, reverted>>

\* NFOExporter.export_video_to_nfo(): what it read last is written at once.
ExportNfo(p) ==
  LET v == Next1(p)[2] IN
  /\ Turn(p) /\ Next1(p)[1] = "export"
  /\ nfo' = IF Visible(db, v) THEN [nfo EXCEPT ![v] = WordsOf(db, v)] ELSE nfo
  /\ Advance(p, Rest(Tail(todo[p])))
  /\ UNCHANGED <<db, disk, open, seen, calls, faults, upset, untold, reverted>>

\* Its errors are swallowed, and so are those of the job that cannot be
\* submitted, which then makes none of its exports.
ExportFails(p) ==
  LET v == Next1(p)[2] IN
  /\ Turn(p) /\ Next1(p)[1] = "export"
  /\ faults < MaxFaults /\ faults' = faults + 1
  /\ untold' = untold \cup {v}
  /\ Advance(p, Rest(Tail(todo[p])))
  /\ UNCHANGED <<db, disk, open, nfo, seen, calls, upset, reverted>>

\* A job is cancelled or times out: its statement is still served, nothing after it.
Cancel(p) ==
  /\ faults < MaxFaults /\ Len(todo[p]) > 1
  /\ todo' = [todo EXCEPT ![p] = <<Head(@)>>]
  /\ faults' = faults + 1 /\ upset' = TRUE
  /\ UNCHANGED <<db, disk, open, nfo, seen, line, calls, untold, reverted>>

Crash ==
  /\ faults < MaxFaults /\ line # <<>>
  /\ db' = disk /\ open' = FALSE
  /\ todo' = [p \in Callers |-> <<>>] /\ line' = <<>>
  /\ faults' = faults + 1 /\ upset' = TRUE
  /\ UNCHANGED <<disk, nfo, seen, calls, untold, reverted>>

Next ==
  \/ \E p \in Callers :
       \/ Call(p) \/ Read(p) \/ Write(p) \/ Begin(p) \/ Raise(p)
       \/ CommitAll(p) \/ RollbackAll(p) \/ ExportNfo(p) \/ ExportFails(p) \/ Cancel(p)
  \/ Crash

Spec == Init /\ [][Next]_vars

-----------------------------------------------------------------------------
Tables ==
  [status : [Videos -> Statuses \cup {"none"}], born : SUBSET Videos, hidden : SUBSET Videos,
   told : [Videos -> Statuses \cup {"none"}],
   tag : [Tags -> 0..MaxTagId], lastTag : 0..MaxTagId, usage : [Tags -> Nat],
   links : SUBSET (Videos \X (1..MaxTagId)), auto : SUBSET (Videos \X (1..MaxTagId)),
   indexed : SUBSET Videos, words : SUBSET (Videos \X Tags),
   named : [Named -> {"none", "live", "hidden"}], members : SUBSET (Videos \X Named)]

\* Types; calls that have statements left wait in the line, once each.
TypeOK ==
  /\ db \in Tables /\ disk \in Tables
  /\ open \in BOOLEAN /\ (db # disk => open)
  /\ nfo \in [Videos -> SUBSET Tags]
  /\ seen \in [Callers -> 0..MaxTagId]
  /\ \A p \in Callers : Cardinality({i \in DOMAIN line : line[i] = p}) = IF todo[p] = <<>> THEN 0 ELSE 1
  /\ calls \in 0..MaxCalls /\ faults \in 0..MaxFaults
  /\ upset \in BOOLEAN /\ untold \subseteq Videos /\ reverted \subseteq Videos

Agree(d) ==
  /\ \A l \in d.links : Exists(d, l[1]) /\ \E t \in Tags : d.tag[t] = l[2]
  /\ \A m \in d.members : Exists(d, m[1]) /\ d.named[m[2]] # "none"
  /\ \A t \in Tags : d.tag[t] # 0 =>
       d.usage[t] = Cardinality({l \in d.links : l[2] = d.tag[t]})
  /\ \A v \in Videos :
       /\ v \in d.indexed <=> Visible(d, v)
       /\ {w[2] : w \in {x \in d.words : x[1] = v}}
            = IF Visible(d, v) THEN WordsOf(d, v) ELSE {}

\* However calls interleave, fail, roll back or die: on the connection and on
\* disk, links lead to rows, usage counts count links, and the search index has
\* the visible videos with their tags (foreign keys and triggers of the schema).
TablesAgree == Agree(db) /\ Agree(disk)

\* The tables are in order at every statement.
Inv == TypeOK /\ TablesAgree

Quiet == line = <<>> /\ ~upset

\* When calls have returned, each of them normally or at its first read, and
\* no rollback met the work of another, what they did is whole whatever the
\* order of their statements: nothing they wrote is left uncommitted (the
\* commits of the repository's methods, shared by all of them); the newest
\* history row of every video names its status (update_video, update_status,
\* create_video, bulk_update_status), except where update_video() had read
\* the status it was to write and wrote over one set in between; and the .nfo
\* file of every video has the tags of its row, except where a tag was
\* deleted as such, the video restored or tagged by an import, or an export
\* failed (TagService, update_decade_tag, handle_export_nfo_selective,
\* handle_sync_decade_tags export after their last write).
WholeWhenQuiet ==
  Quiet =>
    /\ db = disk
    /\ \A v \in Videos \ reverted : db.told[v] = db.status[v]
    /\ \A v \in Videos \ untold : Visible(db, v) => nfo[v] = WordsOf(db, v)
=============================================================================
