------------------------------ MODULE VideoFiles ------------------------------
(***************************************************************************)
(* A video's row and its file when both are moved by requests: organize,   *)
(* move to trash, restore, delete for good, empty the trash, resolve       *)
(* duplicates; and what is derived from the file: the thumbnail and the    *)
(* status that a repair of the library gives                               *)
(* (fuzzbin/core/file_manager.py, fuzzbin/services/video_service.py).      *)
(*                                                                         *)
(* A request reads the row, then works on the path it read; nothing locks  *)
(* the row or the file between its awaits.  The NFO that accompanies a     *)
(* video moves with it and is left out, and so is the copy that replaces a *)
(* rename between two file systems.                                        *)
(*                                                                         *)
(* The place <<0, n>> is the path n of the library, <<1, n>> the trash's   *)
(* copy of that path; the trash lies in the library and <<2, n>> is what   *)
(* the trash makes of one of its own.  A file is known by the video it     *)
(* shows, which is also its hash.                                          *)
(***************************************************************************)
EXTENDS Naturals, FiniteSets, Functions

CONSTANTS
  Videos,
  Names,     \* paths in the library
  Inbox,     \* [Videos -> Names], where each video's file is at first
  Target,    \* [Videos -> Names], the path its metadata stand for
  Clients,   \* requests that are served at the same time
  MaxDepth,  \* bound on the depth of the trash
  Scenes,    \* which requests are made in one behaviour, how many at a time, and
             \* the videos it begins with, and a bound on database errors and
             \* crashes: [kinds, slots, videos, faults]
  NoVideo

Kinds == {"organize", "delete", "restore", "purge", "rows", "thumbnail", "repair", "resolve"}

ASSUME FilesAssumption ==
  /\ Inbox \in [Videos -> Names] /\ Target \in [Videos -> Names]
  /\ \A v, w \in Videos : v # w => Inbox[v] # Inbox[w]
  /\ MaxDepth \in Nat \ {0}
  /\ Scenes \subseteq [kinds : SUBSET Kinds, slots : Nat, videos : SUBSET Videos, faults : Nat]
  /\ NoVideo \notin Videos
  /\ IsFiniteSet(Clients)

VARIABLES
  rows,     \* the videos that have a row
  deleted,  \* the column is_deleted
  path,     \* the column video_file_path
  files,    \* [existing files -> Videos]
  thumbs,   \* videos with a thumbnail in the cache
  missing,  \* videos whose status is "missing"
  scene,    \* the scene of this behaviour
  ops,      \* what each request is doing
  broken,   \* history: videos of which a request was interrupted, or two
            \* requests overlapped that move the file to and fro
  stirred,  \* history: videos moved during a repair or when marked missing
  left,     \* history: videos whose row went without their thumbnail, or
            \* whose thumbnail was made while they were erased
  faults    \* number of errors and crashes so far

table == <<rows, deleted, path>>
derived == <<thumbs, missing>>
history == <<broken, stirred, left, faults>>
vars == <<table, files, derived, scene, ops, history>>

Places == (0 .. MaxDepth) \X Names
Library(n) == <<0, n>>
InTrash(p) == p[1] > 0
Trash(p) == <<p[1] + 1, p[2]>>

\* restore_files(): a path outside the trash stands for itself.
Restored(p) == IF InTrash(p) THEN <<p[1] - 1, p[2]>> ELSE p

\* `rest` are the videos that resolve_duplicates() has still to remove.
Idle == [kind |-> "none", step |-> "idle", video |-> NoVideo, from |-> NoVideo, to |-> NoVideo,
         hash |-> NoVideo, todo |-> << >>, rest |-> {}, hard |-> FALSE]

Reading(kind, step, v) ==
  [Idle EXCEPT !.kind = kind, !.step = step, !.video = v, !.from = path[v], !.to = path[v]]
Moving(kind, step, v, to) == [Reading(kind, step, v) EXCEPT !.to = to]
Purging(todo) == [Idle EXCEPT !.kind = "purge", !.step = "next", !.todo = todo]

\* After the removal of one duplicate comes the next.
After(op) == IF op.rest = {} THEN Idle
             ELSE [Idle EXCEPT !.kind = "resolve", !.step = "pick", !.rest = op.rest, !.hard = op.hard]

Init ==
  /\ scene \in Scenes
  /\ rows = scene.videos
  /\ deleted = {}
  /\ path = [v \in Videos |-> Library(Inbox[v])]
  /\ files = [p \in {Library(Inbox[v]) : v \in rows} |->
                CHOOSE v \in Videos : p = Library(Inbox[v])]
  /\ ops = [c \in Clients |-> Idle]
  /\ thumbs = {} /\ missing = {}
  /\ broken = {} /\ stirred = {} /\ left = {}
  /\ faults = 0

Exists(p) == p \in DOMAIN files

\* Mutant: what lies at the target is not looked for.
NotLookedAt(p) == TRUE
Free(p) == ~Exists(p)

Without(p) == Restrict(files, DOMAIN files \ {p})

\* rename() replaces a file that is already there.
Moved(p, q) == [x \in (DOMAIN files \ {p}) \cup {q} |->
                  IF x = q THEN files[p] ELSE files[x]]

At(c, step) == ops[c].step = step
Goto(c, step) == ops' = [ops EXCEPT ![c].step = step]
Done(c) == ops' = [ops EXCEPT ![c] = After(@)]
\* Two requests at work on one video, one of which moves the file to where
\* the other believes it to be.
Moves(op) == op.kind \in {"organize", "delete", "restore"}
Overlaps(op, other) ==
  /\ Moves(op) /\ Moves(other)
  /\ op.video = other.video
  /\ op.to = other.from \/ op.from = other.to

Raced(op) ==
  broken' = IF \E d \in Clients : Overlaps(op, ops[d]) THEN broken \cup {op.video} ELSE broken

Begin(c, kind, op) ==
  /\ At(c, "idle")
  /\ kind \in scene.kinds
  /\ Cardinality({d \in Clients : ~At(d, "idle")}) < scene.slots
  /\ ops' = [ops EXCEPT ![c] = op]
  /\ Raced(op)
  /\ UNCHANGED <<table, files, derived, scene, stirred, left, faults>>

\* A file or a path of v changes; who repairs the library may have seen the
\* one and not the other.
Stirs(v) ==
  stirred' = IF v \in missing \/ \E d \in Clients : ops[d].kind = "repair"
             THEN stirred \cup {v} ELSE stirred

----------------------------------------------------------------------------
(* Requests.                                                               *)

Fault ==
  /\ faults < scene.faults
  /\ faults' = faults + 1

\* organize(): nothing is done when the file is where it belongs.
BeginOrganize(c, v) ==
  /\ v \in rows \ deleted
  /\ path[v] # Library(Target[v])
  /\ Begin(c, "organize", Moving("organize", "check", v, Library(Target[v])))

\* delete_files(): the row may be deleted already.
BeginDelete(c, v) ==
  /\ v \in rows
  /\ path[v][1] < MaxDepth
  /\ Begin(c, "delete", Moving("delete", "move", v, Trash(path[v])))

BeginRestore(c, v) ==
  /\ v \in rows \cap deleted
  /\ Begin(c, "restore", Moving("restore", "check", v, Restored(path[v])))

\* delete_files(hard_delete=True), and empty_trash() with the list of the
\* trash as it is at that moment.
BeginPurge(c, v) ==
  /\ v \in rows
  /\ Begin(c, "purge", Purging([w \in {v} |-> path[w]]))

BeginEmptyTrash(c) ==
  /\ rows \cap deleted # {}
  /\ Begin(c, "purge", Purging([w \in rows \cap deleted |-> path[w]]))

\* DELETE /videos/{id}, POST /videos/{id}/restore, DELETE /videos/{id}/permanent
\* change the row and leave the file alone.
DeleteRow(v) ==
  /\ "rows" \in scene.kinds
  /\ v \in rows \ deleted
  /\ deleted' = deleted \cup {v}
  /\ UNCHANGED <<rows, path, files, derived, scene, ops, history>>

RestoreRow(v) ==
  /\ "rows" \in scene.kinds
  /\ v \in rows \cap deleted
  /\ deleted' = deleted \ {v}
  /\ UNCHANGED <<rows, path, files, derived, scene, ops, history>>

EraseRow(v) ==
  /\ "rows" \in scene.kinds
  /\ v \in rows
  /\ rows' = rows \ {v}
  /\ left' = left \cup ({v} \cap thumbs)
  /\ UNCHANGED <<deleted, path, files, derived, scene, ops, broken, stirred, faults>>

----------------------------------------------------------------------------
(* The steps of a move.                                                    *)

\* move_video_atomic() and restore(): the source must exist, the target not.
\* Only the former goes on to compute a hash.
Check(c) ==
  /\ At(c, "check")
  /\ IF Exists(ops[c].from) /\ Free(ops[c].to)
     THEN ops' = [ops EXCEPT ![c].step = "move", ![c].hash = files[ops[c].from]]
     ELSE Done(c)
  /\ UNCHANGED <<table, files, derived, scene, history>>

\* A rename of a file that is gone raises, and nothing has been done yet.
MoveFile(c) ==
  /\ At(c, "move")
  /\ IF Exists(ops[c].from)
     THEN /\ files' = Moved(ops[c].from, ops[c].to)
          /\ Goto(c, IF ops[c].kind = "organize" THEN "verify" ELSE "record")
          /\ Stirs(ops[c].video)
     ELSE /\ Done(c)
          /\ UNCHANGED <<files, stirred>>
  /\ UNCHANGED <<table, derived, scene, broken, left, faults>>

\* move_video_atomic() compares the hash of the file with the one it had.
Verify(c) ==
  /\ At(c, "verify")
  /\ Goto(c, IF Exists(ops[c].to) /\ files[ops[c].to] = ops[c].hash
             THEN "record" ELSE "rollback")
  /\ UNCHANGED <<table, files, derived, scene, history>>

\* Mutant: no move is rolled back.
NeverRollsBack(c) == Done(c)

\* update_video() raises when there is no row: move_video_atomic() rolls back,
\* the others do not.
NotRecorded(c) ==
  IF ops[c].kind = "organize" THEN Goto(c, "rollback") ELSE Done(c)

Record(c) ==
  LET video == ops[c].video
  IN /\ At(c, "record")
     /\ \/ /\ video \in rows
           /\ path' = [path EXCEPT ![video] = ops[c].to]
           /\ deleted' = IF ops[c].kind = "restore" THEN deleted \ {video} ELSE deleted
           /\ IF ops[c].kind = "delete" THEN Goto(c, "mark") ELSE Done(c)
           /\ Stirs(video)
        \/ /\ video \notin rows
           /\ NotRecorded(c)
           /\ UNCHANGED <<path, deleted, stirred>>
     /\ UNCHANGED <<rows, files, derived, scene, broken, left, faults>>

\* soft_delete() ends with delete_video(), which raises for a deleted row.
Mark(c) ==
  /\ At(c, "mark")
  /\ deleted' = deleted \cup ({ops[c].video} \cap rows)
  /\ Done(c)
  /\ UNCHANGED <<rows, path, files, derived, scene, history>>

Rollback(c) ==
  /\ At(c, "rollback")
  /\ files' = IF Exists(ops[c].to) THEN Moved(ops[c].to, ops[c].from) ELSE files
  /\ Done(c)
  /\ Stirs(ops[c].video)
  /\ UNCHANGED <<table, derived, scene, broken, left, faults>>

----------------------------------------------------------------------------
(* The steps of hard_delete(), for each video of the list.                 *)

Remaining(c) ==
  IF DOMAIN ops[c].todo = {ops[c].video} THEN After(ops[c])
  ELSE [ops[c] EXCEPT !.step = "next", !.video = NoVideo,
                      !.todo = Restrict(@, DOMAIN @ \ {ops[c].video})]

NextVideo(c) == ops' = [ops EXCEPT ![c] = Remaining(c)]

\* A request that is about to erase the row of v, and past its thumbnail.
Erasing(v) == \E d \in Clients : ops[d].video = v /\ ops[d].step = "erase"

Look(c) ==
  /\ At(c, "next")
  /\ \E v \in DOMAIN ops[c].todo :
       ops' = [ops EXCEPT ![c].video = v,
                          ![c].step = IF Exists(ops[c].todo[v]) THEN "unlink" ELSE "thumb"]
  /\ UNCHANGED <<table, files, derived, scene, history>>

\* Removing a file that is gone by now raises: the row stays.
Unlink(c) ==
  LET p == ops[c].todo[ops[c].video]
  IN /\ At(c, "unlink")
     /\ files' = Without(p)
     /\ IF Exists(p) THEN Goto(c, "thumb") ELSE NextVideo(c)
     /\ UNCHANGED <<table, derived, scene, history>>

\* delete_thumbnail() looks and removes; when the thumbnail has gone meanwhile
\* it raises, and the row stays without its file.
SeeThumb(c) ==
  /\ At(c, "thumb")
  /\ Goto(c, IF ops[c].video \in thumbs THEN "unthumb" ELSE "erase")
  /\ UNCHANGED <<table, files, derived, scene, history>>

DropThumb(c) ==
  /\ At(c, "unthumb")
  /\ thumbs' = thumbs \ {ops[c].video}
  /\ IF ops[c].video \in thumbs
     THEN Goto(c, "erase") /\ UNCHANGED broken
     ELSE NextVideo(c) /\ broken' = broken \cup {ops[c].video}
  /\ UNCHANGED <<table, files, missing, scene, stirred, left, faults>>

Erase(c) ==
  /\ At(c, "erase")
  /\ rows' = rows \ {ops[c].video}
  /\ NextVideo(c)
  /\ UNCHANGED <<deleted, path, files, derived, scene, history>>

----------------------------------------------------------------------------
(* resolve_duplicates().                                                   *)

\* The video that is kept has to be there, once; the list may be any list, also
\* of videos that are gone.
BeginResolve(c, keep, list, hard) ==
  /\ keep \in rows \ deleted
  /\ list # {}
  /\ Begin(c, "resolve", After([Idle EXCEPT !.rest = list, !.hard = hard]))

\* Each row is read just before its video is removed.
Pick(c) ==
  /\ At(c, "pick")
  /\ \E v \in ops[c].rest :
       LET Removal == IF ops[c].hard THEN Purging([w \in {v} |-> path[w]])
                      ELSE Moving("delete", "move", v, Trash(path[v]))
           Going(op) == [op EXCEPT !.rest = ops[c].rest \ {v}, !.hard = ops[c].hard]
           op == IF v \notin rows \/ (~ops[c].hard /\ path[v][1] = MaxDepth) THEN After(Going(Idle))
                 ELSE Going(Removal)
       IN ops' = [ops EXCEPT ![c] = op] /\ Raced(op)
  /\ UNCHANGED <<table, files, derived, scene, stirred, left, faults>>

----------------------------------------------------------------------------
(* Thumbnails.                                                             *)

\* Where a thumbnail comes from: get_thumbnail(), with regenerate when forced;
\* generate_prioritized_thumbnail(); refresh_video_properties().
Sources == {"cached", "frame", "fetch", "probe"}

BeginThumbnail(c, v) ==
  /\ v \in rows \ deleted
  /\ Exists(path[v])
  /\ \E step \in Sources : Begin(c, "thumbnail", Reading("thumbnail", step, v))

\* Unless forced, a thumbnail that is there is good enough.
LookInCache(c) ==
  /\ At(c, "cached")
  /\ IF ops[c].video \in thumbs THEN Done(c) ELSE Goto(c, "frame")
  /\ UNCHANGED <<table, files, derived, scene, history>>

\* The properties of the file at the path are written to the row first.
Probe(c) ==
  /\ At(c, "probe")
  /\ IF Exists(ops[c].from) /\ ops[c].video \in rows THEN Goto(c, "frame") ELSE Done(c)
  /\ UNCHANGED <<table, files, derived, scene, history>>

\* An image of IMVDb or YouTube needs no file; without one ffmpeg is asked.
Fetch(c) ==
  /\ At(c, "fetch")
  /\ Goto(c, "write") \/ Goto(c, "frame")
  /\ UNCHANGED <<table, files, derived, scene, history>>

Frame(c) ==
  /\ At(c, "frame")
  /\ IF Exists(ops[c].from) THEN Goto(c, "write") ELSE Done(c)
  /\ UNCHANGED <<table, files, derived, scene, history>>

\* ffmpeg that fails leaves what was there, but when it is late or its picture
\* too large the thumbnail goes.
WriteThumb(c) ==
  LET video == ops[c].video
  IN /\ At(c, "write")
     /\ \/ /\ thumbs' = thumbs \cup {video}
           /\ left' = IF video \notin rows \/ Erasing(video) THEN left \cup {video} ELSE left
           /\ UNCHANGED faults
        \/ /\ Fault
           /\ thumbs' \in {thumbs, thumbs \ {video}}
           /\ UNCHANGED left
     /\ Done(c)
     /\ UNCHANGED <<table, files, missing, scene, broken, stirred>>

----------------------------------------------------------------------------
(* repair_library().                                                       *)

\* verify_library() starts from the rows as they are at one moment.
BeginRepair(c) ==
  /\ rows \ deleted # {}
  /\ Begin(c, "repair", [Idle EXCEPT !.kind = "repair", !.step = "scan",
                                      !.todo = [v \in rows \ deleted |-> path[v]]])

\* Mutant: what is not where its metadata put it is missing.
Misplaced(v, p) == p # Library(Target[v])

\* verify_file_exists().
Absent(v, p) == ~Exists(p)

Scan(c) ==
  /\ At(c, "scan")
  /\ \E v \in DOMAIN ops[c].todo :
       LET todo == Restrict(ops[c].todo, DOMAIN ops[c].todo \ {v})
           lost == ops[c].rest \cup (IF Absent(v, ops[c].todo[v]) THEN {v} ELSE {})
       IN ops' = [ops EXCEPT ![c] = IF DOMAIN todo # {} THEN [@ EXCEPT !.todo = todo, !.rest = lost]
                                    ELSE IF lost = {} THEN Idle
                                    ELSE [@ EXCEPT !.step = "status", !.todo = << >>, !.rest = lost]]
  /\ UNCHANGED <<table, files, derived, scene, history>>

\* update_status() for each video of the report; errors are passed over.
MarkMissing(c) ==
  /\ At(c, "status")
  /\ \E v \in ops[c].rest :
       /\ \/ missing' = missing \cup ({v} \cap (rows \ deleted)) /\ UNCHANGED faults
          \/ Fault /\ UNCHANGED missing
       /\ LET rest == ops[c].rest \ {v}
          IN ops' = [ops EXCEPT ![c] = IF rest = {} THEN Idle ELSE [@ EXCEPT !.rest = rest]]
  /\ UNCHANGED <<table, files, thumbs, scene, broken, stirred, left>>

----------------------------------------------------------------------------
(* Errors.                                                                 *)

\* The files of the row have changed and the row does not say so yet.
Halfway(c) == ops[c].step \in {"verify", "record", "rollback", "thumb", "unthumb", "erase"}

\* The database refuses an update.
DatabaseError(c) ==
  /\ Fault
  /\ ops[c].step \in {"record", "mark", "erase"}
  /\ IF At(c, "record") THEN NotRecorded(c)
     ELSE IF At(c, "erase") THEN NextVideo(c)
     ELSE Done(c)
  /\ broken' = IF Halfway(c) /\ ops[c].kind # "organize"
               THEN broken \cup {ops[c].video} ELSE broken
  /\ UNCHANGED <<table, files, derived, scene, stirred, left>>

Crash ==
  /\ Fault
  /\ ops' = [c \in Clients |-> Idle]
  /\ broken' = broken \cup {ops[c].video : c \in {d \in Clients : Halfway(d)}}
  /\ UNCHANGED <<table, files, derived, scene, stirred, left>>

Step(c) ==
  \/ Check(c) \/ MoveFile(c) \/ Verify(c) \/ Record(c) \/ Mark(c) \/ Rollback(c)
  \/ Look(c) \/ Unlink(c) \/ SeeThumb(c) \/ DropThumb(c) \/ Erase(c) \/ Pick(c)
  \/ LookInCache(c) \/ Probe(c) \/ Fetch(c) \/ Frame(c) \/ WriteThumb(c)
  \/ Scan(c) \/ MarkMissing(c)
  \/ DatabaseError(c)

Next ==
  \/ \E c \in Clients, v \in Videos :
       \/ BeginOrganize(c, v) \/ BeginDelete(c, v) \/ BeginRestore(c, v)
       \/ BeginPurge(c, v) \/ BeginThumbnail(c, v)
       \/ \E list \in SUBSET scene.videos, hard \in BOOLEAN : BeginResolve(c, v, list, hard)
  \/ \E c \in Clients : BeginEmptyTrash(c) \/ BeginRepair(c) \/ Step(c)
  \/ \E v \in Videos : DeleteRow(v) \/ RestoreRow(v) \/ EraseRow(v)
  \/ Crash

Spec == Init /\ [][Next]_vars

----------------------------------------------------------------------------
(* Properties.                                                             *)

Op == [kind : Kinds \cup {"none"},
       step : {"idle", "check", "move", "verify", "record", "mark", "rollback", "next", "unlink",
               "thumb", "unthumb", "erase", "pick", "cached", "probe", "frame", "fetch", "write",
               "scan", "status"},
       video : Videos \cup {NoVideo}, from : Places \cup {NoVideo}, to : Places \cup {NoVideo},
       hash : Videos \cup {NoVideo}, todo : UNION {[S -> Places] : S \in SUBSET Videos},
       rest : SUBSET Videos, hard : BOOLEAN]

TypeOK ==
  /\ rows \subseteq Videos /\ deleted \subseteq Videos
  /\ path \in [Videos -> Places]
  /\ DOMAIN files \subseteq Places /\ Range(files) \subseteq Videos
  /\ ops \in [Clients -> Op]
  /\ thumbs \subseteq Videos /\ missing \subseteq Videos /\ scene \in Scenes
  /\ broken \subseteq Videos /\ stirred \subseteq Videos /\ left \subseteq Videos
  /\ faults \in 0 .. scene.faults

Holds(p, v) == Exists(p) /\ files[p] = v

\* No two videos of the scene have a path in common: what the pattern of the
\* organizer makes of different metadata is different.
NamesApart ==
  \A v, w \in scene.videos : v # w => {Inbox[v], Target[v]} \cap {Inbox[w], Target[w]} = {}

\* The file of a video is where its row says, or where a request has just put
\* it that is going to say so or to put it back, or is being deleted for good:
\* when the videos have paths of their own, stale paths, lost races and failed
\* moves never part a row from its file, unless two requests move it to and fro
\* at the same time.
RowFindsFile ==
  NamesApart => \A v \in rows \ broken :
    \/ Holds(path[v], v)
    \/ \E c \in Clients :
         /\ ops[c].video = v
         /\ \/ ops[c].step \in {"thumb", "unthumb", "erase"}
            \/ ops[c].step \in {"verify", "record", "rollback"} /\ Holds(ops[c].to, v)

\* soft_delete() renames onto whatever the trash holds; a check that the target
\* is free is stale, and so is the way back, only when another request is served
\* in between.
Replaces(c, p) ==
  \/ At(c, "move") /\ p = ops[c].to /\ (ops[c].kind = "delete" \/ scene.slots > 1)
  \/ At(c, "rollback") /\ p = ops[c].from /\ scene.slots > 1

\* A video's file disappears when a request erases the file at the path it was
\* given, and in no other way when the videos have paths of their own.  Videos
\* that share a path lose one to a move into the trash; to organize, restore and
\* the rollback of a move they lose none unless requests are served at once.
FilesOutliveMoves ==
  [][\A p \in DOMAIN files :
       files[p] \notin Range(files')
         => \E c \in Clients :
              \/ At(c, "unlink") /\ p = ops[c].todo[ops[c].video]
              \/ ~NamesApart /\ Replaces(c, p)]_vars

\* However many requests work on a video it has one file: no move, rollback or
\* restore leaves a second copy behind.
OneFileEach == \A p, q \in DOMAIN files : files[p] = files[q] => p = q

\* A video that a repair has marked missing is not where its row says, unless
\* other requests have moved it since the repair began; for videos that have
\* paths of their own.
MissingIsLost ==
  NamesApart => \A v \in missing \cap rows : Holds(path[v], v) => v \in stirred

\* No thumbnail outlives its video but by DELETE /videos/{id}/permanent or when
\* it is made while the video is erased.
ThumbHasRow == thumbs \ rows \subseteq left

\* Rows, requests, files and what is derived from them are in order.
Inv == TypeOK /\ OneFileEach /\ MissingIsLost /\ ThumbHasRow
=============================================================================
