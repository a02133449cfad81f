--------------------------- MODULE VideoFilesProofs ---------------------------
(***************************************************************************)
(* Theorems about VideoFiles, for every set of videos, names and requests, *)
(* any number of them at a time, any depth of the trash and any number of  *)
(* errors and crashes.                                                     *)
(*                                                                         *)
(* Three layers: OpsOrder says what a request is in the middle of;         *)
(* FileNames, that the videos do not get in each other's way; CarryOrder   *)
(* follows the file of one video through the requests that move it.        *)
(***************************************************************************)
EXTENDS VideoFiles, FiniteSetTheorems, TLAPS

PlacesOf(v) == {p \in Places : p[2] \in {Inbox[v], Target[v]}}

MoveKinds == {"organize", "delete", "restore"}
MoveSteps == {"check", "move", "verify", "record", "mark", "rollback"}
EraseSteps == {"thumb", "unthumb", "erase"}

\* What a request is doing goes with its kind, and it knows the video and the
\* paths it works on.
WellFormed(op) ==
  /\ \/ op.kind = "none" /\ op.step = "idle"
     \/ op.kind \in MoveKinds /\ op.step \in MoveSteps
     \/ op.kind = "purge" /\ op.step \in {"next", "unlink"} \cup EraseSteps
     \/ op.kind = "thumbnail" /\ op.step \in Sources \cup {"write"}
     \/ op.kind = "repair" /\ op.step \in {"scan", "status"}
     \/ op.kind = "resolve" /\ op.step = "pick"
  /\ op.kind \in MoveKinds => /\ op.video \in Videos
                              /\ op.from \in PlacesOf(op.video)
                              /\ op.to \in PlacesOf(op.video)
  /\ op.kind = "thumbnail" => op.video \in Videos
  /\ op.kind = "purge" => \A v \in DOMAIN op.todo : op.todo[v] \in PlacesOf(v)
  /\ op.step \in {"unlink"} \cup EraseSteps => op.video \in DOMAIN op.todo

OpsOrder ==
  /\ \A c \in Clients : WellFormed(ops[c])
  /\ \A v \in Videos : path[v] \in PlacesOf(v)

\* A request that erases a row has removed its thumbnail.
ThumbOrder ==
  /\ ThumbHasRow
  /\ \A c \in Clients : At(c, "erase") => ops[c].video \notin thumbs \ left

\* A file keeps to the paths of its video.
FileNames == \A p \in DOMAIN files : files[p] \in Videos /\ p \in PlacesOf(files[p])

Lost == \A v \in missing \cap rows : Holds(path[v], v) => v \in stirred

\* What a repair has still to look at or to write, unless it was stirred.
RepairOrder ==
  /\ Lost
  /\ \A c \in Clients : ops[c].kind = "repair" =>
       /\ \A v \in ops[c].rest \cap rows : Holds(path[v], v) => v \in stirred
       /\ \A v \in DOMAIN ops[c].todo : ops[c].todo[v] = path[v] \/ v \in stirred

\* The requests that move v, those that have moved its file and not yet said
\* so, and those that have removed it and not yet erased its row.
Mover(c, v) == ops[c].kind \in MoveKinds /\ ops[c].video = v
Carrier(c, v) == ops[c].video = v /\ ops[c].step \in {"verify", "record", "rollback"}
Eraser(c, v) == ops[c].video = v /\ ops[c].step \in EraseSteps

Gone(v) == \A p \in DOMAIN files : files[p] # v

\* The file of v is where its row says or where the one request has put it
\* that carries it; when it is gone a request is about to erase the row.  No
\* request puts it where another one expects it, and who finds it where it
\* expects it to be knows the path that the row has.
Followed(v) ==
  /\ Gone(v) \/ Holds(path[v], v) \/ \E c \in Clients : Carrier(c, v) /\ Holds(ops[c].to, v)
  /\ Gone(v) => \E c \in Clients : Eraser(c, v)
  /\ \A c \in Clients : Carrier(c, v) =>
       /\ Holds(ops[c].to, v) \/ Gone(v)
       /\ path[v] = ops[c].from
  /\ \A c, d \in Clients : Carrier(c, v) /\ Carrier(d, v) => c = d
  /\ \A c, d \in Clients : Mover(c, v) /\ Mover(d, v) /\ c # d => ops[c].to # ops[d].from
  /\ \A c \in Clients : Mover(c, v) /\ Holds(ops[c].from, v) => path[v] = ops[c].from

CarryOrder == \A v \in rows \ broken : Followed(v)

\* Only the videos of the scene have rows, files and requests.
Plays(op, S) == op.video \in S \cup {NoVideo} /\ DOMAIN op.todo \subseteq S
OnStage ==
  /\ rows \subseteq scene.videos
  /\ \A p \in DOMAIN files : files[p] \in scene.videos
  /\ \A c \in Clients : Plays(ops[c], scene.videos)

\* What holds whatever the names are, and what needs them to be apart.
Basics == TypeOK /\ OpsOrder /\ OneFileEach /\ ThumbOrder /\ OnStage
IInv == Basics /\ FileNames /\ RepairOrder /\ CarryOrder

-----------------------------------------------------------------------------
(***************************************************************************)
(* Requests.                                                               *)
(***************************************************************************)

StepNames == {"idle", "check", "move", "verify", "record", "mark", "rollback", "next", "unlink",
              "thumb", "unthumb", "erase", "pick", "cached", "probe", "frame", "fetch", "write",
              "scan", "status"}
Lists == UNION {[S -> Places] : S \in SUBSET Videos}

\* A list of paths is a list.
LEMMA ListType ==
  ASSUME NEW S \in SUBSET Videos, NEW f \in [S -> Places]
  PROVE  f \in Lists
BY DEF Lists

\* Taking a video off a list leaves a list.
LEMMA ListRest ==
  ASSUME NEW f \in Lists, NEW S
  PROVE  /\ DOMAIN f \in SUBSET Videos
         /\ \A v \in DOMAIN f : f[v] \in Places
         /\ Restrict(f, DOMAIN f \ S) \in Lists
         /\ DOMAIN Restrict(f, DOMAIN f \ S) = DOMAIN f \ S
         /\ \A v \in DOMAIN f \ S : Restrict(f, DOMAIN f \ S)[v] = f[v]
<1>1. PICK T \in SUBSET Videos : f \in [T -> Places]
  BY DEF Lists
<1>2. Restrict(f, T \ S) \in [T \ S -> Places]
  BY <1>1 DEF Restrict
<1> QED
  BY <1>1, <1>2, ListType DEF Restrict

\* What a request is, field by field.
LEMMA OpFields ==
  ASSUME NEW op \in Op
  PROVE  /\ op.kind \in Kinds \cup {"none"} /\ op.step \in StepNames
         /\ op.video \in Videos \cup {NoVideo}
         /\ op.from \in Places \cup {NoVideo} /\ op.to \in Places \cup {NoVideo}
         /\ op.hash \in Videos \cup {NoVideo}
         /\ op.todo \in Lists /\ op.rest \in SUBSET Videos /\ op.hard \in BOOLEAN
BY DEF Op, StepNames, Lists

\* A request that is not made is one.
LEMMA IdleType == Idle \in Op /\ WellFormed(Idle)
<1>1. << >> \in [{} -> Places]
  OBVIOUS
<1>2. << >> \in Lists
  BY <1>1, ListType
<1> QED
  BY <1>2 DEF Idle, Op, Lists, WellFormed, MoveKinds, EraseSteps

\* A request that goes on to another step of its kind.
LEMMA NextStepType ==
  ASSUME NEW op \in Op, NEW s \in StepNames
  PROVE  /\ [op EXCEPT !.step = s] \in Op
         /\ [op EXCEPT !.step = s].step = s
         /\ [op EXCEPT !.step = s].kind = op.kind
         /\ [op EXCEPT !.step = s].video = op.video
         /\ [op EXCEPT !.step = s].from = op.from
         /\ [op EXCEPT !.step = s].to = op.to
         /\ [op EXCEPT !.step = s].hash = op.hash
         /\ [op EXCEPT !.step = s].todo = op.todo
         /\ [op EXCEPT !.step = s].rest = op.rest
         /\ [op EXCEPT !.step = s].hard = op.hard
BY DEF Op, StepNames

\* What is left of a request that is done with a video.
LEMMA AfterType ==
  ASSUME NEW op \in Op
  PROVE  /\ After(op) \in Op /\ WellFormed(After(op))
         /\ After(op).kind \in {"none", "resolve"} /\ After(op).step \in {"idle", "pick"}
<1> DEFINE next == [Idle EXCEPT !.kind = "resolve", !.step = "pick", !.rest = op.rest,
                                !.hard = op.hard]
<1>1. op.rest \in SUBSET Videos /\ op.hard \in BOOLEAN
  BY OpFields
<1>2. Idle \in Op /\ WellFormed(Idle) /\ Idle.kind = "none" /\ Idle.step = "idle"
  BY IdleType DEF Idle
<1>3. next \in Op
  BY <1>1, <1>2, ZenonT(40) DEF Op, Kinds
<1>4. next.kind = "resolve" /\ next.step = "pick"
  BY <1>2 DEF Op
<1>5. WellFormed(next)
  BY <1>4 DEF WellFormed, MoveKinds, EraseSteps
<1>6. After(op) = IF op.rest = {} THEN Idle ELSE next
  BY DEF After
<1> HIDE DEF next
<1> QED
  BY <1>2, <1>3, <1>4, <1>5, <1>6

\* A request that moves or reads a file.
LEMMA ReadingType ==
  ASSUME TypeOK, OpsOrder, NEW v \in Videos, NEW kind \in Kinds, NEW s \in StepNames,
         NEW to \in Places
  PROVE  /\ Moving(kind, s, v, to) \in Op
         /\ Moving(kind, s, v, to).kind = kind /\ Moving(kind, s, v, to).step = s
         /\ Moving(kind, s, v, to).video = v /\ Moving(kind, s, v, to).from = path[v]
         /\ Moving(kind, s, v, to).to = to
         /\ Reading(kind, s, v) \in Op
         /\ Reading(kind, s, v).kind = kind /\ Reading(kind, s, v).step = s
         /\ Reading(kind, s, v).video = v
<1>1. path[v] \in Places
  BY DEF TypeOK
<1> QED
  BY <1>1, IdleType, ZenonT(40) DEF Moving, Reading, Idle, Op, StepNames

\* A request that deletes the videos of a list.
LEMMA PurgingType ==
  ASSUME NEW todo \in Lists
  PROVE  /\ Purging(todo) \in Op
         /\ Purging(todo).kind = "purge" /\ Purging(todo).step = "next"
         /\ Purging(todo).todo = todo
<1> DEFINE idle == Idle
<1>1. idle \in Op
  BY IdleType
<1>2. Purging(todo) = [idle EXCEPT !.kind = "purge", !.step = "next", !.todo = todo]
  BY DEF Purging
<1> HIDE DEF idle
<1> QED
  BY <1>1, <1>2 DEF Op, Kinds, Lists

\* One request has become op, the others are what they were.
LEMMA OpsChange ==
  ASSUME TypeOK, OpsOrder, NEW c \in Clients, NEW op \in Op, WellFormed(op),
         ops' = [ops EXCEPT ![c] = op]
  PROVE  /\ ops' \in [Clients -> Op]
         /\ ops'[c] = op
         /\ \A d \in Clients \ {c} : ops'[d] = ops[d]
         /\ \A d \in Clients : WellFormed(ops'[d])
<1>1. ops \in [Clients -> Op]
  BY DEF TypeOK
<1> QED
  BY <1>1 DEF OpsOrder

\* The kind of a request by the step it is at.
LEMMA StepKind ==
  ASSUME NEW op, WellFormed(op)
  PROVE  /\ op.step \in MoveSteps => op.kind \in MoveKinds
         /\ op.step \in {"next", "unlink"} \cup EraseSteps => op.kind = "purge"
         /\ op.step \in Sources \cup {"write"} => op.kind = "thumbnail"
         /\ op.step \in {"scan", "status"} => op.kind = "repair"
         /\ op.step = "pick" => op.kind = "resolve"
         /\ op.step = "idle" => op.kind = "none"
         /\ op.kind \in MoveKinds => op.step \in MoveSteps
BY DEF WellFormed, MoveKinds, MoveSteps, EraseSteps, Sources

\* A request stays well-formed as it goes on to a step of its kind.
LEMMA StepForm ==
  ASSUME NEW op \in Op, NEW s \in StepNames, WellFormed(op),
         \/ op.kind \in MoveKinds /\ s \in MoveSteps
         \/ op.kind = "purge" /\ s \in EraseSteps /\ op.step \in {"unlink"} \cup EraseSteps
         \/ op.kind = "thumbnail" /\ s \in Sources \cup {"write"}
  PROVE  WellFormed([op EXCEPT !.step = s])
<1> DEFINE new == [op EXCEPT !.step = s]
<1>1. /\ new.step = s /\ new.kind = op.kind /\ new.video = op.video /\ new.from = op.from
      /\ new.to = op.to /\ new.todo = op.todo
  BY NextStepType
<1> HIDE DEF new
<1>2. WellFormed(new)
  BY <1>1 DEF WellFormed, MoveKinds, MoveSteps, EraseSteps, Sources
<1> QED
  BY <1>2 DEF new

\* Goto(): one field of one request changes.
LEMMA GotoOps ==
  ASSUME TypeOK, OpsOrder, NEW c \in Clients, NEW s \in StepNames, Goto(c, s),
         \/ ops[c].kind \in MoveKinds /\ s \in MoveSteps
         \/ ops[c].kind = "purge" /\ s \in EraseSteps /\ ops[c].step \in {"unlink"} \cup EraseSteps
         \/ ops[c].kind = "thumbnail" /\ s \in Sources \cup {"write"}
  PROVE  /\ ops' \in [Clients -> Op]
         /\ \A d \in Clients \ {c} : ops'[d] = ops[d]
         /\ \A d \in Clients : WellFormed(ops'[d])
         /\ ops'[c].step = s /\ ops'[c].kind = ops[c].kind /\ ops'[c].video = ops[c].video
         /\ ops'[c].from = ops[c].from /\ ops'[c].to = ops[c].to
         /\ ops'[c].todo = ops[c].todo /\ ops'[c].rest = ops[c].rest
         /\ ops'[c].hash = ops[c].hash
<1>1. ops[c] \in Op /\ WellFormed(ops[c])
  BY DEF TypeOK, OpsOrder
<1>2. ops' = [ops EXCEPT ![c] = [ops[c] EXCEPT !.step = s]]
  BY DEF Goto
<1>3. [ops[c] EXCEPT !.step = s] \in Op /\ WellFormed([ops[c] EXCEPT !.step = s])
  BY <1>1, NextStepType, StepForm
<1>4. /\ ops' \in [Clients -> Op] /\ ops'[c] = [ops[c] EXCEPT !.step = s]
      /\ \A d \in Clients \ {c} : ops'[d] = ops[d]
      /\ \A d \in Clients : WellFormed(ops'[d])
  BY <1>2, <1>3, OpsChange
<1>5. \A op \in Op, new \in Op : new = [op EXCEPT !.step = s] =>
        /\ new.step = s /\ new.kind = op.kind /\ new.video = op.video /\ new.from = op.from
        /\ new.to = op.to /\ new.todo = op.todo /\ new.rest = op.rest /\ new.hash = op.hash
  BY NextStepType
<1>6. ops'[c] \in Op
  BY <1>4
<1>7. /\ ops'[c].step = s /\ ops'[c].kind = ops[c].kind /\ ops'[c].video = ops[c].video
      /\ ops'[c].from = ops[c].from /\ ops'[c].to = ops[c].to
      /\ ops'[c].todo = ops[c].todo /\ ops'[c].rest = ops[c].rest
      /\ ops'[c].hash = ops[c].hash
  BY <1>1, <1>4, <1>5, <1>6
<1> QED
  BY <1>4, <1>7

\* Done(): the request ends, or goes on to the next duplicate.
LEMMA DoneOps ==
  ASSUME TypeOK, OpsOrder, NEW c \in Clients, Done(c)
  PROVE  /\ ops' \in [Clients -> Op]
         /\ \A d \in Clients \ {c} : ops'[d] = ops[d]
         /\ \A d \in Clients : WellFormed(ops'[d])
         /\ ops'[c].kind \in {"none", "resolve"} /\ ops'[c].step \in {"idle", "pick"}
<1>1. ops[c] \in Op /\ WellFormed(ops[c])
  BY DEF TypeOK, OpsOrder
<1>2. ops' = [ops EXCEPT ![c] = After(ops[c])]
  BY DEF Done
<1> QED
  BY <1>1, <1>2, AfterType, OpsChange

\* NextVideo(): the video is off the list.
LEMMA NextVideoOps ==
  ASSUME TypeOK, OpsOrder, NEW c \in Clients, NextVideo(c),
         ops[c].step \in {"unlink"} \cup EraseSteps
  PROVE  /\ ops' \in [Clients -> Op]
         /\ \A d \in Clients \ {c} : ops'[d] = ops[d]
         /\ \A d \in Clients : WellFormed(ops'[d])
         /\ ops'[c].kind \in {"none", "resolve", "purge"}
         /\ ops'[c].step \in {"idle", "pick", "next"}
<1> DEFINE op == ops[c]
           todo == Restrict(op.todo, DOMAIN op.todo \ {op.video})
           new == [op EXCEPT !.step = "next", !.video = NoVideo, !.todo = todo]
<1>1. op \in Op /\ WellFormed(op)
  BY DEF TypeOK, OpsOrder
<1>2. op.kind = "purge"
  BY <1>1, StepKind
<1>3. /\ todo \in Lists /\ DOMAIN todo = DOMAIN op.todo \ {op.video}
      /\ \A v \in DOMAIN todo : todo[v] = op.todo[v]
  <2>1. op.todo \in Lists
    BY <1>1, OpFields
  <2>2. \A v \in DOMAIN op.todo \ {op.video} : todo[v] = op.todo[v]
    <3> HIDE DEF op
    <3> QED
      BY <2>1, ListRest
  <2>3. todo \in Lists /\ DOMAIN todo = DOMAIN op.todo \ {op.video}
    <3> HIDE DEF op
    <3> QED
      BY <2>1, ListRest
  <2> HIDE DEF op, todo
  <2> QED
    BY <2>2, <2>3
<1>4. new \in Op /\ new.kind = "purge" /\ new.step = "next" /\ new.todo = todo
  <2> HIDE DEF op, todo
  <2> QED
    BY <1>1, <1>2, <1>3 DEF Op, Lists
<1>5. WellFormed(new)
  <2>1. \A v \in DOMAIN todo : todo[v] \in PlacesOf(v)
    <3>1. \A v \in DOMAIN op.todo : op.todo[v] \in PlacesOf(v)
      BY <1>1, <1>2 DEF WellFormed
    <3> HIDE DEF op, todo
    <3> QED
      BY <1>3, <3>1
  <2> HIDE DEF op, todo, new
  <2> QED
    BY <1>4, <2>1 DEF WellFormed, MoveKinds, EraseSteps
<1>6. /\ After(op) \in Op /\ WellFormed(After(op))
      /\ After(op).kind \in {"none", "resolve"} /\ After(op).step \in {"idle", "pick"}
  BY <1>1, AfterType
<1>7. \/ ops' = [ops EXCEPT ![c] = After(op)]
      \/ ops' = [ops EXCEPT ![c] = new]
  BY DEF NextVideo, Remaining
<1> HIDE DEF op, todo, new
<1>8. CASE ops' = [ops EXCEPT ![c] = After(op)]
  BY <1>6, <1>8, OpsChange
<1>9. CASE ops' = [ops EXCEPT ![c] = new]
  BY <1>4, <1>5, <1>9, OpsChange
<1> QED
  BY <1>7, <1>8, <1>9

\* The paths that requests make of a path of a video are paths of that video.
LEMMA PlaceOps ==
  ASSUME NEW v \in Videos
  PROVE  /\ Library(Target[v]) \in PlacesOf(v) /\ Library(Inbox[v]) \in PlacesOf(v)
         /\ \A p \in PlacesOf(v) : /\ p \in Places
                                   /\ Restored(p) \in PlacesOf(v)
                                   /\ p[1] # MaxDepth => Trash(p) \in PlacesOf(v)
<1>1. MaxDepth \in Nat /\ MaxDepth > 0 /\ Target[v] \in Names /\ Inbox[v] \in Names
  BY FilesAssumption
<1>2. \A i \in 0 .. MaxDepth, n \in {Inbox[v], Target[v]} : <<i, n>> \in PlacesOf(v)
  BY <1>1 DEF PlacesOf, Places
<1>3. \A p \in PlacesOf(v) : /\ p \in Places /\ p[1] \in 0 .. MaxDepth
                             /\ p[2] \in {Inbox[v], Target[v]}
  BY DEF PlacesOf, Places
<1>4. Library(Target[v]) \in PlacesOf(v) /\ Library(Inbox[v]) \in PlacesOf(v)
  BY <1>1, <1>2 DEF Library
<1>5. ASSUME NEW p \in PlacesOf(v)
      PROVE  Restored(p) \in PlacesOf(v)
  <2>1. CASE p[1] > 0
    <3>1. p[1] - 1 \in 0 .. MaxDepth
      BY <1>1, <1>3, <2>1
    <3> QED
      BY <1>2, <1>3, <2>1, <3>1 DEF Restored, InTrash
  <2>2. CASE ~(p[1] > 0)
    BY <2>2 DEF Restored, InTrash
  <2> QED
    BY <2>1, <2>2
<1>6. ASSUME NEW p \in PlacesOf(v), p[1] # MaxDepth
      PROVE  Trash(p) \in PlacesOf(v)
  <2>1. p[1] + 1 \in 0 .. MaxDepth
    BY <1>1, <1>3, <1>6
  <2> QED
    BY <1>2, <1>3, <2>1 DEF Trash
<1> QED
  BY <1>3, <1>4, <1>5, <1>6

\* Every request is one, and well-formed.
OpsFine == ops \in [Clients -> Op] /\ \A c \in Clients : WellFormed(ops[c])

\* A request that moves a file is well-formed, and so is one that reads it.
LEMMA MovingForm ==
  ASSUME TypeOK, OpsOrder, NEW v \in Videos, NEW to \in PlacesOf(v)
  PROVE  /\ \A kind \in MoveKinds, s \in MoveSteps :
              Moving(kind, s, v, to) \in Op /\ WellFormed(Moving(kind, s, v, to))
         /\ \A s \in Sources :
              Reading("thumbnail", s, v) \in Op /\ WellFormed(Reading("thumbnail", s, v))
<1>1. path[v] \in PlacesOf(v) /\ to \in Places
  BY PlaceOps DEF OpsOrder
<1>2. ASSUME NEW kind \in MoveKinds, NEW s \in MoveSteps
      PROVE  Moving(kind, s, v, to) \in Op /\ WellFormed(Moving(kind, s, v, to))
  <2> DEFINE op == Moving(kind, s, v, to)
  <2>1. kind \in Kinds /\ s \in StepNames
    BY DEF MoveKinds, Kinds, MoveSteps, StepNames
  <2>2. /\ op \in Op /\ op.kind = kind /\ op.step = s /\ op.video = v
        /\ op.from = path[v] /\ op.to = to
    BY <1>1, <2>1, ReadingType
  <2> HIDE DEF op
  <2>3. WellFormed(op)
    BY <1>1, <2>2 DEF WellFormed, MoveKinds, MoveSteps, EraseSteps
  <2> QED
    BY <2>2, <2>3 DEF op
<1>3. ASSUME NEW s \in Sources
      PROVE  Reading("thumbnail", s, v) \in Op /\ WellFormed(Reading("thumbnail", s, v))
  <2> DEFINE op == Reading("thumbnail", s, v)
  <2>1. s \in StepNames /\ "thumbnail" \in Kinds
    BY DEF Sources, Kinds, StepNames
  <2>2. op \in Op /\ op.kind = "thumbnail" /\ op.step = s /\ op.video = v
    BY <1>1, <2>1, ReadingType
  <2> HIDE DEF op
  <2>3. WellFormed(op)
    BY <2>2 DEF WellFormed, MoveKinds, Sources, EraseSteps
  <2> QED
    BY <2>2, <2>3 DEF op
<1> QED
  BY <1>2, <1>3

\* A list of paths of rows makes a request that deletes them.
LEMMA PurgingForm ==
  ASSUME TypeOK, OpsOrder, NEW S \in SUBSET Videos
  PROVE  Purging([w \in S |-> path[w]]) \in Op /\ WellFormed(Purging([w \in S |-> path[w]]))
<1> DEFINE todo == [w \in S |-> path[w]]
           op == Purging(todo)
<1>1. \A w \in S : path[w] \in Places /\ path[w] \in PlacesOf(w)
  BY DEF TypeOK, OpsOrder
<1>2. todo \in Lists
  BY <1>1, ListType
<1>3. DOMAIN todo = S /\ \A w \in S : todo[w] \in PlacesOf(w)
  BY <1>1
<1> HIDE DEF todo
<1>4. op \in Op /\ op.kind = "purge" /\ op.step = "next" /\ op.todo = todo
  BY <1>2, PurgingType
<1> HIDE DEF op
<1>5. WellFormed(op)
  BY <1>3, <1>4 DEF WellFormed, MoveKinds, EraseSteps
<1> QED
  BY <1>4, <1>5 DEF op, todo

\* Begin(): one more request.
LEMMA BeginOps ==
  ASSUME TypeOK, OpsOrder, NEW c \in Clients, NEW kind, NEW op \in Op, WellFormed(op),
         Begin(c, kind, op)
  PROVE  /\ OpsFine' /\ ops'[c] = op /\ \A d \in Clients \ {c} : ops'[d] = ops[d]
BY OpsChange DEF Begin, OpsFine

\* Only one request has done something, and all requests are still in order.
Turn(c) == OpsFine' /\ \A d \in Clients \ {c} : ops'[d] = ops[d]

\* A request that moves no file and has removed none.
Apart(op) == op.kind \notin MoveKinds /\ op.step \notin EraseSteps

\* The kinds of the four helpers once more.
LEMMA HelpersTurn ==
  ASSUME TypeOK, OpsOrder, NEW c \in Clients
  PROVE  /\ Done(c) => Turn(c) /\ Apart(ops'[c]) /\ ops'[c].kind # "repair"
         /\ NextVideo(c) /\ ops[c].step \in {"unlink"} \cup EraseSteps
              => Turn(c) /\ Apart(ops'[c]) /\ ops'[c].kind # "repair"
<1>1. ASSUME Done(c) PROVE Turn(c) /\ Apart(ops'[c]) /\ ops'[c].kind # "repair"
  BY <1>1, DoneOps DEF Turn, OpsFine, Apart, MoveKinds, EraseSteps
<1>2. ASSUME NextVideo(c), ops[c].step \in {"unlink"} \cup EraseSteps
      PROVE  Turn(c) /\ Apart(ops'[c]) /\ ops'[c].kind # "repair"
  BY <1>2, NextVideoOps DEF Turn, OpsFine, Apart, MoveKinds, EraseSteps
<1> QED
  BY <1>1, <1>2

\* A thumbnail goes on to another step or is done.
LEMMA ThumbnailTurn ==
  ASSUME TypeOK, OpsOrder, NEW c \in Clients,
         LookInCache(c) \/ Probe(c) \/ Fetch(c) \/ Frame(c) \/ WriteThumb(c)
  PROVE  Turn(c) /\ Apart(ops[c]) /\ Apart(ops'[c]) /\ ops'[c].kind # "repair"
<1>1. ops[c].step \in Sources \cup {"write"}
  BY DEF LookInCache, Probe, Fetch, Frame, WriteThumb, At, Sources
<1>2. ops[c].kind = "thumbnail"
  BY <1>1, StepKind DEF OpsOrder
<1>3. Done(c) \/ Goto(c, "frame") \/ Goto(c, "write")
  BY DEF LookInCache, Probe, Fetch, Frame, WriteThumb
<1>4. Apart(ops[c])
  BY <1>1, <1>2 DEF Apart, MoveKinds, EraseSteps, Sources
<1>5. ASSUME NEW s \in {"frame", "write"}, Goto(c, s)
      PROVE  Turn(c) /\ Apart(ops'[c]) /\ ops'[c].kind # "repair"
  <2>1. s \in StepNames /\ s \in Sources \cup {"write"} /\ s \notin EraseSteps
    BY DEF StepNames, Sources, EraseSteps
  <2>2. /\ ops' \in [Clients -> Op] /\ \A d \in Clients \ {c} : ops'[d] = ops[d]
        /\ \A d \in Clients : WellFormed(ops'[d])
        /\ ops'[c].step = s /\ ops'[c].kind = ops[c].kind
    BY <1>2, <1>5, <2>1, GotoOps
  <2> QED
    BY <1>2, <2>1, <2>2 DEF Turn, OpsFine, Apart, MoveKinds
<1> QED
  BY <1>3, <1>4, <1>5, HelpersTurn

\* A repair goes on with its lists, or ends.
LEMMA RepairTurn ==
  ASSUME TypeOK, OpsOrder, NEW c \in Clients, Scan(c) \/ MarkMissing(c)
  PROVE  /\ Turn(c) /\ Apart(ops[c]) /\ Apart(ops'[c])
         /\ ops[c].kind = "repair" /\ ops'[c].kind \in {"none", "repair"}
<1> DEFINE op == ops[c]
<1>1. op \in Op /\ WellFormed(op) /\ op.step \in {"scan", "status"}
  BY DEF TypeOK, OpsOrder, Scan, MarkMissing, At
<1>2. op.kind = "repair"
  BY <1>1, StepKind
<1>3. op.todo \in Lists /\ op.rest \in SUBSET Videos
  BY <1>1, OpFields
<1>4. Apart(op)
  BY <1>1, <1>2 DEF Apart, MoveKinds, EraseSteps
<1>5. ASSUME NEW new \in Op, new.kind = "repair", new.step \in {"scan", "status"},
             ops' = [ops EXCEPT ![c] = new]
      PROVE  Turn(c) /\ Apart(ops'[c]) /\ ops'[c].kind = "repair"
  <2>1. WellFormed(new) /\ Apart(new)
    BY <1>5 DEF WellFormed, Apart, MoveKinds, EraseSteps
  <2> QED
    BY <1>5, <2>1, OpsChange DEF Turn, OpsFine
<1>6. ASSUME ops' = [ops EXCEPT ![c] = Idle]
      PROVE  Turn(c) /\ Apart(ops'[c]) /\ ops'[c].kind = "none"
  <2>1. Idle.kind = "none" /\ Idle.step = "idle"
    BY DEF Idle
  <2> QED
    BY <1>6, <2>1, IdleType, OpsChange DEF Turn, OpsFine, Apart, MoveKinds, EraseSteps
<1>7. CASE Scan(c)
  <2>1. PICK v \in DOMAIN op.todo :
          LET todo == Restrict(op.todo, DOMAIN op.todo \ {v})
              lost == op.rest \cup (IF Absent(v, op.todo[v]) THEN {v} ELSE {})
          IN ops' = [ops EXCEPT ![c] = IF DOMAIN todo # {} THEN [@ EXCEPT !.todo = todo, !.rest = lost]
                                       ELSE IF lost = {} THEN Idle
                                       ELSE [@ EXCEPT !.step = "status", !.todo = << >>, !.rest = lost]]
    BY <1>7 DEF Scan
  <2> DEFINE todo == Restrict(op.todo, DOMAIN op.todo \ {v})
             lost == op.rest \cup (IF Absent(v, op.todo[v]) THEN {v} ELSE {})
             more == [op EXCEPT !.todo = todo, !.rest = lost]
             last == [op EXCEPT !.step = "status", !.todo = << >>, !.rest = lost]
  <2>2. \/ ops' = [ops EXCEPT ![c] = more]
        \/ ops' = [ops EXCEPT ![c] = Idle]
        \/ ops' = [ops EXCEPT ![c] = last]
    BY <2>1
  <2>3. todo \in Lists /\ lost \in SUBSET Videos /\ << >> \in Lists
    <3> HIDE DEF op
    <3>1. DOMAIN op.todo \in SUBSET Videos /\ todo \in Lists
      BY <1>3, ListRest
    <3>2. << >> \in [{} -> Places]
      OBVIOUS
    <3>3. << >> \in Lists
      BY <3>2, ListType
    <3> QED
      BY <1>3, <3>1, <3>3
  <2>4. more \in Op /\ more.kind = "repair" /\ more.step = op.step
    <3> HIDE DEF op, todo, lost
    <3> QED
      BY <1>1, <1>2, <2>3 DEF Op, Lists
  <2>5. last \in Op /\ last.kind = "repair" /\ last.step = "status"
    <3> HIDE DEF op, lost
    <3> QED
      BY <1>1, <1>2, <2>3 DEF Op, Lists
  <2>6. more.step \in {"scan", "status"}
    BY <1>1, <2>4
  <2> HIDE DEF op, more, last
  <2>7. CASE ops' = [ops EXCEPT ![c] = more]
    BY <1>5, <2>4, <2>6, <2>7, <1>2, <1>4 DEF op
  <2>8. CASE ops' = [ops EXCEPT ![c] = last]
    BY <1>5, <2>5, <2>8, <1>2, <1>4 DEF op
  <2>9. CASE ops' = [ops EXCEPT ![c] = Idle]
    BY <1>6, <2>9, <1>2, <1>4 DEF op
  <2> QED
    BY <2>2, <2>7, <2>8, <2>9
<1>8. CASE MarkMissing(c)
  <2>1. PICK v \in op.rest :
          ops' = [ops EXCEPT ![c] = IF op.rest \ {v} = {} THEN Idle
                                    ELSE [@ EXCEPT !.rest = op.rest \ {v}]]
    BY <1>8 DEF MarkMissing
  <2> DEFINE more == [op EXCEPT !.rest = op.rest \ {v}]
  <2>2. \/ ops' = [ops EXCEPT ![c] = more]
        \/ ops' = [ops EXCEPT ![c] = Idle]
    BY <2>1
  <2>3. more \in Op /\ more.kind = "repair" /\ more.step \in {"scan", "status"}
    <3> HIDE DEF op
    <3> QED
      BY <1>1, <1>2, <1>3 DEF Op
  <2> HIDE DEF op, more
  <2>4. CASE ops' = [ops EXCEPT ![c] = more]
    BY <1>5, <2>3, <2>4, <1>2, <1>4 DEF op
  <2>5. CASE ops' = [ops EXCEPT ![c] = Idle]
    BY <1>6, <2>5, <1>2, <1>4 DEF op
  <2> QED
    BY <2>2, <2>4, <2>5
<1> QED
  BY <1>7, <1>8

\* A request that moves a file goes on to another step of the move.
LEMMA MoveTurn ==
  ASSUME TypeOK, OpsOrder, NEW c \in Clients, ops[c].step \in MoveSteps,
         NEW s \in MoveSteps, Goto(c, s)
  PROVE  /\ Turn(c) /\ ops'[c].step = s
         /\ ops'[c].kind = ops[c].kind /\ ops'[c].video = ops[c].video
         /\ ops'[c].from = ops[c].from /\ ops'[c].to = ops[c].to
<1>1. ops[c].kind \in MoveKinds
  BY StepKind DEF OpsOrder
<1>2. s \in StepNames
  BY DEF MoveSteps, StepNames
<1> QED
  BY <1>1, <1>2, GotoOps DEF Turn, OpsFine

\* A request that deletes for good goes on with the same video.
LEMMA EraseTurn ==
  ASSUME TypeOK, OpsOrder, NEW c \in Clients, ops[c].step \in {"unlink"} \cup EraseSteps,
         NEW s \in EraseSteps, Goto(c, s)
  PROVE  /\ Turn(c) /\ ops'[c].step = s
         /\ ops'[c].kind = "purge" /\ ops'[c].video = ops[c].video
<1>1. ops[c].kind = "purge"
  BY StepKind DEF OpsOrder
<1>2. s \in StepNames
  BY DEF EraseSteps, StepNames
<1> QED
  BY <1>1, <1>2, GotoOps DEF Turn, OpsFine

\* Who is in the middle of a move knows the video and its paths.
LEMMA MoverKnows ==
  ASSUME TypeOK, OpsOrder, NEW c \in Clients, ops[c].step \in MoveSteps
  PROVE  /\ ops[c].kind \in MoveKinds /\ ops[c].video \in Videos
         /\ ops[c].from \in PlacesOf(ops[c].video) /\ ops[c].to \in PlacesOf(ops[c].video)
         /\ ops[c].from \in Places /\ ops[c].to \in Places
<1>1. WellFormed(ops[c])
  BY DEF OpsOrder
<1>2. ops[c].kind \in MoveKinds
  BY <1>1, StepKind
<1>3. /\ ops[c].video \in Videos
      /\ ops[c].from \in PlacesOf(ops[c].video) /\ ops[c].to \in PlacesOf(ops[c].video)
  BY <1>1, <1>2 DEF WellFormed
<1> QED
  BY <1>2, <1>3 DEF PlacesOf

\* Who deletes a video for good knows the path it was given.
LEMMA EraserKnows ==
  ASSUME TypeOK, OpsOrder, NEW c \in Clients, ops[c].step \in {"unlink"} \cup EraseSteps
  PROVE  /\ ops[c].kind = "purge" /\ ops[c].video \in Videos
         /\ ops[c].todo[ops[c].video] \in PlacesOf(ops[c].video)
<1>1. ops[c] \in Op /\ WellFormed(ops[c])
  BY DEF TypeOK, OpsOrder
<1>2. ops[c].kind = "purge"
  BY <1>1, StepKind
<1>3. ops[c].video \in DOMAIN ops[c].todo
  BY <1>1 DEF WellFormed
<1>4. DOMAIN ops[c].todo \in SUBSET Videos
  <2>1. ops[c].todo \in Lists
    BY <1>1, OpFields
  <2> QED
    BY <2>1, ListRest
<1> QED
  BY <1>1, <1>2, <1>3, <1>4 DEF WellFormed

\* Check() remembers the file it has seen at the path it was given.
LEMMA CheckTurn ==
  ASSUME TypeOK, OpsOrder, NEW c \in Clients, Check(c)
  PROVE  /\ Turn(c) /\ ops'[c].kind # "repair"
         /\ \/ Apart(ops'[c])
            \/ /\ ops'[c].step = "move"
               /\ ops'[c].kind = ops[c].kind /\ ops'[c].video = ops[c].video
               /\ ops'[c].from = ops[c].from /\ ops'[c].to = ops[c].to
<1>1. ops[c] \in Op /\ WellFormed(ops[c]) /\ ops[c].step = "check"
  BY DEF TypeOK, OpsOrder, Check, At
<1>2. ops[c].kind \in MoveKinds
  BY <1>1, StepKind DEF MoveSteps
<1>3. CASE Exists(ops[c].from) /\ Free(ops[c].to)
  <2> DEFINE op == ops[c]
             h == files[op.from]
             new == [op EXCEPT !.step = "move", !.hash = h]
  <2>0. op \in Op
    BY <1>1
  <2>1. ops' = [ops EXCEPT ![c] = new]
    <3>1. ops' = [ops EXCEPT ![c].step = "move", ![c].hash = files[ops[c].from]]
      BY <1>3 DEF Check
    <3> QED
      BY <3>1
  <2>2. h \in Videos
    BY <1>3 DEF TypeOK, Range, Exists
  <2> HIDE DEF h
  <2>3. /\ new \in Op /\ new.step = "move" /\ new.kind = op.kind /\ new.video = op.video
        /\ new.from = op.from /\ new.to = op.to /\ new.todo = op.todo
    <3> HIDE DEF op
    <3> QED
      BY <2>0, <2>2 DEF Op
  <2> HIDE DEF new
  <2>4. WellFormed(new)
    BY <1>1, <1>2, <2>3 DEF WellFormed, MoveKinds, MoveSteps, EraseSteps
  <2>5. /\ ops' \in [Clients -> Op] /\ ops'[c] = new
        /\ \A d \in Clients \ {c} : ops'[d] = ops[d]
        /\ \A d \in Clients : WellFormed(ops'[d])
    BY <2>1, <2>3, <2>4, OpsChange
  <2>6. Turn(c)
    BY <2>5 DEF Turn, OpsFine
  <2>7. /\ ops'[c].step = "move"
        /\ ops'[c].kind = ops[c].kind /\ ops'[c].video = ops[c].video
        /\ ops'[c].from = ops[c].from /\ ops'[c].to = ops[c].to
    BY <2>3, <2>5
  <2>8. ops'[c].kind # "repair"
    BY <1>2, <2>7 DEF MoveKinds
  <2> QED
    BY <2>6, <2>7, <2>8
<1>4. CASE ~(Exists(ops[c].from) /\ Free(ops[c].to))
  <2>1. Done(c)
    BY <1>4 DEF Check
  <2> QED
    BY <2>1, HelpersTurn
<1> QED
  BY <1>3, <1>4

\* Look() takes the next video of the list.
LEMMA LookTurn ==
  ASSUME TypeOK, OpsOrder, NEW c \in Clients, Look(c)
  PROVE  /\ Turn(c) /\ Apart(ops[c]) /\ ops'[c].kind = "purge"
         /\ ops'[c].step \in {"unlink", "thumb"}
         /\ ops'[c].video \in DOMAIN ops[c].todo
         /\ ops'[c].step = "thumb" => ~Exists(ops[c].todo[ops'[c].video])
<1> DEFINE op == ops[c]
<1>1. op \in Op /\ WellFormed(op) /\ op.step = "next"
  BY DEF TypeOK, OpsOrder, Look, At
<1>2. op.kind = "purge"
  BY <1>1, StepKind
<1>3. PICK v \in DOMAIN op.todo :
        ops' = [ops EXCEPT ![c].video = v,
                           ![c].step = IF Exists(op.todo[v]) THEN "unlink" ELSE "thumb"]
  BY DEF Look
<1> DEFINE s == IF Exists(op.todo[v]) THEN "unlink" ELSE "thumb"
           new == [op EXCEPT !.video = v, !.step = s]
<1>4. ops' = [ops EXCEPT ![c] = new]
  BY <1>3
<1>5. v \in Videos
  <2>1. op.todo \in Lists
    BY <1>1, OpFields
  <2> QED
    BY <2>1, ListRest
<1>6. s \in {"unlink", "thumb"} /\ (s = "thumb" => ~Exists(op.todo[v]))
  OBVIOUS
<1>7. Apart(op)
  BY <1>1, <1>2 DEF Apart, MoveKinds, EraseSteps
<1> HIDE DEF s
<1>8. new \in Op /\ new.kind = "purge" /\ new.step = s /\ new.video = v /\ new.todo = op.todo
  <2> HIDE DEF op
  <2> QED
    BY <1>1, <1>2, <1>5, <1>6 DEF Op
<1>9. \A w \in DOMAIN op.todo : op.todo[w] \in PlacesOf(w)
  BY <1>1, <1>2 DEF WellFormed
<1> HIDE DEF op, new
<1>10. WellFormed(new)
  BY <1>6, <1>8, <1>9, <1>3 DEF WellFormed, MoveKinds, EraseSteps
<1>11. /\ ops' \in [Clients -> Op] /\ ops'[c] = new /\ \A d \in Clients \ {c} : ops'[d] = ops[d]
       /\ \A d \in Clients : WellFormed(ops'[d])
  BY <1>4, <1>8, <1>10, OpsChange
<1>12. Turn(c)
  BY <1>11 DEF Turn, OpsFine
<1> QED
  BY <1>3, <1>6, <1>7, <1>8, <1>11, <1>12 DEF op

\* What a request can be when it starts: who moves a file has just read the
\* row, and who repairs the library too.
Starting(op) ==
  /\ \/ Apart(op)
     \/ /\ op.kind \in MoveKinds /\ op.step \in {"check", "move"}
        /\ op.from = path[op.video]
        /\ op.step = "move" => op.kind = "delete"
  /\ op.kind = "repair" => op.rest = {} /\ \A v \in DOMAIN op.todo : op.todo[v] = path[v]

\* A request that starts, or resolve_duplicates() with its next video.
Starts(c) ==
  \/ \E v \in Videos :
       \/ BeginOrganize(c, v) \/ BeginDelete(c, v) \/ BeginRestore(c, v)
       \/ BeginPurge(c, v) \/ BeginThumbnail(c, v)
       \/ \E list \in SUBSET scene.videos, hard \in BOOLEAN : BeginResolve(c, v, list, hard)
  \/ BeginEmptyTrash(c) \/ BeginRepair(c) \/ Pick(c)

\* What starts changes one request and notes whether it races another.
LEMMA StartTurn ==
  ASSUME TypeOK, OpsOrder, NEW c \in Clients, Starts(c)
  PROVE  /\ Turn(c) /\ Apart(ops[c]) /\ ops[c].kind \in {"none", "resolve"}
         /\ Starting(ops'[c]) /\ Raced(ops'[c])
         /\ UNCHANGED <<table, files, derived, scene, stirred, left, faults>>
<1>1. ASSUME NEW op \in Op, WellFormed(op), Starting(op), NEW kind, Begin(c, kind, op)
      PROVE  /\ Turn(c) /\ Apart(ops[c]) /\ ops[c].kind \in {"none", "resolve"}
             /\ Starting(ops'[c]) /\ Raced(ops'[c])
             /\ UNCHANGED <<table, files, derived, scene, stirred, left, faults>>
  <2>1. OpsFine' /\ ops'[c] = op /\ \A d \in Clients \ {c} : ops'[d] = ops[d]
    BY <1>1, BeginOps
  <2>2. ops[c].step = "idle" /\ Raced(op)
    BY <1>1 DEF Begin, At
  <2>3. ops[c].kind = "none"
    BY <2>2, StepKind DEF OpsOrder
  <2>4. Apart(ops[c])
    BY <2>2, <2>3 DEF Apart, MoveKinds, EraseSteps
  <2>5. UNCHANGED <<table, files, derived, scene, stirred, left, faults>>
    BY <1>1 DEF Begin
  <2>6. Turn(c)
    BY <2>1 DEF Turn
  <2> QED
    BY <1>1, <2>1, <2>2, <2>3, <2>4, <2>5, <2>6
<1>2. ASSUME NEW v \in Videos, NEW to \in PlacesOf(v), NEW kind \in MoveKinds,
             NEW s \in {"check", "move"}, s = "move" => kind = "delete"
      PROVE  /\ Moving(kind, s, v, to) \in Op /\ WellFormed(Moving(kind, s, v, to))
             /\ Starting(Moving(kind, s, v, to))
  <2>1. s \in MoveSteps /\ kind \in Kinds /\ s \in StepNames /\ to \in Places
    BY PlaceOps DEF MoveSteps, MoveKinds, Kinds, StepNames
  <2>2. Moving(kind, s, v, to) \in Op /\ WellFormed(Moving(kind, s, v, to))
    BY <2>1, MovingForm
  <2> DEFINE op == Moving(kind, s, v, to)
  <2>3. op.kind = kind /\ op.step = s /\ op.video = v /\ op.from = path[v]
    BY <2>1, ReadingType
  <2> HIDE DEF op
  <2>4. Starting(op)
    BY <1>2, <2>3 DEF Starting, MoveKinds
  <2> QED
    BY <2>2, <2>4 DEF op
<1>3. ASSUME NEW S \in SUBSET Videos
      PROVE  LET op == Purging([w \in S |-> path[w]])
             IN op \in Op /\ WellFormed(op) /\ Starting(op)
  <2> DEFINE op == Purging([w \in S |-> path[w]])
  <2>1. op \in Op /\ WellFormed(op)
    BY PurgingForm
  <2>2. op.kind = "purge" /\ op.step = "next"
    BY DEF Purging, Idle
  <2> HIDE DEF op
  <2>3. Starting(op)
    BY <2>2 DEF Starting, Apart, MoveKinds, EraseSteps
  <2> QED
    BY <2>1, <2>3 DEF op
<1>4. ASSUME NEW v \in Videos, BeginOrganize(c, v) \/ BeginDelete(c, v) \/ BeginRestore(c, v)
      PROVE  \E op \in Op, kind \in Kinds : WellFormed(op) /\ Starting(op) /\ Begin(c, kind, op)
  <2>1. path[v] \in PlacesOf(v) /\ path[v][1] \in 0 .. MaxDepth
    BY DEF OpsOrder, PlacesOf, Places
  <2>2. CASE BeginOrganize(c, v)
    <3>1. Begin(c, "organize", Moving("organize", "check", v, Library(Target[v])))
      BY <2>2 DEF BeginOrganize
    <3>2. Library(Target[v]) \in PlacesOf(v) /\ "organize" \in MoveKinds /\ "organize" \in Kinds
      BY PlaceOps DEF MoveKinds, Kinds
    <3> QED
      BY <1>2, <3>1, <3>2
  <2>3. CASE BeginDelete(c, v)
    <3>1. Begin(c, "delete", Moving("delete", "move", v, Trash(path[v]))) /\ path[v][1] < MaxDepth
      BY <2>3 DEF BeginDelete
    <3>2. path[v][1] # MaxDepth
      BY <3>1, <2>1, FilesAssumption
    <3>3. Trash(path[v]) \in PlacesOf(v) /\ "delete" \in MoveKinds /\ "delete" \in Kinds
      BY <2>1, <3>2, PlaceOps DEF MoveKinds, Kinds
    <3> QED
      BY <1>2, <3>1, <3>3
  <2>4. CASE BeginRestore(c, v)
    <3>1. Begin(c, "restore", Moving("restore", "check", v, Restored(path[v])))
      BY <2>4 DEF BeginRestore
    <3>2. Restored(path[v]) \in PlacesOf(v) /\ "restore" \in MoveKinds /\ "restore" \in Kinds
      BY <2>1, PlaceOps DEF MoveKinds, Kinds
    <3> QED
      BY <1>2, <3>1, <3>2
  <2> QED
    BY <1>4, <2>2, <2>3, <2>4
<1>5. ASSUME NEW v \in Videos, BeginPurge(c, v)
      PROVE  \E op \in Op, kind \in Kinds : WellFormed(op) /\ Starting(op) /\ Begin(c, kind, op)
  <2>1. Begin(c, "purge", Purging([w \in {v} |-> path[w]])) /\ {v} \in SUBSET Videos
    BY <1>5 DEF BeginPurge
  <2> QED
    BY <1>3, <2>1 DEF Kinds
<1>6. ASSUME BeginEmptyTrash(c)
      PROVE  \E op \in Op, kind \in Kinds : WellFormed(op) /\ Starting(op) /\ Begin(c, kind, op)
  <2>1. /\ Begin(c, "purge", Purging([w \in rows \cap deleted |-> path[w]]))
        /\ rows \cap deleted \in SUBSET Videos
    BY <1>6 DEF BeginEmptyTrash, TypeOK
  <2> QED
    BY <1>3, <2>1 DEF Kinds
<1>7. ASSUME NEW v \in Videos, BeginThumbnail(c, v)
      PROVE  \E op \in Op, kind \in Kinds : WellFormed(op) /\ Starting(op) /\ Begin(c, kind, op)
  <2>1. PICK s \in Sources : Begin(c, "thumbnail", Reading("thumbnail", s, v))
    BY <1>7 DEF BeginThumbnail
  <2> DEFINE op == Reading("thumbnail", s, v)
  <2>2. op \in Op /\ WellFormed(op)
    BY PlaceOps, MovingForm
  <2>3. op.kind = "thumbnail" /\ op.step = s
    BY DEF Reading, Idle
  <2> HIDE DEF op
  <2>4. Starting(op)
    BY <2>3 DEF Starting, Apart, MoveKinds, EraseSteps, Sources
  <2> QED
    BY <2>1, <2>2, <2>4 DEF op, Kinds
<1>8. ASSUME NEW v \in Videos, NEW list \in SUBSET scene.videos, NEW hard \in BOOLEAN,
             BeginResolve(c, v, list, hard)
      PROVE  \E op \in Op, kind \in Kinds : WellFormed(op) /\ Starting(op) /\ Begin(c, kind, op)
  <2> DEFINE idle == Idle
             seed == [idle EXCEPT !.rest = list, !.hard = hard]
             op == After(seed)
  <2>1. Begin(c, "resolve", op)
    BY <1>8 DEF BeginResolve
  <2>2. idle \in Op
    BY IdleType
  <2>3. seed \in Op
    <3>1. list \in SUBSET Videos
      BY FilesAssumption DEF TypeOK
    <3> HIDE DEF idle
    <3> QED
      BY <2>2, <3>1 DEF Op
  <2>4. /\ op \in Op /\ WellFormed(op)
        /\ op.kind \in {"none", "resolve"} /\ op.step \in {"idle", "pick"}
    <3> HIDE DEF seed
    <3> QED
      BY <2>3, AfterType
  <2> HIDE DEF op
  <2>5. Starting(op)
    BY <2>4 DEF Starting, Apart, MoveKinds, EraseSteps
  <2> QED
    BY <2>1, <2>4, <2>5 DEF Kinds
<1>9. ASSUME BeginRepair(c)
      PROVE  \E op \in Op, kind \in Kinds : WellFormed(op) /\ Starting(op) /\ Begin(c, kind, op)
  <2> DEFINE idle == Idle
             todo == [v \in rows \ deleted |-> path[v]]
             op == [idle EXCEPT !.kind = "repair", !.step = "scan", !.todo = todo]
  <2>1. Begin(c, "repair", op)
    BY <1>9 DEF BeginRepair
  <2>2. idle \in Op /\ idle.rest = {}
    BY IdleType DEF Idle
  <2>3. todo \in Lists
    <3>1. rows \ deleted \in SUBSET Videos /\ \A v \in rows \ deleted : path[v] \in Places
      BY DEF TypeOK
    <3> QED
      BY <3>1, ListType
  <2>4. \A v \in DOMAIN todo : todo[v] = path[v]
    OBVIOUS
  <2>5. op \in Op /\ op.kind = "repair" /\ op.step = "scan" /\ op.rest = {} /\ op.todo = todo
    <3> HIDE DEF idle, todo
    <3> QED
      BY <2>2, <2>3 DEF Op, Lists, Kinds
  <2> HIDE DEF op, todo
  <2>6. Starting(op) /\ WellFormed(op)
    BY <2>4, <2>5 DEF Starting, WellFormed, Apart, MoveKinds, EraseSteps
  <2> QED
    BY <2>1, <2>5, <2>6 DEF Kinds
<1>10. CASE ~Pick(c)
  <2>1. \E op \in Op, kind \in Kinds : WellFormed(op) /\ Starting(op) /\ Begin(c, kind, op)
    BY <1>4, <1>5, <1>6, <1>7, <1>8, <1>9, <1>10 DEF Starts
  <2> QED
    BY <1>1, <2>1
<1>11. CASE Pick(c)
  <2> DEFINE cur == ops[c]
  <2>1. cur \in Op /\ WellFormed(cur) /\ cur.step = "pick"
    BY <1>11 DEF TypeOK, OpsOrder, Pick, At
  <2>2. cur.kind = "resolve" /\ cur.rest \in SUBSET Videos /\ cur.hard \in BOOLEAN
    BY <2>1, StepKind, OpFields
  <2>3. Apart(cur)
    BY <2>1, <2>2 DEF Apart, MoveKinds, EraseSteps
  <2> DEFINE Going(op, v) == [op EXCEPT !.rest = cur.rest \ {v}, !.hard = cur.hard]
  <2>12. PICK v \in cur.rest : \E op :
          /\ op = IF v \notin rows \/ (~cur.hard /\ path[v][1] = MaxDepth)
                  THEN After(Going(Idle, v))
                  ELSE Going(IF cur.hard THEN Purging([w \in {v} |-> path[w]])
                             ELSE Moving("delete", "move", v, Trash(path[v])), v)
          /\ ops' = [ops EXCEPT ![c] = op] /\ Raced(op)
    BY <1>11 DEF Pick
  <2>4. PICK op :
          /\ op = IF v \notin rows \/ (~cur.hard /\ path[v][1] = MaxDepth)
                  THEN After(Going(Idle, v))
                  ELSE Going(IF cur.hard THEN Purging([w \in {v} |-> path[w]])
                             ELSE Moving("delete", "move", v, Trash(path[v])), v)
          /\ ops' = [ops EXCEPT ![c] = op] /\ Raced(op)
    BY <2>12
  <2>5. v \in Videos /\ path[v] \in PlacesOf(v)
    BY <2>2, <2>12 DEF OpsOrder
  <2>6. ASSUME NEW base \in Op, WellFormed(base), Starting(base), base.kind # "repair"
        PROVE  Going(base, v) \in Op /\ WellFormed(Going(base, v)) /\ Starting(Going(base, v))
    <3> DEFINE new == Going(base, v)
    <3>1. /\ new \in Op /\ new.kind = base.kind /\ new.step = base.step /\ new.video = base.video
          /\ new.from = base.from /\ new.to = base.to /\ new.todo = base.todo
      <4> HIDE DEF cur
      <4> QED
        BY <2>2 DEF Op
    <3> HIDE DEF new
    <3>2. WellFormed(new)
      BY <2>6, <3>1 DEF WellFormed
    <3>3. Starting(new)
      BY <2>6, <3>1 DEF Starting, Apart
    <3> QED
      BY <3>1, <3>2, <3>3 DEF new
  <2>7. op \in Op /\ WellFormed(op) /\ Starting(op)
    <3>1. Idle \in Op /\ WellFormed(Idle) /\ Idle.kind = "none" /\ Idle.step = "idle"
      BY IdleType DEF Idle
    <3>2. Starting(Idle)
      BY <3>1 DEF Starting, Apart, MoveKinds, EraseSteps
    <3> HIDE DEF cur
    <3>3. Going(Idle, v) \in Op
      BY <2>6, <3>1, <3>2
    <3>4. CASE v \notin rows \/ (~cur.hard /\ path[v][1] = MaxDepth)
      <4> DEFINE base == Going(Idle, v)
                 new == After(base)
      <4>1. op = new
        BY <2>4, <3>4
      <4> HIDE DEF Going
      <4>2. /\ new \in Op /\ WellFormed(new)
            /\ new.kind \in {"none", "resolve"} /\ new.step \in {"idle", "pick"}
        BY <3>3, AfterType
      <4> HIDE DEF new
      <4>3. Starting(new)
        BY <4>2 DEF Starting, Apart, MoveKinds, EraseSteps
      <4> QED
        BY <4>1, <4>2, <4>3
    <3>5. CASE ~(v \notin rows \/ (~cur.hard /\ path[v][1] = MaxDepth)) /\ cur.hard
      <4> DEFINE base == Purging([w \in {v} |-> path[w]])
      <4>1. op = Going(base, v)
        BY <2>4, <3>5
      <4>2. {v} \in SUBSET Videos
        BY <2>5
      <4>3. base \in Op /\ WellFormed(base) /\ Starting(base)
        BY <1>3, <4>2
      <4>4. base.kind # "repair"
        BY DEF Purging, Idle
      <4> HIDE DEF base, Going
      <4> QED
        BY <2>6, <4>1, <4>3, <4>4
    <3>6. CASE ~(v \notin rows \/ (~cur.hard /\ path[v][1] = MaxDepth)) /\ ~cur.hard
      <4> DEFINE base == Moving("delete", "move", v, Trash(path[v]))
      <4>1. op = Going(base, v) /\ path[v][1] # MaxDepth
        BY <2>4, <3>6
      <4>2. Trash(path[v]) \in PlacesOf(v)
        BY <2>5, <4>1, PlaceOps
      <4>3. base \in Op /\ WellFormed(base) /\ Starting(base)
        BY <1>2, <2>5, <4>2 DEF MoveKinds
      <4>4. base.kind # "repair"
        BY DEF Moving, Reading, Idle
      <4> HIDE DEF base, Going
      <4> QED
        BY <2>6, <4>1, <4>3, <4>4
    <3> QED
      BY <3>4, <3>5, <3>6
  <2>8. /\ OpsFine' /\ ops'[c] = op /\ \A d \in Clients \ {c} : ops'[d] = ops[d]
    BY <2>4, <2>7, OpsChange DEF OpsFine
  <2>9. UNCHANGED <<table, files, derived, scene, stirred, left, faults>>
    BY <1>11 DEF Pick
  <2>10. Turn(c)
    BY <2>8 DEF Turn
  <2> HIDE DEF Going
  <2> QED
    BY <2>2, <2>3, <2>4, <2>7, <2>8, <2>9, <2>10
<1> QED
  BY <1>10, <1>11

-----------------------------------------------------------------------------
(***************************************************************************)
(* Files.                                                                  *)
(***************************************************************************)

\* What a rename leaves: the file is at the target, which it replaces, and
\* every other file is where it was.
LEMMA MovedFiles ==
  ASSUME NEW p \in DOMAIN files, NEW q
  PROVE  /\ DOMAIN Moved(p, q) = (DOMAIN files \ {p}) \cup {q}
         /\ Moved(p, q)[q] = files[p]
         /\ \A x \in DOMAIN files \ {p, q} : Moved(p, q)[x] = files[x]
BY DEF Moved

\* What a removal leaves.
LEMMA WithoutFiles ==
  ASSUME NEW p
  PROVE  /\ DOMAIN Without(p) = DOMAIN files \ {p}
         /\ \A x \in DOMAIN files \ {p} : Without(p)[x] = files[x]
BY DEF Without, Restrict

\* Everything but the requests is of its type, and a row's path is one of its
\* video.
RowsFine ==
  /\ rows \subseteq Videos /\ deleted \subseteq Videos
  /\ path \in [Videos -> Places] /\ \A v \in Videos : path[v] \in PlacesOf(v)
  /\ DOMAIN files \subseteq Places /\ \A p \in DOMAIN files : files[p] \in Videos
  /\ thumbs \subseteq Videos /\ missing \subseteq Videos /\ scene \in Scenes
  /\ broken \subseteq Videos /\ stirred \subseteq Videos /\ left \subseteq Videos
  /\ faults \in 0 .. scene.faults

\* Types are types of requests and types of the rest.
LEMMA Fine ==
  /\ TypeOK /\ OpsOrder <=> OpsFine /\ RowsFine
  /\ (TypeOK /\ OpsOrder)' <=> OpsFine' /\ RowsFine'
<1>1. TypeOK /\ OpsOrder <=> OpsFine /\ RowsFine
  BY DEF TypeOK, OpsOrder, OpsFine, RowsFine, Range
<1>2. (TypeOK /\ OpsOrder)' <=> OpsFine' /\ RowsFine'
  BY DEF TypeOK, OpsOrder, OpsFine, RowsFine, Range
<1> QED
  BY <1>1, <1>2

\* A rename within the places leaves files of videos there.
LEMMA MovedType ==
  ASSUME RowsFine, NEW p \in DOMAIN files, NEW q \in Places, files' = Moved(p, q)
  PROVE  DOMAIN files' \subseteq Places /\ \A x \in DOMAIN files' : files'[x] \in Videos
<1>1. DOMAIN files \subseteq Places /\ \A x \in DOMAIN files : files[x] \in Videos
  BY DEF RowsFine
<1>2. DOMAIN files' = (DOMAIN files \ {p}) \cup {q}
  BY MovedFiles
<1>3. ASSUME NEW x \in DOMAIN files'
      PROVE  files'[x] \in Videos
  <2>1. x = q \/ x \in DOMAIN files \ {p, q}
    BY <1>2
  <2>2. files'[q] = files[p]
    BY MovedFiles
  <2>3. \A y \in DOMAIN files \ {p, q} : files'[y] = files[y]
    BY DEF Moved
  <2> QED
    BY <1>1, <2>1, <2>2, <2>3
<1> QED
  BY <1>1, <1>2, <1>3

\* The requests at first.
LEMMA FineInit == Init => TypeOK /\ OpsOrder
<1> SUFFICES ASSUME Init PROVE OpsFine /\ RowsFine
  BY Fine
<1>1. OpsFine
  BY IdleType DEF Init, OpsFine
<1>2. rows \in SUBSET Videos /\ scene \in Scenes
  BY FilesAssumption DEF Init
<1>3. /\ path \in [Videos -> Places] /\ \A v \in Videos : path[v] \in PlacesOf(v)
  BY PlaceOps DEF Init
<1>4. DOMAIN files = {Library(Inbox[v]) : v \in rows}
  BY DEF Init
<1>5. DOMAIN files \subseteq Places
  BY <1>2, <1>4, PlaceOps
<1>6. \A p \in DOMAIN files : files[p] \in Videos
  <2> TAKE p \in DOMAIN files
  <2>1. files[p] = CHOOSE v \in Videos : p = Library(Inbox[v])
    BY <1>4 DEF Init
  <2>2. \E v \in Videos : p = Library(Inbox[v])
    BY <1>2, <1>4
  <2> QED
    BY <2>1, <2>2
<1> QED
  BY <1>1, <1>2, <1>3, <1>5, <1>6, FilesAssumption DEF RowsFine, Init

\* No step leaves its type: a step of a request.
LEMMA FineStep ==
  ASSUME TypeOK, OpsOrder, NEW c \in Clients, Step(c)
  PROVE  OpsFine' /\ RowsFine'
<1> USE DEF table, derived, history
<1>1. RowsFine
  BY Fine
<1>2. CASE LookInCache(c) \/ Probe(c) \/ Fetch(c) \/ Frame(c) \/ WriteThumb(c)
  <2>1. OpsFine'
    BY <1>2, ThumbnailTurn DEF Turn
  <2>2. CASE WriteThumb(c)
    <3>1. ops[c].step = "write"
      BY <2>2 DEF WriteThumb, At
    <3>2. ops[c].kind = "thumbnail" /\ WellFormed(ops[c])
      BY <3>1, StepKind DEF OpsOrder
    <3>3. ops[c].video \in Videos
      BY <3>2 DEF WellFormed
    <3>4. /\ thumbs' \subseteq Videos /\ left' \subseteq Videos /\ faults' \in 0 .. scene.faults
      BY <1>1, <2>2, <3>3, FilesAssumption DEF WriteThumb, RowsFine, Fault
    <3>5. UNCHANGED <<table, files, missing, scene, broken, stirred>>
      BY <2>2 DEF WriteThumb
    <3> QED
      BY <1>1, <2>1, <3>4, <3>5 DEF RowsFine
  <2>3. CASE ~WriteThumb(c)
    <3>1. UNCHANGED <<table, files, derived, scene, history>>
      BY <1>2, <2>3 DEF LookInCache, Probe, Fetch, Frame
    <3> QED
      BY <1>1, <2>1, <3>1 DEF RowsFine
  <2> QED
    BY <2>2, <2>3
<1>3. CASE Scan(c)
  <2>1. UNCHANGED <<table, files, derived, scene, history>>
    BY <1>3 DEF Scan
  <2> QED
    BY <1>1, <1>3, <2>1, RepairTurn DEF Turn, RowsFine
<1>4. CASE MarkMissing(c)
  <2>1. missing' \subseteq Videos /\ faults' \in 0 .. scene.faults
    BY <1>1, <1>4, FilesAssumption DEF MarkMissing, RowsFine, Fault
  <2>2. UNCHANGED <<table, files, thumbs, scene, broken, stirred, left>>
    BY <1>4 DEF MarkMissing
  <2> QED
    BY <1>1, <1>4, <2>1, <2>2, RepairTurn DEF Turn, RowsFine
<1>5. CASE Pick(c)
  <2>1. Turn(c) /\ Raced(ops'[c]) /\ UNCHANGED <<table, files, derived, scene, stirred, left, faults>>
    BY <1>5, StartTurn DEF Starts
  <2>2. broken' \subseteq Videos
    <3>1. CASE \E d \in Clients : Overlaps(ops'[c], ops[d])
      <4>1. ops'[c].kind \in MoveKinds /\ WellFormed(ops'[c])
        BY <2>1, <3>1 DEF Overlaps, Moves, MoveKinds, Turn, OpsFine
      <4>2. ops'[c].video \in Videos
        BY <4>1 DEF WellFormed
      <4> QED
        BY <1>1, <2>1, <4>2 DEF Raced, RowsFine
    <3>2. CASE ~\E d \in Clients : Overlaps(ops'[c], ops[d])
      BY <1>1, <2>1, <3>2 DEF Raced, RowsFine
    <3> QED
      BY <3>1, <3>2
  <2> QED
    BY <1>1, <2>1, <2>2 DEF Turn, RowsFine
<1>6. CASE Look(c)
  <2>1. UNCHANGED <<table, files, derived, scene, history>>
    BY <1>6 DEF Look
  <2> QED
    BY <1>1, <1>6, <2>1, LookTurn DEF Turn, RowsFine
<1>7. CASE Check(c)
  <2>1. UNCHANGED <<table, files, derived, scene, history>>
    BY <1>7 DEF Check
  <2> QED
    BY <1>1, <1>7, <2>1, CheckTurn DEF Turn, RowsFine
<1>8. CASE MoveFile(c)
  <2>1. ops[c].step = "move" /\ ops[c].step \in MoveSteps
    BY <1>8 DEF MoveFile, At, MoveSteps
  <2>2. ops[c].video \in Videos /\ ops[c].from \in Places /\ ops[c].to \in Places
    BY <2>1, MoverKnows
  <2>3. OpsFine'
    <3>1. Done(c) \/ Goto(c, "verify") \/ Goto(c, "record")
      BY <1>8 DEF MoveFile
    <3>2. "verify" \in MoveSteps /\ "record" \in MoveSteps
      BY DEF MoveSteps
    <3> QED
      BY <2>1, <3>1, <3>2, MoveTurn, HelpersTurn DEF Turn
  <2>4. /\ DOMAIN files' \subseteq Places /\ \A p \in DOMAIN files' : files'[p] \in Videos
    <3>1. CASE files' = Moved(ops[c].from, ops[c].to) /\ ops[c].from \in DOMAIN files
      BY <1>1, <2>2, <3>1, MovedType
    <3>2. CASE files' = files
      BY <1>1, <3>2 DEF RowsFine
    <3> QED
      BY <1>8, <3>1, <3>2 DEF MoveFile, Exists
  <2>5. stirred' \subseteq Videos
    BY <1>1, <1>8, <2>2 DEF MoveFile, Stirs, RowsFine
  <2>6. UNCHANGED <<table, derived, scene, broken, left, faults>>
    BY <1>8 DEF MoveFile
  <2> QED
    BY <1>1, <2>3, <2>4, <2>5, <2>6 DEF RowsFine
<1>9. CASE Verify(c)
  <2>1. ops[c].step \in MoveSteps /\ (Goto(c, "record") \/ Goto(c, "rollback"))
    BY <1>9 DEF Verify, At, MoveSteps
  <2>2. "rollback" \in MoveSteps /\ "record" \in MoveSteps
    BY DEF MoveSteps
  <2>3. OpsFine'
    BY <2>1, <2>2, MoveTurn DEF Turn
  <2>4. UNCHANGED <<table, files, derived, scene, history>>
    BY <1>9 DEF Verify
  <2> QED
    BY <1>1, <2>3, <2>4 DEF RowsFine
<1>10. CASE Record(c)
  <2>1. ops[c].step \in MoveSteps
    BY <1>10 DEF Record, At, MoveSteps
  <2>2. /\ ops[c].video \in Videos /\ ops[c].to \in PlacesOf(ops[c].video) /\ ops[c].to \in Places
    BY <2>1, MoverKnows
  <2>3. OpsFine'
    <3>1. Done(c) \/ Goto(c, "mark") \/ Goto(c, "rollback")
      BY <1>10 DEF Record, NotRecorded
    <3>2. "mark" \in MoveSteps /\ "rollback" \in MoveSteps
      BY DEF MoveSteps
    <3> QED
      BY <2>1, <3>1, <3>2, MoveTurn, HelpersTurn DEF Turn
  <2>4. /\ path' \in [Videos -> Places] /\ \A v \in Videos : path'[v] \in PlacesOf(v)
    <3>1. CASE path' = [path EXCEPT ![ops[c].video] = ops[c].to]
      BY <1>1, <2>2, <3>1 DEF RowsFine
    <3>2. CASE path' = path
      BY <1>1, <3>2 DEF RowsFine
    <3> QED
      BY <1>10, <3>1, <3>2 DEF Record
  <2>5. deleted' \subseteq Videos /\ stirred' \subseteq Videos
    BY <1>1, <1>10, <2>2 DEF Record, Stirs, RowsFine
  <2>6. UNCHANGED <<rows, files, derived, scene, broken, left, faults>>
    BY <1>10 DEF Record
  <2> QED
    BY <1>1, <2>3, <2>4, <2>5, <2>6 DEF RowsFine
<1>11. CASE Mark(c)
  <2>1. Done(c) /\ UNCHANGED <<rows, path, files, derived, scene, history>>
    BY <1>11 DEF Mark
  <2>2. deleted' \subseteq Videos
    BY <1>1, <1>11 DEF Mark, RowsFine
  <2> QED
    BY <1>1, <2>1, <2>2, HelpersTurn DEF Turn, RowsFine
<1>12. CASE Rollback(c)
  <2>1. ops[c].step \in MoveSteps
    BY <1>12 DEF Rollback, At, MoveSteps
  <2>2. ops[c].video \in Videos /\ ops[c].from \in Places /\ ops[c].to \in Places
    BY <2>1, MoverKnows
  <2>3. Done(c) /\ UNCHANGED <<table, derived, scene, broken, left, faults>>
    BY <1>12 DEF Rollback
  <2>4. /\ DOMAIN files' \subseteq Places /\ \A p \in DOMAIN files' : files'[p] \in Videos
    <3>1. CASE files' = Moved(ops[c].to, ops[c].from) /\ ops[c].to \in DOMAIN files
      BY <1>1, <2>2, <3>1, MovedType
    <3>2. CASE files' = files
      BY <1>1, <3>2 DEF RowsFine
    <3> QED
      BY <1>12, <3>1, <3>2 DEF Rollback, Exists
  <2>5. stirred' \subseteq Videos
    BY <1>1, <1>12, <2>2 DEF Rollback, Stirs, RowsFine
  <2> QED
    BY <1>1, <2>3, <2>4, <2>5, HelpersTurn DEF Turn, RowsFine
<1>13. CASE Unlink(c)
  <2>1. ops[c].step = "unlink" /\ (Goto(c, "thumb") \/ NextVideo(c))
    BY <1>13 DEF Unlink, At
  <2>2. OpsFine'
    BY <2>1, EraseTurn, HelpersTurn DEF Turn, EraseSteps
  <2>3. /\ DOMAIN files' \subseteq Places /\ \A p \in DOMAIN files' : files'[p] \in Videos
    BY <1>1, <1>13, WithoutFiles, ZenonT(40) DEF Unlink, RowsFine
  <2>4. UNCHANGED <<table, derived, scene, history>>
    BY <1>13 DEF Unlink
  <2> QED
    BY <1>1, <2>2, <2>3, <2>4 DEF RowsFine
<1>14. CASE SeeThumb(c)
  <2>1. ops[c].step \in EraseSteps /\ (Goto(c, "unthumb") \/ Goto(c, "erase"))
    BY <1>14 DEF SeeThumb, At, EraseSteps
  <2>2. OpsFine'
    BY <2>1, EraseTurn DEF Turn, EraseSteps
  <2>3. UNCHANGED <<table, files, derived, scene, history>>
    BY <1>14 DEF SeeThumb
  <2> QED
    BY <1>1, <2>2, <2>3 DEF RowsFine
<1>15. CASE DropThumb(c)
  <2>1. ops[c].step \in EraseSteps /\ (Goto(c, "erase") \/ NextVideo(c))
    BY <1>15 DEF DropThumb, At, EraseSteps
  <2>2. OpsFine'
    BY <2>1, EraseTurn, HelpersTurn DEF Turn, EraseSteps
  <2>3. ops[c].video \in Videos
    BY <2>1, EraserKnows
  <2>4. thumbs' \subseteq Videos /\ broken' \subseteq Videos
    BY <1>1, <1>15, <2>3 DEF DropThumb, RowsFine
  <2>5. UNCHANGED <<table, files, missing, scene, stirred, left, faults>>
    BY <1>15 DEF DropThumb
  <2> QED
    BY <1>1, <2>2, <2>4, <2>5 DEF RowsFine
<1>16. CASE Erase(c)
  <2>1. ops[c].step \in EraseSteps /\ NextVideo(c)
    BY <1>16 DEF Erase, At, EraseSteps
  <2>2. OpsFine'
    BY <2>1, HelpersTurn DEF Turn
  <2>3. rows' \subseteq rows /\ UNCHANGED <<deleted, path, files, derived, scene, history>>
    BY <1>16 DEF Erase
  <2> QED
    BY <1>1, <2>2, <2>3 DEF RowsFine
<1>17. CASE DatabaseError(c)
  <2>1. ops[c].step \in {"record", "mark", "erase"}
    BY <1>17 DEF DatabaseError
  <2>2. OpsFine'
    <3>1. CASE ops[c].step = "record"
      <4>1. ops[c].step \in MoveSteps /\ (Done(c) \/ Goto(c, "rollback"))
        BY <1>17, <3>1 DEF DatabaseError, NotRecorded, At, MoveSteps
      <4>2. "rollback" \in MoveSteps
        BY DEF MoveSteps
      <4> QED
        BY <4>1, <4>2, MoveTurn, HelpersTurn DEF Turn
    <3>2. CASE ops[c].step = "mark"
      <4>1. Done(c)
        BY <1>17, <3>2 DEF DatabaseError, At
      <4> QED
        BY <4>1, HelpersTurn DEF Turn
    <3>3. CASE ops[c].step = "erase"
      <4>1. ops[c].step \in EraseSteps /\ NextVideo(c)
        BY <1>17, <3>3 DEF DatabaseError, At, EraseSteps
      <4> QED
        BY <4>1, HelpersTurn DEF Turn
    <3> QED
      BY <2>1, <3>1, <3>2, <3>3
  <2>3. ops[c].video \in Videos
    BY <2>1, MoverKnows, EraserKnows DEF MoveSteps, EraseSteps
  <2>4. broken' \subseteq Videos /\ faults' \in 0 .. scene.faults
    BY <1>1, <1>17, <2>3, FilesAssumption DEF DatabaseError, Fault, RowsFine
  <2>5. UNCHANGED <<table, files, derived, scene, stirred, left>>
    BY <1>17 DEF DatabaseError
  <2> QED
    BY <1>1, <2>2, <2>4, <2>5 DEF RowsFine
<1> QED
  BY <1>2, <1>3, <1>4, <1>5, <1>6, <1>7, <1>8, <1>9, <1>10, <1>11, <1>12, <1>13, <1>14, <1>15,
     <1>16, <1>17 DEF Step

\* No step leaves its type.
LEMMA FineNext ==
  ASSUME TypeOK, OpsOrder, [Next]_vars
  PROVE  OpsFine' /\ RowsFine'
<1> USE DEF table, derived, history
<1>1. OpsFine /\ RowsFine
  BY Fine
<1>2. CASE \E c \in Clients : Step(c)
  BY <1>2, FineStep
<1>3. CASE \E c \in Clients : Starts(c)
  <2>1. PICK c \in Clients : Starts(c)
    BY <1>3
  <2>2. /\ Turn(c) /\ Raced(ops'[c])
        /\ UNCHANGED <<table, files, derived, scene, stirred, left, faults>>
    BY <2>1, StartTurn
  <2>3. broken' \subseteq Videos
    <3>1. CASE \E d \in Clients : Overlaps(ops'[c], ops[d])
      <4>1. ops'[c].kind \in MoveKinds /\ WellFormed(ops'[c])
        BY <2>2, <3>1 DEF Overlaps, Moves, MoveKinds, Turn, OpsFine
      <4>2. ops'[c].video \in Videos
        BY <4>1 DEF WellFormed
      <4> QED
        BY <1>1, <2>2, <4>2 DEF Raced, RowsFine
    <3>2. CASE ~\E d \in Clients : Overlaps(ops'[c], ops[d])
      BY <1>1, <2>2, <3>2 DEF Raced, RowsFine
    <3> QED
      BY <3>1, <3>2
  <2> QED
    BY <1>1, <2>2, <2>3 DEF Turn, RowsFine
<1>4. CASE \E v \in Videos : DeleteRow(v) \/ RestoreRow(v) \/ EraseRow(v)
  <2>1. PICK v \in Videos : DeleteRow(v) \/ RestoreRow(v) \/ EraseRow(v)
    BY <1>4
  <2>2. /\ rows' \subseteq Videos /\ deleted' \subseteq Videos /\ left' \subseteq Videos
        /\ UNCHANGED <<path, files, derived, scene, ops, broken, stirred, faults>>
    BY <1>1, <2>1 DEF DeleteRow, RestoreRow, EraseRow, RowsFine
  <2> QED
    BY <1>1, <2>2 DEF OpsFine, RowsFine
<1>5. CASE Crash
  <2>1. ops' = [c \in Clients |-> Idle] /\ UNCHANGED <<table, files, derived, scene, stirred, left>>
    BY <1>5 DEF Crash
  <2>2. OpsFine'
    BY <2>1, IdleType DEF OpsFine
  <2>3. \A d \in Clients : Halfway(d) => ops[d].video \in Videos
    BY MoverKnows, EraserKnows DEF Halfway, MoveSteps, EraseSteps
  <2>4. broken' \subseteq Videos /\ faults' \in 0 .. scene.faults
    BY <1>1, <1>5, <2>3, FilesAssumption DEF Crash, Fault, RowsFine
  <2> QED
    BY <1>1, <2>1, <2>2, <2>4 DEF RowsFine
<1>6. CASE UNCHANGED vars
  BY <1>1, <1>6 DEF OpsFine, RowsFine, vars
<1> QED
  BY <1>2, <1>3, <1>4, <1>5, <1>6 DEF Next, Starts

\* What becomes of the files: only a move, its rollback and a deletion for good
\* touch them.
LEMMA FilesStep ==
  ASSUME TypeOK, OpsOrder, [Next]_vars
  PROVE  \/ files' = files
         \/ \E c \in Clients : MoveFile(c) /\ Exists(ops[c].from)
                               /\ files' = Moved(ops[c].from, ops[c].to)
         \/ \E c \in Clients : Rollback(c) /\ Exists(ops[c].to)
                               /\ files' = Moved(ops[c].to, ops[c].from)
         \/ \E c \in Clients : Unlink(c) /\ files' = Without(ops[c].todo[ops[c].video])
<1>1. ASSUME NEW c \in Clients, Starts(c)
      PROVE  files' = files
  BY <1>1, StartTurn
<1>2. ASSUME NEW v \in Videos, DeleteRow(v) \/ RestoreRow(v) \/ EraseRow(v)
      PROVE  files' = files
  BY <1>2 DEF DeleteRow, RestoreRow, EraseRow
<1>3. ASSUME Crash \/ UNCHANGED vars
      PROVE  files' = files
  BY <1>3 DEF Crash, vars
<1>4. ASSUME NEW c \in Clients, Step(c), ~MoveFile(c), ~Rollback(c), ~Unlink(c)
      PROVE  files' = files
  BY <1>4 DEF Step, Check, Verify, Record, Mark, Look, SeeThumb, DropThumb, Erase, Pick,
              LookInCache, Probe, Fetch, Frame, WriteThumb, Scan, MarkMissing, DatabaseError
<1>5. ASSUME NEW c \in Clients, MoveFile(c)
      PROVE  \/ files' = files
             \/ Exists(ops[c].from) /\ files' = Moved(ops[c].from, ops[c].to)
  BY <1>5 DEF MoveFile
<1>6. ASSUME NEW c \in Clients, Rollback(c)
      PROVE  \/ files' = files
             \/ Exists(ops[c].to) /\ files' = Moved(ops[c].to, ops[c].from)
  BY <1>6 DEF Rollback
<1>7. ASSUME NEW c \in Clients, Unlink(c)
      PROVE  files' = Without(ops[c].todo[ops[c].video])
  BY <1>7 DEF Unlink
<1>8. \/ \E c \in Clients : Step(c)
      \/ \E c \in Clients : Starts(c)
      \/ \E v \in Videos : DeleteRow(v) \/ RestoreRow(v) \/ EraseRow(v)
      \/ Crash \/ UNCHANGED vars
  BY DEF Next, Starts
<1> QED
  BY <1>1, <1>2, <1>3, <1>4, <1>5, <1>6, <1>7, <1>8

\* A rename within the places makes no second copy.
LEMMA MovedOnce ==
  ASSUME OneFileEach, NEW p \in DOMAIN files, NEW q, files' = Moved(p, q)
  PROVE  OneFileEach'
<1> SUFFICES ASSUME NEW x \in DOMAIN files', NEW y \in DOMAIN files', files'[x] = files'[y]
             PROVE  x = y
  BY DEF OneFileEach
<1>1. /\ DOMAIN files' = (DOMAIN files \ {p}) \cup {q}
      /\ \A z \in DOMAIN files' : files'[z] = IF z = q THEN files[p] ELSE files[z]
  BY DEF Moved
<1>2. \A z \in DOMAIN files' : z = q \/ (z \in DOMAIN files /\ z # p)
  BY <1>1
<1>3. CASE x = q /\ y # q
  BY <1>1, <1>2, <1>3 DEF OneFileEach
<1>4. CASE x # q /\ y = q
  BY <1>1, <1>2, <1>4 DEF OneFileEach
<1>5. CASE x # q /\ y # q
  BY <1>1, <1>2, <1>5 DEF OneFileEach
<1> QED
  BY <1>3, <1>4, <1>5

\* No step makes a second copy of a video's file.
LEMMA OneFileStep ==
  ASSUME TypeOK, OpsOrder, OneFileEach, [Next]_vars
  PROVE  OneFileEach'
<1>1. CASE files' = files
  BY <1>1 DEF OneFileEach
<1>2. ASSUME NEW p \in DOMAIN files, NEW q, files' = Moved(p, q)
      PROVE  OneFileEach'
  BY <1>2, MovedOnce
<1>3. ASSUME NEW p, files' = Without(p)
      PROVE  OneFileEach'
  <2>1. /\ DOMAIN files' = DOMAIN files \ {p}
        /\ \A x \in DOMAIN files' : files'[x] = files[x]
    BY <1>3 DEF Without, Restrict
  <2> QED
    BY <2>1 DEF OneFileEach
<1>4. \A c \in Clients : Exists(ops[c].from) <=> ops[c].from \in DOMAIN files
  BY DEF Exists
<1>5. \A c \in Clients : Exists(ops[c].to) <=> ops[c].to \in DOMAIN files
  BY DEF Exists
<1> QED
  BY <1>1, <1>2, <1>3, <1>4, <1>5, FilesStep

-----------------------------------------------------------------------------
(***************************************************************************)
(* Thumbnails.                                                             *)
(***************************************************************************)

\* Who does not come to erase a row is not about to erase one.
LEMMA ThumbFrame ==
  ASSUME ThumbOrder, rows' = rows, thumbs' \subseteq thumbs, left \subseteq left',
         \A c \in Clients : \/ ops'[c].step # "erase"
                            \/ ops'[c] = ops[c]
  PROVE  ThumbOrder'
BY DEF ThumbOrder, ThumbHasRow, At

\* A request at work on anything but a deletion is not about to erase.
LEMMA NotErasing ==
  ASSUME NEW op, Apart(op) \/ op.step \in MoveSteps
  PROVE  op.step # "erase"
BY DEF Apart, MoveSteps, EraseSteps

\* No step leaves a thumbnail behind but the two that are known to.
LEMMA ThumbStep ==
  ASSUME TypeOK, OpsOrder, ThumbOrder, [Next]_vars
  PROVE  ThumbOrder'
<1> USE DEF table, derived, history
<1>1. ASSUME NEW c \in Clients, Turn(c), ops'[c].step # "erase",
             rows' = rows, thumbs' \subseteq thumbs, left \subseteq left'
      PROVE  ThumbOrder'
  BY <1>1, ThumbFrame DEF Turn
<1>2. ASSUME NEW c \in Clients, Starts(c)
      PROVE  ThumbOrder'
  <2>1. Turn(c) /\ Starting(ops'[c]) /\ UNCHANGED <<rows, thumbs, left>>
    BY <1>2, StartTurn
  <2>2. ops'[c].step # "erase"
    BY <2>1 DEF Starting, Apart, EraseSteps
  <2> QED
    BY <1>1, <2>1, <2>2
<1>3. ASSUME NEW c \in Clients, Step(c)
      PROVE  ThumbOrder'
  <2>1. CASE LookInCache(c) \/ Probe(c) \/ Fetch(c) \/ Frame(c)
    <3>1. Turn(c) /\ ops'[c].step # "erase"
      BY <2>1, ThumbnailTurn, NotErasing
    <3>2. UNCHANGED <<rows, thumbs, left>>
      BY <2>1 DEF LookInCache, Probe, Fetch, Frame
    <3> QED
      BY <1>1, <3>1, <3>2
  <2>2. CASE WriteThumb(c)
    <3>1. Turn(c) /\ ops'[c].step # "erase" /\ Apart(ops[c])
      BY <2>2, ThumbnailTurn, NotErasing
    <3>2. rows' = rows
      BY <2>2 DEF WriteThumb
    <3>3. CASE thumbs' \subseteq thumbs /\ left' = left
      BY <1>1, <3>1, <3>2, <3>3
    <3>4. CASE /\ thumbs' = thumbs \cup {ops[c].video}
               /\ left' = IF ops[c].video \notin rows \/ Erasing(ops[c].video)
                          THEN left \cup {ops[c].video} ELSE left
      <4>1. ThumbHasRow'
        BY <3>2, <3>4 DEF ThumbOrder, ThumbHasRow
      <4>2. ASSUME NEW d \in Clients, ops'[d].step = "erase"
            PROVE  ops'[d].video \notin thumbs' \ left'
        <5>1. d # c /\ ops'[d] = ops[d]
          BY <3>1, <4>2 DEF Turn
        <5>2. ops[d].video \notin thumbs \ left
          BY <4>2, <5>1 DEF ThumbOrder, At
        <5>3. ops[d].video = ops[c].video => Erasing(ops[c].video)
          BY <4>2, <5>1 DEF Erasing
        <5> QED
          BY <3>4, <5>1, <5>2, <5>3
      <4> QED
        BY <4>1, <4>2 DEF ThumbOrder, At
    <3> QED
      BY <2>2, <3>3, <3>4 DEF WriteThumb
  <2>3. CASE Scan(c) \/ MarkMissing(c)
    <3>1. Turn(c) /\ ops'[c].step # "erase"
      BY <2>3, RepairTurn, NotErasing, SMTT(30)
    <3>2. UNCHANGED <<rows, thumbs, left>>
      BY <2>3 DEF Scan, MarkMissing
    <3> QED
      BY <1>1, <3>1, <3>2
  <2>4. CASE Look(c)
    <3>1. Turn(c) /\ ops'[c].step # "erase" /\ UNCHANGED <<rows, thumbs, left>>
      BY <2>4, LookTurn DEF Look
    <3> QED
      BY <1>1, <3>1
  <2>5. CASE Check(c)
    <3>1. Turn(c) /\ ops'[c].step # "erase" /\ UNCHANGED <<rows, thumbs, left>>
      BY <2>5, CheckTurn, NotErasing DEF Check
    <3> QED
      BY <1>1, <3>1
  <2>6. CASE MoveFile(c) \/ Verify(c) \/ Record(c) \/ Mark(c) \/ Rollback(c)
    <3>1. ops[c].step \in MoveSteps
      BY <2>6 DEF MoveFile, Verify, Record, Mark, Rollback, At, MoveSteps
    <3>2. Done(c) \/ \E s \in MoveSteps : Goto(c, s)
      BY <2>6 DEF MoveFile, Verify, Record, NotRecorded, Mark, Rollback, MoveSteps
    <3>3. Turn(c) /\ ops'[c].step # "erase"
      BY <3>1, <3>2, HelpersTurn, MoveTurn, NotErasing
    <3>4. UNCHANGED <<rows, thumbs, left>>
      BY <2>6 DEF MoveFile, Verify, Record, Mark, Rollback
    <3> QED
      BY <1>1, <3>3, <3>4
  <2>7. CASE Unlink(c)
    <3>1. ops[c].step = "unlink" /\ (Goto(c, "thumb") \/ NextVideo(c))
      BY <2>7 DEF Unlink, At
    <3>2. CASE Goto(c, "thumb")
      BY <1>1, <2>7, <3>1, <3>2, EraseTurn DEF Unlink, EraseSteps
    <3>3. CASE NextVideo(c)
      <4>1. Turn(c) /\ ops'[c].step # "erase"
        BY <3>1, <3>3, HelpersTurn, NotErasing
      <4> QED
        BY <1>1, <2>7, <4>1 DEF Unlink
    <3> QED
      BY <3>1, <3>2, <3>3
  <2>8. CASE SeeThumb(c)
    <3>1. /\ ops[c].step \in EraseSteps /\ UNCHANGED <<rows, thumbs, left>>
          /\ Goto(c, IF ops[c].video \in thumbs THEN "unthumb" ELSE "erase")
      BY <2>8 DEF SeeThumb, At, EraseSteps
    <3>2. CASE ops[c].video \in thumbs
      BY <1>1, <3>1, <3>2, EraseTurn DEF EraseSteps
    <3>3. CASE ops[c].video \notin thumbs
      <4>1. Turn(c) /\ ops'[c].video = ops[c].video
        BY <3>1, <3>3, EraseTurn DEF EraseSteps
      <4>2. ThumbHasRow'
        BY <3>1 DEF ThumbOrder, ThumbHasRow
      <4> QED
        BY <3>1, <3>3, <4>1, <4>2 DEF ThumbOrder, At, Turn
    <3> QED
      BY <3>2, <3>3
  <2>9. CASE DropThumb(c)
    <3>1. /\ ops[c].step \in EraseSteps /\ UNCHANGED <<rows, left>>
          /\ thumbs' = thumbs \ {ops[c].video}
      BY <2>9 DEF DropThumb, At, EraseSteps
    <3>2. CASE Goto(c, "erase")
      <4>1. Turn(c) /\ ops'[c].video = ops[c].video
        BY <3>1, <3>2, EraseTurn DEF EraseSteps
      <4>2. ThumbHasRow'
        BY <3>1 DEF ThumbOrder, ThumbHasRow
      <4> QED
        BY <3>1, <4>1, <4>2 DEF ThumbOrder, At, Turn
    <3>3. CASE NextVideo(c)
      <4>1. Turn(c) /\ ops'[c].step # "erase"
        BY <3>1, <3>3, HelpersTurn, NotErasing
      <4> QED
        BY <1>1, <3>1, <4>1
    <3> QED
      BY <2>9, <3>2, <3>3 DEF DropThumb
  <2>10. CASE Erase(c)
    <3>1. /\ ops[c].step = "erase" /\ NextVideo(c) /\ UNCHANGED <<thumbs, left>>
          /\ rows' = rows \ {ops[c].video}
      BY <2>10 DEF Erase, At
    <3>2. Turn(c) /\ ops'[c].step # "erase"
      BY <3>1, HelpersTurn, NotErasing DEF EraseSteps
    <3>3. ops[c].video \notin thumbs \ left
      BY <3>1 DEF ThumbOrder, At
    <3>4. ThumbHasRow'
      BY <3>1, <3>3 DEF ThumbOrder, ThumbHasRow
    <3> QED
      BY <3>1, <3>2, <3>4 DEF ThumbOrder, At, Turn
  <2>11. CASE Pick(c)
    BY <1>2, <2>11 DEF Starts
  <2>12. CASE DatabaseError(c)
    <3>1. ops[c].step \in {"record", "mark", "erase"} /\ UNCHANGED <<rows, thumbs, left>>
      BY <2>12 DEF DatabaseError
    <3>2. Turn(c) /\ ops'[c].step # "erase"
      <4>1. CASE ops[c].step # "erase"
        <5>1. ops[c].step \in MoveSteps /\ (Done(c) \/ Goto(c, "rollback")) /\ "rollback" \in MoveSteps
          BY <2>12, <3>1, <4>1 DEF DatabaseError, NotRecorded, At, MoveSteps
        <5> QED
          BY <5>1, MoveTurn, HelpersTurn, NotErasing
      <4>2. CASE ops[c].step = "erase"
        <5>1. ops[c].step \in EraseSteps /\ NextVideo(c)
          BY <2>12, <4>2 DEF DatabaseError, At, EraseSteps
        <5> QED
          BY <5>1, HelpersTurn, NotErasing
      <4> QED
        BY <4>1, <4>2
    <3> QED
      BY <1>1, <3>1, <3>2
  <2> QED
    BY <1>3, <2>1, <2>2, <2>3, <2>4, <2>5, <2>6, <2>7, <2>8, <2>9, <2>10, <2>11, <2>12 DEF Step
<1>4. ASSUME NEW v \in Videos, DeleteRow(v) \/ RestoreRow(v)
      PROVE  ThumbOrder'
  <2>1. UNCHANGED <<rows, thumbs, left, ops>>
    BY <1>4 DEF DeleteRow, RestoreRow
  <2> QED
    BY <2>1, ThumbFrame
<1>5. ASSUME NEW v \in Videos, EraseRow(v)
      PROVE  ThumbOrder'
  <2>1. rows' = rows \ {v} /\ left' = left \cup ({v} \cap thumbs) /\ UNCHANGED <<thumbs, ops>>
    BY <1>5 DEF EraseRow
  <2> QED
    BY <2>1 DEF ThumbOrder, ThumbHasRow, At
<1>6. CASE Crash
  <2>1. ops' = [c \in Clients |-> Idle] /\ UNCHANGED <<rows, thumbs, left>>
    BY <1>6 DEF Crash
  <2>2. \A c \in Clients : ops'[c].step # "erase"
    BY <2>1 DEF Idle
  <2> QED
    BY <2>1, <2>2, ThumbFrame
<1>7. CASE UNCHANGED vars
  BY <1>7, ThumbFrame DEF vars
<1> QED
  BY <1>2, <1>3, <1>4, <1>5, <1>6, <1>7 DEF Next, Starts

-----------------------------------------------------------------------------
(***************************************************************************)
(* Videos whose names are apart.                                           *)
(***************************************************************************)

\* A video that a request is about is one of the scene.
LEMMA StageVideo ==
  ASSUME OnStage, NEW c \in Clients, ops[c].video \in Videos
  PROVE  ops[c].video \in scene.videos
BY FilesAssumption DEF OnStage, Plays

\* A path is one of at most one video of the scene.
LEMMA OneOwner ==
  ASSUME NamesApart, NEW v \in scene.videos, NEW w \in scene.videos,
         NEW p \in PlacesOf(v) \cap PlacesOf(w)
  PROVE  v = w
BY DEF NamesApart, PlacesOf

\* A video's file renamed to another of its paths: the file is there, and the
\* other videos' files are where they were.
LEMMA MovedOwn ==
  ASSUME NamesApart, OnStage, OneFileEach, FileNames, NEW v \in Videos,
         NEW p \in DOMAIN files, files[p] = v, NEW q \in PlacesOf(v), files' = Moved(p, q)
  PROVE  /\ \A x : files[x] = v /\ x \in DOMAIN files => x = p
         /\ \A x : Holds(x, v)' <=> x = q
         /\ \A w \in Videos \ {v} : \A x : Holds(x, w)' <=> Holds(x, w)
         /\ FileNames'
<1>1. /\ DOMAIN files' = (DOMAIN files \ {p}) \cup {q}
      /\ \A z \in DOMAIN files' : files'[z] = IF z = q THEN v ELSE files[z]
  BY DEF Moved
<1>2. \A x : files[x] = v /\ x \in DOMAIN files => x = p
  BY DEF OneFileEach
<1>3. q \in DOMAIN files => files[q] = v
  BY OneOwner DEF FileNames, OnStage
<1>4. \A x : Holds(x, v)' <=> x = q
  BY <1>1, <1>2 DEF Holds, Exists
<1>5. ASSUME NEW w \in Videos \ {v}, NEW x
      PROVE  Holds(x, w)' <=> Holds(x, w)
  BY <1>1, <1>3 DEF Holds, Exists
<1>6. FileNames'
  BY <1>1 DEF FileNames
<1> QED
  BY <1>2, <1>4, <1>5, <1>6

\* A path of a video removed: its file is gone if it was there, and the other
\* videos' files are where they were.
LEMMA WithoutOwn ==
  ASSUME NamesApart, OnStage, OneFileEach, FileNames, NEW v \in Videos, NEW p \in PlacesOf(v),
         v \in scene.videos, files' = Without(p)
  PROVE  /\ p \in DOMAIN files => Gone(v) ' /\ files[p] = v
         /\ p \notin DOMAIN files => \A x : Holds(x, v)' <=> Holds(x, v)
         /\ \A w \in Videos \ {v} : \A x : Holds(x, w)' <=> Holds(x, w)
         /\ \A w \in Videos : \A x : Holds(x, w)' => Holds(x, w)
         /\ FileNames'
<1>1. /\ DOMAIN files' = DOMAIN files \ {p}
      /\ \A z \in DOMAIN files' : files'[z] = files[z]
  BY DEF Without, Restrict
<1>2. p \in DOMAIN files => files[p] = v
  BY OneOwner DEF FileNames, OnStage
<1>3. p \in DOMAIN files => Gone(v)'
  BY <1>1, <1>2 DEF Gone, OneFileEach
<1>4. \A w \in Videos : \A x : Holds(x, w)' => Holds(x, w)
  BY <1>1 DEF Holds, Exists
<1>5. \A w \in Videos \ {v} : \A x : Holds(x, w)' <=> Holds(x, w)
  BY <1>1, <1>2 DEF Holds, Exists
<1>6. p \notin DOMAIN files => \A x : Holds(x, v)' <=> Holds(x, v)
  BY <1>1 DEF Holds, Exists
<1>7. FileNames'
  BY <1>1 DEF FileNames
<1> QED
  BY <1>2, <1>3, <1>4, <1>5, <1>6, <1>7

\* The file at the path a request knows is its video's.
LEMMA MovesOwn ==
  ASSUME NamesApart, OnStage, TypeOK, OpsOrder, FileNames, NEW c \in Clients, ops[c].step \in MoveSteps
  PROVE  /\ ops[c].video \in Videos
         /\ ops[c].from \in PlacesOf(ops[c].video) /\ ops[c].to \in PlacesOf(ops[c].video)
         /\ Exists(ops[c].from) => files[ops[c].from] = ops[c].video
         /\ Exists(ops[c].to) => files[ops[c].to] = ops[c].video
<1>1. /\ ops[c].video \in Videos
      /\ ops[c].from \in PlacesOf(ops[c].video) /\ ops[c].to \in PlacesOf(ops[c].video)
  BY MoverKnows
<1>2. ASSUME NEW p \in DOMAIN files, p \in PlacesOf(ops[c].video)
      PROVE  files[p] = ops[c].video
  BY <1>1, <1>2, StageVideo, OneOwner DEF FileNames, OnStage
<1> QED
  BY <1>1, <1>2 DEF Exists

\* What becomes of the files of all videos in a step: those of at most one are
\* moved to another of its paths, or removed.
LEMMA OwnFiles ==
  ASSUME NamesApart, OnStage, TypeOK, OpsOrder, OneFileEach, FileNames, [Next]_vars
  PROVE  /\ FileNames'
         /\ \A p \in DOMAIN files : files[p] \notin Range(files')
              => \E c \in Clients : At(c, "unlink") /\ p = ops[c].todo[ops[c].video]
<1>1. CASE files' = files
  BY <1>1 DEF FileNames, Range
<1>2. ASSUME NEW v \in Videos, NEW p \in DOMAIN files, files[p] = v, NEW q \in PlacesOf(v),
             files' = Moved(p, q)
      PROVE  FileNames' /\ \A x \in DOMAIN files : files[x] \in Range(files')
  <2>1. FileNames' /\ \A w \in Videos \ {v} : \A x : Holds(x, w)' <=> Holds(x, w)
    BY <1>2, MovedOwn
  <2>2. \A x : Holds(x, v)' <=> x = q
    BY <1>2, MovedOwn
  <2>3. ASSUME NEW x \in DOMAIN files
        PROVE  files[x] \in Range(files')
    <3>1. files[x] \in Videos
      BY DEF FileNames
    <3>2. CASE files[x] = v
      <4>1. q \in DOMAIN files' /\ files'[q] = v
        BY <2>2 DEF Holds, Exists
      <4> QED
        BY <3>2, <4>1 DEF Range
    <3>3. CASE files[x] # v
      <4>1. Holds(x, files[x])
        BY DEF Holds, Exists
      <4>2. x \in DOMAIN files' /\ files'[x] = files[x]
        BY <2>1, <3>1, <3>3, <4>1 DEF Holds, Exists
      <4> QED
        BY <4>2 DEF Range
    <3> QED
      BY <3>2, <3>3
  <2> QED
    BY <2>1, <2>3
<1>3. ASSUME NEW c \in Clients, MoveFile(c), Exists(ops[c].from),
             files' = Moved(ops[c].from, ops[c].to)
      PROVE  FileNames' /\ \A x \in DOMAIN files : files[x] \in Range(files')
  <2>1. ops[c].step \in MoveSteps
    BY <1>3 DEF MoveFile, At, MoveSteps
  <2> QED
    BY <1>2, <1>3, <2>1, MovesOwn DEF Exists
<1>4. ASSUME NEW c \in Clients, Rollback(c), Exists(ops[c].to),
             files' = Moved(ops[c].to, ops[c].from)
      PROVE  FileNames' /\ \A x \in DOMAIN files : files[x] \in Range(files')
  <2>1. ops[c].step \in MoveSteps
    BY <1>4 DEF Rollback, At, MoveSteps
  <2> QED
    BY <1>2, <1>4, <2>1, MovesOwn DEF Exists
<1>5. ASSUME NEW c \in Clients, Unlink(c), files' = Without(ops[c].todo[ops[c].video])
      PROVE  /\ FileNames'
             /\ \A p \in DOMAIN files : files[p] \notin Range(files')
                  => At(c, "unlink") /\ p = ops[c].todo[ops[c].video]
  <2>1. At(c, "unlink") /\ ops[c].step \in {"unlink"} \cup EraseSteps
    BY <1>5 DEF Unlink, At
  <2>2. ops[c].video \in Videos /\ ops[c].todo[ops[c].video] \in PlacesOf(ops[c].video)
    BY <2>1, EraserKnows
  <2>3. FileNames'
    BY <1>5, <2>2, StageVideo, WithoutOwn
  <2>4. /\ DOMAIN files' = DOMAIN files \ {ops[c].todo[ops[c].video]}
        /\ \A x \in DOMAIN files' : files'[x] = files[x]
    BY <1>5 DEF Without, Restrict
  <2>5. ASSUME NEW p \in DOMAIN files, files[p] \notin Range(files')
        PROVE  p = ops[c].todo[ops[c].video]
    BY <2>4, <2>5 DEF Range
  <2> QED
    BY <2>1, <2>3, <2>5
<1> QED
  BY <1>1, <1>3, <1>4, <1>5, FilesStep

-----------------------------------------------------------------------------
(***************************************************************************)
(* Repairs of the library.                                                 *)
(***************************************************************************)

\* A step that at most moves the file or the path of v, and says so to who has
\* marked v or may have seen one of them.
LEMMA RepairFrame ==
  ASSUME TypeOK, RepairOrder, NEW v \in Videos,
         rows' \subseteq rows, missing' \subseteq missing, stirred \subseteq stirred',
         rows \subseteq Videos,
         \A c \in Clients : ops'[c].kind = "repair" =>
           \/ ops'[c] = ops[c]
           \/ ops'[c].rest = {} /\ \A w \in DOMAIN ops'[c].todo : ops'[c].todo[w] = path'[w],
         \A w \in Videos \ {v} : path'[w] = path[w] /\ (Holds(path[w], w)' => Holds(path[w], w)),
         \/ v \in stirred'
         \/ v \notin missing /\ \A c \in Clients : ops[c].kind # "repair"
         \/ path'[v] = path[v] /\ (Holds(path[v], v)' => Holds(path[v], v)),
         \A c \in Clients : ops[c].kind = "repair" => DOMAIN ops[c].todo \subseteq Videos
  PROVE  RepairOrder'
<1>1. Lost'
  BY DEF RepairOrder, Lost
<1>2. ASSUME NEW c \in Clients, ops'[c].kind = "repair"
      PROVE  /\ \A w \in ops'[c].rest \cap rows' : Holds(path[w], w)' => w \in stirred'
             /\ \A w \in DOMAIN ops'[c].todo : ops'[c].todo[w] = path'[w] \/ w \in stirred'
  <2>1. CASE ops'[c] = ops[c]
    <3>1. /\ \A w \in ops[c].rest \cap rows : Holds(path[w], w) => w \in stirred
          /\ \A w \in DOMAIN ops[c].todo : ops[c].todo[w] = path[w] \/ w \in stirred
      BY <1>2, <2>1 DEF RepairOrder
    <3>2. v \in stirred' \/ (path'[v] = path[v] /\ (Holds(path[v], v)' => Holds(path[v], v)))
      BY <1>2, <2>1
    <3>3. \A w \in ops'[c].rest \cap rows' : Holds(path[w], w)' => w \in stirred'
      BY <2>1, <3>1, <3>2
    <3>4. ASSUME NEW w \in DOMAIN ops'[c].todo
          PROVE  ops'[c].todo[w] = path'[w] \/ w \in stirred'
      <4>1. w \in Videos
        BY <1>2, <2>1
      <4> QED
        BY <2>1, <3>1, <3>2, <4>1
    <3> QED
      BY <3>3, <3>4
  <2>2. CASE ops'[c].rest = {} /\ \A w \in DOMAIN ops'[c].todo : ops'[c].todo[w] = path'[w]
    BY <2>2
  <2> QED
    BY <1>2, <2>1, <2>2
<1> QED
  BY <1>1, <1>2 DEF RepairOrder

\* The videos a repair has still to look at are videos.
LEMMA RepairLists ==
  ASSUME TypeOK
  PROVE  \A c \in Clients : DOMAIN ops[c].todo \subseteq Videos
<1> TAKE c \in Clients
<1>1. ops[c] \in Op
  BY DEF TypeOK
<1>2. ops[c].todo \in Lists
  BY <1>1, OpFields
<1> QED
  BY <1>2, ListRest

\* What Scan() makes of a repair.
LEMMA ScanOps ==
  ASSUME TypeOK, OpsOrder, NEW c \in Clients, Scan(c)
  PROVE  ops'[c].kind = "repair" =>
           /\ \A w \in DOMAIN ops'[c].todo : /\ w \in DOMAIN ops[c].todo
                                             /\ ops'[c].todo[w] = ops[c].todo[w]
           /\ \A w \in ops'[c].rest : \/ w \in ops[c].rest
                                      \/ w \in DOMAIN ops[c].todo /\ ~Exists(ops[c].todo[w])
<1> DEFINE op == ops[c]
<1>1. op \in Op
  BY DEF TypeOK
<1>2. op.todo \in Lists /\ op.rest \in SUBSET Videos
  BY <1>1, OpFields
<1>3. PICK v \in DOMAIN op.todo :
        LET todo == Restrict(op.todo, DOMAIN op.todo \ {v})
            lost == op.rest \cup (IF Absent(v, op.todo[v]) THEN {v} ELSE {})
        IN ops' = [ops EXCEPT ![c] = IF DOMAIN todo # {} THEN [@ EXCEPT !.todo = todo, !.rest = lost]
                                     ELSE IF lost = {} THEN Idle
                                     ELSE [@ EXCEPT !.step = "status", !.todo = << >>, !.rest = lost]]
  BY DEF Scan
<1> DEFINE todo == Restrict(op.todo, DOMAIN op.todo \ {v})
           lost == op.rest \cup (IF Absent(v, op.todo[v]) THEN {v} ELSE {})
           more == [op EXCEPT !.todo = todo, !.rest = lost]
           last == [op EXCEPT !.step = "status", !.todo = << >>, !.rest = lost]
<1>4. \/ ops' = [ops EXCEPT ![c] = more]
      \/ ops' = [ops EXCEPT ![c] = Idle]
      \/ ops' = [ops EXCEPT ![c] = last]
  BY <1>3
<1>5. Idle.kind # "repair"
  BY DEF Idle
<1>6. /\ \A w \in DOMAIN todo : w \in DOMAIN op.todo /\ todo[w] = op.todo[w]
      /\ \A w \in lost : w \in op.rest \/ (w \in DOMAIN op.todo /\ ~Exists(op.todo[w]))
  <2>1. \A w \in lost : w \in op.rest \/ (w \in DOMAIN op.todo /\ ~Exists(op.todo[w]))
    BY DEF Absent
  <2>2. DOMAIN todo = DOMAIN op.todo \ {v} /\ \A w \in DOMAIN todo : todo[w] = op.todo[w]
    <3> HIDE DEF op
    <3> QED
      BY <1>2 DEF Restrict
  <2> QED
    BY <2>1, <2>2
<1>7. more.todo = todo /\ more.rest = lost
  <2> HIDE DEF op, todo, lost
  <2> QED
    BY <1>1 DEF Op
<1>8. last.todo = << >> /\ last.rest = lost
  <2> HIDE DEF op, lost
  <2> QED
    BY <1>1 DEF Op
<1>9. c \in DOMAIN ops
  BY DEF TypeOK
<1>10. ops'[c] = more \/ ops'[c] = Idle \/ ops'[c] = last
  BY <1>4, <1>9
<1>11. DOMAIN << >> = {}
  OBVIOUS
<1> HIDE DEF more, last, todo, lost
<1> QED
  BY <1>5, <1>6, <1>7, <1>8, <1>10, <1>11

\* What MarkMissing() makes of a repair, and of whom it marks.
LEMMA MarkOps ==
  ASSUME TypeOK, OpsOrder, NEW c \in Clients, MarkMissing(c)
  PROVE  /\ missing' \subseteq missing \cup ops[c].rest
         /\ ops'[c].kind = "repair" =>
              ops'[c].todo = ops[c].todo /\ ops'[c].rest \subseteq ops[c].rest
<1> DEFINE op == ops[c]
<1>1. op \in Op
  BY DEF TypeOK
<1>2. PICK v \in op.rest :
        /\ missing' = missing \cup ({v} \cap (rows \ deleted)) \/ missing' = missing
        /\ ops' = [ops EXCEPT ![c] = IF op.rest \ {v} = {} THEN Idle
                                     ELSE [@ EXCEPT !.rest = op.rest \ {v}]]
  BY DEF MarkMissing
<1> DEFINE more == [op EXCEPT !.rest = op.rest \ {v}]
<1>3. \/ ops' = [ops EXCEPT ![c] = more]
      \/ ops' = [ops EXCEPT ![c] = Idle]
  BY <1>2
<1>4. Idle.kind # "repair"
  BY DEF Idle
<1>5. more.todo = op.todo /\ more.rest \subseteq op.rest
  <2> HIDE DEF op
  <2> QED
    BY <1>1 DEF Op
<1>6. c \in DOMAIN ops
  BY DEF TypeOK
<1>7. ops'[c] = more \/ ops'[c] = Idle
  BY <1>3, <1>6
<1>8. missing' \subseteq missing \cup op.rest
  BY <1>2
<1> HIDE DEF more
<1> QED
  BY <1>4, <1>5, <1>7, <1>8

\* One request has done something and nothing moved.
LEMMA RepairQuiet ==
  ASSUME TypeOK, RepairOrder, NEW c \in Clients, Turn(c),
         \/ ops'[c].kind # "repair"
         \/ ops'[c].rest = {} /\ \A w \in DOMAIN ops'[c].todo : ops'[c].todo[w] = path'[w],
         rows' \subseteq rows, missing' \subseteq missing, stirred \subseteq stirred',
         path' = path, \A w \in Videos : Holds(path[w], w)' => Holds(path[w], w)
  PROVE  RepairOrder'
<1>1. \A d \in Clients : DOMAIN ops[d].todo \subseteq Videos
  BY RepairLists
<1>2. rows \subseteq Videos
  BY DEF TypeOK
<1>3. \A d \in Clients : ops'[d].kind = "repair" =>
           \/ ops'[d] = ops[d]
           \/ ops'[d].rest = {} /\ \A w \in DOMAIN ops'[d].todo : ops'[d].todo[w] = path'[w]
  BY DEF Turn
<1>4. CASE Videos = {}
  BY <1>1, <1>2, <1>3, <1>4 DEF RepairOrder, Lost
<1>5. CASE Videos # {}
  <2>1. PICK v \in Videos : TRUE
    BY <1>5
  <2> QED
    BY <1>1, <1>2, <1>3, <2>1, RepairFrame
<1> QED
  BY <1>4, <1>5

\* One request has moved the file or the path of its video, and says so.
LEMMA RepairStirs ==
  ASSUME TypeOK, RepairOrder, NEW c \in Clients, Turn(c), ops'[c].kind # "repair",
         NEW v \in Videos, Stirs(v), rows' = rows, missing' = missing,
         \A w \in Videos \ {v} : path'[w] = path[w] /\ (Holds(path[w], w)' => Holds(path[w], w))
  PROVE  RepairOrder'
<1>1. \A d \in Clients : DOMAIN ops[d].todo \subseteq Videos
  BY RepairLists
<1>2. rows \subseteq Videos
  BY DEF TypeOK
<1>3. \A d \in Clients : ops'[d].kind = "repair" =>
           \/ ops'[d] = ops[d]
           \/ ops'[d].rest = {} /\ \A w \in DOMAIN ops'[d].todo : ops'[d].todo[w] = path'[w]
  BY DEF Turn
<1>4. /\ v \in stirred' \/ (v \notin missing /\ \A d \in Clients : ops[d].kind # "repair")
      /\ stirred \subseteq stirred'
  BY DEF Stirs
<1> QED
  BY <1>1, <1>2, <1>3, <1>4, RepairFrame

\* Holds() depends on the files only.
LEMMA HoldsSame ==
  ASSUME files' = files, path' = path
  PROVE  /\ \A w \in Videos : \A x : Holds(x, w)' <=> Holds(x, w)
         /\ \A w \in Videos : Holds(path[w], w)' <=> Holds(path[w], w)
BY DEF Holds, Exists

\* A repair marks no video that is where its row says, unless it was moved.
LEMMA RepairStep ==
  ASSUME NamesApart, OnStage, TypeOK, OpsOrder, OneFileEach, FileNames, RepairOrder, [Next]_vars
  PROVE  RepairOrder'
<1> USE DEF table, derived, history
<1>1. ASSUME NEW c \in Clients, Turn(c), ops'[c].kind # "repair", rows' \subseteq rows,
             UNCHANGED <<path, files, missing, stirred>>
      PROVE  RepairOrder'
  <2>1. \A w \in Videos : Holds(path[w], w)' => Holds(path[w], w)
    BY <1>1, HoldsSame
  <2>2. missing' \subseteq missing /\ stirred \subseteq stirred'
    BY <1>1
  <2> QED
    BY <1>1, <2>1, <2>2, RepairQuiet
<1>2. ASSUME NEW c \in Clients, Starts(c)
      PROVE  RepairOrder'
  <2>1. /\ Turn(c) /\ Starting(ops'[c]) /\ UNCHANGED <<rows, path, files, missing, stirred>>
    BY <1>2, StartTurn
  <2>2. \/ ops'[c].kind # "repair"
        \/ ops'[c].rest = {} /\ \A w \in DOMAIN ops'[c].todo : ops'[c].todo[w] = path'[w]
    BY <2>1 DEF Starting
  <2>3. \A w \in Videos : Holds(path[w], w)' => Holds(path[w], w)
    BY <2>1, HoldsSame
  <2>4. missing' \subseteq missing /\ stirred \subseteq stirred' /\ rows' \subseteq rows
    BY <2>1
  <2> QED
    BY <2>1, <2>2, <2>3, <2>4, RepairQuiet
<1>3. ASSUME NEW c \in Clients, Step(c)
      PROVE  RepairOrder'
  <2>1. CASE LookInCache(c) \/ Probe(c) \/ Fetch(c) \/ Frame(c) \/ WriteThumb(c)
    <3>1. Turn(c) /\ ops'[c].kind # "repair"
      BY <2>1, ThumbnailTurn
    <3>2. rows' \subseteq rows /\ UNCHANGED <<path, files, missing, stirred>>
      BY <2>1 DEF LookInCache, Probe, Fetch, Frame, WriteThumb
    <3> QED
      BY <1>1, <3>1, <3>2
  <2>2. CASE Scan(c)
    <3>1. Turn(c) /\ ops[c].kind = "repair"
      BY <2>2, RepairTurn
    <3>2. UNCHANGED <<rows, path, files, missing, stirred>>
      BY <2>2 DEF Scan
    <3>3. Lost'
      BY <3>2, HoldsSame DEF RepairOrder, Lost, Holds, Exists
    <3>4. ASSUME NEW d \in Clients, ops'[d].kind = "repair"
          PROVE  /\ \A w \in ops'[d].rest \cap rows' : Holds(path[w], w)' => w \in stirred'
                 /\ \A w \in DOMAIN ops'[d].todo : ops'[d].todo[w] = path'[w] \/ w \in stirred'
      <4>1. \A w : Holds(path[w], w)' <=> Holds(path[w], w)
        BY <3>2 DEF Holds, Exists
      <4>2. CASE d # c
        <5>1. ops'[d] = ops[d]
          BY <3>1, <4>2 DEF Turn
        <5> QED
          BY <3>2, <3>4, <4>1, <5>1 DEF RepairOrder
      <4>3. CASE d = c
        <5>1. /\ \A w \in DOMAIN ops'[c].todo : /\ w \in DOMAIN ops[c].todo
                                                /\ ops'[c].todo[w] = ops[c].todo[w]
              /\ \A w \in ops'[c].rest : \/ w \in ops[c].rest
                                         \/ w \in DOMAIN ops[c].todo /\ ~Exists(ops[c].todo[w])
          BY <2>2, <3>4, <4>3, ScanOps
        <5>2. /\ \A w \in ops[c].rest \cap rows : Holds(path[w], w) => w \in stirred
              /\ \A w \in DOMAIN ops[c].todo : ops[c].todo[w] = path[w] \/ w \in stirred
          BY <3>1 DEF RepairOrder
        <5>3. \A w \in ops'[c].rest \cap rows' : Holds(path[w], w) => w \in stirred
          BY <3>2, <5>1, <5>2 DEF Holds
        <5> QED
          BY <3>2, <4>1, <4>3, <5>1, <5>2, <5>3
      <4> QED
        BY <4>2, <4>3
    <3> QED
      BY <3>3, <3>4 DEF RepairOrder
  <2>3. CASE MarkMissing(c)
    <3>1. Turn(c) /\ ops[c].kind = "repair"
      BY <2>3, RepairTurn
    <3>2. UNCHANGED <<rows, path, files, stirred>>
      BY <2>3 DEF MarkMissing
    <3>3. /\ missing' \subseteq missing \cup ops[c].rest
          /\ ops'[c].kind = "repair" =>
               ops'[c].todo = ops[c].todo /\ ops'[c].rest \subseteq ops[c].rest
      BY <2>3, MarkOps
    <3>4. \A w : Holds(path[w], w)' <=> Holds(path[w], w)
      BY <3>2 DEF Holds, Exists
    <3>5. /\ \A w \in ops[c].rest \cap rows : Holds(path[w], w) => w \in stirred
          /\ \A w \in DOMAIN ops[c].todo : ops[c].todo[w] = path[w] \/ w \in stirred
      BY <3>1 DEF RepairOrder
    <3>6. \A w \in missing \cap rows : Holds(path[w], w) => w \in stirred
      BY DEF RepairOrder, Lost
    <3>7. Lost'
      BY <3>2, <3>3, <3>4, <3>5, <3>6 DEF Lost
    <3>8. ASSUME NEW d \in Clients, ops'[d].kind = "repair"
          PROVE  /\ \A w \in ops'[d].rest \cap rows' : Holds(path[w], w)' => w \in stirred'
                 /\ \A w \in DOMAIN ops'[d].todo : ops'[d].todo[w] = path'[w] \/ w \in stirred'
      <4>1. CASE d # c
        <5>1. ops'[d] = ops[d]
          BY <3>1, <4>1 DEF Turn
        <5> QED
          BY <3>2, <3>8, <3>4, <5>1 DEF RepairOrder
      <4>2. CASE d = c
        BY <3>2, <3>3, <3>4, <3>5, <3>8, <4>2
      <4> QED
        BY <4>1, <4>2
    <3> QED
      BY <3>7, <3>8 DEF RepairOrder
  <2>4. CASE Look(c)
    <3>1. Turn(c) /\ ops'[c].kind # "repair"
      BY <2>4, LookTurn
    <3>2. rows' \subseteq rows /\ UNCHANGED <<path, files, missing, stirred>>
      BY <2>4 DEF Look
    <3> QED
      BY <1>1, <3>1, <3>2
  <2>5. CASE Check(c)
    <3>1. Turn(c) /\ ops'[c].kind # "repair"
      BY <2>5, CheckTurn
    <3>2. rows' \subseteq rows /\ UNCHANGED <<path, files, missing, stirred>>
      BY <2>5 DEF Check
    <3> QED
      BY <1>1, <3>1, <3>2
  <2>6. CASE MoveFile(c) \/ Verify(c) \/ Record(c) \/ Mark(c) \/ Rollback(c)
    <3>1. ops[c].step \in MoveSteps
      BY <2>6 DEF MoveFile, Verify, Record, Mark, Rollback, At, MoveSteps
    <3>2. Done(c) \/ \E s \in MoveSteps : Goto(c, s)
      BY <2>6 DEF MoveFile, Verify, Record, NotRecorded, Mark, Rollback, MoveSteps
    <3>3. ops[c].kind \in MoveKinds
      BY <3>1, MoverKnows
    <3>4. Turn(c) /\ ops'[c].kind # "repair"
      BY <3>1, <3>2, <3>3, HelpersTurn, MoveTurn DEF MoveKinds
    <3>5. rows' = rows /\ missing' = missing
      BY <2>6 DEF MoveFile, Verify, Record, Mark, Rollback
    <3>6. CASE UNCHANGED <<path, files, missing, stirred>>
      BY <1>1, <3>4, <3>5, <3>6
    <3> DEFINE v == ops[c].video
    <3>7. v \in Videos /\ ops[c].from \in PlacesOf(v) /\ ops[c].to \in PlacesOf(v)
      BY <3>1, MovesOwn
    <3>8. ASSUME NEW p \in DOMAIN files, files[p] = v, NEW q \in PlacesOf(v), files' = Moved(p, q),
                 Stirs(v), path' = path
          PROVE  RepairOrder'
      <4>1. \A w \in Videos \ {v} : \A x : Holds(x, w)' <=> Holds(x, w)
        BY <3>7, <3>8, MovedOwn
      <4>2. \A w \in Videos \ {v} : path'[w] = path[w] /\ (Holds(path[w], w)' => Holds(path[w], w))
        BY <3>8, <4>1 DEF Holds, Exists
      <4> QED
        BY <3>4, <3>5, <3>7, <3>8, <4>2, RepairStirs
    <3>9. CASE MoveFile(c) /\ ~UNCHANGED <<path, files, missing, stirred>>
      <4>1. /\ Exists(ops[c].from) /\ files' = Moved(ops[c].from, ops[c].to) /\ Stirs(v)
            /\ path' = path
        BY <3>9 DEF MoveFile
      <4> QED
        BY <3>1, <3>7, <3>8, <4>1, MovesOwn DEF Exists
    <3>10. CASE Record(c) /\ ~UNCHANGED <<path, files, missing, stirred>>
      <4>1. Stirs(v) /\ files' = files /\ path' = [path EXCEPT ![v] = ops[c].to]
        BY <3>10 DEF Record
      <4>2. \A w \in Videos \ {v} : path'[w] = path[w]
        BY <4>1 DEF TypeOK
      <4>3. \A w \in Videos \ {v} : path'[w] = path[w] /\ (Holds(path[w], w)' => Holds(path[w], w))
        BY <4>1, <4>2 DEF Holds, Exists
      <4> QED
        BY <3>4, <3>5, <3>7, <4>1, <4>3, RepairStirs
    <3>11. CASE Rollback(c) /\ ~UNCHANGED <<path, files, missing, stirred>>
      <4>1. Stirs(v) /\ path' = path
        BY <3>11 DEF Rollback
      <4>2. CASE Exists(ops[c].to)
        <5>1. files' = Moved(ops[c].to, ops[c].from)
          BY <3>11, <4>2 DEF Rollback
        <5> QED
          BY <3>1, <3>7, <3>8, <4>1, <4>2, <5>1, MovesOwn DEF Exists
      <4>3. CASE ~Exists(ops[c].to)
        <5>1. files' = files
          BY <3>11, <4>3 DEF Rollback
        <5>2. \A w \in Videos \ {v} : path'[w] = path[w] /\ (Holds(path[w], w)' => Holds(path[w], w))
          BY <4>1, <5>1 DEF Holds, Exists
        <5> QED
          BY <3>4, <3>5, <3>7, <4>1, <5>2, RepairStirs
      <4> QED
        BY <4>2, <4>3
    <3>12. CASE Verify(c) \/ Mark(c)
      <4>1. UNCHANGED <<path, files, missing, stirred>>
        BY <3>12 DEF Verify, Mark
      <4> QED
        BY <3>6, <4>1
    <3> QED
      BY <2>6, <3>6, <3>9, <3>10, <3>11, <3>12
  <2>7. CASE Unlink(c)
    <3>1. ops[c].step = "unlink" /\ (Goto(c, "thumb") \/ NextVideo(c))
      BY <2>7 DEF Unlink, At
    <3>2. Turn(c) /\ ops'[c].kind # "repair"
      BY <3>1, EraseTurn, HelpersTurn DEF EraseSteps
    <3>3. UNCHANGED <<rows, path, missing, stirred>> /\ files' = Without(ops[c].todo[ops[c].video])
      BY <2>7 DEF Unlink
    <3>4. /\ DOMAIN files' \subseteq DOMAIN files
          /\ \A x \in DOMAIN files' : files'[x] = files[x]
      BY <3>3 DEF Without, Restrict
    <3>5. \A w \in Videos : Holds(path[w], w)' => Holds(path[w], w)
      BY <3>3, <3>4 DEF Holds, Exists
    <3>6. missing' \subseteq missing /\ stirred \subseteq stirred' /\ rows' \subseteq rows
      BY <3>3
    <3> QED
      BY <3>2, <3>3, <3>5, <3>6, RepairQuiet
  <2>8. CASE SeeThumb(c) \/ DropThumb(c) \/ Erase(c)
    <3>1. /\ ops[c].step \in EraseSteps
          /\ Goto(c, "unthumb") \/ Goto(c, "erase") \/ NextVideo(c)
      BY <2>8 DEF SeeThumb, DropThumb, Erase, At, EraseSteps
    <3>2. Turn(c) /\ ops'[c].kind # "repair"
      BY <3>1, EraseTurn, HelpersTurn DEF EraseSteps
    <3>3. rows' \subseteq rows /\ UNCHANGED <<path, files, missing, stirred>>
      BY <2>8 DEF SeeThumb, DropThumb, Erase
    <3> QED
      BY <1>1, <3>2, <3>3
  <2>9. CASE Pick(c)
    BY <1>2, <2>9 DEF Starts
  <2>10. CASE DatabaseError(c)
    <3>1. /\ ops[c].step \in {"record", "mark", "erase"}
          /\ rows' \subseteq rows /\ UNCHANGED <<path, files, missing, stirred>>
      BY <2>10 DEF DatabaseError
    <3>2. Turn(c) /\ ops'[c].kind # "repair"
      <4>1. CASE ops[c].step # "erase"
        <5>1. ops[c].step \in MoveSteps /\ (Done(c) \/ Goto(c, "rollback")) /\ "rollback" \in MoveSteps
          BY <2>10, <3>1, <4>1 DEF DatabaseError, NotRecorded, At, MoveSteps
        <5>2. ops[c].kind # "repair"
          BY <5>1, MoverKnows DEF MoveKinds
        <5> QED
          BY <5>1, <5>2, MoveTurn, HelpersTurn
      <4>2. CASE ops[c].step = "erase"
        <5>1. ops[c].step \in EraseSteps /\ NextVideo(c)
          BY <2>10, <4>2 DEF DatabaseError, At, EraseSteps
        <5> QED
          BY <5>1, HelpersTurn
      <4> QED
        BY <4>1, <4>2
    <3> QED
      BY <1>1, <3>1, <3>2
  <2> QED
    BY <1>3, <2>1, <2>2, <2>3, <2>4, <2>5, <2>6, <2>7, <2>8, <2>9, <2>10 DEF Step
<1>4. ASSUME ops' = ops \/ \A c \in Clients : ops'[c].kind # "repair", rows' \subseteq rows,
             UNCHANGED <<path, files, missing, stirred>>
      PROVE  RepairOrder'
  <2>1. \A w : Holds(path[w], w)' <=> Holds(path[w], w)
    BY <1>4 DEF Holds, Exists
  <2> QED
    BY <1>4, <2>1 DEF RepairOrder, Lost
<1>5. ASSUME NEW v \in Videos, DeleteRow(v) \/ RestoreRow(v) \/ EraseRow(v)
      PROVE  RepairOrder'
  <2>1. rows' \subseteq rows /\ UNCHANGED <<path, files, missing, stirred, ops>>
    BY <1>5 DEF DeleteRow, RestoreRow, EraseRow
  <2> QED
    BY <1>4, <2>1
<1>6. CASE Crash
  <2>1. ops' = [c \in Clients |-> Idle] /\ UNCHANGED <<rows, path, files, missing, stirred>>
    BY <1>6 DEF Crash
  <2>2. \A c \in Clients : ops'[c].kind # "repair"
    BY <2>1 DEF Idle
  <2> QED
    BY <1>4, <2>1, <2>2
<1>7. CASE UNCHANGED vars
  BY <1>4, <1>7 DEF vars
<1> QED
  BY <1>2, <1>3, <1>5, <1>6, <1>7 DEF Next, Starts

-----------------------------------------------------------------------------
(***************************************************************************)
(* The file of one video.                                                  *)
(***************************************************************************)

\* A request that moves no file is not in the way of a video's.
LEMMA ApartFromFile ==
  ASSUME NEW op, WellFormed(op), Apart(op)
  PROVE  /\ op.kind \notin MoveKinds
         /\ op.step \notin {"verify", "record", "rollback"} /\ op.step \notin EraseSteps
BY DEF Apart, WellFormed, MoveKinds, MoveSteps, EraseSteps, Sources

\* A video whose file and path stay: it is still followed when the request that
\* has done something carries and erases it as before, and moves it as before
\* or from where its row says and to where no other request expects it.
LEMMA FollowFrame ==
  ASSUME NEW v \in Videos, Followed(v), NEW c \in Clients, Turn(c),
         path'[v] = path[v], \A x : Holds(x, v)' <=> Holds(x, v),
         Carrier(c, v)' => ops'[c].to = ops[c].to /\ ops'[c].from = ops[c].from,
         Carrier(c, v)' <=> Carrier(c, v),
         Eraser(c, v) => Eraser(c, v)',
         Mover(c, v)' =>
           \/ Mover(c, v) /\ ops'[c].to = ops[c].to /\ ops'[c].from = ops[c].from
           \/ /\ ops'[c].from = path[v]
              /\ \A d \in Clients \ {c} : Mover(d, v) =>
                   ops'[c].to # ops[d].from /\ ops[d].to # ops'[c].from
  PROVE  Followed(v)'
<1>1. \A d \in Clients \ {c} : ops'[d] = ops[d]
  BY DEF Turn
<1>2. Gone(v) <=> \A x : ~Holds(x, v)
  BY DEF Gone, Holds, Exists
<1>3. Gone(v)' <=> \A x : ~(Holds(x, v)')
  BY DEF Gone, Holds, Exists
<1>4. Gone(v)' <=> Gone(v)
  BY <1>2, <1>3
<1>5. \A d \in Clients : Carrier(d, v)' <=> Carrier(d, v)
  BY <1>1 DEF Carrier
<1>6. \A d \in Clients : Carrier(d, v)' => ops'[d].to = ops[d].to /\ ops'[d].from = ops[d].from
  BY <1>1
<1>7. (Gone(v) \/ Holds(path[v], v) \/ \E d \in Clients : Carrier(d, v) /\ Holds(ops[d].to, v))'
  <2>1. Gone(v) \/ Holds(path[v], v) \/ \E d \in Clients : Carrier(d, v) /\ Holds(ops[d].to, v)
    BY DEF Followed
  <2>2. CASE Holds(path[v], v)
    <3>1. Holds(path[v], v)'
      BY <2>2 DEF Holds, Exists
    <3> QED
      BY <3>1
  <2>3. ASSUME NEW d \in Clients, Carrier(d, v), Holds(ops[d].to, v)
        PROVE  (\E e \in Clients : Carrier(e, v) /\ Holds(ops[e].to, v))'
    <3>1. Carrier(d, v)' /\ ops'[d].to = ops[d].to
      BY <1>5, <1>6, <2>3
    <3>2. Holds(ops[d].to, v)'
      BY <2>3, <3>1 DEF Holds, Exists
    <3> QED
      BY <3>1, <3>2
  <2> QED
    BY <1>4, <2>1, <2>2, <2>3
<1>8. (Gone(v) => \E d \in Clients : Eraser(d, v))'
  <2>1. \A d \in Clients : Eraser(d, v) => Eraser(d, v)'
    BY <1>1 DEF Eraser
  <2>2. Gone(v) => \E d \in Clients : Eraser(d, v)
    BY DEF Followed
  <2> QED
    BY <1>4, <2>1, <2>2
<1>9. ASSUME NEW d \in Clients, Carrier(d, v)'
      PROVE  (Holds(ops[d].to, v) \/ Gone(v))' /\ path'[v] = ops'[d].from
  <2>1. Carrier(d, v) /\ ops'[d].to = ops[d].to /\ ops'[d].from = ops[d].from
    BY <1>5, <1>6, <1>9
  <2>2. (Holds(ops[d].to, v) \/ Gone(v)) /\ path[v] = ops[d].from
    BY <2>1 DEF Followed
  <2>3. CASE Holds(ops[d].to, v)
    <3>1. Holds(ops[d].to, v)'
      BY <2>1, <2>3 DEF Holds, Exists
    <3> QED
      BY <2>1, <2>2, <3>1
  <2> QED
    BY <1>4, <2>1, <2>2, <2>3
<1>10. (\A d, e \in Clients : Carrier(d, v) /\ Carrier(e, v) => d = e)'
  <2>1. \A d, e \in Clients : Carrier(d, v) /\ Carrier(e, v) => d = e
    BY DEF Followed
  <2> QED
    BY <1>5, <2>1
<1>11. \A d \in Clients \ {c} : Mover(d, v)' <=> Mover(d, v)
  BY <1>1 DEF Mover
<1>12. ASSUME NEW d \in Clients, NEW e \in Clients, Mover(d, v)', Mover(e, v)', d # e
       PROVE  ops'[d].to # ops'[e].from
  <2>1. \A a, b \in Clients : Mover(a, v) /\ Mover(b, v) /\ a # b => ops[a].to # ops[b].from
    BY DEF Followed
  <2>2. CASE d # c /\ e # c
    BY <1>1, <1>11, <1>12, <2>1, <2>2
  <2>3. CASE d = c
    BY <1>1, <1>11, <1>12, <2>1, <2>3
  <2>4. CASE e = c
    BY <1>1, <1>11, <1>12, <2>1, <2>4
  <2> QED
    BY <2>2, <2>3, <2>4
<1>13. ASSUME NEW d \in Clients, Mover(d, v)', Holds(ops[d].from, v)'
       PROVE  path'[v] = ops'[d].from
  <2>1. Mover(d, v) /\ Holds(ops[d].from, v) => path[v] = ops[d].from
    BY DEF Followed
  <2>2. ops'[d].from \in DOMAIN files' /\ files'[ops'[d].from] = v
    BY <1>13 DEF Holds, Exists
  <2>3. Holds(ops'[d].from, v)
    BY <2>2 DEF Holds, Exists
  <2>4. CASE d # c
    BY <1>1, <1>11, <1>13, <2>1, <2>3, <2>4
  <2>5. CASE d = c
    BY <1>13, <2>1, <2>3, <2>5
  <2> QED
    BY <2>4, <2>5
<1> QED
  BY <1>7, <1>8, <1>9, <1>10, <1>12, <1>13 DEF Followed

\* A request that from now on moves no file was not in the middle of anything.
LEMMA FollowApart ==
  ASSUME NEW v \in Videos, Followed(v), NEW c \in Clients, Turn(c), Apart(ops'[c]),
         path'[v] = path[v], \A x : Holds(x, v)' <=> Holds(x, v),
         ~Carrier(c, v), ~Eraser(c, v)
  PROVE  Followed(v)'
<1>1. WellFormed(ops'[c])
  BY DEF Turn, OpsFine
<1>2. /\ ops'[c].kind \notin MoveKinds
      /\ ops'[c].step \notin {"verify", "record", "rollback"}
  BY <1>1, ApartFromFile
<1>3. ~(Carrier(c, v)') /\ ~(Mover(c, v)')
  BY <1>2 DEF Carrier, Mover
<1> QED
  BY <1>3, FollowFrame

\* A request goes on with the same move and is halfway when it was.
LEMMA FollowMove ==
  ASSUME NEW v \in Videos, Followed(v), NEW c \in Clients, Turn(c),
         ops'[c].kind = ops[c].kind, ops'[c].video = ops[c].video,
         ops'[c].from = ops[c].from, ops'[c].to = ops[c].to,
         ops[c].step \in MoveSteps,
         ops'[c].step \in {"verify", "record", "rollback"}
           <=> ops[c].step \in {"verify", "record", "rollback"},
         path'[v] = path[v], \A x : Holds(x, v)' <=> Holds(x, v)
  PROVE  Followed(v)'
<1>1. Carrier(c, v)' <=> Carrier(c, v)
  BY DEF Carrier
<1>2. Mover(c, v)' => Mover(c, v)
  BY DEF Mover
<1>3. ~Eraser(c, v)
  BY DEF Eraser, MoveSteps, EraseSteps
<1> QED
  BY <1>1, <1>2, <1>3, FollowFrame

\* What a request does with its video leaves the others followed.
LEMMA FollowOthers ==
  ASSUME NEW v \in Videos, Followed(v), NEW c \in Clients, Turn(c),
         ops[c].video # v, ops'[c].video # v \/ Apart(ops'[c]),
         path'[v] = path[v], \A x : Holds(x, v)' <=> Holds(x, v)
  PROVE  Followed(v)'
<1>1. ~Carrier(c, v) /\ ~Eraser(c, v)
  BY DEF Carrier, Eraser
<1>2. CASE Apart(ops'[c])
  BY <1>1, <1>2, FollowApart
<1>3. CASE ops'[c].video # v
  <2>1. ~(Carrier(c, v)') /\ ~(Mover(c, v)')
    BY <1>3 DEF Carrier, Mover
  <2> QED
    BY <1>1, <2>1, FollowFrame
<1> QED
  BY <1>2, <1>3

\* A request that starts has just read the row, and races no other.
LEMMA FollowStart ==
  ASSUME TypeOK, OpsOrder, NEW v \in Videos, Followed(v), NEW c \in Clients, Starts(c),
         v \notin broken'
  PROVE  Followed(v)'
<1>1. /\ Turn(c) /\ Apart(ops[c]) /\ Starting(ops'[c]) /\ Raced(ops'[c])
      /\ path' = path /\ files' = files
  BY StartTurn DEF table
<1>2. ~Carrier(c, v) /\ ~Eraser(c, v) /\ ops[c].kind \notin MoveKinds
  BY <1>1, ApartFromFile DEF OpsOrder, Carrier, Eraser
<1>3. \A x : Holds(x, v)' <=> Holds(x, v)
  BY <1>1 DEF Holds, Exists
<1>4. CASE Apart(ops'[c])
  BY <1>1, <1>2, <1>3, <1>4, FollowApart
<1>5. CASE /\ ops'[c].kind \in MoveKinds /\ ops'[c].step \in {"check", "move"}
           /\ ops'[c].from = path[ops'[c].video]
  <2>1. CASE ops'[c].video # v
    <3>1. ~(Carrier(c, v)') /\ ~(Mover(c, v)')
      BY <2>1 DEF Carrier, Mover
    <3> QED
      BY <1>1, <1>2, <1>3, <3>1, FollowFrame
  <2>2. CASE ops'[c].video = v
    <3>1. ~(Carrier(c, v)')
      BY <1>5 DEF Carrier
    <3>2. \A d \in Clients : ~Overlaps(ops'[c], ops[d])
      BY <1>1, <2>2 DEF Raced
    <3>3. \A d \in Clients \ {c} : Mover(d, v) =>
            ops'[c].to # ops[d].from /\ ops[d].to # ops'[c].from
      BY <1>5, <2>2, <3>2 DEF Overlaps, Moves, Mover, MoveKinds
    <3>4. ops'[c].from = path[v]
      BY <1>5, <2>2
    <3> QED
      BY <1>1, <1>2, <1>3, <3>1, <3>3, <3>4, FollowFrame
  <2> QED
    BY <2>1, <2>2
<1> QED
  BY <1>1, <1>4, <1>5 DEF Starting

\* The file has been moved: it is where the request that did so will say, and
\* no other request carries it.
LEMMA FollowMoved ==
  ASSUME NamesApart, OnStage, TypeOK, OpsOrder, OneFileEach, FileNames,
         NEW c \in Clients, Turn(c), ops[c].step = "move",
         NEW v, v = ops[c].video, Followed(v), Exists(ops[c].from),
         files' = Moved(ops[c].from, ops[c].to), path' = path,
         ops'[c].step \in {"verify", "record"}, ops'[c].kind = ops[c].kind,
         ops'[c].video = ops[c].video,
         ops'[c].from = ops[c].from, ops'[c].to = ops[c].to
  PROVE  Followed(v)'
<1>1. ops[c].step \in MoveSteps /\ ops[c].kind \in MoveKinds
  BY StepKind DEF OpsOrder, MoveSteps
<1>2. v \in Videos /\ ops[c].to \in PlacesOf(v) /\ files[ops[c].from] = v
  BY <1>1, MovesOwn
<1>3. Holds(ops[c].from, v) /\ \A x : Holds(x, v) => x = ops[c].from
  BY <1>2 DEF Holds, Exists, OneFileEach
<1>4. \A x : Holds(x, v)' <=> x = ops[c].to
  BY <1>2, MovedOwn DEF Exists
<1>5. \A d \in Clients \ {c} : ops'[d] = ops[d]
  BY DEF Turn
<1>6. Mover(c, v)
  BY <1>1 DEF Mover
<1>7. path[v] = ops[c].from
  BY <1>3, <1>6 DEF Followed
<1>8. \A d \in Clients : Carrier(d, v) => Mover(d, v)
  BY StepKind DEF OpsOrder, Carrier, Mover, MoveSteps
<1>9. \A d \in Clients \ {c} : ~Carrier(d, v)
  <2> SUFFICES ASSUME NEW d \in Clients \ {c}, Carrier(d, v) PROVE FALSE
    OBVIOUS
  <2>1. Holds(ops[d].to, v) \/ Gone(v)
    BY DEF Followed
  <2>2. ~Gone(v)
    BY <1>3 DEF Gone, Holds, Exists
  <2>3. ops[d].to = ops[c].from
    BY <1>3, <2>1, <2>2
  <2>4. Mover(d, v)
    BY <1>8
  <2> QED
    BY <1>6, <2>3, <2>4 DEF Followed
<1>10. \A d \in Clients : Carrier(d, v)' <=> d = c
  BY <1>5, <1>9 DEF Carrier
<1>11. \A d \in Clients : Mover(d, v)' <=> Mover(d, v)
  BY <1>5 DEF Mover
<1>12. \A d \in Clients : Mover(d, v) => ops'[d].from = ops[d].from /\ ops'[d].to = ops[d].to
  BY <1>5
<1>13. ops'[c].to \in DOMAIN files' /\ files'[ops'[c].to] = v
  BY <1>4 DEF Holds, Exists
<1>14. Holds(ops[c].to, v)' /\ ~(Gone(v)')
  BY <1>13 DEF Holds, Exists, Gone
<1>15. \A d, e \in Clients : Mover(d, v)' /\ Mover(e, v)' /\ d # e => ops'[d].to # ops'[e].from
  BY <1>11, <1>12 DEF Followed
<1>16. ASSUME NEW d \in Clients, Mover(d, v)', Holds(ops[d].from, v)'
       PROVE  path'[v] = ops'[d].from
  <2>1. ops'[d].from \in DOMAIN files' /\ files'[ops'[d].from] = v
    BY <1>16 DEF Holds, Exists
  <2>2. ops'[d].from = ops[c].to
    BY <1>4, <2>1 DEF Holds, Exists
  <2>3. Mover(d, v) /\ ops[d].from = ops[c].to
    BY <1>11, <1>12, <1>16, <2>2
  <2>4. d = c
    BY <1>6, <2>3 DEF Followed
  <2> QED
    BY <1>7, <2>4
<1> QED
  BY <1>7, <1>10, <1>14, <1>15, <1>16 DEF Followed

\* The row says where the file is: the request carries it no more.
LEMMA FollowRecorded ==
  ASSUME TypeOK, OpsOrder, OneFileEach,
         NEW c \in Clients, Turn(c), ops[c].step = "record",
         NEW v \in Videos, v = ops[c].video, Followed(v),
         files' = files, path' = [path EXCEPT ![v] = ops[c].to],
         \/ Apart(ops'[c])
         \/ /\ ops'[c].step = "mark" /\ ops'[c].kind = ops[c].kind /\ ops'[c].video = ops[c].video
            /\ ops'[c].from = ops[c].from /\ ops'[c].to = ops[c].to
  PROVE  Followed(v)'
<1>1. path'[v] = ops[c].to
  BY DEF TypeOK
<1>2. \A x : Holds(x, v)' <=> Holds(x, v)
  BY DEF Holds, Exists
<1>3. Gone(v)' <=> Gone(v)
  BY DEF Gone
<1>4. \A d \in Clients \ {c} : ops'[d] = ops[d]
  BY DEF Turn
<1>5. Carrier(c, v)
  BY DEF Carrier
<1>6. Holds(ops[c].to, v) \/ Gone(v)
  BY <1>5 DEF Followed
<1>7. \A d \in Clients \ {c} : ~Carrier(d, v)
  BY <1>5 DEF Followed
<1>8. WellFormed(ops'[c])
  BY DEF Turn, OpsFine
<1>9. ~(Carrier(c, v)') /\ (Mover(c, v)' => /\ Mover(c, v) /\ ops'[c].from = ops[c].from
                                            /\ ops'[c].to = ops[c].to)
  <2>1. CASE Apart(ops'[c])
    BY <1>8, <2>1, ApartFromFile DEF Carrier, Mover
  <2>2. CASE /\ ops'[c].step = "mark" /\ ops'[c].kind = ops[c].kind /\ ops'[c].video = ops[c].video
             /\ ops'[c].from = ops[c].from /\ ops'[c].to = ops[c].to
    BY <2>2 DEF Carrier, Mover
  <2> QED
    BY <2>1, <2>2
<1>10. \A d \in Clients : ~(Carrier(d, v)')
  BY <1>4, <1>7, <1>9 DEF Carrier
<1>11. \A d \in Clients : Mover(d, v)' => /\ Mover(d, v) /\ ops'[d].from = ops[d].from
                                          /\ ops'[d].to = ops[d].to
  BY <1>4, <1>9 DEF Mover
<1>12. (Gone(v) \/ Holds(path[v], v))'
  <2>1. CASE Holds(ops[c].to, v)
    <3>1. path'[v] \in DOMAIN files' /\ files'[path'[v]] = v
      BY <1>1, <2>1 DEF Holds, Exists
    <3> QED
      BY <3>1 DEF Holds, Exists
  <2>2. CASE Gone(v)
    BY <1>3, <2>2
  <2> QED
    BY <1>6, <2>1, <2>2
<1>13. (Gone(v) => \E d \in Clients : Eraser(d, v))'
  <2>1. ~Eraser(c, v)
    BY DEF Eraser, EraseSteps
  <2>2. \A d \in Clients : Eraser(d, v) => Eraser(d, v)'
    BY <1>4, <2>1 DEF Eraser
  <2>3. Gone(v) => \E d \in Clients : Eraser(d, v)
    BY DEF Followed
  <2> QED
    BY <1>3, <2>2, <2>3
<1>14. \A d, e \in Clients : Mover(d, v)' /\ Mover(e, v)' /\ d # e => ops'[d].to # ops'[e].from
  BY <1>11 DEF Followed
<1>15. ASSUME NEW d \in Clients, Mover(d, v)', Holds(ops[d].from, v)'
       PROVE  path'[v] = ops'[d].from
  <2>1. ops'[d].from \in DOMAIN files /\ files[ops'[d].from] = v
    BY <1>15 DEF Holds, Exists
  <2>2. ops[c].to \in DOMAIN files /\ files[ops[c].to] = v
    BY <1>6, <2>1 DEF Gone, Holds, Exists
  <2> QED
    BY <1>1, <2>1, <2>2 DEF OneFileEach
<1> QED
  BY <1>10, <1>12, <1>13, <1>14, <1>15 DEF Followed

\* The file is put back: the row said where all along.
LEMMA FollowRolledBack ==
  ASSUME NamesApart, OnStage, TypeOK, OpsOrder, OneFileEach, FileNames,
         NEW c \in Clients, Rollback(c), NEW v, v = ops[c].video, Followed(v)
  PROVE  Followed(v)'
<1>1. /\ ops[c].step = "rollback" /\ Done(c) /\ path' = path
      /\ files' = IF Exists(ops[c].to) THEN Moved(ops[c].to, ops[c].from) ELSE files
  BY DEF Rollback, At, table
<1>2. Turn(c) /\ Apart(ops'[c]) /\ WellFormed(ops'[c])
  BY <1>1, HelpersTurn DEF Turn, OpsFine
<1>3. ops[c].step \in MoveSteps
  BY <1>1 DEF MoveSteps
<1>4. v \in Videos /\ ops[c].from \in PlacesOf(v) /\ (Exists(ops[c].to) => files[ops[c].to] = v)
  BY <1>3, MovesOwn
<1>5. Carrier(c, v)
  BY <1>1 DEF Carrier
<1>6. (Holds(ops[c].to, v) \/ Gone(v)) /\ path[v] = ops[c].from
  BY <1>5 DEF Followed
<1>7. \A d \in Clients \ {c} : ops'[d] = ops[d] /\ ~Carrier(d, v)
  BY <1>2, <1>5 DEF Turn, Followed
<1>8. ~(Carrier(c, v)') /\ ~(Mover(c, v)')
  BY <1>2, ApartFromFile DEF Carrier, Mover
<1>9. \A d \in Clients : ~(Carrier(d, v)')
  BY <1>7, <1>8 DEF Carrier
<1>10. \A d \in Clients : Mover(d, v)' => /\ Mover(d, v) /\ ops'[d].from = ops[d].from
                                          /\ ops'[d].to = ops[d].to
  BY <1>7, <1>8 DEF Mover
<1>11. \A d, e \in Clients : Mover(d, v)' /\ Mover(e, v)' /\ d # e => ops'[d].to # ops'[e].from
  BY <1>10 DEF Followed
<1>12. CASE Exists(ops[c].to)
  <2>1. files' = Moved(ops[c].to, ops[c].from)
    BY <1>1, <1>12
  <2>2. \A x : Holds(x, v)' <=> x = ops[c].from
    BY <1>4, <1>12, <2>1, MovedOwn DEF Exists
  <2>3. path'[v] \in DOMAIN files' /\ files'[path'[v]] = v
    BY <1>1, <1>6, <2>2 DEF Holds, Exists
  <2>4. Holds(path[v], v)' /\ ~(Gone(v)')
    BY <2>3 DEF Holds, Exists, Gone
  <2>5. ASSUME NEW d \in Clients, Mover(d, v)', Holds(ops[d].from, v)'
        PROVE  path'[v] = ops'[d].from
    <3>1. ops'[d].from \in DOMAIN files' /\ files'[ops'[d].from] = v
      BY <2>5 DEF Holds, Exists
    <3> QED
      BY <1>1, <1>6, <2>2, <3>1 DEF Holds, Exists
  <2> QED
    BY <1>9, <1>11, <2>4, <2>5 DEF Followed
<1>13. CASE ~Exists(ops[c].to)
  <2>1. files' = files
    BY <1>1, <1>13
  <2>2. Gone(v)
    BY <1>6, <1>13 DEF Holds
  <2>3. Gone(v)'
    BY <2>1, <2>2 DEF Gone
  <2>4. (\E d \in Clients : Eraser(d, v))'
    <3>1. PICK d \in Clients : Eraser(d, v)
      BY <2>2 DEF Followed
    <3>2. d # c
      BY <1>1, <3>1 DEF Eraser, EraseSteps
    <3>3. Eraser(d, v)'
      BY <1>7, <3>1, <3>2 DEF Eraser
    <3> QED
      BY <3>3
  <2>5. \A x : ~(Holds(x, v)')
    BY <2>3 DEF Gone, Holds, Exists
  <2>6. ASSUME NEW d \in Clients, Mover(d, v)', Holds(ops[d].from, v)'
        PROVE  path'[v] = ops'[d].from
    <3>1. ops'[d].from \in DOMAIN files' /\ files'[ops'[d].from] = v
      BY <2>6 DEF Holds, Exists
    <3> QED
      BY <2>3, <3>1 DEF Gone
  <2> QED
    BY <1>9, <1>11, <2>3, <2>4, <2>6 DEF Followed
<1> QED
  BY <1>12, <1>13

\* The file is removed for good: the request that did so erases the row.
LEMMA FollowUnlinked ==
  ASSUME NamesApart, OnStage, TypeOK, OpsOrder, OneFileEach, FileNames,
         NEW c \in Clients, Unlink(c), NEW v, v = ops[c].video, Followed(v),
         Exists(ops[c].todo[v])
  PROVE  Followed(v)'
<1> DEFINE p == ops[c].todo[v]
<1>1. /\ ops[c].step = "unlink" /\ Goto(c, "thumb") /\ path' = path /\ files' = Without(p)
  BY DEF Unlink, At, table
<1>2. v \in Videos /\ v \in scene.videos /\ p \in PlacesOf(v) /\ ops[c].kind = "purge"
  BY <1>1, EraserKnows, StageVideo
<1>3. Turn(c) /\ ops'[c].step = "thumb" /\ ops'[c].kind = "purge" /\ ops'[c].video = v
  BY <1>1, EraseTurn DEF EraseSteps
<1>4. Gone(v)'
  BY <1>1, <1>2, WithoutOwn DEF Exists
<1>5. Eraser(c, v)'
  BY <1>3 DEF Eraser, EraseSteps
<1>6. \A d \in Clients \ {c} : ops'[d] = ops[d]
  BY <1>3 DEF Turn
<1>7. ~(Carrier(c, v)') /\ ~(Mover(c, v)')
  BY <1>3 DEF Carrier, Mover, MoveKinds
<1>8. \A d \in Clients : Carrier(d, v)' => Carrier(d, v) /\ ops'[d] = ops[d]
  BY <1>6, <1>7 DEF Carrier
<1>9. \A d \in Clients : Mover(d, v)' => Mover(d, v) /\ ops'[d] = ops[d]
  BY <1>6, <1>7 DEF Mover
<1>10. \A d, e \in Clients : Mover(d, v)' /\ Mover(e, v)' /\ d # e => ops'[d].to # ops'[e].from
  BY <1>9 DEF Followed
<1>11. \A d, e \in Clients : Carrier(d, v)' /\ Carrier(e, v)' => d = e
  BY <1>8 DEF Followed
<1>12. \A d \in Clients : Carrier(d, v)' => path'[v] = ops'[d].from
  BY <1>1, <1>8 DEF Followed
<1>13. ASSUME NEW d \in Clients, Mover(d, v)', Holds(ops[d].from, v)'
       PROVE  path'[v] = ops'[d].from
  <2>1. ops'[d].from \in DOMAIN files' /\ files'[ops'[d].from] = v
    BY <1>13 DEF Holds, Exists
  <2> QED
    BY <1>4, <2>1 DEF Gone
<1> QED
  BY <1>4, <1>5, <1>10, <1>11, <1>12, <1>13 DEF Followed

\* Nothing is carried when the program stops, but of videos it was in the middle of.
LEMMA FollowCrash ==
  ASSUME NEW v, Followed(v), files' = files, path' = path,
         \A c \in Clients : ~Carrier(c, v) /\ ~Eraser(c, v),
         \A c \in Clients : ops'[c] = Idle
  PROVE  Followed(v)'
<1>1. ~Gone(v) /\ Holds(path[v], v)
  BY DEF Followed
<1>2. \A c \in Clients : ~(Carrier(c, v)') /\ ~(Mover(c, v)')
  BY DEF Carrier, Mover, Idle, MoveKinds
<1>3. Holds(path[v], v)' /\ ~(Gone(v)')
  BY <1>1 DEF Holds, Exists, Gone
<1> QED
  BY <1>2, <1>3 DEF Followed

\* Nothing of a video has changed but perhaps its row.
LEMMA FollowSame ==
  ASSUME NEW v, Followed(v), files' = files, path' = path, ops' = ops
  PROVE  Followed(v)'
<1>1. \A c \in Clients : /\ Carrier(c, v)' <=> Carrier(c, v)
                         /\ Eraser(c, v)' <=> Eraser(c, v)
                         /\ Mover(c, v)' <=> Mover(c, v)
  BY DEF Carrier, Eraser, Mover
<1>2. Gone(v)' <=> Gone(v)
  BY DEF Gone
<1>3. \A x : Holds(x, v)' <=> Holds(x, v)
  BY DEF Holds, Exists
<1> QED
  BY <1>1, <1>2, <1>3 DEF Followed, Holds, Exists

\* Rows are erased and never come back, and what is broken stays so.
LEMMA RowsShrink ==
  ASSUME TypeOK, OpsOrder, [Next]_vars
  PROVE  rows' \subseteq rows /\ broken \subseteq broken'
<1> USE DEF table, derived, history
<1>1. ASSUME NEW c \in Clients, Starts(c)
      PROVE  rows' \subseteq rows /\ broken \subseteq broken'
  BY <1>1, StartTurn DEF Raced
<1>2. ASSUME NEW c \in Clients, Step(c), ~Pick(c)
      PROVE  rows' \subseteq rows /\ broken \subseteq broken'
  BY <1>2 DEF Step, Check, MoveFile, Verify, Record, Mark, Rollback, Look, Unlink, SeeThumb,
              DropThumb, Erase, LookInCache, Probe, Fetch, Frame, WriteThumb, Scan, MarkMissing,
              DatabaseError
<1>3. ASSUME NEW v \in Videos, DeleteRow(v) \/ RestoreRow(v) \/ EraseRow(v)
      PROVE  rows' \subseteq rows /\ broken \subseteq broken'
  BY <1>3 DEF DeleteRow, RestoreRow, EraseRow
<1>4. ASSUME Crash \/ UNCHANGED vars
      PROVE  rows' \subseteq rows /\ broken \subseteq broken'
  BY <1>4 DEF Crash, vars
<1>5. \/ \E c \in Clients : Step(c) /\ ~Pick(c)
      \/ \E c \in Clients : Starts(c)
      \/ \E v \in Videos : DeleteRow(v) \/ RestoreRow(v) \/ EraseRow(v)
      \/ Crash \/ UNCHANGED vars
  BY DEF Next, Starts, Step
<1> QED
  BY <1>1, <1>2, <1>3, <1>4, <1>5

\* A step of a request leaves every video followed that keeps its row and is
\* not broken.
LEMMA FollowStep ==
  ASSUME NamesApart, OnStage, TypeOK, OpsOrder, OneFileEach, FileNames,
         NEW c \in Clients, Step(c), NEW v \in Videos, Followed(v), v \in rows', v \notin broken'
  PROVE  Followed(v)'
<1> USE DEF table, derived, history
<1>0. WellFormed(ops[c])
  BY DEF OpsOrder
<1>1. ASSUME files' = files
      PROVE  \A x : Holds(x, v)' <=> Holds(x, v)
  BY <1>1 DEF Holds, Exists
<1>2. ASSUME files' = files, path' = path, Turn(c), Apart(ops[c]), Apart(ops'[c])
      PROVE  Followed(v)'
  <2>1. ~Carrier(c, v) /\ ~Eraser(c, v)
    BY <1>0, <1>2, ApartFromFile DEF Carrier, Eraser
  <2> QED
    BY <1>1, <1>2, <2>1, FollowApart
<1>3. CASE LookInCache(c) \/ Probe(c) \/ Fetch(c) \/ Frame(c) \/ WriteThumb(c)
  <2>1. files' = files /\ path' = path
    BY <1>3 DEF LookInCache, Probe, Fetch, Frame, WriteThumb
  <2> QED
    BY <1>2, <1>3, <2>1, ThumbnailTurn
<1>4. CASE Scan(c) \/ MarkMissing(c)
  <2>1. files' = files /\ path' = path
    BY <1>4 DEF Scan, MarkMissing
  <2> QED
    BY <1>2, <1>4, <2>1, RepairTurn, SMTT(30)
<1>5. CASE Look(c)
  <2>1. files' = files /\ path' = path
    BY <1>5 DEF Look
  <2>2. Turn(c) /\ Apart(ops[c]) /\ ops'[c].kind = "purge" /\ ops'[c].step \in {"unlink", "thumb"}
    BY <1>5, LookTurn
  <2>3. ~Carrier(c, v) /\ ~Eraser(c, v)
    BY <1>0, <2>2, ApartFromFile DEF Carrier, Eraser
  <2>4. ~(Carrier(c, v)') /\ ~(Mover(c, v)')
    BY <2>2 DEF Carrier, Mover, MoveKinds
  <2> QED
    BY <1>1, <2>1, <2>2, <2>3, <2>4, FollowFrame
<1>6. CASE Check(c)
  <2>1. files' = files /\ path' = path /\ ops[c].step = "check"
    BY <1>6 DEF Check, At
  <2>2. Turn(c)
    BY <1>6, CheckTurn
  <2>3. CASE Apart(ops'[c])
    <3>1. ~Carrier(c, v) /\ ~Eraser(c, v)
      BY <2>1 DEF Carrier, Eraser, EraseSteps
    <3> QED
      BY <1>1, <2>1, <2>2, <2>3, <3>1, FollowApart
  <2>4. CASE /\ ops'[c].step = "move"
             /\ ops'[c].kind = ops[c].kind /\ ops'[c].video = ops[c].video
             /\ ops'[c].from = ops[c].from /\ ops'[c].to = ops[c].to
    <3>1. ops[c].step \in MoveSteps
      BY <2>1 DEF MoveSteps
    <3> QED
      BY <1>1, <2>1, <2>2, <2>4, <3>1, FollowMove
  <2> QED
    BY <1>6, <2>3, <2>4, CheckTurn
<1>7. CASE MoveFile(c)
  <2>1. ops[c].step = "move" /\ ops[c].step \in MoveSteps /\ path' = path
    BY <1>7 DEF MoveFile, At, MoveSteps
  <2>2. CASE Exists(ops[c].from)
    <3>1. /\ files' = Moved(ops[c].from, ops[c].to)
          /\ Goto(c, "verify") \/ Goto(c, "record")
      BY <1>7, <2>2 DEF MoveFile
    <3>2. "verify" \in MoveSteps /\ "record" \in MoveSteps
      BY DEF MoveSteps
    <3>3. /\ Turn(c) /\ ops'[c].step \in {"verify", "record"}
          /\ ops'[c].kind = ops[c].kind /\ ops'[c].video = ops[c].video
          /\ ops'[c].from = ops[c].from /\ ops'[c].to = ops[c].to
      BY <2>1, <3>1, <3>2, MoveTurn
    <3>4. CASE v = ops[c].video
      BY <2>1, <2>2, <3>1, <3>3, <3>4, FollowMoved
    <3>5. CASE v # ops[c].video
      <4>1. /\ ops[c].video \in Videos /\ ops[c].to \in PlacesOf(ops[c].video)
            /\ files[ops[c].from] = ops[c].video
        BY <2>1, <2>2, MovesOwn
      <4>2. \A x : Holds(x, v)' <=> Holds(x, v)
        BY <2>2, <3>1, <3>5, <4>1, MovedOwn DEF Exists
      <4> QED
        BY <2>1, <3>3, <3>5, <4>2, FollowOthers
    <3> QED
      BY <3>4, <3>5
  <2>3. CASE ~Exists(ops[c].from)
    <3>1. files' = files /\ Done(c)
      BY <1>7, <2>3 DEF MoveFile
    <3>2. ~Carrier(c, v) /\ ~Eraser(c, v)
      BY <2>1 DEF Carrier, Eraser, EraseSteps
    <3> QED
      BY <1>1, <2>1, <3>1, <3>2, FollowApart, HelpersTurn
  <2> QED
    BY <2>2, <2>3
<1>8. CASE Verify(c)
  <2>1. ops[c].step \in MoveSteps /\ ops[c].step = "verify" /\ files' = files /\ path' = path
    BY <1>8 DEF Verify, At, MoveSteps
  <2>2. (Goto(c, "record") \/ Goto(c, "rollback")) /\ "rollback" \in MoveSteps /\ "record" \in MoveSteps
    BY <1>8 DEF Verify, MoveSteps
  <2>3. /\ Turn(c) /\ ops'[c].step \in {"record", "rollback"}
        /\ ops'[c].kind = ops[c].kind /\ ops'[c].video = ops[c].video
        /\ ops'[c].from = ops[c].from /\ ops'[c].to = ops[c].to
    BY <2>1, <2>2, MoveTurn
  <2> QED
    BY <1>1, <2>1, <2>3, FollowMove
<1>9. CASE Record(c)
  <2>1. ops[c].step \in MoveSteps /\ ops[c].step = "record" /\ files' = files /\ rows' = rows
    BY <1>9 DEF Record, At, MoveSteps
  <2>2. ops[c].video \in Videos
    BY <2>1, MoverKnows
  <2>3. CASE ops[c].video \in rows
    <3>1. /\ path' = [path EXCEPT ![ops[c].video] = ops[c].to]
          /\ Goto(c, "mark") \/ Done(c)
      BY <1>9, <2>3 DEF Record
    <3>2. /\ Turn(c)
          /\ \/ Apart(ops'[c])
             \/ /\ ops'[c].step = "mark" /\ ops'[c].kind = ops[c].kind
                /\ ops'[c].video = ops[c].video
                /\ ops'[c].from = ops[c].from /\ ops'[c].to = ops[c].to
      <4>1. "mark" \in MoveSteps
        BY DEF MoveSteps
      <4> QED
        BY <2>1, <3>1, <4>1, MoveTurn, HelpersTurn
    <3>3. CASE v = ops[c].video
      BY <2>1, <3>1, <3>2, <3>3, FollowRecorded
    <3>4. CASE v # ops[c].video
      <4>1. path'[v] = path[v]
        BY <3>1, <3>4 DEF TypeOK
      <4> QED
        BY <1>1, <2>1, <3>2, <3>4, <4>1, FollowOthers
    <3> QED
      BY <3>3, <3>4
  <2>4. CASE ops[c].video \notin rows
    <3>1. path' = path /\ (Goto(c, "rollback") \/ Done(c)) /\ v # ops[c].video
      BY <1>9, <2>1, <2>4 DEF Record, NotRecorded
    <3>2. /\ Turn(c) /\ (Apart(ops'[c]) \/ ops'[c].video = ops[c].video)
      <4>1. "rollback" \in MoveSteps
        BY DEF MoveSteps
      <4> QED
        BY <2>1, <3>1, <4>1, MoveTurn, HelpersTurn
    <3> QED
      BY <1>1, <2>1, <3>1, <3>2, FollowOthers
  <2> QED
    BY <2>3, <2>4
<1>10. CASE Mark(c)
  <2>1. ops[c].step = "mark" /\ Done(c) /\ files' = files /\ path' = path
    BY <1>10 DEF Mark, At
  <2>2. ~Carrier(c, v) /\ ~Eraser(c, v)
    BY <2>1 DEF Carrier, Eraser, EraseSteps
  <2> QED
    BY <1>1, <2>1, <2>2, FollowApart, HelpersTurn
<1>11. CASE Rollback(c)
  <2>1. CASE v = ops[c].video
    BY <1>11, <2>1, FollowRolledBack
  <2>2. CASE v # ops[c].video
    <3>1. ops[c].step \in MoveSteps /\ Done(c) /\ path' = path
      BY <1>11 DEF Rollback, At, MoveSteps
    <3>2. \A x : Holds(x, v)' <=> Holds(x, v)
      <4>1. CASE Exists(ops[c].to)
        <5>1. files' = Moved(ops[c].to, ops[c].from)
          BY <1>11, <4>1 DEF Rollback
        <5>2. /\ ops[c].video \in Videos /\ ops[c].from \in PlacesOf(ops[c].video)
              /\ files[ops[c].to] = ops[c].video
          BY <3>1, <4>1, MovesOwn
        <5> QED
          BY <2>2, <4>1, <5>1, <5>2, MovedOwn DEF Exists
      <4>2. CASE ~Exists(ops[c].to)
        <5>1. files' = files
          BY <1>11, <4>2 DEF Rollback
        <5> QED
          BY <1>1, <5>1
      <4> QED
        BY <4>1, <4>2
    <3> QED
      BY <2>2, <3>1, <3>2, FollowOthers, HelpersTurn
  <2> QED
    BY <2>1, <2>2
<1>12. CASE Unlink(c)
  <2> DEFINE p == ops[c].todo[ops[c].video]
  <2>1. /\ ops[c].step = "unlink" /\ path' = path /\ files' = Without(p)
        /\ IF Exists(p) THEN Goto(c, "thumb") ELSE NextVideo(c)
    BY <1>12 DEF Unlink, At
  <2>2. /\ ops[c].video \in Videos /\ ops[c].video \in scene.videos
        /\ p \in PlacesOf(ops[c].video)
    BY <2>1, EraserKnows, StageVideo
  <2>3. CASE Exists(p) /\ v = ops[c].video
    BY <1>12, <2>3, FollowUnlinked
  <2>4. CASE Exists(p) /\ v # ops[c].video
    <3>1. Turn(c) /\ ops'[c].video = ops[c].video
      BY <2>1, <2>4, EraseTurn DEF EraseSteps
    <3>2. \A x : Holds(x, v)' <=> Holds(x, v)
      BY <2>1, <2>2, <2>4, WithoutOwn
    <3> QED
      BY <2>1, <2>4, <3>1, <3>2, FollowOthers
  <2>5. CASE ~Exists(p)
    <3>1. Turn(c) /\ Apart(ops'[c])
      BY <2>1, <2>5, HelpersTurn
    <3>2. \A x : Holds(x, v)' <=> Holds(x, v)
      <4>1. \A x \in DOMAIN files' : x \in DOMAIN files /\ files'[x] = files[x]
        BY <2>1 DEF Without, Restrict
      <4>2. DOMAIN files' = DOMAIN files
        BY <2>1, <2>5 DEF Without, Restrict, Exists
      <4> QED
        BY <4>1, <4>2 DEF Holds, Exists
    <3>3. ~Carrier(c, v) /\ ~Eraser(c, v)
      BY <2>1 DEF Carrier, Eraser, EraseSteps
    <3> QED
      BY <2>1, <3>1, <3>2, <3>3, FollowApart
  <2> QED
    BY <2>3, <2>4, <2>5
<1>13. CASE SeeThumb(c) \/ DropThumb(c) \/ Erase(c)
  <2>1. /\ ops[c].step \in EraseSteps /\ files' = files /\ path' = path
        /\ Goto(c, "unthumb") \/ Goto(c, "erase") \/ NextVideo(c)
    BY <1>13 DEF SeeThumb, DropThumb, Erase, At, EraseSteps
  <2>2. CASE Goto(c, "unthumb") \/ Goto(c, "erase")
    <3>1. /\ Turn(c) /\ ops'[c].step \in EraseSteps
          /\ ops'[c].kind = "purge" /\ ops'[c].video = ops[c].video
      BY <2>1, <2>2, EraseTurn DEF EraseSteps
    <3>2. ~Carrier(c, v) /\ ~(Carrier(c, v)') /\ ~(Mover(c, v)')
      BY <2>1, <3>1 DEF Carrier, Mover, MoveKinds, EraseSteps
    <3>3. Eraser(c, v) => Eraser(c, v)'
      BY <3>1 DEF Eraser
    <3> QED
      BY <1>1, <2>1, <3>1, <3>2, <3>3, FollowFrame
  <2>3. CASE NextVideo(c) /\ ~(Goto(c, "unthumb") \/ Goto(c, "erase"))
    <3>1. v # ops[c].video
      BY <1>13, <2>3 DEF SeeThumb, DropThumb, Erase
    <3>2. Turn(c) /\ Apart(ops'[c])
      BY <2>1, <2>3, HelpersTurn
    <3> QED
      BY <1>1, <2>1, <3>1, <3>2, FollowOthers
  <2> QED
    BY <2>1, <2>2, <2>3
<1>14. CASE Pick(c)
  BY <1>14, FollowStart DEF Starts
<1>15. CASE DatabaseError(c)
  <2>1. files' = files /\ path' = path /\ ops[c].step \in {"record", "mark", "erase"}
    BY <1>15 DEF DatabaseError
  <2>2. CASE ops[c].step = "record" /\ ops[c].kind = "organize"
    <3>1. Goto(c, "rollback") /\ ops[c].step \in MoveSteps /\ "rollback" \in MoveSteps
      BY <1>15, <2>2 DEF DatabaseError, NotRecorded, At, MoveSteps
    <3>2. /\ Turn(c) /\ ops'[c].step = "rollback"
          /\ ops'[c].kind = ops[c].kind /\ ops'[c].video = ops[c].video
          /\ ops'[c].from = ops[c].from /\ ops'[c].to = ops[c].to
      BY <3>1, MoveTurn
    <3> QED
      BY <1>1, <2>1, <2>2, <3>1, <3>2, FollowMove
  <2>3. CASE ops[c].step = "record" /\ ops[c].kind # "organize"
    <3>1. Done(c) /\ v # ops[c].video
      BY <1>15, <2>3 DEF DatabaseError, NotRecorded, At, Halfway
    <3> QED
      BY <1>1, <2>1, <3>1, FollowOthers, HelpersTurn
  <2>4. CASE ops[c].step = "mark"
    <3>1. Done(c)
      BY <1>15, <2>4 DEF DatabaseError, At
    <3>2. ~Carrier(c, v) /\ ~Eraser(c, v)
      BY <2>4 DEF Carrier, Eraser, EraseSteps
    <3> QED
      BY <1>1, <2>1, <3>1, <3>2, FollowApart, HelpersTurn
  <2>5. CASE ops[c].step = "erase"
    <3>1. ops[c].step \in EraseSteps /\ NextVideo(c)
      BY <1>15, <2>5 DEF DatabaseError, At, EraseSteps
    <3>2. ops[c].kind = "purge"
      BY <3>1, EraserKnows
    <3>3. v # ops[c].video
      BY <1>15, <2>5, <3>2 DEF DatabaseError, Halfway
    <3>4. Turn(c) /\ Apart(ops'[c])
      BY <3>1, HelpersTurn
    <3> QED
      BY <1>1, <2>1, <3>3, <3>4, FollowOthers
  <2> QED
    BY <2>1, <2>2, <2>3, <2>4, <2>5
<1> QED
  BY <1>3, <1>4, <1>5, <1>6, <1>7, <1>8, <1>9, <1>10, <1>11, <1>12, <1>13, <1>14, <1>15 DEF Step

\* No step parts a row from its file.
LEMMA CarryStep ==
  ASSUME NamesApart, OnStage, TypeOK, OpsOrder, OneFileEach, FileNames, CarryOrder, [Next]_vars
  PROVE  CarryOrder'
<1> USE DEF table, derived, history
<1> SUFFICES ASSUME NEW v \in rows' \ broken' PROVE Followed(v)'
  BY DEF CarryOrder
<1>1. v \in rows \ broken /\ v \in Videos
  BY RowsShrink DEF TypeOK
<1>2. Followed(v)
  BY <1>1 DEF CarryOrder
<1>3. ASSUME NEW c \in Clients, Step(c)
      PROVE  Followed(v)'
  BY <1>1, <1>2, <1>3, FollowStep
<1>4. ASSUME NEW c \in Clients, Starts(c)
      PROVE  Followed(v)'
  BY <1>1, <1>2, <1>4, FollowStart
<1>5. ASSUME NEW w \in Videos, DeleteRow(w) \/ RestoreRow(w) \/ EraseRow(w)
      PROVE  Followed(v)'
  <2>1. files' = files /\ path' = path /\ ops' = ops
    BY <1>5 DEF DeleteRow, RestoreRow, EraseRow
  <2> QED
    BY <1>2, <2>1, FollowSame
<1>6. CASE Crash
  <2>1. files' = files /\ path' = path /\ \A c \in Clients : ops'[c] = Idle
    BY <1>6 DEF Crash
  <2>2. \A c \in Clients : Halfway(c) => ops[c].video # v
    BY <1>6 DEF Crash
  <2>3. \A c \in Clients : ~Carrier(c, v) /\ ~Eraser(c, v)
    BY <2>2 DEF Halfway, Carrier, Eraser, EraseSteps
  <2> QED
    BY <1>2, <2>1, <2>3, FollowCrash
<1>7. CASE UNCHANGED vars
  BY <1>2, <1>7, FollowSame DEF vars
<1> QED
  BY <1>3, <1>4, <1>5, <1>6, <1>7 DEF Next, Starts

-----------------------------------------------------------------------------
(***************************************************************************)
(* The scene.                                                              *)
(***************************************************************************)

\* A request that has ended or goes on to the next duplicate is about no video.
LEMMA AfterPlays ==
  ASSUME NEW op \in Op, NEW S
  PROVE  Plays(After(op), S)
<1> DEFINE next == [Idle EXCEPT !.kind = "resolve", !.step = "pick", !.rest = op.rest,
                                !.hard = op.hard]
<1>1. Idle.video = NoVideo /\ Idle.todo = << >> /\ DOMAIN << >> = {}
  BY DEF Idle
<1>2. next.video = NoVideo /\ next.todo = << >>
  BY DEF Idle
<1>3. After(op) = IF op.rest = {} THEN Idle ELSE next
  BY DEF After
<1> HIDE DEF next
<1> QED
  BY <1>1, <1>2, <1>3 DEF Plays

\* A request that goes on, ends or takes a video off its list.
LEMMA HelpersPlay ==
  ASSUME TypeOK, OpsOrder, NEW c \in Clients, NEW S, Plays(ops[c], S)
  PROVE  /\ Done(c) => Plays(ops'[c], S)
         /\ \A s \in StepNames : Goto(c, s) => Plays(ops'[c], S)
         /\ NextVideo(c) => Plays(ops'[c], S)
<1> DEFINE op == ops[c]
<1>1. ops \in [Clients -> Op] /\ op \in Op
  BY DEF TypeOK
<1>2. ASSUME Done(c) PROVE Plays(ops'[c], S)
  BY <1>1, <1>2, AfterPlays DEF Done
<1>3. ASSUME NEW s \in StepNames, Goto(c, s) PROVE Plays(ops'[c], S)
  <2> DEFINE new == [op EXCEPT !.step = s]
  <2>1. ops'[c] = new
    BY <1>1, <1>3 DEF Goto
  <2>2. new.video = op.video /\ new.todo = op.todo
    BY <1>1, NextStepType
  <2> HIDE DEF new
  <2> QED
    BY <2>1, <2>2 DEF Plays
<1>4. ASSUME NextVideo(c) PROVE Plays(ops'[c], S)
  <2> DEFINE todo == Restrict(op.todo, DOMAIN op.todo \ {op.video})
             new == [op EXCEPT !.step = "next", !.video = NoVideo, !.todo = todo]
  <2>1. ops'[c] = After(op) \/ ops'[c] = new
    BY <1>1, <1>4 DEF NextVideo, Remaining
  <2>2. DOMAIN todo \subseteq DOMAIN op.todo
    BY DEF Restrict
  <2>3. new.video = NoVideo /\ new.todo = todo
    <3> HIDE DEF todo, op
    <3> QED
      BY <1>1 DEF Op
  <2> HIDE DEF todo, new
  <2>4. CASE ops'[c] = new
    BY <2>2, <2>3, <2>4 DEF Plays
  <2> QED
    BY <1>1, <2>1, <2>4, AfterPlays
<1> QED
  BY <1>2, <1>3, <1>4

\* A request that starts is about videos that have a row.
LEMMA StartPlays ==
  ASSUME TypeOK, OpsOrder, OnStage, NEW c \in Clients, Starts(c)
  PROVE  Plays(ops'[c], scene.videos)
<1> DEFINE S == scene.videos
<1>1. rows \subseteq S /\ ops \in [Clients -> Op] /\ DOMAIN << >> = {}
  BY DEF OnStage, TypeOK
<1>2. ASSUME NEW kind, NEW op, Begin(c, kind, op), Plays(op, S) PROVE Plays(ops'[c], S)
  BY <1>1, <1>2 DEF Begin
<1>3. ASSUME NEW kind, NEW step, NEW v \in S, NEW to
      PROVE  Plays(Moving(kind, step, v, to), S) /\ Plays(Reading(kind, step, v), S)
  BY <1>1 DEF Moving, Reading, Idle, Plays
<1>4. ASSUME NEW R \in SUBSET S PROVE Plays(Purging([w \in R |-> path[w]]), S)
  BY DEF Purging, Idle, Plays
<1>5. ASSUME NEW v \in Videos, BeginOrganize(c, v) \/ BeginDelete(c, v) \/ BeginRestore(c, v)
      PROVE  Plays(ops'[c], S)
  BY <1>1, <1>2, <1>3, <1>5 DEF BeginOrganize, BeginDelete, BeginRestore
<1>6. ASSUME NEW v \in Videos, BeginThumbnail(c, v) PROVE Plays(ops'[c], S)
  BY <1>1, <1>2, <1>3, <1>6 DEF BeginThumbnail
<1>7. ASSUME NEW v \in Videos, BeginPurge(c, v) PROVE Plays(ops'[c], S)
  <2>1. v \in S /\ Begin(c, "purge", Purging([w \in {v} |-> path[w]]))
    BY <1>1, <1>7 DEF BeginPurge
  <2>2. Plays(Purging([w \in {v} |-> path[w]]), S)
    BY <1>4, <2>1
  <2> QED
    BY <1>2, <2>1, <2>2
<1>8. ASSUME BeginEmptyTrash(c) PROVE Plays(ops'[c], S)
  <2>1. rows \cap deleted \in SUBSET S
    BY <1>1
  <2> QED
    BY <1>2, <1>4, <1>8, <2>1 DEF BeginEmptyTrash
<1>9. ASSUME NEW v \in Videos, NEW list \in SUBSET S, NEW hard \in BOOLEAN,
             BeginResolve(c, v, list, hard)
      PROVE  Plays(ops'[c], S)
  <2> DEFINE idle == Idle
             seed == [idle EXCEPT !.rest = list, !.hard = hard]
  <2>1. list \in SUBSET Videos
    BY FilesAssumption DEF TypeOK
  <2>2. idle \in Op
    BY IdleType
  <2>3. seed \in Op
    <3> HIDE DEF idle
    <3> QED
      BY <2>1, <2>2 DEF Op
  <2>4. Begin(c, "resolve", After(seed))
    BY <1>9 DEF BeginResolve
  <2> HIDE DEF seed
  <2> QED
    BY <1>2, <2>3, <2>4, AfterPlays
<1>10. ASSUME BeginRepair(c) PROVE Plays(ops'[c], S)
  <2> DEFINE todo == [v \in rows \ deleted |-> path[v]]
             op == [Idle EXCEPT !.kind = "repair", !.step = "scan", !.todo = todo]
  <2>1. DOMAIN todo \subseteq S
    BY <1>1
  <2>2. Begin(c, "repair", op)
    BY <1>10 DEF BeginRepair
  <2> HIDE DEF todo
  <2>3. op.video = NoVideo /\ op.todo = todo
    BY DEF Idle
  <2>4. Plays(op, S)
    BY <2>1, <2>3 DEF Plays
  <2> QED
    BY <1>2, <2>2, <2>4
<1>11. ASSUME Pick(c) PROVE Plays(ops'[c], S)
  <2> DEFINE cur == ops[c]
             Going(op, v) == [op EXCEPT !.rest = cur.rest \ {v}, !.hard = cur.hard]
  <2>1. PICK v \in cur.rest :
          ops'[c] = IF v \notin rows \/ (~cur.hard /\ path[v][1] = MaxDepth)
                    THEN After(Going(Idle, v))
                    ELSE Going(IF cur.hard THEN Purging([w \in {v} |-> path[w]])
                               ELSE Moving("delete", "move", v, Trash(path[v])), v)
    BY <1>1, <1>11 DEF Pick
  <2>2. cur \in Op /\ cur.rest \in SUBSET Videos /\ cur.hard \in BOOLEAN
    <3>1. cur \in Op
      BY <1>1
    <3> HIDE DEF cur
    <3> QED
      BY <3>1, OpFields
  <2>3. CASE v \notin rows \/ (~cur.hard /\ path[v][1] = MaxDepth)
    <3> DEFINE idle == Idle
               new == [idle EXCEPT !.rest = cur.rest \ {v}, !.hard = cur.hard]
    <3>1. idle \in Op
      BY IdleType
    <3>2. ops'[c] = After(new)
      BY <2>1, <2>3
    <3> HIDE DEF idle, cur
    <3>3. new \in Op
      BY <2>2, <3>1 DEF Op
    <3> HIDE DEF new
    <3> QED
      BY <3>2, <3>3, AfterPlays
  <2>4. ASSUME v \in rows, cur.hard PROVE Plays(ops'[c], S)
    <3>1. {v} \in SUBSET S
      BY <1>1, <2>4
    <3> DEFINE base == Purging([w \in {v} |-> path[w]])
    <3>2. ops'[c] = Going(base, v) /\ Plays(base, S)
      BY <1>4, <2>1, <2>4, <3>1
    <3>3. Going(base, v).video = base.video /\ Going(base, v).todo = base.todo
      BY DEF Purging, Idle
    <3> QED
      BY <3>2, <3>3 DEF Plays
  <2>5. ASSUME v \in rows, ~cur.hard, path[v][1] # MaxDepth PROVE Plays(ops'[c], S)
    <3> DEFINE base == Moving("delete", "move", v, Trash(path[v]))
    <3>1. ops'[c] = Going(base, v) /\ Plays(base, S)
      BY <1>1, <1>3, <2>1, <2>5
    <3>2. Going(base, v).video = base.video /\ Going(base, v).todo = base.todo
      BY DEF Moving, Reading, Idle
    <3> QED
      BY <3>1, <3>2 DEF Plays
  <2> QED
    BY <2>3, <2>4, <2>5
<1> QED
  BY <1>5, <1>6, <1>7, <1>8, <1>9, <1>10, <1>11 DEF Starts

\* And in its further steps.
LEMMA StepPlays ==
  ASSUME TypeOK, OpsOrder, OnStage, NEW c \in Clients, Step(c)
  PROVE  Plays(ops'[c], scene.videos)
<1> DEFINE S == scene.videos
           op == ops[c]
<1>1. /\ ops \in [Clients -> Op] /\ op \in Op /\ Plays(op, S) /\ DOMAIN << >> = {}
      /\ DOMAIN op.todo \subseteq S
  BY DEF OnStage, TypeOK, Plays
<1>2. ASSUME Done(c) \/ NextVideo(c) \/ \E s \in StepNames : Goto(c, s)
      PROVE  Plays(ops'[c], S)
  BY <1>1, <1>2, HelpersPlay
<1>3. CASE Check(c)
  <2>1. CASE Done(c)
    BY <1>2, <2>1
  <2>2. CASE ops' = [ops EXCEPT ![c].step = "move", ![c].hash = files[ops[c].from]]
    <3> DEFINE h == files[op.from]
               new == [op EXCEPT !.step = "move", !.hash = h]
    <3>1. ops'[c] = new
      BY <1>1, <2>2
    <3> HIDE DEF h, op
    <3>2. new.video = op.video /\ new.todo = op.todo
      BY <1>1 DEF Op
    <3> QED
      BY <1>1, <3>1, <3>2 DEF Plays
  <2> QED
    BY <1>3, <2>1, <2>2 DEF Check
<1>4. CASE Look(c)
  <2>1. PICK v \in DOMAIN op.todo :
          ops' = [ops EXCEPT ![c].video = v,
                             ![c].step = IF Exists(op.todo[v]) THEN "unlink" ELSE "thumb"]
    BY <1>4 DEF Look
  <2> DEFINE s == IF Exists(op.todo[v]) THEN "unlink" ELSE "thumb"
             new == [op EXCEPT !.video = v, !.step = s]
  <2>2. ops'[c] = new /\ v \in S
    BY <1>1, <2>1
  <2> HIDE DEF s, op
  <2>3. new.video = v /\ new.todo = op.todo
    BY <1>1 DEF Op
  <2> QED
    BY <1>1, <2>2, <2>3 DEF Plays
<1>5. CASE Scan(c)
  <2>1. PICK v \in DOMAIN op.todo :
          LET todo == Restrict(op.todo, DOMAIN op.todo \ {v})
              lost == op.rest \cup (IF Absent(v, op.todo[v]) THEN {v} ELSE {})
          IN ops' = [ops EXCEPT ![c] = IF DOMAIN todo # {} THEN [@ EXCEPT !.todo = todo, !.rest = lost]
                                       ELSE IF lost = {} THEN Idle
                                       ELSE [@ EXCEPT !.step = "status", !.todo = << >>, !.rest = lost]]
    BY <1>5 DEF Scan
  <2> DEFINE todo == Restrict(op.todo, DOMAIN op.todo \ {v})
             lost == op.rest \cup (IF Absent(v, op.todo[v]) THEN {v} ELSE {})
             more == [op EXCEPT !.todo = todo, !.rest = lost]
             last == [op EXCEPT !.step = "status", !.todo = << >>, !.rest = lost]
  <2>2. ops'[c] \in {more, Idle, last}
    BY <1>1, <2>1
  <2>3. DOMAIN todo \subseteq DOMAIN op.todo
    BY DEF Restrict
  <2>4. more.video = op.video /\ more.todo = todo /\ last.video = op.video /\ last.todo = << >>
    <3> HIDE DEF todo, lost, op
    <3> QED
      BY <1>1 DEF Op
  <2>5. Idle.video = NoVideo /\ Idle.todo = << >>
    BY DEF Idle
  <2> HIDE DEF more, last, todo
  <2> QED
    BY <1>1, <2>2, <2>3, <2>4, <2>5 DEF Plays
<1>6. CASE MarkMissing(c)
  <2>1. PICK v \in op.rest :
          ops' = [ops EXCEPT ![c] = IF op.rest \ {v} = {} THEN Idle
                                    ELSE [@ EXCEPT !.rest = op.rest \ {v}]]
    BY <1>6 DEF MarkMissing
  <2> DEFINE more == [op EXCEPT !.rest = op.rest \ {v}]
  <2>2. ops'[c] \in {more, Idle}
    BY <1>1, <2>1
  <2>3. more.video = op.video /\ more.todo = op.todo
    <3> HIDE DEF op
    <3> QED
      BY <1>1 DEF Op
  <2>4. Idle.video = NoVideo /\ Idle.todo = << >>
    BY DEF Idle
  <2> HIDE DEF more
  <2> QED
    BY <1>1, <2>2, <2>3, <2>4 DEF Plays
<1>7. CASE Pick(c)
  BY <1>7, StartPlays DEF Starts
<1>8. CASE MoveFile(c) \/ Verify(c) \/ Record(c) \/ Mark(c) \/ Rollback(c)
  BY <1>2, <1>8 DEF MoveFile, Verify, Record, NotRecorded, Mark, Rollback, StepNames
<1>9. CASE Unlink(c) \/ SeeThumb(c) \/ DropThumb(c) \/ Erase(c) \/ DatabaseError(c)
  BY <1>2, <1>9 DEF Unlink, SeeThumb, DropThumb, Erase, DatabaseError, NotRecorded, StepNames
<1>10. CASE LookInCache(c) \/ Probe(c) \/ Fetch(c) \/ Frame(c) \/ WriteThumb(c)
  BY <1>2, <1>10 DEF LookInCache, Probe, Fetch, Frame, WriteThumb, StepNames
<1> QED
  BY <1>3, <1>4, <1>5, <1>6, <1>7, <1>8, <1>9, <1>10 DEF Step

Busy == {c \in Clients : ~At(c, "idle")}

\* Who takes a step is being served, and does not change the scene.
LEMMA StepScene ==
  ASSUME NEW c \in Clients, Step(c)
  PROVE  scene' = scene /\ c \in Busy
<1> USE DEF At, Busy
<1>1. CASE Check(c) \/ MoveFile(c) \/ Verify(c) \/ Record(c) \/ Mark(c) \/ Rollback(c)
  BY <1>1 DEF Check, MoveFile, Verify, Record, Mark, Rollback
<1>2. CASE Look(c) \/ Unlink(c) \/ SeeThumb(c) \/ DropThumb(c) \/ Erase(c)
  BY <1>2 DEF Look, Unlink, SeeThumb, DropThumb, Erase
<1>3. CASE LookInCache(c) \/ Probe(c) \/ Fetch(c) \/ Frame(c) \/ WriteThumb(c)
  BY <1>3 DEF LookInCache, Probe, Fetch, Frame, WriteThumb
<1>4. CASE Scan(c)
  BY <1>4 DEF Scan
<1>5. CASE MarkMissing(c)
  BY <1>5 DEF MarkMissing
<1>6. CASE Pick(c)
  BY <1>6 DEF Pick
<1>7. CASE DatabaseError(c)
  BY <1>7 DEF DatabaseError
<1> QED
  BY <1>1, <1>2, <1>3, <1>4, <1>5, <1>6, <1>7 DEF Step

\* It leaves the other requests what they are.
LEMMA StepOthers ==
  ASSUME TypeOK, NEW c \in Clients, Step(c), NEW d \in Clients \ {c}
  PROVE  ops'[d] = ops[d]
<1> USE DEF Goto, Done, NextVideo, NotRecorded
<1>0. ops \in [Clients -> Op]
  BY DEF TypeOK
<1>1. CASE Check(c) \/ MoveFile(c) \/ Verify(c) \/ Record(c) \/ Mark(c) \/ Rollback(c)
  BY <1>0, <1>1 DEF Check, MoveFile, Verify, Record, Mark, Rollback
<1>2. CASE Look(c) \/ Unlink(c) \/ SeeThumb(c) \/ DropThumb(c) \/ Erase(c)
  BY <1>0, <1>2 DEF Look, Unlink, SeeThumb, DropThumb, Erase
<1>3. CASE LookInCache(c) \/ Probe(c) \/ Fetch(c) \/ Frame(c) \/ WriteThumb(c)
  BY <1>0, <1>3 DEF LookInCache, Probe, Fetch, Frame, WriteThumb
<1>4. CASE Scan(c)
  BY <1>0, <1>4 DEF Scan
<1>5. CASE MarkMissing(c)
  BY <1>0, <1>5 DEF MarkMissing
<1>6. CASE Pick(c)
  BY <1>0, <1>6 DEF Pick
<1>7. CASE DatabaseError(c)
  BY <1>0, <1>7 DEF DatabaseError
<1> QED
  BY <1>1, <1>2, <1>3, <1>4, <1>5, <1>6, <1>7 DEF Step

\* No step takes the scene, or the videos, away from it.
LEMMA StageStep ==
  ASSUME TypeOK, OpsOrder, OnStage, [Next]_vars
  PROVE  OnStage' /\ scene' = scene
<1>0. rows' \subseteq rows
  BY RowsShrink
<1>1. /\ scene' = scene
      /\ \A c \in Clients : ops'[c] = ops[c] \/ Plays(ops'[c], scene.videos)
  <2>1. ASSUME NEW c \in Clients, Turn(c), Plays(ops'[c], scene.videos)
        PROVE  \A d \in Clients : ops'[d] = ops[d] \/ Plays(ops'[d], scene.videos)
    BY <2>1 DEF Turn
  <2>2. ASSUME NEW c \in Clients, Starts(c)
        PROVE  scene' = scene /\ Turn(c)
    BY <2>2, StartTurn
  <2>3. ASSUME NEW c \in Clients, Step(c)
        PROVE  scene' = scene
    BY <2>3, StepScene
  <2>4. ASSUME NEW c \in Clients, Step(c)
        PROVE  \A d \in Clients \ {c} : ops'[d] = ops[d]
    BY <2>4, StepOthers
  <2>5. CASE \E c \in Clients : Starts(c)
    BY <2>1, <2>2, <2>5, StartPlays
  <2>6. CASE \E c \in Clients : Step(c)
    BY <2>3, <2>4, <2>6, StepPlays
  <2>7. CASE \E v \in Videos : DeleteRow(v) \/ RestoreRow(v) \/ EraseRow(v)
    BY <2>7 DEF DeleteRow, RestoreRow, EraseRow
  <2>8. CASE Crash
    BY <2>8 DEF Crash, Plays, Idle
  <2>9. CASE UNCHANGED vars
    BY <2>9 DEF vars
  <2> QED
    BY <2>5, <2>6, <2>7, <2>8, <2>9 DEF Next, Starts
<1>2. \A p \in DOMAIN files' : files'[p] \in scene.videos
  <2>1. \A p \in DOMAIN files : files[p] \in scene.videos
    BY DEF OnStage
  <2>2. ASSUME NEW p \in DOMAIN files, NEW q, files' = Moved(p, q)
        PROVE  \A x \in DOMAIN files' : files'[x] \in scene.videos
    BY <2>1, <2>2 DEF Moved
  <2>3. ASSUME NEW p, files' = Without(p)
        PROVE  \A x \in DOMAIN files' : files'[x] \in scene.videos
    BY <2>1, <2>3, WithoutFiles
  <2> QED
    BY <2>1, <2>2, <2>3, FilesStep DEF Exists
<1> QED
  BY <1>0, <1>1, <1>2 DEF OnStage

-----------------------------------------------------------------------------
(***************************************************************************)
(* The theorems.                                                           *)
(***************************************************************************)

\* At first each video's file is at its path.
LEMMA FilesInit ==
  ASSUME Init
  PROVE  /\ \A p \in DOMAIN files : files[p] \in Videos /\ p = Library(Inbox[files[p]])
         /\ \A v \in rows : Holds(path[v], v)
<1>1. rows \subseteq Videos
  BY FineInit DEF TypeOK
<1>2. DOMAIN files = {Library(Inbox[v]) : v \in rows}
  BY DEF Init
<1>3. \A p \in DOMAIN files : files[p] = CHOOSE v \in Videos : p = Library(Inbox[v])
  BY DEF Init
<1>4. ASSUME NEW p \in DOMAIN files
      PROVE  files[p] \in Videos /\ p = Library(Inbox[files[p]])
  <2>1. \E v \in Videos : p = Library(Inbox[v])
    BY <1>1, <1>2
  <2> QED
    BY <1>3, <2>1
<1>5. ASSUME NEW v \in rows
      PROVE  Holds(path[v], v)
  <2>1. path[v] = Library(Inbox[v]) /\ path[v] \in DOMAIN files
    BY <1>1, <1>2 DEF Init
  <2>2. files[path[v]] \in Videos /\ path[v] = Library(Inbox[files[path[v]]])
    BY <1>4, <2>1
  <2>3. Inbox[v] = Inbox[files[path[v]]]
    BY <2>1, <2>2 DEF Library
  <2>4. files[path[v]] = v
    BY <1>1, <2>2, <2>3, FilesAssumption
  <2> QED
    BY <2>1, <2>4 DEF Holds, Exists
<1> QED
  BY <1>4, <1>5

\* At first they are on it.
LEMMA StageInit == Init => OnStage
<1> SUFFICES ASSUME Init PROVE OnStage
  OBVIOUS
<1>1. rows = scene.videos /\ \A c \in Clients : ops[c] = Idle
  BY DEF Init
<1>2. \A p \in DOMAIN files : files[p] \in rows
  <2> TAKE p \in DOMAIN files
  <2>1. PICK v \in rows : p = Library(Inbox[v])
    BY DEF Init
  <2>2. files[p] \in Videos /\ p = Library(Inbox[files[p]]) /\ v \in Videos
    BY FilesInit, FineInit DEF TypeOK
  <2>3. Inbox[v] = Inbox[files[p]]
    BY <2>1, <2>2 DEF Library
  <2> QED
    BY <2>2, <2>3, FilesAssumption
<1> QED
  BY <1>1, <1>2 DEF OnStage, Plays, Idle

\* What holds whatever the names are: at first.
LEMMA BasicsInit == Init => Basics
<1> SUFFICES ASSUME Init PROVE Basics
  OBVIOUS
<1>1. TypeOK /\ OpsOrder
  BY FineInit
<1>2. OneFileEach
  BY FilesInit DEF OneFileEach
<1>3. ThumbOrder
  <2>1. thumbs = {}
    BY DEF Init
  <2> QED
    BY <2>1 DEF ThumbOrder, ThumbHasRow
<1> QED
  BY <1>1, <1>2, <1>3, StageInit DEF Basics

\* What holds whatever the names are: in every step.
LEMMA BasicsStep == Basics /\ [Next]_vars => Basics'
<1> SUFFICES ASSUME Basics, [Next]_vars PROVE Basics'
  OBVIOUS
<1>1. TypeOK /\ OpsOrder /\ OneFileEach /\ ThumbOrder /\ OnStage
  BY DEF Basics
<1>2. (TypeOK /\ OpsOrder)'
  BY <1>1, FineNext, Fine
<1> QED
  BY <1>1, <1>2, OneFileStep, ThumbStep, StageStep DEF Basics

\* Whatever the names of the videos are, rows, requests and files keep their
\* types, no request leaves a second copy of a video's file, and no thumbnail
\* outlives its video but in the two ways that are known: the moves, rollbacks
\* and restores of file_manager.py and hard_delete() with the thumbnails.
THEOREM BasicsCorrect == Spec => [](TypeOK /\ OneFileEach /\ ThumbHasRow)
<1>1. Basics => TypeOK /\ OneFileEach /\ ThumbHasRow
  BY DEF Basics, ThumbOrder
<1> QED
  BY BasicsInit, BasicsStep, <1>1, PTL DEF Spec

\* The inductive invariant of videos whose names are apart.
LEMMA IInvInit == NamesApart /\ Init => IInv
<1> SUFFICES ASSUME NamesApart, Init PROVE IInv
  OBVIOUS
<1>1. Basics
  BY BasicsInit
<1>2. FileNames
  BY FilesInit, PlaceOps DEF FileNames
<1>3. \A c \in Clients : ops[c] = Idle
  BY DEF Init
<1>4. RepairOrder
  <2>1. missing = {}
    BY DEF Init
  <2>2. \A c \in Clients : ops[c].kind # "repair"
    BY <1>3 DEF Idle
  <2> QED
    BY <2>1, <2>2 DEF RepairOrder, Lost
<1>5. CarryOrder
  <2> SUFFICES ASSUME NEW v \in rows \ broken PROVE Followed(v)
    BY DEF CarryOrder
  <2>1. Holds(path[v], v)
    BY FilesInit
  <2>2. ~Gone(v)
    BY <2>1 DEF Gone, Holds, Exists
  <2>3. \A c \in Clients : ~Carrier(c, v) /\ ~Mover(c, v)
    BY <1>3 DEF Carrier, Mover, Idle, MoveKinds
  <2> QED
    BY <2>1, <2>2, <2>3 DEF Followed
<1> QED
  BY <1>1, <1>2, <1>4, <1>5 DEF IInv

\* It is preserved by every step.
LEMMA IInvStep == NamesApart /\ IInv /\ [Next]_vars => IInv'
<1> SUFFICES ASSUME NamesApart, IInv, [Next]_vars PROVE IInv'
  OBVIOUS
<1>1. Basics /\ FileNames /\ RepairOrder /\ CarryOrder
  BY DEF IInv
<1>2. TypeOK /\ OpsOrder /\ OneFileEach /\ OnStage
  BY <1>1 DEF Basics
<1>3. Basics'
  BY <1>1, BasicsStep
<1>4. FileNames'
  BY <1>1, <1>2, OwnFiles
<1> QED
  BY <1>1, <1>2, <1>3, <1>4, RepairStep, CarryStep DEF IInv

\* Whatever the names are, and what holds where they are apart: which they
\* are in every state or in none.
KInv == Basics /\ (NamesApart => IInv)

LEMMA KInvInit == Init => KInv
BY BasicsInit, IInvInit DEF KInv

LEMMA KInvStep == KInv /\ [Next]_vars => KInv'
<1> SUFFICES ASSUME KInv, [Next]_vars PROVE KInv'
  OBVIOUS
<1>1. scene' = scene
  BY StageStep DEF KInv, Basics
<1>2. NamesApart' <=> NamesApart
  BY <1>1 DEF NamesApart
<1> QED
  BY <1>2, BasicsStep, IInvStep DEF KInv

\* Rows, requests, files and what is derived from them are in order when the
\* videos' names are apart: one file for each video, no thumbnail without its
\* row, and none marked missing by repair_library() that is where its row says.
THEOREM InvCorrect == Spec => []Inv
<1>1. KInv => Inv
  BY DEF KInv, IInv, Basics, ThumbOrder, RepairOrder, Lost, MissingIsLost, Inv
<1> QED
  BY KInvInit, KInvStep, <1>1, PTL DEF Spec

\* A video's file is found from its row: stale paths, lost races and failed
\* moves of organize(), soft_delete(), restore() and hard_delete() never part
\* them, unless requests move it to and fro at the same time.
THEOREM RowFindsFileCorrect == Spec => []RowFindsFile
<1>1. KInv => RowFindsFile
  <2> SUFFICES ASSUME KInv, NamesApart, NEW v \in rows \ broken
               PROVE  \/ Holds(path[v], v)
                      \/ \E c \in Clients :
                           /\ ops[c].video = v
                           /\ \/ ops[c].step \in {"thumb", "unthumb", "erase"}
                              \/ ops[c].step \in {"verify", "record", "rollback"}
                                 /\ Holds(ops[c].to, v)
    BY DEF RowFindsFile
  <2>1. Followed(v)
    BY DEF KInv, IInv, CarryOrder
  <2> QED
    BY <2>1 DEF Followed, Carrier, Eraser, EraseSteps
<1> QED
  BY KInvInit, KInvStep, <1>1, PTL DEF Spec

\* What a request saw before it moves a file, or left behind, is still so.
Sees(op) ==
  /\ op.step = "move" /\ op.kind # "delete" => ~Exists(op.to)
  /\ op.step \in {"verify", "rollback"} => ~Exists(op.from)
  /\ op.step = "record" /\ op.kind = "organize" => ~Exists(op.from)

\* Requests that are served one at a time.
Solo ==
  scene.slots < 2 =>
    /\ \A c, d \in Busy : c = d
    /\ \A c \in Clients : Sees(ops[c])

\* A request begins in a scene of one at a time when nobody is served.
LEMMA NobodyBusy ==
  ASSUME TypeOK, scene.slots < 2, Cardinality(Busy) < scene.slots
  PROVE  Busy = {}
<1>1. scene.slots \in Nat
  BY FilesAssumption DEF TypeOK
<1>2. IsFiniteSet(Busy)
  BY FilesAssumption, FS_Subset DEF Busy
<1>3. Cardinality(Busy) \in Nat
  BY <1>2, FS_CardinalityType
<1>4. Cardinality(Busy) = 0
  BY <1>1, <1>3
<1> QED
  BY <1>2, <1>4, FS_EmptySet

\* The step of one request, nobody else being served.
LEMMA SoloTurn ==
  ASSUME Solo, scene' = scene, NEW c \in Clients, Turn(c), Busy \subseteq {c},
         scene.slots < 2 => Sees(ops[c])'
  PROVE  Solo'
<1>1. SUFFICES ASSUME scene.slots < 2
               PROVE  (\A d, e \in Busy : d = e)' /\ \A d \in Clients : Sees(ops[d])'
  BY DEF Solo
<1>2. \A d \in Clients \ {c} : ops'[d] = ops[d] /\ ops[d].step = "idle"
  BY DEF Turn, Busy, At
<1>3. Busy' \subseteq {c}
  BY <1>2 DEF Busy, At
<1>4. ASSUME NEW d \in Clients \ {c} PROVE Sees(ops[d])'
  BY <1>2, <1>4 DEF Sees
<1> QED
  BY <1>1, <1>3, <1>4

\* A request that moves no file.
LEMMA ApartSees ==
  ASSUME NEW c \in Clients, Turn(c), ops'[c].kind \notin MoveKinds
  PROVE  Sees(ops[c])'
<1>1. WellFormed(ops'[c])
  BY DEF Turn, OpsFine
<1>2. ops'[c].step \notin MoveSteps
  BY <1>1, StepKind
<1> QED
  BY <1>2 DEF Sees, MoveSteps

\* A request begins when there is room for one more.
LEMMA StartsFree ==
  ASSUME NEW c \in Clients, Starts(c)
  PROVE  Cardinality(Busy) < scene.slots \/ c \in Busy
<1>1. CASE Pick(c)
  BY <1>1 DEF Pick, Busy, At
<1>2. CASE \E kind, op : Begin(c, kind, op)
  BY <1>2 DEF Begin, Busy
<1>3. ASSUME NEW v \in Videos,
             BeginOrganize(c, v) \/ BeginDelete(c, v) \/ BeginRestore(c, v) \/ BeginPurge(c, v)
      PROVE  \E kind, op : Begin(c, kind, op)
  BY <1>3 DEF BeginOrganize, BeginDelete, BeginRestore, BeginPurge
<1>4. ASSUME NEW v \in Videos, BeginThumbnail(c, v)
      PROVE  \E kind, op : Begin(c, kind, op)
  BY <1>4 DEF BeginThumbnail
<1>5. ASSUME NEW v \in Videos, NEW list \in SUBSET scene.videos, NEW hard \in BOOLEAN,
             BeginResolve(c, v, list, hard)
      PROVE  \E kind, op : Begin(c, kind, op)
  BY <1>5 DEF BeginResolve
<1>6. ASSUME BeginEmptyTrash(c) \/ BeginRepair(c)
      PROVE  \E kind, op : Begin(c, kind, op)
  BY <1>6 DEF BeginEmptyTrash, BeginRepair
<1> QED
  BY <1>1, <1>2, <1>3, <1>4, <1>5, <1>6 DEF Starts

\* What one request sees: when it starts, with others served or not.
LEMMA StartSees ==
  ASSUME TypeOK, OpsOrder, NEW c \in Clients, Starts(c)
  PROVE  /\ Turn(c) /\ scene' = scene /\ Sees(ops[c])'
         /\ Cardinality(Busy) < scene.slots \/ c \in Busy
<1>1. Turn(c) /\ Starting(ops'[c]) /\ scene' = scene
  BY StartTurn
<1>2. CASE Apart(ops'[c])
  <2>1. Sees(ops[c])'
    BY <1>1, <1>2, ApartSees DEF Apart
  <2> QED
    BY <1>1, <2>1, StartsFree
<1>3. CASE ~Apart(ops'[c])
  <2>1. ops'[c].step = "check" \/ (ops'[c].step = "move" /\ ops'[c].kind = "delete")
    BY <1>1, <1>3 DEF Starting
  <2>2. Sees(ops[c])'
    BY <2>1 DEF Sees
  <2> QED
    BY <1>1, <2>2, StartsFree
<1> QED
  BY <1>2, <1>3

\* And in its further steps.
LEMMA StepSees ==
  ASSUME TypeOK, OpsOrder, NEW c \in Clients, Step(c), Sees(ops[c])
  PROVE  Turn(c) /\ scene' = scene /\ Sees(ops[c])' /\ c \in Busy
<1> USE DEF table, derived, history
<1>1. scene' = scene /\ c \in Busy
  BY StepScene
<1>2. ASSUME Done(c) PROVE Turn(c) /\ Sees(ops[c])'
  BY <1>2, HelpersTurn, ApartSees DEF Apart
<1>3. CASE LookInCache(c) \/ Probe(c) \/ Fetch(c) \/ Frame(c) \/ WriteThumb(c)
  BY <1>1, <1>3, ThumbnailTurn, ApartSees DEF Apart
<1>4. CASE Scan(c) \/ MarkMissing(c)
  BY <1>1, <1>4, RepairTurn, ApartSees DEF Apart
<1>5. CASE Look(c)
  <2>1. Turn(c) /\ ops'[c].kind \notin MoveKinds
    BY <1>5, LookTurn DEF MoveKinds
  <2> QED
    BY <1>1, <2>1, ApartSees
<1>6. CASE Check(c)
  <2>1. Turn(c)
    BY <1>6, CheckTurn
  <2>2. CASE Exists(ops[c].from) /\ Free(ops[c].to)
    <3>1. files' = files /\ ~Exists(ops[c].to)
      BY <1>6, <2>2 DEF Check, Free
    <3>2. CASE Apart(ops'[c])
      BY <1>1, <2>1, <3>2, ApartSees DEF Apart
    <3>3. CASE ops'[c].step = "move" /\ ops'[c].to = ops[c].to
      <4>1. Sees(ops[c])'
        BY <3>1, <3>3 DEF Sees, Exists
      <4> QED
        BY <1>1, <2>1, <4>1
    <3> QED
      BY <1>6, <3>2, <3>3, CheckTurn
  <2>3. CASE ~(Exists(ops[c].from) /\ Free(ops[c].to))
    <3>1. Done(c)
      BY <1>6, <2>3 DEF Check
    <3> QED
      BY <1>1, <1>2, <3>1
  <2> QED
    BY <2>2, <2>3
<1>7. CASE MoveFile(c)
  <2>1. ops[c].step = "move" /\ ops[c].step \in MoveSteps
    BY <1>7 DEF MoveFile, At, MoveSteps
  <2>2. CASE Exists(ops[c].from)
    <3> DEFINE s == IF ops[c].kind = "organize" THEN "verify" ELSE "record"
    <3>1. files' = Moved(ops[c].from, ops[c].to) /\ Goto(c, s) /\ s \in MoveSteps
      BY <1>7, <2>2 DEF MoveFile, MoveSteps
    <3>2. /\ Turn(c) /\ ops'[c].step = s /\ ops'[c].kind = ops[c].kind
          /\ ops'[c].from = ops[c].from
      BY <2>1, <3>1, MoveTurn
    <3>3. ASSUME ops[c].kind = "organize" PROVE ~(Exists(ops[c].from)')
      <4>1. ~Exists(ops[c].to)
        BY <2>1, <3>3 DEF Sees
      <4>2. ops[c].from # ops[c].to
        BY <2>2, <4>1
      <4>3. DOMAIN files' = (DOMAIN files \ {ops[c].from}) \cup {ops[c].to}
        BY <3>1 DEF Moved
      <4> QED
        BY <3>2, <4>2, <4>3 DEF Exists
    <3>4. Sees(ops[c])'
      BY <3>2, <3>3 DEF Sees
    <3> QED
      BY <1>1, <3>2, <3>4
  <2>3. CASE ~Exists(ops[c].from)
    <3>1. Done(c)
      BY <1>7, <2>3 DEF MoveFile
    <3> QED
      BY <1>1, <1>2, <3>1
  <2> QED
    BY <2>2, <2>3
<1>8. ASSUME ops[c].step \in MoveSteps, files' = files, ~Exists(ops[c].from),
             NEW s \in {"record", "rollback"}, Goto(c, s)
      PROVE  Turn(c) /\ Sees(ops[c])'
  <2>1. Turn(c) /\ ops'[c].step = s /\ ops'[c].from = ops[c].from
    BY <1>8, MoveTurn DEF MoveSteps
  <2> QED
    BY <1>8, <2>1 DEF Sees, Exists
<1>9. CASE Verify(c)
  <2>1. /\ ops[c].step = "verify" /\ ops[c].step \in MoveSteps /\ files' = files
        /\ Goto(c, "record") \/ Goto(c, "rollback")
    BY <1>9 DEF Verify, At, MoveSteps
  <2>2. ~Exists(ops[c].from)
    BY <2>1 DEF Sees
  <2> QED
    BY <1>1, <1>8, <2>1, <2>2
<1>10. ASSUME ops[c].step = "record", NotRecorded(c), files' = files
       PROVE  Turn(c) /\ Sees(ops[c])'
  <2>1. CASE ops[c].kind = "organize"
    <3>1. Goto(c, "rollback") /\ ops[c].step \in MoveSteps /\ ~Exists(ops[c].from)
      BY <1>10, <2>1 DEF NotRecorded, MoveSteps, Sees
    <3> QED
      BY <1>8, <1>10, <3>1
  <2>2. CASE ops[c].kind # "organize"
    BY <1>2, <1>10, <2>2 DEF NotRecorded
  <2> QED
    BY <2>1, <2>2
<1>11. CASE Record(c)
  <2>1. ops[c].step = "record" /\ ops[c].step \in MoveSteps /\ files' = files
    BY <1>11 DEF Record, At, MoveSteps
  <2>2. Goto(c, "mark") \/ Done(c) \/ NotRecorded(c)
    BY <1>11 DEF Record
  <2>3. CASE Goto(c, "mark")
    <3>1. Turn(c) /\ ops'[c].step = "mark"
      BY <2>1, <2>3, MoveTurn DEF MoveSteps
    <3> QED
      BY <1>1, <3>1 DEF Sees
  <2> QED
    BY <1>1, <1>2, <1>10, <2>1, <2>2, <2>3
<1>12. CASE Mark(c) \/ Rollback(c)
  <2>1. Done(c)
    BY <1>12 DEF Mark, Rollback
  <2> QED
    BY <1>1, <1>2, <2>1
<1>13. ASSUME ops[c].step \in {"unlink"} \cup EraseSteps,
              \/ NextVideo(c)
              \/ Goto(c, "thumb") \/ Goto(c, "unthumb") \/ Goto(c, "erase")
       PROVE  Turn(c) /\ Sees(ops[c])'
  <2>1. CASE NextVideo(c)
    BY <1>13, <2>1, HelpersTurn, ApartSees DEF Apart
  <2>2. CASE Goto(c, "thumb") \/ Goto(c, "unthumb") \/ Goto(c, "erase")
    <3>1. Turn(c) /\ ops'[c].kind \notin MoveKinds
      BY <1>13, <2>2, EraseTurn DEF EraseSteps, MoveKinds
    <3> QED
      BY <3>1, ApartSees
  <2> QED
    BY <1>13, <2>1, <2>2
<1>14. CASE Unlink(c) \/ SeeThumb(c) \/ DropThumb(c) \/ Erase(c)
  <2>1. ops[c].step \in {"unlink"} \cup EraseSteps
    BY <1>14 DEF Unlink, SeeThumb, DropThumb, Erase, At, EraseSteps
  <2>2. NextVideo(c) \/ Goto(c, "thumb") \/ Goto(c, "unthumb") \/ Goto(c, "erase")
    BY <1>14 DEF Unlink, SeeThumb, DropThumb, Erase
  <2> QED
    BY <1>1, <1>13, <2>1, <2>2
<1>15. CASE Pick(c)
  BY <1>1, <1>15, StartSees DEF Starts
<1>16. CASE DatabaseError(c)
  <2>1. files' = files /\ ops[c].step \in {"record", "mark", "erase"}
    BY <1>16 DEF DatabaseError
  <2>2. CASE ops[c].step = "record"
    <3>1. NotRecorded(c)
      BY <1>16, <2>2 DEF DatabaseError, At
    <3> QED
      BY <1>1, <1>10, <2>1, <2>2, <3>1
  <2>3. CASE ops[c].step = "mark"
    <3>1. Done(c)
      BY <1>16, <2>3 DEF DatabaseError, At
    <3> QED
      BY <1>1, <1>2, <3>1
  <2>4. CASE ops[c].step = "erase"
    <3>1. NextVideo(c) /\ ops[c].step \in EraseSteps
      BY <1>16, <2>4 DEF DatabaseError, At, EraseSteps
    <3> QED
      BY <1>1, <1>13, <3>1
  <2> QED
    BY <2>1, <2>2, <2>3, <2>4
<1> QED
  BY <1>3, <1>4, <1>5, <1>6, <1>7, <1>9, <1>11, <1>12, <1>14, <1>15, <1>16 DEF Step

\* No request is disturbed where they are served one at a time.
LEMMA SoloStep == Basics /\ Solo /\ [Next]_vars => Solo'
<1> SUFFICES ASSUME Basics, Solo, [Next]_vars PROVE Solo'
  OBVIOUS
<1>0. TypeOK /\ OpsOrder
  BY DEF Basics
<1>1. ASSUME UNCHANGED <<ops, files, scene>> PROVE Solo'
  BY <1>1 DEF Solo, Busy, Sees, At, Exists
<1>2. ASSUME scene' = scene, ~(scene.slots < 2) PROVE Solo'
  BY <1>2 DEF Solo
<1>3. ASSUME NEW c \in Clients, Step(c) PROVE Solo'
  <2>1. CASE scene.slots < 2
    <3>1. Sees(ops[c])
      BY <2>1 DEF Solo
    <3>2. Turn(c) /\ scene' = scene /\ Sees(ops[c])' /\ c \in Busy
      BY <1>0, <1>3, <3>1, StepSees
    <3>3. Busy \subseteq {c}
      BY <2>1, <3>2 DEF Solo
    <3> QED
      BY <3>2, <3>3, SoloTurn
  <2>2. CASE ~(scene.slots < 2)
    <3>1. scene' = scene
      BY <1>3, StepScene
    <3> QED
      BY <1>2, <2>2, <3>1
  <2> QED
    BY <2>1, <2>2
<1>4. ASSUME NEW c \in Clients, Starts(c) PROVE Solo'
  <2>1. /\ Turn(c) /\ scene' = scene /\ Sees(ops[c])'
        /\ Cardinality(Busy) < scene.slots \/ c \in Busy
    BY <1>0, <1>4, StartSees
  <2>2. CASE scene.slots < 2
    <3>1. Busy \subseteq {c}
      <4>1. CASE Cardinality(Busy) < scene.slots
        BY <1>0, <2>2, <4>1, NobodyBusy
      <4>2. CASE c \in Busy
        BY <2>2, <4>2 DEF Solo
      <4> QED
        BY <2>1, <4>1, <4>2
    <3> QED
      BY <2>1, <3>1, SoloTurn
  <2> QED
    BY <1>2, <2>1, <2>2
<1>5. CASE \E v \in Videos : DeleteRow(v) \/ RestoreRow(v) \/ EraseRow(v)
  BY <1>1, <1>5 DEF DeleteRow, RestoreRow, EraseRow
<1>6. CASE Crash
  <2>1. scene' = scene /\ \A c \in Clients : ops'[c] = Idle
    BY <1>6 DEF Crash
  <2>2. Idle.step = "idle"
    BY DEF Idle
  <2>3. Busy' = {}
    BY <2>1, <2>2 DEF Busy, At
  <2>4. \A c \in Clients : Sees(ops[c])'
    BY <2>1, <2>2 DEF Sees
  <2> QED
    BY <2>1, <2>3, <2>4 DEF Solo
<1>7. CASE UNCHANGED vars
  BY <1>1, <1>7 DEF vars
<1> QED
  BY <1>3, <1>4, <1>5, <1>6, <1>7 DEF Next, Starts

LEMMA SoloInit == Init => Solo
<1> SUFFICES ASSUME Init PROVE Solo
  OBVIOUS
<1>1. \A c \in Clients : ops[c].step = "idle"
  BY DEF Init, Idle
<1> QED
  BY <1>1 DEF Solo, Busy, Sees, At

\* A rename loses no file but the one it replaces.
LEMMA MovedLoses ==
  ASSUME NEW p, NEW q, files' = Moved(p, q), NEW x \in DOMAIN files, p \in DOMAIN files,
         files[x] \notin Range(files')
  PROVE  x = q
<1>1. /\ DOMAIN files' = (DOMAIN files \ {p}) \cup {q}
      /\ \A z \in DOMAIN files' : files'[z] = IF z = q THEN files[p] ELSE files[z]
  BY DEF Moved
<1>2. q \in DOMAIN files' /\ files'[q] = files[p]
  BY <1>1
<1>3. x # p
  BY <1>2 DEF Range
<1>4. ASSUME x # q PROVE FALSE
  <2>1. x \in DOMAIN files' /\ files'[x] = files[x]
    BY <1>1, <1>3, <1>4
  <2> QED
    BY <2>1 DEF Range
<1> QED
  BY <1>4

\* Whatever the names are, a file is lost to an erasure or to what replaces it.
LEMMA LossStep ==
  ASSUME Basics, Solo, [Next]_vars, NEW p \in DOMAIN files, files[p] \notin Range(files')
  PROVE  \E c \in Clients :
           \/ At(c, "unlink") /\ p = ops[c].todo[ops[c].video]
           \/ Replaces(c, p)
<1>0. TypeOK /\ OpsOrder /\ scene.slots \in Nat
  BY FilesAssumption DEF Basics, TypeOK
<1>1. CASE files' = files
  BY <1>1 DEF Range
<1>2. ASSUME NEW c \in Clients, MoveFile(c), Exists(ops[c].from),
             files' = Moved(ops[c].from, ops[c].to)
      PROVE  Replaces(c, p)
  <2>1. p = ops[c].to
    BY <1>2, MovedLoses DEF Exists
  <2>2. At(c, "move") /\ Exists(ops[c].to)
    BY <1>2, <2>1 DEF MoveFile, Exists
  <2>3. ops[c].kind = "delete" \/ scene.slots > 1
    BY <1>0, <2>2 DEF Solo, Sees, At
  <2> QED
    BY <2>1, <2>2, <2>3 DEF Replaces
<1>3. ASSUME NEW c \in Clients, Rollback(c), Exists(ops[c].to),
             files' = Moved(ops[c].to, ops[c].from)
      PROVE  Replaces(c, p)
  <2>1. p = ops[c].from
    BY <1>3, MovedLoses DEF Exists
  <2>2. At(c, "rollback") /\ Exists(ops[c].from)
    BY <1>3, <2>1 DEF Rollback, Exists
  <2>3. scene.slots > 1
    BY <1>0, <2>2 DEF Solo, Sees, At
  <2> QED
    BY <2>1, <2>2, <2>3 DEF Replaces
<1>4. ASSUME NEW c \in Clients, Unlink(c), files' = Without(ops[c].todo[ops[c].video])
      PROVE  At(c, "unlink") /\ p = ops[c].todo[ops[c].video]
  <2>1. \A x \in DOMAIN files : x # ops[c].todo[ops[c].video]
          => x \in DOMAIN files' /\ files'[x] = files[x]
    BY <1>4 DEF Without, Restrict
  <2> QED
    BY <1>4, <2>1 DEF Unlink, Range
<1> QED
  BY <1>0, <1>1, <1>2, <1>3, <1>4, FilesStep

\* A video's file is lost to an erasure and to nothing else when the names are
\* apart; videos that share a path lose one to soft_delete(), which renames onto
\* what the trash holds, but to organize, restore and rollback only where
\* requests are served at once.
THEOREM FilesOutliveMovesCorrect == Spec => FilesOutliveMoves
<1> DEFINE Loss ==
      \A p \in DOMAIN files :
        files[p] \notin Range(files')
          => \E c \in Clients :
               \/ At(c, "unlink") /\ p = ops[c].todo[ops[c].video]
               \/ ~NamesApart /\ Replaces(c, p)
           LInv == KInv /\ Solo
<1>1. Init => LInv
  BY KInvInit, SoloInit
<1>2. LInv /\ [Next]_vars => LInv'
  BY KInvStep, SoloStep DEF KInv
<1>3. LInv /\ [Next]_vars => [Loss]_vars
  <2> SUFFICES ASSUME LInv, [Next]_vars PROVE Loss
    OBVIOUS
  <2>1. CASE NamesApart
    BY <2>1, OwnFiles DEF KInv, IInv, Basics
  <2>2. CASE ~NamesApart
    BY <2>2, LossStep DEF KInv
  <2> QED
    BY <2>1, <2>2
<1> QED
  BY <1>1, <1>2, <1>3, PTL DEF Spec, FilesOutliveMoves
=============================================================================
