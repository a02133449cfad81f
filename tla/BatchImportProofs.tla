--------------------------- MODULE BatchImportProofs ---------------------------
(***************************************************************************)
(* Theorems about BatchImport, for every set of items and titles, whatever *)
(* titles are taken for one another, any stock, offers and number of       *)
(* workers, and any number of requests, changes and faults.                *)
(*                                                                         *)
(* Fine says what a job is to the rows it made or took, to the lists it    *)
(* goes through and to the jobs it hands rows on to.                       *)
(***************************************************************************)
EXTENDS BatchImport, FiniteSetTheorems, TLAPS

Titled == {"nfo", "spotify"}   \* imports that look for titles
Loops == Titled \cup {"list"}
Ones == {"imvdb", "discogs", "youtube"}
Walks == {"enrich", "refresh", "urls"}
OfRows == {"split", "enrich", "refresh", "fetch"}   \* their items are rows

Statuses == {"pending", "running", "completed", "failed", "cancelled"}
Steps == {"queued", "item", "look", "write", "renew", "link", "submit", "yield", "hand", "begin",
          "mark", "spread", "wait", "fetch", "record", "pass", "walk", "end", "done"}

JobType ==
  [kind : Kinds, items : Seq(Items) \cup Seq(Nat), skip : BOOLEAN, auto : BOOLEAN,
   status : Statuses, step : Steps, at : Nat \ {0}, row : Nat, batch : Seq(Nat),
   imported : Nat, skipped : Nat, failed : Nat, wanted : Nat,
   alone : BOOLEAN, whole : BOOLEAN]

Names == {i.imvdb : i \in Items} \cup {i.youtube : i \in Items} \cup {NoId}

RowType ==
  [title : Titles, imvdb : Names, youtube : Names, file : BOOLEAN,
   status : {"discovered", "pending_download", "downloaded"}, hidden : BOOLEAN,
   linked : BOOLEAN, by : Nat, giver : Nat, touched : BOOLEAN, sought : Titles]

ChildType == [kind : {"post", "pipeline", "download"}, row : Nat]

\* Which kinds of job are at which steps.
Course ==
  ({"queued", "end", "done"} \X Kinds)
  \cup ({"item"} \X Loops) \cup ({"look", "write", "link"} \X (Loops \cup Ones))
  \cup ({"renew"} \X {"list"}) \cup ({"submit"} \X ({"list"} \cup Ones))
  \cup ({"yield", "hand"} \X {"nfo"}) \cup ({"begin", "mark"} \X Ones)
  \cup ({"spread"} \X {"split"}) \cup ({"wait", "fetch"} \X {"fetch", "direct"})
  \cup ({"record", "pass"} \X {"fetch"}) \cup ({"walk"} \X Walks)

WellFormed(r) ==
  /\ r \in JobType /\ <<r.step, r.kind>> \in Course
  /\ r.step = "queued" => r.status \in {"pending", "cancelled"}
  /\ r.step = "done" => r.status \in {"completed", "failed", "cancelled"}
  /\ r.step \notin {"queued", "done"} => r.status \in {"running", "cancelled"}
  /\ r.kind \in OfRows => r.items \in Seq(Ids)
  /\ r.kind \notin OfRows => r.items \in Seq(Items)
  /\ r.row \in 0 .. Len(rows) /\ r.batch \in Seq(Ids)

\* Where a job is in its list.
Placed(r) ==
  /\ r.at \in 1 .. Len(r.items) + 1
  /\ r.step = "queued" => r.at = 1 /\ r.batch = << >> /\ r.row = 0
  /\ r.kind \in Ones \cup {"fetch"} => r.at = 1 /\ Len(r.items) = 1
  /\ r.step \in {"look", "write", "renew", "link", "submit"} => r.at <= Len(r.items)
  /\ r.kind \in Titled /\ r.step = "look" => r.skip

\* What it has counted.
Reckoned(r) ==
  r.kind \in Titled \cup Walks =>
    /\ r.at = r.imported + r.skipped + r.failed + 1
    /\ r.step = "end" \/ r.status = "completed" => r.at = Len(r.items) + 1

\* The row it works on, which is its own but for a selected video.
Holds(j, r) ==
  /\ r.step \in {"renew", "link", "submit"} => r.row # 0
  /\ r.step = "link" /\ r.kind # "list" => rows[r.row].by = j
  /\ r.kind \in Ones =>
       /\ r.step \in {"begin", "look", "write"} => r.row = 0
       /\ \A v \in Ids : v = r.row <=> rows[v].by = j

\* Rows that it made and that have their artists, the one at work apart.
LinkedBy(j, r) ==
  {v \in Ids : rows[v].by = j /\ rows[v].linked /\ ~(r.step = "link" /\ v = r.row)}
Tally(j, r) == r.kind \in Titled => Cardinality(LinkedBy(j, r)) >= r.imported

\* The items that it is to import: those that its preview counted.
Wants(r, n) == r.skip => ~Exists(r.kind, r.items[n])
NoneTaken(r) ==
  \A m, n \in DOMAIN r.items : m < n => r.items[m].title \notin Alike(r.kind, r.items[n].title)
Expects(r) == r.kind \in Titled /\ r.alone /\ r.whole /\ r.failed = 0 /\ NoneTaken(r)
Promise(r, W) ==
  /\ Cardinality(W) = r.wanted
  /\ r.imported = Cardinality({n \in W : n < r.at})
  /\ \A n \in DOMAIN r.items : n > r.at => (n \in W <=> Wants(r, n))
  /\ r.step \in {"write", "link"} => r.at \in W
  /\ r.step \notin {"write", "link"} /\ r.at \in DOMAIN r.items => (r.at \in W <=> Wants(r, r.at))
Foresees(r) ==
  Expects(r) =>
    /\ r.step # "done" => \E W \in SUBSET DOMAIN r.items : Promise(r, W)
    /\ r.status = "completed" => r.imported = r.wanted

\* What it looked for is still not there.
Unseen(r) ==
  r.kind \in Titled /\ r.skip /\ r.whole /\ r.alone /\ r.step = "write"
    => ~Exists(r.kind, r.items[r.at])

HandedOn(what, v) == \E c \in DOMAIN children : children[c].kind = what /\ children[c].row = v

\* The rows to which it gave a file are handed on or listed.
Gives(j, r) ==
  \A v \in Ids : rows[v].giver = j =>
    \/ HandedOn("post", v) \/ ~r.whole
    \/ r.kind = "nfo" /\ \E i \in DOMAIN r.batch : r.batch[i] = v
    \/ r.kind = "nfo" /\ r.step = "link" /\ v = r.row
    \/ r.kind = "fetch" /\ r.step = "pass" /\ v = r.items[1]
Batched(r) ==
  r.kind = "nfo" =>
    /\ r.step = "end" \/ r.status = "completed" => r.batch = << >>
    /\ r.step = "item" /\ r.at > Len(r.items) => r.batch = << >>

\* And those that wait for a download.
Awaits(j, r) ==
  r.kind \in Ones =>
    \A v \in Ids : rows[v].by = j /\ rows[v].status = "pending_download" =>
      HandedOn("download", v) \/ r.step = "submit" \/ ~r.whole

Fine(j, r) ==
  /\ WellFormed(r) /\ Placed(r) /\ Reckoned(r) /\ Holds(j, r)
  /\ Tally(j, r) /\ Foresees(r) /\ Unseen(r)
  /\ Gives(j, r) /\ Batched(r) /\ Awaits(j, r)

\* An import that is alone is the only job at work.
Lonely(j) ==
  jobs[j].alone /\ Kind(j) \in Titled /\ Active(j) => \A k \in Jobs \ {j} : ~Active(k)

JobsFine == jobs \in Seq(JobType) /\ \A j \in Jobs : Fine(j, jobs[j]) /\ Lonely(j)

RowsFine ==
  /\ rows \in Seq(RowType)
  /\ \A v \in Ids :
       /\ rows[v].by \in 0 .. Len(jobs) /\ rows[v].giver \in 0 .. Len(jobs)
       /\ rows[v].giver # 0 => rows[v].file
       /\ rows[v].hidden => rows[v].touched
       /\ rows[v].status = "pending_download" => rows[v].by # 0 /\ Kind(rows[v].by) \in Ones

ChildrenFine == children \in Seq(ChildType) /\ \A c \in DOMAIN children : children[c].row \in Ids

Bounded == changes \in 0 .. MaxEvents /\ faults \in 0 .. MaxEvents

BatchIInv == JobsFine /\ RowsFine /\ ChildrenFine /\ Bounded /\ TwinsFromRaces

----------------------------------------------------------------------------
(* Rows and lists of jobs that others leave alone.                         *)

\* What a step of job j, or of a user if it is 0, makes of a row.
Stays(j, x, y) ==
  /\ y.by = x.by /\ y.sought = x.sought
  /\ x.linked => y.linked
  /\ x.touched => y.touched
  /\ y.title = x.title \/ y.touched
  /\ y.giver \in {0, x.giver, j}
  /\ y.status = "pending_download" => x.status = "pending_download" \/ x.by = j

RowsGo(j) ==
  /\ Ids \subseteq Ids'
  /\ \A v \in Ids : Stays(j, rows[v], rows'[v])
  /\ \A v \in Ids' \ Ids : rows'[v].by = j /\ rows'[v].giver \in {0, j}

ChildrenGo == \A what, v : HandedOn(what, v) => HandedOn(what, v)'

(* A list of some elements is a list of more. *)
LEMMA SeqWider ==
  ASSUME NEW S, NEW T, S \subseteq T, NEW s \in Seq(S)
  PROVE  s \in Seq(T)
<1>1. Len(s) \in Nat /\ s \in [1 .. Len(s) -> T]
  OBVIOUS
<1> QED
  BY <1>1

(* The ids are the numbers of the rows, and no row is lost. *)
LEMMA IdsFacts ==
  ASSUME RowsFine, RowsFine', NEW j, RowsGo(j)
  PROVE  /\ Len(rows) \in Nat /\ Ids = 1 .. Len(rows)
         /\ Len(rows)' \in Nat /\ Ids' = 1 .. Len(rows)'
         /\ Len(rows) <= Len(rows)'
         /\ \A v \in Ids : rows[v] \in RowType
         /\ \A v \in Ids' : rows'[v] \in RowType
<1>1. Len(rows) \in Nat /\ Ids = 1 .. Len(rows) /\ \A v \in Ids : rows[v] \in RowType
  BY DEF RowsFine, Ids
<1>2. Len(rows)' \in Nat /\ Ids' = 1 .. Len(rows)' /\ \A v \in Ids' : rows'[v] \in RowType
  BY DEF RowsFine, Ids
<1>3. Len(rows) # 0 => Len(rows) \in Ids'
  BY <1>1 DEF RowsGo
<1> QED
  BY <1>1, <1>2, <1>3

(* The rows that a job made and linked are not fewer afterwards. *)
LEMMA TallyKept ==
  ASSUME RowsFine, RowsFine', NEW j, RowsGo(j), NEW k, NEW r, r \in JobType, Tally(k, r)
  PROVE  Tally(k, r)'
<1>1. LinkedBy(k, r) \subseteq LinkedBy(k, r)'
  BY IdsFacts DEF LinkedBy, RowsGo, Stays
<1>2. IsFiniteSet(LinkedBy(k, r)')
  <2>1. LinkedBy(k, r)' \subseteq 1 .. Len(rows)'
    BY IdsFacts DEF LinkedBy
  <2>2. PICK n \in Nat : n = Len(rows)'
    BY IdsFacts
  <2>3. IsFiniteSet(1 .. n)
    BY FS_Interval
  <2> QED
    BY <2>1, <2>2, <2>3, FS_Subset
<1>3. /\ Cardinality(LinkedBy(k, r)) <= Cardinality(LinkedBy(k, r)')
      /\ Cardinality(LinkedBy(k, r)) \in Nat /\ Cardinality(LinkedBy(k, r)') \in Nat
  BY <1>1, <1>2, FS_Subset, FS_CardinalityType
<1>4. r.imported \in Nat
  BY DEF JobType
<1>5. r.kind \in Titled => Cardinality(LinkedBy(k, r)) >= r.imported
  BY DEF Tally
<1> QED
  BY <1>3, <1>4, <1>5 DEF Tally

\* The lookups of imports see the same.
SameSight ==
  /\ Ids' = Ids
  /\ \A v \in Ids : /\ rows'[v].title = rows[v].title /\ rows'[v].hidden = rows[v].hidden
                    /\ rows'[v].imvdb = rows[v].imvdb /\ rows'[v].youtube = rows[v].youtube

(* They find the same. *)
LEMMA SightKept ==
  ASSUME SameSight, NEW kind, NEW i
  PROVE  Exists(kind, i)' <=> Exists(kind, i)
  BY DEF SameSight, Exists, Match, Shown, Alike

\* What job k, at work as r says, made of rows is what it was to do.
Own(k, r) ==
  /\ Ids' = Ids
  /\ \A v \in Ids :
       /\ rows'[v].giver = k =>
            rows[v].giver = k \/ (r.kind = "fetch" /\ r.step = "pass" /\ v = r.items[1])
       /\ rows'[v].by = k /\ rows'[v].status = "pending_download" =>
            rows[v].status = "pending_download" \/ r.step = "submit"

(* A step of job j leaves what is said of another job, and of its own if   *)
(* it keeps to what it was to do.                                          *)
LEMMA RowsTurn ==
  ASSUME RowsFine, RowsFine', NEW j, RowsGo(j), ChildrenGo,
         NEW k \in Nat \ {0}, NEW r, k # j \/ Own(k, r), Fine(k, r),
         r.alone /\ r.kind \in Titled /\ r.step # "done" => SameSight
  PROVE  Fine(k, r)'
<1>1. /\ Len(rows) \in Nat /\ Ids = 1 .. Len(rows)
      /\ Len(rows)' \in Nat /\ Ids' = 1 .. Len(rows)'
      /\ Len(rows) <= Len(rows)'
      /\ \A v \in Ids : rows[v] \in RowType
      /\ \A v \in Ids' : rows'[v] \in RowType
  BY IdsFacts
<1>2. r \in JobType
  BY DEF Fine, WellFormed
<1>3. WellFormed(r)'
  <2>1. r.batch \in Seq(Ids) => r.batch \in Seq(Ids')
    BY <1>1, SeqWider DEF RowsGo
  <2>2. r.items \in Seq(Ids) => r.items \in Seq(Ids')
    BY <1>1, SeqWider DEF RowsGo
  <2>3. r.row \in 0 .. Len(rows) => r.row \in 0 .. Len(rows)'
    BY <1>1
  <2>4. WellFormed(r)
    BY DEF Fine
  <2> QED
    BY <2>1, <2>2, <2>3, <2>4 DEF WellFormed
<1>4. Placed(r)' /\ Reckoned(r)' /\ Batched(r)'
  BY DEF Fine, Placed, Reckoned, Batched
<1>5. Holds(k, r)'
  <2>1. Holds(k, r) /\ r.row \in 0 .. Len(rows)
    BY DEF Fine, WellFormed
  <2>2. r.step \in {"renew", "link", "submit"} => r.row # 0
    BY <2>1 DEF Holds
  <2>3. r.step = "link" /\ r.kind # "list" => rows'[r.row].by = k
    BY <2>1, <2>2, <1>1 DEF Holds, RowsGo, Stays
  <2>4. ASSUME r.kind \in Ones
        PROVE  /\ r.step \in {"begin", "look", "write"} => r.row = 0
               /\ \A v \in Ids' : v = r.row <=> rows'[v].by = k
    <3>1. \A v \in Ids : v = r.row <=> rows'[v].by = k
      BY <2>1, <2>4 DEF Holds, RowsGo, Stays
    <3>2. \A v \in Ids' \ Ids : v # r.row /\ rows'[v].by # k
      BY <2>1, <1>1 DEF RowsGo, Own
    <3> QED
      BY <3>1, <3>2, <2>1, <2>4 DEF Holds
  <2> QED
    BY <2>2, <2>3, <2>4 DEF Holds
<1>6. Tally(k, r)'
  BY <1>2, TallyKept DEF Fine
<1>7. Foresees(r)'
  <2>1. Foresees(r)
    BY DEF Fine
  <2>2. CASE r.step = "done"
    BY <2>1, <2>2 DEF Foresees, Expects, NoneTaken
  <2>3. CASE SameSight
    <3>1. \A n : Wants(r, n)' <=> Wants(r, n)
      BY <2>3, SightKept DEF Wants
    <3>2. \A W : Promise(r, W)' <=> Promise(r, W)
      BY <3>1 DEF Promise
    <3> QED
      BY <2>1, <3>2 DEF Foresees, Expects, NoneTaken
  <2> QED
    BY <2>1, <2>2, <2>3 DEF Foresees, Expects
<1>8. Unseen(r)'
  <2>1. Unseen(r)
    BY DEF Fine
  <2>2. CASE SameSight
    BY <2>1, <2>2, SightKept DEF Unseen
  <2> QED
    BY <2>1, <2>2 DEF Unseen
<1>9. Gives(k, r)'
  <2>1. Gives(k, r)
    BY DEF Fine
  <2>2. \A v \in Ids' : rows'[v].giver = k =>
          v \in Ids /\ (rows[v].giver = k \/ (r.kind = "fetch" /\ r.step = "pass" /\ v = r.items[1]))
    BY <1>1 DEF RowsGo, Stays, Own
  <2>3. \A v : HandedOn("post", v) => HandedOn("post", v)'
    BY DEF ChildrenGo
  <2> QED
    BY <2>1, <2>2, <2>3 DEF Gives
<1>10. Awaits(k, r)'
  <2>1. Awaits(k, r)
    BY DEF Fine
  <2>2. \A v \in Ids' : rows'[v].by = k /\ rows'[v].status = "pending_download" =>
          v \in Ids /\ rows[v].by = k /\ (rows[v].status = "pending_download" \/ r.step = "submit")
    BY <1>1 DEF RowsGo, Stays, Own
  <2>3. \A v : HandedOn("download", v) => HandedOn("download", v)'
    BY DEF ChildrenGo
  <2> QED
    BY <2>1, <2>2, <2>3 DEF Awaits
<1> QED
  BY <1>3, <1>4, <1>5, <1>6, <1>7, <1>8, <1>9, <1>10 DEF Fine

----------------------------------------------------------------------------
(* A step of one job.                                                      *)

(* Bounds on what is counted are kept. *)
LEMMA BoundKept ==
  ASSUME Bounded, UNCHANGED <<changes, faults>> \/ Fault \/ Changed
  PROVE  Bounded'
  BY BatchImportAssumption DEF Bounded, Fault, Changed

\* Row v is no twin of an earlier row but for the reasons that there are.
Apart(v) ==
  \A u \in Ids :
    LET j == rows[v].by
    IN (/\ u < v /\ j # 0
        /\ jobs[j].skip /\ jobs[j].whole
        /\ Kind(j) \in {"nfo", "spotify"} /\ rows[u].title \in Alike(Kind(j), rows[v].sought))
         => ~jobs[j].alone \/ rows[u].touched

\* What a step of job j keeps of it.
Goes(r, s) ==
  /\ s.kind = r.kind /\ s.skip = r.skip /\ s.alone = r.alone
  /\ s.whole => r.whole
  /\ r.step # "done"

(* The facts about a job that a step changes. *)
LEMMA OneJob ==
  ASSUME JobsFine, NEW j \in Jobs, NEW s \in JobType, jobs' = [jobs EXCEPT ![j] = s]
  PROVE  /\ Jobs' = Jobs /\ Len(jobs') = Len(jobs) /\ Len(jobs) \in Nat /\ Jobs = 1 .. Len(jobs)
         /\ jobs' \in Seq(JobType)
         /\ jobs'[j] = s
         /\ \A k \in Jobs \ {j} : jobs'[k] = jobs[k]
<1>1. jobs \in Seq(JobType)
  BY DEF JobsFine
<1> QED
  BY <1>1 DEF Jobs

(* What has been taken for no twin stays so. *)
LEMMA ApartKept ==
  ASSUME JobsFine, RowsFine, RowsFine', NEW j \in Jobs, NEW r, r = jobs[j], NEW s \in JobType,
         Goes(r, s), jobs' = [jobs EXCEPT ![j] = s], RowsGo(j), TwinsFromRaces,
         NEW v \in Ids
  PROVE  Apart(v)'
<1>1. /\ Len(rows) \in Nat /\ Ids = 1 .. Len(rows)
      /\ Len(rows)' \in Nat /\ Ids' = 1 .. Len(rows)'
  BY IdsFacts
<1>2. /\ Jobs = 1 .. Len(jobs) /\ jobs'[j] = s
      /\ \A k \in Jobs \ {j} : jobs'[k] = jobs[k]
  BY OneJob
<1>3. rows'[v].by = rows[v].by /\ rows'[v].sought = rows[v].sought /\ rows[v].by \in 0 .. Len(jobs)
  BY DEF RowsGo, Stays, RowsFine
<1>4. CASE rows[v].by = 0
  BY <1>3, <1>4 DEF Apart
<1>5. ASSUME rows[v].by \in Jobs, NEW u \in Ids', u < v,
             jobs'[rows[v].by].skip, jobs'[rows[v].by].whole,
             jobs'[rows[v].by].kind \in {"nfo", "spotify"},
             rows'[u].title \in Alike(jobs'[rows[v].by].kind, rows[v].sought)
      PROVE  ~jobs'[rows[v].by].alone \/ rows'[u].touched
  <2>1. u \in Ids
    BY <1>1, <1>5
  <2>2. /\ jobs[rows[v].by].skip /\ jobs[rows[v].by].whole
        /\ jobs[rows[v].by].kind = jobs'[rows[v].by].kind
        /\ jobs[rows[v].by].alone = jobs'[rows[v].by].alone
    BY <1>2, <1>5 DEF Goes
  <2>3. rows'[u].title = rows[u].title \/ rows'[u].touched
    BY <2>1 DEF RowsGo, Stays
  <2>4. rows[u].touched => rows'[u].touched
    BY <2>1 DEF RowsGo, Stays
  <2>5. rows[v].by # 0
    BY <1>5, <1>2
  <2> QED
    BY <2>1, <2>2, <2>3, <2>4, <2>5, <1>5 DEF TwinsFromRaces, Kind, Alike
<1>6. rows[v].by = 0 \/ rows[v].by \in Jobs
  BY <1>2, <1>3
<1>7. CASE rows[v].by \in Jobs
  BY <1>7, <1>5, <1>3 DEF Apart, Kind, Alike
<1> QED
  BY <1>4, <1>6, <1>7

(* A step of job j, with what it makes of the job, of the rows and of the  *)
(* children, keeps the invariant.                                          *)
LEMMA JobStep ==
  ASSUME BatchIInv, NEW j \in Jobs, NEW r, r = jobs[j], NEW s, Goes(r, s),
         jobs' = [jobs EXCEPT ![j] = s], Fine(j, s)',
         RowsGo(j), RowsFine', \A v \in Ids' \ Ids : Apart(v)',
         ChildrenGo, ChildrenFine',
         UNCHANGED <<changes, faults>> \/ Fault \/ Changed
  PROVE  BatchIInv'
<1>1. JobsFine /\ RowsFine /\ ChildrenFine /\ Bounded /\ TwinsFromRaces
  BY DEF BatchIInv
<1>2. s \in JobType
  BY DEF Fine, WellFormed
<1>3. /\ Jobs' = Jobs /\ Jobs = 1 .. Len(jobs) /\ Len(jobs) \in Nat
      /\ jobs' \in Seq(JobType) /\ jobs'[j] = s
      /\ \A k \in Jobs \ {j} : jobs'[k] = jobs[k]
  BY <1>1, <1>2, OneJob
<1>4. \A k \in Jobs : Lonely(k)
  BY <1>1 DEF JobsFine
<1>5. ASSUME NEW k \in Jobs PROVE Fine(k, jobs[k])' /\ Lonely(k)'
  <2>1. CASE k = j
    <3>1. Fine(k, jobs[k])'
      BY <1>3, <2>1
    <3>2. Lonely(k)'
      BY <1>3, <1>4, <2>1, ZenonT(40) DEF Lonely, Goes, Kind, Active
    <3> QED
      BY <3>1, <3>2
  <2>2. CASE k # j
    <3>1. PICK q : q = jobs[k]
      OBVIOUS
    <3>2. Fine(k, q)
      BY <3>1, <1>1 DEF JobsFine
    <3>3. ~(q.alone /\ q.kind \in Titled /\ q.step # "done")
      BY <3>1, <2>2, <1>4 DEF Lonely, Goes, Kind, Active
    <3>4. k \in Nat \ {0}
      BY <1>3
    <3>5. Fine(k, q)'
      BY <1>1, <2>2, <3>2, <3>3, <3>4, RowsTurn
    <3>6. Fine(k, jobs[k])'
      BY <1>3, <2>2, <3>1, <3>5
    <3>7. Lonely(k)'
      BY <1>3, <1>4, <2>2 DEF Lonely, Goes, Kind, Active
    <3> QED
      BY <3>6, <3>7
  <2> QED
    BY <2>1, <2>2
<1>6. JobsFine'
  BY <1>3, <1>5 DEF JobsFine
<1>7. TwinsFromRaces'
  <2>1. \A v \in Ids' : Apart(v)'
    BY <1>1, <1>2, ApartKept
  <2> QED
    BY <2>1 DEF TwinsFromRaces, Apart, Kind, Alike
<1> QED
  BY <1>1, <1>6, <1>7, BoundKept DEF BatchIInv

(* A step that changes nothing but the job. *)
LEMMA QuietStep ==
  ASSUME BatchIInv, NEW j \in Jobs, NEW r, r = jobs[j], NEW s, Goes(r, s),
         jobs' = [jobs EXCEPT ![j] = s], Fine(j, s), UNCHANGED <<rows, children>>,
         UNCHANGED <<changes, faults>> \/ Fault \/ Changed
  PROVE  BatchIInv'
<1>1. JobsFine /\ RowsFine /\ ChildrenFine
  BY DEF BatchIInv
<1>2. RowsFine'
  <2>1. s \in JobType
    BY DEF Fine, WellFormed
  <2>2. Len(jobs') = Len(jobs) /\ Jobs = 1 .. Len(jobs) /\ jobs'[j] = s
        /\ \A k \in Jobs \ {j} : jobs'[k] = jobs[k]
    BY <1>1, <2>1, OneJob
  <2>3. \A k \in Jobs : Kind(k)' = Kind(k)
    BY <2>2 DEF Kind, Goes
  <2>4. \A v \in Ids : rows[v].by # 0 => rows[v].by \in Jobs
    BY <1>1, <2>2 DEF RowsFine
  <2> QED
    BY <1>1, <2>2, <2>3, <2>4 DEF RowsFine, Ids
<1>3. ChildrenFine'
  BY <1>1 DEF ChildrenFine, Ids
<1>4. RowsGo(j)
  <2>1. Ids' = Ids
    BY DEF Ids
  <2>2. \A v \in Ids : Stays(j, rows[v], rows'[v])
    BY DEF Stays
  <2> QED
    BY <2>1, <2>2 DEF RowsGo
<1>5. ChildrenGo
  BY DEF ChildrenGo, HandedOn
<1>6. Fine(j, s)'
  <2>1. SameSight
    BY DEF SameSight, Ids
  <2>2. Own(j, s)
    BY DEF Own, Ids
  <2>3. j \in Nat \ {0}
    BY <1>1 DEF JobsFine, Jobs
  <2> QED
    BY <1>1, <1>2, <1>4, <1>5, <2>1, <2>2, <2>3, RowsTurn
<1>7. \A v \in Ids' \ Ids : Apart(v)'
  BY DEF Ids
<1> QED
  BY <1>2, <1>3, <1>4, <1>5, <1>6, <1>7, JobStep

----------------------------------------------------------------------------
(* Jobs that move on.                                                      *)

SameJob(r, s) ==
  /\ s.kind = r.kind /\ s.items = r.items /\ s.skip = r.skip /\ s.auto = r.auto
  /\ s.wanted = r.wanted /\ s.alone = r.alone
SamePlace(r, s) == s.at = r.at /\ s.row = r.row /\ s.batch = r.batch
SameCounts(r, s) ==
  s.imported = r.imported /\ s.skipped = r.skipped /\ s.failed = r.failed

\* A job at work as r says may go to step a, whole or cut short.
CanGo(r, a, whole) ==
  /\ r.step \notin {"queued", "done"} /\ a \notin {"queued", "done"}
  /\ <<a, r.kind>> \in Course
  /\ a \in {"look", "write", "renew", "link", "submit"} => r.at <= Len(r.items)
  /\ r.kind \in Titled /\ a = "look" => r.skip
  /\ r.kind \in Titled \cup Walks /\ a = "end" => r.at = Len(r.items) + 1
  /\ a \in {"renew", "link", "submit"} => r.row # 0
  /\ a = "link" => r.kind = "list"
  /\ r.kind \in Ones /\ a \in {"begin", "look", "write"} => r.row = 0
  /\ r.kind \in Titled => r.step \notin {"write", "link"}
  /\ r.kind \in Titled /\ a = "write" /\ whole => Wants(r, r.at) /\ r.at \in DOMAIN r.items
  /\ r.step \in {"pass", "submit"} => ~whole
  /\ r.kind = "nfo" /\ a = "end" => r.batch = << >>
  /\ r.kind = "nfo" /\ a = "item" /\ r.at > Len(r.items) => r.batch = << >>

(* The rows that a job made and linked when it works on none. *)
LEMMA TallyMoved ==
  ASSUME RowsFine, NEW j, NEW r \in JobType, NEW s \in JobType, Tally(j, r),
         s.kind = r.kind, s.imported = r.imported, s.step # "link" \/ s.kind = "list"
  PROVE  Tally(j, s)
<1>1. CASE r.kind \notin Titled
  BY <1>1 DEF Tally
<1>2. CASE r.kind \in Titled
  <2>1. LinkedBy(j, r) \subseteq LinkedBy(j, s)
    BY <1>2 DEF LinkedBy, Titled
  <2>2. PICK n \in Nat : n = Len(rows)
    BY DEF RowsFine
  <2>3. LinkedBy(j, s) \subseteq 1 .. n
    BY <2>2 DEF LinkedBy, RowsFine, Ids
  <2>4. IsFiniteSet(LinkedBy(j, s))
    <3>1. IsFiniteSet(1 .. n)
      BY FS_Interval
    <3> QED
      BY <2>3, <3>1, FS_Subset
  <2>5. /\ Cardinality(LinkedBy(j, r)) <= Cardinality(LinkedBy(j, s))
        /\ Cardinality(LinkedBy(j, r)) \in Nat /\ Cardinality(LinkedBy(j, s)) \in Nat
    BY <2>1, <2>4, FS_Subset, FS_CardinalityType
  <2>6. Cardinality(LinkedBy(j, r)) >= r.imported /\ r.imported \in Nat
    BY <1>2 DEF Tally, JobType
  <2> QED
    BY <2>5, <2>6 DEF Tally
<1> QED
  BY <1>1, <1>2

(* A job that goes on to another step is what it is to its rows. *)
LEMMA Moved ==
  ASSUME RowsFine, NEW j, NEW r, NEW s \in JobType, Fine(j, r),
         SameJob(r, s), SamePlace(r, s), SameCounts(r, s), s.status = r.status,
         s.whole => r.whole, CanGo(r, s.step, s.whole)
  PROVE  Fine(j, s)
<1>1. /\ WellFormed(r) /\ Placed(r) /\ Reckoned(r) /\ Holds(j, r) /\ Tally(j, r)
      /\ Foresees(r) /\ Unseen(r) /\ Gives(j, r) /\ Batched(r) /\ Awaits(j, r) /\ r \in JobType
  BY DEF Fine, WellFormed
<1>2. WellFormed(s)
  BY <1>1 DEF WellFormed, SameJob, SamePlace, CanGo
<1>3. Placed(s)
  BY <1>1 DEF Placed, SameJob, SamePlace, CanGo
<1>4. Reckoned(s)
  BY <1>1 DEF Reckoned, SameJob, SamePlace, SameCounts, CanGo, WellFormed
<1>5. Holds(j, s)
  BY <1>1 DEF Holds, SameJob, SamePlace, CanGo
<1>6. Tally(j, s)
  BY <1>1, TallyMoved DEF SameJob, SameCounts, CanGo
<1>7. Foresees(s)
  <2>1. \A n : Wants(s, n) <=> Wants(r, n)
    BY DEF Wants, SameJob
  <2>2. Expects(s) => Expects(r)
    BY DEF Expects, NoneTaken, SameJob, SameCounts
  <2>3. ASSUME Expects(s) PROVE \E W \in SUBSET DOMAIN s.items : Promise(s, W)
    <3>1. PICK W \in SUBSET DOMAIN r.items : Promise(r, W)
      BY <1>1, <2>2, <2>3 DEF Foresees, CanGo
    <3>2. s.step = "write" => s.at \in W
      BY <2>1, <2>3, <3>1 DEF Promise, CanGo, Expects, SameJob, SamePlace
    <3>3. s.step # "link"
      BY <2>3 DEF CanGo, Expects, Titled, SameJob
    <3>4. r.step \notin {"write", "link"}
      BY <2>2, <2>3 DEF CanGo, Expects
    <3>5. Promise(s, W)
      BY <2>1, <3>1, <3>2, <3>3, <3>4 DEF Promise, SameJob, SamePlace, SameCounts
    <3> QED
      BY <3>5 DEF SameJob
  <2>4. s.status # "completed"
    BY <1>1 DEF WellFormed, CanGo
  <2> QED
    BY <2>3, <2>4 DEF Foresees
<1>8. Unseen(s)
  BY DEF Unseen, CanGo, Wants, SameJob, SamePlace
<1>9. Gives(j, s)
  <2>1. CASE s.whole
    <3>1. ~(r.kind = "nfo" /\ r.step = "link") /\ r.step # "pass"
      BY <2>1 DEF CanGo, Titled
    <3> QED
      BY <1>1, <2>1, <3>1 DEF Gives, SameJob, SamePlace
  <2> QED
    BY <2>1 DEF Gives
<1>10. Batched(s)
  BY <1>1 DEF Batched, SameJob, SamePlace, CanGo, WellFormed
<1>11. Awaits(j, s)
  BY <1>1 DEF Awaits, SameJob, CanGo
<1> QED
  BY <1>2, <1>3, <1>4, <1>5, <1>6, <1>7, <1>8, <1>9, <1>10, <1>11 DEF Fine

(* A job that is cancelled or fails leaves rows only if it was cut short. *)
LEMMA CutShort ==
  ASSUME RowsFine, NEW j, NEW r, NEW s \in JobType, Fine(j, r),
         SameJob(r, s), SamePlace(r, s), SameCounts(r, s) \/ s.kind \notin Titled \cup Walks,
         s.step = "done", s.status \in {"failed", "cancelled"}, s.whole => r.whole,
         s.whole => ~(r.kind = "nfo" /\ r.step = "link") /\ r.step \notin {"pass", "submit"}
  PROVE  Fine(j, s)
<1>1. /\ WellFormed(r) /\ Placed(r) /\ Reckoned(r) /\ Holds(j, r) /\ Tally(j, r)
      /\ Foresees(r) /\ Unseen(r) /\ Gives(j, r) /\ Batched(r) /\ Awaits(j, r) /\ r \in JobType
  BY DEF Fine, WellFormed
<1>2. WellFormed(s)
  <2>1. s.kind \in Kinds
    BY DEF JobType
  <2>2. <<s.step, s.kind>> \in Course
    BY <2>1 DEF Course
  <2> QED
    BY <1>1, <2>2 DEF WellFormed, SameJob, SamePlace
<1>3. Placed(s)
  BY <1>1 DEF Placed, SameJob, SamePlace
<1>4. Reckoned(s)
  BY <1>1 DEF Reckoned, SameJob, SamePlace, SameCounts
<1>5. Holds(j, s)
  BY <1>1 DEF Holds, SameJob, SamePlace
<1>6. Tally(j, s)
  <2>1. CASE s.kind \notin Titled
    BY <2>1 DEF Tally
  <2>2. CASE SameCounts(r, s)
    BY <1>1, <2>2, TallyMoved DEF SameJob, SameCounts
  <2> QED
    BY <2>1, <2>2
<1>7. Foresees(s) /\ Unseen(s)
  BY DEF Foresees, Unseen
<1>8. Gives(j, s)
  <2>1. CASE s.whole
    BY <1>1, <2>1 DEF Gives, SameJob, SamePlace
  <2> QED
    BY <2>1 DEF Gives
<1>9. Batched(s)
  BY <1>1 DEF Batched, SameJob, SamePlace
<1>10. Awaits(j, s)
  BY <1>1 DEF Awaits, SameJob
<1> QED
  BY <1>2, <1>3, <1>4, <1>5, <1>6, <1>7, <1>8, <1>9, <1>10 DEF Fine

(* Of what a job was to import, what comes before the end of its list is all. *)
LEMMA AllBefore ==
  ASSUME NEW n \in Nat, NEW W \in SUBSET (1 .. n)
  PROVE  {m \in W : m < n + 1} = W
<1>1. \A m \in W : m < n + 1
  OBVIOUS
<1> QED
  BY <1>1

(* A job that completes has done what it was to do. *)
LEMMA Completed ==
  ASSUME RowsFine, NEW j, NEW r, NEW s \in JobType, Fine(j, r),
         SameJob(r, s), SamePlace(r, s), SameCounts(r, s), r.step = "end" \/ r.kind = "split",
         r.step \notin {"queued", "done"},
         s.step = "done", s.status \in {"completed", "cancelled"}, s.whole = r.whole
  PROVE  Fine(j, s)
<1>1. /\ WellFormed(r) /\ Placed(r) /\ Reckoned(r) /\ Holds(j, r) /\ Tally(j, r)
      /\ Foresees(r) /\ Unseen(r) /\ Gives(j, r) /\ Batched(r) /\ Awaits(j, r) /\ r \in JobType
  BY DEF Fine, WellFormed
<1>2. WellFormed(s)
  <2>1. s.kind \in Kinds
    BY DEF JobType
  <2>2. <<s.step, s.kind>> \in Course
    BY <2>1 DEF Course
  <2> QED
    BY <1>1, <2>2 DEF WellFormed, SameJob, SamePlace
<1>3. Placed(s)
  BY <1>1 DEF Placed, SameJob, SamePlace
<1>4. Reckoned(s)
  BY <1>1 DEF Reckoned, SameJob, SamePlace, SameCounts, Titled, Walks
<1>5. Holds(j, s)
  BY <1>1 DEF Holds, SameJob, SamePlace
<1>6. Tally(j, s)
  BY <1>1, TallyMoved DEF SameJob, SameCounts
<1>7. Foresees(s)
  <2>1. Expects(s) => Expects(r) /\ r.step = "end"
    BY DEF Expects, NoneTaken, SameJob, SameCounts, Titled
  <2>2. ASSUME Expects(s) PROVE s.imported = s.wanted
    <3>1. PICK W \in SUBSET DOMAIN r.items : Promise(r, W)
      BY <1>1, <2>1, <2>2 DEF Foresees
    <3>2. r.at = Len(r.items) + 1
      BY <1>1, <2>1, <2>2 DEF Reckoned, Expects
    <3>3. PICK n \in Nat : n = Len(r.items) /\ DOMAIN r.items = 1 .. n
      BY <1>1 DEF WellFormed
    <3>4. W \in SUBSET (1 .. n)
      BY <3>1, <3>3
    <3>5. {m \in W : m < r.at} = W
      BY <3>2, <3>3, <3>4, AllBefore
    <3> QED
      BY <3>1, <3>5 DEF Promise, SameJob, SameCounts
  <2> QED
    BY <2>2 DEF Foresees
<1>8. Unseen(s)
  BY DEF Unseen
<1>9. Gives(j, s)
  BY <1>1 DEF Gives, SameJob, SamePlace, WellFormed, Course, Titled, Loops, Ones, Walks
<1>10. Batched(s)
  BY <1>1 DEF Batched, SameJob, SamePlace
<1>11. Awaits(j, s)
  BY <1>1 DEF Awaits, SameJob, Ones
<1> QED
  BY <1>2, <1>3, <1>4, <1>5, <1>6, <1>7, <1>8, <1>9, <1>10, <1>11 DEF Fine

----------------------------------------------------------------------------
(* Items that are counted.                                                 *)

(* Of the items that were to be imported, those before the next one. *)
LEMMA OneMore ==
  ASSUME NEW n \in Nat, NEW W \in SUBSET (1 .. n), NEW m \in Nat
  PROVE  /\ Cardinality({i \in W : i < m}) \in Nat
         /\ m \notin W => {i \in W : i < m + 1} = {i \in W : i < m}
         /\ m \in W => Cardinality({i \in W : i < m + 1}) = Cardinality({i \in W : i < m}) + 1
<1>1. IsFiniteSet(1 .. n)
  BY FS_Interval
<1>2. PICK B : B = {i \in W : i < m}
  OBVIOUS
<1>3. B \subseteq 1 .. n /\ m \notin B
  <2>1. ~(m < m)
    OBVIOUS
  <2> QED
    BY <1>2, <2>1
<1>4. IsFiniteSet(B)
  BY <1>1, <1>3, FS_Subset
<1>5. Cardinality(B) \in Nat
  BY <1>4, FS_CardinalityType
<1>6. \A i \in W : i < m + 1 <=> i < m \/ i = m
  OBVIOUS
<1>7. m \notin W => {i \in W : i < m + 1} = B
  BY <1>2, <1>6
<1>8. m \in W => {i \in W : i < m + 1} = B \cup {m}
  BY <1>2, <1>6
<1>9. Cardinality(B \cup {m}) = Cardinality(B) + 1
  BY <1>3, <1>4, FS_AddElement
<1> QED
  BY <1>2, <1>5, <1>7, <1>8, <1>9

\* One item is counted, as what it came to.
CountsOne(r, s) ==
  \/ /\ r.step = "link" /\ s.imported = r.imported + 1 /\ s.skipped = r.skipped /\ s.failed = r.failed
     /\ rows[r.row].linked
  \/ /\ r.step = "look" /\ s.imported = r.imported /\ s.skipped = r.skipped + 1 /\ s.failed = r.failed
     /\ Exists(r.kind, r.items[r.at])
  \/ s.imported = r.imported /\ s.skipped = r.skipped /\ s.failed = r.failed + 1

\* Where a loop goes on.
GoesOn(r, s) ==
  /\ s.at = r.at + 1 /\ s.row = 0
  /\ s.step \in {"item", "yield", "end"}
  /\ s.step = "end" => r.at = Len(r.items) /\ r.kind # "nfo"
  /\ s.step = "yield" => r.kind = "nfo"
  /\ s.step = "item" => r.at # Len(r.items)

\* A row that got a file is listed, or the job no longer says that it gave it.
Keeps(j, r, s) ==
  IF r.kind = "nfo" /\ r.step = "link" /\ rows[r.row].giver = j
  THEN s.batch = Append(r.batch, r.row)
  ELSE s.batch = r.batch \/ (s.batch = Append(r.batch, r.row) /\ r.row \in Ids)

(* Its rows with their artists, after an item. *)
LEMMA TallyCounted ==
  ASSUME RowsFine', NEW j, NEW r \in JobType, NEW s \in JobType, Holds(j, r)', Tally(j, r)',
         WellFormed(r)', s.kind = r.kind, s.step # "link", CountsOne(r, s)'
  PROVE  Tally(j, s)'
<1>1. CASE r.kind \notin Titled
  BY <1>1 DEF Tally
<1>2. CASE r.kind \in Titled
  <2>1. PICK A : A = LinkedBy(j, r)'
    OBVIOUS
  <2>2. PICK B : B = LinkedBy(j, s)'
    OBVIOUS
  <2>3. A \subseteq B
    BY <2>1, <2>2 DEF LinkedBy
  <2>4. PICK n \in Nat : n = Len(rows')
    BY DEF RowsFine
  <2>5. Ids' = 1 .. n
    BY <2>4 DEF RowsFine, Ids
  <2>6. B \subseteq 1 .. n
    BY <2>2, <2>5 DEF LinkedBy
  <2>7. IsFiniteSet(B) /\ IsFiniteSet(A)
    <3>1. IsFiniteSet(1 .. n)
      BY FS_Interval
    <3> QED
      BY <2>3, <2>6, <3>1, FS_Subset
  <2>8. Cardinality(A) <= Cardinality(B) /\ Cardinality(A) \in Nat /\ Cardinality(B) \in Nat
    BY <2>3, <2>7, FS_Subset, FS_CardinalityType
  <2>9. Cardinality(A) >= r.imported /\ r.imported \in Nat
    BY <1>2, <2>1 DEF Tally, JobType
  <2>10. ASSUME r.step = "link", rows'[r.row].linked
         PROVE  Cardinality(B) >= Cardinality(A) + 1
    <3>1. r.row \in Ids' /\ rows'[r.row].by = j
      BY <1>2, <2>4, <2>5, <2>10 DEF Holds, WellFormed, Titled
    <3>2. r.row \notin A
      BY <2>1, <2>10 DEF LinkedBy
    <3>3. r.row \in B
      BY <2>2, <3>1, <2>10 DEF LinkedBy
    <3>4. Cardinality(A \cup {r.row}) = Cardinality(A) + 1
      BY <2>7, <3>2, FS_AddElement
    <3>5. A \cup {r.row} \subseteq B
      BY <2>3, <3>3
    <3>6. Cardinality(A \cup {r.row}) <= Cardinality(B)
      BY <2>7, <3>5, FS_Subset
    <3> QED
      BY <3>4, <3>6
  <2>11. Cardinality(B) >= s.imported
    BY <2>8, <2>9, <2>10 DEF CountsOne
  <2> QED
    BY <2>2, <2>11 DEF Tally
<1> QED
  BY <1>1, <1>2

(* What its preview promised, after an item. *)
LEMMA PromiseCounted ==
  ASSUME NEW r \in JobType, NEW s \in JobType, Foresees(r)', WellFormed(r)', Placed(r)',
         SameJob(r, s), CountsOne(r, s)', GoesOn(r, s), s.whole => r.whole,
         r.step \in {"look", "write", "renew", "link"}, s.status # "completed"
  PROVE  Foresees(s)'
<1>1. \A n : Wants(s, n)' <=> Wants(r, n)'
  BY DEF Wants, SameJob
<1>2. ASSUME Expects(s) PROVE \E W \in SUBSET DOMAIN s.items : Promise(s, W)'
  <2>1. s.failed = 0 /\ r.failed \in Nat /\ s.kind \in Titled
    BY <1>2 DEF Expects, JobType
  <2>2. r.failed = 0 /\ s.failed = r.failed
    BY <2>1 DEF CountsOne
  <2>3. Expects(r)
    BY <1>2, <2>2 DEF Expects, NoneTaken, SameJob
  <2>4. PICK W \in SUBSET DOMAIN r.items : Promise(r, W)'
    BY <2>3 DEF Foresees, Expects, NoneTaken
  <2>5. PICK n \in Nat : n = Len(r.items) /\ DOMAIN r.items = 1 .. n
    BY DEF WellFormed
  <2>6. r.at \in 1 .. n
    BY <2>5 DEF Placed
  <2>7. /\ r.at \notin W => {i \in W : i < s.at} = {i \in W : i < r.at}
        /\ r.at \in W => Cardinality({i \in W : i < s.at}) = Cardinality({i \in W : i < r.at}) + 1
    <3>1. PICK m \in Nat : m = r.at /\ s.at = m + 1
      BY <2>6 DEF GoesOn
    <3>2. W \in SUBSET (1 .. n)
      BY <2>4, <2>5
    <3>3. /\ m \notin W => {i \in W : i < m + 1} = {i \in W : i < m}
          /\ m \in W => Cardinality({i \in W : i < m + 1}) = Cardinality({i \in W : i < m}) + 1
      BY <3>2, OneMore, ZenonT(40)
    <3> QED
      BY <3>1, <3>3
  <2>8. r.imported = Cardinality({i \in W : i < r.at})
    BY <2>4 DEF Promise
  <2>9. s.imported = Cardinality({i \in W : i < s.at})
    <3>1. CASE r.step = "link" /\ s.imported = r.imported + 1
      <4>1. r.at \in W
        BY <2>4, <3>1 DEF Promise
      <4> QED
        BY <2>7, <2>8, <3>1, <4>1
    <3>2. CASE r.step = "look" /\ s.imported = r.imported /\ Exists(r.kind, r.items[r.at])'
      <4>1. r.at \in W <=> Wants(r, r.at)'
        BY <2>4, <2>5, <2>6, <3>2 DEF Promise
      <4>2. r.skip
        BY <2>1, <3>2 DEF Placed, SameJob
      <4>3. r.at \notin W
        BY <3>2, <4>1, <4>2 DEF Wants
      <4> QED
        BY <2>7, <2>8, <3>2, <4>3
    <3>3. r.failed + 1 # s.failed
      BY <2>1, <2>2
    <3> QED
      BY <3>1, <3>2, <3>3 DEF CountsOne
  <2>10. \A m \in DOMAIN s.items : m > s.at => (m \in W <=> Wants(s, m)')
    <3>1. \A m \in DOMAIN r.items : m > r.at => (m \in W <=> Wants(r, m)')
      BY <2>4 DEF Promise
    <3>2. \A m \in 1 .. n : m > s.at => m > r.at
      BY <2>6 DEF GoesOn
    <3> QED
      BY <1>1, <2>5, <3>1, <3>2 DEF SameJob
  <2>11. s.at \in DOMAIN s.items => (s.at \in W <=> Wants(s, s.at)')
    <3>1. \A m \in DOMAIN r.items : m > r.at => (m \in W <=> Wants(r, m)')
      BY <2>4 DEF Promise
    <3>2. s.at > r.at
      BY <2>6 DEF GoesOn
    <3> QED
      BY <1>1, <3>1, <3>2 DEF SameJob
  <2>12. s.step \notin {"write", "link"}
    BY DEF GoesOn
  <2>13. Cardinality(W) = s.wanted
    BY <2>4 DEF Promise, SameJob
  <2>14. Promise(s, W)'
    BY <2>9, <2>10, <2>11, <2>12, <2>13 DEF Promise
  <2> QED
    BY <2>4, <2>14 DEF SameJob
<1> QED
  BY <1>2 DEF Foresees, Expects, NoneTaken

(* A job that has counted an item is what it is to its rows. *)
LEMMA Counted ==
  ASSUME RowsFine', NEW j, NEW r, NEW s \in JobType, Fine(j, r)',
         r.kind \in Loops, r.step \in {"look", "write", "renew", "link"},
         SameJob(r, s), s.status = r.status, s.whole => r.whole,
         CountsOne(r, s)', GoesOn(r, s), Keeps(j, r, s)'
  PROVE  Fine(j, s)'
<1>1. /\ WellFormed(r)' /\ Placed(r)' /\ Reckoned(r)' /\ Holds(j, r)' /\ Tally(j, r)'
      /\ Foresees(r)' /\ Unseen(r)' /\ Gives(j, r)' /\ Batched(r)' /\ Awaits(j, r)' /\ r \in JobType
  BY DEF Fine, WellFormed
<1>2. PICK n \in Nat : n = Len(r.items)
  BY <1>1 DEF WellFormed
<1>3. r.at \in 1 .. n
  BY <1>1, <1>2 DEF Placed
<1>4. r.batch \in Seq(Ids') /\ (r.kind = "nfo" => s.batch \in Seq(Ids'))
  <2>1. r.batch \in Seq(Ids')
    BY <1>1 DEF WellFormed
  <2>2. CASE r.step = "link"
    <3>1. r.row \in Ids'
      BY <1>1, <2>2 DEF WellFormed, Holds, RowsFine, Ids
    <3>2. Append(r.batch, r.row) \in Seq(Ids')
      BY <2>1, <3>1
    <3> QED
      BY <2>1, <3>2 DEF Keeps
  <2>3. CASE r.step # "link"
    <3>1. r.row \in Ids' => Append(r.batch, r.row) \in Seq(Ids')
      BY <2>1
    <3> QED
      BY <2>1, <2>3, <3>1 DEF Keeps
  <2> QED
    BY <2>1, <2>2, <2>3
<1>5. s.batch \in Seq(Ids')
  <2>1. r.row \in Ids' => Append(r.batch, r.row) \in Seq(Ids')
    BY <1>4
  <2> QED
    BY <1>4, <2>1 DEF Keeps
<1>6. WellFormed(s)'
  <2>1. <<s.step, s.kind>> \in Course
    <3>1. s.kind \in Loops /\ s.kind \in Kinds /\ (s.step = "yield" => s.kind = "nfo")
      BY DEF SameJob, GoesOn, JobType
    <3> QED
      BY <3>1 DEF GoesOn, Course
  <2>2. s.row \in 0 .. Len(rows')
    BY DEF GoesOn, RowsFine
  <2>3. s.kind \notin OfRows /\ s.items \in Seq(Items)
    BY <1>1 DEF WellFormed, SameJob, OfRows, Loops, Titled
  <2>4. s.status \in {"running", "cancelled"} /\ s.step \notin {"queued", "done"}
    BY <1>1 DEF WellFormed, GoesOn
  <2> QED
    BY <2>1, <2>2, <2>3, <2>4, <1>5 DEF WellFormed
<1>7. Placed(s)'
  <2>1. s.at \in 1 .. Len(s.items) + 1
    BY <1>2, <1>3 DEF GoesOn, SameJob
  <2>2. s.kind \notin Ones \cup {"fetch"}
    BY DEF SameJob, Loops, Titled, Ones
  <2> QED
    BY <2>1, <2>2 DEF Placed, GoesOn
<1>8. Reckoned(s)'
  <2>1. r.imported \in Nat /\ r.skipped \in Nat /\ r.failed \in Nat
    BY <1>1 DEF JobType
  <2>2. r.kind \in Titled \cup Walks => r.at = r.imported + r.skipped + r.failed + 1
    BY <1>1 DEF Reckoned
  <2>3. s.imported + s.skipped + s.failed = r.imported + r.skipped + r.failed + 1
    BY <2>1 DEF CountsOne
  <2>4. r.kind \in Titled \cup Walks => s.at = s.imported + s.skipped + s.failed + 1
    BY <2>1, <2>2, <2>3 DEF GoesOn
  <2>5. s.step = "end" => s.at = Len(s.items) + 1
    BY <1>2 DEF GoesOn, SameJob
  <2>6. s.status # "completed"
    BY <1>1 DEF WellFormed
  <2> QED
    BY <2>4, <2>5, <2>6 DEF Reckoned, SameJob
<1>9. Holds(j, s)'
  <2>1. s.kind \notin Ones
    BY DEF SameJob, Loops, Titled, Ones
  <2> QED
    BY <2>1 DEF Holds, GoesOn
<1>10. Tally(j, s)'
  BY <1>1, TallyCounted DEF SameJob, GoesOn
<1>11. Foresees(s)'
  <2>1. s.status # "completed"
    BY <1>1 DEF WellFormed
  <2> QED
    BY <1>1, <2>1, PromiseCounted
<1>12. Unseen(s)'
  BY DEF Unseen, GoesOn
<1>13. Gives(j, s)'
  <2>1. ASSUME NEW v \in Ids', rows'[v].giver = j
        PROVE  \/ HandedOn("post", v)' \/ ~s.whole
               \/ s.kind = "nfo" /\ \E i \in DOMAIN s.batch : s.batch[i] = v
    <3>1. \/ HandedOn("post", v)' \/ ~r.whole
          \/ r.kind = "nfo" /\ \E i \in DOMAIN r.batch : r.batch[i] = v
          \/ r.kind = "nfo" /\ r.step = "link" /\ v = r.row
      BY <1>1, <2>1 DEF Gives, Loops, Titled
    <3>2. CASE r.kind = "nfo" /\ \E i \in DOMAIN r.batch : r.batch[i] = v
      <4>1. PICK i \in DOMAIN r.batch : r.batch[i] = v
        BY <3>2
      <4>2. i \in DOMAIN Append(r.batch, r.row) /\ Append(r.batch, r.row)[i] = v
        BY <1>4, <4>1
      <4> QED
        BY <3>2, <4>1, <4>2 DEF Keeps, SameJob
    <3>3. CASE r.kind = "nfo" /\ r.step = "link" /\ v = r.row
      <4>1. s.batch = Append(r.batch, r.row)
        BY <2>1, <3>3 DEF Keeps
      <4>2. Len(s.batch) \in DOMAIN s.batch /\ s.batch[Len(s.batch)] = v
        BY <1>4, <3>3, <4>1
      <4> QED
        BY <3>3, <4>2 DEF SameJob
    <3> QED
      BY <3>1, <3>2, <3>3
  <2> QED
    BY <2>1 DEF Gives
<1>14. Batched(s)'
  <2>1. s.kind = "nfo" => s.step # "end"
    BY DEF GoesOn, SameJob
  <2>2. s.step = "item" => ~(s.at > Len(s.items))
    BY <1>2, <1>3 DEF GoesOn, SameJob
  <2>3. s.status # "completed"
    BY <1>1 DEF WellFormed
  <2> QED
    BY <2>1, <2>2, <2>3 DEF Batched
<1>15. Awaits(j, s)'
  BY DEF Awaits, SameJob, Loops, Titled, Ones
<1> QED
  BY <1>6, <1>7, <1>8, <1>9, <1>10, <1>11, <1>12, <1>13, <1>14, <1>15 DEF Fine

----------------------------------------------------------------------------
(* What the actions make of a job.                                         *)

\* Another step, another status, whole or cut short.
Turn(r, s, a, status, whole) ==
  /\ s \in JobType /\ SameJob(r, s) /\ SamePlace(r, s) /\ SameCounts(r, s)
  /\ s.step = a /\ s.status = status /\ s.whole = whole

(* A job of a list of jobs. *)
LEMMA JobFacts ==
  ASSUME BatchIInv, NEW j \in Jobs, NEW r, r = jobs[j]
  PROVE  /\ Fine(j, r) /\ r \in JobType /\ j \in Nat \ {0}
         /\ JobsFine /\ RowsFine /\ ChildrenFine /\ Bounded /\ TwinsFromRaces
         /\ WellFormed(r) /\ Placed(r) /\ Holds(j, r) /\ Batched(r)
<1>1. JobsFine /\ RowsFine /\ ChildrenFine /\ Bounded /\ TwinsFromRaces
  BY DEF BatchIInv
<1>2. Fine(j, r)
  BY <1>1 DEF JobsFine
<1>3. WellFormed(r) /\ Placed(r) /\ Holds(j, r) /\ Batched(r)
  BY <1>2 DEF Fine
<1>4. jobs \in Seq(JobType)
  BY <1>1 DEF JobsFine
<1>5. j \in Nat \ {0}
  BY <1>4 DEF Jobs
<1> QED
  BY <1>1, <1>2, <1>3, <1>5 DEF WellFormed

(* Goto() changes the step alone. *)
LEMMA GotoTurns ==
  ASSUME JobsFine, NEW j \in Jobs, NEW r \in JobType, r = jobs[j], NEW a \in Steps, Goto(j, a)
  PROVE  \E s : jobs' = [jobs EXCEPT ![j] = s] /\ Turn(r, s, a, r.status, r.whole)
<1>1. PICK s : s = [r EXCEPT !.step = a]
  OBVIOUS
<1>2. jobs' = [jobs EXCEPT ![j] = s]
  BY <1>1 DEF Goto
<1>3. Turn(r, s, a, r.status, r.whole)
  BY <1>1 DEF Turn, SameJob, SamePlace, SameCounts, JobType
<1> QED
  BY <1>2, <1>3

(* Finish() changes step and status. *)
LEMMA FinishTurns ==
  ASSUME JobsFine, NEW j \in Jobs, NEW r \in JobType, r = jobs[j], NEW status \in Statuses,
         Finish(j, status)
  PROVE  \E s : jobs' = [jobs EXCEPT ![j] = s] /\ Turn(r, s, "done", status, r.whole)
<1>1. PICK s : s = [r EXCEPT !.step = "done", !.status = status]
  OBVIOUS
<1>2. jobs' = [jobs EXCEPT ![j] = s]
  BY <1>1 DEF Finish
<1>3. Turn(r, s, "done", status, r.whole)
  BY <1>1 DEF Turn, SameJob, SamePlace, SameCounts, JobType, Steps
<1> QED
  BY <1>2, <1>3

(* A fault that a job survives. *)
LEMMA FaultTurns ==
  ASSUME JobsFine, NEW j \in Jobs, NEW r \in JobType, r = jobs[j], NEW a \in Steps,
         jobs' = [jobs EXCEPT ![j].step = a, ![j].whole = FALSE]
  PROVE  \E s : jobs' = [jobs EXCEPT ![j] = s] /\ Turn(r, s, a, r.status, FALSE)
<1>1. PICK s : s = [r EXCEPT !.step = a, !.whole = FALSE]
  OBVIOUS
<1>2. jobs' = [jobs EXCEPT ![j] = s]
  BY <1>1
<1>3. Turn(r, s, a, r.status, FALSE)
  BY <1>1 DEF Turn, SameJob, SamePlace, SameCounts, JobType
<1> QED
  BY <1>2, <1>3

(* A job that goes to another step and changes nothing else. *)
LEMMA GotoStep ==
  ASSUME BatchIInv, NEW j \in Jobs, NEW r, r = jobs[j], NEW a \in Steps,
         \/ Goto(j, a) /\ CanGo(r, a, r.whole)
         \/ jobs' = [jobs EXCEPT ![j].step = a, ![j].whole = FALSE] /\ CanGo(r, a, FALSE),
         UNCHANGED <<rows, children>>, UNCHANGED <<changes, faults>> \/ Fault \/ Changed
  PROVE  BatchIInv'
<1>1. Fine(j, r) /\ r \in JobType /\ JobsFine /\ RowsFine
  BY JobFacts
<1>2. \E s, whole : /\ jobs' = [jobs EXCEPT ![j] = s] /\ Turn(r, s, a, r.status, whole)
                    /\ CanGo(r, a, whole) /\ whole \in {r.whole, FALSE}
  BY <1>1, GotoTurns, FaultTurns
<1>3. PICK s, whole : /\ jobs' = [jobs EXCEPT ![j] = s] /\ Turn(r, s, a, r.status, whole)
                      /\ CanGo(r, a, whole) /\ whole \in {r.whole, FALSE}
  BY <1>2
<1>4. Fine(j, s)
  BY <1>1, <1>3, Moved DEF Turn
<1>5. Goes(r, s)
  BY <1>3 DEF Goes, Turn, SameJob, CanGo
<1> QED
  BY <1>3, <1>4, <1>5, QuietStep

(* A job that ends before its work is done. *)
LEMMA CutStep ==
  ASSUME BatchIInv, NEW j \in Jobs, NEW r, r = jobs[j],
         Finish(j, "cancelled") \/ Finish(j, "failed"),
         r.step \notin {"done", "pass", "submit", "link"},
         UNCHANGED <<rows, children>>, UNCHANGED <<changes, faults>> \/ Fault \/ Changed
  PROVE  BatchIInv'
<1>1. Fine(j, r) /\ r \in JobType /\ JobsFine /\ RowsFine
  BY JobFacts
<1>2. PICK status \in {"cancelled", "failed"} : Finish(j, status)
  OBVIOUS
<1>3. PICK s : jobs' = [jobs EXCEPT ![j] = s] /\ Turn(r, s, "done", status, r.whole)
  BY <1>1, <1>2, FinishTurns DEF Statuses
<1>4. Fine(j, s)
  BY <1>1, <1>3, CutShort DEF Turn
<1>5. Goes(r, s)
  BY <1>3 DEF Goes, Turn, SameJob
<1> QED
  BY <1>3, <1>4, <1>5, QuietStep

(* A job whose list is done. *)
LEMMA EndStep ==
  ASSUME BatchIInv, NEW j \in Jobs, NEW r, r = jobs[j], NEW status \in {"completed", "cancelled"},
         Finish(j, status), r.step = "end" \/ r.kind = "split", r.step \notin {"queued", "done"},
         UNCHANGED <<rows, children, changes, faults>>
  PROVE  BatchIInv'
<1>1. Fine(j, r) /\ r \in JobType /\ JobsFine /\ RowsFine
  BY JobFacts
<1>2. PICK s : jobs' = [jobs EXCEPT ![j] = s] /\ Turn(r, s, "done", status, r.whole)
  BY <1>1, FinishTurns DEF Statuses
<1>3. Fine(j, s)
  BY <1>1, <1>2, Completed DEF Turn
<1>4. Goes(r, s)
  BY <1>2 DEF Goes, Turn, SameJob
<1> QED
  BY <1>2, <1>3, <1>4, QuietStep

----------------------------------------------------------------------------
(* The loops of the imports.                                               *)

(* What a job at work is. *)
LEMMA WorkOf ==
  ASSUME BatchIInv, NEW j \in Jobs, NEW r, r = jobs[j], r.step \notin {"queued", "done"}
  PROVE  /\ r.status \in {"running", "cancelled"}
         /\ r.at \in Nat \ {0} /\ Len(r.items) \in Nat /\ r.at <= Len(r.items) + 1
         /\ DOMAIN r.items = 1 .. Len(r.items)
         /\ <<r.step, r.kind>> \in Course /\ r.kind \in Kinds
<1>1. WellFormed(r) /\ Placed(r)
  BY JobFacts
<1> QED
  BY <1>1 DEF WellFormed, Placed, JobType

(* NextItem keeps the invariant. *)
LEMMA NextItemStep ==
  ASSUME BatchIInv, NEW j \in Jobs, NextItem(j)
  PROVE  BatchIInv'
<1>1. PICK r : r = jobs[j]
  OBVIOUS
<1>2. r.step = "item" /\ UNCHANGED <<rows, children>>
  BY <1>1 DEF NextItem, AtStep
<1>3. r.kind \in Loops /\ r.at \in Nat \ {0} /\ Len(r.items) \in Nat /\ r.at <= Len(r.items) + 1
      /\ DOMAIN r.items = 1 .. Len(r.items)
  BY <1>1, <1>2, WorkOf DEF Course
<1>4. Batched(r)
  BY <1>1, JobFacts
<1>5. CASE Finish(j, "cancelled") /\ UNCHANGED <<changes, faults>>
  BY <1>1, <1>2, <1>5, CutStep
<1>6. CASE ~Listed(j) /\ Goto(j, "end") /\ UNCHANGED <<changes, faults>>
  <2>1. r.at > Len(r.items)
    BY <1>1, <1>3, <1>6 DEF Listed
  <2>2. <<"end", r.kind>> \in Course
    BY <1>3 DEF Course, Loops, Titled, Kinds
  <2>3. CanGo(r, "end", r.whole)
    BY <1>2, <1>3, <1>4, <2>1, <2>2 DEF CanGo, Batched
  <2>4. "end" \in Steps
    BY DEF Steps
  <2> QED
    BY <1>1, <1>2, <1>6, <2>3, <2>4, GotoStep
<1>7. CASE /\ Listed(j) /\ Goto(j, IF Kind(j) = "list" \/ jobs[j].skip THEN "look" ELSE "write")
           /\ UNCHANGED <<changes, faults>>
  <2>1. r.at <= Len(r.items)
    BY <1>1, <1>7 DEF Listed
  <2>2. CASE (Kind(j) = "list" \/ jobs[j].skip) /\ Goto(j, "look")
    <3>1. <<"look", r.kind>> \in Course
      BY <1>3 DEF Course
    <3>2. r.kind \in Titled => r.skip
      BY <1>1, <2>2 DEF Kind, Titled
    <3>3. r.kind \notin Ones
      BY <1>3 DEF Loops, Titled, Ones
    <3>4. CanGo(r, "look", r.whole)
      BY <1>2, <2>1, <3>1, <3>2, <3>3 DEF CanGo
    <3>5. "look" \in Steps
      BY DEF Steps
    <3> QED
      BY <1>1, <1>2, <1>7, <2>2, <3>4, <3>5, GotoStep
  <2>3. CASE ~(Kind(j) = "list" \/ jobs[j].skip) /\ Goto(j, "write")
    <3>1. <<"write", r.kind>> \in Course
      BY <1>3 DEF Course
    <3>2. Wants(r, r.at)
      BY <1>1, <2>3 DEF Wants
    <3>3. r.kind \notin Ones
      BY <1>3 DEF Loops, Titled, Ones
    <3>4. r.at \in DOMAIN r.items
      BY <1>3, <2>1
    <3>5. CanGo(r, "write", r.whole)
      BY <1>2, <2>1, <3>1, <3>2, <3>3, <3>4 DEF CanGo
    <3>6. "write" \in Steps
      BY DEF Steps
    <3> QED
      BY <1>1, <1>2, <1>7, <2>3, <3>5, <3>6, GotoStep
  <2> QED
    BY <1>7, <2>2, <2>3
<1>8. CASE Fault /\ Finish(j, "failed")
  BY <1>1, <1>2, <1>8, CutStep
<1> QED
  BY <1>5, <1>6, <1>7, <1>8 DEF NextItem

(* Count() changes the place and one of the counts. *)
LEMMA CountTurns ==
  ASSUME JobsFine, NEW j \in Jobs, NEW r \in JobType, r = jobs[j],
         NEW result \in {"imported", "skipped", "failed"}, Count(j, result), r.kind \in Loops,
         r.at <= Len(r.items)
  PROVE  \E s : /\ jobs' = [jobs EXCEPT ![j] = s] /\ s \in JobType /\ SameJob(r, s)
                /\ s.status = r.status /\ s.whole = r.whole /\ s.batch = r.batch /\ GoesOn(r, s)
                /\ s.imported = IF result = "imported" THEN r.imported + 1 ELSE r.imported
                /\ s.skipped = IF result = "skipped" THEN r.skipped + 1 ELSE r.skipped
                /\ s.failed = IF result = "failed" THEN r.failed + 1 ELSE r.failed
<1>1. PICK a : a = After(j)
  OBVIOUS
<1>2. a \in {"end", "item", "yield"} /\ (a = "end" => r.at = Len(r.items) /\ r.kind # "nfo")
      /\ (a = "yield" => r.kind = "nfo") /\ (a = "item" => r.at # Len(r.items))
  <2>1. a = IF r.kind # "nfo" THEN IF r.at = Len(r.items) THEN "end" ELSE "item"
            ELSE IF r.at = Len(r.items) \/ r.at % BatchSize = 0 THEN "yield" ELSE "item"
    BY <1>1 DEF After, Kind
  <2> QED
    BY <2>1
<1>3. a \in Steps /\ r.at \in Nat \ {0} /\ r.imported \in Nat /\ r.skipped \in Nat /\ r.failed \in Nat
  BY <1>2 DEF Steps, JobType
<1>4. CASE result = "imported"
  <2>1. PICK s : s = [r EXCEPT !.at = @ + 1, !.row = 0, !.step = a, !.imported = @ + 1]
    OBVIOUS
  <2>2. jobs' = [jobs EXCEPT ![j] = s]
    <3>1. Count(j, "imported")
      BY <1>4
    <3>2. jobs' = [jobs EXCEPT ![j] =
                    [jobs[j] EXCEPT !.at = @ + 1, !.row = 0, !.step = a, !.imported = @ + 1]]
      BY <1>1, <3>1 DEF Count, JobType
    <3> QED
      BY <2>1, <3>2
  <2>3. /\ s \in JobType /\ SameJob(r, s)
        /\ s.status = r.status /\ s.whole = r.whole /\ s.batch = r.batch
        /\ s.at = r.at + 1 /\ s.row = 0 /\ s.step = a
        /\ s.imported = r.imported + 1 /\ s.skipped = r.skipped /\ s.failed = r.failed
    <3>1. r.at + 1 \in Nat \ {0} /\ r.imported + 1 \in Nat
      BY <1>3
    <3>2. s \in JobType
      BY <1>3, <2>1, <3>1 DEF JobType
    <3> QED
      BY <2>1, <3>2 DEF SameJob, JobType
  <2>4. GoesOn(r, s)
    BY <1>2, <2>3 DEF GoesOn
  <2> QED
    BY <1>4, <2>2, <2>3, <2>4
<1>5. CASE result = "skipped"
  <2>1. PICK s : s = [r EXCEPT !.at = @ + 1, !.row = 0, !.step = a, !.skipped = @ + 1]
    OBVIOUS
  <2>2. jobs' = [jobs EXCEPT ![j] = s]
    <3>1. Count(j, "skipped")
      BY <1>5
    <3>2. jobs' = [jobs EXCEPT ![j] =
                    [jobs[j] EXCEPT !.at = @ + 1, !.row = 0, !.step = a, !.skipped = @ + 1]]
      BY <1>1, <3>1 DEF Count, JobType
    <3> QED
      BY <2>1, <3>2
  <2>3. /\ s \in JobType /\ SameJob(r, s)
        /\ s.status = r.status /\ s.whole = r.whole /\ s.batch = r.batch
        /\ s.at = r.at + 1 /\ s.row = 0 /\ s.step = a
        /\ s.imported = r.imported /\ s.skipped = r.skipped + 1 /\ s.failed = r.failed
    <3>1. r.at + 1 \in Nat \ {0} /\ r.skipped + 1 \in Nat
      BY <1>3
    <3>2. s \in JobType
      BY <1>3, <2>1, <3>1 DEF JobType
    <3> QED
      BY <2>1, <3>2 DEF SameJob, JobType
  <2>4. GoesOn(r, s)
    BY <1>2, <2>3 DEF GoesOn
  <2> QED
    BY <1>5, <2>2, <2>3, <2>4
<1>6. CASE result = "failed"
  <2>1. PICK s : s = [r EXCEPT !.at = @ + 1, !.row = 0, !.step = a, !.failed = @ + 1]
    OBVIOUS
  <2>2. jobs' = [jobs EXCEPT ![j] = s]
    <3>1. Count(j, "failed")
      BY <1>6
    <3>2. jobs' = [jobs EXCEPT ![j] =
                    [jobs[j] EXCEPT !.at = @ + 1, !.row = 0, !.step = a, !.failed = @ + 1]]
      BY <1>1, <3>1 DEF Count, JobType
    <3> QED
      BY <2>1, <3>2
  <2>3. /\ s \in JobType /\ SameJob(r, s)
        /\ s.status = r.status /\ s.whole = r.whole /\ s.batch = r.batch
        /\ s.at = r.at + 1 /\ s.row = 0 /\ s.step = a
        /\ s.imported = r.imported /\ s.skipped = r.skipped /\ s.failed = r.failed + 1
    <3>1. r.at + 1 \in Nat \ {0} /\ r.failed + 1 \in Nat
      BY <1>3
    <3>2. s \in JobType
      BY <1>3, <2>1, <3>1 DEF JobType
    <3> QED
      BY <2>1, <3>2 DEF SameJob, JobType
  <2>4. GoesOn(r, s)
    BY <1>2, <2>3 DEF GoesOn
  <2> QED
    BY <1>6, <2>2, <2>3, <2>4
<1> QED
  BY <1>4, <1>5, <1>6

----------------------------------------------------------------------------
(* Rows that a job changes.                                                *)

(* One row in the place of another. *)
LEMMA OneRow ==
  ASSUME RowsFine, NEW v \in Ids, NEW x \in RowType, rows' = [rows EXCEPT ![v] = x]
  PROVE  /\ Ids' = Ids /\ Len(rows') = Len(rows) /\ rows' \in Seq(RowType)
         /\ rows'[v] = x /\ \A u \in Ids \ {v} : rows'[u] = rows[u]
<1>1. rows \in Seq(RowType)
  BY DEF RowsFine
<1> QED
  BY <1>1 DEF Ids

(* The table stays well formed. *)
LEMMA RowsFineKept ==
  ASSUME BatchIInv, NEW j \in Jobs, NEW r, r = jobs[j], NEW s \in JobType, s.kind = r.kind,
         jobs' = [jobs EXCEPT ![j] = s], RowsGo(j), rows' \in Seq(RowType),
         \A v \in Ids' : /\ rows'[v].giver # 0 => rows'[v].file
                         /\ rows'[v].hidden => rows'[v].touched,
         \A v \in Ids' \ Ids : rows'[v].status # "pending_download",
         \A v \in Ids : rows'[v].status = "pending_download" =>
                          rows[v].status = "pending_download" \/ r.kind \in Ones
  PROVE  RowsFine'
<1>1. JobsFine /\ RowsFine
  BY DEF BatchIInv
<1>2. /\ Jobs = 1 .. Len(jobs) /\ Len(jobs) \in Nat /\ Len(jobs') = Len(jobs) /\ jobs'[j] = s
      /\ \A k \in Jobs \ {j} : jobs'[k] = jobs[k]
  BY <1>1, OneJob
<1>3. \A k \in Jobs : Kind(k)' = Kind(k)
  BY <1>2 DEF Kind
<1>4. ASSUME NEW v \in Ids'
      PROVE  /\ rows'[v].by \in 0 .. Len(jobs') /\ rows'[v].giver \in 0 .. Len(jobs')
             /\ rows'[v].status = "pending_download" =>
                  rows'[v].by # 0 /\ jobs'[rows'[v].by].kind \in Ones
  <2>1. CASE v \in Ids
    <3>1. Stays(j, rows[v], rows'[v])
      BY <2>1 DEF RowsGo
    <3>2. rows[v].by \in 0 .. Len(jobs) /\ rows[v].giver \in 0 .. Len(jobs)
      BY <1>1, <2>1 DEF RowsFine
    <3>3. rows'[v].by \in 0 .. Len(jobs') /\ rows'[v].giver \in 0 .. Len(jobs')
      BY <1>2, <3>1, <3>2 DEF Stays
    <3>4. CASE rows'[v].status = "pending_download" /\ rows[v].status = "pending_download"
      <4>1. rows[v].by # 0 /\ Kind(rows[v].by) \in Ones
        BY <1>1, <2>1, <3>4 DEF RowsFine
      <4>2. rows[v].by \in Jobs
        BY <1>2, <3>2, <4>1
      <4> QED
        BY <1>3, <3>1, <3>3, <4>1, <4>2 DEF Kind, Stays
    <3>5. CASE rows'[v].status = "pending_download" /\ rows[v].status # "pending_download"
      <4>1. rows'[v].by = j /\ r.kind \in Ones
        BY <2>1, <3>1, <3>5 DEF Stays
      <4> QED
        BY <1>2, <3>3, <4>1
    <3> QED
      BY <3>3, <3>4, <3>5
  <2>2. CASE v \notin Ids
    BY <1>2, <2>2 DEF RowsGo
  <2> QED
    BY <2>1, <2>2
<1> QED
  BY <1>4 DEF RowsFine, Kind

(* A job that counts an item and keeps its batch. *)
LEMMA CountStep ==
  ASSUME BatchIInv, NEW j \in Jobs, NEW r, r = jobs[j],
         NEW result \in {"imported", "skipped", "failed"}, Count(j, result),
         r.kind \in Loops, r.step \in {"look", "write", "renew", "link"},
         RowsGo(j), Ids' = Ids, rows' \in Seq(RowType), SameSight, Own(j, r),
         \A v \in Ids : /\ rows'[v].giver # 0 => rows'[v].file
                        /\ rows'[v].hidden => rows'[v].touched
                        /\ rows'[v].status = rows[v].status,
         result = "imported" => r.step = "link" /\ rows'[r.row].linked,
         result = "skipped" => r.step = "look" /\ Exists(r.kind, r.items[r.at]),
         r.kind = "nfo" /\ r.step = "link" => rows'[r.row].giver # j,
         UNCHANGED children, UNCHANGED <<changes, faults>> \/ Fault \/ Changed
  PROVE  BatchIInv'
<1>1. /\ Fine(j, r) /\ r \in JobType /\ JobsFine /\ RowsFine /\ WellFormed(r) /\ Placed(r)
      /\ j \in Nat \ {0} /\ ChildrenFine
  BY JobFacts
<1>2. r.at <= Len(r.items)
  BY <1>1 DEF Placed, Loops, Titled
<1>3. PICK s : /\ jobs' = [jobs EXCEPT ![j] = s] /\ s \in JobType /\ SameJob(r, s)
               /\ s.status = r.status /\ s.whole = r.whole /\ s.batch = r.batch /\ GoesOn(r, s)
               /\ s.imported = IF result = "imported" THEN r.imported + 1 ELSE r.imported
               /\ s.skipped = IF result = "skipped" THEN r.skipped + 1 ELSE r.skipped
               /\ s.failed = IF result = "failed" THEN r.failed + 1 ELSE r.failed
  BY <1>1, <1>2, CountTurns
<1>4. Goes(r, s)
  BY <1>3 DEF Goes, SameJob
<1>5. RowsFine'
  BY <1>3, RowsFineKept, ZenonT(40) DEF SameJob
<1>6. ChildrenGo
  BY DEF ChildrenGo, HandedOn
<1>7. Fine(j, r)'
  BY <1>1, <1>5, <1>6, RowsTurn
<1>8. CountsOne(r, s)'
  <2>1. Exists(r.kind, r.items[r.at])' <=> Exists(r.kind, r.items[r.at])
    BY SightKept
  <2> QED
    BY <1>3, <2>1 DEF CountsOne
<1>9. Keeps(j, r, s)'
  BY <1>3 DEF Keeps
<1>10. Fine(j, s)'
  BY <1>3, <1>5, <1>7, <1>8, <1>9, Counted
<1>11. ChildrenFine'
  BY <1>1 DEF ChildrenFine
<1>12. \A v \in Ids' \ Ids : Apart(v)'
  OBVIOUS
<1> QED
  BY <1>3, <1>4, <1>5, <1>6, <1>10, <1>11, <1>12, JobStep

(* Rows that do not change. *)
LEMMA SameRows ==
  ASSUME RowsFine, UNCHANGED rows, NEW j, NEW r
  PROVE  /\ RowsGo(j) /\ Ids' = Ids /\ rows' \in Seq(RowType) /\ SameSight /\ Own(j, r)
         /\ \A v \in Ids : /\ rows'[v].giver # 0 => rows'[v].file
                           /\ rows'[v].hidden => rows'[v].touched
                           /\ rows'[v].status = rows[v].status
  BY DEF RowsFine, RowsGo, Stays, Ids, SameSight, Own

(* Look keeps the invariant. *)
LEMMA LookStep ==
  ASSUME BatchIInv, NEW j \in Jobs, Look(j)
  PROVE  BatchIInv'
<1>1. PICK r : r = jobs[j]
  OBVIOUS
<1>2. r.step = "look" /\ r.kind \in Titled /\ UNCHANGED <<rows, children>>
  BY <1>1 DEF Look, AtStep, Kind, Titled
<1>3. /\ Fine(j, r) /\ r \in JobType /\ JobsFine /\ RowsFine /\ WellFormed(r) /\ Placed(r)
  BY <1>1, JobFacts
<1>4. r.at \in DOMAIN r.items /\ r.at <= Len(r.items)
  BY <1>1, <1>2, <1>3, WorkOf DEF Placed
<1>5. r.kind \in Loops /\ r.kind \notin Ones /\ <<"write", r.kind>> \in Course
  BY <1>2 DEF Loops, Titled, Ones, Course
<1>6. "write" \in Steps
  BY DEF Steps
<1>7. CASE Exists(Kind(j), Item(j)) /\ Count(j, "skipped") /\ UNCHANGED <<changes, faults>>
  <2>1. Exists(r.kind, r.items[r.at])
    BY <1>1, <1>7 DEF Kind, Item
  <2> QED
    BY <1>1, <1>2, <1>3, <1>5, <1>7, <2>1, SameRows, CountStep
<1>8. CASE ~Exists(Kind(j), Item(j)) /\ Goto(j, "write") /\ UNCHANGED <<changes, faults>>
  <2>1. Wants(r, r.at)
    BY <1>1, <1>8 DEF Wants, Kind, Item
  <2>2. CanGo(r, "write", r.whole)
    BY <1>2, <1>4, <1>5, <2>1 DEF CanGo
  <2> QED
    BY <1>1, <1>2, <1>6, <1>8, <2>2, GotoStep
<1>9. CASE Fault /\ jobs' = [jobs EXCEPT ![j].step = "write", ![j].whole = FALSE]
  <2>1. CanGo(r, "write", FALSE)
    BY <1>2, <1>4, <1>5 DEF CanGo
  <2> QED
    BY <1>1, <1>2, <1>6, <1>9, <2>1, GotoStep
<1> QED
  BY <1>7, <1>8, <1>9 DEF Look

(* ItemFails keeps the invariant. *)
LEMMA ItemFailsStep ==
  ASSUME BatchIInv, NEW j \in Jobs, ItemFails(j)
  PROVE  BatchIInv'
<1>1. PICK r : r = jobs[j]
  OBVIOUS
<1>2. r.step \in {"write", "renew", "link"} /\ r.kind \in Loops /\ UNCHANGED children
  BY <1>1 DEF ItemFails, AtStep, Kind, Loops, Titled
<1>3. /\ Fine(j, r) /\ r \in JobType /\ JobsFine /\ RowsFine /\ WellFormed(r) /\ Holds(j, r)
      /\ j \in Nat \ {0}
  BY <1>1, JobFacts
<1>4. rows' = [v \in Ids |-> IF v = r.row /\ rows[v].giver = j
                             THEN [rows[v] EXCEPT !.giver = 0] ELSE rows[v]]
  BY <1>1 DEF ItemFails
<1>5. rows \in Seq(RowType) /\ Ids = 1 .. Len(rows) /\ Len(rows) \in Nat
      /\ \A v \in Ids : rows[v] \in RowType
  BY <1>3 DEF RowsFine, Ids
<1>6. Ids' = Ids
  BY <1>4 DEF Ids
<1>7. \A v \in Ids : /\ rows'[v] \in RowType
                     /\ rows'[v].title = rows[v].title /\ rows'[v].hidden = rows[v].hidden
                     /\ rows'[v].imvdb = rows[v].imvdb /\ rows'[v].youtube = rows[v].youtube
                     /\ rows'[v].by = rows[v].by /\ rows'[v].sought = rows[v].sought
                     /\ rows'[v].linked = rows[v].linked /\ rows'[v].touched = rows[v].touched
                     /\ rows'[v].status = rows[v].status /\ rows'[v].file = rows[v].file
                     /\ rows'[v].giver \in {0, rows[v].giver}
                     /\ v = r.row => rows'[v].giver # j
  <2> SUFFICES ASSUME NEW v \in Ids
               PROVE  /\ rows'[v] \in RowType
                      /\ rows'[v].title = rows[v].title /\ rows'[v].hidden = rows[v].hidden
                      /\ rows'[v].imvdb = rows[v].imvdb /\ rows'[v].youtube = rows[v].youtube
                      /\ rows'[v].by = rows[v].by /\ rows'[v].sought = rows[v].sought
                      /\ rows'[v].linked = rows[v].linked /\ rows'[v].touched = rows[v].touched
                      /\ rows'[v].status = rows[v].status /\ rows'[v].file = rows[v].file
                      /\ rows'[v].giver \in {0, rows[v].giver}
                      /\ v = r.row => rows'[v].giver # j
    OBVIOUS
  <2>1. CASE v = r.row /\ rows[v].giver = j
    <3>1. rows'[v] = [rows[v] EXCEPT !.giver = 0]
      BY <1>4, <2>1
    <3>2. rows[v] \in RowType
      BY <1>5
    <3> QED
      BY <1>3, <3>1, <3>2 DEF RowType
  <2>2. CASE ~(v = r.row /\ rows[v].giver = j)
    <3>1. rows'[v] = rows[v]
      BY <1>4, <2>2
    <3> QED
      BY <1>5, <2>2, <3>1
  <2> QED
    BY <2>1, <2>2
<1>8. rows' \in Seq(RowType)
  <2>1. Len(rows') = Len(rows) /\ DOMAIN rows' = 1 .. Len(rows)
    BY <1>4, <1>5
  <2> QED
    BY <1>4, <1>5, <1>7, <2>1
<1>9. SameSight
  BY <1>6, <1>7 DEF SameSight
<1>10. RowsGo(j)
  BY <1>6, <1>7 DEF RowsGo, Stays
<1>11. Own(j, r)
  BY <1>3, <1>6, <1>7 DEF Own
<1>12. \A v \in Ids : /\ rows'[v].giver # 0 => rows'[v].file
                      /\ rows'[v].hidden => rows'[v].touched
                      /\ rows'[v].status = rows[v].status
  BY <1>3, <1>7 DEF RowsFine
<1>13. r.kind = "nfo" /\ r.step = "link" => rows'[r.row].giver # j
  BY <1>3, <1>5, <1>7 DEF Holds, WellFormed
<1>14. Count(j, "failed") /\ (UNCHANGED <<changes, faults>> \/ Fault)
  BY DEF ItemFails
<1> QED
  BY <1>1, <1>2, <1>6, <1>8, <1>9, <1>10, <1>11, <1>12, <1>13, <1>14, CountStep

(* LookUp keeps the invariant. *)
LEMMA LookUpStep ==
  ASSUME BatchIInv, NEW j \in Jobs, LookUp(j)
  PROVE  BatchIInv'
<1>1. PICK r : r = jobs[j]
  OBVIOUS
<1>2. r.step = "look" /\ r.kind = "list" /\ UNCHANGED <<rows, children, changes, faults>>
  BY <1>1 DEF LookUp, AtStep, Kind
<1>3. /\ Fine(j, r) /\ r \in JobType /\ JobsFine /\ RowsFine /\ WellFormed(r) /\ Placed(r)
  BY <1>1, JobFacts
<1>4. r.kind \notin Titled /\ r.kind \notin Ones /\ r.kind \notin Walks
  BY <1>2 DEF Titled, Ones, Walks
<1>5. <<"write", r.kind>> \in Course /\ <<"renew", r.kind>> \in Course
  BY <1>2 DEF Course, Loops
<1>6. CASE Goto(j, "write")
  <2>1. CanGo(r, "write", r.whole)
    BY <1>2, <1>3, <1>4, <1>5 DEF CanGo, Placed
  <2>2. "write" \in Steps
    BY DEF Steps
  <2> QED
    BY <1>1, <1>2, <1>6, <2>1, <2>2, GotoStep
<1>7. CASE \E v \in Ids : jobs' = [jobs EXCEPT ![j].step = "renew", ![j].row = v]
  <2>1. PICK v \in Ids : jobs' = [jobs EXCEPT ![j].step = "renew", ![j].row = v]
    BY <1>7
  <2>2. v \in Nat \ {0} /\ v \in 0 .. Len(rows)
    BY <1>3 DEF RowsFine, Ids
  <2>3. PICK s : s = [r EXCEPT !.step = "renew", !.row = v]
    OBVIOUS
  <2>4. jobs' = [jobs EXCEPT ![j] = s]
    BY <1>1, <2>1, <2>3
  <2>5. /\ s \in JobType /\ SameJob(r, s) /\ SameCounts(r, s)
        /\ s.at = r.at /\ s.batch = r.batch /\ s.status = r.status /\ s.whole = r.whole
        /\ s.step = "renew" /\ s.row = v
    BY <1>3, <2>2, <2>3 DEF SameJob, SameCounts, JobType, Steps
  <2>6. Fine(j, s)
    <3>1. WellFormed(s)
      BY <1>2, <1>3, <1>5, <2>2, <2>5 DEF WellFormed, SameJob
    <3>2. Placed(s)
      BY <1>2, <1>3, <1>4, <2>5 DEF Placed, SameJob
    <3>3. Reckoned(s) /\ Tally(j, s) /\ Foresees(s) /\ Unseen(s) /\ Awaits(j, s)
      BY <1>4, <2>5 DEF Reckoned, Tally, Foresees, Expects, Unseen, Awaits, SameJob
    <3>4. Holds(j, s) /\ Batched(s)
      BY <1>2, <1>4, <2>2, <2>5 DEF Holds, Batched, SameJob
    <3>5. s.status # "completed"
      BY <3>1, <2>5 DEF WellFormed
    <3>6. Gives(j, s)
      BY <1>2, <1>3, <2>5 DEF Fine, Gives, SameJob
    <3> QED
      BY <3>1, <3>2, <3>3, <3>4, <3>5, <3>6, <1>4, <2>5 DEF Fine, Foresees, Expects, SameJob
  <2>7. Goes(r, s)
    BY <1>2, <2>5 DEF Goes, SameJob
  <2> QED
    BY <1>1, <1>2, <2>4, <2>6, <2>7, QuietStep
<1>8. Goto(j, "write") \/ \E v \in Ids : jobs' = [jobs EXCEPT ![j].step = "renew", ![j].row = v]
  BY DEF LookUp
<1> QED
  BY <1>6, <1>7, <1>8

(* A job of a kind that neither looks for titles nor imports one item. *)
LEMMA PlainMoved ==
  ASSUME NEW j, NEW r, NEW s \in JobType, Fine(j, r)', SameJob(r, s),
         r.kind \notin Titled, r.kind \notin Ones,
         WellFormed(s)', Placed(s), Reckoned(s),
         s.step \in {"renew", "link", "submit"} => s.row # 0,
         s.step # "pass" => (r.step = "pass" => ~s.whole \/ HandedOn("post", r.items[1])'),
         s.whole => r.whole
  PROVE  Fine(j, s)'
<1>1. s.kind \notin Titled /\ s.kind \notin Ones /\ s.kind # "nfo"
  BY DEF SameJob, Titled
<1>2. Holds(j, s)'
  <2>1. s.step = "link" => s.kind = "list"
    BY <1>1 DEF WellFormed, Course, Loops
  <2> QED
    BY <1>1, <2>1 DEF Holds
<1>3. Placed(s)' /\ Reckoned(s)'
  BY DEF Placed, Reckoned
<1>4. Tally(j, s)' /\ Foresees(s)' /\ Unseen(s)' /\ Batched(s)' /\ Awaits(j, s)'
  BY <1>1 DEF Tally, Foresees, Expects, Unseen, Batched, Awaits
<1>5. Gives(j, s)'
  <2>1. Gives(j, r)' /\ r.kind # "nfo"
    BY <1>1 DEF Fine, SameJob
  <2>2. ASSUME NEW v \in Ids', rows'[v].giver = j
        PROVE  HandedOn("post", v)' \/ ~s.whole
               \/ (s.kind = "fetch" /\ s.step = "pass" /\ v = s.items[1])
    <3>1. HandedOn("post", v)' \/ ~r.whole
          \/ (r.kind = "fetch" /\ r.step = "pass" /\ v = r.items[1])
      BY <2>1, <2>2 DEF Gives
    <3> QED
      BY <3>1 DEF SameJob
  <2> QED
    BY <2>2 DEF Gives
<1> QED
  BY <1>2, <1>3, <1>4, <1>5 DEF Fine

(* A job that imports one item. *)
LEMMA OneMoved ==
  ASSUME RowsFine', NEW j, NEW r, NEW s \in JobType, Fine(j, r)', SameJob(r, s), r.kind \in Ones,
         s.at = r.at, s.row = r.row, WellFormed(s)',
         s.step # "queued",
         s.step \in {"begin", "look", "write"} => s.row = 0,
         s.step \in {"renew", "link", "submit"} => s.row # 0,
         r.step = "submit" => s.step = "submit" \/ ~s.whole \/ HandedOn("download", r.row)',
         s.whole => r.whole
  PROVE  Fine(j, s)'
<1>1. /\ s.kind \in Ones /\ s.kind \notin Titled /\ s.kind \notin Walks
      /\ s.kind # "nfo" /\ s.kind # "fetch"
  BY DEF SameJob, Titled, Walks, Ones
<1>2. WellFormed(r)' /\ Placed(r)' /\ Holds(j, r)' /\ Gives(j, r)' /\ Awaits(j, r)'
  BY DEF Fine
<1>3. s.row \in 0 .. Len(rows') /\ Ids' = 1 .. Len(rows') /\ Len(rows') \in Nat
  BY DEF WellFormed, RowsFine, Ids
<1>4. \A v \in Ids' : v = s.row <=> rows'[v].by = j
  BY <1>2 DEF Holds
<1>5. Holds(j, s)'
  <2>1. s.step = "link" => rows'[s.row].by = j
    BY <1>3, <1>4
  <2> QED
    BY <1>4, <2>1 DEF Holds
<1>6. Placed(s)'
  <2>1. s.at = 1 /\ Len(s.items) = 1
    BY <1>2 DEF Placed, SameJob
  <2> QED
    BY <1>1, <2>1 DEF Placed
<1>7. Reckoned(s)' /\ Tally(j, s)' /\ Foresees(s)' /\ Unseen(s)' /\ Batched(s)'
  BY <1>1 DEF Reckoned, Tally, Foresees, Expects, Unseen, Batched
<1>8. Gives(j, s)'
  BY <1>1, <1>2 DEF Gives, SameJob
<1>9. Awaits(j, s)'
  <2>1. ASSUME NEW v \in Ids', rows'[v].by = j, rows'[v].status = "pending_download"
        PROVE  HandedOn("download", v)' \/ s.step = "submit" \/ ~s.whole
    <3>1. HandedOn("download", v)' \/ r.step = "submit" \/ ~r.whole
      BY <1>2, <2>1 DEF Awaits
    <3>2. v = r.row
      BY <1>4, <2>1, SMTT(30)
    <3> QED
      BY <3>1, <3>2
  <2> QED
    BY <2>1 DEF Awaits
<1> QED
  BY <1>5, <1>6, <1>7, <1>8, <1>9 DEF Fine

(* The row that a job links. *)
LEMMA LinkedRow ==
  ASSUME BatchIInv, NEW j \in Jobs, NEW r, r = jobs[j], r.step = "link",
         rows' = [rows EXCEPT ![r.row].linked = TRUE]
  PROVE  /\ r.row \in Ids /\ Ids' = Ids /\ rows' \in Seq(RowType) /\ rows'[r.row].linked
         /\ RowsGo(j) /\ SameSight /\ Own(j, r)
         /\ \A v \in Ids : /\ rows'[v].giver # 0 => rows'[v].file
                           /\ rows'[v].hidden => rows'[v].touched
                           /\ rows'[v].status = rows[v].status
                           /\ rows'[v].giver = rows[v].giver
<1>1. RowsFine /\ WellFormed(r) /\ Holds(j, r)
  BY JobFacts
<1>2. Len(rows) \in Nat /\ Ids = 1 .. Len(rows) /\ \A v \in Ids : rows[v] \in RowType
  BY <1>1 DEF RowsFine, Ids
<1>3. r.row \in Ids
  BY <1>1, <1>2 DEF WellFormed, Holds
<1>4. PICK x : x = [rows[r.row] EXCEPT !.linked = TRUE]
  OBVIOUS
<1>5. rows' = [rows EXCEPT ![r.row] = x]
  BY <1>4
<1>6. rows[r.row] \in RowType
  BY <1>2, <1>3
<1>7. /\ x \in RowType /\ x.linked
      /\ x.title = rows[r.row].title /\ x.hidden = rows[r.row].hidden
      /\ x.imvdb = rows[r.row].imvdb /\ x.youtube = rows[r.row].youtube
      /\ x.by = rows[r.row].by /\ x.sought = rows[r.row].sought /\ x.touched = rows[r.row].touched
      /\ x.status = rows[r.row].status /\ x.file = rows[r.row].file /\ x.giver = rows[r.row].giver
  BY <1>4, <1>6 DEF RowType
<1>8. /\ Ids' = Ids /\ rows' \in Seq(RowType)
      /\ rows'[r.row] = x /\ \A u \in Ids \ {r.row} : rows'[u] = rows[u]
  BY <1>1, <1>3, <1>5, <1>7, OneRow, ZenonT(40)
<1>9. \A v \in Ids : /\ rows'[v].title = rows[v].title /\ rows'[v].hidden = rows[v].hidden
                     /\ rows'[v].imvdb = rows[v].imvdb /\ rows'[v].youtube = rows[v].youtube
                     /\ rows'[v].by = rows[v].by /\ rows'[v].sought = rows[v].sought
                     /\ rows'[v].touched = rows[v].touched /\ rows'[v].status = rows[v].status
                     /\ rows'[v].file = rows[v].file /\ rows'[v].giver = rows[v].giver
                     /\ rows[v].linked => rows'[v].linked
  BY <1>7, <1>8
<1>10. SameSight /\ RowsGo(j) /\ Own(j, r)
  BY <1>8, <1>9 DEF SameSight, RowsGo, Stays, Own
<1>11. \A v \in Ids : /\ rows'[v].giver # 0 => rows'[v].file
                      /\ rows'[v].hidden => rows'[v].touched
  BY <1>1, <1>9 DEF RowsFine
<1> QED
  BY <1>3, <1>7, <1>8, <1>9, <1>10, <1>11

(* What a step of a job that keeps its rows' ids, and hands nothing on,    *)
(* leaves to show.                                                         *)
LEMMA RowStep ==
  ASSUME BatchIInv, NEW j \in Jobs, NEW r, r = jobs[j], NEW s \in JobType,
         jobs' = [jobs EXCEPT ![j] = s], Goes(r, s),
         RowsGo(j), Ids' = Ids, rows' \in Seq(RowType),
         \A v \in Ids : /\ rows'[v].giver # 0 => rows'[v].file
                        /\ rows'[v].hidden => rows'[v].touched,
         \A v \in Ids : rows'[v].status = "pending_download" =>
                          rows[v].status = "pending_download" \/ r.kind \in Ones,
         UNCHANGED <<children, changes, faults>>
  PROVE  /\ RowsFine'
         /\ Own(j, r) /\ SameSight => Fine(j, r)'
         /\ Fine(j, s)' => BatchIInv'
<1>1. /\ Fine(j, r) /\ r \in JobType /\ JobsFine /\ RowsFine /\ j \in Nat \ {0} /\ ChildrenFine
  BY JobFacts
<1>2. RowsFine'
  BY RowsFineKept DEF Goes
<1>3. ChildrenGo
  BY DEF ChildrenGo, HandedOn
<1>4. Own(j, r) /\ SameSight => Fine(j, r)'
  BY <1>1, <1>2, <1>3, RowsTurn
<1>5. ChildrenFine'
  BY <1>1 DEF ChildrenFine
<1>6. ASSUME Fine(j, s)' PROVE BatchIInv'
  <2>1. \A v \in Ids' \ Ids : Apart(v)'
    OBVIOUS
  <2> QED
    BY <1>2, <1>3, <1>5, <1>6, <2>1, JobStep
<1> QED
  BY <1>2, <1>4, <1>6

(* Link keeps the invariant. *)
LEMMA LinkStep ==
  ASSUME BatchIInv, NEW j \in Jobs, Link(j)
  PROVE  BatchIInv'
<1>1. PICK r : r = jobs[j]
  OBVIOUS
<1>2. /\ r.step = "link" /\ rows' = [rows EXCEPT ![r.row].linked = TRUE]
      /\ UNCHANGED <<children, changes, faults>>
  BY <1>1 DEF Link, AtStep
<1>3. /\ Fine(j, r) /\ r \in JobType /\ JobsFine /\ RowsFine /\ WellFormed(r) /\ Placed(r) /\ Holds(j, r)
      /\ j \in Nat \ {0}
  BY <1>1, JobFacts
<1>4. /\ r.row \in Ids /\ Ids' = Ids /\ rows' \in Seq(RowType) /\ rows'[r.row].linked
      /\ RowsGo(j) /\ SameSight /\ Own(j, r)
      /\ \A v \in Ids : /\ rows'[v].giver # 0 => rows'[v].file
                        /\ rows'[v].hidden => rows'[v].touched
                        /\ rows'[v].status = rows[v].status
                        /\ rows'[v].giver = rows[v].giver
  BY <1>1, <1>2, LinkedRow
<1>5. r.kind \in Loops \cup Ones
  BY <1>2, <1>3 DEF WellFormed, Course
<1>6. CASE r.kind # "nfo" /\ r.kind \in Loops /\ Count(j, "imported")
  BY <1>1, <1>2, <1>4, <1>6, CountStep
<1>7. CASE r.kind = "nfo"
  <2>1. PICK a : a = After(j)
    OBVIOUS
  <2>2. a = IF r.at = Len(r.items) \/ r.at % BatchSize = 0 THEN "yield" ELSE "item"
    BY <1>1, <1>7, <2>1 DEF After, Kind
  <2>3. PICK s : s = [r EXCEPT !.at = @ + 1, !.row = 0, !.step = a,
                               !.imported = @ + 1, !.batch = Append(@, r.row)]
    OBVIOUS
  <2>4. jobs' = [jobs EXCEPT ![j] = s]
    <3>1. jobs' = [jobs EXCEPT ![j].at = @ + 1, ![j].row = 0, ![j].step = After(j),
                     ![j].imported = @ + 1, ![j].batch = Append(@, jobs[j].row)]
      BY <1>1, <1>7 DEF Link, Kind
    <3>2. jobs' = [jobs EXCEPT ![j] =
                    [jobs[j] EXCEPT !.at = @ + 1, !.row = 0, !.step = a,
                                    !.imported = @ + 1, !.batch = Append(@, jobs[j].row)]]
      BY <2>1, <3>1
    <3> QED
      BY <1>1, <2>3, <3>2
  <2>5. r.row \in Nat /\ r.batch \in Seq(Nat) /\ a \in Steps /\ r.at \in Nat \ {0} /\ r.imported \in Nat
    BY <1>3, <2>2 DEF JobType, Steps
  <2>6. /\ s \in JobType /\ SameJob(r, s) /\ s.status = r.status /\ s.whole = r.whole
        /\ s.at = r.at + 1 /\ s.row = 0 /\ s.step = a /\ s.batch = Append(r.batch, r.row)
        /\ s.imported = r.imported + 1 /\ s.skipped = r.skipped /\ s.failed = r.failed
    <3>1. PICK b : b = Append(r.batch, r.row)
      OBVIOUS
    <3>2. b \in Seq(Nat) /\ r.at + 1 \in Nat \ {0} /\ r.imported + 1 \in Nat
      BY <2>5, <3>1
    <3>3. s \in JobType
      BY <1>3, <2>3, <2>5, <3>1, <3>2 DEF JobType
    <3> QED
      BY <1>3, <2>3, <3>1, <3>3 DEF SameJob, JobType
  <2>7. GoesOn(r, s)
    <3>1. a \in {"yield", "item"} /\ (a = "item" => r.at # Len(r.items))
      BY <2>2
    <3> QED
      BY <1>7, <2>6, <3>1 DEF GoesOn
  <2>8. Goes(r, s)
    BY <1>2, <2>6 DEF Goes, SameJob
  <2>9. /\ RowsFine' /\ Fine(j, r)' /\ (Fine(j, s)' => BatchIInv')
    BY <1>1, <1>2, <1>4, <2>4, <2>6, <2>8, RowStep
  <2>10. CountsOne(r, s)'
    BY <1>2, <1>4, <2>6 DEF CountsOne
  <2>11. Keeps(j, r, s)'
    BY <1>4, <2>6 DEF Keeps
  <2>12. Fine(j, s)'
    BY <1>2, <1>7, <2>6, <2>7, <2>9, <2>10, <2>11, Counted DEF Loops, Titled
  <2> QED
    BY <2>9, <2>12
<1>8. CASE /\ r.kind = "list"
           /\ jobs' = [jobs EXCEPT ![j].step = "submit", ![j].imported = @ + 1]
  <2>1. PICK s : s = [r EXCEPT !.step = "submit", !.imported = @ + 1]
    OBVIOUS
  <2>2. jobs' = [jobs EXCEPT ![j] = s]
    BY <1>1, <1>8, <2>1
  <2>3. /\ s \in JobType /\ SameJob(r, s) /\ SamePlace(r, s) /\ s.status = r.status
        /\ s.whole = r.whole /\ s.step = "submit"
    <3>1. r.imported + 1 \in Nat
      BY <1>3 DEF JobType
    <3>2. s \in JobType
      BY <1>3, <2>1, <3>1 DEF JobType, Steps
    <3> QED
      BY <1>3, <2>1, <3>2 DEF SameJob, SamePlace, JobType
  <2>4. Goes(r, s)
    BY <1>2, <2>3 DEF Goes, SameJob
  <2>5. /\ RowsFine' /\ Fine(j, r)' /\ (Fine(j, s)' => BatchIInv')
    BY <1>1, <1>2, <1>4, <2>2, <2>3, <2>4, RowStep
  <2>6. s.kind \notin Titled /\ s.kind \notin Ones /\ s.kind \notin Walks /\ <<"submit", s.kind>> \in Course
    BY <1>8, <2>3 DEF Titled, Ones, Walks, Course, SameJob
  <2>7. WellFormed(r)'
    BY <2>5 DEF Fine
  <2>8. WellFormed(s)'
    BY <1>2, <2>3, <2>6, <2>7 DEF WellFormed, SameJob, SamePlace
  <2>9. Placed(s) /\ Reckoned(s)
    BY <1>2, <1>3, <1>8, <2>3, <2>6 DEF Placed, Reckoned, SameJob, SamePlace
  <2>10. s.row # 0
    BY <1>2, <1>3, <2>3 DEF Holds, SamePlace
  <2>11. Fine(j, s)'
    BY <1>2, <2>3, <2>5, <2>6, <2>8, <2>9, <2>10, PlainMoved DEF SameJob
  <2> QED
    BY <2>5, <2>11
<1>9. CASE /\ r.kind \in Ones
           /\ jobs' = [jobs EXCEPT ![j].step = "mark", ![j].imported = @ + 1]
  <2>1. PICK s : s = [r EXCEPT !.step = "mark", !.imported = @ + 1]
    OBVIOUS
  <2>2. jobs' = [jobs EXCEPT ![j] = s]
    BY <1>1, <1>9, <2>1
  <2>3. /\ s \in JobType /\ SameJob(r, s) /\ SamePlace(r, s) /\ s.status = r.status
        /\ s.whole = r.whole /\ s.step = "mark"
    <3>1. r.imported + 1 \in Nat
      BY <1>3 DEF JobType
    <3>2. s \in JobType
      BY <1>3, <2>1, <3>1 DEF JobType, Steps
    <3> QED
      BY <1>3, <2>1, <3>2 DEF SameJob, SamePlace, JobType
  <2>4. Goes(r, s)
    BY <1>2, <2>3 DEF Goes, SameJob
  <2>5. /\ RowsFine' /\ Fine(j, r)' /\ (Fine(j, s)' => BatchIInv')
    BY <1>1, <1>2, <1>4, <2>2, <2>3, <2>4, RowStep
  <2>6. <<"mark", s.kind>> \in Course
    BY <1>9, <2>3 DEF Course, SameJob
  <2>7. WellFormed(r)'
    BY <2>5 DEF Fine
  <2>8. WellFormed(s)'
    BY <1>2, <2>3, <2>6, <2>7 DEF WellFormed, SameJob, SamePlace
  <2>9. Fine(j, s)'
    BY <1>2, <1>9, <2>3, <2>5, <2>8, OneMoved DEF SamePlace
  <2> QED
    BY <2>5, <2>9
<1>10. \/ r.kind # "nfo" /\ r.kind \in Loops /\ Count(j, "imported")
       \/ r.kind = "nfo"
       \/ r.kind = "list" /\ jobs' = [jobs EXCEPT ![j].step = "submit", ![j].imported = @ + 1]
       \/ r.kind \in Ones /\ jobs' = [jobs EXCEPT ![j].step = "mark", ![j].imported = @ + 1]
  <2>1. CASE r.kind = "spotify"
    BY <1>1, <2>1 DEF Link, Kind, Loops, Titled
  <2>2. CASE r.kind = "list"
    <3>1. CASE jobs[j].auto /\ Item(j).youtube # NoId
      BY <1>1, <2>2, <3>1 DEF Link, Kind
    <3>2. CASE ~(jobs[j].auto /\ Item(j).youtube # NoId)
      BY <1>1, <2>2, <3>2 DEF Link, Kind, Loops
    <3> QED
      BY <3>1, <3>2
  <2>3. CASE r.kind \in Ones
    BY <1>1, <2>3 DEF Link, Kind, Ones
  <2> QED
    BY <1>5, <2>1, <2>2, <2>3 DEF Loops, Titled
<1> QED
  BY <1>6, <1>7, <1>8, <1>9, <1>10

(* Renew keeps the invariant. *)
LEMMA RenewStep ==
  ASSUME BatchIInv, NEW j \in Jobs, Renew(j)
  PROVE  BatchIInv'
<1>1. PICK r : r = jobs[j]
  OBVIOUS
<1>2. r.step = "renew" /\ UNCHANGED <<children, changes, faults>> /\ Goto(j, "link")
  BY <1>1 DEF Renew, AtStep
<1>3. /\ Fine(j, r) /\ r \in JobType /\ JobsFine /\ RowsFine /\ WellFormed(r) /\ Placed(r) /\ Holds(j, r)
      /\ j \in Nat \ {0}
  BY <1>1, JobFacts
<1>4. r.kind = "list" /\ r.kind \notin Titled /\ r.kind \notin Ones /\ r.kind \notin Walks
  BY <1>2, <1>3 DEF WellFormed, Course, Titled, Ones, Walks
<1>5. Len(rows) \in Nat /\ Ids = 1 .. Len(rows) /\ \A v \in Ids : rows[v] \in RowType
  BY <1>3 DEF RowsFine, Ids
<1>6. r.row \in Ids
  BY <1>2, <1>3, <1>5 DEF WellFormed, Holds
<1>7. PICK i \in Items : i = Item(j)
  <2>1. r.items \in Seq(Items) /\ r.at \in 1 .. Len(r.items)
    BY <1>2, <1>3, <1>4 DEF WellFormed, OfRows, Placed
  <2> QED
    BY <1>1, <2>1 DEF Item
<1>8. i.title \in Titles /\ i.imvdb \in Names /\ i.youtube \in Names
  BY BatchImportAssumption DEF Names
<1>9. PICK im : im = IF i.imvdb = NoId THEN rows[r.row].imvdb ELSE i.imvdb
  OBVIOUS
<1>10. PICK yt : yt = IF i.youtube = NoId THEN rows[r.row].youtube ELSE i.youtube
  OBVIOUS
<1>11. rows[r.row] \in RowType
  BY <1>5, <1>6
<1>12. im \in Names /\ yt \in Names
  BY <1>8, <1>9, <1>10, <1>11 DEF RowType
<1>13. PICK x : x = [rows[r.row] EXCEPT !.title = i.title, !.status = "discovered", !.touched = TRUE,
                                        !.imvdb = im, !.youtube = yt]
  OBVIOUS
<1>14. rows' = [rows EXCEPT ![r.row] = x]
  <2>1. rows' = [rows EXCEPT ![r.row] =
                  [rows[r.row] EXCEPT !.title = i.title, !.status = "discovered", !.touched = TRUE,
                     !.imvdb = IF i.imvdb = NoId THEN rows[r.row].imvdb ELSE i.imvdb,
                     !.youtube = IF i.youtube = NoId THEN rows[r.row].youtube ELSE i.youtube]]
    BY <1>1, <1>7, <1>11 DEF Renew, RowType
  <2> QED
    BY <1>9, <1>10, <1>13, <2>1
<1>15. /\ x \in RowType /\ x.touched /\ x.status = "discovered"
       /\ x.hidden = rows[r.row].hidden /\ x.linked = rows[r.row].linked
       /\ x.by = rows[r.row].by /\ x.sought = rows[r.row].sought
       /\ x.file = rows[r.row].file /\ x.giver = rows[r.row].giver
  BY <1>8, <1>11, <1>12, <1>13 DEF RowType
<1>16. /\ Ids' = Ids /\ rows' \in Seq(RowType)
       /\ rows'[r.row] = x /\ \A u \in Ids \ {r.row} : rows'[u] = rows[u]
  BY <1>3, <1>6, <1>14, <1>15, OneRow
<1>17. \A v \in Ids : /\ rows'[v].by = rows[v].by /\ rows'[v].sought = rows[v].sought
                      /\ rows'[v].linked = rows[v].linked
                      /\ rows'[v].touched \/ rows'[v].touched = rows[v].touched
                      /\ rows'[v].title = rows[v].title \/ rows'[v].touched
                      /\ rows'[v].status = "discovered" \/ rows'[v].status = rows[v].status
                      /\ rows'[v].hidden = rows[v].hidden
                      /\ rows'[v].file = rows[v].file /\ rows'[v].giver = rows[v].giver
  BY <1>15, <1>16
<1>18. RowsGo(j) /\ Own(j, r)
  BY <1>16, <1>17 DEF RowsGo, Stays, Own
<1>19. \A v \in Ids : /\ rows'[v].giver # 0 => rows'[v].file
                      /\ rows'[v].hidden => rows'[v].touched
  BY <1>3, <1>17 DEF RowsFine
<1>20. \A v \in Ids : rows'[v].status = "pending_download" =>
                        rows[v].status = "pending_download" \/ r.kind \in Ones
  BY <1>17
<1>21. "link" \in Steps
  BY DEF Steps
<1>22. PICK s : jobs' = [jobs EXCEPT ![j] = s] /\ Turn(r, s, "link", r.status, r.whole)
  BY <1>1, <1>2, <1>3, <1>21, GotoTurns
<1>23. s \in JobType /\ Goes(r, s)
  BY <1>2, <1>22 DEF Turn, Goes, SameJob
<1>24. RowsFine' /\ (Fine(j, s)' => BatchIInv')
  BY <1>1, <1>2, <1>16, <1>18, <1>19, <1>20, <1>22, <1>23, RowStep
<1>25. Fine(j, r)'
  <2>1. ChildrenGo
    BY <1>2 DEF ChildrenGo, HandedOn
  <2> QED
    BY <1>3, <1>4, <1>18, <1>24, <2>1, RowsTurn
<1>26. Fine(j, s)'
  <2>1. <<"link", s.kind>> \in Course /\ s.kind = "list"
    BY <1>4, <1>22 DEF Course, Loops, Turn, SameJob
  <2>2. WellFormed(s)'
    BY <1>2, <1>22, <1>25, <2>1 DEF Fine, WellFormed, Turn, SameJob, SamePlace
  <2>3. Placed(s) /\ Reckoned(s)
    BY <1>2, <1>3, <1>4, <1>22 DEF Placed, Reckoned, Turn, SameJob, SamePlace
  <2>4. s.row # 0
    BY <1>2, <1>3, <1>22 DEF Holds, Turn, SamePlace
  <2>5. SameJob(r, s) /\ s.whole = r.whole /\ s.step = "link"
    BY <1>22 DEF Turn
  <2> QED
    BY <1>2, <1>4, <1>23, <1>25, <2>2, <2>3, <2>4, <2>5, PlainMoved
<1> QED
  BY <1>24, <1>26

(* Mark keeps the invariant. *)
LEMMA MarkStep ==
  ASSUME BatchIInv, NEW j \in Jobs, Mark(j)
  PROVE  BatchIInv'
<1>1. PICK r : r = jobs[j]
  OBVIOUS
<1>2. r.step = "mark" /\ UNCHANGED <<children, changes, faults>>
  BY <1>1 DEF Mark, AtStep
<1>3. /\ Fine(j, r) /\ r \in JobType /\ JobsFine /\ RowsFine /\ WellFormed(r) /\ Placed(r) /\ Holds(j, r)
      /\ j \in Nat \ {0}
  BY <1>1, JobFacts
<1>4. r.kind \in Ones /\ r.kind \notin Titled /\ r.kind \notin Walks /\ r.kind # "nfo"
  BY <1>2, <1>3 DEF WellFormed, Course, Titled, Ones, Walks
<1>5. <<"end", r.kind>> \in Course /\ <<"submit", r.kind>> \in Course
      /\ "end" \in Steps /\ "submit" \in Steps
  BY <1>4 DEF Course, Kinds, Ones, Steps
<1>6. CASE Finish(j, "cancelled") /\ UNCHANGED rows
  BY <1>1, <1>2, <1>6, CutStep
<1>7. CASE Goto(j, "end") /\ UNCHANGED rows
  <2>1. CanGo(r, "end", r.whole)
    BY <1>2, <1>4, <1>5 DEF CanGo
  <2> QED
    BY <1>1, <1>2, <1>5, <1>7, <2>1, GotoStep
<1>8. ASSUME NEW download \in BOOLEAN, r.row # 0,
             rows' = [rows EXCEPT ![r.row].status = IF download THEN "pending_download" ELSE "discovered"],
             Goto(j, IF download THEN "submit" ELSE "end")
      PROVE  BatchIInv'
  <2>1. PICK a : a = IF download THEN "submit" ELSE "end"
    OBVIOUS
  <2>2. PICK st : st = IF download THEN "pending_download" ELSE "discovered"
    OBVIOUS
  <2>3. PICK s : jobs' = [jobs EXCEPT ![j] = s] /\ Turn(r, s, a, r.status, r.whole)
    <3>1. Goto(j, a) /\ a \in Steps
      BY <1>5, <1>8, <2>1
    <3> QED
      BY <1>1, <1>3, <3>1, GotoTurns
  <2>4. s \in JobType /\ Goes(r, s)
    BY <1>2, <2>3 DEF Turn, Goes, SameJob
  <2>5. CanGo(r, a, r.whole)
    <3>1. r.at = 1 /\ Len(r.items) = 1
      BY <1>3, <1>4 DEF Placed
    <3>2. CASE a = "end"
      BY <1>2, <1>4, <1>5, <3>2 DEF CanGo
    <3>3. CASE a = "submit"
      BY <1>2, <1>4, <1>5, <1>8, <3>1, <3>3 DEF CanGo
    <3> QED
      BY <2>1, <3>2, <3>3
  <2>6. Fine(j, s)
    BY <1>3, <2>3, <2>5, Moved DEF Turn
  <2>7. Len(rows) \in Nat /\ Ids = 1 .. Len(rows) /\ \A v \in Ids : rows[v] \in RowType
    BY <1>3 DEF RowsFine, Ids
  <2>8. r.row \in Ids /\ rows[r.row] \in RowType
    BY <1>3, <1>8, <2>7 DEF WellFormed
  <2>9. PICK x : x = [rows[r.row] EXCEPT !.status = st]
    OBVIOUS
  <2>10. rows' = [rows EXCEPT ![r.row] = x]
    BY <1>8, <2>2, <2>9
  <2>11. /\ x \in RowType /\ x.status = st
         /\ x.title = rows[r.row].title /\ x.hidden = rows[r.row].hidden
         /\ x.imvdb = rows[r.row].imvdb /\ x.youtube = rows[r.row].youtube
         /\ x.by = rows[r.row].by /\ x.sought = rows[r.row].sought
         /\ x.touched = rows[r.row].touched /\ x.linked = rows[r.row].linked
         /\ x.file = rows[r.row].file /\ x.giver = rows[r.row].giver
    BY <2>2, <2>8, <2>9 DEF RowType
  <2>12. /\ Ids' = Ids /\ rows' \in Seq(RowType)
         /\ rows'[r.row] = x /\ \A u \in Ids \ {r.row} : rows'[u] = rows[u]
    BY <1>3, <2>8, <2>10, <2>11, OneRow
  <2>13. \A v \in Ids : /\ rows'[v].title = rows[v].title /\ rows'[v].hidden = rows[v].hidden
                        /\ rows'[v].imvdb = rows[v].imvdb /\ rows'[v].youtube = rows[v].youtube
                        /\ rows'[v].by = rows[v].by /\ rows'[v].sought = rows[v].sought
                        /\ rows'[v].touched = rows[v].touched /\ rows'[v].linked = rows[v].linked
                        /\ rows'[v].file = rows[v].file /\ rows'[v].giver = rows[v].giver
                        /\ v = r.row \/ rows'[v].status = rows[v].status
    BY <2>11, <2>12
  <2>14. \A v \in Ids : v = r.row <=> rows[v].by = j
    BY <1>3, <1>4 DEF Holds
  <2>15. RowsGo(j) /\ SameSight
    BY <2>12, <2>13, <2>14 DEF RowsGo, Stays, SameSight
  <2>16. \A v \in Ids : /\ rows'[v].giver # 0 => rows'[v].file
                        /\ rows'[v].hidden => rows'[v].touched
    BY <1>3, <2>13 DEF RowsFine
  <2>17. Own(j, s)
    <3>1. a = "end" => \A v \in Ids : rows'[v].status # "pending_download"
                                      \/ rows'[v].status = rows[v].status
      BY <2>1, <2>2, <2>11, <2>12, <2>13
    <3>2. s.step = a /\ a \in {"end", "submit"}
      BY <2>1, <2>3 DEF Turn
    <3> QED
      BY <2>12, <2>13, <3>1, <3>2 DEF Own
  <2>18. RowsFine' /\ (Fine(j, s)' => BatchIInv')
    BY <1>1, <1>2, <1>4, <2>3, <2>4, <2>12, <2>15, <2>16, RowStep
  <2>19. ChildrenGo
    BY <1>2 DEF ChildrenGo, HandedOn
  <2>20. Fine(j, s)'
    BY <1>3, <2>6, <2>15, <2>17, <2>18, <2>19, RowsTurn
  <2> QED
    BY <2>18, <2>20
<1>9. PICK download \in BOOLEAN : download = (jobs[j].auto /\ Item(j).youtube # NoId)
  OBVIOUS
<1>10. \/ Finish(j, "cancelled") /\ UNCHANGED rows
       \/ Goto(j, "end") /\ UNCHANGED rows
       \/ /\ r.row # 0
          /\ rows' = [rows EXCEPT ![r.row].status = IF download THEN "pending_download" ELSE "discovered"]
          /\ Goto(j, IF download THEN "submit" ELSE "end")
  BY <1>1, <1>9 DEF Mark
<1> QED
  BY <1>6, <1>7, <1>8, <1>10

(* RecordFile keeps the invariant. *)
LEMMA RecordFileStep ==
  ASSUME BatchIInv, NEW j \in Jobs, RecordFile(j)
  PROVE  BatchIInv'
<1>1. PICK r : r = jobs[j]
  OBVIOUS
<1>2. r.step = "record" /\ Goto(j, "pass") /\ UNCHANGED <<children, changes, faults>>
  BY <1>1 DEF RecordFile, AtStep
<1>3. /\ Fine(j, r) /\ r \in JobType /\ JobsFine /\ RowsFine /\ WellFormed(r) /\ Placed(r) /\ Holds(j, r)
      /\ j \in Nat \ {0}
  BY <1>1, JobFacts
<1>4. r.kind = "fetch" /\ r.kind \notin Titled /\ r.kind \notin Walks /\ r.kind \notin Ones
  BY <1>2, <1>3 DEF WellFormed, Course, Titled, Ones, Walks
<1>5. PICK w : w = r.items[1]
  OBVIOUS
<1>6. w \in Ids /\ w = Item(j)
  <2>1. r.items \in Seq(Ids) /\ r.at = 1 /\ Len(r.items) = 1
    BY <1>3, <1>4 DEF WellFormed, OfRows, Placed
  <2> QED
    BY <1>1, <1>5, <2>1 DEF Item
<1>7. Len(rows) \in Nat /\ Ids = 1 .. Len(rows) /\ \A v \in Ids : rows[v] \in RowType
  BY <1>3 DEF RowsFine, Ids
<1>8. rows[w] \in RowType
  BY <1>6, <1>7
<1>9. PICK x : x = [rows[w] EXCEPT !.file = TRUE, !.status = "downloaded", !.giver = j]
  OBVIOUS
<1>10. rows' = [rows EXCEPT ![w] = x]
  BY <1>6, <1>9 DEF RecordFile
<1>11. /\ x \in RowType /\ x.status = "downloaded" /\ x.file /\ x.giver = j
       /\ x.title = rows[w].title /\ x.hidden = rows[w].hidden
       /\ x.imvdb = rows[w].imvdb /\ x.youtube = rows[w].youtube
       /\ x.by = rows[w].by /\ x.sought = rows[w].sought
       /\ x.touched = rows[w].touched /\ x.linked = rows[w].linked
  BY <1>3, <1>8, <1>9 DEF RowType
<1>12. /\ Ids' = Ids /\ rows' \in Seq(RowType)
       /\ rows'[w] = x /\ \A u \in Ids \ {w} : rows'[u] = rows[u]
  BY <1>3, <1>6, <1>10, <1>11, OneRow
<1>13. \A v \in Ids : /\ rows'[v].title = rows[v].title /\ rows'[v].hidden = rows[v].hidden
                      /\ rows'[v].imvdb = rows[v].imvdb /\ rows'[v].youtube = rows[v].youtube
                      /\ rows'[v].by = rows[v].by /\ rows'[v].sought = rows[v].sought
                      /\ rows'[v].touched = rows[v].touched /\ rows'[v].linked = rows[v].linked
                      /\ rows[v].file => rows'[v].file
                      /\ rows'[v].giver = rows[v].giver \/ (v = w /\ rows'[v].giver = j /\ rows'[v].file)
                      /\ rows'[v].status \in {rows[v].status, "downloaded"}
  BY <1>11, <1>12
<1>14. RowsGo(j) /\ SameSight
  BY <1>12, <1>13 DEF RowsGo, Stays, SameSight
<1>15. \A v \in Ids : /\ rows'[v].giver # 0 => rows'[v].file
                      /\ rows'[v].hidden => rows'[v].touched
  BY <1>3, <1>13 DEF RowsFine
<1>16. \A v \in Ids : rows'[v].status = "pending_download" => rows[v].status = "pending_download"
  BY <1>13
<1>17. "pass" \in Steps
  BY DEF Steps
<1>18. PICK s : jobs' = [jobs EXCEPT ![j] = s] /\ Turn(r, s, "pass", r.status, r.whole)
  BY <1>1, <1>2, <1>3, <1>17, GotoTurns
<1>19. s \in JobType /\ Goes(r, s)
  BY <1>2, <1>18 DEF Turn, Goes, SameJob
<1>20. Fine(j, s)
  <2>1. <<"pass", r.kind>> \in Course
    BY <1>4 DEF Course
  <2>2. CanGo(r, "pass", r.whole)
    BY <1>2, <1>4, <2>1 DEF CanGo
  <2> QED
    BY <1>3, <1>18, <2>2, Moved DEF Turn
<1>21. Own(j, s)
  BY <1>4, <1>5, <1>12, <1>13, <1>16, <1>18 DEF Own, Turn, SameJob
<1>22. RowsFine' /\ (Fine(j, s)' => BatchIInv')
  BY <1>1, <1>2, <1>12, <1>14, <1>15, <1>16, <1>18, <1>19, RowStep
<1>23. ChildrenGo
  BY <1>2 DEF ChildrenGo, HandedOn
<1>24. Fine(j, s)'
  BY <1>3, <1>14, <1>20, <1>21, <1>22, <1>23, RowsTurn
<1> QED
  BY <1>22, <1>24

----------------------------------------------------------------------------
(* Rows that are handed on.                                                *)

(* One more child, of a row. *)
LEMMA OneChild ==
  ASSUME ChildrenFine, NEW what \in {"post", "pipeline", "download"}, NEW v \in Ids, Ids \subseteq Nat,
         children' = Append(children, Child(what, v)), UNCHANGED rows
  PROVE  ChildrenFine' /\ ChildrenGo /\ HandedOn(what, v)'
<1>1. PICK x : x = Child(what, v)
  OBVIOUS
<1>2. x \in ChildType /\ x.kind = what /\ x.row = v
  BY <1>1 DEF Child, ChildType
<1>3. children \in Seq(ChildType) /\ Len(children) \in Nat /\ DOMAIN children = 1 .. Len(children)
  BY DEF ChildrenFine
<1>4. children' = Append(children, x)
  BY <1>1
<1>5. /\ children' \in Seq(ChildType) /\ DOMAIN children' = 1 .. Len(children) + 1
      /\ children'[Len(children) + 1] = x
      /\ \A c \in DOMAIN children : c \in DOMAIN children' /\ children'[c] = children[c]
  BY <1>2, <1>3, <1>4
<1>6. \A c \in DOMAIN children' : c \in DOMAIN children \/ c = Len(children) + 1
  BY <1>3, <1>5
<1>7. ChildrenFine'
  BY <1>2, <1>5, <1>6 DEF ChildrenFine, Ids
<1>8. ChildrenGo
  BY <1>5 DEF ChildrenGo, HandedOn
<1>9. HandedOn(what, v)'
  BY <1>2, <1>3, <1>5 DEF HandedOn
<1> QED
  BY <1>7, <1>8, <1>9

(* A step that leaves the rows alone and may hand one on. *)
LEMMA HandStep ==
  ASSUME BatchIInv, NEW j \in Jobs, NEW r, r = jobs[j], NEW s \in JobType,
         jobs' = [jobs EXCEPT ![j] = s], Goes(r, s), UNCHANGED rows, ChildrenGo, ChildrenFine',
         UNCHANGED <<changes, faults>> \/ Fault \/ Changed
  PROVE  /\ RowsFine' /\ Fine(j, r)'
         /\ Fine(j, s)' => BatchIInv'
<1>1. /\ Fine(j, r) /\ r \in JobType /\ JobsFine /\ RowsFine /\ j \in Nat \ {0} /\ ChildrenFine
  BY JobFacts
<1>2. /\ RowsGo(j) /\ Ids' = Ids /\ rows' \in Seq(RowType) /\ SameSight /\ Own(j, r)
      /\ \A v \in Ids : /\ rows'[v].giver # 0 => rows'[v].file
                        /\ rows'[v].hidden => rows'[v].touched
                        /\ rows'[v].status = rows[v].status
  BY <1>1, SameRows
<1>3. RowsFine'
  BY <1>2, RowsFineKept DEF Goes
<1>4. Fine(j, r)'
  BY <1>1, <1>2, <1>3, RowsTurn
<1>5. ASSUME Fine(j, s)' PROVE BatchIInv'
  <2>1. \A v \in Ids' \ Ids : Apart(v)'
    BY <1>2
  <2> QED
    BY <1>2, <1>3, <1>5, <2>1, JobStep
<1> QED
  BY <1>3, <1>4, <1>5

(* SubmitPipeline keeps the invariant. *)
LEMMA SubmitPipelineStep ==
  ASSUME BatchIInv, NEW j \in Jobs, SubmitPipeline(j)
  PROVE  BatchIInv'
<1>1. PICK r : r = jobs[j]
  OBVIOUS
<1>2. r.step = "submit" /\ r.kind = "list" /\ UNCHANGED <<rows, changes, faults>>
  BY <1>1 DEF SubmitPipeline, AtStep, Kind
<1>3. /\ r \in JobType /\ JobsFine /\ RowsFine /\ ChildrenFine /\ WellFormed(r) /\ Placed(r) /\ Holds(j, r)
  BY <1>1, JobFacts
<1>4. r.kind \notin Titled /\ r.kind \notin Walks /\ r.kind \notin Ones
  BY <1>2 DEF Titled, Ones, Walks
<1>5. Ids = 1 .. Len(rows) /\ Len(rows) \in Nat
  BY <1>3 DEF RowsFine, Ids
<1>6. r.row \in Ids
  BY <1>2, <1>3, <1>5 DEF WellFormed, Holds
<1>7. ChildrenFine' /\ ChildrenGo
  <2>1. children' = Append(children, Child("pipeline", r.row))
    BY <1>1 DEF SubmitPipeline
  <2> QED
    BY <1>2, <1>3, <1>5, <1>6, <2>1, OneChild
<1>8. PICK a \in {"item", "end"} : a = After(j)
  BY <1>1, <1>2 DEF After, Kind
<1>9. PICK s : s = [r EXCEPT !.at = @ + 1, !.row = 0, !.step = a]
  OBVIOUS
<1>10. jobs' = [jobs EXCEPT ![j] = s]
  BY <1>1, <1>8, <1>9 DEF SubmitPipeline
<1>11. /\ s \in JobType /\ SameJob(r, s) /\ s.status = r.status /\ s.whole = r.whole
       /\ s.at = r.at + 1 /\ s.row = 0 /\ s.step = a /\ s.batch = r.batch
  <2>1. r.at + 1 \in Nat \ {0} /\ a \in Steps
    BY <1>3, <1>8 DEF JobType, Steps
  <2>2. s \in JobType
    BY <1>3, <1>9, <2>1 DEF JobType
  <2> QED
    BY <1>3, <1>9, <2>2 DEF SameJob, JobType
<1>12. Goes(r, s)
  BY <1>2, <1>11 DEF Goes, SameJob
<1>13. RowsFine' /\ Fine(j, r)' /\ (Fine(j, s)' => BatchIInv')
  BY <1>1, <1>2, <1>7, <1>10, <1>11, <1>12, HandStep
<1>14. WellFormed(s)'
  <2>1. <<a, s.kind>> \in Course
    BY <1>2, <1>8, <1>11 DEF Course, Kinds, Loops, SameJob
  <2>2. 0 \in 0 .. Len(rows')
    BY <1>13 DEF RowsFine
  <2>3. WellFormed(r)'
    BY <1>13 DEF Fine
  <2> QED
    BY <1>2, <1>8, <1>11, <2>1, <2>2, <2>3 DEF WellFormed, SameJob
<1>15. Placed(s) /\ Reckoned(s)
  <2>1. r.at \in 1 .. Len(r.items) /\ Len(r.items) \in Nat
    BY <1>2, <1>3 DEF Placed, WellFormed
  <2>2. s.at \in 1 .. Len(s.items) + 1
    BY <1>11, <2>1 DEF SameJob
  <2> QED
    BY <1>2, <1>4, <1>8, <1>11, <2>2 DEF Placed, Reckoned, SameJob
<1>16. Fine(j, s)'
  BY <1>2, <1>4, <1>8, <1>11, <1>13, <1>14, <1>15, PlainMoved
<1> QED
  BY <1>13, <1>16

(* SubmitDownload keeps the invariant. *)
LEMMA SubmitDownloadStep ==
  ASSUME BatchIInv, NEW j \in Jobs, SubmitDownload(j)
  PROVE  BatchIInv'
<1>1. PICK r : r = jobs[j]
  OBVIOUS
<1>2. r.step = "submit" /\ r.kind \in Ones /\ UNCHANGED <<rows, changes, faults>> /\ Goto(j, "end")
  BY <1>1 DEF SubmitDownload, AtStep, Kind, Ones
<1>3. /\ r \in JobType /\ JobsFine /\ RowsFine /\ ChildrenFine /\ WellFormed(r) /\ Placed(r) /\ Holds(j, r)
  BY <1>1, JobFacts
<1>4. Ids = 1 .. Len(rows) /\ Len(rows) \in Nat
  BY <1>3 DEF RowsFine, Ids
<1>5. r.row \in Ids
  BY <1>2, <1>3, <1>4 DEF WellFormed, Holds
<1>6. ChildrenFine' /\ ChildrenGo /\ HandedOn("download", r.row)'
  <2>1. children' = Append(children, Child("download", r.row))
    BY <1>1 DEF SubmitDownload
  <2> QED
    BY <1>2, <1>3, <1>4, <1>5, <2>1, OneChild
<1>7. "end" \in Steps
  BY DEF Steps
<1>8. PICK s : jobs' = [jobs EXCEPT ![j] = s] /\ Turn(r, s, "end", r.status, r.whole)
  BY <1>1, <1>2, <1>3, <1>7, GotoTurns
<1>9. s \in JobType /\ Goes(r, s)
  BY <1>2, <1>8 DEF Turn, Goes, SameJob
<1>10. RowsFine' /\ Fine(j, r)' /\ (Fine(j, s)' => BatchIInv')
  BY <1>1, <1>2, <1>6, <1>8, <1>9, HandStep
<1>11. WellFormed(s)'
  <2>1. <<"end", s.kind>> \in Course
    BY <1>2, <1>8 DEF Course, Kinds, Ones, Turn, SameJob
  <2> QED
    BY <1>2, <1>8, <1>10, <2>1 DEF Fine, WellFormed, Turn, SameJob, SamePlace
<1>12. Fine(j, s)'
  BY <1>2, <1>6, <1>8, <1>9, <1>10, <1>11, OneMoved DEF Turn, SamePlace
<1> QED
  BY <1>10, <1>12

(* Yield keeps the invariant. *)
LEMMA YieldStep ==
  ASSUME BatchIInv, NEW j \in Jobs, Yield(j)
  PROVE  BatchIInv'
<1>1. PICK r : r = jobs[j]
  OBVIOUS
<1>2. r.step = "yield" /\ UNCHANGED <<rows, children>>
  BY <1>1 DEF Yield, AtStep
<1>3. r.kind = "nfo"
  BY <1>1, <1>2, WorkOf DEF Course
<1>4. CanGo(r, "hand", r.whole) /\ "hand" \in Steps
  BY <1>2, <1>3 DEF CanGo, Course, Ones, Steps
<1>5. \/ (Finish(j, "cancelled") \/ Goto(j, "hand")) /\ UNCHANGED <<changes, faults>>
      \/ Fault /\ Finish(j, "failed")
  BY DEF Yield
<1> QED
  BY <1>1, <1>2, <1>4, <1>5, CutStep, GotoStep

(* The head of a batch is handed on or, by a fault, not. *)
LEMMA HandOnStep ==
  ASSUME BatchIInv, NEW j \in Jobs, HandOn(j)
  PROVE  BatchIInv'
<1>1. PICK r : r = jobs[j]
  OBVIOUS
<1>2. r.step = "hand" /\ UNCHANGED rows
  BY <1>1 DEF HandOn, AtStep
<1>3. /\ r.kind = "nfo" /\ r.at \in Nat \ {0} /\ Len(r.items) \in Nat /\ r.at <= Len(r.items) + 1
      /\ r.status \in {"running", "cancelled"}
  BY <1>1, <1>2, WorkOf DEF Course
<1>4. /\ r \in JobType /\ JobsFine /\ RowsFine /\ ChildrenFine /\ WellFormed(r) /\ Placed(r) /\ Fine(j, r)
      /\ j \in Nat \ {0}
  BY <1>1, JobFacts
<1>5. CASE r.batch = << >> /\ Goto(j, IF Listed(j) THEN "item" ELSE "end")
             /\ UNCHANGED <<children, changes, faults>>
  <2>1. CASE Listed(j) /\ Goto(j, "item")
    <3>1. CanGo(r, "item", r.whole) /\ "item" \in Steps
      BY <1>2, <1>3, <1>5 DEF CanGo, Course, Loops, Titled, Ones, Steps
    <3> QED
      BY <1>1, <1>2, <1>5, <2>1, <3>1, GotoStep
  <2>2. CASE ~Listed(j) /\ Goto(j, "end")
    <3>1. r.at = Len(r.items) + 1
      BY <1>1, <1>3, <2>2 DEF Listed
    <3>2. CanGo(r, "end", r.whole) /\ "end" \in Steps
      BY <1>2, <1>3, <1>5, <3>1 DEF CanGo, Course, Kinds, Titled, Ones, Steps
    <3> QED
      BY <1>1, <1>2, <1>5, <2>2, <3>2, GotoStep
  <2> QED
    BY <1>5, <2>1, <2>2
<1>6. ASSUME r.batch # << >>, NEW v, v = Head(r.batch), NEW whole \in {r.whole, FALSE},
             NEW s, s = [r EXCEPT !.batch = Tail(@), !.whole = whole], jobs' = [jobs EXCEPT ![j] = s],
             ChildrenGo, ChildrenFine', UNCHANGED <<changes, faults>> \/ Fault,
             rows[v].file /\ whole => HandedOn("post", v)'
      PROVE  BatchIInv'
  <2>1. v \in Ids /\ Tail(r.batch) \in Seq(Ids) /\ r.batch \in Seq(Ids)
    BY <1>4, <1>6 DEF WellFormed
  <2>2. PICK b \in Seq(Ids) : b = Tail(r.batch)
    BY <2>1
  <2>3. b \in Seq(Nat)
    <3>1. Ids \subseteq Nat
      BY <1>4 DEF RowsFine, Ids
    <3> QED
      BY <3>1, SeqWider
  <2>4. /\ s \in JobType /\ SameJob(r, s) /\ SameCounts(r, s)
        /\ s.at = r.at /\ s.row = r.row /\ s.batch = b /\ s.status = r.status
        /\ s.whole = whole /\ s.step = "hand"
    BY <1>2, <1>4, <1>6, <2>2, <2>3 DEF SameJob, SameCounts, JobType
  <2>5. Goes(r, s)
    BY <1>2, <1>6, <2>4 DEF Goes, SameJob
  <2>6. RowsFine' /\ Fine(j, r)' /\ (Fine(j, s)' => BatchIInv')
    BY <1>1, <1>2, <1>6, <2>4, <2>5, HandStep
  <2>7. /\ WellFormed(r)' /\ Placed(r)' /\ Reckoned(r)' /\ Tally(j, r)' /\ Foresees(r)' /\ Gives(j, r)'
    BY <2>6 DEF Fine
  <2>8. s.kind \notin Ones /\ s.kind \notin OfRows /\ s.kind \in Titled /\ s.kind = "nfo"
    BY <1>3, <2>4 DEF SameJob, Ones, OfRows, Titled
  <2>9. WellFormed(s)'
    <3>1. b \in Seq(Ids')
      BY <1>2 DEF Ids
    <3> QED
      BY <1>2, <2>4, <2>7, <3>1 DEF WellFormed, SameJob
  <2>10. Placed(s)' /\ Reckoned(s)' /\ Holds(j, s)' /\ Unseen(s)' /\ Awaits(j, s)' /\ Batched(s)'
    <3>1. Placed(s)'
      BY <1>2, <2>4, <2>7, <2>8 DEF Placed, SameJob
    <3>2. s.status # "completed"
      BY <1>3, <2>4
    <3>3. Reckoned(s)'
      BY <2>4, <2>7, <3>2 DEF Reckoned, SameJob, SameCounts
    <3> QED
      BY <2>4, <2>8, <3>1, <3>2, <3>3 DEF Holds, Unseen, Awaits, Batched
  <2>11. Tally(j, s)'
    <3>1. LinkedBy(j, s)' = LinkedBy(j, r)'
      BY <1>2, <2>4 DEF LinkedBy
    <3> QED
      BY <2>4, <2>7, <3>1 DEF Tally, SameJob, SameCounts
  <2>12. Foresees(s)'
    <3>1. \A n : Wants(s, n)' <=> Wants(r, n)'
      BY <2>4 DEF Wants, SameJob
    <3>2. ASSUME Expects(s) PROVE \E W \in SUBSET DOMAIN s.items : Promise(s, W)'
      <4>1. Expects(r)
        BY <1>6, <2>4, <3>2 DEF Expects, NoneTaken, SameJob, SameCounts
      <4>2. PICK W \in SUBSET DOMAIN r.items : Promise(r, W)'
        BY <1>2, <2>7, <4>1 DEF Foresees, Expects, NoneTaken
      <4>3. Promise(s, W)'
        BY <1>2, <2>4, <3>1, <4>2 DEF Promise, SameJob, SameCounts
      <4> QED
        BY <2>4, <4>3 DEF SameJob
    <3>3. s.status # "completed"
      BY <1>3, <2>4
    <3> QED
      BY <3>2, <3>3 DEF Foresees, Expects, NoneTaken
  <2>13. Gives(j, s)'
    <3>1. ASSUME NEW u \in Ids', rows'[u].giver = j
          PROVE  HandedOn("post", u)' \/ ~s.whole
                 \/ (s.kind = "nfo" /\ \E i \in DOMAIN s.batch : s.batch[i] = u)
      <4>1. \/ HandedOn("post", u)' \/ ~r.whole
            \/ \E i \in DOMAIN r.batch : r.batch[i] = u
        BY <1>2, <1>3, <2>7, <3>1 DEF Gives
      <4>2. CASE \E i \in DOMAIN r.batch : r.batch[i] = u
        <5>1. u = v \/ \E i \in DOMAIN b : b[i] = u
          <6>1. PICK i \in 1 .. Len(r.batch) : r.batch[i] = u
            BY <2>1, <4>2
          <6>2. CASE i = 1
            BY <1>6, <2>1, <6>1, <6>2
          <6>3. CASE i # 1
            <7>1. i - 1 \in DOMAIN b /\ b[i - 1] = r.batch[i]
              BY <1>6, <2>1, <2>2, <6>1, <6>3
            <7> QED
              BY <6>1, <7>1
          <6> QED
            BY <6>2, <6>3
        <5>2. rows[u].file
          <6>1. u \in Ids /\ rows[u].giver = j /\ j # 0
            BY <1>2, <1>4, <3>1 DEF Ids
          <6> QED
            BY <1>4, <6>1 DEF RowsFine
        <5> QED
          BY <1>6, <2>4, <2>8, <5>1, <5>2
      <4> QED
        BY <1>6, <2>4, <4>1, <4>2
    <3> QED
      BY <3>1 DEF Gives
  <2>14. Fine(j, s)'
    BY <2>9, <2>10, <2>11, <2>12, <2>13 DEF Fine
  <2> QED
    BY <2>6, <2>14
<1>7. CASE /\ r.batch # << >> /\ UNCHANGED <<changes, faults>>
           /\ jobs' = [jobs EXCEPT ![j].batch = Tail(@)]
           /\ children' = IF rows[Head(r.batch)].file THEN Append(children, PostProcess(Head(r.batch)))
                          ELSE children
  <2>1. PICK v : v = Head(r.batch)
    OBVIOUS
  <2>2. v \in Ids /\ Ids \subseteq Nat
    BY <1>4, <1>7, <2>1 DEF WellFormed, RowsFine, Ids
  <2>3. PICK s : s = [r EXCEPT !.batch = Tail(@), !.whole = r.whole]
    OBVIOUS
  <2>4. jobs' = [jobs EXCEPT ![j] = s]
    <3>1. s = [r EXCEPT !.batch = Tail(@)]
      BY <1>4, <2>3 DEF JobType
    <3> QED
      BY <1>1, <1>7, <3>1
  <2>5. CASE rows[v].file
    <3>1. children' = Append(children, Child("post", v))
      BY <1>7, <2>1, <2>5 DEF PostProcess
    <3>2. ChildrenFine' /\ ChildrenGo /\ HandedOn("post", v)'
      BY <1>2, <1>4, <2>2, <3>1, OneChild
    <3> QED
      BY <1>6, <1>7, <2>1, <2>3, <2>4, <3>2
  <2>6. CASE ~rows[v].file
    <3>1. children' = children
      BY <1>7, <2>1, <2>6
    <3>2. ChildrenFine' /\ ChildrenGo
      BY <1>2, <1>4, <3>1 DEF ChildrenFine, ChildrenGo, HandedOn, Ids
    <3> QED
      BY <1>6, <1>7, <2>1, <2>3, <2>4, <2>6, <3>2
  <2> QED
    BY <2>5, <2>6
<1>8. CASE /\ r.batch # << >> /\ Fault /\ UNCHANGED children
           /\ jobs' = [jobs EXCEPT ![j].batch = Tail(@), ![j].whole = FALSE]
  <2>1. PICK v : v = Head(r.batch)
    OBVIOUS
  <2>2. PICK s : s = [r EXCEPT !.batch = Tail(@), !.whole = FALSE]
    OBVIOUS
  <2>3. jobs' = [jobs EXCEPT ![j] = s]
    BY <1>1, <1>8, <2>2
  <2>4. ChildrenFine' /\ ChildrenGo
    BY <1>2, <1>4, <1>8 DEF ChildrenFine, ChildrenGo, HandedOn, Ids
  <2> QED
    BY <1>6, <1>8, <2>1, <2>2, <2>3, <2>4
<1>9. \/ r.batch = << >> /\ Goto(j, IF Listed(j) THEN "item" ELSE "end")
           /\ UNCHANGED <<children, changes, faults>>
      \/ /\ r.batch # << >> /\ UNCHANGED <<changes, faults>>
         /\ jobs' = [jobs EXCEPT ![j].batch = Tail(@)]
         /\ children' = IF rows[Head(r.batch)].file THEN Append(children, PostProcess(Head(r.batch)))
                        ELSE children
      \/ /\ r.batch # << >> /\ Fault /\ UNCHANGED children
         /\ jobs' = [jobs EXCEPT ![j].batch = Tail(@), ![j].whole = FALSE]
  BY <1>1 DEF HandOn
<1> QED
  BY <1>5, <1>7, <1>8, <1>9

----------------------------------------------------------------------------
(* Single imports.                                                         *)

(* What a job that imports one item is between its steps. *)
LEMMA OneAtWork ==
  ASSUME BatchIInv, NEW j \in Jobs, NEW r, r = jobs[j], r.kind \in Ones
  PROVE  /\ r.kind \notin Titled /\ r.kind \notin Walks /\ r.kind # "nfo" /\ r.kind # "list"
         /\ r.kind \in Kinds
         /\ r.at = 1 /\ Len(r.items) = 1
  BY JobFacts DEF Placed, Titled, Ones, Walks, Kinds

(* Begin keeps the invariant. *)
LEMMA BeginStep ==
  ASSUME BatchIInv, NEW j \in Jobs, Begin(j)
  PROVE  BatchIInv'
<1>1. PICK r : r = jobs[j]
  OBVIOUS
<1>2. r.step = "begin" /\ UNCHANGED <<rows, children, changes, faults>>
  BY <1>1 DEF Begin, AtStep
<1>3. r.kind \in Ones
  BY <1>1, <1>2, WorkOf DEF Course
<1>4. r.row = 0
  BY <1>1, <1>2, <1>3, JobFacts DEF Holds
<1>5. r.kind \notin Titled /\ r.kind # "nfo" /\ r.at = 1 /\ Len(r.items) = 1
  BY <1>1, <1>3, OneAtWork
<1>6. CanGo(r, "look", r.whole) /\ "look" \in Steps
  BY <1>2, <1>3, <1>4, <1>5 DEF CanGo, Course, Steps
<1>7. CanGo(r, "write", r.whole) /\ "write" \in Steps
  BY <1>2, <1>3, <1>4, <1>5 DEF CanGo, Course, Steps
<1>8. Finish(j, "cancelled") \/ Goto(j, "look") \/ Goto(j, "write")
  BY DEF Begin
<1> QED
  BY <1>1, <1>2, <1>6, <1>7, <1>8, CutStep, GotoStep

(* LookForOne keeps the invariant. *)
LEMMA LookForOneStep ==
  ASSUME BatchIInv, NEW j \in Jobs, LookForOne(j)
  PROVE  BatchIInv'
<1>1. PICK r : r = jobs[j]
  OBVIOUS
<1>2. r.step = "look" /\ r.kind \in Ones /\ UNCHANGED <<rows, children>>
  BY <1>1 DEF LookForOne, AtStep, Kind, Ones
<1>3. r.row = 0
  BY <1>1, <1>2, JobFacts DEF Holds
<1>4. r.kind \notin Titled /\ r.kind # "nfo" /\ r.at = 1 /\ Len(r.items) = 1 /\ r.kind \notin Walks
  BY <1>1, <1>2, OneAtWork
<1>5. /\ r \in JobType /\ JobsFine /\ RowsFine /\ ChildrenFine /\ WellFormed(r)
  BY <1>1, JobFacts
<1>6. CanGo(r, "write", r.whole) /\ CanGo(r, "write", FALSE) /\ "write" \in Steps
  BY <1>2, <1>3, <1>4 DEF CanGo, Course, Steps
<1>7. CASE jobs' = [jobs EXCEPT ![j].step = "mark", ![j].skipped = @ + 1] /\ UNCHANGED <<changes, faults>>
  <2>1. PICK s : s = [r EXCEPT !.step = "mark", !.skipped = @ + 1]
    OBVIOUS
  <2>2. jobs' = [jobs EXCEPT ![j] = s]
    BY <1>1, <1>7, <2>1
  <2>3. /\ s \in JobType /\ SameJob(r, s) /\ SamePlace(r, s) /\ s.status = r.status
        /\ s.whole = r.whole /\ s.step = "mark"
    <3>1. r.skipped + 1 \in Nat
      BY <1>5 DEF JobType
    <3>2. s \in JobType
      BY <1>5, <2>1, <3>1 DEF JobType, Steps
    <3> QED
      BY <1>5, <2>1, <3>2 DEF SameJob, SamePlace, JobType
  <2>4. Goes(r, s)
    BY <1>2, <2>3 DEF Goes, SameJob
  <2>5. ChildrenGo /\ ChildrenFine'
    BY <1>2, <1>5 DEF ChildrenGo, HandedOn, ChildrenFine, Ids
  <2>6. RowsFine' /\ Fine(j, r)' /\ (Fine(j, s)' => BatchIInv')
    BY <1>1, <1>2, <1>7, <2>2, <2>3, <2>4, <2>5, HandStep
  <2>7. WellFormed(s)'
    <3>1. <<"mark", s.kind>> \in Course
      BY <1>2, <2>3 DEF Course, SameJob
    <3> QED
      BY <1>2, <2>3, <2>6, <3>1 DEF Fine, WellFormed, SameJob, SamePlace
  <2>8. Fine(j, s)'
    BY <1>2, <2>3, <2>6, <2>7, OneMoved DEF SamePlace
  <2> QED
    BY <2>6, <2>8
<1>8. \/ jobs' = [jobs EXCEPT ![j].step = "mark", ![j].skipped = @ + 1] /\ UNCHANGED <<changes, faults>>
      \/ Goto(j, "write") /\ UNCHANGED <<changes, faults>>
      \/ Fault /\ jobs' = [jobs EXCEPT ![j].step = "write", ![j].whole = FALSE]
  BY DEF LookForOne
<1> QED
  BY <1>1, <1>2, <1>6, <1>7, <1>8, GotoStep

(* OneFails keeps the invariant. *)
LEMMA OneFailsStep ==
  ASSUME BatchIInv, NEW j \in Jobs, OneFails(j)
  PROVE  BatchIInv'
<1>1. PICK r : r = jobs[j]
  OBVIOUS
<1>2. /\ r.step \in {"write", "link", "mark", "submit"} /\ r.kind \in Ones
      /\ UNCHANGED <<rows, children>> /\ (UNCHANGED <<changes, faults>> \/ Fault)
  BY <1>1 DEF OneFails, AtStep, Kind, Ones
<1>3. r \in JobType /\ JobsFine /\ RowsFine /\ Fine(j, r)
  BY <1>1, JobFacts
<1>4. PICK s : s = [r EXCEPT !.step = "done", !.status = "failed", !.whole = FALSE]
  OBVIOUS
<1>5. jobs' = [jobs EXCEPT ![j] = s]
  BY <1>1, <1>4 DEF OneFails
<1>6. Turn(r, s, "done", "failed", FALSE)
  BY <1>3, <1>4 DEF Turn, SameJob, SamePlace, SameCounts, JobType, Steps, Statuses
<1>7. Fine(j, s)
  BY <1>3, <1>6, CutShort DEF Turn
<1>8. Goes(r, s)
  BY <1>2, <1>6 DEF Goes, Turn, SameJob
<1> QED
  BY <1>1, <1>2, <1>5, <1>7, <1>8, QuietStep

(* A job that was cancelled before its turn, and one whose list is done. *)
LEMMA DiscardEndStep ==
  ASSUME BatchIInv, NEW j \in Jobs, Discard(j) \/ End(j)
  PROVE  BatchIInv'
<1>1. PICK r : r = jobs[j]
  OBVIOUS
<1>2. CASE Discard(j)
  <2>1. r.step = "queued" /\ Finish(j, "cancelled") /\ UNCHANGED <<rows, children, changes, faults>>
    BY <1>1, <1>2 DEF Discard, AtStep
  <2> QED
    BY <1>1, <2>1, CutStep
<1>3. CASE End(j)
  <2>1. r.step = "end" /\ UNCHANGED <<rows, children>>
    BY <1>1, <1>3 DEF End, AtStep
  <2>2. CASE (Finish(j, "cancelled") \/ Finish(j, "completed")) /\ UNCHANGED <<changes, faults>>
    BY <1>1, <2>1, <2>2, EndStep
  <2>3. CASE Fault /\ Finish(j, "failed")
    BY <1>1, <2>1, <2>3, CutStep
  <2> QED
    BY <1>3, <2>2, <2>3 DEF End
<1> QED
  BY <1>2, <1>3

----------------------------------------------------------------------------
(* Downloads and walks.                                                    *)

(* A job of a list of rows, or a download of one, at its work. *)
LEMMA PlainStep ==
  ASSUME BatchIInv, NEW j \in Jobs, NEW r, r = jobs[j], NEW s, jobs' = [jobs EXCEPT ![j] = s],
         s \in JobType, SameJob(r, s), s.row = r.row, s.batch = r.batch,
         s.whole => r.whole, r.step # "done", r.kind \notin Titled, r.kind \notin Ones,
         UNCHANGED rows, ChildrenGo, ChildrenFine',
         UNCHANGED <<changes, faults>> \/ Fault \/ Changed,
         <<s.step, s.kind>> \in Course, s.step \notin {"queued", "renew", "link", "submit"},
         s.status \in IF s.step = "done" THEN {"completed", "failed", "cancelled"}
                      ELSE {"running", "cancelled"},
         Placed(s), Reckoned(s),
         s.step # "pass" => (r.step = "pass" => ~s.whole \/ HandedOn("post", r.items[1])')
  PROVE  BatchIInv'
<1>1. Goes(r, s)
  BY DEF Goes, SameJob
<1>2. RowsFine' /\ Fine(j, r)' /\ (Fine(j, s)' => BatchIInv')
  BY <1>1, HandStep
<1>3. WellFormed(s)'
  BY <1>2 DEF Fine, WellFormed, SameJob
<1>4. Fine(j, s)'
  BY <1>2, <1>3, PlainMoved
<1> QED
  BY <1>2, <1>4

(* A step that hands nothing on. *)
LEMMA SameChildren ==
  ASSUME BatchIInv, UNCHANGED <<rows, children>>
  PROVE  ChildrenGo /\ ChildrenFine'
  BY DEF BatchIInv, ChildrenGo, HandedOn, ChildrenFine, Ids

(* Acquire keeps the invariant. *)
LEMMA AcquireStep ==
  ASSUME BatchIInv, NEW j \in Jobs, Acquire(j)
  PROVE  BatchIInv'
<1>1. PICK r : r = jobs[j]
  OBVIOUS
<1>2. r.step = "wait" /\ r.kind = "fetch" /\ UNCHANGED <<rows, children, changes, faults>>
  BY <1>1 DEF Acquire, AtStep, Kind
<1>3. r \in JobType /\ Placed(r)
  BY <1>1, JobFacts
<1>4. r.kind \notin Titled /\ r.kind \notin Ones /\ r.kind \notin Walks /\ r.kind # "nfo"
  BY <1>2 DEF Titled, Ones, Walks
<1>5. r.status \in {"running", "cancelled"}
  BY <1>1, <1>2, WorkOf
<1>6. CanGo(r, "fetch", r.whole) /\ "fetch" \in Steps
  BY <1>2, <1>4 DEF CanGo, Course, Steps
<1>7. ASSUME NEW s, s \in JobType, SameJob(r, s), SamePlace(r, s), s.status = r.status,
             s.whole = r.whole, s.step = "end", jobs' = [jobs EXCEPT ![j] = s]
      PROVE  BatchIInv'
  <2>1. <<"end", s.kind>> \in Course
    BY <1>2, <1>7 DEF Course, Kinds, SameJob
  <2>2. Placed(s) /\ Reckoned(s)
    BY <1>2, <1>3, <1>4, <1>7 DEF Placed, Reckoned, SameJob, SamePlace
  <2>3. ChildrenGo /\ ChildrenFine'
    BY <1>2, SameChildren
  <2> QED
    BY <1>1, <1>2, <1>4, <1>5, <1>7, <2>1, <2>2, <2>3, PlainStep DEF SamePlace
<1>8. CASE jobs' = [jobs EXCEPT ![j].step = "end", ![j].failed = 1]
  <2>1. PICK s : s = [r EXCEPT !.step = "end", !.failed = 1]
    OBVIOUS
  <2>2. jobs' = [jobs EXCEPT ![j] = s]
    BY <1>1, <1>8, <2>1
  <2>3. /\ s \in JobType /\ SameJob(r, s) /\ SamePlace(r, s) /\ s.status = r.status
        /\ s.whole = r.whole /\ s.step = "end"
    BY <1>3, <2>1 DEF SameJob, SamePlace, JobType, Steps
  <2> QED
    BY <1>7, <2>2, <2>3
<1>9. CASE jobs' = [jobs EXCEPT ![j].step = "end", ![j].skipped = 1]
  <2>1. PICK s : s = [r EXCEPT !.step = "end", !.skipped = 1]
    OBVIOUS
  <2>2. jobs' = [jobs EXCEPT ![j] = s]
    BY <1>1, <1>9, <2>1
  <2>3. /\ s \in JobType /\ SameJob(r, s) /\ SamePlace(r, s) /\ s.status = r.status
        /\ s.whole = r.whole /\ s.step = "end"
    BY <1>3, <2>1 DEF SameJob, SamePlace, JobType, Steps
  <2> QED
    BY <1>7, <2>2, <2>3
<1>10. \/ Finish(j, "cancelled") \/ Goto(j, "fetch")
       \/ jobs' = [jobs EXCEPT ![j].step = "end", ![j].failed = 1]
       \/ jobs' = [jobs EXCEPT ![j].step = "end", ![j].skipped = 1]
  <2>1. PICK v : v = Item(j)
    OBVIOUS
  <2>2. CASE ~Shown(v)
    BY <2>1, <2>2 DEF Acquire
  <2>3. CASE Shown(v) /\ (rows[v].file \/ rows[v].youtube = NoId)
    BY <2>1, <2>3 DEF Acquire
  <2>4. CASE Shown(v) /\ ~(rows[v].file \/ rows[v].youtube = NoId)
    BY <2>1, <2>4 DEF Acquire
  <2> QED
    BY <2>2, <2>3, <2>4
<1> QED
  BY <1>1, <1>2, <1>6, <1>8, <1>9, <1>10, CutStep, GotoStep

(* Fetched, AcquireDirect and FetchedDirect keep the invariant. *)
LEMMA FetchSteps ==
  ASSUME BatchIInv, NEW j \in Jobs, Fetched(j) \/ AcquireDirect(j) \/ FetchedDirect(j)
  PROVE  BatchIInv'
<1>1. PICK r : r = jobs[j]
  OBVIOUS
<1>2. /\ r.step \in {"wait", "fetch"} /\ r.kind \in {"fetch", "direct"}
      /\ UNCHANGED <<rows, children>> /\ (UNCHANGED <<changes, faults>> \/ Fault)
  BY <1>1 DEF Fetched, AcquireDirect, FetchedDirect, AtStep, Kind
<1>3. CanGo(r, "fetch", r.whole) /\ (r.kind = "fetch" => CanGo(r, "record", r.whole))
      /\ CanGo(r, "end", r.whole)
  BY <1>2 DEF CanGo, Course, Kinds, Titled, Walks, Ones
<1>4. "fetch" \in Steps /\ "record" \in Steps /\ "end" \in Steps
  BY DEF Steps
<1>5. \/ Finish(j, "cancelled") \/ Finish(j, "failed")
      \/ Goto(j, "fetch") \/ Goto(j, "end") \/ (Goto(j, "record") /\ r.kind = "fetch")
  BY <1>1 DEF Fetched, AcquireDirect, FetchedDirect, Kind
<1> QED
  BY <1>1, <1>2, <1>3, <1>4, <1>5, CutStep, GotoStep

(* PassOn and FetchFails keep the invariant. *)
LEMMA PassOnStep ==
  ASSUME BatchIInv, NEW j \in Jobs, PassOn(j) \/ FetchFails(j)
  PROVE  BatchIInv'
<1>1. PICK r : r = jobs[j]
  OBVIOUS
<1>2. /\ r.step \in {"fetch", "record", "pass"} /\ UNCHANGED rows
      /\ (UNCHANGED <<changes, faults>> \/ Fault)
      /\ PassOn(j) => r.step = "pass"
      /\ FetchFails(j) => r.kind = "fetch" /\ UNCHANGED children
  BY <1>1 DEF PassOn, FetchFails, AtStep, Downloading, Kind
<1>3. r.status \in {"running", "cancelled"} /\ (r.step = "pass" => r.kind = "fetch")
  BY <1>1, <1>2, WorkOf DEF Course
<1>4. r.kind = "fetch" /\ r.kind \notin Titled /\ r.kind \notin Ones /\ r.kind \notin Walks
  BY <1>2, <1>3 DEF Titled, Ones, Walks
<1>5. r \in JobType /\ Placed(r) /\ WellFormed(r) /\ ChildrenFine /\ RowsFine
  BY <1>1, JobFacts
<1>6. PICK a \in {"done", "end"} : a = IF Cancelled(j) THEN "done" ELSE "end"
  OBVIOUS
<1>7. a = "done" => r.status = "cancelled"
  BY <1>1, <1>6 DEF Cancelled
<1>8. ASSUME NEW s, s \in JobType, SameJob(r, s), SamePlace(r, s), s.status = r.status,
             s.whole => r.whole, s.step = a, jobs' = [jobs EXCEPT ![j] = s],
             ChildrenGo, ChildrenFine', ~s.whole \/ HandedOn("post", r.items[1])'
      PROVE  BatchIInv'
  <2>1. <<a, s.kind>> \in Course
    BY <1>4, <1>8 DEF Course, Kinds, SameJob
  <2>2. Placed(s) /\ Reckoned(s)
    BY <1>4, <1>5, <1>8 DEF Placed, Reckoned, SameJob, SamePlace
  <2>3. s.row = r.row /\ s.batch = r.batch
    BY <1>8 DEF SamePlace
  <2>4. s.status \in IF s.step = "done" THEN {"completed", "failed", "cancelled"}
                     ELSE {"running", "cancelled"}
    BY <1>3, <1>7, <1>8
  <2> QED
    BY <1>1, <1>2, <1>4, <1>8, <2>1, <2>2, <2>3, <2>4, PlainStep
<1>9. CASE PassOn(j)
  <2>1. PICK s : s = [r EXCEPT !.step = a, !.imported = 1]
    OBVIOUS
  <2>2. jobs' = [jobs EXCEPT ![j] = s]
    BY <1>1, <1>6, <1>9, <2>1 DEF PassOn
  <2>3. /\ s \in JobType /\ SameJob(r, s) /\ SamePlace(r, s) /\ s.status = r.status
        /\ s.whole = r.whole /\ s.step = a
    BY <1>5, <1>6, <2>1 DEF SameJob, SamePlace, JobType, Steps
  <2>4. PICK v : v = r.items[1]
    OBVIOUS
  <2>5. v \in Ids /\ v = Item(j) /\ Ids \subseteq Nat
    <3>1. r.items \in Seq(Ids) /\ r.at = 1 /\ Len(r.items) = 1
      BY <1>4, <1>5 DEF WellFormed, OfRows, Placed
    <3>2. Ids \subseteq Nat
      BY <1>5 DEF RowsFine, Ids
    <3> QED
      BY <1>1, <2>4, <3>1, <3>2 DEF Item
  <2>6. children' = Append(children, Child("post", v))
    BY <1>9, <2>5 DEF PassOn
  <2>7. ChildrenFine' /\ ChildrenGo /\ HandedOn("post", v)'
    BY <1>2, <1>5, <2>5, <2>6, OneChild
  <2>8. HandedOn("post", r.items[1])'
    BY <2>4, <2>7
  <2> QED
    BY <1>8, <2>2, <2>3, <2>7, <2>8
<1>10. CASE FetchFails(j)
  <2>1. PICK s : s = [r EXCEPT !.step = a, !.failed = 1, !.whole = FALSE]
    OBVIOUS
  <2>2. jobs' = [jobs EXCEPT ![j] = s]
    BY <1>1, <1>6, <1>10, <2>1 DEF FetchFails
  <2>3. /\ s \in JobType /\ SameJob(r, s) /\ SamePlace(r, s) /\ s.status = r.status
        /\ s.whole = FALSE /\ s.step = a
    BY <1>5, <1>6, <2>1, ZenonT(40) DEF SameJob, SamePlace, JobType, Steps
  <2>4. ChildrenGo /\ ChildrenFine'
    BY <1>2, <1>10, SameChildren
  <2> QED
    BY <1>8, <2>2, <2>3, <2>4
<1> QED
  BY <1>9, <1>10

(* What walks through a list and changes nothing keeps the invariant. *)
LEMMA WalkStep ==
  ASSUME BatchIInv, NEW j \in Jobs, EnrichVideo(j) \/ RefreshVideo(j) \/ ImportUrl(j)
  PROVE  BatchIInv'
<1>1. PICK r : r = jobs[j]
  OBVIOUS
<1>2. r.step = "walk" /\ UNCHANGED <<rows, children, changes, faults>> /\ r.kind \in Walks
  BY <1>1 DEF EnrichVideo, RefreshVideo, ImportUrl, AtStep, Kind, Walks
<1>3. r.kind \notin Titled /\ r.kind \notin Ones /\ r.kind # "nfo"
  BY <1>2 DEF Titled, Ones, Walks
<1>4. /\ r.status \in {"running", "cancelled"} /\ r.at \in Nat \ {0} /\ Len(r.items) \in Nat
      /\ r.at <= Len(r.items) + 1
  BY <1>1, <1>2, WorkOf
<1>5. r \in JobType /\ Placed(r) /\ Fine(j, r)
  BY <1>1, JobFacts
<1>6. r.imported \in Nat /\ r.skipped \in Nat /\ r.failed \in Nat
      /\ r.at = r.imported + r.skipped + r.failed + 1
  BY <1>2, <1>5 DEF JobType, Fine, Reckoned
<1>7. CASE Finish(j, "cancelled")
  BY <1>1, <1>2, <1>7, CutStep
<1>8. CASE ~Listed(j) /\ Goto(j, "end")
  <2>1. r.at = Len(r.items) + 1
    BY <1>1, <1>4, <1>8 DEF Listed
  <2>2. CanGo(r, "end", r.whole) /\ "end" \in Steps
    BY <1>2, <1>3, <2>1 DEF CanGo, Course, Kinds, Walks, Steps
  <2> QED
    BY <1>1, <1>2, <1>8, <2>2, GotoStep
<1>9. ASSUME Listed(j), NEW s, s \in JobType, SameJob(r, s), s.status = r.status,
             s.whole = r.whole, s.step = "walk", s.row = r.row, s.batch = r.batch, s.at = r.at + 1,
             s.imported + s.skipped + s.failed = r.imported + r.skipped + r.failed + 1,
             jobs' = [jobs EXCEPT ![j] = s]
      PROVE  BatchIInv'
  <2>1. <<"walk", s.kind>> \in Course
    BY <1>2, <1>9 DEF Course, SameJob
  <2>2. Placed(s) /\ Reckoned(s)
    <3>1. s.at \in 1 .. Len(s.items) + 1
      BY <1>1, <1>4, <1>9 DEF Listed, SameJob
    <3>2. s.kind \notin Ones \cup {"fetch"}
      BY <1>2, <1>9 DEF SameJob, Ones, Walks
    <3>3. s.at = s.imported + s.skipped + s.failed + 1 /\ s.status # "completed"
      BY <1>4, <1>6, <1>9
    <3>4. s.kind \notin Titled
      BY <1>3, <1>9 DEF SameJob
    <3> QED
      BY <1>9, <3>1, <3>2, <3>3, <3>4 DEF Placed, Reckoned
  <2>3. ChildrenGo /\ ChildrenFine'
    BY <1>2, SameChildren
  <2> QED
    BY <1>1, <1>2, <1>3, <1>4, <1>9, <2>1, <2>2, <2>3, PlainStep
<1>10. CASE Listed(j) /\ jobs' = [jobs EXCEPT ![j].at = @ + 1, ![j].skipped = @ + 1]
  <2>1. PICK s : s = [r EXCEPT !.at = @ + 1, !.skipped = @ + 1]
    OBVIOUS
  <2>2. jobs' = [jobs EXCEPT ![j] = s]
    BY <1>1, <1>10, <2>1
  <2>3. /\ s \in JobType /\ SameJob(r, s) /\ s.status = r.status
        /\ s.whole = r.whole /\ s.step = "walk" /\ s.row = r.row /\ s.batch = r.batch /\ s.at = r.at + 1
        /\ s.imported = r.imported /\ s.skipped = r.skipped + 1 /\ s.failed = r.failed
    <3>1. r.at + 1 \in Nat \ {0} /\ r.skipped + 1 \in Nat
      BY <1>4, <1>6
    <3>2. s \in JobType
      BY <1>5, <2>1, <3>1 DEF JobType
    <3> QED
      BY <1>2, <1>5, <2>1, <3>2 DEF SameJob, JobType
  <2>4. s.imported + s.skipped + s.failed = r.imported + r.skipped + r.failed + 1
    BY <1>6, <2>3
  <2> QED
    BY <1>9, <1>10, <2>2, <2>3, <2>4
<1>11. CASE Listed(j) /\ jobs' = [jobs EXCEPT ![j].at = @ + 1, ![j].failed = @ + 1]
  <2>1. PICK s : s = [r EXCEPT !.at = @ + 1, !.failed = @ + 1]
    OBVIOUS
  <2>2. jobs' = [jobs EXCEPT ![j] = s]
    BY <1>1, <1>11, <2>1
  <2>3. /\ s \in JobType /\ SameJob(r, s) /\ s.status = r.status
        /\ s.whole = r.whole /\ s.step = "walk" /\ s.row = r.row /\ s.batch = r.batch /\ s.at = r.at + 1
        /\ s.imported = r.imported /\ s.skipped = r.skipped /\ s.failed = r.failed + 1
    <3>1. r.at + 1 \in Nat \ {0} /\ r.failed + 1 \in Nat
      BY <1>4, <1>6
    <3>2. s \in JobType
      BY <1>5, <2>1, <3>1 DEF JobType
    <3> QED
      BY <1>2, <1>5, <2>1, <3>2 DEF SameJob, JobType
  <2>4. s.imported + s.skipped + s.failed = r.imported + r.skipped + r.failed + 1
    BY <1>6, <2>3
  <2> QED
    BY <1>9, <1>11, <2>2, <2>3, <2>4
<1>12. (\E results \in SUBSET {"failed", "skipped"} : Walk(j, results)) \/ Finish(j, "failed")
  BY DEF EnrichVideo, RefreshVideo, ImportUrl
<1>13. ASSUME NEW results \in SUBSET {"failed", "skipped"},
              \E result \in results : Listed(j) /\ jobs' = [jobs EXCEPT ![j].at = @ + 1, ![j][result] = @ + 1]
       PROVE  BatchIInv'
  <2>1. PICK result \in results : Listed(j) /\ jobs' = [jobs EXCEPT ![j].at = @ + 1, ![j][result] = @ + 1]
    BY <1>13
  <2>2. CASE result = "failed"
    <3>1. jobs' = [jobs EXCEPT ![j] = [jobs[j] EXCEPT !.at = @ + 1, !.failed = @ + 1]]
      BY <1>1, <1>5, <2>1, <2>2 DEF JobType
    <3> QED
      BY <1>11, <2>1, <3>1
  <2>3. CASE result = "skipped"
    <3>1. jobs' = [jobs EXCEPT ![j] = [jobs[j] EXCEPT !.at = @ + 1, !.skipped = @ + 1]]
      BY <1>1, <1>5, <2>1, <2>3 DEF JobType
    <3> QED
      BY <1>10, <2>1, <3>1
  <2> QED
    BY <2>2, <2>3
<1>14. CASE Finish(j, "failed")
  BY <1>1, <1>2, <1>14, CutStep
<1> QED
  BY <1>7, <1>8, <1>12, <1>13, <1>14 DEF Walk

----------------------------------------------------------------------------
(* Steps that are about more than one job.                                 *)

\* Jobs keep what they are, and no more of them count as undisturbed.
JobsGo ==
  /\ jobs' \in Seq(JobType) /\ Len(jobs) <= Len(jobs')
  /\ \A k \in Jobs : /\ jobs'[k].kind = jobs[k].kind /\ jobs'[k].skip = jobs[k].skip
                     /\ jobs'[k].alone => jobs[k].alone
                     /\ jobs'[k].whole => jobs[k].whole

(* A step that makes no row, and leaves every job as it should be. *)
LEMMA AllStep ==
  ASSUME BatchIInv, JobsGo, RowsGo(0), Ids' = Ids, rows' \in Seq(RowType),
         \A v \in Ids : /\ rows'[v].giver # 0 => rows'[v].file
                        /\ rows'[v].hidden => rows'[v].touched
                        /\ rows'[v].status = rows[v].status,
         UNCHANGED children, UNCHANGED <<changes, faults>> \/ Fault \/ Changed,
         \A k \in 1 .. Len(jobs') :
           /\ Lonely(k)'
           /\ \A q : q = jobs'[k] =>
                       Fine(k, q) /\ (q.alone /\ q.kind \in Titled /\ q.step # "done" => SameSight)
  PROVE  BatchIInv'
<1>1. JobsFine /\ RowsFine /\ ChildrenFine /\ Bounded /\ TwinsFromRaces
  BY DEF BatchIInv
<1>2. /\ Len(jobs) \in Nat /\ Jobs = 1 .. Len(jobs) /\ Len(jobs') \in Nat
      /\ Jobs' = 1 .. Len(jobs') /\ Len(jobs) <= Len(jobs')
  BY <1>1 DEF JobsFine, JobsGo, Jobs
<1>4. \A v \in Ids : /\ rows'[v].by = rows[v].by /\ rows'[v].giver \in {0, rows[v].giver}
                     /\ rows[v].by \in 0 .. Len(jobs) /\ rows[v].giver \in 0 .. Len(jobs)
                     /\ rows'[v].sought = rows[v].sought
  BY <1>1 DEF RowsGo, Stays, RowsFine
<1>5. RowsFine'
  <2>1. ASSUME NEW v \in Ids, rows'[v].status = "pending_download"
        PROVE  rows'[v].by # 0 /\ jobs'[rows'[v].by].kind \in Ones
    <3>1. rows[v].by # 0 /\ Kind(rows[v].by) \in Ones
      BY <1>1, <2>1 DEF RowsFine
    <3>2. rows[v].by \in Jobs
      BY <1>2, <1>4, <3>1
    <3> QED
      BY <1>4, <3>1, <3>2 DEF JobsGo, Kind
  <2>2. \A v \in Ids : rows'[v].by \in 0 .. Len(jobs') /\ rows'[v].giver \in 0 .. Len(jobs')
    BY <1>2, <1>4
  <2> QED
    BY <2>1, <2>2 DEF RowsFine, Kind
<1>3. JobsFine'
  <2>1. ChildrenGo
    BY DEF ChildrenGo, HandedOn
  <2>2. ASSUME NEW k \in Jobs', NEW q, q = jobs'[k] PROVE Fine(k, q)'
    <3>1. k \in Nat \ {0} /\ k # 0 /\ k \in 1 .. Len(jobs')
      BY <1>2
    <3>2. Fine(k, q) /\ (q.alone /\ q.kind \in Titled /\ q.step # "done" => SameSight)
      BY <2>2, <3>1
    <3> QED
      BY <1>1, <1>5, <2>1, <3>1, <3>2, RowsTurn
  <2>3. \A k \in Jobs' : Fine(k, jobs[k])' /\ Lonely(k)'
    BY <1>2, <2>2
  <2> QED
    BY <2>3 DEF JobsFine, JobsGo
<1>6. ChildrenFine'
  BY <1>1 DEF ChildrenFine
<1>7. TwinsFromRaces'
  <2>1. ASSUME NEW u \in Ids, NEW v \in Ids, u < v, NEW k, k = rows[v].by, k # 0,
               jobs'[k].skip, jobs'[k].whole, jobs'[k].kind \in {"nfo", "spotify"},
               rows'[u].title \in Alike(jobs'[k].kind, rows[v].sought)
        PROVE  ~jobs'[k].alone \/ rows'[u].touched
    <3>1. k \in Jobs
      BY <1>2, <1>4, <2>1
    <3>2. /\ jobs[k].skip /\ jobs[k].whole /\ jobs[k].kind = jobs'[k].kind
          /\ jobs'[k].alone => jobs[k].alone
      BY <2>1, <3>1 DEF JobsGo
    <3>3. rows'[u].title = rows[u].title \/ rows'[u].touched
      BY <2>1 DEF RowsGo, Stays
    <3>4. rows[u].touched => rows'[u].touched
      BY <2>1 DEF RowsGo, Stays
    <3>5. rows[u].title \in Alike(jobs[k].kind, rows[v].sought) => ~jobs[k].alone \/ rows[u].touched
      BY <1>1, <2>1, <3>2 DEF TwinsFromRaces, Kind
    <3> QED
      BY <2>1, <3>2, <3>3, <3>4, <3>5
  <2> QED
    BY <1>4, <2>1 DEF TwinsFromRaces, Kind, Alike
<1> QED
  BY <1>1, <1>3, <1>5, <1>6, <1>7, BoundKept DEF BatchIInv

(* A job that others disturb, or that a user cancels. *)
LEMMA Disturbed ==
  ASSUME RowsFine, NEW k, NEW r, Fine(k, r), NEW s \in JobType,
         s.kind = r.kind, s.items = r.items, s.skip = r.skip, s.auto = r.auto, s.wanted = r.wanted,
         s.alone => r.alone, s.whole = r.whole, s.step = r.step,
         SamePlace(r, s), SameCounts(r, s),
         s.status = r.status \/ (r.status \in {"pending", "running"} /\ s.status = "cancelled")
  PROVE  Fine(k, s)
<1>1. /\ WellFormed(r) /\ Placed(r) /\ Reckoned(r) /\ Holds(k, r) /\ Tally(k, r)
      /\ Foresees(r) /\ Unseen(r) /\ Gives(k, r) /\ Batched(r) /\ Awaits(k, r) /\ r \in JobType
  BY DEF Fine, WellFormed
<1>2. WellFormed(s)
  BY <1>1 DEF WellFormed, SamePlace
<1>3. Placed(s) /\ Reckoned(s) /\ Holds(k, s)
  BY <1>1 DEF Placed, Reckoned, Holds, SamePlace, SameCounts
<1>4. Tally(k, s)
  <2>1. LinkedBy(k, s) = LinkedBy(k, r)
    BY DEF LinkedBy, SamePlace
  <2> QED
    BY <1>1, <2>1 DEF Tally, SameCounts
<1>5. Foresees(s)
  <2>1. Expects(s) => Expects(r)
    BY DEF Expects, NoneTaken, SameCounts
  <2>2. \A n : Wants(s, n) <=> Wants(r, n)
    BY DEF Wants
  <2>3. \A W : Promise(r, W) => Promise(s, W)
    BY <2>2 DEF Promise, SamePlace, SameCounts
  <2> QED
    BY <1>1, <2>1, <2>3 DEF Foresees, SameCounts
<1>6. Unseen(s)
  BY <1>1 DEF Unseen, SamePlace
<1>7. Gives(k, s) /\ Batched(s) /\ Awaits(k, s)
  BY <1>1 DEF Gives, Batched, Awaits, SamePlace
<1> QED
  BY <1>2, <1>3, <1>4, <1>5, <1>6, <1>7 DEF Fine

(* Shared is what another request, a cancellation or a change of the       *)
(* library leaves of the jobs: those at work are no longer alone.          *)
LEMMA SharedFacts ==
  ASSUME BatchIInv, NEW k \in Jobs, NEW r, r = jobs[k], NEW s, s = Shared[k]
  PROVE  /\ s \in JobType /\ s.kind = r.kind /\ s.items = r.items /\ s.skip = r.skip
         /\ s.auto = r.auto /\ s.wanted = r.wanted
         /\ s.alone <=> r.alone /\ r.step = "done"
         /\ s.whole = r.whole /\ s.step = r.step /\ s.status = r.status
         /\ SamePlace(r, s) /\ SameCounts(r, s) /\ Fine(k, s)
<1>1. r \in JobType /\ Fine(k, r) /\ RowsFine
  BY JobFacts
<1>2. PICK b \in BOOLEAN : b = (r.alone /\ ~Active(k))
  OBVIOUS
<1>3. s = [r EXCEPT !.alone = b]
  BY <1>1, <1>2 DEF Shared, JobType
<1>4. /\ s \in JobType /\ s.kind = r.kind /\ s.items = r.items /\ s.skip = r.skip
      /\ s.auto = r.auto /\ s.wanted = r.wanted
      /\ s.alone = b
      /\ s.whole = r.whole /\ s.step = r.step /\ s.status = r.status
      /\ SamePlace(r, s) /\ SameCounts(r, s)
  BY <1>1, <1>3 DEF JobType, SamePlace, SameCounts
<1>5. b <=> r.alone /\ r.step = "done"
  BY <1>2 DEF Active
<1>6. Fine(k, s)
  BY <1>1, <1>4, <1>5, Disturbed
<1> QED
  BY <1>4, <1>5, <1>6

(* The list of jobs that are shared. *)
LEMMA SharedType ==
  ASSUME BatchIInv
  PROVE  Shared \in Seq(JobType) /\ Len(Shared) = Len(jobs) /\ DOMAIN Shared = Jobs
         /\ Len(jobs) \in Nat /\ Jobs = 1 .. Len(jobs)
<1>1. jobs \in Seq(JobType)
  BY DEF BatchIInv, JobsFine
<1>2. Len(jobs) \in Nat /\ Jobs = 1 .. Len(jobs)
  BY <1>1 DEF Jobs
<1>3. \A k \in Jobs : Shared[k] \in JobType
  BY SharedFacts
<1>4. DOMAIN Shared = 1 .. Len(jobs) /\ Shared = [k \in 1 .. Len(jobs) |-> Shared[k]]
  BY <1>2 DEF Shared
<1>5. Shared \in [1 .. Len(jobs) -> JobType]
  BY <1>2, <1>3, <1>4
<1> QED
  BY <1>2, <1>5

(* A user cancels a job. *)
LEMMA CancelStep ==
  ASSUME BatchIInv, NEW j \in Jobs, Cancel(j)
  PROVE  BatchIInv'
<1>1. /\ Shared \in Seq(JobType) /\ Len(Shared) = Len(jobs) /\ DOMAIN Shared = Jobs
      /\ Len(jobs) \in Nat /\ Jobs = 1 .. Len(jobs)
  BY SharedType
<1>2. PICK p : p = Shared[j]
  OBVIOUS
<1>3. PICK r : r = jobs[j]
  OBVIOUS
<1>4. /\ p \in JobType /\ p.kind = r.kind /\ p.items = r.items /\ p.skip = r.skip
      /\ p.auto = r.auto /\ p.wanted = r.wanted
      /\ p.alone <=> r.alone /\ r.step = "done"
      /\ p.whole = r.whole /\ p.step = r.step /\ p.status = r.status
      /\ SamePlace(r, p) /\ SameCounts(r, p) /\ Fine(j, p)
  BY <1>2, <1>3, SharedFacts
<1>5. PICK s : s = [p EXCEPT !.status = "cancelled"]
  OBVIOUS
<1>6. /\ s \in JobType /\ s.kind = p.kind /\ s.items = p.items /\ s.skip = p.skip
      /\ s.auto = p.auto /\ s.wanted = p.wanted /\ s.alone = p.alone
      /\ s.whole = p.whole /\ s.step = p.step /\ s.status = "cancelled"
      /\ SamePlace(p, s) /\ SameCounts(p, s)
  BY <1>4, <1>5 DEF JobType, Statuses, SamePlace, SameCounts
<1>7. jobs' = [Shared EXCEPT ![j] = s]
  BY <1>1, <1>2, <1>5 DEF Cancel
<1>8. p.status \in {"pending", "running"} /\ Changed /\ UNCHANGED <<rows, children>> /\ RowsFine
  BY <1>3, <1>4 DEF Cancel, BatchIInv
<1>9. Fine(j, s)
  BY <1>4, <1>6, <1>8, Disturbed
<1>10. /\ jobs' \in Seq(JobType) /\ Len(jobs') = Len(jobs) /\ jobs'[j] = s
       /\ \A k \in Jobs \ {j} : jobs'[k] = Shared[k]
  BY <1>1, <1>6, <1>7
<1>11. ASSUME NEW k \in Jobs, NEW q, q = jobs'[k]
       PROVE  /\ q.kind = jobs[k].kind /\ q.skip = jobs[k].skip
              /\ q.alone => jobs[k].alone /\ q.step = "done"
              /\ q.whole = jobs[k].whole /\ Fine(k, q)
  <2>1. CASE k = j
    BY <1>3, <1>4, <1>6, <1>9, <1>10, <1>11, <2>1
  <2>2. CASE k # j
    <3>1. q = Shared[k]
      BY <1>10, <1>11, <2>2
    <3> QED
      BY <3>1, SharedFacts
  <2> QED
    BY <2>1, <2>2
<1>12. JobsGo
  BY <1>1, <1>10, <1>11 DEF JobsGo
<1>13. \A k \in 1 .. Len(jobs') :
           /\ Lonely(k)'
           /\ \A q : q = jobs'[k] =>
                       Fine(k, q) /\ (q.alone /\ q.kind \in Titled /\ q.step # "done" => SameSight)
  <2>1. ASSUME NEW k \in Jobs PROVE Lonely(k)'
    BY <1>11 DEF Lonely, Active
  <2> QED
    BY <1>1, <1>10, <1>11, <2>1
<1> QED
  BY <1>8, <1>12, <1>13, AllStep, SameRows

(* A user deletes or restores a video. *)
LEMMA HideStep ==
  ASSUME BatchIInv, NEW v \in Ids, Hide(v)
  PROVE  BatchIInv'
<1>1. /\ Shared \in Seq(JobType) /\ Len(Shared) = Len(jobs) /\ DOMAIN Shared = Jobs
      /\ Len(jobs) \in Nat /\ Jobs = 1 .. Len(jobs)
  BY SharedType
<1>2. jobs' = Shared /\ Changed /\ UNCHANGED children /\ RowsFine
  BY DEF Hide, BatchIInv
<1>3. rows \in Seq(RowType) /\ Len(rows) \in Nat /\ Ids = 1 .. Len(rows)
  BY <1>2 DEF RowsFine, Ids
<1>4. PICK x : x = rows[v]
  OBVIOUS
<1>5. PICK h \in BOOLEAN : h = ~x.hidden
  OBVIOUS
<1>6. PICK y : y = [x EXCEPT !.hidden = h, !.touched = TRUE]
  OBVIOUS
<1>7. x \in RowType
  BY <1>3, <1>4
<1>8. /\ y \in RowType /\ y.by = x.by /\ y.sought = x.sought /\ y.linked = x.linked
      /\ y.touched /\ y.giver = x.giver /\ y.status = x.status /\ y.file = x.file
  BY <1>6, <1>7 DEF RowType
<1>9. rows' = [rows EXCEPT ![v] = y]
  BY <1>3, <1>4, <1>5, <1>6 DEF Hide
<1>10. /\ rows' \in Seq(RowType) /\ Ids' = Ids /\ rows'[v] = y
       /\ \A w \in Ids \ {v} : rows'[w] = rows[w]
  BY <1>3, <1>8, <1>9 DEF Ids
<1>11. RowsGo(0)
  <2>1. ASSUME NEW w \in Ids PROVE Stays(0, rows[w], rows'[w])
    BY <1>4, <1>8, <1>10 DEF Stays
  <2> QED
    BY <1>10, <2>1 DEF RowsGo
<1>12. \A w \in Ids : /\ rows'[w].giver # 0 => rows'[w].file
                      /\ rows'[w].hidden => rows'[w].touched
                      /\ rows'[w].status = rows[w].status
  BY <1>2, <1>4, <1>8, <1>10 DEF RowsFine
<1>13. ASSUME NEW k \in Jobs, NEW q, q = jobs'[k]
       PROVE  /\ q.kind = jobs[k].kind /\ q.skip = jobs[k].skip
              /\ q.alone => jobs[k].alone /\ q.step = "done"
              /\ q.whole = jobs[k].whole /\ Fine(k, q)
  BY <1>2, <1>13, SharedFacts
<1>14. JobsGo
  BY <1>1, <1>2, <1>13 DEF JobsGo
<1>15. \A k \in 1 .. Len(jobs') :
           /\ Lonely(k)'
           /\ \A q : q = jobs'[k] =>
                       Fine(k, q) /\ (q.alone /\ q.kind \in Titled /\ q.step # "done" => SameSight)
  <2>1. ASSUME NEW k \in Jobs PROVE Lonely(k)'
    BY <1>13 DEF Lonely, Active
  <2> QED
    BY <1>1, <1>2, <1>13, <2>1
<1> QED
  BY <1>2, <1>10, <1>11, <1>12, <1>14, <1>15, AllStep

(* The server starts again. *)
LEMMA RestartStep ==
  ASSUME BatchIInv, Restart
  PROVE  BatchIInv'
<1>1. /\ JobsFine /\ RowsFine /\ jobs \in Seq(JobType) /\ Len(jobs) \in Nat /\ Jobs = 1 .. Len(jobs)
  BY DEF BatchIInv, JobsFine, Jobs
<1>2. Fault /\ UNCHANGED <<rows, children>>
  BY DEF Restart
<1>3. ASSUME NEW k \in Jobs, NEW q, q = jobs'[k]
      PROVE  /\ q \in JobType /\ q.kind = jobs[k].kind /\ q.skip = jobs[k].skip
             /\ q.alone = jobs[k].alone
             /\ q.whole => jobs[k].whole
             /\ q.step # "done" => jobs[k].step # "done"
             /\ Fine(k, q)
  <2>1. PICK r : r = jobs[k]
    OBVIOUS
  <2>2. Fine(k, r) /\ r \in JobType /\ WellFormed(r)
    BY <2>1, JobFacts
  <2>3. CASE r.step \in {"queued", "done"}
    <3>1. q = r
      BY <1>3, <2>1, <2>3 DEF Restart, Handling
    <3> QED
      BY <2>1, <2>2, <3>1
  <2>4. CASE r.step \notin {"queued", "done"}
    <3>1. PICK status : status = IF r.status = "running" THEN "failed" ELSE r.status
      OBVIOUS
    <3>2. status \in {"failed", "cancelled"} /\ status \in Statuses
      BY <2>2, <2>4, <3>1 DEF WellFormed, Statuses
    <3>3. q = [r EXCEPT !.step = "done", !.whole = FALSE, !.status = status]
      BY <1>3, <2>1, <2>2, <2>4, <3>1 DEF Restart, Handling, JobType
    <3>4. /\ q \in JobType /\ SameJob(r, q) /\ SamePlace(r, q) /\ SameCounts(r, q)
          /\ q.step = "done" /\ q.status = status /\ ~q.whole
      BY <2>2, <3>2, <3>3 DEF JobType, Steps, SameJob, SamePlace, SameCounts
    <3>5. Fine(k, q)
      BY <1>1, <2>2, <3>2, <3>4, CutShort
    <3> QED
      BY <2>1, <2>4, <3>4, <3>5 DEF SameJob
  <2> QED
    BY <2>3, <2>4
<1>4. /\ Len(jobs') = Len(jobs) /\ jobs' \in Seq(JobType)
  <2>1. \A k \in Jobs : jobs'[k] \in JobType
    BY <1>3
  <2>2. DOMAIN jobs' = 1 .. Len(jobs) /\ jobs' = [k \in 1 .. Len(jobs) |-> jobs'[k]]
    BY <1>1 DEF Restart
  <2>3. jobs' \in [1 .. Len(jobs) -> JobType]
    BY <1>1, <2>1, <2>2
  <2> QED
    BY <1>1, <2>3
<1>5. JobsGo
  BY <1>1, <1>3, <1>4 DEF JobsGo
<1>6. SameSight
  BY <1>1, <1>2, SameRows
<1>7. \A k \in 1 .. Len(jobs') :
           /\ Lonely(k)'
           /\ \A q : q = jobs'[k] =>
                       Fine(k, q) /\ (q.alone /\ q.kind \in Titled /\ q.step # "done" => SameSight)
  <2>1. ASSUME NEW k \in Jobs PROVE Lonely(k)'
    <3>1. Lonely(k)
      BY <1>1 DEF JobsFine
    <3>2. Jobs' = Jobs
      BY <1>1, <1>4 DEF Jobs
    <3> QED
      BY <1>3, <3>1, <3>2 DEF Lonely, Active, Kind
  <2> QED
    BY <1>1, <1>3, <1>4, <1>6, <2>1
<1> QED
  BY <1>1, <1>2, <1>5, <1>7, AllStep, SameRows

(* A finite set of rows as a list of its elements. *)
LEMMA TargetsAreListed ==
  ASSUME NEW S, IsFiniteSet(S)
  PROVE  SetToSeq(S) \in Seq(S)
<1>1. PICK n : n = Cardinality(S)
  OBVIOUS
<1>2. n \in Nat /\ ExistsBijection(1 .. n, S)
  BY <1>1, FS_CardinalityType
<1>3. \E f \in [1 .. n -> S] : IsInjective(f)
  BY <1>2 DEF ExistsBijection, Bijection, Injection, IsInjective
<1>4. SetToSeq(S) \in [1 .. n -> S]
  BY <1>1, <1>3 DEF SetToSeq
<1> QED
  BY <1>2, <1>4

(* A list has finitely many places. *)
LEMMA DomainFinite ==
  ASSUME NEW S, NEW q \in Seq(S)
  PROVE  IsFiniteSet(DOMAIN q)
<1>1. PICK n \in Nat : n = Len(q)
  OBVIOUS
<1>2. IsFiniteSet(1 .. n)
  BY FS_Interval
<1>3. DOMAIN q = 1 .. n
  BY <1>1
<1> QED
  BY <1>2, <1>3

(* The videos that can be seen. *)
LEMMA Targets ==
  ASSUME RowsFine
  PROVE  SetToSeq({v \in Ids : Shown(v)}) \in Seq(Ids)
<1>3. IsFiniteSet(Ids)
  BY DomainFinite DEF RowsFine, Ids
<1>4. PICK S : S = {v \in Ids : Shown(v)}
  OBVIOUS
<1>5. IsFiniteSet(S) /\ S \subseteq Ids
  BY <1>3, <1>4, FS_Subset
<1>6. SetToSeq(S) \in Seq(S)
  BY <1>5, TargetsAreListed
<1>7. SetToSeq(S) \in Seq(Ids)
  BY <1>5, <1>6, SeqWider
<1> QED
  BY <1>4, <1>7

\* A job that has just been submitted, alone or not.
Fresh(o, items, a) ==
  [kind |-> o.kind, items |-> items, skip |-> o.skip, auto |-> o.auto,
   status |-> "pending", step |-> "queued", at |-> 1, row |-> 0, batch |-> << >>,
   imported |-> 0, skipped |-> 0, failed |-> 0, wanted |-> Wanted(o), alone |-> a, whole |-> TRUE]

(* Whether it is alone can be said afterwards. *)
LEMMA FreshAlone ==
  ASSUME NEW o, NEW items, NEW a \in BOOLEAN, NEW b \in BOOLEAN,
         NEW p \in JobType, p = Fresh(o, items, a), NEW x \in JobType, x = Fresh(o, items, b)
  PROVE  p = [x EXCEPT !.alone = a]
<1>1. PICK w : w = Wanted(o)
  OBVIOUS
<1>2. /\ p.kind = x.kind /\ p.items = x.items /\ p.skip = x.skip /\ p.auto = x.auto
      /\ p.status = x.status /\ p.step = x.step /\ p.at = x.at /\ p.row = x.row
      /\ p.batch = x.batch /\ p.imported = x.imported /\ p.skipped = x.skipped
      /\ p.failed = x.failed /\ p.wanted = x.wanted /\ p.whole = x.whole /\ p.alone = a
  BY <1>1 DEF Fresh
<1> QED
  BY <1>2 DEF JobType

(* It is as it should be: its preview is what it promises. *)
LEMMA NewJob ==
  ASSUME BatchIInv, NEW o, o.kind \in Kinds, o.items \in Seq(Items),
         o.skip \in BOOLEAN, o.auto \in BOOLEAN,
         NEW items, o.kind \in OfRows => items \in Seq(Ids),
         o.kind \notin OfRows => items = o.items,
         o.kind \in Ones \cup {"fetch"} => Len(items) = 1,
         NEW a \in BOOLEAN, NEW s, s = Fresh(o, items, a)
  PROVE  s \in JobType /\ Fine(Len(jobs) + 1, s) /\ s.kind = o.kind /\ s.alone = a
<1>1. RowsFine /\ ChildrenFine /\ jobs \in Seq(JobType)
  BY DEF BatchIInv, JobsFine
<1>2. PICK W : W = {n \in DOMAIN o.items : o.skip => ~Exists(o.kind, o.items[n])}
  OBVIOUS
<1>4. IsFiniteSet(DOMAIN o.items)
  BY DomainFinite
<1>5. IsFiniteSet(W) /\ W \subseteq DOMAIN o.items
  BY <1>2, <1>4, FS_Subset
<1>6. PICK w \in Nat : w = Cardinality(W) /\ w = Wanted(o)
  BY <1>2, <1>5, FS_CardinalityType DEF Wanted
<1>7. /\ Len(rows) \in Nat /\ Ids = 1 .. Len(rows) /\ Len(jobs) \in Nat
  BY <1>1 DEF RowsFine, Ids
<1>8. items \in Seq(Items) \cup Seq(Nat)
  <2>1. CASE o.kind \in OfRows
    <3>1. Ids \subseteq Nat
      BY <1>7
    <3> QED
      BY <2>1, <3>1, SeqWider
  <2>2. CASE o.kind \notin OfRows
    BY <2>2
  <2> QED
    BY <2>1, <2>2
<1>9. s = [kind |-> o.kind, items |-> items, skip |-> o.skip, auto |-> o.auto,
           status |-> "pending", step |-> "queued", at |-> 1, row |-> 0, batch |-> << >>,
           imported |-> 0, skipped |-> 0, failed |-> 0, wanted |-> w, alone |-> a, whole |-> TRUE]
  BY <1>6 DEF Fresh
<1>10. s \in JobType
  BY <1>6, <1>8, <1>9 DEF JobType, Statuses, Steps
<1>11. Len(items) \in Nat
  BY <1>8
<1>12. WellFormed(s)
  <2>1. <<s.step, s.kind>> \in Course
    BY <1>9 DEF Course
  <2> QED
    BY <1>7, <1>9, <1>10, <2>1 DEF WellFormed
<1>13. Placed(s)
  BY <1>9, <1>11 DEF Placed, Titled
<1>14. Reckoned(s)
  BY <1>9 DEF Reckoned
<1>15. \A v \in Ids : rows[v].by # Len(jobs) + 1 /\ rows[v].giver # Len(jobs) + 1
  BY <1>1, <1>7 DEF RowsFine
<1>16. Holds(Len(jobs) + 1, s)
  BY <1>7, <1>9, <1>15 DEF Holds
<1>17. Tally(Len(jobs) + 1, s)
  <2>1. LinkedBy(Len(jobs) + 1, s) = {}
    BY <1>15 DEF LinkedBy
  <2>2. Cardinality(LinkedBy(Len(jobs) + 1, s)) = 0
    BY <2>1, FS_EmptySet
  <2>3. s.imported = 0
    BY <1>9
  <2> QED
    BY <2>2, <2>3 DEF Tally
<1>18. Foresees(s)
  <2>1. ASSUME s.kind \in Titled PROVE Promise(s, W) /\ W \in SUBSET DOMAIN s.items
    <3>1. s.items = o.items
      BY <2>1, <1>9 DEF Titled, OfRows
    <3>2. Cardinality({m \in W : m < s.at}) = 0
      <4>1. {m \in W : m < s.at} = {}
        BY <1>5, <1>9
      <4> QED
        BY <4>1, FS_EmptySet
    <3>4. s.imported = 0 /\ s.wanted = w /\ s.step = "queued" /\ s.at = 1
      BY <1>9
    <3>3. \A m \in DOMAIN s.items : m \in W <=> Wants(s, m)
      BY <1>2, <1>9, <3>1 DEF Wants
    <3> QED
      BY <1>5, <1>6, <3>1, <3>2, <3>3, <3>4 DEF Promise
  <2> QED
    BY <1>9, <2>1 DEF Foresees, Expects
<1>19. Unseen(s) /\ Batched(s)
  BY <1>9 DEF Unseen, Batched
<1>20. Gives(Len(jobs) + 1, s) /\ Awaits(Len(jobs) + 1, s)
  BY <1>15 DEF Gives, Awaits
<1> QED
  BY <1>9, <1>10, <1>12, <1>13, <1>14, <1>16, <1>17, <1>18, <1>19, <1>20 DEF Fine

(* A job is added, and no import that is at work is alone any more. *)
LEMMA AddStep ==
  ASSUME BatchIInv, NEW q \in Seq(JobType), Len(q) = Len(jobs), NEW s \in JobType,
         Fine(Len(jobs) + 1, s), jobs' = Append(q, s),
         \A k \in Jobs : \A x : x = q[k] =>
           /\ x.kind = jobs[k].kind /\ x.skip = jobs[k].skip
           /\ x.alone => jobs[k].alone
           /\ x.whole => jobs[k].whole
           /\ x.alone /\ x.kind \in Titled => x.step = "done"
           /\ s.alone => x.step = "done"
           /\ Fine(k, x),
         UNCHANGED <<rows, children, changes, faults>>
  PROVE  BatchIInv'
<1>1. JobsFine /\ RowsFine /\ Len(jobs) \in Nat /\ Jobs = 1 .. Len(jobs)
  BY DEF BatchIInv, JobsFine, Jobs
<1>2. /\ jobs' \in Seq(JobType) /\ Len(jobs') = Len(jobs) + 1 /\ Jobs' = 1 .. Len(jobs) + 1
      /\ jobs'[Len(jobs) + 1] = s
      /\ \A k \in Jobs : jobs'[k] = q[k]
  BY <1>1 DEF Jobs
<1>3. JobsGo
  BY <1>1, <1>2 DEF JobsGo
<1>4. SameSight
  BY <1>1, SameRows
<1>5. ASSUME NEW k \in 1 .. Len(jobs')
      PROVE  Lonely(k)' /\ \A x : x = jobs'[k] => Fine(k, x)
  <2>1. CASE k \in Jobs
    BY <1>2, <2>1 DEF Lonely, Active, Kind
  <2>2. CASE k = Len(jobs) + 1
    <3>1. \A i \in Jobs' \ {k} : i \in Jobs
      BY <1>1, <1>2, <2>2
    <3>2. s.alone => \A i \in Jobs' \ {k} : jobs'[i].step = "done"
      BY <1>2, <3>1
    <3> QED
      BY <1>2, <2>2, <3>2 DEF Lonely, Active, Kind
  <2> QED
    BY <1>1, <1>2, <2>1, <2>2
<1>6. \A k \in 1 .. Len(jobs') :
           /\ Lonely(k)'
           /\ \A x : x = jobs'[k] =>
                       Fine(k, x) /\ (x.alone /\ x.kind \in Titled /\ x.step # "done" => SameSight)
  BY <1>4, <1>5
<1> QED
  BY <1>1, <1>3, <1>6, AllStep, SameRows

(* A user submits a job. *)
LEMMA RequestStep ==
  ASSUME BatchIInv, NEW o \in Offers, Request(o)
  PROVE  BatchIInv'
<1>1. /\ Shared \in Seq(JobType) /\ Len(Shared) = Len(jobs) /\ DOMAIN Shared = Jobs
      /\ Len(jobs) \in Nat /\ Jobs = 1 .. Len(jobs)
  BY SharedType
<1>2. /\ o.kind \in Kinds \ {"fetch"} /\ o.items \in Seq(Items)
      /\ o.skip \in BOOLEAN /\ o.auto \in BOOLEAN
      /\ o.kind \in Ones => Len(o.items) = 1
      /\ o.kind = "refresh" => o.items = << >>
  BY BatchImportAssumption DEF Ones
<1>3. PICK targets : targets = SetToSeq({v \in Ids : Shown(v)})
  OBVIOUS
<1>4. targets \in Seq(Ids)
  BY <1>3, Targets DEF BatchIInv
<1>5. PICK items : items = IF o.kind \in {"split", "enrich"} THEN targets ELSE o.items
  OBVIOUS
<1>6. /\ o.kind \in OfRows => items \in Seq(Ids)
      /\ o.kind \notin OfRows => items = o.items
      /\ o.kind \in Ones \cup {"fetch"} => Len(items) = 1
  BY <1>2, <1>4, <1>5 DEF OfRows, Ones
<1>7. PICK a \in BOOLEAN : a = (\A j \in Jobs : ~Active(j))
  OBVIOUS
<1>8. PICK s : s = Job(o, items)
  OBVIOUS
<1>9. s = Fresh(o, items, a)
  BY <1>7, <1>8 DEF Job, Fresh
<1>10. s \in JobType /\ Fine(Len(jobs) + 1, s) /\ s.kind = o.kind /\ s.alone = a
  BY <1>2, <1>6, <1>9, NewJob
<1>11. jobs' = Append(Shared, s) /\ UNCHANGED <<rows, children, changes, faults>>
  BY <1>3, <1>5, <1>8 DEF Request
<1>12. ASSUME NEW k \in Jobs, NEW x, x = Shared[k]
       PROVE  /\ x.kind = jobs[k].kind /\ x.skip = jobs[k].skip
              /\ x.alone => jobs[k].alone
              /\ x.whole => jobs[k].whole
              /\ x.alone /\ x.kind \in Titled => x.step = "done"
              /\ s.alone => x.step = "done"
              /\ Fine(k, x)
  <2>1. /\ x.kind = jobs[k].kind /\ x.skip = jobs[k].skip
        /\ x.alone <=> jobs[k].alone /\ jobs[k].step = "done"
        /\ x.whole = jobs[k].whole /\ x.step = jobs[k].step /\ Fine(k, x)
    BY <1>12, SharedFacts
  <2>2. s.alone => jobs[k].step = "done"
    BY <1>7, <1>10 DEF Active
  <2> QED
    BY <2>1, <2>2
<1> QED
  BY <1>1, <1>10, <1>11, <1>12, AddStep

(* The downloads of rows are handed to jobs of their own. *)
LEMMA SpreadStep ==
  ASSUME BatchIInv, NEW j \in Jobs, Spread(j)
  PROVE  BatchIInv'
<1>1. PICK r : r = jobs[j]
  OBVIOUS
<1>2. r.step = "spread" /\ UNCHANGED <<rows, children, changes, faults>>
  BY <1>1 DEF Spread, AtStep
<1>3. Fine(j, r) /\ r \in JobType /\ j \in Nat \ {0} /\ JobsFine /\ RowsFine /\ WellFormed(r) /\ Placed(r)
  BY <1>1, JobFacts
<1>4. r.kind = "split"
  BY <1>2, <1>3 DEF WellFormed, Course
<1>5. r.kind \notin Titled /\ r.kind \notin Ones /\ r.kind \notin Walks /\ r.kind # "nfo" /\ r.kind \in OfRows
  BY <1>4 DEF Titled, Ones, Walks, OfRows
<1>6. CASE Cancelled(j)
  <2>1. Finish(j, "cancelled") \/ Finish(j, "completed")
    BY <1>6 DEF Spread
  <2> QED
    BY <1>1, <1>2, <1>4, <2>1, EndStep
<1>7. CASE ~Cancelled(j) /\ ~Listed(j)
  <2>1. Goto(j, "end")
    BY <1>7 DEF Spread
  <2>2. CanGo(r, "end", r.whole) /\ "end" \in Steps
    BY <1>1, <1>2, <1>4, <1>5 DEF CanGo, Course, Steps, Kinds
  <2> QED
    BY <1>1, <1>2, <2>1, <2>2, GotoStep
<1>8. CASE ~Cancelled(j) /\ Listed(j)
  <2>1. PICK v : v = r.items[r.at]
    OBVIOUS
  <2>2. PICK o : o = [kind |-> "fetch", items |-> << >>, skip |-> FALSE, auto |-> FALSE]
    OBVIOUS
  <2>0. PICK list : list = <<v>>
    OBVIOUS
  <2>00. PICK a \in BOOLEAN : a = FALSE
    OBVIOUS
  <2>3. PICK p : p = Fresh(o, list, a)
    OBVIOUS
  <2>4. PICK s : s = [r EXCEPT !.at = r.at + 1]
    OBVIOUS
  <2>5. r.at <= Len(r.items) /\ Len(r.items) \in Nat /\ r.at \in Nat \ {0}
    BY <1>1, <1>3, <1>8 DEF Listed, JobType
  <2>6. v \in Ids
    BY <1>3, <1>5, <2>1, <2>5 DEF WellFormed
  <2>7. list \in Seq(Ids) /\ Len(list) = 1
    BY <2>0, <2>6
  <2>8. o.kind = "fetch" /\ o.items \in Seq(Items) /\ o.skip \in BOOLEAN /\ o.auto \in BOOLEAN
        /\ o.kind \in Kinds /\ o.kind \in OfRows
    BY <2>2 DEF Kinds, OfRows
  <2>9. p \in JobType /\ Fine(Len(jobs) + 1, p) /\ p.alone = FALSE
    BY <2>00, <2>3, <2>7, <2>8, NewJob
  <2>10. jobs \in Seq(JobType) /\ Len(jobs) \in Nat /\ Jobs = 1 .. Len(jobs)
    BY <1>3 DEF JobsFine, Jobs
  <2>11. r.at + 1 \in Nat \ {0}
    BY <2>5
  <2>12. s \in JobType
    BY <1>3, <2>4, <2>11 DEF JobType
  <2>13. /\ SameJob(r, s) /\ s.at = r.at + 1 /\ s.step = r.step /\ s.status = r.status
         /\ s.whole = r.whole /\ s.row = r.row /\ s.batch = r.batch /\ s.items = r.items
         /\ s.kind = r.kind /\ s.skip = r.skip /\ s.alone = r.alone
    BY <1>3, <2>4 DEF SameJob, JobType
  <2>14. PICK q : q = [jobs EXCEPT ![j] = s]
    OBVIOUS
  <2>15. jobs' = Append(q, p)
    <3>1. [jobs EXCEPT ![j].at = @ + 1] = q
      BY <1>1, <2>4, <2>14
    <3>2. Item(j) = v
      BY <1>1, <2>1 DEF Item
    <3>3. p = [Job(o, <<v>>) EXCEPT !.alone = FALSE]
      <4>1. PICK b \in BOOLEAN : b = (\A k \in Jobs : ~Active(k))
        OBVIOUS
      <4>2. PICK x : x = Fresh(o, list, b)
        OBVIOUS
      <4>3. Job(o, list) = x
        BY <4>1, <4>2 DEF Fresh, Job
      <4>4. x \in JobType
        BY <2>7, <2>8, <4>2, NewJob
      <4>6. p = [x EXCEPT !.alone = a]
        BY <2>3, <2>9, <4>2, <4>4, FreshAlone
      <4> QED
        BY <2>0, <2>00, <4>3, <4>6
    <3> QED
      BY <1>8, <2>2, <3>1, <3>2, <3>3 DEF Spread
  <2>16. q \in Seq(JobType) /\ Len(q) = Len(jobs) /\ q[j] = s
         /\ \A k \in Jobs \ {j} : q[k] = jobs[k]
    BY <2>10, <2>12, <2>14
  <2>17. Fine(j, s)
    <3>1. WellFormed(s)
      BY <1>3, <2>12, <2>13 DEF WellFormed
    <3>2. Placed(s)
      BY <1>2, <1>3, <1>4, <1>5, <2>5, <2>13 DEF Placed
    <3>3. Reckoned(s)
      BY <1>5, <2>13 DEF Reckoned
    <3>4. Holds(j, s) /\ Tally(j, s) /\ Foresees(s) /\ Unseen(s) /\ Batched(s) /\ Awaits(j, s)
      BY <1>2, <1>4, <1>5, <2>13 DEF Holds, Tally, Foresees, Expects, Unseen, Batched, Awaits
    <3>5. Gives(j, s)
      BY <1>3, <1>4, <2>13 DEF Fine, Gives
    <3> QED
      BY <3>1, <3>2, <3>3, <3>4, <3>5 DEF Fine
  <2>18. ASSUME NEW k \in Jobs, NEW x, x = q[k]
         PROVE  /\ x.kind = jobs[k].kind /\ x.skip = jobs[k].skip
                /\ x.alone => jobs[k].alone
                /\ x.whole => jobs[k].whole
                /\ x.alone /\ x.kind \in Titled => x.step = "done"
                /\ p.alone => x.step = "done"
                /\ Fine(k, x)
    <3>1. CASE k = j
      BY <1>1, <1>5, <2>9, <2>13, <2>16, <2>17, <2>18, <3>1
    <3>2. CASE k # j
      <4>1. x = jobs[k]
        BY <2>16, <2>18, <3>2
      <4>2. Fine(k, x)
        BY <4>1, JobFacts
      <4>3. Lonely(k) /\ Active(j)
        BY <1>1, <1>2, <1>3 DEF JobsFine, Active
      <4>4. x.alone /\ x.kind \in Titled => x.step = "done"
        BY <3>2, <4>1, <4>3 DEF Lonely, Active, Kind
      <4> QED
        BY <2>9, <4>1, <4>2, <4>4
    <3> QED
      BY <3>1, <3>2
  <2> QED
    BY <1>2, <2>9, <2>15, <2>16, <2>18, AddStep
<1> QED
  BY <1>6, <1>7, <1>8

(* A worker takes a job. *)
LEMMA TakeStep ==
  ASSUME BatchIInv, NEW j \in Jobs, Take(j)
  PROVE  BatchIInv'
<1>1. PICK r : r = jobs[j]
  OBVIOUS
<1>2. r.step = "queued" /\ r.status # "cancelled" /\ UNCHANGED <<rows, children, changes, faults>>
  BY <1>1 DEF Take, AtStep, Cancelled
<1>3. /\ Fine(j, r) /\ r \in JobType /\ RowsFine /\ WellFormed(r) /\ Placed(r)
      /\ Holds(j, r) /\ Batched(r)
  BY <1>1, JobFacts
<1>4. r.status = "pending" /\ r.at = 1 /\ r.batch = << >> /\ r.row = 0
  BY <1>2, <1>3 DEF WellFormed, Placed
<1>5. PICK a : a = FirstStep(j)
  OBVIOUS
<1>6. <<a, r.kind>> \in Course /\ a \in {"begin", "walk", "spread", "wait", "item"} /\ a \in Steps
  <2>1. r.kind \in Kinds
    BY <1>3 DEF JobType
  <2>2. CASE r.kind \in Ones
    <3>1. a = "begin"
      BY <1>1, <1>5, <2>2 DEF FirstStep, Kind, Ones
    <3> QED
      BY <2>2, <3>1 DEF Course, Steps
  <2>3. CASE r.kind \in Walks
    <3>1. a = "walk"
      BY <1>1, <1>5, <2>3 DEF FirstStep, Kind, Walks
    <3> QED
      BY <2>3, <3>1 DEF Course, Steps
  <2>4. CASE r.kind = "split"
    <3>1. a = "spread"
      BY <1>1, <1>5, <2>4 DEF FirstStep, Kind
    <3> QED
      BY <2>4, <3>1 DEF Course, Steps
  <2>5. CASE r.kind \in {"fetch", "direct"}
    <3>1. a = "wait"
      BY <1>1, <1>5, <2>5 DEF FirstStep, Kind
    <3> QED
      BY <2>5, <3>1 DEF Course, Steps
  <2>6. CASE r.kind \in Loops
    <3>1. a = "item"
      BY <1>1, <1>5, <2>6 DEF FirstStep, Kind, Loops, Titled
    <3> QED
      BY <2>6, <3>1 DEF Course, Steps
  <2> QED
    BY <2>1, <2>2, <2>3, <2>4, <2>5, <2>6 DEF Kinds, Ones, Walks, Loops, Titled
<1>7. PICK targets : targets = SetToSeq({v \in Ids : Shown(v)})
  OBVIOUS
<1>8. targets \in Seq(Ids)
  BY <1>3, <1>7, Targets
<1>9. PICK items : items = IF r.kind # "refresh" THEN r.items ELSE targets
  OBVIOUS
<1>10. /\ r.kind \in OfRows => items \in Seq(Ids)
       /\ r.kind \notin OfRows => items \in Seq(Items)
       /\ r.kind # "refresh" => items = r.items
       /\ Len(items) \in Nat
  BY <1>3, <1>8, <1>9 DEF WellFormed, OfRows
<1>11. items \in Seq(Items) \cup Seq(Nat)
  <2>1. Ids \subseteq Nat
    BY <1>3 DEF RowsFine, Ids
  <2>2. CASE r.kind \in OfRows
    BY <1>10, <2>1, <2>2, SeqWider
  <2> QED
    BY <1>10, <2>2
<1>12. PICK s : s = [r EXCEPT !.status = "running", !.step = a, !.items = items]
  OBVIOUS
<1>13. /\ s \in JobType /\ s.kind = r.kind /\ s.skip = r.skip /\ s.alone = r.alone
       /\ s.whole = r.whole /\ s.at = r.at /\ s.row = r.row /\ s.batch = r.batch
       /\ s.imported = r.imported /\ s.skipped = r.skipped /\ s.failed = r.failed
       /\ s.wanted = r.wanted /\ s.status = "running" /\ s.step = a /\ s.items = items
  BY <1>3, <1>6, <1>11, <1>12 DEF JobType, Statuses
<1>14. jobs' = [jobs EXCEPT ![j] = s]
  BY <1>1, <1>5, <1>7, <1>9, <1>12 DEF Take, Kind
<1>15. WellFormed(s)
  BY <1>3, <1>6, <1>10, <1>13 DEF WellFormed
<1>16. Placed(s)
  BY <1>2, <1>3, <1>4, <1>6, <1>10, <1>13 DEF Placed, Ones
<1>17. Reckoned(s) /\ Holds(j, s) /\ Unseen(s) /\ Batched(s)
  BY <1>3, <1>4, <1>6, <1>13 DEF Fine, Reckoned, Holds, Unseen, Batched
<1>18. Tally(j, s)
  <2>1. LinkedBy(j, s) = LinkedBy(j, r)
    BY <1>2, <1>6, <1>13 DEF LinkedBy
  <2> QED
    BY <1>3, <1>13, <2>1 DEF Fine, Tally
<1>19. Foresees(s)
  <2>1. ASSUME s.kind \in Titled PROVE s.items = r.items
    BY <1>10, <1>13, <2>1 DEF Titled
  <2>2. Expects(s) => Expects(r)
    BY <1>13, <2>1 DEF Expects, NoneTaken
  <2>3. ASSUME s.items = r.items, NEW W, Promise(r, W) PROVE Promise(s, W)
    <3>1. \A n : Wants(s, n) <=> Wants(r, n)
      BY <1>13, <2>3 DEF Wants
    <3> QED
      BY <1>2, <1>6, <1>13, <2>3, <3>1 DEF Promise
  <2>4. Foresees(r) /\ (Expects(s) => s.kind \in Titled)
    BY <1>3 DEF Fine, Expects
  <2> QED
    BY <1>2, <1>13, <2>1, <2>2, <2>3, <2>4 DEF Foresees
<1>20. Gives(j, s) /\ Awaits(j, s)
  BY <1>2, <1>3, <1>6, <1>13 DEF Fine, Gives, Awaits
<1>21. Fine(j, s)
  BY <1>15, <1>16, <1>17, <1>18, <1>19, <1>20 DEF Fine
<1>22. Goes(r, s)
  BY <1>2, <1>13 DEF Goes
<1> QED
  BY <1>1, <1>2, <1>14, <1>21, <1>22, QuietStep

(* What a source says of an item: only NFO files come with a file. *)
LEMMA FoundFacts ==
  ASSUME BatchIInv, NEW j \in Jobs, NEW r, r = jobs[j], r.step = "write", NEW i \in Found(j)
  PROVE  /\ i.title = r.items[r.at].title /\ i.title \in Titles
         /\ i.imvdb \in Names /\ i.youtube \in Names
         /\ i.file \in BOOLEAN
         /\ i.file => r.kind = "nfo"
<1>1. r \in JobType /\ WellFormed(r) /\ Placed(r)
  BY JobFacts
<1>2. r.kind \in Loops \cup Ones /\ r.items \in Seq(Items) /\ r.at \in 1 .. Len(r.items)
  <2>1. <<r.step, r.kind>> \in Course /\ r.at \in Nat \ {0} /\ Len(r.items) \in Nat
    BY WorkOf
  <2>2. r.kind \in Loops \cup Ones
    BY <2>1 DEF Course
  <2>3. r.kind \notin OfRows
    BY <2>2 DEF OfRows, Loops, Titled, Ones
  <2> QED
    BY <1>1, <2>1, <2>2, <2>3 DEF WellFormed, Placed
<1>3. PICK x : x = r.items[r.at]
  OBVIOUS
<1>4. x \in Items
  BY <1>2, <1>3
<1>5. x = [title |-> x.title, imvdb |-> x.imvdb, youtube |-> x.youtube, file |-> x.file]
      /\ x.title \in Titles /\ x.file \in BOOLEAN
  BY <1>4, BatchImportAssumption
<1>6. x.imvdb \in Names /\ x.youtube \in Names /\ NoId \in Names
  BY <1>4 DEF Names
<1>7. x \in [title : Titles, imvdb : Names, youtube : Names, file : BOOLEAN]
  BY <1>5, <1>6
<1>8. PICK y : y = Unidentified(x)
  OBVIOUS
<1>9. /\ y \in [title : Titles, imvdb : Names, youtube : Names, file : BOOLEAN]
      /\ y.title = x.title
  <2>1. y = [x EXCEPT !.imvdb = NoId, !.youtube = NoId]
    BY <1>8 DEF Unidentified
  <2> QED
    BY <1>6, <1>7, <2>1
<1>10. Item(j) = x
  BY <1>3 DEF Item
<1>11. \/ r.kind = "nfo" /\ i \in {x, y}
       \/ i = [y EXCEPT !.file = FALSE]
       \/ i = [x EXCEPT !.file = FALSE]
       \/ i = [x EXCEPT !.imvdb = NoId, !.file = FALSE]
  BY <1>2, <1>8, <1>10 DEF Found, Kind, Loops, Titled, Ones, NfoVideo, PlaylistTrack,
                           SelectedVideo, ImvdbVideo, DiscogsRelease, YoutubeVideo
<1>12. CASE r.kind = "nfo" /\ i \in {x, y}
  BY <1>3, <1>7, <1>9, <1>12
<1>13. CASE i = [y EXCEPT !.file = FALSE]
  BY <1>3, <1>9, <1>13
<1>14. CASE i = [x EXCEPT !.file = FALSE]
  BY <1>3, <1>7, <1>14
<1>15. CASE i = [x EXCEPT !.imvdb = NoId, !.file = FALSE]
  BY <1>3, <1>6, <1>7, <1>15
<1> QED
  BY <1>11, <1>12, <1>13, <1>14, <1>15

(* Two rows that a lookup by title cannot tell apart are the only way in   *)
(* which a new row changes what is found.                                  *)
LEMMA NewRowSeen ==
  ASSUME RowsFine, NEW x \in RowType, rows' = Append(rows, x), ~x.hidden,
         NEW kind \in Titled, NEW i, x.title \notin Alike(kind, i.title)
  PROVE  Exists(kind, i)' <=> Exists(kind, i)
<1>1. /\ Ids' = Ids \cup {Len(rows) + 1} /\ rows'[Len(rows) + 1] = x
      /\ \A v \in Ids : rows'[v] = rows[v]
  BY DEF RowsFine, Ids
<1>2. \A v : Match(kind, i, v) <=> Shown(v) /\ rows[v].title \in Alike(kind, i.title)
  BY DEF Match, Titled
<1>3. \A v : Match(kind, i, v)' <=> Shown(v)' /\ rows'[v].title \in Alike(kind, i.title)
  BY DEF Match, Titled, Alike
<1> QED
  BY <1>1, <1>2, <1>3 DEF Exists, Shown

(* A job makes a row. *)
LEMMA WriteStep ==
  ASSUME BatchIInv, NEW j \in Jobs, Write(j)
  PROVE  BatchIInv'
<1>1. PICK r : r = jobs[j]
  OBVIOUS
<1>2. r.step = "write" /\ UNCHANGED <<children, changes, faults>>
  BY <1>1 DEF Write, AtStep
<1>3. PICK i \in Found(j) : /\ Insert(Row(i, "discovered", j))
                            /\ jobs' = [jobs EXCEPT ![j].step = "link", ![j].row = Len(rows) + 1]
  BY DEF Write
<1>4. /\ Fine(j, r) /\ r \in JobType /\ j \in Nat \ {0} /\ JobsFine /\ RowsFine /\ ChildrenFine
      /\ WellFormed(r) /\ Placed(r) /\ Holds(j, r) /\ Batched(r)
  BY <1>1, JobFacts
<1>5. /\ i.title = r.items[r.at].title /\ i.title \in Titles
      /\ i.imvdb \in Names /\ i.youtube \in Names /\ i.file \in BOOLEAN
      /\ i.file => r.kind = "nfo"
  BY <1>1, <1>2, <1>3, FoundFacts
<1>6. r.kind \in Loops \cup Ones /\ r.kind \in Kinds /\ r.status \in {"running", "cancelled"}
      /\ r.at \in DOMAIN r.items
  <2>1. /\ <<r.step, r.kind>> \in Course /\ r.at \in Nat \ {0} /\ Len(r.items) \in Nat
        /\ r.kind \in Kinds /\ r.status \in {"running", "cancelled"}
        /\ DOMAIN r.items = 1 .. Len(r.items)
    BY <1>1, <1>2, WorkOf
  <2>2. r.kind \in Loops \cup Ones
    BY <1>2, <2>1 DEF Course
  <2>3. r.at <= Len(r.items)
    BY <1>2, <1>4 DEF Placed
  <2> QED
    BY <2>1, <2>2, <2>3
<1>7. r.kind \notin Walks /\ r.kind \notin OfRows
  BY <1>6 DEF Loops, Ones, Titled, Walks, OfRows
<1>8. PICK m \in Nat \ {0} : m = Len(rows) + 1
  BY <1>4 DEF RowsFine
<1>9. PICK g \in {0, j} : g = IF i.file THEN j ELSE 0
  OBVIOUS
<1>10. PICK x : x = Row(i, "discovered", j)
  OBVIOUS
<1>11. x = [title |-> i.title, imvdb |-> i.imvdb, youtube |-> i.youtube, file |-> i.file,
            status |-> "discovered", hidden |-> FALSE, linked |-> FALSE,
            by |-> j, giver |-> g, touched |-> FALSE, sought |-> i.title]
  BY <1>9, <1>10 DEF Row
<1>12. x \in RowType
  BY <1>4, <1>5, <1>9, <1>11 DEF RowType
<1>13. /\ x.title = i.title /\ x.sought = i.title /\ x.by = j /\ x.giver = g /\ x.file = i.file
       /\ x.status = "discovered" /\ ~x.hidden /\ ~x.linked /\ ~x.touched
  BY <1>11
<1>14. /\ rows' \in Seq(RowType) /\ Ids' = Ids \cup {m} /\ Len(rows') = m /\ rows'[m] = x
       /\ m \notin Ids /\ Ids = 1 .. Len(rows) /\ Len(rows) \in Nat
       /\ \A v \in Ids : rows'[v] = rows[v] /\ v < m
  BY <1>3, <1>4, <1>8, <1>10, <1>12 DEF RowsFine, Ids, Insert
<1>15. PICK s : s = [r EXCEPT !.step = "link", !.row = m]
  OBVIOUS
<1>16. /\ s \in JobType /\ s.kind = r.kind /\ s.items = r.items /\ s.skip = r.skip
       /\ s.alone = r.alone /\ s.whole = r.whole /\ s.at = r.at /\ s.row = m /\ s.batch = r.batch
       /\ s.imported = r.imported /\ s.skipped = r.skipped /\ s.failed = r.failed
       /\ s.wanted = r.wanted /\ s.status = r.status /\ s.step = "link"
  BY <1>4, <1>15 DEF JobType, Steps
<1>17. jobs' = [jobs EXCEPT ![j] = s]
  BY <1>1, <1>3, <1>8, <1>15
<1>18. Goes(r, s)
  BY <1>2, <1>16 DEF Goes
<1>19. RowsGo(j)
  <2>1. \A v \in Ids : Stays(j, rows[v], rows'[v])
    BY <1>14 DEF Stays
  <2> QED
    BY <1>9, <1>13, <1>14, <2>1 DEF RowsGo
<1>20. /\ Jobs' = Jobs /\ Len(jobs') = Len(jobs) /\ Len(jobs) \in Nat /\ Jobs = 1 .. Len(jobs)
       /\ jobs'[j] = s /\ \A k \in Jobs \ {j} : jobs'[k] = jobs[k]
  BY <1>4, <1>16, <1>17, OneJob
<1>21. RowsFine'
  <2>1. \A k \in Jobs : Kind(k)' = Kind(k)
    BY <1>1, <1>16, <1>20 DEF Kind
  <2>2. \A v \in Ids : rows[v].by # 0 => rows[v].by \in Jobs
    BY <1>4, <1>20 DEF RowsFine
  <2>3. ASSUME NEW v \in Ids
        PROVE  /\ rows'[v].by \in 0 .. Len(jobs') /\ rows'[v].giver \in 0 .. Len(jobs')
               /\ rows'[v].giver # 0 => rows'[v].file
               /\ rows'[v].hidden => rows'[v].touched
               /\ rows'[v].status = "pending_download" =>
                    rows'[v].by # 0 /\ Kind(rows[v].by)' \in Ones
    BY <1>4, <1>14, <1>20, <2>1, <2>2 DEF RowsFine
  <2>4. /\ x.by \in 0 .. Len(jobs') /\ x.giver \in 0 .. Len(jobs')
        /\ x.giver # 0 => x.file
        /\ ~x.hidden /\ x.status # "pending_download"
    BY <1>4, <1>9, <1>13, <1>20
  <2> QED
    BY <1>14, <2>3, <2>4 DEF RowsFine, Kind
<1>22. ChildrenGo /\ ChildrenFine'
  BY <1>2, <1>4, <1>14 DEF ChildrenGo, HandedOn, ChildrenFine
<1>23. Apart(m)'
  <2>1. SUFFICES ASSUME NEW u \in Ids', u < m, s.skip, s.whole, s.kind \in {"nfo", "spotify"},
                        rows'[u].title \in Alike(s.kind, x.sought), s.alone
                 PROVE  rows'[u].touched
    BY <1>13, <1>14, <1>20 DEF Apart, Kind, Alike
  <2>2. u \in Ids
    BY <1>8, <1>14, <2>1
  <2>3. ~Exists(r.kind, r.items[r.at])
    BY <1>2, <1>4, <1>16, <2>1 DEF Fine, Unseen, Titled
  <2>4. ~Match(r.kind, r.items[r.at], u)
    BY <2>2, <2>3 DEF Exists
  <2>5. rows[u].title \in Alike(r.kind, r.items[r.at].title)
    BY <1>5, <1>13, <1>14, <1>16, <2>1, <2>2
  <2>6. rows[u].hidden
    BY <1>16, <2>1, <2>4, <2>5 DEF Match, Shown
  <2> QED
    BY <1>4, <1>14, <2>2, <2>6 DEF RowsFine
<1>24. WellFormed(s)'
  <2>1. r.batch \in Seq(Ids')
    BY <1>4, <1>14, SeqWider DEF WellFormed
  <2>2. <<"link", r.kind>> \in Course
    BY <1>6 DEF Course
  <2> QED
    BY <1>4, <1>6, <1>7, <1>8, <1>14, <1>16, <2>1, <2>2 DEF WellFormed
<1>25. Placed(s)' /\ Reckoned(s)'
  BY <1>2, <1>4, <1>16 DEF Fine, Placed, Reckoned
<1>26. Holds(j, s)'
  <2>1. r.kind \in Ones => \A v \in Ids : rows[v].by # j
    BY <1>2, <1>4, <1>14 DEF Holds
  <2> QED
    BY <1>8, <1>13, <1>14, <1>16, <2>1 DEF Holds
<1>27. Tally(j, s)'
  <2>1. LinkedBy(j, s)' = LinkedBy(j, r)
    BY <1>2, <1>14, <1>16 DEF LinkedBy
  <2> QED
    BY <1>4, <1>16, <2>1 DEF Fine, Tally
<1>28. Foresees(s)'
  <2>1. SUFFICES ASSUME Expects(s) PROVE \E W \in SUBSET DOMAIN s.items : Promise(s, W)'
    BY <1>6, <1>16 DEF Foresees, Expects, NoneTaken, Alike
  <2>2. Expects(r) /\ NoneTaken(r) /\ r.kind \in Titled
    BY <1>16, <2>1 DEF Expects, NoneTaken
  <2>3. PICK W \in SUBSET DOMAIN r.items : Promise(r, W)
    BY <1>2, <1>4, <2>2 DEF Fine, Foresees
  <2>4. ASSUME NEW n \in DOMAIN r.items, n > r.at PROVE n \in W <=> Wants(s, n)'
    <3>1. x.title \notin Alike(r.kind, r.items[n].title)
      BY <1>5, <1>6, <1>13, <2>2, <2>4 DEF NoneTaken
    <3>2. Exists(r.kind, r.items[n])' <=> Exists(r.kind, r.items[n])
      BY <1>3, <1>4, <1>10, <1>12, <1>13, <2>2, <3>1, NewRowSeen DEF Insert
    <3> QED
      BY <1>16, <2>3, <2>4, <3>2 DEF Promise, Wants
  <2>5. Promise(s, W)'
    BY <1>2, <1>16, <2>3, <2>4 DEF Promise
  <2> QED
    BY <1>16, <2>3, <2>5
<1>29. Unseen(s)' /\ Batched(s)'
  BY <1>6, <1>16 DEF Unseen, Batched
<1>30. Gives(j, s)'
  <2>1. ASSUME NEW v \in Ids, rows'[v].giver = j
        PROVE  \/ HandedOn("post", v)' \/ ~s.whole
               \/ s.kind = "nfo" /\ \E c \in DOMAIN s.batch : s.batch[c] = v
    <3>1. rows[v].giver = j
      BY <1>14, <2>1
    <3>2. \/ HandedOn("post", v) \/ ~r.whole
          \/ r.kind = "nfo" /\ \E c \in DOMAIN r.batch : r.batch[c] = v
      BY <1>2, <1>4, <3>1 DEF Fine, Gives
    <3> QED
      BY <1>16, <1>22, <3>2 DEF ChildrenGo
  <2>2. x.giver = j => s.kind = "nfo" /\ s.step = "link" /\ s.row = m
    BY <1>4, <1>5, <1>9, <1>13, <1>16
  <2> QED
    BY <1>14, <2>1, <2>2 DEF Gives
<1>31. Awaits(j, s)'
  <2>1. ASSUME r.kind \in Ones, NEW v \in Ids' PROVE rows'[v].by # j \/ rows'[v].status # "pending_download"
    BY <1>2, <1>4, <1>13, <1>14, <2>1 DEF Holds
  <2> QED
    BY <1>16, <2>1 DEF Awaits
<1>32. Fine(j, s)'
  BY <1>24, <1>25, <1>26, <1>27, <1>28, <1>29, <1>30, <1>31 DEF Fine
<1>33. \A v \in Ids' \ Ids : Apart(v)'
  BY <1>14, <1>23
<1> QED
  BY <1>1, <1>2, <1>17, <1>18, <1>19, <1>21, <1>22, <1>32, <1>33, JobStep

----------------------------------------------------------------------------
(* Every behaviour of the imports.                                         *)

(* At the start there is no job. *)
LEMMA InitHolds ==
  ASSUME Init
  PROVE  BatchIInv
<1>1. /\ rows \in {<< >>} \cup {<<Row(i, "discovered", 0)>> : i \in Stock}
      /\ jobs = << >> /\ children = << >> /\ changes = 0 /\ faults = 0
  BY DEF Init
<1>2. jobs \in Seq(JobType) /\ Jobs = {} /\ Len(jobs) = 0
  BY <1>1 DEF Jobs
<1>3. ASSUME NEW i \in Stock, NEW x, x = Row(i, "discovered", 0)
      PROVE  x \in RowType /\ x.by = 0 /\ x.giver = 0 /\ ~x.hidden /\ x.status = "discovered"
  <2>1. i \in Items /\ i.title \in Titles /\ i.file \in BOOLEAN
    BY BatchImportAssumption
  <2>2. i.imvdb \in Names /\ i.youtube \in Names
    BY <2>1 DEF Names
  <2>3. x = [title |-> i.title, imvdb |-> i.imvdb, youtube |-> i.youtube, file |-> i.file,
             status |-> "discovered", hidden |-> FALSE, linked |-> FALSE,
             by |-> 0, giver |-> 0, touched |-> FALSE, sought |-> i.title]
    BY <1>3 DEF Row
  <2> QED
    BY <2>1, <2>2, <2>3 DEF RowType
<1>4. /\ rows \in Seq(RowType)
      /\ \A v \in Ids : /\ rows[v].by = 0 /\ rows[v].giver = 0 /\ ~rows[v].hidden
                        /\ rows[v].status = "discovered"
  <2>1. CASE rows = << >>
    BY <2>1 DEF Ids
  <2>2. ASSUME NEW i \in Stock, rows = <<Row(i, "discovered", 0)>>
        PROVE  /\ rows \in Seq(RowType)
               /\ \A v \in Ids : /\ rows[v].by = 0 /\ rows[v].giver = 0 /\ ~rows[v].hidden
                                 /\ rows[v].status = "discovered"
    <3>1. PICK x : x = Row(i, "discovered", 0)
      OBVIOUS
    <3>2. x \in RowType /\ x.by = 0 /\ x.giver = 0 /\ ~x.hidden /\ x.status = "discovered"
      BY <1>3, <3>1
    <3>3. rows = <<x>>
      BY <2>2, <3>1
    <3> QED
      BY <3>2, <3>3 DEF Ids
  <2> QED
    BY <1>1, <2>1, <2>2
<1>5. JobsFine
  BY <1>2 DEF JobsFine
<1>6. RowsFine
  BY <1>2, <1>4 DEF RowsFine
<1>7. ChildrenFine /\ Bounded
  BY <1>1, BatchImportAssumption DEF ChildrenFine, Bounded
<1>8. TwinsFromRaces
  BY <1>4 DEF TwinsFromRaces
<1> QED
  BY <1>5, <1>6, <1>7, <1>8 DEF BatchIInv

(* Every step keeps what is true of jobs and rows. *)
LEMMA StepKeeps ==
  ASSUME BatchIInv, [Next]_vars
  PROVE  BatchIInv'
<1>1. ASSUME NEW o \in Offers, Request(o) PROVE BatchIInv'
  BY <1>1, RequestStep
<1>2. ASSUME NEW j \in Jobs, Cancel(j) PROVE BatchIInv'
  BY <1>2, CancelStep
<1>3. ASSUME NEW v \in Ids, Hide(v) PROVE BatchIInv'
  BY <1>3, HideStep
<1>4. CASE Restart
  BY <1>4, RestartStep
<1>5. ASSUME NEW j \in Jobs, Step(j) PROVE BatchIInv'
  <2>1. CASE Take(j) \/ Discard(j) \/ End(j)
    BY <2>1, TakeStep, DiscardEndStep
  <2>2. CASE NextItem(j) \/ Look(j) \/ LookUp(j) \/ Write(j) \/ Renew(j) \/ Link(j) \/ ItemFails(j)
    BY <2>2, NextItemStep, LookStep, LookUpStep, WriteStep, RenewStep, LinkStep, ItemFailsStep
  <2>3. CASE SubmitPipeline(j) \/ Yield(j) \/ HandOn(j)
    BY <2>3, SubmitPipelineStep, YieldStep, HandOnStep
  <2>4. CASE Begin(j) \/ LookForOne(j) \/ Mark(j) \/ SubmitDownload(j) \/ OneFails(j)
    BY <2>4, BeginStep, LookForOneStep, MarkStep, SubmitDownloadStep, OneFailsStep
  <2>5. CASE Spread(j) \/ Acquire(j) \/ Fetched(j) \/ RecordFile(j) \/ PassOn(j) \/ FetchFails(j)
    BY <2>5, SpreadStep, AcquireStep, FetchSteps, RecordFileStep, PassOnStep
  <2>6. CASE AcquireDirect(j) \/ FetchedDirect(j)
    BY <2>6, FetchSteps
  <2>7. CASE EnrichVideo(j) \/ RefreshVideo(j) \/ ImportUrl(j)
    BY <2>7, WalkStep
  <2> QED
    BY <1>5, <2>1, <2>2, <2>3, <2>4, <2>5, <2>6, <2>7 DEF Step
<1>6. CASE UNCHANGED vars
  <2>1. UNCHANGED <<rows, jobs, children, changes, faults>>
    BY <1>6 DEF vars
  <2>2. JobsFine' /\ RowsFine' /\ ChildrenFine' /\ Bounded' /\ TwinsFromRaces'
    <3>1. JobsFine /\ RowsFine /\ ChildrenFine /\ Bounded /\ TwinsFromRaces
      BY DEF BatchIInv
    <3>2. RowsFine' /\ ChildrenFine' /\ Bounded' /\ Len(jobs') = Len(jobs)
      BY <2>1, <3>1 DEF RowsFine, ChildrenFine, Bounded, Ids, Kind
    <3>3. TwinsFromRaces'
      BY <2>1, <3>1 DEF TwinsFromRaces, Ids, Kind, Alike
    <3>4. JobsFine'
      <4>1. jobs' \in Seq(JobType) /\ Jobs' = Jobs /\ Len(jobs) \in Nat /\ Jobs = 1 .. Len(jobs)
        BY <2>1, <3>1 DEF JobsFine, Jobs
      <4>2. ASSUME NEW k \in Jobs PROVE Fine(k, jobs[k])' /\ Lonely(k)'
        <5>1. PICK q : q = jobs[k]
          OBVIOUS
        <5>2. Fine(k, q) /\ Lonely(k)
          BY <3>1, <5>1 DEF JobsFine
        <5>3. RowsGo(0) /\ SameSight
          BY <2>1, <3>1, SameRows
        <5>4. ChildrenGo
          BY <2>1 DEF ChildrenGo, HandedOn
        <5>5. k \in Nat \ {0} /\ k # 0
          BY <4>1
        <5>6. Fine(k, q)'
          BY <3>1, <3>2, <5>2, <5>3, <5>4, <5>5, RowsTurn
        <5> QED
          BY <2>1, <5>1, <5>2, <5>6 DEF Lonely, Kind, Active, Jobs
      <4> QED
        BY <4>1, <4>2 DEF JobsFine
    <3> QED
      BY <3>2, <3>3, <3>4
  <2> QED
    BY <2>2 DEF BatchIInv
<1> QED
  BY <1>1, <1>2, <1>3, <1>4, <1>5, <1>6 DEF Next, Progress

(* What was counted is the list, and what was promised. *)
LEMMA InvHolds ==
  ASSUME BatchIInv
  PROVE  Inv
<1>1. JobsFine /\ RowsFine /\ ChildrenFine /\ Bounded
  BY DEF BatchIInv
<1>2. /\ rows \in Seq(RowType) /\ Len(rows) \in Nat /\ Ids = 1 .. Len(rows)
  BY <1>1 DEF RowsFine, Ids
<1>3. ASSUME NEW j \in Jobs, NEW r, r = jobs[j]
      PROVE  /\ r \in JobType /\ WellFormed(r) /\ Placed(r) /\ Reckoned(r)
             /\ Tally(j, r) /\ Foresees(r)
             /\ Len(r.items) \in Nat /\ r.at \in 1 .. Len(r.items) + 1
  <2>1. Fine(j, r) /\ r \in JobType
    BY <1>3, JobFacts
  <2>2. Len(r.items) \in Nat
    BY <2>1 DEF JobType
  <2> QED
    BY <2>1, <2>2 DEF Fine, Placed
<1>4. TypeOK
  <2>1. ASSUME NEW v \in Ids
        PROVE  /\ rows[v].title \in Titles
               /\ rows[v].status \in {"discovered", "pending_download", "downloaded"}
               /\ rows[v].by \in 0 .. Len(jobs)
    <3>1. PICK x : x = rows[v]
      OBVIOUS
    <3>2. x \in RowType
      BY <1>2, <3>1
    <3>3. x.title \in Titles /\ x.status \in {"discovered", "pending_download", "downloaded"}
      BY <3>2 DEF RowType
    <3>4. x.by \in 0 .. Len(jobs)
      BY <1>1, <3>1 DEF RowsFine
    <3> QED
      BY <3>1, <3>3, <3>4
  <2>2. ASSUME NEW j \in Jobs
        PROVE  /\ Kind(j) \in Kinds
               /\ jobs[j].at \in 1 .. Len(jobs[j].items) + 1
               /\ jobs[j].row \in 0 .. Len(rows)
               /\ jobs[j].status \in {"pending", "running", "completed", "failed", "cancelled"}
    <3>1. PICK r : r = jobs[j]
      OBVIOUS
    <3>2. r \in JobType /\ WellFormed(r) /\ r.at \in 1 .. Len(r.items) + 1
      BY <1>3, <3>1
    <3>3. r.kind \in Kinds /\ r.status \in {"pending", "running", "completed", "failed", "cancelled"}
      BY <3>2 DEF JobType, Statuses
    <3>4. r.row \in 0 .. Len(rows)
      BY <3>2 DEF WellFormed
    <3> QED
      BY <3>1, <3>2, <3>3, <3>4 DEF Kind
  <2> QED
    BY <1>1, <2>1, <2>2 DEF TypeOK, ChildrenFine, Bounded
<1>5. CountsAddUp
  <2>1. ASSUME NEW j \in Jobs, NEW r, r = jobs[j], r.status = "completed",
               r.kind \in {"nfo", "spotify", "enrich", "refresh"}
        PROVE  r.imported + r.skipped + r.failed = Len(r.items)
    <3>1. r.at = r.imported + r.skipped + r.failed + 1 /\ r.at = Len(r.items) + 1
      BY <1>3, <2>1 DEF Reckoned, Titled, Walks
    <3>2. r.imported \in Nat /\ r.skipped \in Nat /\ r.failed \in Nat /\ Len(r.items) \in Nat
      BY <1>3, <2>1 DEF JobType
    <3> QED
      BY <3>1, <3>2
  <2> QED
    BY <2>1 DEF CountsAddUp, Kind
<1>6. ImportedIsLinked
  <2>1. ASSUME NEW j \in Jobs, NEW r, r = jobs[j], r.status = "completed",
               r.kind \in {"nfo", "spotify"}
        PROVE  Cardinality({v \in Ids : rows[v].by = j /\ rows[v].linked}) >= r.imported
    <3>1. r.step # "link"
      BY <1>3, <2>1 DEF WellFormed
    <3>2. LinkedBy(j, r) = {v \in Ids : rows[v].by = j /\ rows[v].linked}
      BY <3>1 DEF LinkedBy
    <3> QED
      BY <1>3, <2>1, <3>2 DEF Tally, Titled
  <2> QED
    BY <2>1 DEF ImportedIsLinked, Kind
<1>7. ImportsAsPreviewed
  <2>1. ASSUME NEW j \in Jobs, NEW r, r = jobs[j], r.status = "completed",
               r.kind \in {"nfo", "spotify"}, r.alone, r.whole, r.failed = 0,
               \A m, n \in DOMAIN r.items :
                 m < n => r.items[m].title \notin Alike(r.kind, r.items[n].title)
        PROVE  r.imported = r.wanted
    <3>1. Expects(r)
      BY <2>1 DEF Expects, NoneTaken, Titled
    <3> QED
      BY <1>3, <2>1, <3>1 DEF Foresees
  <2> QED
    BY <2>1 DEF ImportsAsPreviewed, Kind
<1> QED
  BY <1>4, <1>5, <1>6, <1>7 DEF Inv

(* A row that waits has its next job, or the one that is to submit it. *)
LEMMA NoneStrandedHolds ==
  ASSUME BatchIInv
  PROVE  NoneStranded
<1>1. JobsFine /\ RowsFine /\ Len(jobs) \in Nat /\ Jobs = 1 .. Len(jobs)
  BY DEF BatchIInv, JobsFine, Jobs
<1>2. ASSUME NEW v \in Ids, rows[v].status = "pending_download"
      PROVE  \/ HandedOn("download", v)
             \/ \E j \in Jobs : rows[v].by = j /\ (AtStep(j, "submit") \/ ~jobs[j].whole)
  <2>1. PICK j : j = rows[v].by
    OBVIOUS
  <2>2. j \in Jobs /\ Kind(j) \in Ones
    BY <1>1, <1>2, <2>1 DEF RowsFine
  <2>3. PICK r : r = jobs[j]
    OBVIOUS
  <2>4. Awaits(j, r)
    BY <2>2, <2>3, JobFacts DEF Fine
  <2> QED
    BY <1>2, <2>1, <2>2, <2>3, <2>4 DEF Awaits, AtStep, Kind
<1>3. ASSUME NEW v \in Ids, NEW j, j = rows[v].giver, j # 0
      PROVE  \/ HandedOn("post", v)
             \/ Active(j) \/ jobs[j].status \in {"failed", "cancelled"} \/ ~jobs[j].whole
  <2>1. j \in Jobs
    BY <1>1, <1>3 DEF RowsFine
  <2>2. PICK r : r = jobs[j]
    OBVIOUS
  <2>3. Gives(j, r) /\ Batched(r) /\ WellFormed(r) /\ r \in JobType
    BY <2>1, <2>2, JobFacts DEF Fine
  <2>4. CASE r.step # "done"
    BY <2>2, <2>4 DEF Active
  <2>5. CASE r.step = "done"
    <3>1. r.status \in {"completed", "failed", "cancelled"}
      BY <2>3, <2>5 DEF WellFormed
    <3>2. r.kind = "nfo" /\ r.status = "completed" => r.batch = << >>
      BY <2>3 DEF Batched
    <3> QED
      BY <1>3, <2>2, <2>3, <2>5, <3>1, <3>2 DEF Gives
  <2> QED
    BY <2>4, <2>5
<1> QED
  BY <1>2, <1>3 DEF NoneStranded, HandedOn

\* Imports report what they did: a completed one accounts for every item of its
\* list once, has linked the artists of as many rows as it counts as imported,
\* and imports what the preview of submit promised if nothing disturbed it.
THEOREM InvCorrect == Spec => []Inv
<1>1. Init => BatchIInv
  BY InitHolds
<1>2. BatchIInv /\ [Next]_vars => BatchIInv'
  BY StepKeeps
<1>3. BatchIInv => Inv
  BY InvHolds
<1> QED
  BY <1>1, <1>2, <1>3, PTL DEF Spec

\* With skip_existing two rows that an import by title takes for one another
\* come from jobs that overlapped, a user's change or a failed lookup: the
\* search before each insert and the inserts of one job leave no other way.
THEOREM TwinsFromRacesCorrect == Spec => []TwinsFromRaces
<1>1. Init => BatchIInv
  BY InitHolds
<1>2. BatchIInv /\ [Next]_vars => BatchIInv'
  BY StepKeeps
<1>3. BatchIInv => TwinsFromRaces
  BY DEF BatchIInv
<1> QED
  BY <1>1, <1>2, <1>3, PTL DEF Spec

\* A row that waits for a download has one queued, or the job about to queue it
\* is at that step or was cut short; a row that got a file is handed on to
\* post-processing unless its job is still at work, failed or was cancelled.
THEOREM NoneStrandedCorrect == Spec => []NoneStranded
<1>1. Init => BatchIInv
  BY InitHolds
<1>2. BatchIInv /\ [Next]_vars => BatchIInv'
  BY StepKeeps
<1>3. BatchIInv => NoneStranded
  BY NoneStrandedHolds
<1> QED
  BY <1>1, <1>2, <1>3, PTL DEF Spec

=============================================================================
