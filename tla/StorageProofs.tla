---------------------------- MODULE StorageProofs ----------------------------
(***************************************************************************)
(* Theorems about what the server keeps: the tables of Library and what    *)
(* calls leave behind there, for every set of videos, tags and callers and *)
(* any number of calls, failures and crashes, and the settings of          *)
(* ConfigManager, for every set of fields and values, every idempotent     *)
(* coercion and any length of the history.                                 *)
(***************************************************************************)
EXTENDS Library, ConfigManager, FiniteSetTheorems, FunctionTheorems,
        SequenceTheorems, WellFoundedInduction, TLAPS

(* Library *)

\* What the index holds of a video: it is there if it is visible, with the
\* names of its tags.
IndexAgrees(d, v) ==
  /\ v \in d.indexed <=> Visible(d, v)
  /\ \A t \in Tags : <<v, t>> \in d.words <=> (Visible(d, v) /\ t \in WordsOf(d, v))

\* No two tags have one id, and ids are given out in order.
TagIds(d) ==
  /\ \A t, u \in Tags : d.tag[t] = d.tag[u] /\ d.tag[t] # 0 => t = u
  /\ \A t \in Tags : d.tag[t] <= d.lastTag

\* The links of the tag with this id.
LinksOf(links, id) == {l \in links : l[2] = id}

UsageCounts(d) ==
  \A t \in Tags : d.usage[t] = IF d.tag[t] = 0 THEN 0 ELSE Cardinality(LinksOf(d.links, d.tag[t]))

\* Rows that links and members lead to.
LinkLeads(d, l) == Exists(d, l[1]) /\ \E t \in Tags : d.tag[t] = l[2]
MemberLeads(d, m) == Exists(d, m[1]) /\ d.named[m[2]] # "none"

\* The tables in order.
Sound(d) ==
  /\ d \in Tables
  /\ TagIds(d) /\ UsageCounts(d)
  /\ \A l \in d.links : LinkLeads(d, l)
  /\ \A m \in d.members : MemberLeads(d, m)
  /\ \A v \in Videos : IndexAgrees(d, v)

-----------------------------------------------------------------------------
(* Tables and triggers *)

\* Links are pairs of a video and an id, finitely many.
LEMMA LinksFinite ==
  ASSUME NEW d \in Tables
  PROVE  /\ IsFiniteSet(Videos \X (1..MaxTagId))
         /\ \A ls \in SUBSET (Videos \X (1..MaxTagId)) : IsFiniteSet(ls)
<1>1. IsFiniteSet(Videos) /\ MaxTagId \in Nat
  BY LibraryAssumption
<1>2. IsFiniteSet(1..MaxTagId)
  BY <1>1, FS_Interval
<1>3. IsFiniteSet(Videos \X (1..MaxTagId))
  BY <1>1, <1>2, FS_Product
<1> QED
  BY <1>3, FS_Subset

\* Tables in order are tables that agree.
LEMMA SoundAgrees ==
  ASSUME NEW d, Sound(d)
  PROVE  d \in Tables /\ Agree(d)
<1>1. d \in Tables /\ d.words \in SUBSET (Videos \X Tags)
  BY DEF Sound, Tables
<1>2. \A l \in d.links : Exists(d, l[1]) /\ \E t \in Tags : d.tag[t] = l[2]
  BY DEF Sound, LinkLeads
<1>3. \A m \in d.members : Exists(d, m[1]) /\ d.named[m[2]] # "none"
  BY DEF Sound, MemberLeads
<1>4. \A t \in Tags : d.tag[t] # 0 => d.usage[t] = Cardinality({l \in d.links : l[2] = d.tag[t]})
  BY DEF Sound, UsageCounts, LinksOf
<1>5. ASSUME NEW v \in Videos
      PROVE  /\ v \in d.indexed <=> Visible(d, v)
             /\ {w[2] : w \in {x \in d.words : x[1] = v}}
                  = IF Visible(d, v) THEN WordsOf(d, v) ELSE {}
  <2>1. IndexAgrees(d, v)
    BY DEF Sound
  <2>2. \A x \in d.words : x = <<x[1], x[2]>> /\ x[2] \in Tags
    BY <1>1
  <2>3. {w[2] : w \in {x \in d.words : x[1] = v}} = {t \in Tags : <<v, t>> \in d.words}
    BY <2>2
  <2>4. WordsOf(d, v) \subseteq Tags
    BY DEF WordsOf
  <2> QED
    BY <2>1, <2>3, <2>4 DEF IndexAgrees
<1> QED
  BY <1>1, <1>2, <1>3, <1>4, <1>5 DEF Agree

\* The triggers of the index change nothing else, and leave the rows of the
\* touched videos in order and the others as they were.
LEMMA ReindexedKeeps ==
  ASSUME NEW d \in Tables, NEW touched \in SUBSET Videos, NEW e, e = Reindexed(d, touched)
  PROVE  /\ e \in Tables
         /\ e = [d EXCEPT !.indexed = e.indexed, !.words = e.words]
         /\ \A v \in touched : IndexAgrees(e, v)
         /\ \A v \in Videos \ touched : IndexAgrees(d, v) => IndexAgrees(e, v)
<1> DEFINE shown == {v \in touched : Visible(d, v)}
           added == UNION {{v} \X WordsOf(d, v) : v \in shown}
           indexed == (d.indexed \ touched) \cup shown
           words == {w \in d.words : w[1] \notin touched} \cup added
<1>1. e = [d EXCEPT !.indexed = indexed, !.words = words]
  BY DEF Reindexed
<1>2. d.indexed \in SUBSET Videos /\ d.words \in SUBSET (Videos \X Tags)
  BY DEF Tables
<1>3. \A v : WordsOf(d, v) \subseteq Tags
  BY DEF WordsOf
<1>4. \A v, t : <<v, t>> \in added <=> v \in touched /\ Visible(d, v) /\ t \in WordsOf(d, v)
  OBVIOUS
<1>5. added \in SUBSET (Videos \X Tags)
  BY <1>3
<1>6. indexed \in SUBSET Videos /\ words \in SUBSET (Videos \X Tags)
  BY <1>2, <1>5
<1>7. \A v \in Videos : v \in indexed <=> IF v \in touched THEN Visible(d, v) ELSE v \in d.indexed
  BY <1>2
<1>8. \A v \in Videos, t \in Tags : <<v, t>> \in words <=>
        IF v \in touched THEN Visible(d, v) /\ t \in WordsOf(d, v) ELSE <<v, t>> \in d.words
  BY <1>4
<1> HIDE DEF indexed, words
<1>9. e \in Tables
  BY <1>1, <1>6 DEF Tables
<1>10. e.indexed = indexed /\ e.words = words
  BY <1>1 DEF Tables
<1>11. /\ e.status = d.status /\ e.hidden = d.hidden /\ e.tag = d.tag /\ e.links = d.links
  BY <1>1 DEF Tables
<1>12. \A v : Visible(e, v) <=> Visible(d, v)
  BY <1>11 DEF Visible, Exists
<1>13. \A v : WordsOf(e, v) = WordsOf(d, v)
  BY <1>11 DEF WordsOf
<1>14. ASSUME NEW v \in touched
       PROVE  IndexAgrees(e, v)
  BY <1>7, <1>8, <1>10, <1>12, <1>13 DEF IndexAgrees
<1>15. ASSUME NEW v \in Videos \ touched, IndexAgrees(d, v)
       PROVE  IndexAgrees(e, v)
  BY <1>7, <1>8, <1>10, <1>12, <1>13, <1>15 DEF IndexAgrees
<1>16. e = [d EXCEPT !.indexed = e.indexed, !.words = e.words]
  BY <1>1, <1>10
<1> QED
  BY <1>9, <1>14, <1>15, <1>16

\* How many links a tag has after links came and went.
LEMMA LinkCount ==
  ASSUME NEW old, NEW new, IsFiniteSet(old), IsFiniteSet(new), NEW id
  PROVE  /\ Cardinality(LinksOf(new, id)) \in Nat
         /\ Cardinality(LinksOf(old, id)) + Cardinality(LinksOf(new \ old, id))
              - Cardinality(LinksOf(old \ new, id)) = Cardinality(LinksOf(new, id))
<1>1. \A s : IsFiniteSet(s) => IsFiniteSet(LinksOf(s, id))
  <2>1. \A s : LinksOf(s, id) \in SUBSET s
    BY DEF LinksOf
  <2> QED
    BY <2>1, FS_Subset
<1> DEFINE o == LinksOf(old, id)
           n == LinksOf(new, id)
<1>2. IsFiniteSet(o) /\ IsFiniteSet(n) /\ IsFiniteSet(o \cap n)
  BY <1>1, FS_Intersection
<1>3. LinksOf(new \ old, id) = n \ o /\ LinksOf(old \ new, id) = o \ n
  BY DEF LinksOf
<1> HIDE DEF o, n
<1>4. Cardinality(o) \in Nat /\ Cardinality(n) \in Nat /\ Cardinality(o \cap n) \in Nat
  BY <1>2, FS_CardinalityType
<1>5. Cardinality(n \ o) = Cardinality(n) - Cardinality(n \cap o)
  BY <1>2, FS_Difference
<1>6. Cardinality(o \ n) = Cardinality(o) - Cardinality(o \cap n)
  BY <1>2, FS_Difference
<1>7. n \cap o = o \cap n
  OBVIOUS
<1>8. Cardinality(o) + Cardinality(n \ o) - Cardinality(o \ n) = Cardinality(n)
  <2>1. PICK a \in Nat, b \in Nat, c \in Nat :
          a = Cardinality(o) /\ b = Cardinality(n) /\ c = Cardinality(o \cap n)
    BY <1>4
  <2>2. Cardinality(n \ o) = b - c /\ Cardinality(o \ n) = a - c
    BY <1>5, <1>6, <1>7, <2>1
  <2>3. a + (b - c) - (a - c) = b
    OBVIOUS
  <2> QED
    BY <2>1, <2>2, <2>3
<1> QED
  BY <1>3, <1>4, <1>8 DEF o, n

\* The columns that neither the links' triggers nor the index's write.
SameRest(d, e) ==
  /\ e.status = d.status /\ e.born = d.born /\ e.hidden = d.hidden /\ e.told = d.told
  /\ e.lastTag = d.lastTag /\ e.named = d.named /\ e.members = d.members

\* A link that comes or goes touches its video.
Touched(old, new, v) == \E l \in (old \ new) \cup (new \ old) : l[1] = v

\* New links, with the triggers that count the uses of tags, drop tags out of
\* use and keep the index: the counts count, the links still lead to tags, and
\* the rows of the videos that are touched come to be in order.
LEMMA LinkedKeeps ==
  ASSUME NEW d \in Tables, TagIds(d), UsageCounts(d),
         NEW links \in SUBSET (Videos \X (1..MaxTagId)),
         \A l \in links : \E t \in Tags : d.tag[t] = l[2],
         NEW e, e = Linked(d, links)
  PROVE  /\ e \in Tables
         /\ SameRest(d, e) /\ e.links = links
         /\ e.auto \subseteq d.auto
         /\ TagIds(e) /\ UsageCounts(e)
         /\ \A l \in links : \E t \in Tags : e.tag[t] = l[2]
         /\ \A v \in Videos : Touched(d.links, links, v) \/ IndexAgrees(d, v) => IndexAgrees(e, v)
<1> DEFINE Of(ls, t) == {l \in ls : d.tag[t] # 0 /\ l[2] = d.tag[t]}
           count == [t \in Tags |-> d.usage[t] + Cardinality(Of(links \ d.links, t))
                                      - Cardinality(Of(d.links \ links, t))]
           dropped == {t \in Tags : Of(d.links \ links, t) # {} /\ count[t] = 0}
           touched == {l[1] : l \in (d.links \ links) \cup (links \ d.links)}
           tags == [t \in Tags |-> IF t \in dropped THEN 0 ELSE d.tag[t]]
           f == [d EXCEPT !.links = links, !.auto = @ \cap links, !.usage = count, !.tag = tags]
<1>1. /\ d.links \in SUBSET (Videos \X (1..MaxTagId)) /\ d.auto \in SUBSET (Videos \X (1..MaxTagId))
      /\ d.tag \in [Tags -> 0..MaxTagId] /\ d.usage \in [Tags -> Nat] /\ MaxTagId \in Nat
  BY LibraryAssumption DEF Tables
<1>2. IsFiniteSet(d.links) /\ IsFiniteSet(links)
  BY <1>1, LinksFinite
<1>3. ASSUME NEW t \in Tags
      PROVE  count[t] = IF d.tag[t] = 0 THEN 0 ELSE Cardinality(LinksOf(links, d.tag[t]))
  <2>1. count[t] = d.usage[t] + Cardinality(Of(links \ d.links, t)) - Cardinality(Of(d.links \ links, t))
    OBVIOUS
  <2>2. CASE d.tag[t] = 0
    <3>1. Of(links \ d.links, t) = {} /\ Of(d.links \ links, t) = {}
      BY <2>2
    <3>2. d.usage[t] = 0
      BY <2>2 DEF UsageCounts
    <3>3. Cardinality({}) = 0
      BY FS_EmptySet
    <3> HIDE DEF count, Of
    <3>4. count[t] = 0 + Cardinality({}) - Cardinality({})
      BY <2>1, <3>1, <3>2
    <3> QED
      BY <2>2, <3>3, <3>4
  <2>3. CASE d.tag[t] # 0
    <3>1. /\ Of(links \ d.links, t) = LinksOf(links \ d.links, d.tag[t])
          /\ Of(d.links \ links, t) = LinksOf(d.links \ links, d.tag[t])
      BY <2>3 DEF LinksOf
    <3>2. d.usage[t] = Cardinality(LinksOf(d.links, d.tag[t]))
      BY <2>3 DEF UsageCounts
    <3> HIDE DEF count, Of
    <3> QED
      BY <1>2, <2>1, <2>3, <3>1, <3>2, LinkCount
  <2> QED
    BY <2>2, <2>3
<1>4. count \in [Tags -> Nat]
  <2>1. ASSUME NEW t \in Tags
        PROVE  count[t] \in Nat
    <3>1. Cardinality(LinksOf(links, d.tag[t])) \in Nat
      BY <1>2, LinkCount
    <3> HIDE DEF count
    <3> QED
      BY <1>3, <3>1
  <2> QED
    BY <2>1
<1>5. touched \in SUBSET Videos
  BY <1>1
<1>6. e = Reindexed(f, touched)
  BY DEF Linked
<1>7. tags \in [Tags -> 0..MaxTagId]
  BY <1>1
\* A tag that is dropped has no link.
<1>8. ASSUME NEW t \in Tags, NEW l \in links, l[2] = d.tag[t]
      PROVE  tags[t] = d.tag[t]
  <2>1. d.tag[t] # 0
    BY <1>1, <1>8
  <2>2. l \in LinksOf(links, d.tag[t])
    BY <1>8 DEF LinksOf
  <2>3. IsFiniteSet(LinksOf(links, d.tag[t]))
    <3>1. LinksOf(links, d.tag[t]) \in SUBSET links
      BY DEF LinksOf
    <3> QED
      BY <1>2, <3>1, FS_Subset
  <2>4. count[t] # 0
    BY <1>3, <2>1, <2>2, <2>3, FS_EmptySet
  <2> QED
    BY <2>4
<1>9. \A t \in Tags : tags[t] # 0 => tags[t] = d.tag[t]
  OBVIOUS
<1>10. ASSUME NEW t \in Tags
       PROVE  count[t] = IF tags[t] = 0 THEN 0 ELSE Cardinality(LinksOf(links, tags[t]))
  <2>1. CASE t \in dropped
    BY <2>1
  <2>2. CASE t \notin dropped
    <3>1. tags[t] = d.tag[t]
      BY <2>2
    <3> QED
      BY <1>3, <3>1
  <2> QED
    BY <2>1, <2>2
<1> HIDE DEF count, dropped, touched
<1>11. f \in Tables
  <2>1. d.auto \cap links \in SUBSET (Videos \X (1..MaxTagId))
    BY <1>1
  <2> HIDE DEF tags
  <2> QED
    BY <1>4, <1>7, <2>1 DEF Tables
<1>12. f.links = links /\ f.usage = count /\ f.tag = tags /\ f.auto = d.auto \cap links
  BY DEF Tables
<1>13. /\ f.status = d.status /\ f.hidden = d.hidden /\ f.lastTag = d.lastTag
       /\ f.indexed = d.indexed /\ f.words = d.words
  BY DEF Tables
<1> HIDE DEF f, tags
<1>14. /\ e \in Tables
       /\ e = [f EXCEPT !.indexed = e.indexed, !.words = e.words]
       /\ \A v \in touched : IndexAgrees(e, v)
       /\ \A v \in Videos \ touched : IndexAgrees(f, v) => IndexAgrees(e, v)
  BY <1>5, <1>6, <1>11, ReindexedKeeps
<1>15. e.links = links /\ e.usage = count /\ e.tag = tags /\ e.auto = d.auto \cap links /\ e.lastTag = d.lastTag
  BY <1>11, <1>12, <1>13, <1>14 DEF Tables
<1>16. SameRest(d, e)
  <2>1. SameRest(d, f)
    BY DEF SameRest, f, Tables
  <2>2. SameRest(f, e)
    BY <1>11, <1>14 DEF SameRest, Tables
  <2> QED
    BY <2>1, <2>2 DEF SameRest
<1>17. TagIds(e)
  <2>1. \A t \in Tags : e.tag[t] = 0 \/ e.tag[t] = d.tag[t]
    BY <1>9, <1>15
  <2>2. d.lastTag \in Nat /\ \A t \in Tags : d.tag[t] \in Nat
    BY <1>1 DEF Tables
  <2> QED
    BY <1>15, <2>1, <2>2 DEF TagIds
<1>18. UsageCounts(e)
  BY <1>10, <1>15 DEF UsageCounts
<1>19. \A l \in links : \E t \in Tags : e.tag[t] = l[2]
  BY <1>8, <1>15
<1>20. ASSUME NEW v \in Videos, IndexAgrees(d, v), v \notin touched
       PROVE  IndexAgrees(e, v)
  <2>1. \A id : <<v, id>> \in links <=> <<v, id>> \in d.links
    BY <1>20 DEF touched
  <2>2. ASSUME NEW t \in Tags
        PROVE  t \in WordsOf(f, v) <=> t \in WordsOf(d, v)
    <3>1. CASE <<v, d.tag[t]>> \in links
      <4>1. tags[t] = d.tag[t]
        BY <1>8, <3>1
      <4> QED
        BY <1>12, <2>1, <4>1 DEF WordsOf
    <3>2. CASE <<v, d.tag[t]>> \notin links
      BY <1>9, <1>12, <2>1, <3>2 DEF WordsOf
    <3> QED
      BY <3>1, <3>2
  <2>3. Visible(f, v) <=> Visible(d, v)
    BY <1>13 DEF Visible, Exists
  <2>4. IndexAgrees(f, v)
    BY <1>13, <1>20, <2>2, <2>3 DEF IndexAgrees
  <2> QED
    BY <1>14, <1>20, <2>4
<1>21. ASSUME NEW v \in Videos, Touched(d.links, links, v) \/ IndexAgrees(d, v)
       PROVE  IndexAgrees(e, v)
  <2>1. CASE v \in touched
    BY <1>14, <2>1
  <2>2. CASE v \notin touched
    <3>1. ~Touched(d.links, links, v)
      BY <2>2 DEF Touched, touched
    <3> QED
      BY <1>20, <1>21, <2>2, <3>1
  <2> QED
    BY <2>1, <2>2
<1>22. e.auto \subseteq d.auto
  BY <1>15
<1> QED
  BY <1>14, <1>15, <1>16, <1>17, <1>18, <1>19, <1>21, <1>22

-----------------------------------------------------------------------------
(* Statements *)

Methods == {"update_video", "update_status"}
\* What a failed statement on an artist or a collection raises.
Handlers == {"sql", "raw"}

VideoStatements ==
  ({"get", "getany", "insert", "edit", "hide", "show", "remove", "wipe", "untag",
    "importtag", "export"} \X Videos)
  \cup ({"getstatus", "status"} \X Videos \X Statuses \X Methods)
  \cup ({"history"} \X Videos \X Statuses)
NamedStatements ==
  ({"find", "insertnamed", "updatenamed"} \X Named \X Handlers)
  \cup ({"getnamed", "hidenamed"} \X Named)
  \cup ({"link"} \X Videos \X Named \X Handlers)
  \cup ({"unlink"} \X Videos \X Named)
TagStatements ==
  ({"findtag", "inserttag", "deletetag"} \X Tags)
  \cup ({"gettag"} \X Tags \X BOOLEAN)
  \cup ({"addtag"} \X Videos \X {"manual", "auto"})
  \cup ({"untagid"} \X Videos \X Nat)
  \cup ({"findauto"} \X Videos \X (SUBSET Tags))
Plain ==
  {Fetch, Commit, <<"begin">>, Rollback("query"), Rollback("transaction")}
Markers ==
  {"except"} \X (SUBSET {"missing", "query", "sql", "busy", "raw"})
             \X {<<>>, <<Rollback("query")>>, <<Rollback("transaction")>>}

Statement == VideoStatements \cup NamedStatements \cup TagStatements \cup Plain \cup Markers

\* The operands of statements.
LEMMA VideoOperands ==
  ASSUME NEW s \in Statement
  PROVE  /\ s[1] \in {"get", "getany", "insert", "edit", "hide", "show", "remove", "wipe",
                      "untag", "importtag", "export"} => s[2] \in Videos
         /\ s[1] \in {"getstatus", "status"} =>
              s[2] \in Videos /\ s[3] \in Statuses /\ s[4] \in Methods
         /\ s[1] = "history" => s[2] \in Videos /\ s[3] \in Statuses
<1>1. CASE s \in VideoStatements
  BY <1>1 DEF VideoStatements
<1>2. CASE s \in NamedStatements
  BY <1>2 DEF NamedStatements
<1>3. CASE s \in TagStatements
  BY <1>3 DEF TagStatements
<1>4. CASE s \in Plain
  BY <1>4 DEF Plain, Fetch, Commit, Rollback
<1>5. CASE s \in Markers
  BY <1>5 DEF Markers
<1> QED
  BY <1>1, <1>2, <1>3, <1>4, <1>5 DEF Statement

LEMMA NamedOperands ==
  ASSUME NEW s \in Statement
  PROVE  /\ s[1] \in {"find", "insertnamed", "updatenamed"} => s[2] \in Named /\ s[3] \in Handlers
         /\ s[1] \in {"getnamed", "hidenamed"} => s[2] \in Named
         /\ s[1] = "link" => s[2] \in Videos /\ s[3] \in Named
         /\ s[1] = "unlink" => s[2] \in Videos /\ s[3] \in Named
<1>1. CASE s \in VideoStatements
  BY <1>1 DEF VideoStatements
<1>2. CASE s \in NamedStatements
  BY <1>2 DEF NamedStatements
<1>3. CASE s \in TagStatements
  BY <1>3 DEF TagStatements
<1>4. CASE s \in Plain
  BY <1>4 DEF Plain, Fetch, Commit, Rollback
<1>5. CASE s \in Markers
  BY <1>5 DEF Markers
<1> QED
  BY <1>1, <1>2, <1>3, <1>4, <1>5 DEF Statement

LEMMA TagOperands ==
  ASSUME NEW s \in Statement
  PROVE  /\ s[1] \in {"findtag", "inserttag", "deletetag", "gettag"} => s[2] \in Tags
         /\ s[1] \in {"addtag", "untagid"} => s[2] \in Videos
         /\ s[1] = "findauto" => s[2] \in Videos /\ s[3] \in SUBSET Tags
         /\ s[1] = "except" => s[3] \in Seq(Statement)
<1>1. CASE s \in VideoStatements
  BY <1>1 DEF VideoStatements
<1>2. CASE s \in NamedStatements
  BY <1>2 DEF NamedStatements
<1>3. CASE s \in TagStatements
  BY <1>3 DEF TagStatements
<1>4. CASE s \in Plain
  BY <1>4 DEF Plain, Fetch, Commit, Rollback
<1>5. CASE s \in Markers
  <2>1. s[1] = "except" /\ s[3] \in {<<>>, <<Rollback("query")>>, <<Rollback("transaction")>>}
    BY <1>5 DEF Markers
  <2>2. Rollback("query") \in Statement /\ Rollback("transaction") \in Statement
    BY DEF Statement, Plain
  <2> HIDE DEF Statement
  <2>3. <<>> \in Seq(Statement) /\ \A x \in Statement : <<x>> \in Seq(Statement)
    OBVIOUS
  <2>4. s[3] \in Seq(Statement)
    BY <2>1, <2>2, <2>3
  <2> QED
    BY <2>1, <2>4
<1> QED
  BY <1>1, <1>2, <1>3, <1>4, <1>5 DEF Statement

-----------------------------------------------------------------------------
(* What a write makes of the tables *)

\* The fields that the links and the index rest on.
SameTags(d, e) ==
  e.tag = d.tag /\ e.lastTag = d.lastTag /\ e.usage = d.usage /\ e.links = d.links
SameRow(d, e, v) ==
  (Visible(e, v) <=> Visible(d, v))
  /\ (v \in e.indexed <=> v \in d.indexed)
  /\ \A t \in Tags : <<v, t>> \in e.words <=> <<v, t>> \in d.words

LEMMA SameTagsKeeps ==
  ASSUME NEW d, NEW e, SameTags(d, e)
  PROVE  /\ TagIds(d) => TagIds(e)
         /\ UsageCounts(d) => UsageCounts(e)
         /\ \A v : IndexAgrees(d, v) /\ SameRow(d, e, v) => IndexAgrees(e, v)
<1>1. TagIds(d) => TagIds(e)
  BY DEF SameTags, TagIds
<1>2. UsageCounts(d) => UsageCounts(e)
  BY DEF SameTags, UsageCounts
<1>3. \A v : WordsOf(d, v) = WordsOf(e, v)
  BY DEF SameTags, WordsOf
<1>4. \A v : IndexAgrees(d, v) /\ SameRow(d, e, v) => IndexAgrees(e, v)
  BY <1>3 DEF SameRow, IndexAgrees
<1> QED
  BY <1>1, <1>2, <1>4

\* The triggers of the index put a row in order that alone is out of it.
LEMMA ReindexedSound ==
  ASSUME NEW f \in Tables, TagIds(f), UsageCounts(f),
         \A l \in f.links : LinkLeads(f, l),
         \A m \in f.members : MemberLeads(f, m),
         NEW v \in Videos, \A w \in Videos \ {v} : IndexAgrees(f, w),
         NEW e, e = Reindexed(f, {v})
  PROVE  Sound(e)
<1>1. /\ e \in Tables
      /\ e = [f EXCEPT !.indexed = e.indexed, !.words = e.words]
      /\ \A w \in {v} : IndexAgrees(e, w)
      /\ \A w \in Videos \ {v} : IndexAgrees(f, w) => IndexAgrees(e, w)
  <2>1. {v} \in SUBSET Videos
    OBVIOUS
  <2> QED
    BY <2>1, ReindexedKeeps, ZenonT(40)
<1>2. /\ SameTags(f, e) /\ e.status = f.status /\ e.members = f.members /\ e.named = f.named
  BY <1>1 DEF SameTags, Tables
<1>3. TagIds(e) /\ UsageCounts(e)
  BY <1>2, SameTagsKeeps
<1>4. \A l \in e.links : LinkLeads(e, l)
  BY <1>2 DEF LinkLeads, Exists, SameTags
<1>5. \A m \in e.members : MemberLeads(e, m)
  BY <1>2 DEF MemberLeads, Exists
<1>6. \A w \in Videos : IndexAgrees(e, w)
  BY <1>1
<1> QED
  BY <1>1, <1>3, <1>4, <1>5, <1>6 DEF Sound

\* New links between rows, whose videos are either touched or in order.
LEMMA LinkedSound ==
  ASSUME NEW d \in Tables, TagIds(d), UsageCounts(d),
         \A m \in d.members : MemberLeads(d, m),
         NEW links \in SUBSET (Videos \X (1..MaxTagId)),
         \A l \in links : LinkLeads(d, l),
         \A v \in Videos : Touched(d.links, links, v) \/ IndexAgrees(d, v),
         NEW e, e = Linked(d, links)
  PROVE  Sound(e)
<1>1. \A l \in links : \E t \in Tags : d.tag[t] = l[2]
  BY DEF LinkLeads
<1>2. /\ e \in Tables
      /\ SameRest(d, e) /\ e.links = links
      /\ TagIds(e) /\ UsageCounts(e)
      /\ \A l \in links : \E t \in Tags : e.tag[t] = l[2]
      /\ \A v \in Videos : Touched(d.links, links, v) \/ IndexAgrees(d, v) => IndexAgrees(e, v)
  BY <1>1, LinkedKeeps
<1>3. e.links = links /\ e.status = d.status /\ e.members = d.members /\ e.named = d.named
  BY <1>2 DEF SameRest
<1>4. \A l \in e.links : LinkLeads(e, l)
  BY <1>2, <1>3 DEF LinkLeads, Exists
<1>5. \A m \in e.members : MemberLeads(e, m)
  BY <1>3 DEF MemberLeads, Exists
<1> QED
  BY <1>2, <1>4, <1>5 DEF Sound

\* A row is written: created, or with another status.
LEMMA SetRowSound ==
  ASSUME NEW d, Sound(d), NEW v \in Videos, NEW s \in Statuses, NEW born \in SUBSET Videos,
         NEW e, e = SetRow([d EXCEPT !.born = born], v, s)
  PROVE  Sound(e)
<1> DEFINE f == [[d EXCEPT !.born = born] EXCEPT !.status[v] = s]
<1>1. e = Reindexed(f, {v})
  BY DEF SetRow
<1>2. d \in Tables /\ s # "none"
  BY LibraryAssumption DEF Sound
<1>3. f \in Tables /\ f.status = [d.status EXCEPT ![v] = s]
  BY <1>2 DEF Tables
<1>4. /\ SameTags(d, f) /\ f.members = d.members /\ f.named = d.named
      /\ f.hidden = d.hidden /\ f.indexed = d.indexed /\ f.words = d.words
  BY <1>2 DEF SameTags, Tables
<1>5. d.status \in [Videos -> Statuses \cup {"none"}]
  BY <1>2 DEF Tables
<1> HIDE DEF f
<1>6. \A w \in Videos : f.status[w] = IF w = v THEN s ELSE d.status[w]
  BY <1>3, <1>5
<1>7. \A w \in Videos : Exists(d, w) => Exists(f, w)
  BY <1>2, <1>6 DEF Exists
<1>8. \A w \in Videos \ {v} : SameRow(d, f, w)
  BY <1>4, <1>6 DEF SameRow, Visible, Exists
<1>9. TagIds(f) /\ UsageCounts(f) /\ \A w \in Videos \ {v} : IndexAgrees(f, w)
  BY <1>4, <1>8, SameTagsKeeps DEF Sound
<1>10. \A l \in f.links : LinkLeads(f, l)
  <2>1. \A l \in d.links : l[1] \in Videos
    BY <1>2 DEF Tables
  <2> QED
    BY <1>4, <1>7, <2>1 DEF Sound, LinkLeads, SameTags
<1>11. \A m \in f.members : MemberLeads(f, m)
  <2>1. \A m \in d.members : m[1] \in Videos
    BY <1>2 DEF Tables
  <2> QED
    BY <1>4, <1>7, <2>1 DEF Sound, MemberLeads
<1> QED
  BY <1>1, <1>3, <1>9, <1>10, <1>11, ReindexedSound

\* A video is hidden or shown.
LEMMA HiddenSound ==
  ASSUME NEW d, Sound(d), NEW v \in Videos, NEW hidden \in SUBSET Videos,
         \A w \in Videos \ {v} : w \in hidden <=> w \in d.hidden,
         NEW e, e = Reindexed([d EXCEPT !.hidden = hidden], {v})
  PROVE  Sound(e)
<1> DEFINE f == [d EXCEPT !.hidden = hidden]
<1>1. d \in Tables
  BY DEF Sound
<1>2. f \in Tables /\ f.hidden = hidden
  BY <1>1 DEF Tables
<1>3. /\ SameTags(d, f) /\ f.members = d.members /\ f.named = d.named
      /\ f.status = d.status /\ f.indexed = d.indexed /\ f.words = d.words
  BY <1>1 DEF SameTags, Tables
<1>4. e = Reindexed(f, {v})
  OBVIOUS
<1> HIDE DEF f
<1>5. \A w \in Videos \ {v} : SameRow(d, f, w)
  BY <1>2, <1>3 DEF SameRow, Visible, Exists
<1>6. TagIds(f) /\ UsageCounts(f) /\ \A w \in Videos \ {v} : IndexAgrees(f, w)
  BY <1>3, <1>5, SameTagsKeeps DEF Sound
<1>7. \A l \in f.links : LinkLeads(f, l)
  BY <1>3 DEF Sound, LinkLeads, SameTags, Exists
<1>8. \A m \in f.members : MemberLeads(f, m)
  BY <1>3 DEF Sound, MemberLeads, Exists
<1> QED
  BY <1>2, <1>4, <1>6, <1>7, <1>8, ReindexedSound

\* Columns that nothing leads to or from.
LEMMA OtherColumns ==
  ASSUME NEW d, Sound(d), NEW e \in Tables, SameTags(d, e),
         e.status = d.status, e.hidden = d.hidden, e.indexed = d.indexed, e.words = d.words,
         \A m \in e.members : MemberLeads(e, m)
  PROVE  Sound(e)
<1>1. \A v : SameRow(d, e, v)
  BY DEF SameRow, Visible, Exists
<1>2. TagIds(e) /\ UsageCounts(e) /\ \A v \in Videos : IndexAgrees(e, v)
  BY <1>1, SameTagsKeeps DEF Sound
<1>3. \A l \in e.links : LinkLeads(e, l)
  BY DEF Sound, LinkLeads, SameTags, Exists
<1> QED
  BY <1>2, <1>3 DEF Sound

\* The history, an artist or a collection, and what belongs to it.
LEMMA HistorySound ==
  ASSUME NEW d, Sound(d), NEW v \in Videos, NEW s \in Statuses,
         NEW e, e = [d EXCEPT !.told[v] = s]
  PROVE  Sound(e)
<1>1. d \in Tables
  BY DEF Sound
<1>2. e \in Tables
  BY <1>1 DEF Tables
<1>3. /\ SameTags(d, e) /\ e.members = d.members /\ e.named = d.named
      /\ e.status = d.status /\ e.hidden = d.hidden /\ e.indexed = d.indexed /\ e.words = d.words
  BY <1>1 DEF SameTags, Tables
<1>4. \A m \in e.members : MemberLeads(e, m)
  BY <1>3 DEF Sound, MemberLeads, Exists
<1> QED
  BY <1>2, <1>3, <1>4, OtherColumns

LEMMA NamedSound ==
  ASSUME NEW d, Sound(d), NEW n \in Named, NEW s \in {"live", "hidden"},
         NEW e, e = [d EXCEPT !.named[n] = s]
  PROVE  Sound(e)
<1>1. d \in Tables
  BY DEF Sound
<1>2. e \in Tables /\ e.named = [d.named EXCEPT ![n] = s]
  BY <1>1 DEF Tables
<1>3. /\ SameTags(d, e) /\ e.members = d.members
      /\ e.status = d.status /\ e.hidden = d.hidden /\ e.indexed = d.indexed /\ e.words = d.words
  BY <1>1 DEF SameTags, Tables
<1>4. ASSUME NEW m \in e.members
      PROVE  MemberLeads(e, m)
  <2>1. m[2] \in Named /\ d.named \in [Named -> {"none", "live", "hidden"}]
    BY <1>1, <1>3 DEF Tables
  <2>2. MemberLeads(d, m)
    BY <1>3 DEF Sound
  <2> QED
    BY <1>2, <1>3, <2>1, <2>2 DEF MemberLeads, Exists
<1> QED
  BY <1>2, <1>3, <1>4, OtherColumns

LEMMA MembersSound ==
  ASSUME NEW d, Sound(d), NEW members \in SUBSET (Videos \X Named),
         \A m \in members : MemberLeads(d, m),
         NEW e, e = [d EXCEPT !.members = members]
  PROVE  Sound(e)
<1>1. d \in Tables
  BY DEF Sound
<1>2. e \in Tables
  BY <1>1 DEF Tables
<1>3. /\ SameTags(d, e) /\ e.members = members /\ e.named = d.named
      /\ e.status = d.status /\ e.hidden = d.hidden /\ e.indexed = d.indexed /\ e.words = d.words
  BY <1>1 DEF SameTags, Tables
<1>4. \A m \in e.members : MemberLeads(e, m)
  BY <1>3 DEF MemberLeads, Exists
<1> QED
  BY <1>2, <1>3, <1>4, OtherColumns

\* A tag is inserted under an id that no link has.
LEMMA InsertTagSound ==
  ASSUME NEW d, Sound(d), NEW t \in Tags, d.tag[t] = 0, d.lastTag < MaxTagId,
         NEW e, e = [d EXCEPT !.lastTag = @ + 1, !.tag[t] = d.lastTag + 1]
  PROVE  Sound(e) /\ e.lastTag \in 0..MaxTagId
<1> DEFINE n == d.lastTag + 1
<1>1. /\ d \in Tables /\ d.lastTag \in 0..MaxTagId /\ d.tag \in [Tags -> 0..MaxTagId]
      /\ MaxTagId \in Nat /\ d.links \in SUBSET (Videos \X (1..MaxTagId))
  BY LibraryAssumption DEF Sound, Tables
<1>2. n \in 1..MaxTagId
  BY <1>1
<1>3. e \in Tables /\ e.tag = [d.tag EXCEPT ![t] = n] /\ e.lastTag = n
  <2>1. e = [d EXCEPT !.lastTag = n, !.tag = [d.tag EXCEPT ![t] = n]]
    BY <1>1 DEF Tables
  <2>2. n \in 0..MaxTagId /\ [d.tag EXCEPT ![t] = n] \in [Tags -> 0..MaxTagId]
    BY <1>1, <1>2
  <2> HIDE DEF n
  <2> QED
    BY <1>1, <2>1, <2>2, ZenonT(40) DEF Tables
<1>4. /\ e.links = d.links /\ e.usage = d.usage /\ e.members = d.members /\ e.named = d.named
      /\ e.status = d.status /\ e.hidden = d.hidden /\ e.indexed = d.indexed /\ e.words = d.words
  BY <1>1 DEF Tables
<1> HIDE DEF n
<1>5. \A u \in Tags : e.tag[u] = IF u = t THEN n ELSE d.tag[u]
  BY <1>1, <1>3
<1>6. \A u \in Tags : d.tag[u] \in Nat /\ d.tag[u] < n
  BY <1>1 DEF Sound, TagIds, n
<1>7. TagIds(e)
  <2>1. \A u, w \in Tags : d.tag[u] = d.tag[w] /\ d.tag[u] # 0 => u = w
    BY DEF Sound, TagIds
  <2> QED
    BY <1>2, <1>3, <1>5, <1>6, <2>1 DEF TagIds
<1>8. \A l \in d.links : l[2] # n /\ l[2] # 0
  <2>1. \A l \in d.links : l[2] \in 1..MaxTagId /\ \E u \in Tags : d.tag[u] = l[2]
    BY <1>1 DEF Sound, LinkLeads
  <2> QED
    BY <1>1, <1>6, <2>1
<1>9. UsageCounts(e)
  <2>1. LinksOf(e.links, n) = {} /\ Cardinality({}) = 0
    BY <1>4, <1>8, FS_EmptySet DEF LinksOf
  <2>2. \A u \in Tags : d.usage[u] = IF d.tag[u] = 0 THEN 0 ELSE Cardinality(LinksOf(d.links, d.tag[u]))
    BY DEF Sound, UsageCounts
  <2>3. n # 0
    BY <1>2
  <2>4. e.usage[t] = 0 /\ e.tag[t] = n
    BY <1>4, <1>5, <2>2
  <2>5. \A u \in Tags \ {t} : e.usage[u] = d.usage[u] /\ e.tag[u] = d.tag[u]
    BY <1>4, <1>5
  <2>6. \A u \in Tags \ {t} : e.usage[u] = IF e.tag[u] = 0 THEN 0 ELSE Cardinality(LinksOf(e.links, e.tag[u]))
    BY <1>4, <2>2, <2>5
  <2> QED
    BY <2>1, <2>3, <2>4, <2>6 DEF UsageCounts
<1>10. \A l \in e.links : LinkLeads(e, l)
  <2>1. ASSUME NEW l \in d.links
        PROVE  LinkLeads(e, l)
    <3>1. PICK u \in Tags : d.tag[u] = l[2]
      BY DEF Sound, LinkLeads
    <3>2. e.tag[u] = l[2]
      BY <1>5, <1>8, <3>1
    <3>3. Exists(e, l[1])
      BY <1>4 DEF Sound, LinkLeads, Exists
    <3> QED
      BY <3>2, <3>3 DEF LinkLeads
  <2> QED
    BY <1>4, <2>1
<1>11. \A m \in e.members : MemberLeads(e, m)
  BY <1>4 DEF Sound, MemberLeads, Exists
<1>12. ASSUME NEW v \in Videos
       PROVE  IndexAgrees(e, v)
  <2>1. Visible(e, v) <=> Visible(d, v)
    BY <1>4 DEF Visible, Exists
  <2>2. ASSUME NEW u \in Tags
        PROVE  u \in WordsOf(e, v) <=> u \in WordsOf(d, v)
    <3>1. <<v, n>> \notin d.links
      BY <1>8
    <3>2. <<v, 0>> \notin d.links
      BY <1>8
    <3> QED
      BY <1>4, <1>5, <3>1, <3>2 DEF WordsOf
  <2>3. IndexAgrees(d, v)
    BY DEF Sound
  <2> QED
    BY <1>4, <2>1, <2>2, <2>3 DEF IndexAgrees
<1>13. e.lastTag \in 0..MaxTagId
  BY <1>2, <1>3
<1> QED
  BY <1>3, <1>7, <1>9, <1>10, <1>11, <1>12, <1>13 DEF Sound

\* Which links are set by the decade job matters to no table.
LEMMA AutoSound ==
  ASSUME NEW d, Sound(d), NEW auto \in SUBSET (Videos \X (1..MaxTagId)),
         NEW e, e = [d EXCEPT !.auto = auto]
  PROVE  Sound(e)
<1>1. d \in Tables
  BY DEF Sound
<1>2. e \in Tables
  BY <1>1 DEF Tables
<1>3. /\ SameTags(d, e) /\ e.members = d.members /\ e.named = d.named
      /\ e.status = d.status /\ e.hidden = d.hidden /\ e.indexed = d.indexed /\ e.words = d.words
  BY <1>1 DEF SameTags, Tables
<1>4. \A m \in e.members : MemberLeads(e, m)
  BY <1>3 DEF Sound, MemberLeads, Exists
<1> QED
  BY <1>2, <1>3, <1>4, OtherColumns

\* A video takes a tag that has a row.
LEMMA AddTagSound ==
  ASSUME NEW d, Sound(d), NEW v \in Videos, NEW id \in Nat, Exists(d, v), id # 0,
         NEW t \in Tags, d.tag[t] = id,
         NEW link, link = <<v, id>>,
         NEW e, e = Linked(d, d.links \cup {link})
  PROVE  Sound(e) /\ link \in Videos \X (1..MaxTagId)
<1> DEFINE links == d.links \cup {link}
<1>1. /\ d \in Tables /\ TagIds(d) /\ UsageCounts(d)
      /\ \A m \in d.members : MemberLeads(d, m)
      /\ \A l \in d.links : LinkLeads(d, l)
      /\ \A w \in Videos : IndexAgrees(d, w)
  BY DEF Sound
<1>2. d.tag \in [Tags -> 0..MaxTagId] /\ d.links \in SUBSET (Videos \X (1..MaxTagId)) /\ MaxTagId \in Nat
  BY <1>1, LibraryAssumption DEF Tables
<1>3. id \in 1..MaxTagId
  BY <1>2
<1>4. link \in Videos \X (1..MaxTagId) /\ link[1] = v /\ link[2] = id
  BY <1>3
<1>5. links \in SUBSET (Videos \X (1..MaxTagId))
  BY <1>2, <1>4
<1>6. LinkLeads(d, link)
  BY <1>4 DEF LinkLeads
<1>7. \A l \in links : LinkLeads(d, l)
  BY <1>1, <1>6
<1>8. \A w \in Videos : Touched(d.links, links, w) \/ IndexAgrees(d, w)
  BY <1>1
<1>9. e = Linked(d, links)
  OBVIOUS
<1> HIDE DEF links
<1> QED
  BY <1>1, <1>4, <1>5, <1>7, <1>8, <1>9, LinkedSound

\* Links go.
LEMMA UnlinkedSound ==
  ASSUME NEW d, Sound(d), NEW links \in SUBSET d.links, NEW e, e = Linked(d, links)
  PROVE  Sound(e)
<1>1. /\ d \in Tables /\ TagIds(d) /\ UsageCounts(d)
      /\ \A m \in d.members : MemberLeads(d, m)
      /\ \A w \in Videos : Touched(d.links, links, w) \/ IndexAgrees(d, w)
      /\ \A l \in links : LinkLeads(d, l)
  BY DEF Sound
<1>2. links \in SUBSET (Videos \X (1..MaxTagId))
  BY <1>1 DEF Tables
<1> QED
  BY <1>1, <1>2, LinkedSound

\* A video goes, with its links and memberships.
LEMMA RemovedSound ==
  ASSUME NEW d, Sound(d), NEW v \in Videos, NEW e, e = Removed(d, v)
  PROVE  Sound(e)
<1> DEFINE members == {m \in d.members : m[1] # v}
           row == [d EXCEPT !.status[v] = "none", !.hidden = @ \ {v}, !.told[v] = "none",
                            !.members = members]
           links == {l \in d.links : l[1] # v}
           f == Linked(row, links)
<1>1. d \in Tables
  BY DEF Sound
<1>2. /\ d.links \in SUBSET (Videos \X (1..MaxTagId)) /\ d.members \in SUBSET (Videos \X Named)
      /\ d.status \in [Videos -> Statuses \cup {"none"}]
  BY <1>1 DEF Tables
<1>3. row \in Tables
  BY <1>1 DEF Tables
<1>4. /\ row.status = [d.status EXCEPT ![v] = "none"] /\ row.hidden = d.hidden \ {v}
      /\ row.members = members
  BY <1>1 DEF Tables
<1>5. SameTags(d, row) /\ row.named = d.named /\ row.indexed = d.indexed /\ row.words = d.words
  BY <1>1 DEF SameTags, Tables
<1>6. e = Reindexed(f, {v})
  <2>1. row.links = d.links
    BY <1>5 DEF SameTags
  <2> QED
    BY DEF Removed
<1> HIDE DEF row
<1>7. \A w \in Videos : row.status[w] = IF w = v THEN "none" ELSE d.status[w]
  BY <1>2, <1>4
<1>8. \A w \in Videos \ {v} : SameRow(d, row, w)
  BY <1>4, <1>5, <1>7 DEF SameRow, Visible, Exists
<1>9. TagIds(row) /\ UsageCounts(row) /\ \A w \in Videos \ {v} : IndexAgrees(row, w)
  BY <1>5, <1>8, SameTagsKeeps DEF Sound
<1>10. links \in SUBSET (Videos \X (1..MaxTagId)) /\ links \subseteq d.links
  BY <1>2
<1>11. \A l \in links : Exists(row, l[1]) /\ \E t \in Tags : row.tag[t] = l[2]
  <2>1. \A l \in links : LinkLeads(d, l) /\ l[1] \in Videos \ {v}
    BY <1>2 DEF Sound
  <2> QED
    BY <1>5, <1>7, <2>1 DEF LinkLeads, Exists, SameTags
<1> HIDE DEF links
<1>12. /\ f \in Tables
       /\ SameRest(row, f) /\ f.links = links
       /\ TagIds(f) /\ UsageCounts(f)
       /\ \A l \in links : \E t \in Tags : f.tag[t] = l[2]
       /\ \A w \in Videos : Touched(row.links, links, w) \/ IndexAgrees(row, w) => IndexAgrees(f, w)
  BY <1>3, <1>9, <1>10, <1>11, LinkedKeeps
<1> HIDE DEF f
<1>13. \A w \in Videos \ {v} : IndexAgrees(f, w)
  BY <1>9, <1>12
<1>14. \A l \in f.links : LinkLeads(f, l)
  BY <1>11, <1>12 DEF LinkLeads, Exists, SameRest
<1>15. ASSUME NEW m \in f.members
       PROVE  MemberLeads(f, m)
  <2>1. m \in members /\ f.named = d.named /\ f.status = row.status
    BY <1>4, <1>5, <1>12 DEF SameRest
  <2>2. m \in d.members /\ m[1] \in Videos \ {v}
    BY <1>2, <2>1
  <2>3. MemberLeads(d, m)
    BY <2>2 DEF Sound
  <2> QED
    BY <1>7, <2>1, <2>2, <2>3 DEF MemberLeads, Exists
<1> QED
  BY <1>6, <1>12, <1>13, <1>14, <1>15, ReindexedSound

\* A tag goes, with its links.
LEMMA TagRemovedSound ==
  ASSUME NEW d, Sound(d), NEW t \in Tags, NEW e, e = TagRemoved(d, t)
  PROVE  Sound(e)
<1> DEFINE gone == d.tag[t]
           row == [d EXCEPT !.tag[t] = 0, !.usage[t] = 0]
           links == {l \in d.links : l[2] # gone}
<1>1. d \in Tables
  BY DEF Sound
<1>2. /\ d.links \in SUBSET (Videos \X (1..MaxTagId))
      /\ d.tag \in [Tags -> 0..MaxTagId] /\ d.usage \in [Tags -> Nat] /\ MaxTagId \in Nat
  BY <1>1, LibraryAssumption DEF Tables
<1>3. /\ row.tag = [d.tag EXCEPT ![t] = 0] /\ row.usage = [d.usage EXCEPT ![t] = 0]
  BY <1>1 DEF Tables
<1>4. row \in Tables
  <2>1. row.tag \in [Tags -> 0..MaxTagId] /\ row.usage \in [Tags -> Nat]
    BY <1>2, <1>3
  <2>2. row = [d EXCEPT !.tag = row.tag, !.usage = row.usage]
    BY <1>1, <1>3 DEF Tables
  <2> HIDE DEF row
  <2> QED
    BY <1>1, <2>1, <2>2 DEF Tables
<1>5. /\ row.links = d.links /\ row.lastTag = d.lastTag /\ row.status = d.status
      /\ row.hidden = d.hidden /\ row.named = d.named /\ row.members = d.members
      /\ row.indexed = d.indexed /\ row.words = d.words
  BY <1>1 DEF Tables
<1>6. e = Linked(row, links)
  BY DEF TagRemoved
<1> HIDE DEF row
<1>7. \A u \in Tags : /\ row.tag[u] = IF u = t THEN 0 ELSE d.tag[u]
                      /\ row.usage[u] = IF u = t THEN 0 ELSE d.usage[u]
  BY <1>2, <1>3
<1>8. TagIds(row)
  <2>1. TagIds(d) /\ d.lastTag \in Nat
    BY <1>1 DEF Sound, Tables
  <2> QED
    BY <1>5, <1>7, <2>1 DEF TagIds
<1>9. UsageCounts(row)
  <2>1. UsageCounts(d)
    BY DEF Sound
  <2> QED
    BY <1>5, <1>7, <2>1 DEF UsageCounts
<1>10. links \in SUBSET (Videos \X (1..MaxTagId)) /\ links \subseteq d.links
  BY <1>2
<1>11. ASSUME NEW l \in links
       PROVE  LinkLeads(row, l)
  <2>1. LinkLeads(d, l) /\ l[2] # gone
    BY DEF Sound
  <2>2. PICK u \in Tags : d.tag[u] = l[2]
    BY <2>1 DEF LinkLeads
  <2>3. u # t
    BY <2>1, <2>2
  <2> QED
    BY <1>5, <1>7, <2>1, <2>2, <2>3 DEF LinkLeads, Exists
<1>12. \A m \in row.members : MemberLeads(row, m)
  BY <1>5 DEF Sound, MemberLeads, Exists
<1>13. ASSUME NEW v \in Videos, ~Touched(row.links, links, v)
       PROVE  IndexAgrees(row, v)
  <2>1. <<v, gone>> \notin d.links
    BY <1>5, <1>13 DEF Touched
  <2>2. <<v, 0>> \notin d.links
    BY <1>2
  <2>3. ASSUME NEW u \in Tags
        PROVE  u \in WordsOf(row, v) <=> u \in WordsOf(d, v)
    BY <1>5, <1>7, <2>1, <2>2 DEF WordsOf
  <2>4. Visible(row, v) <=> Visible(d, v)
    BY <1>5 DEF Visible, Exists
  <2>5. IndexAgrees(d, v)
    BY DEF Sound
  <2> QED
    BY <1>5, <2>3, <2>4, <2>5 DEF IndexAgrees
<1> HIDE DEF links
<1> QED
  BY <1>4, <1>6, <1>8, <1>9, <1>10, <1>11, <1>12, <1>13, LinkedSound

\* Every write that is not refused leaves the tables in order.
LEMMA WrittenSound ==
  ASSUME NEW d, Sound(d), NEW s \in Statement, NEW id \in Nat,
         Raises(d, s, id) = "none",
         s[1] = "inserttag" => d.lastTag < MaxTagId,
         NEW e, e = Written(d, s, id)
  PROVE  Sound(e) /\ (s[1] = "inserttag" => e.lastTag \in 0..MaxTagId)
<1>1. /\ d \in Tables /\ d.born \in SUBSET Videos /\ d.hidden \in SUBSET Videos
      /\ d.links \in SUBSET (Videos \X (1..MaxTagId)) /\ d.members \in SUBSET (Videos \X Named)
  BY DEF Sound, Tables
<1>2. CASE s[1] = "insert"
  <2>1. s[2] \in Videos /\ "discovered" \in Statuses
    BY <1>2, VideoOperands, LibraryAssumption
  <2>2. d.born \cup {s[2]} \in SUBSET Videos
    BY <1>1, <2>1
  <2>3. e = SetRow([d EXCEPT !.born = d.born \cup {s[2]}], s[2], "discovered")
    BY <1>2 DEF Written
  <2> QED
    BY <1>2, <2>1, <2>2, <2>3, SetRowSound
<1>3. CASE s[1] = "status"
  <2>1. s[2] \in Videos /\ s[3] \in Statuses
    BY <1>3, VideoOperands
  <2>2. d = [d EXCEPT !.born = d.born]
    BY <1>1 DEF Tables
  <2>3. e = IF Exists(d, s[2]) THEN SetRow([d EXCEPT !.born = d.born], s[2], s[3]) ELSE d
    BY <1>3, <2>2 DEF Written
  <2> QED
    BY <1>1, <1>3, <2>1, <2>3, SetRowSound
<1>4. CASE s[1] = "history"
  <2>1. s[2] \in Videos /\ s[3] \in Statuses /\ e = [d EXCEPT !.told[s[2]] = s[3]]
    BY <1>4, VideoOperands DEF Written
  <2> QED
    BY <1>4, <2>1, HistorySound
<1>5. CASE s[1] = "hide"
  <2> DEFINE hidden == d.hidden \cup {s[2]}
  <2>1. s[2] \in Videos
    BY <1>5, VideoOperands
  <2>2. hidden \in SUBSET Videos /\ \A w \in Videos \ {s[2]} : w \in hidden <=> w \in d.hidden
    BY <1>1, <2>1
  <2>3. e = IF Exists(d, s[2]) THEN Reindexed([d EXCEPT !.hidden = hidden], {s[2]}) ELSE d
    BY <1>5 DEF Written, Hidden
  <2> HIDE DEF hidden
  <2> QED
    BY <1>5, <2>1, <2>2, <2>3, HiddenSound
<1>6. CASE s[1] = "show"
  <2> DEFINE hidden == d.hidden \ {s[2]}
  <2>1. s[2] \in Videos
    BY <1>6, VideoOperands
  <2>2. hidden \in SUBSET Videos /\ \A w \in Videos \ {s[2]} : w \in hidden <=> w \in d.hidden
    BY <1>1, <2>1
  <2>3. e = Reindexed([d EXCEPT !.hidden = hidden], {s[2]})
    BY <1>6 DEF Written, Shown
  <2> HIDE DEF hidden
  <2> QED
    BY <1>6, <2>1, <2>2, <2>3, HiddenSound
<1>7. CASE s[1] = "remove"
  <2>1. s[2] \in Videos /\ e = Removed(d, s[2])
    BY <1>7, VideoOperands DEF Written
  <2> QED
    BY <1>7, <2>1, RemovedSound
<1>8. CASE s[1] = "insertnamed"
  <2>1. s[2] \in Named /\ e = [d EXCEPT !.named[s[2]] = "live"]
    BY <1>8, NamedOperands DEF Written
  <2> QED
    BY <1>8, <2>1, NamedSound
<1>9. CASE s[1] = "hidenamed"
  <2>1. s[2] \in Named /\ e = [d EXCEPT !.named[s[2]] = "hidden"]
    BY <1>9, NamedOperands DEF Written
  <2> QED
    BY <1>9, <2>1, NamedSound
<1>10. CASE s[1] = "link"
  <2> DEFINE members == d.members \cup {<<s[2], s[3]>>}
  <2>1. s[2] \in Videos /\ s[3] \in Named
    BY <1>10, NamedOperands
  <2>2. Exists(d, s[2]) /\ d.named[s[3]] # "none"
    <3>1. Handlers = {"sql", "raw"} /\ s[4] \in Handlers
      <4>1. s[4] \in Handlers
        BY <1>10 DEF Statement, VideoStatements, NamedStatements, TagStatements, Plain, Markers,
                     Fetch, Commit, Rollback
      <4> QED
        BY <4>1 DEF Handlers
    <3>2. s[4] # "none"
      BY <3>1
    <3> QED
      BY <1>10, <3>2 DEF Raises, Row
  <2>3. members \in SUBSET (Videos \X Named)
    BY <1>1, <2>1
  <2>4. \A m \in members : MemberLeads(d, m)
    BY <2>2 DEF MemberLeads, Sound
  <2>5. e = [d EXCEPT !.members = members]
    BY <1>10 DEF Written
  <2> HIDE DEF members
  <2> QED
    BY <1>10, <2>3, <2>4, <2>5, MembersSound
<1>11. CASE s[1] = "unlink"
  <2> DEFINE members == d.members \ {<<s[2], s[3]>>}
  <2>1. members \in SUBSET (Videos \X Named)
    BY <1>1
  <2>2. \A m \in members : MemberLeads(d, m)
    BY DEF Sound
  <2>3. e = [d EXCEPT !.members = members]
    BY <1>11 DEF Written
  <2> HIDE DEF members
  <2> QED
    BY <1>11, <2>1, <2>2, <2>3, MembersSound
<1>12. CASE s[1] = "inserttag"
  <2>1. s[2] \in Tags /\ d.tag[s[2]] = 0
    <3>1. s[2] \in Tags
      BY <1>12, TagOperands
    <3> QED
      BY <1>12, <3>1 DEF Raises
  <2>2. e = [d EXCEPT !.lastTag = @ + 1, !.tag[s[2]] = d.lastTag + 1]
    BY <1>12 DEF Written
  <2> QED
    BY <1>12, <2>1, <2>2, InsertTagSound
<1>13. CASE s[1] \in {"addtag", "importtag"}
  <2>1. s[2] \in Videos
    BY <1>13, TagOperands, VideoOperands
  <2>2. Exists(d, s[2]) /\ id # 0 /\ \E t \in Tags : d.tag[t] = id
    BY <1>13 DEF Raises
  <2>3. PICK t \in Tags : d.tag[t] = id
    BY <2>2
  <2>4. PICK link : link = <<s[2], id>>
    OBVIOUS
  <2>5. PICK f : f = Linked(d, d.links \cup {link})
    OBVIOUS
  <2>6. Sound(f) /\ link \in Videos \X (1..MaxTagId)
    BY <2>1, <2>2, <2>3, <2>4, <2>5, AddTagSound
  <2>7. f \in Tables /\ f.auto \in SUBSET (Videos \X (1..MaxTagId))
    BY <2>6 DEF Sound, Tables
  <2>8. e = [f EXCEPT !.auto = IF (s[1] = "importtag" \/ s[3] = "auto") /\ link \notin d.links
                                THEN f.auto \cup {link} ELSE f.auto]
    BY <1>13, <2>4, <2>5 DEF Written
  <2>9. PICK auto \in SUBSET (Videos \X (1..MaxTagId)) :
          auto = IF (s[1] = "importtag" \/ s[3] = "auto") /\ link \notin d.links
                 THEN f.auto \cup {link} ELSE f.auto
    BY <2>6, <2>7
  <2>10. e = [f EXCEPT !.auto = auto]
    BY <2>8, <2>9
  <2> QED
    BY <1>13, <2>6, <2>10, AutoSound
<1>14. CASE s[1] \in {"wipe", "untag", "untagid"}
  <2>1. PICK links \in SUBSET d.links : e = Linked(d, links)
    <3>1. CASE s[1] = "wipe"
      BY <3>1 DEF Written
    <3>2. CASE s[1] = "untag"
      BY <3>2 DEF Written
    <3>3. CASE s[1] = "untagid"
      BY <3>3 DEF Written
    <3> QED
      BY <1>14, <3>1, <3>2, <3>3
  <2> QED
    BY <1>14, <2>1, UnlinkedSound
<1>15. CASE s[1] = "deletetag"
  <2>1. s[2] \in Tags /\ e = TagRemoved(d, s[2])
    BY <1>15, TagOperands DEF Written
  <2> QED
    BY <1>15, <2>1, TagRemovedSound
<1>16. CASE s[1] \notin {"insert", "status", "history", "hide", "show", "remove", "insertnamed",
                         "hidenamed", "link", "unlink", "inserttag", "addtag", "importtag",
                         "wipe", "untag", "untagid", "deletetag"}
  <2>1. e = d
    BY <1>16 DEF Written
  <2> QED
    BY <1>16, <2>1
<1> QED
  BY <1>2, <1>3, <1>4, <1>5, <1>6, <1>7, <1>8, <1>9, <1>10, <1>11, <1>12, <1>13, <1>14, <1>15, <1>16

\* The libraries that calls begin with are in order.
LEMMA FilledSound ==
  ASSUME NEW b \in Beginnings
  PROVE  Sound(Filled(b))
<1>1. /\ b.videos \subseteq Videos /\ b.tagged \subseteq b.videos
      /\ b.tag \in Tags /\ b.auto \in BOOLEAN /\ b.named \in [Named -> {"none", "live", "hidden"}]
      /\ IsFiniteSet(Videos) /\ MaxTagId \in Nat \ {0}
      /\ "none" \notin Statuses /\ "discovered" \in Statuses
  BY LibraryAssumption
<1> DEFINE d == Filled(b)
           first == [v \in Videos |-> IF v \in b.videos THEN "discovered" ELSE "none"]
           rows == [Empty EXCEPT !.status = first, !.told = first, !.born = b.videos,
                                 !.indexed = b.videos, !.named = b.named]
           links == b.tagged \X {1}
           full == [rows EXCEPT !.lastTag = 1, !.tag[b.tag] = 1, !.usage[b.tag] = Cardinality(b.tagged),
                                !.links = links, !.auto = IF b.auto THEN links ELSE {},
                                !.words = b.tagged \X {b.tag}]
<1>2. d = IF b.tagged = {} THEN rows ELSE full
  BY DEF Filled
<1>3. first \in [Videos -> Statuses \cup {"none"}]
  BY <1>1
<1>4. IsFiniteSet(b.tagged) /\ Cardinality(b.tagged) \in Nat
  BY <1>1, FS_Subset, FS_CardinalityType
<1>5. /\ rows.status = first /\ rows.told = first /\ rows.born = b.videos /\ rows.hidden = {}
      /\ rows.tag = [t \in Tags |-> 0] /\ rows.lastTag = 0 /\ rows.usage = [t \in Tags |-> 0]
      /\ rows.links = {} /\ rows.auto = {} /\ rows.indexed = b.videos /\ rows.words = {}
      /\ rows.named = b.named /\ rows.members = {}
  BY DEF Empty
<1>6. rows \in Tables
  <2>1. Empty \in Tables
    <3>1. 0 \in 0..MaxTagId /\ 0 \in Nat
      BY <1>1
    <3> QED
      BY <3>1 DEF Empty, Tables
  <2> HIDE DEF first
  <2> QED
    BY <1>1, <1>3, <2>1 DEF Tables
<1>7. \A v \in Videos : v \in b.videos <=> first[v] # "none"
  OBVIOUS
<1> HIDE DEF rows, first
<1>8. CASE b.tagged = {}
  <2>1. TagIds(rows) /\ UsageCounts(rows)
    BY <1>5 DEF TagIds, UsageCounts
  <2>2. \A v \in Videos : IndexAgrees(rows, v)
    BY <1>5, <1>7 DEF IndexAgrees, Visible, Exists, WordsOf
  <2>3. /\ \A l \in rows.links : LinkLeads(rows, l)
        /\ \A m \in rows.members : MemberLeads(rows, m)
    BY <1>5
  <2> QED
    BY <1>2, <1>6, <1>8, <2>1, <2>2, <2>3 DEF Sound
<1>9. CASE b.tagged # {}
  <2>1. links \in SUBSET (Videos \X (1..MaxTagId)) /\ b.tagged \X {b.tag} \in SUBSET (Videos \X Tags)
    BY <1>1
  <2>2. /\ full.tag = [rows.tag EXCEPT ![b.tag] = 1]
        /\ full.usage = [rows.usage EXCEPT ![b.tag] = Cardinality(b.tagged)]
        /\ full.links = links /\ full.words = b.tagged \X {b.tag} /\ full.lastTag = 1
        /\ full.status = first /\ full.hidden = {} /\ full.indexed = b.videos /\ full.members = {}
        /\ full.named = b.named
    BY <1>5, <1>6 DEF Tables
  <2>3. full \in Tables
    <3>1. PICK auto \in SUBSET (Videos \X (1..MaxTagId)) : auto = IF b.auto THEN links ELSE {}
      BY <2>1
    <3>2. /\ full.tag \in [Tags -> 0..MaxTagId] /\ full.usage \in [Tags -> Nat]
          /\ full.lastTag \in 0..MaxTagId
      BY <1>1, <1>4, <1>5, <2>2
    <3>3. full = [rows EXCEPT !.lastTag = 1, !.tag = full.tag, !.usage = full.usage,
                    !.links = links, !.auto = auto, !.words = full.words]
      BY <1>6, <2>2, <3>1 DEF Tables
    <3>4. full.words \in SUBSET (Videos \X Tags) /\ 1 \in 0..MaxTagId
      BY <1>1, <2>1, <2>2
    <3> HIDE DEF full, links
    <3> QED
      BY <1>6, <2>1, <3>1, <3>2, <3>3, <3>4, ZenonT(40) DEF Tables
  <2> HIDE DEF full
  <2>4. \A t \in Tags : /\ full.tag[t] = IF t = b.tag THEN 1 ELSE 0
                        /\ full.usage[t] = IF t = b.tag THEN Cardinality(b.tagged) ELSE 0
    BY <1>5, <2>2
  <2>5. TagIds(full)
    BY <1>1, <2>2, <2>4 DEF TagIds
  <2>6. UsageCounts(full)
    <3>1. LinksOf(full.links, 1) = b.tagged \X {1}
      BY <2>2 DEF LinksOf
    <3>2. Cardinality(b.tagged \X {1}) = Cardinality(b.tagged)
      <4>1. IsFiniteSet({1}) /\ Cardinality({1}) = 1
        BY FS_Singleton
      <4>2. Cardinality(b.tagged \X {1}) = Cardinality(b.tagged) * Cardinality({1})
        BY <1>4, <4>1, FS_Product
      <4> QED
        BY <1>4, <4>1, <4>2
    <3> QED
      BY <2>4, <3>1, <3>2 DEF UsageCounts
  <2>7. \A l \in full.links : LinkLeads(full, l)
    BY <1>1, <1>7, <2>2, <2>4 DEF LinkLeads, Exists
  <2>8. ASSUME NEW v \in Videos
        PROVE  IndexAgrees(full, v)
    <3>1. Visible(full, v) <=> v \in b.videos
      BY <1>7, <2>2 DEF Visible, Exists
    <3>2. ASSUME NEW t \in Tags
          PROVE  t \in WordsOf(full, v) <=> v \in b.tagged /\ t = b.tag
      BY <2>2, <2>4 DEF WordsOf
    <3> QED
      BY <1>1, <2>2, <3>1, <3>2 DEF IndexAgrees
  <2>9. \A m \in full.members : MemberLeads(full, m)
    BY <2>2
  <2> QED
    BY <1>2, <1>9, <2>3, <2>5, <2>6, <2>7, <2>8, <2>9 DEF Sound
<1> QED
  BY <1>8, <1>9

-----------------------------------------------------------------------------
(* Lists *)

\* A non-empty set of natural numbers has a least element.
LEMMA LeastExists ==
  ASSUME NEW S \in SUBSET Nat, S # {}
  PROVE  /\ \E x \in S : \A y \in S : x <= y
         /\ Min(S) \in S
<1> DEFINE R == OpToRel(<, Nat)
<1>1. IsWellFoundedOn(R, Nat)
  BY NatLessThanWellFounded
<1>2. ASSUME NEW x \in Nat, NEW y \in Nat, ~(<<y, x>> \in R)
      PROVE  x <= y
  BY <1>2 DEF OpToRel
<1> HIDE DEF R
<1>3. PICK x \in S : \A y \in S : ~(<<y, x>> \in R)
  BY <1>1, WFMin
<1>4. \A y \in S : x <= y
  <2>1. ASSUME NEW y \in S
        PROVE  x <= y
    <3>1. x \in Nat /\ y \in Nat /\ ~(<<y, x>> \in R)
      BY <1>3
    <3> QED
      BY <1>2, <3>1
  <2> QED
    BY <2>1
<1>5. Min(S) \in S
  BY <1>4 DEF Min
<1> QED
  BY <1>4, <1>5

\* A finite set as a list.
LEMMA ListOfSet ==
  ASSUME NEW S, IsFiniteSet(S)
  PROVE  SetToSeq(S) \in Seq(S)
<1>1. Cardinality(S) \in Nat /\ ExistsBijection(1..Cardinality(S), S)
  BY FS_CardinalityType
<1>2. \E f \in [1..Cardinality(S) -> S] : IsInjective(f)
  BY <1>1 DEF ExistsBijection, Bijection, Injection, IsInjective
<1>3. SetToSeq(S) \in [1..Cardinality(S) -> S]
  BY <1>2 DEF SetToSeq
<1> QED
  BY <1>1, <1>3

\* Lists of statements joined are one.
LEMMA FlattenType ==
  ASSUME NEW S, NEW seqs \in Seq(Seq(S))
  PROVE  FlattenSeq(seqs) \in Seq(S)
<1> DEFINE Joins(f) == f = [i \in 1..Len(seqs) |-> IF i = 1 THEN seqs[i] ELSE f[i-1] \o seqs[i]]
           flatten == CHOOSE f : Joins(f)
           Upto(n, g) == \A i \in 1..n : g[i] = IF i = 1 THEN seqs[i] ELSE g[i-1] \o seqs[i]
           bad == {n \in 0..Len(seqs) : ~\E g \in [1..n -> Seq(S)] : Upto(n, g)}
<1>1. Len(seqs) \in Nat /\ \A i \in 1..Len(seqs) : seqs[i] \in Seq(S)
  OBVIOUS
<1>2. bad = {}
  <2> SUFFICES ASSUME bad # {} PROVE FALSE
    OBVIOUS
  <2>1. PICK m \in bad : \A n \in bad : m <= n
    <3>1. bad \in SUBSET Nat
      BY <1>1
    <3> QED
      BY <3>1, LeastExists
  <2>2. m \in 0..Len(seqs) /\ ~\E g \in [1..m -> Seq(S)] : Upto(m, g)
    BY <2>1
  <2>3. m # 0
    <3>1. [i \in 1..0 |-> << >>] \in [1..0 -> Seq(S)] /\ Upto(0, [i \in 1..0 |-> << >>])
      OBVIOUS
    <3> QED
      BY <2>2, <3>1
  <2>4. m-1 \in 0..Len(seqs) /\ m-1 \notin bad
    <3>1. m \in Nat /\ m-1 \in 0..Len(seqs) /\ m-1 < m
      BY <1>1, <2>2, <2>3
    <3> HIDE DEF bad
    <3> QED
      BY <2>1, <3>1
  <2>5. PICK g \in [1..(m-1) -> Seq(S)] : Upto(m-1, g)
    BY <2>4
  <2> DEFINE last == IF m = 1 THEN seqs[1] ELSE g[m-1] \o seqs[m]
             h == [i \in 1..m |-> IF i = m THEN last ELSE g[i]]
  <2>6. m \in 1..Len(seqs) /\ last \in Seq(S)
    <3>1. m \in 1..Len(seqs) /\ seqs[m] \in Seq(S)
      BY <1>1, <2>2, <2>3
    <3>2. m # 1 => g[m-1] \in Seq(S)
      BY <1>1, <2>2, <2>3
    <3> QED
      BY <3>1, <3>2
  <2>7. h \in [1..m -> Seq(S)]
    <3> HIDE DEF last
    <3> QED
      BY <1>1, <2>6
  <2>8. Upto(m, h)
    <3> SUFFICES ASSUME NEW i \in 1..m
                 PROVE  h[i] = IF i = 1 THEN seqs[i] ELSE h[i-1] \o seqs[i]
      OBVIOUS
    <3>1. CASE i = m
      BY <1>1, <2>6, <3>1
    <3>2. CASE i # m
      <4>1. i \in 1..(m-1) /\ (i # 1 => i-1 \in 1..(m-1))
        BY <1>1, <2>6, <3>2
      <4> HIDE DEF last
      <4>2. h[i] = g[i]
        BY <3>2
      <4>3. i # 1 => h[i-1] = g[i-1]
        BY <4>1
      <4>4. g[i] = IF i = 1 THEN seqs[i] ELSE g[i-1] \o seqs[i]
        BY <2>5, <4>1
      <4> HIDE DEF h
      <4> QED
        BY <4>2, <4>3, <4>4
    <3> QED
      BY <3>1, <3>2
  <2> QED
    BY <2>2, <2>7, <2>8
<1>3. PICK g \in [1..Len(seqs) -> Seq(S)] : Upto(Len(seqs), g)
  <2>1. Len(seqs) \in 0..Len(seqs)
    BY <1>1
  <2>2. Len(seqs) \notin bad
    <3> HIDE DEF bad
    <3> QED
      BY <1>2
  <2> HIDE DEF Upto
  <2> QED
    BY <2>1, <2>2
<1>4. Joins(g)
  <2>1. g = [i \in 1..Len(seqs) |-> g[i]]
    BY <1>3
  <2> QED
    BY <1>3, <2>1
<1>5. Joins(flatten)
  <2> HIDE DEF Joins
  <2> QED
    BY <1>4
<1>6. FlattenSeq(seqs) = IF Len(seqs) = 0 THEN seqs ELSE flatten[Len(seqs)]
  BY DEF FlattenSeq
<1> HIDE DEF flatten
\* What the function that joins the lists gives is never anything else.
<1>7. \A i \in 1..Len(seqs) : flatten[i] \in Seq(S)
  <2> DEFINE wrong == {i \in 1..Len(seqs) : flatten[i] \notin Seq(S)}
  <2> SUFFICES ASSUME wrong # {} PROVE FALSE
    OBVIOUS
  <2>1. PICK m \in wrong : \A n \in wrong : m <= n
    <3>1. wrong \in SUBSET Nat
      BY <1>1
    <3> QED
      BY <3>1, LeastExists
  <2>2. m \in 1..Len(seqs) /\ flatten[m] \notin Seq(S)
    BY <2>1
  <2>3. flatten[m] = IF m = 1 THEN seqs[m] ELSE flatten[m-1] \o seqs[m]
    BY <1>5, <2>2
  <2>4. m # 1 => flatten[m-1] \in Seq(S)
    <3>1. m # 1 => m-1 \in 1..Len(seqs) /\ m-1 < m /\ m \in Nat
      BY <1>1, <2>2
    <3>2. m # 1 => m-1 \notin wrong
      <4> HIDE DEF wrong
      <4> QED
        BY <2>1, <3>1
    <3> QED
      BY <3>1, <3>2
  <2>5. seqs[m] \in Seq(S)
    BY <1>1, <2>2
  <2> HIDE DEF wrong
  <2> QED
    BY <2>2, <2>3, <2>4, <2>5
<1>8. CASE Len(seqs) = 0
  BY <1>6, <1>8
<1>9. CASE Len(seqs) # 0
  <2>1. Len(seqs) \in 1..Len(seqs)
    BY <1>1, <1>9
  <2> QED
    BY <1>6, <1>7, <1>9, <2>1
<1> QED
  BY <1>8, <1>9

\* What is left of a program, after its next markers or after an exception, is
\* one.
LEMMA RestType ==
  ASSUME NEW program \in Seq(Statement)
  PROVE  Rest(program) \in Seq(Statement)
<1> DEFINE I == {i \in 1..Len(program) : program[i][1] # "except"}
           n == IF I # {} THEN Min(I) ELSE 0
<1>1. n = SelectInSeq(program, LAMBDA s : s[1] # "except")
  BY DEF SelectInSeq
<1>2. Rest(program) = IF n = 0 THEN <<>> ELSE SubSeq(program, n, Len(program))
  BY <1>1 DEF Rest
<1>3. I # {} => Min(I) \in I
  <2>1. I \in SUBSET Nat
    OBVIOUS
  <2> QED
    BY <2>1, LeastExists
<1>4. n = 0 \/ n \in 1..Len(program)
  BY <1>3
<1> HIDE DEF n
<1> QED
  BY <1>2, <1>4

LEMMA UnwoundType ==
  ASSUME NEW program \in Seq(Statement), NEW kind
  PROVE  Unwound(program, kind) \in Seq(Statement)
<1> DEFINE I == {i \in 1..Len(program) : program[i][1] = "except" /\ kind \in program[i][2]}
           n == IF I # {} THEN Min(I) ELSE 0
           left == program[n][3] \o SubSeq(program, n + 1, Len(program))
<1>1. n = SelectInSeq(program, LAMBDA s : s[1] = "except" /\ kind \in s[2])
  BY DEF SelectInSeq
<1>2. Unwound(program, kind) = IF n = 0 THEN <<>> ELSE Rest(left)
  BY <1>1 DEF Unwound
<1>3. I # {} => Min(I) \in I
  <2>1. I \in SUBSET Nat
    OBVIOUS
  <2> QED
    BY <2>1, LeastExists
<1>4. n = 0 \/ (n \in 1..Len(program) /\ program[n][1] = "except")
  BY <1>3
<1> HIDE DEF n
<1>5. ASSUME n # 0
      PROVE  left \in Seq(Statement)
  <2>1. n \in 1..Len(program) /\ program[n] \in Statement /\ program[n][1] = "except"
    BY <1>4, <1>5
  <2>2. program[n][3] \in Seq(Statement)
    BY <2>1, TagOperands
  <2>3. SubSeq(program, n + 1, Len(program)) \in Seq(Statement)
    BY <2>1
  <2> QED
    BY <2>2, <2>3
<1> HIDE DEF left
<1> QED
  BY <1>2, <1>5, RestType

-----------------------------------------------------------------------------
(* Programs *)

Programme == Seq(Statement) \ {<<>>}

\* Lists of statements that are joined to one.
LEMMA Joined ==
  ASSUME NEW a \in Seq(Statement), NEW b \in Seq(Statement)
  PROVE  /\ a \o b \in Seq(Statement)
         /\ a # <<>> \/ b # <<>> => a \o b # <<>>
OBVIOUS

\* One statement alone, by its kind.
LEMMA VideoStatement ==
  ASSUME NEW v \in Videos
  PROVE  /\ \A what \in {"get", "getany", "insert", "edit", "hide", "show", "remove", "wipe",
                         "untag", "importtag", "export"} : <<what, v>> \in Statement
         /\ \A what \in {"getstatus", "status"}, s \in Statuses, m \in Methods :
              <<what, v, s, m>> \in Statement
         /\ \A s \in Statuses : <<"history", v, s>> \in Statement
BY DEF Statement, VideoStatements

LEMMA NamedStatement ==
  ASSUME NEW n \in Named
  PROVE  /\ \A what \in {"find", "insertnamed", "updatenamed"}, h \in Handlers :
              <<what, n, h>> \in Statement
         /\ <<"getnamed", n>> \in Statement /\ <<"hidenamed", n>> \in Statement
         /\ \A v \in Videos : /\ \A h \in Handlers : <<"link", v, n, h>> \in Statement
                              /\ <<"unlink", v, n>> \in Statement
BY DEF Statement, NamedStatements

LEMMA TagStatement ==
  /\ \A what \in {"findtag", "inserttag", "deletetag"}, t \in Tags : <<what, t>> \in Statement
  /\ \A t \in Tags, f \in BOOLEAN : <<"gettag", t, f>> \in Statement
  /\ \A v \in Videos, source \in {"manual", "auto"} : <<"addtag", v, source>> \in Statement
  /\ \A v \in Videos, id \in Nat : <<"untagid", v, id>> \in Statement
  /\ \A v \in Videos, ts \in SUBSET Tags : <<"findauto", v, ts>> \in Statement
BY DEF Statement, TagStatements

LEMMA PlainStatement ==
  /\ Fetch \in Statement /\ Commit \in Statement /\ <<"begin">> \in Statement
  /\ Rollback("query") \in Statement /\ Rollback("transaction") \in Statement
  /\ \A kinds \in SUBSET {"missing", "query", "sql", "busy", "raw"} :
       /\ Except(kinds, <<>>) \in Statement
       /\ Except(kinds, <<Rollback("query")>>) \in Statement
       /\ Except(kinds, <<Rollback("transaction")>>) \in Statement
<1>1. /\ Fetch \in Statement /\ Commit \in Statement /\ <<"begin">> \in Statement
      /\ Rollback("query") \in Statement /\ Rollback("transaction") \in Statement
  BY DEF Statement, Plain
<1>2. ASSUME NEW kinds \in SUBSET {"missing", "query", "sql", "busy", "raw"},
             NEW then \in {<<>>, <<Rollback("query")>>, <<Rollback("transaction")>>}
      PROVE  Except(kinds, then) \in Statement
  BY DEF Statement, Markers, Except
<1> QED
  BY <1>1, <1>2

LEMMA Literals ==
  /\ <<>> \in Seq(Statement)
  /\ \A x \in Statement : <<x>> \in Programme
  /\ \A x, y \in Statement : <<x, y>> \in Programme
  /\ \A x, y, z \in Statement : <<x, y, z>> \in Programme
BY DEF Programme

\* Two programs, one after the other.
LEMMA Sequel ==
  ASSUME NEW a, NEW b,
         \/ a \in Programme /\ b \in Seq(Statement)
         \/ a \in Seq(Statement) /\ b \in Programme
  PROVE  a \o b \in Programme
BY Joined DEF Programme

LEMMA SequelType ==
  /\ Programme \subseteq Seq(Statement)
  /\ \A a, b \in Seq(Statement) : a \o b \in Seq(Statement)
BY DEF Programme

LEMMA GuardedType ==
  ASSUME NEW body \in Seq(Statement)
  PROVE  Guarded(body) \in Programme
<1>1. <<Except({"sql"}, <<Rollback("query")>>)>> \in Programme
  BY PlainStatement, Literals
<1> QED
  BY <1>1, Sequel DEF Guarded

\* Each method of the repository is a program.
LEMMA VideoProgrammes ==
  ASSUME NEW v \in Videos
  PROVE  /\ CreateVideo(v) \in Programme /\ EditVideo(v) \in Programme
         /\ DeleteVideo(v) \in Programme /\ HardDeleteVideo(v) \in Programme
         /\ RestoreVideo(v) \in Programme
         /\ Get(v) \in Programme /\ Export(v) \in Programme /\ Untag(v) \in Programme
         /\ \A replace \in BOOLEAN : Wiped(v, replace) \in Seq(Statement)
         /\ \A s \in Statuses : /\ History(v, s) \in Programme
                                /\ UpdateVideo(v, s) \in Programme /\ UpdateStatus(v, s) \in Programme
<1>1. /\ <<"get", v>> \in Statement /\ <<"getany", v>> \in Statement /\ <<"insert", v>> \in Statement
      /\ <<"edit", v>> \in Statement /\ <<"hide", v>> \in Statement /\ <<"show", v>> \in Statement
      /\ <<"remove", v>> \in Statement /\ <<"wipe", v>> \in Statement /\ <<"untag", v>> \in Statement
      /\ <<"export", v>> \in Statement
  BY VideoStatement
<1>2. Commit \in Statement
  BY PlainStatement
<1>3. Get(v) \in Programme /\ GetAny(v) \in Programme /\ Export(v) \in Programme /\ Untag(v) \in Programme
  BY <1>1, <1>2, Literals DEF Get, GetAny, Export, Untag
<1>4. \A s \in Statuses : History(v, s) \in Programme
  BY <1>2, VideoStatement, Literals DEF History
<1>5. CreateVideo(v) \in Programme
  <2>1. "discovered" \in Statuses
    BY LibraryAssumption
  <2>2. <<<<"insert", v>>, Commit>> \in Programme /\ History(v, "discovered") \in Programme
    BY <1>1, <1>2, <1>4, <2>1, Literals
  <2>3. <<<<"insert", v>>, Commit>> \o History(v, "discovered") \in Seq(Statement)
    BY <2>2, SequelType
  <2> QED
    BY <2>3, GuardedType DEF CreateVideo
<1>6. ASSUME NEW what \in {"hide"}
      PROVE  Guarded(Get(v) \o <<<<what, v>>, Commit>>) \in Programme
  <2>1. <<<<what, v>>, Commit>> \in Programme
    BY <1>1, <1>2, Literals
  <2>2. Get(v) \o <<<<what, v>>, Commit>> \in Seq(Statement)
    BY <1>3, <2>1, SequelType
  <2> QED
    BY <2>2, GuardedType
<1>7. ASSUME NEW what \in {"edit", "remove", "show"}
      PROVE  Guarded(GetAny(v) \o <<<<what, v>>, Commit>>) \in Programme
  <2>1. <<<<what, v>>, Commit>> \in Programme
    BY <1>1, <1>2, Literals
  <2>2. GetAny(v) \o <<<<what, v>>, Commit>> \in Seq(Statement)
    BY <1>3, <2>1, SequelType
  <2> QED
    BY <2>2, GuardedType
<1>8. /\ EditVideo(v) \in Programme /\ DeleteVideo(v) \in Programme
      /\ HardDeleteVideo(v) \in Programme /\ RestoreVideo(v) \in Programme
  BY <1>6, <1>7 DEF EditVideo, DeleteVideo, HardDeleteVideo, RestoreVideo
<1>9. ASSUME NEW s \in Statuses, NEW m \in Methods
      PROVE  Guarded(<<<<"getstatus", v, s, m>>>>) \in Programme
  <2>1. <<<<"getstatus", v, s, m>>>> \in Seq(Statement)
    BY VideoStatement, Literals, SequelType
  <2> QED
    BY <2>1, GuardedType
<1>10. \A s \in Statuses : UpdateVideo(v, s) \in Programme /\ UpdateStatus(v, s) \in Programme
  BY <1>9 DEF UpdateVideo, UpdateStatus, Methods
<1>11. \A replace \in BOOLEAN : Wiped(v, replace) \in Seq(Statement)
  BY <1>1, Literals, SequelType DEF Wiped
<1> QED
  BY <1>3, <1>4, <1>5, <1>8, <1>10, <1>11

LEMMA NamedProgrammes ==
  ASSUME NEW n \in Named
  PROVE  /\ UpsertNamed(n) \in Programme /\ HideNamed(n) \in Programme
         /\ \A v \in Videos : LinkNamed(v, n) \in Programme /\ UnlinkNamed(v, n) \in Programme
<1>1. Commit \in Statement
  BY PlainStatement
<1>2. "sql" \in Handlers /\ "raw" \in Handlers
  BY DEF Handlers
<1>3. HideNamed(n) \in Programme
  BY <1>1, NamedStatement, Literals DEF HideNamed
<1>4. UpsertNamed(n) \in Programme
  <2>1. <<<<"find", n, "sql">>>> \in Programme /\ <<<<"find", n, "raw">>>> \in Programme
    BY <1>2, NamedStatement, Literals
  <2>2. Guarded(<<<<"find", n, "sql">>>>) \in Programme
    BY <2>1, SequelType, GuardedType
  <2> QED
    BY <2>1, <2>2 DEF UpsertNamed
<1>5. ASSUME NEW v \in Videos
      PROVE  LinkNamed(v, n) \in Programme /\ UnlinkNamed(v, n) \in Programme
  <2>1. <<<<"link", v, n, "sql">>, Commit>> \in Programme /\ <<<<"link", v, n, "raw">>, Commit>> \in Programme
    BY <1>1, <1>2, NamedStatement, Literals
  <2>2. Guarded(<<<<"link", v, n, "sql">>, Commit>>) \in Programme
    BY <2>1, SequelType, GuardedType
  <2>3. <<<<"unlink", v, n>>, Commit>> \in Programme
    BY <1>1, NamedStatement, Literals
  <2> QED
    BY <2>1, <2>2, <2>3 DEF LinkNamed, UnlinkNamed
<1> QED
  BY <1>3, <1>4, <1>5

LEMMA TagProgrammes ==
  ASSUME NEW v \in Videos, NEW t \in Tags
  PROVE  /\ UpsertTag(t) \in Programme
         /\ \A source \in {"manual", "auto"} : TagOn(v, t, source) \in Programme
         /\ RemoveVideoTag(v, t) \in Programme
         /\ \A force \in BOOLEAN : DeleteTag(t, force) \in Programme
<1>1. Commit \in Statement
  BY PlainStatement
<1>2. UpsertTag(t) \in Programme
  BY TagStatement, Literals DEF UpsertTag
<1>3. ASSUME NEW source \in {"manual", "auto"}
      PROVE  TagOn(v, t, source) \in Programme
  <2>1. AddTag(v, source) \in Programme
    BY <1>1, TagStatement, Literals DEF AddTag
  <2> QED
    BY <1>2, <2>1, Sequel, SequelType DEF TagOn
<1>4. RemoveVideoTag(v, t) \in Programme
  <2>1. <<<<"gettag", t, TRUE>>>> \in Programme
    BY TagStatement, Literals
  <2>2. Get(v) \in Programme /\ Untag(v) \in Programme /\ Export(v) \in Programme
    BY VideoProgrammes
  <2>3. Get(v) \o <<<<"gettag", t, TRUE>>>> \o Untag(v) \in Seq(Statement)
    BY <2>1, <2>2, SequelType
  <2> QED
    BY <2>2, <2>3, Sequel DEF RemoveVideoTag
<1>5. \A force \in BOOLEAN : DeleteTag(t, force) \in Programme
  BY <1>1, TagStatement, Literals DEF DeleteTag
<1> QED
  BY <1>2, <1>3, <1>4, <1>5

\* Tags one after the other.
LEMMA SetVideoTagsType ==
  ASSUME NEW v \in Videos, NEW ts \in Seq(Tags), NEW replace \in BOOLEAN
  PROVE  SetVideoTags(v, ts, replace) \in Programme
<1>1. [i \in 1..Len(ts) |-> TagOn(v, ts[i], "manual")] \in Seq(Seq(Statement))
  <2>1. \A i \in 1..Len(ts) : TagOn(v, ts[i], "manual") \in Seq(Statement)
    BY TagProgrammes, SequelType
  <2> QED
    BY <2>1
<1>2. FlattenSeq([i \in 1..Len(ts) |-> TagOn(v, ts[i], "manual")]) \in Seq(Statement)
  BY <1>1, FlattenType
<1>3. Get(v) \in Programme /\ Export(v) \in Programme /\ Wiped(v, replace) \in Seq(Statement)
  BY VideoProgrammes
<1>4. SetTags(v, ts, replace) \in Seq(Statement)
  BY <1>2, <1>3, SequelType DEF SetTags
<1>5. Get(v) \o SetTags(v, ts, replace) \in Seq(Statement)
  BY <1>3, <1>4, SequelType
<1> QED
  BY <1>3, <1>5, Sequel DEF SetVideoTags

\* transaction(), and the loops of the bulk methods inside it.
LEMMA InTransactionType ==
  ASSUME NEW body \in Seq(Statement)
  PROVE  InTransaction(body) \in Programme
<1>1. <<<<"begin">>>> \in Programme
  BY PlainStatement, Literals
<1>2. <<Commit, Except({"missing", "query", "sql", "busy", "raw"}, <<Rollback("transaction")>>)>> \in Programme
  BY PlainStatement, Literals
<1>3. <<<<"begin">>>> \o body \in Seq(Statement)
  BY <1>1, SequelType
<1> QED
  BY <1>2, <1>3, Sequel DEF InTransaction

LEMMA EachType ==
  ASSUME NEW vs \in Seq(Videos), NEW body, \A v \in Videos : body[v] \in Seq(Statement)
  PROVE  Each(vs, body) \in Seq(Statement)
<1>1. <<Except({"missing", "query"}, <<>>)>> \in Seq(Statement)
  BY PlainStatement, Literals, SequelType
<1> DEFINE parts == [i \in 1..Len(vs) |-> body[vs[i]] \o <<Except({"missing", "query"}, <<>>)>>]
<1>2. \A i \in 1..Len(vs) : body[vs[i]] \o <<Except({"missing", "query"}, <<>>)>> \in Seq(Statement)
  <2>1. \A i \in 1..Len(vs) : body[vs[i]] \in Seq(Statement)
    OBVIOUS
  <2> QED
    BY <1>1, <2>1, SequelType
<1>3. parts \in Seq(Seq(Statement))
  BY <1>2
<1> HIDE DEF parts
<1>4. FlattenSeq(parts) \in Seq(Statement)
  BY <1>3, FlattenType
<1> QED
  BY <1>4 DEF Each, parts

\* A bulk method goes through the videos in one transaction.
LEMMA BulkType ==
  ASSUME NEW vs \in Seq(Videos), NEW body, \A v \in Videos : body[v] \in Seq(Statement)
  PROVE  InTransaction(Each(vs, body)) \in Programme
BY EachType, InTransactionType

LEMMA BulkProgrammes ==
  ASSUME NEW vs \in Seq(Videos)
  PROVE  /\ \A s \in Statuses : BulkUpdateStatus(vs, s) \in Programme
         /\ BulkOrganizeVideos(vs) \in Programme /\ BulkAddToCollection(vs) \in Programme
         /\ \A hard \in BOOLEAN : BulkDeleteVideos(vs, hard) \in Programme
         /\ \A t \in Tags, replace \in BOOLEAN : ApplyTags(vs, t, replace) \in Programme
<1>1. ASSUME NEW s \in Statuses
      PROVE  BulkUpdateStatus(vs, s) \in Programme
  <2> DEFINE body == [v \in Videos |-> UpdateStatus(v, s)]
  <2>1. \A v \in Videos : body[v] \in Seq(Statement)
    BY VideoProgrammes, SequelType
  <2> HIDE DEF body
  <2>2. InTransaction(Each(vs, body)) \in Programme
    BY <2>1, BulkType
  <2> QED
    BY <2>2 DEF BulkUpdateStatus, body
<1>2. BulkOrganizeVideos(vs) \in Programme
  <2> DEFINE body == [v \in Videos |-> EditVideo(v)]
  <2>1. \A v \in Videos : body[v] \in Seq(Statement)
    BY VideoProgrammes, SequelType
  <2> HIDE DEF body
  <2>2. InTransaction(Each(vs, body)) \in Programme
    BY <2>1, BulkType
  <2> QED
    BY <2>2 DEF BulkOrganizeVideos, body
<1>3. ASSUME NEW hard \in BOOLEAN
      PROVE  BulkDeleteVideos(vs, hard) \in Programme
  <2> DEFINE body == [v \in Videos |-> IF hard THEN HardDeleteVideo(v) ELSE DeleteVideo(v)]
  <2>1. \A v \in Videos : body[v] \in Seq(Statement)
    BY VideoProgrammes, SequelType
  <2> HIDE DEF body
  <2>2. InTransaction(Each(vs, body)) \in Programme
    BY <2>1, BulkType
  <2> QED
    BY <2>2 DEF BulkDeleteVideos, body
<1>4. BulkAddToCollection(vs) \in Programme
  <2> DEFINE body == [v \in Videos |-> LinkNamed(v, "collection")]
  <2>1. "collection" \in Named
    BY DEF Named
  <2>2. \A v \in Videos : body[v] \in Seq(Statement)
    BY <2>1, NamedProgrammes, SequelType
  <2>3. <<<<"getnamed", "collection">>>> \in Programme
    BY <2>1, NamedStatement, Literals
  <2> HIDE DEF body
  <2>4. InTransaction(Each(vs, body)) \in Programme
    BY <2>2, BulkType
  <2>5. <<<<"getnamed", "collection">>>> \o InTransaction(Each(vs, body)) \in Programme
    BY <2>3, <2>4, Sequel, SequelType
  <2> QED
    BY <2>5 DEF BulkAddToCollection, body
<1>5. ASSUME NEW t \in Tags, NEW replace \in BOOLEAN
      PROVE  ApplyTags(vs, t, replace) \in Programme
  <2> DEFINE body == [v \in Videos |-> Get(v) \o Wiped(v, replace) \o <<<<"addtag", v, "manual">>>>]
             exports == [i \in 1..Len(vs) |-> Export(vs[i])]
  <2>1. ASSUME NEW v \in Videos
        PROVE  body[v] \in Seq(Statement)
    <3>1. Get(v) \in Seq(Statement) /\ Wiped(v, replace) \in Seq(Statement)
      BY VideoProgrammes, SequelType
    <3>2. <<<<"addtag", v, "manual">>>> \in Seq(Statement)
      BY TagStatement, Literals, SequelType
    <3>3. Get(v) \o Wiped(v, replace) \o <<<<"addtag", v, "manual">>>> \in Seq(Statement)
      BY <3>1, <3>2, SequelType
    <3> QED
      BY <3>3
  <2>2. UpsertTag(t) \in Seq(Statement)
    BY TagStatement, Literals, SequelType DEF UpsertTag
  <2>3. exports \in Seq(Seq(Statement))
    <3>1. \A i \in 1..Len(vs) : Export(vs[i]) \in Seq(Statement)
      BY VideoProgrammes, SequelType
    <3> QED
      BY <3>1
  <2> HIDE DEF body, exports
  <2>4. InTransaction(Each(vs, body)) \in Programme
    BY <2>1, BulkType
  <2>5. UpsertTag(t) \o InTransaction(Each(vs, body)) \in Programme
    BY <2>2, <2>4, Sequel
  <2>6. FlattenSeq(exports) \in Seq(Statement)
    BY <2>3, FlattenType
  <2>7. (UpsertTag(t) \o InTransaction(Each(vs, body))) \o FlattenSeq(exports) \in Programme
    BY <2>5, <2>6, Sequel
  <2> QED
    BY <2>7 DEF ApplyTags, BulkApplyTags, ExportSelective, body, exports
<1> QED
  BY <1>1, <1>2, <1>3, <1>4, <1>5

LEMMA DecadeProgrammes ==
  ASSUME NEW v \in Videos, NEW old \in Tags, NEW new \in Tags
  PROVE  /\ UpdateDecadeTag(v, old, new) \in Programme
         /\ \A mode : SyncDecadeTags(v, new, mode) \in Programme
         /\ ImportTag(v, new) \in Programme
<1>1. TagOn(v, new, "auto") \in Programme
  BY TagProgrammes
<1>2. \A ts \in SUBSET Tags : <<<<"findauto", v, ts>>>> \in Programme
  BY TagStatement, Literals
<1>3. Export(v) \in Programme
  BY VideoProgrammes
<1>4. UpdateDecadeTag(v, old, new) \in Programme
  <2>1. <<<<"findauto", v, {old}>>>> \o TagOn(v, new, "auto") \in Seq(Statement)
    <3>1. {old} \in SUBSET Tags
      OBVIOUS
    <3> QED
      BY <1>1, <1>2, <3>1, SequelType
  <2>2. InTransaction(<<<<"findauto", v, {old}>>>> \o TagOn(v, new, "auto")) \in Programme
    BY <2>1, InTransactionType
  <2> QED
    BY <1>3, <2>2, Sequel, SequelType DEF UpdateDecadeTag
<1>5. ASSUME NEW mode
      PROVE  SyncDecadeTags(v, new, mode) \in Programme
  <2>1. PICK a \in Seq(Statement) : a = IF mode # "apply" THEN <<<<"findauto", v, Tags>>>> ELSE <<>>
    <3>1. Tags \in SUBSET Tags
      OBVIOUS
    <3> QED
      BY <1>2, <3>1, Literals, SequelType
  <2>2. PICK b \in Seq(Statement) : b = IF mode # "remove" THEN TagOn(v, new, "auto") ELSE <<>>
    BY <1>1, Literals, SequelType
  <2>3. <<Except({"raw"}, <<>>)>> \in Programme
    BY PlainStatement, Literals
  <2>4. a \o b \o Export(v) \in Seq(Statement)
    BY <1>3, SequelType
  <2>5. a \o b \o Export(v) \o <<Except({"raw"}, <<>>)>> \in Programme
    BY <2>3, <2>4, Sequel
  <2> QED
    BY <2>1, <2>2, <2>5 DEF SyncDecadeTags
<1>6. ImportTag(v, new) \in Programme
  <2>1. UpsertTag(new) \in Seq(Statement)
    BY TagProgrammes, SequelType
  <2>2. <<<<"importtag", v>>, Commit>> \in Programme
    BY VideoStatement, PlainStatement, Literals
  <2> QED
    BY <2>1, <2>2, Sequel DEF ImportTag
<1> QED
  BY <1>4, <1>5, <1>6

\* What callers start with is a program with something to do.
LEMMA ProgramType ==
  ASSUME NEW service \in Services, NEW program \in Programs(service)
  PROVE  program \in Programme
<1>1. service \in {"videos", "named", "tags", "untag", "bulk", "decades"}
  BY LibraryAssumption
<1>2. Both \in Seq(Videos)
  BY ListOfSet, LibraryAssumption DEF Both
<1>3. CASE service = "videos"
  <2>1. program \in VideoCalls
    BY <1>3 DEF Programs
  <2>2. CASE program \in {CreateVideo(v) : v \in Videos \ db.born}
    BY <2>2, VideoProgrammes
  <2>3. CASE program \in {UpdateVideo(v, s) : v \in Videos, s \in Statuses}
                         \cup {UpdateStatus(v, s) : v \in Videos, s \in Statuses}
    BY <2>3, VideoProgrammes
  <2>4. CASE program \in {EditVideo(v) : v \in Videos} \cup {DeleteVideo(v) : v \in Videos}
                         \cup {RestoreVideo(v) : v \in Videos} \cup {HardDeleteVideo(v) : v \in Videos}
    BY <2>4, VideoProgrammes
  <2> QED
    BY <2>1, <2>2, <2>3, <2>4 DEF VideoCalls
<1>4. CASE service = "named"
  <2>1. program \in NamedCalls("artist") \cup NamedCalls("collection")
    BY <1>4 DEF Programs, ArtistCalls, CollectionCalls
  <2>2. \A n \in Named : NamedCalls(n) \subseteq Programme
    BY NamedProgrammes DEF NamedCalls
  <2> QED
    BY <2>1, <2>2 DEF Named
<1>5. CASE service = "tags"
  <2>1. program \in TagCalls
    BY <1>5 DEF Programs
  <2>2. \A t \in Tags : <<t>> \in Seq(Tags)
    OBVIOUS
  <2>3. CASE program \in {SetVideoTags(v, <<t>>, r) : v \in Videos, t \in Tags, r \in BOOLEAN}
    <3>1. PICK v \in Videos, t \in Tags, r \in BOOLEAN : program = SetVideoTags(v, <<t>>, r)
      BY <2>3
    <3>2. <<t>> \in Seq(Tags)
      BY <2>2
    <3>3. SetVideoTags(v, <<t>>, r) \in Programme
      BY <3>2, SetVideoTagsType
    <3> QED
      BY <3>1, <3>3
  <2>4. CASE program \in {RemoveVideoTag(v, t) : v \in Videos, t \in Tags}
    BY <2>4, TagProgrammes
  <2>5. CASE program \in {DeleteTag(t, f) : t \in Tags, f \in BOOLEAN}
    BY <2>5, TagStatement, PlainStatement, Literals DEF DeleteTag
  <2> QED
    BY <2>1, <2>3, <2>4, <2>5 DEF TagCalls
<1>6. CASE service = "untag"
  <2>1. program \in UntagCalls
    BY <1>6 DEF Programs
  <2>2. <<>> \in Seq(Tags) /\ TRUE \in BOOLEAN
    OBVIOUS
  <2> QED
    BY <2>1, <2>2, SetVideoTagsType DEF UntagCalls
<1>7. CASE service = "bulk"
  <2>1. program \in BulkCalls
    BY <1>7 DEF Programs
  <2> QED
    BY <1>2, <2>1, BulkProgrammes DEF BulkCalls
<1>8. CASE service = "decades"
  <2>1. program \in DecadeCalls
    BY <1>8 DEF Programs
  <2>2. \A v \in Videos, o \in Tags, n \in Tags : UpdateDecadeTag(v, o, n) \in Programme
    BY DecadeProgrammes
  <2>3. \A v \in Videos, n \in Tags : \A mode : SyncDecadeTags(v, n, mode) \in Programme
    BY DecadeProgrammes
  <2>4. \A v \in Videos, n \in Tags : ImportTag(v, n) \in Programme
    BY DecadeProgrammes
  <2> QED
    BY <2>1, <2>2, <2>3, <2>4 DEF DecadeCalls
<1> QED
  BY <1>1, <1>3, <1>4, <1>5, <1>6, <1>7, <1>8

\* The statements that a read puts in front.
LEMMA ThenType ==
  ASSUME NEW d \in Tables, NEW s \in Statement
  PROVE  Then(d, s) \in Seq(Statement)
<1>1. <<Fetch>> \in Seq(Statement) /\ <<>> \in Seq(Statement)
  BY PlainStatement, Literals, SequelType
<1>2. CASE s[1] \in {"get", "getany", "getnamed", "gettag"}
  BY <1>1, <1>2 DEF Then
<1>3. CASE s[1] = "getstatus"
  <2>1. s[2] \in Videos /\ s[3] \in Statuses /\ s[4] \in Methods
    BY <1>3, VideoOperands
  <2>2. <<"status", s[2], s[3], s[4]>> \in Statement /\ Commit \in Statement
    BY <2>1, VideoStatement, PlainStatement
  <2>3. History(s[2], s[3]) \in Seq(Statement)
    BY <2>1, VideoProgrammes, SequelType
  <2>4. /\ <<<<"status", s[2], s[3], s[4]>>>> \in Seq(Statement)
        /\ <<<<"status", s[2], s[3], s[4]>>, Commit>> \in Seq(Statement)
        /\ <<Commit>> \in Seq(Statement)
    BY <2>2, Literals, SequelType
  <2>5. PICK last \in Seq(Statement) : last = IF s[4] = "update_video" THEN <<Commit>> ELSE <<>>
    BY <1>1, <2>4
  <2>6. <<<<"status", s[2], s[3], s[4]>>>> \o History(s[2], s[3]) \o last \in Seq(Statement)
    BY <2>3, <2>4, SequelType
  <2>7. \A old : ThenStatus(old, s[2], s[3], s[4]) \in Seq(Statement)
    BY <1>1, <2>4, <2>5, <2>6 DEF ThenStatus
  <2>8. <<Fetch>> \o ThenStatus(d.status[s[2]], s[2], s[3], s[4]) \in Seq(Statement)
    BY <1>1, <2>7, SequelType
  <2> QED
    BY <1>3, <2>8 DEF Then
<1>4. CASE s[1] = "find"
  <2>1. s[2] \in Named /\ s[3] \in Handlers
    BY <1>4, NamedOperands
  <2>2. PICK what \in {"insertnamed", "updatenamed"} :
          what = IF Row(d, s[2]) = "live" THEN "updatenamed" ELSE "insertnamed"
    OBVIOUS
  <2>3. <<what, s[2], s[3]>> \in Statement /\ Fetch \in Statement /\ Commit \in Statement
    BY <2>1, NamedStatement, PlainStatement
  <2>4. <<Fetch, <<what, s[2], s[3]>>, Commit>> \in Seq(Statement)
    BY <2>3, Literals, SequelType
  <2>5. <<Fetch, <<IF Row(d, s[2]) = "live" THEN "updatenamed" ELSE "insertnamed", s[2], s[3]>>, Commit>>
          \in Seq(Statement)
    BY <2>2, <2>4
  <2> QED
    BY <1>4, <2>5 DEF Then
<1>5. CASE s[1] = "findtag"
  <2>1. s[2] \in Tags
    BY <1>5, TagOperands
  <2>2. <<<<"inserttag", s[2]>>, Commit>> \in Seq(Statement)
    BY <2>1, TagStatement, PlainStatement, Literals, SequelType
  <2>3. CASE d.tag[s[2]] = 0
    <3>1. Then(d, s) = <<Fetch>> \o <<<<"inserttag", s[2]>>, Commit>>
      BY <1>5, <2>3 DEF Then
    <3> QED
      BY <1>1, <2>2, <3>1, SequelType
  <2>4. CASE d.tag[s[2]] # 0
    <3>1. Then(d, s) = <<Fetch>> \o <<>>
      BY <1>5, <2>4 DEF Then
    <3> QED
      BY <1>1, <3>1, SequelType
  <2> QED
    BY <2>3, <2>4
<1>6. CASE s[1] = "findauto"
  <2> DEFINE found == {d.tag[t] : t \in {u \in s[3] : <<s[2], d.tag[u]>> \in d.auto}}
             ids == SetToSeq(found)
             removals == [i \in 1..Len(ids) |-> <<<<"untagid", s[2], ids[i]>>, Commit>>]
  <2>1. s[2] \in Videos /\ s[3] \in SUBSET Tags
    BY <1>6, TagOperands
  <2>2. found \in SUBSET (0..MaxTagId) /\ MaxTagId \in Nat
    <3>1. MaxTagId \in Nat /\ d.tag \in [Tags -> 0..MaxTagId]
      BY LibraryAssumption DEF Tables
    <3>2. \A t \in s[3] : d.tag[t] \in 0..MaxTagId
      BY <2>1, <3>1
    <3> QED
      BY <3>1, <3>2
  <2>3. IsFiniteSet(found)
    <3>1. IsFiniteSet(0..MaxTagId)
      BY <2>2, FS_Interval
    <3> HIDE DEF found
    <3> QED
      BY <2>2, <3>1, FS_Subset
  <2> HIDE DEF found
  <2>4. ids \in Seq(found)
    BY <2>3, ListOfSet
  <2> HIDE DEF ids
  <2>5. Len(ids) \in Nat /\ \A i \in 1..Len(ids) : ids[i] \in Nat
    <3>1. found \subseteq Nat
      BY <2>2
    <3>2. Len(ids) \in Nat /\ \A i \in 1..Len(ids) : ids[i] \in found
      BY <2>4
    <3> QED
      BY <3>1, <3>2
  <2>6. \A i \in 1..Len(ids) : <<<<"untagid", s[2], ids[i]>>, Commit>> \in Seq(Statement)
    BY <2>1, <2>5, TagStatement, PlainStatement, Literals, SequelType
  <2>7. removals \in Seq(Seq(Statement))
    BY <2>5, <2>6
  <2> HIDE DEF removals
  <2>8. <<Fetch>> \o FlattenSeq(removals) \in Seq(Statement)
    BY <1>1, <2>7, FlattenType, SequelType
  <2> QED
    BY <1>6, <2>8 DEF Then, found, ids, removals
<1>7. CASE s[1] \notin {"get", "getany", "getnamed", "gettag", "getstatus", "find", "findtag", "findauto"}
  BY <1>1, <1>7 DEF Then
<1> QED
  BY <1>2, <1>3, <1>4, <1>5, <1>6, <1>7

-----------------------------------------------------------------------------
(* The inductive invariant *)

\* Calls with statements left wait for the connection, once each.
InLine ==
  /\ todo \in [Callers -> Seq(Statement)]
  /\ line \in Seq(Callers)
  /\ \A i, j \in DOMAIN line : line[i] = line[j] => i = j
  /\ \A p \in Callers : todo[p] # <<>> <=> \E i \in DOMAIN line : line[i] = p

Stored ==
  /\ Sound(db) /\ Sound(disk)
  /\ open \in BOOLEAN /\ (db # disk => open)

Noted ==
  /\ nfo \in [Videos -> SUBSET Tags]
  /\ seen \in [Callers -> 0..MaxTagId]
  /\ calls \in 0..MaxCalls /\ faults \in 0..MaxFaults
  /\ upset \in BOOLEAN /\ untold \subseteq Videos /\ reverted \subseteq Videos

LibraryIInv == Stored /\ Noted /\ InLine

\* Who is in the line once is counted once.
LEMMA LineCounts ==
  ASSUME InLine, NEW p \in Callers
  PROVE  Cardinality({i \in DOMAIN line : line[i] = p}) = IF todo[p] = <<>> THEN 0 ELSE 1
<1> DEFINE places == {i \in DOMAIN line : line[i] = p}
<1>1. CASE todo[p] = <<>>
  <2>1. places = {}
    BY <1>1 DEF InLine
  <2> QED
    BY <1>1, <2>1, FS_EmptySet
<1>2. CASE todo[p] # <<>>
  <2>1. PICK i \in DOMAIN line : line[i] = p
    BY <1>2 DEF InLine
  <2>2. places = {i}
    BY <2>1 DEF InLine
  <2>3. Cardinality({i}) = 1
    BY FS_Singleton
  <2> QED
    BY <1>2, <2>2, <2>3
<1> QED
  BY <1>1, <1>2

LEMMA LibraryIInvImpliesInv ==
  ASSUME LibraryIInv
  PROVE  Inv
<1>1. TablesAgree
  BY SoundAgrees DEF LibraryIInv, Stored, TablesAgree
<1>2. db \in Tables /\ disk \in Tables
  BY DEF LibraryIInv, Stored, Sound
<1>3. \A p \in Callers :
        Cardinality({i \in DOMAIN line : line[i] = p}) = IF todo[p] = <<>> THEN 0 ELSE 1
  BY LineCounts DEF LibraryIInv
<1>4. TypeOK
  BY <1>2, <1>3 DEF LibraryIInv, Stored, Noted, TypeOK
<1> QED
  BY <1>1, <1>4 DEF Inv

LEMMA LibraryInit ==
  ASSUME Init
  PROVE  LibraryIInv
<1>1. Sound(db) /\ Sound(disk)
  <2>1. PICK b \in Beginnings : db = Filled(b)
    BY DEF Init
  <2> QED
    BY <2>1, FilledSound DEF Init
<1>2. Stored
  BY <1>1 DEF Init, Stored
<1>3. Noted
  <2>1. \A v \in Videos : WordsOf(db, v) \in SUBSET Tags
    BY DEF WordsOf
  <2>2. 0 \in 0..MaxTagId /\ 0 \in 0..MaxCalls /\ 0 \in 0..MaxFaults
    BY LibraryAssumption
  <2> QED
    BY <2>1, <2>2 DEF Init, Noted
<1>4. InLine
  BY DEF Init, InLine
<1> QED
  BY <1>2, <1>3, <1>4 DEF LibraryIInv

-----------------------------------------------------------------------------
(* Steps *)

\* Whose turn it is has a statement to make.
LEMMA TurnType ==
  ASSUME InLine, NEW p \in Callers, Turn(p)
  PROVE  /\ Next1(p) \in Statement /\ Tail(todo[p]) \in Seq(Statement)
         /\ line # <<>> /\ Head(line) = p /\ line[1] = p
<1>1. line # <<>> /\ Head(line) = p /\ line \in Seq(Callers)
  BY DEF Turn, InLine
<1>2. 1 \in DOMAIN line /\ line[1] = p
  BY <1>1
<1>3. todo[p] # <<>> /\ todo[p] \in Seq(Statement)
  BY <1>2 DEF InLine
<1> QED
  BY <1>1, <1>2, <1>3 DEF Next1

\* It leaves the line, or joins it again at the end.
LEMMA AdvanceKeeps ==
  ASSUME InLine, NEW p \in Callers, Turn(p), NEW program \in Seq(Statement), Advance(p, program)
  PROVE  InLine'
<1>1. line # <<>> /\ line \in Seq(Callers) /\ line[1] = p
  BY TurnType DEF InLine
<1>2. todo' = [todo EXCEPT ![p] = program] /\ todo' \in [Callers -> Seq(Statement)]
  BY DEF InLine, Advance
<1>3. /\ Tail(line) \in Seq(Callers) /\ Len(Tail(line)) = Len(line) - 1
      /\ Len(line) \in Nat \ {0}
      /\ \A i \in 1..(Len(line) - 1) : Tail(line)[i] = line[i + 1]
  BY <1>1
<1>4. \A i \in DOMAIN line : line[i] = p => i = 1
  BY <1>1, <1>3 DEF InLine
<1>5. CASE program = <<>>
  <2>1. line' = Tail(line)
    BY <1>5 DEF Advance
  <2>2. line' \in Seq(Callers) /\ \A i, j \in DOMAIN line' : line'[i] = line'[j] => i = j
    BY <1>3, <2>1, SMTT(30) DEF InLine
  <2>3. ASSUME NEW q \in Callers
        PROVE  todo'[q] # <<>> <=> \E i \in DOMAIN line' : line'[i] = q
    <3>1. CASE q = p
      BY <1>1, <1>2, <1>3, <1>4, <1>5, <2>1, <3>1 DEF InLine
    <3>2. CASE q # p
      <4>1. todo'[q] = todo[q]
        BY <1>2, <3>2 DEF InLine
      <4>2. (\E i \in DOMAIN line' : line'[i] = q) <=> \E i \in DOMAIN line : line[i] = q
        <5>1. ASSUME NEW i \in DOMAIN line, line[i] = q
              PROVE  \E j \in DOMAIN line' : line'[j] = q
          <6>1. i # 1 /\ i \in 1..Len(line)
            BY <1>1, <3>2, <5>1
          <6>2. i - 1 \in DOMAIN line' /\ line'[i - 1] = q
            BY <1>3, <2>1, <5>1, <6>1
          <6> QED
            BY <6>2
        <5>2. ASSUME NEW i \in DOMAIN line', line'[i] = q
              PROVE  \E j \in DOMAIN line : line[j] = q
          <6>1. i + 1 \in DOMAIN line /\ line[i + 1] = q
            BY <1>1, <1>3, <2>1, <5>2
          <6> QED
            BY <6>1
        <5> QED
          BY <5>1, <5>2
      <4> QED
        BY <4>1, <4>2 DEF InLine
    <3> QED
      BY <3>1, <3>2
  <2> QED
    BY <1>2, <2>2, <2>3 DEF InLine
<1>6. CASE program # <<>>
  <2>1. line' = Append(Tail(line), p)
    BY <1>6 DEF Advance
  <2>2. /\ line' \in Seq(Callers) /\ Len(line') = Len(line)
        /\ DOMAIN line' = 1..Len(line) /\ line'[Len(line)] = p
        /\ \A i \in 1..(Len(line) - 1) : line'[i] = line[i + 1]
    BY <1>1, <1>3, <2>1
  <2>3. ASSUME NEW i \in DOMAIN line', NEW j \in DOMAIN line', line'[i] = line'[j]
        PROVE  i = j
    <3>1. CASE i # Len(line) /\ j # Len(line)
      <4>1. i + 1 \in DOMAIN line /\ j + 1 \in DOMAIN line /\ line[i + 1] = line[j + 1]
        BY <1>1, <1>3, <2>2, <2>3, <3>1
      <4>2. i + 1 = j + 1
        BY <4>1 DEF InLine
      <4> QED
        BY <1>3, <2>2, <4>2
    <3>2. CASE i = Len(line) /\ j # Len(line)
      <4>1. j + 1 \in DOMAIN line /\ line[j + 1] = p /\ j + 1 # 1
        BY <1>1, <1>3, <2>2, <2>3, <3>2
      <4> QED
        BY <1>4, <4>1
    <3>3. CASE i # Len(line) /\ j = Len(line)
      <4>1. i + 1 \in DOMAIN line /\ line[i + 1] = p /\ i + 1 # 1
        BY <1>1, <1>3, <2>2, <2>3, <3>3
      <4> QED
        BY <1>4, <4>1
    <3> QED
      BY <3>1, <3>2, <3>3
  <2>4. ASSUME NEW q \in Callers
        PROVE  todo'[q] # <<>> <=> \E i \in DOMAIN line' : line'[i] = q
    <3>1. CASE q = p
      <4>1. todo'[q] # <<>>
        BY <1>2, <1>6, <3>1 DEF InLine
      <4>2. Len(line) \in DOMAIN line' /\ line'[Len(line)] = q
        BY <1>3, <2>2, <3>1
      <4> QED
        BY <4>1, <4>2
    <3>2. CASE q # p
      <4>1. todo'[q] = todo[q]
        BY <1>2, <3>2 DEF InLine
      <4>2. ASSUME NEW i \in DOMAIN line, line[i] = q
            PROVE  \E j \in DOMAIN line' : line'[j] = q
        <5>1. i # 1 /\ i \in 1..Len(line)
          BY <1>1, <3>2, <4>2
        <5>2. i - 1 \in DOMAIN line' /\ line'[i - 1] = q
          BY <1>3, <2>2, <4>2, <5>1
        <5> QED
          BY <5>2
      <4>3. ASSUME NEW i \in DOMAIN line', line'[i] = q
            PROVE  \E j \in DOMAIN line : line[j] = q
        <5>1. i \in 1..(Len(line) - 1)
          BY <1>3, <2>2, <3>2, <4>3
        <5>2. i + 1 \in DOMAIN line /\ line[i + 1] = q
          BY <1>1, <1>3, <2>2, <4>3, <5>1
        <5> QED
          BY <5>2
      <4> QED
        BY <4>1, <4>2, <4>3 DEF InLine
    <3> QED
      BY <3>1, <3>2
  <2> QED
    BY <1>2, <2>2, <2>3, <2>4 DEF InLine
<1> QED
  BY <1>5, <1>6

\* Tables that a step leaves alone.
LEMMA StoredAsBefore ==
  ASSUME Stored, db' = db, disk' = disk, open' = open
  PROVE  Stored'
BY DEF Stored, Sound, Tables, TagIds, UsageCounts, LinkLeads, MemberLeads, IndexAgrees, Visible,
       Exists, WordsOf

LEMMA CallStep ==
  ASSUME LibraryIInv, NEW p \in Callers, Call(p)
  PROVE  LibraryIInv'
<1>1. PICK program \in Programme : todo' = [todo EXCEPT ![p] = program]
  BY ProgramType DEF Call
<1>2. todo[p] = <<>> /\ line' = Append(line, p) /\ line \in Seq(Callers)
  BY DEF Call, LibraryIInv, InLine
<1>3. /\ line' \in Seq(Callers) /\ Len(line) \in Nat
      /\ DOMAIN line' = 1..(Len(line) + 1) /\ line'[Len(line) + 1] = p
      /\ \A i \in 1..Len(line) : line'[i] = line[i]
  BY <1>2
<1>4. \A i \in 1..Len(line) : line[i] # p
  BY <1>2 DEF LibraryIInv, InLine
<1>5. InLine'
  <2>1. todo' \in [Callers -> Seq(Statement)]
    BY <1>1, SequelType DEF LibraryIInv, InLine
  <2>2. \A i, j \in DOMAIN line' : line'[i] = line'[j] => i = j
    BY <1>2, <1>3, <1>4 DEF LibraryIInv, InLine
  <2>3. ASSUME NEW q \in Callers
        PROVE  todo'[q] # <<>> <=> \E i \in DOMAIN line' : line'[i] = q
    <3>1. CASE q = p
      <4>1. todo'[q] # <<>>
        BY <1>1, <3>1 DEF LibraryIInv, InLine, Programme
      <4>2. Len(line) + 1 \in DOMAIN line' /\ line'[Len(line) + 1] = q
        BY <1>3, <3>1
      <4> QED
        BY <4>1, <4>2
    <3>2. CASE q # p
      <4>1. todo'[q] = todo[q]
        BY <1>1, <3>2 DEF LibraryIInv, InLine
      <4>2. (\E i \in DOMAIN line' : line'[i] = q) <=> \E i \in DOMAIN line : line[i] = q
        BY <1>2, <1>3, <3>2
      <4> QED
        BY <4>1, <4>2 DEF LibraryIInv, InLine
    <3> QED
      BY <3>1, <3>2
  <2> QED
    BY <1>3, <2>1, <2>2, <2>3 DEF InLine
<1>6. Stored'
  BY StoredAsBefore DEF Call, LibraryIInv
<1>7. Noted'
  <2>1. calls + 1 \in 0..MaxCalls /\ 0 \in 0..MaxTagId
    BY LibraryAssumption DEF Call, LibraryIInv, Noted
  <2> QED
    BY <2>1 DEF Call, LibraryIInv, Noted
<1> QED
  BY <1>5, <1>6, <1>7 DEF LibraryIInv

\* A rollback or a crash leaves what is on disk.
LEMMA StoredOnDisk ==
  ASSUME Stored, db' = disk, disk' = disk, open' = FALSE
  PROVE  Stored'
<1>1. Sound(disk)
  BY DEF Stored
<1>2. Sound(disk)'
  BY <1>1 DEF Sound, Tables, TagIds, UsageCounts, LinkLeads, MemberLeads, IndexAgrees, Visible,
              Exists, WordsOf
<1>3. Sound(db)'
  BY <1>1 DEF Sound, Tables, TagIds, UsageCounts, LinkLeads, MemberLeads, IndexAgrees, Visible,
              Exists, WordsOf
<1> QED
  BY <1>2, <1>3 DEF Stored

LEMMA NotedAsBefore ==
  ASSUME Noted, UNCHANGED <<nfo, seen, calls, faults, upset, untold, reverted>>
  PROVE  Noted'
BY DEF Noted

LEMMA ReadStep ==
  ASSUME LibraryIInv, NEW p \in Callers, Read(p)
  PROVE  LibraryIInv'
<1> DEFINE s == Next1(p)
<1>1. Turn(p) /\ InLine /\ Stored /\ Noted
  BY DEF Read, LibraryIInv
<1>2. s \in Statement /\ Tail(todo[p]) \in Seq(Statement)
  BY <1>1, TurnType
<1>3. Rest(Then(db, s) \o Tail(todo[p])) \in Seq(Statement)
  <2>1. Then(db, s) \in Seq(Statement)
    BY <1>1, <1>2, ThenType DEF Stored, Sound
  <2>2. Then(db, s) \o Tail(todo[p]) \in Seq(Statement)
    BY <1>2, <2>1, SequelType
  <2> QED
    BY <2>2, RestType
<1>4. Advance(p, Rest(Then(db, s) \o Tail(todo[p])))
  BY DEF Read
<1>5. InLine'
  BY <1>1, <1>3, <1>4, AdvanceKeeps
<1>6. Stored'
  BY <1>1, StoredAsBefore DEF Read
<1>7. seen' \in [Callers -> 0..MaxTagId]
  <2>1. s[1] \in {"findtag", "gettag"} => db.tag[s[2]] \in 0..MaxTagId
    <3>1. db.tag \in [Tags -> 0..MaxTagId]
      BY <1>1 DEF Stored, Sound, Tables
    <3>2. s[1] \in {"findtag", "gettag"} => s[2] \in Tags
      BY <1>2, TagOperands
    <3> QED
      BY <3>1, <3>2
  <2>2. seen' = [seen EXCEPT ![p] = IF s[1] \in {"findtag", "gettag"} THEN db.tag[s[2]] ELSE seen[p]]
    BY DEF Read
  <2> HIDE DEF s
  <2> QED
    BY <1>1, <2>1, <2>2 DEF Noted
<1>8. Noted'
  BY <1>1, <1>7 DEF Noted, Read
<1> QED
  BY <1>5, <1>6, <1>8 DEF LibraryIInv

LEMMA WriteStep ==
  ASSUME LibraryIInv, NEW p \in Callers, Write(p)
  PROVE  LibraryIInv'
<1> DEFINE s == Next1(p)
<1>1. Turn(p) /\ InLine /\ Stored /\ Noted
  BY DEF Write, LibraryIInv
<1>2. s \in Statement /\ Tail(todo[p]) \in Seq(Statement)
  BY <1>1, TurnType
<1>3. PICK id \in Nat : id = seen[p]
  BY <1>1 DEF Noted
<1>4. /\ Raises(db, s, id) = "none" /\ (s[1] = "inserttag" => db.lastTag < MaxTagId)
      /\ db' = Written(db, s, id)
  BY <1>3 DEF Write
<1>5. Sound(db') /\ (s[1] = "inserttag" => db'.lastTag \in 0..MaxTagId)
  <2> HIDE DEF s
  <2>1. Sound(db)
    BY <1>1 DEF Stored
  <2> QED
    BY <1>2, <1>4, <2>1, WrittenSound
<1>6. InLine'
  <2>1. Rest(Tail(todo[p])) \in Seq(Statement)
    BY <1>2, RestType
  <2>2. Advance(p, Rest(Tail(todo[p])))
    BY DEF Write
  <2> QED
    BY <1>1, <2>1, <2>2, AdvanceKeeps
<1>7. Stored'
  <2>1. open' = TRUE /\ disk' = disk
    BY DEF Write
  <2>2. Sound(disk)'
    BY <1>1, <2>1 DEF Stored, Sound, Tables, TagIds, UsageCounts, LinkLeads, MemberLeads, IndexAgrees,
                      Visible, Exists, WordsOf
  <2>3. Sound(db)'
    BY <1>5 DEF Sound, Tables, TagIds, UsageCounts, LinkLeads, MemberLeads, IndexAgrees, Visible,
                Exists, WordsOf
  <2> QED
    BY <2>1, <2>2, <2>3 DEF Stored
<1>8. seen' \in [Callers -> 0..MaxTagId]
  <2>1. seen' = [seen EXCEPT ![p] = IF s[1] = "inserttag" THEN db'.lastTag ELSE seen[p]]
    BY DEF Write
  <2> HIDE DEF s
  <2> QED
    BY <1>1, <1>5, <2>1 DEF Noted
<1>9. untold' \subseteq Videos /\ reverted' \subseteq Videos
  <2>1. s[1] \in {"show", "importtag", "status"} => s[2] \in Videos
    BY <1>2, VideoOperands
  <2>2. \/ untold' = untold \cup Videos \/ untold' = untold
        \/ s[1] \in {"show", "importtag"} /\ untold' = untold \cup {s[2]}
    BY DEF Write
  <2>3. (s[1] = "status" /\ reverted' = reverted \cup {s[2]}) \/ reverted' = reverted
    BY DEF Write
  <2> HIDE DEF s
  <2> QED
    BY <1>1, <2>1, <2>2, <2>3 DEF Noted
<1>10. Noted'
  BY <1>1, <1>8, <1>9 DEF Noted, Write
<1> QED
  BY <1>6, <1>7, <1>10 DEF LibraryIInv

\* The statements on the transaction itself, and those that raise.
LEMMA BeginStep ==
  ASSUME LibraryIInv, NEW p \in Callers, Begin(p)
  PROVE  LibraryIInv'
<1>1. Turn(p) /\ InLine /\ Stored /\ Noted
  BY DEF Begin, LibraryIInv
<1>2. InLine'
  <2>1. Rest(Tail(todo[p])) \in Seq(Statement)
    BY <1>1, TurnType, RestType
  <2>2. Advance(p, Rest(Tail(todo[p])))
    BY DEF Begin
  <2> QED
    BY <1>1, <2>1, <2>2, AdvanceKeeps
<1>3. Stored'
  BY <1>1 DEF Begin, Stored, Sound, Tables, TagIds, UsageCounts, LinkLeads, MemberLeads, IndexAgrees,
              Visible, Exists, WordsOf
<1>4. Noted'
  BY <1>1, NotedAsBefore DEF Begin
<1> QED
  BY <1>2, <1>3, <1>4 DEF LibraryIInv

LEMMA RaiseStep ==
  ASSUME LibraryIInv, NEW p \in Callers, Raise(p)
  PROVE  LibraryIInv'
<1>1. Turn(p) /\ InLine /\ Stored /\ Noted
  BY DEF Raise, LibraryIInv
<1>2. InLine'
  <2>1. Tail(todo[p]) \in Seq(Statement)
    BY <1>1, TurnType
  <2>2. PICK kind : Advance(p, Unwound(Tail(todo[p]), kind))
    BY DEF Raise
  <2>3. Unwound(Tail(todo[p]), kind) \in Seq(Statement)
    BY <2>1, UnwoundType
  <2> QED
    BY <1>1, <2>2, <2>3, AdvanceKeeps
<1>3. Stored'
  <2>1. db' = db /\ disk' = disk /\ open' = (open \/ Next1(p)[1] \in Writes)
    BY DEF Raise
  <2>2. Sound(db)' /\ Sound(disk)'
    BY <1>1, <2>1 DEF Stored, Sound, Tables, TagIds, UsageCounts, LinkLeads, MemberLeads, IndexAgrees,
                      Visible, Exists, WordsOf
  <2>3. open' \in BOOLEAN /\ (open => open')
    BY <1>1, <2>1 DEF Stored
  <2> QED
    BY <1>1, <2>1, <2>2, <2>3 DEF Stored
<1>4. Noted'
  <2>1. upset' \in BOOLEAN
    BY DEF Raise
  <2> QED
    BY <1>1, <2>1 DEF Raise, Noted
<1> QED
  BY <1>2, <1>3, <1>4 DEF LibraryIInv

LEMMA CommitStep ==
  ASSUME LibraryIInv, NEW p \in Callers, CommitAll(p)
  PROVE  LibraryIInv'
<1>1. Turn(p) /\ InLine /\ Stored /\ Noted
  BY DEF CommitAll, LibraryIInv
<1>2. InLine'
  <2>1. Rest(Tail(todo[p])) \in Seq(Statement)
    BY <1>1, TurnType, RestType
  <2>2. Advance(p, Rest(Tail(todo[p])))
    BY DEF CommitAll
  <2> QED
    BY <1>1, <2>1, <2>2, AdvanceKeeps
<1>3. Stored'
  <2>1. db' = db /\ disk' = db /\ open' = FALSE
    BY DEF CommitAll
  <2>2. Sound(db)'
    BY <1>1, <2>1 DEF Stored, Sound, Tables, TagIds, UsageCounts, LinkLeads, MemberLeads, IndexAgrees,
                      Visible, Exists, WordsOf
  <2>3. Sound(disk)'
    BY <1>1, <2>1 DEF Stored, Sound, Tables, TagIds, UsageCounts, LinkLeads, MemberLeads, IndexAgrees,
                      Visible, Exists, WordsOf
  <2> QED
    BY <2>1, <2>2, <2>3 DEF Stored
<1>4. Noted'
  BY <1>1, NotedAsBefore DEF CommitAll
<1> QED
  BY <1>2, <1>3, <1>4 DEF LibraryIInv

LEMMA RollbackStep ==
  ASSUME LibraryIInv, NEW p \in Callers, RollbackAll(p)
  PROVE  LibraryIInv'
<1>1. Turn(p) /\ InLine /\ Stored /\ Noted
  BY DEF RollbackAll, LibraryIInv
<1>2. InLine'
  <2>1. Tail(todo[p]) \in Seq(Statement)
    BY <1>1, TurnType
  <2>2. PICK kind : Advance(p, Unwound(Tail(todo[p]), kind))
    BY DEF RollbackAll
  <2>3. Unwound(Tail(todo[p]), kind) \in Seq(Statement)
    BY <2>1, UnwoundType
  <2> QED
    BY <1>1, <2>2, <2>3, AdvanceKeeps
<1>3. Stored'
  BY <1>1, StoredOnDisk DEF RollbackAll
<1>4. Noted'
  <2>1. upset' \in BOOLEAN
    BY <1>1 DEF RollbackAll, Noted
  <2> QED
    BY <1>1, <2>1 DEF RollbackAll, Noted
<1> QED
  BY <1>2, <1>3, <1>4 DEF LibraryIInv

LEMMA ExportStep ==
  ASSUME LibraryIInv, NEW p \in Callers, ExportNfo(p)
  PROVE  LibraryIInv'
<1>1. Turn(p) /\ InLine /\ Stored /\ Noted
  BY DEF ExportNfo, LibraryIInv
<1>2. InLine'
  <2>1. Rest(Tail(todo[p])) \in Seq(Statement)
    BY <1>1, TurnType, RestType
  <2>2. Advance(p, Rest(Tail(todo[p])))
    BY DEF ExportNfo
  <2> QED
    BY <1>1, <2>1, <2>2, AdvanceKeeps
<1>3. Stored'
  BY <1>1, StoredAsBefore DEF ExportNfo
<1>4. Noted'
  <2>1. \A v \in Videos : WordsOf(db, v) \in SUBSET Tags
    BY DEF WordsOf
  <2>2. \/ nfo' = nfo
        \/ nfo' = [nfo EXCEPT ![Next1(p)[2]] = WordsOf(db, Next1(p)[2])]
    BY DEF ExportNfo
  <2>3. nfo' \in [Videos -> SUBSET Tags]
    BY <1>1, <2>1, <2>2 DEF Noted
  <2> QED
    BY <1>1, <2>3 DEF ExportNfo, Noted
<1> QED
  BY <1>2, <1>3, <1>4 DEF LibraryIInv

LEMMA CancelStep ==
  ASSUME LibraryIInv, NEW p \in Callers, Cancel(p)
  PROVE  LibraryIInv'
<1>1. InLine /\ Stored /\ Noted
  BY DEF LibraryIInv
<1>2. /\ todo[p] \in Seq(Statement) /\ Len(todo[p]) > 1
      /\ todo' = [todo EXCEPT ![p] = <<Head(todo[p])>>] /\ line' = line
  BY <1>1 DEF Cancel, InLine
<1>3. todo[p] # <<>> /\ <<Head(todo[p])>> \in Seq(Statement) /\ <<Head(todo[p])>> # <<>>
  BY <1>2
<1>4. InLine'
  BY <1>1, <1>2, <1>3 DEF InLine
<1>5. Stored'
  BY <1>1, StoredAsBefore DEF Cancel
<1>6. Noted'
  <2>1. faults + 1 \in 0..MaxFaults
    BY <1>1, LibraryAssumption DEF Cancel, Noted
  <2> QED
    BY <1>1, <2>1 DEF Cancel, Noted
<1> QED
  BY <1>4, <1>5, <1>6 DEF LibraryIInv

LEMMA CrashStep ==
  ASSUME LibraryIInv, Crash
  PROVE  LibraryIInv'
<1>1. InLine /\ Stored /\ Noted
  BY DEF LibraryIInv
<1>2. InLine'
  BY DEF Crash, InLine
<1>3. Stored'
  BY <1>1, StoredOnDisk DEF Crash
<1>4. Noted'
  <2>1. faults + 1 \in 0..MaxFaults
    BY <1>1, LibraryAssumption DEF Crash, Noted
  <2> QED
    BY <1>1, <2>1 DEF Crash, Noted
<1> QED
  BY <1>2, <1>3, <1>4 DEF LibraryIInv
LEMMA ExportFailsStep ==
  ASSUME LibraryIInv, NEW p \in Callers, ExportFails(p)
  PROVE  LibraryIInv'
<1>1. Turn(p) /\ InLine /\ Stored /\ Noted
  BY DEF ExportFails, LibraryIInv
<1>2. InLine'
  <2>1. Rest(Tail(todo[p])) \in Seq(Statement)
    BY <1>1, TurnType, RestType
  <2>2. Advance(p, Rest(Tail(todo[p])))
    BY DEF ExportFails
  <2> QED
    BY <1>1, <2>1, <2>2, AdvanceKeeps
<1>3. Stored'
  BY <1>1, StoredAsBefore DEF ExportFails
<1>4. Noted'
  <2>1. Next1(p) \in Statement
    BY <1>1, TurnType
  <2>2. Next1(p)[2] \in Videos
    BY <2>1, VideoOperands DEF ExportFails
  <2>3. faults' \in 0..MaxFaults
    BY <1>1, LibraryAssumption DEF ExportFails, Noted
  <2>4. untold' \subseteq Videos
    BY <1>1, <2>2 DEF ExportFails, Noted
  <2> QED
    BY <1>1, <2>3, <2>4 DEF ExportFails, Noted
<1> QED
  BY <1>2, <1>3, <1>4 DEF LibraryIInv

LEMMA LibraryNext ==
  ASSUME LibraryIInv, [Next]_vars
  PROVE  LibraryIInv'
<1>1. CASE UNCHANGED vars
  <2>1. Stored'
    BY <1>1, StoredAsBefore DEF LibraryIInv, vars
  <2>2. Noted'
    BY <1>1, NotedAsBefore DEF LibraryIInv, vars
  <2>3. InLine'
    BY <1>1 DEF LibraryIInv, InLine, vars
  <2> QED
    BY <2>1, <2>2, <2>3 DEF LibraryIInv
<1>2. CASE Next
  BY <1>2, CallStep, ReadStep, WriteStep, BeginStep, RaiseStep, CommitStep, RollbackStep, ExportStep,
     ExportFailsStep, CancelStep, CrashStep DEF Next
<1> QED
  BY <1>1, <1>2

\* However calls interleave statement by statement on the one connection, fail,
\* roll each other back, are cancelled or die with the server: on the connection
\* and on disk, links and members lead to rows, usage counts count links, and
\* the search index has the visible videos with their tags; and calls that have
\* statements left wait for the connection, once each (repository.py,
\* connection.py and the triggers of 001_initial_schema.sql).
THEOREM LibraryInvCorrect == Spec => []Inv
<1>1. Init => LibraryIInv
  BY LibraryInit
<1>2. LibraryIInv /\ [Next]_vars => LibraryIInv'
  BY LibraryNext
<1>3. LibraryIInv => Inv
  BY LibraryIInvImpliesInv
<1> QED
  BY <1>1, <1>2, <1>3, PTL DEF Spec

-----------------------------------------------------------------------------
(* What is still to come of a program *)

\* Statements after which a program goes on, unless one of them fails with an
\* exception that nothing of it catches, which `upset` records.  The one that may
\* raise another exception is the lookup of a bulk method, whose loop goes on.
Calm == {"findtag", "findauto", "addtag", "importtag", "wipe", "fetch", "except", "inserttag", "get", "untagid",
         "untag", "commit", "export"}
Skip == Except({"missing", "query"}, <<>>)
Passes(P, i, j) ==
  \E m \in (i + 1)..(j - 1) : P[m] = Skip /\ \A l \in (i + 1)..(m - 1) : P[l][1] # "except"

\* From its k-th statement on a program reaches the statement G.
Reaches(P, k, G) ==
  \E j \in k..Len(P) :
    /\ P[j] = G
    /\ \A i \in k..(j - 1) : P[i][1] \in Calm /\ (P[i][1] = "get" => Passes(P, i, j))

\* The handler that rolls back when the i-th statement of a program fails.
Recovers == Except({"sql"}, <<Rollback("query")>>)
Handled(P, i) ==
  \E m \in (i + 1)..Len(P) : P[m] = Recovers /\ \A l \in (i + 1)..(m - 1) : P[l][1] # "except"

\* Writes that a commit of the same program follows, and those of them that an
\* export follows.
Sealed == {"insert", "hide", "show", "remove", "inserttag", "addtag", "importtag", "wipe", "untag",
           "untagid", "deletetag", "insertnamed", "hidenamed", "link", "unlink"}
Retold == {"addtag", "wipe", "untag", "untagid", "findauto"}

\* What the i-th statement of a program has after it.
Ahead(P, i) ==
  LET s == P[i] IN
  /\ s[1] \in Sealed => Reaches(P, i + 1, Commit)
  /\ s[1] \in Retold => Reaches(P, i + 1, <<"export", s[2]>>)
  /\ s[1] \in {"insert", "remove", "history"} => i + 1 \in DOMAIN P /\ P[i + 1] = Commit
  /\ s[1] = "insert" => i + 2 \in DOMAIN P /\ P[i + 2] = <<"history", s[2], "discovered">>
  /\ s[1] \in {"getstatus", "history"} => Handled(P, i)
  /\ s[1] = "status" =>
       i + 1 \in DOMAIN P /\ P[i + 1] \in {Commit, <<"history", s[2], s[3]>>}

\* What it has before it: a history row is written right after the status it
\* tells, or a commit after the row.
Behind(P, i) ==
  LET s == P[i] IN
  /\ s[1] = "status" => i = 1 \/ (i = 2 /\ P[1] = Fetch)
  /\ s[1] = "history" =>
       \/ i = 1
       \/ \E m \in Methods : P[i - 1] = <<"status", s[2], s[3], m>>
       \/ /\ P[i - 1] = Commit /\ s[3] = "discovered"
          /\ i = 2 \/ P[i - 2] = <<"insert", s[2]>>

Tidy(P) == \A i \in DOMAIN P : Ahead(P, i) /\ Behind(P, i)

\* The history row that a program is about to write, and the status that it is
\* about to write.
Tells(P, v) ==
  \/ P # <<>> /\ P[1][1] = "history" /\ P[1][2] = v
  \/ Len(P) > 1 /\ P[1] = Commit /\ P[2][1] = "history" /\ P[2][2] = v
Telling(P) == IF P[1] = Commit THEN P[2][3] ELSE P[1][3]
Sets(P, v) ==
  \/ P # <<>> /\ P[1][1] = "status" /\ P[1][2] = v
  \/ Len(P) > 1 /\ P[1] = Fetch /\ P[2][1] = "status" /\ P[2][2] = v

-----------------------------------------------------------------------------
(* Why nothing is left behind *)

\* Videos have rows after they were inserted, and history after that.
RowsKnown(d) ==
  \A v \in Videos :
    /\ Exists(d, v) => v \in d.born
    /\ ~Exists(d, v) => d.told[v] = "none"

SameVideo(d, e, v) ==
  (Exists(d, v) <=> Exists(e, v)) /\ (v \in d.hidden <=> v \in e.hidden)
SameLibrary(d, e) ==
  /\ d.tag = e.tag /\ d.links = e.links /\ d.born = e.born
  /\ \A v \in Videos : SameVideo(d, e, v)

Closing == \E p \in Callers : todo[p] # <<>> /\ todo[p][1] = Commit
Committing == \E p \in Callers : Reaches(todo[p], 1, Commit)
Ending == \E p \in Callers : todo[p] # <<>> /\ todo[p][1][1] \in {"history", "rollback"}

\* Whoever has written something commits it, or gives it up.
Owed ==
  /\ db # disk => Committing \/ Ending
  /\ ~SameLibrary(db, disk) => Committing
  /\ (\E v \in Videos : Exists(db, v) # Exists(disk, v)) => Closing

\* The last of those who are to tell of a video tells what is.
LastTells(v) ==
  \E i \in DOMAIN line :
    /\ Tells(todo[line[i]], v) /\ Telling(todo[line[i]]) = db.status[v]
    /\ \A k \in DOMAIN line : Tells(todo[line[k]], v) => k <= i
Told ==
  \A v \in Videos \ reverted :
    /\ Exists(db, v) =>
         \/ (\A p \in Callers : ~Tells(todo[p], v)) /\ db.told[v] = db.status[v]
         \/ LastTells(v)
    /\ disk.told[v] # disk.status[v] => Closing \/ \E p \in Callers : Tells(todo[p], v)

\* Who created a video tells of it before anybody sets its status.
Before(p, q) ==
  \A i, k \in DOMAIN line : line[i] = p /\ line[k] = q => i < k
FirstTold ==
  \A p \in Callers, v \in Videos :
    /\ Tells(todo[p], v) \/ Sets(todo[p], v) => v \in db.born
    /\ Tells(todo[p], v) /\ todo[p][1] = Commit =>
         \A q \in Callers \ {p} :
           ~Tells(todo[q], v) /\ (Sets(todo[q], v) => todo[q][1] = Fetch /\ Before(p, q))

\* The file of a video has its tags, or somebody writes it.
Exported ==
  /\ \A v \in Videos \ untold :
       Visible(db, v) =>
         nfo[v] = WordsOf(db, v) \/ \E p \in Callers : Reaches(todo[p], 1, <<"export", v>>)
  /\ \A v \in Videos \ db.born : nfo[v] = {}

Whole ==
  ~upset =>
    /\ \A p \in Callers : Tidy(todo[p])
    /\ RowsKnown(db) /\ RowsKnown(disk)
    /\ Owed /\ Told /\ FirstTold /\ Exported

-----------------------------------------------------------------------------
(* Parts of programs *)

\* Q is what follows the first d statements of P.
Later(P, Q, d) ==
  /\ d \in Nat /\ Len(P) = Len(Q) + d
  /\ \A i \in 1..Len(Q) : Q[i] = P[i + d]

\* What follows the first d statements of a program.
LEMMA SuffixLater ==
  ASSUME NEW P \in Seq(Statement), NEW d \in 0..Len(P), NEW Q, Q = SubSeq(P, d + 1, Len(P))
  PROVE  Q \in Seq(Statement) /\ Later(P, Q, d)
<1>1. Len(P) \in Nat /\ d \in Nat
  OBVIOUS
<1>2. Q \in Seq(Statement) /\ Len(Q) = Len(P) - d
  BY <1>1
<1>3. \A i \in 1..Len(Q) : Q[i] = P[i + d]
  BY <1>1, <1>2
<1>4. Len(P) = Len(Q) + d
  BY <1>1, <1>2
<1> QED
  BY <1>1, <1>2, <1>3, <1>4 DEF Later

\* What follows the first one.
LEMMA TailLater ==
  ASSUME NEW P \in Seq(Statement), P # <<>>
  PROVE  Tail(P) \in Seq(Statement) /\ Later(P, Tail(P), 1)
BY DEF Later

\* What a program was put in front of.
LEMMA JoinLater ==
  ASSUME NEW X \in Seq(Statement), NEW Q \in Seq(Statement)
  PROVE  /\ X \o Q \in Seq(Statement) /\ Later(X \o Q, Q, Len(X))
         /\ Len(X \o Q) = Len(X) + Len(Q)
         /\ \A i \in 1..Len(X) : (X \o Q)[i] = X[i]
BY DEF Later

\* What follows what follows.
LEMMA LaterLater ==
  ASSUME NEW P \in Seq(Statement), NEW Q \in Seq(Statement), NEW R \in Seq(Statement),
         NEW d \in Nat, NEW e \in Nat, Later(P, Q, d), Later(Q, R, e)
  PROVE  Later(P, R, d + e)
<1>1. /\ Len(P) = Len(Q) + d /\ Len(Q) = Len(R) + e
      /\ Len(P) \in Nat /\ Len(Q) \in Nat /\ Len(R) \in Nat
  BY DEF Later
<1>2. ASSUME NEW i \in 1..Len(R)
      PROVE  R[i] = P[i + (d + e)]
  <2>1. i + e \in 1..Len(Q) /\ (i + e) + d = i + (d + e)
    BY <1>1
  <2>2. R[i] = Q[i + e]
    BY DEF Later
  <2>3. Q[i + e] = P[(i + e) + d]
    BY <2>1 DEF Later
  <2> QED
    BY <2>1, <2>2, <2>3
<1>3. d + e \in Nat /\ Len(P) = Len(R) + (d + e)
  BY <1>1
<1> QED
  BY <1>2, <1>3 DEF Later

\* A statement that is reached is reached however the program is cut.
LEMMA PassesLater ==
  ASSUME NEW P \in Seq(Statement), NEW Q \in Seq(Statement), NEW d \in Nat, Later(P, Q, d),
         NEW i \in 1..Len(Q), NEW j \in 1..(Len(Q) + 1)
  PROVE  Passes(P, i + d, j + d) <=> Passes(Q, i, j)
<1>1. ASSUME Passes(Q, i, j)
      PROVE  Passes(P, i + d, j + d)
  <2>1. PICK m \in (i + 1)..(j - 1) : Q[m] = Skip /\ \A l \in (i + 1)..(m - 1) : Q[l][1] # "except"
    BY <1>1 DEF Passes
  <2>2. m + d \in (i + d + 1)..(j + d - 1) /\ m \in 1..Len(Q) /\ m \in Int
    BY <2>1
  <2>3. P[m + d] = Skip
    BY <2>1, <2>2 DEF Later
  <2>4. ASSUME NEW l \in (i + d + 1)..(m + d - 1)
        PROVE  P[l][1] # "except"
    <3>1. l - d \in (i + 1)..(m - 1) /\ l - d \in 1..Len(Q) /\ (l - d) + d = l
      BY <2>2
    <3>2. Q[l - d] = P[l]
      BY <3>1 DEF Later
    <3> QED
      BY <2>1, <3>1, <3>2
  <2> QED
    BY <2>2, <2>3, <2>4 DEF Passes
<1>2. ASSUME Passes(P, i + d, j + d)
      PROVE  Passes(Q, i, j)
  <2>1. PICK m \in (i + d + 1)..(j + d - 1) :
               P[m] = Skip /\ \A l \in (i + d + 1)..(m - 1) : P[l][1] # "except"
    BY <1>2 DEF Passes
  <2>2. m - d \in (i + 1)..(j - 1) /\ m - d \in 1..Len(Q) /\ (m - d) + d = m /\ m \in Int
    BY <2>1, SMTT(30)
  <2>3. Q[m - d] = Skip
    BY <2>1, <2>2 DEF Later
  <2>4. ASSUME NEW l \in (i + 1)..(m - d - 1)
        PROVE  Q[l][1] # "except"
    <3>1. l + d \in (i + d + 1)..(m - 1) /\ l \in 1..Len(Q)
      BY <2>2
    <3>2. Q[l] = P[l + d]
      BY <3>1 DEF Later
    <3> QED
      BY <2>1, <3>1, <3>2
  <2> QED
    BY <2>2, <2>3, <2>4 DEF Passes
<1> QED
  BY <1>1, <1>2

\* A later part of a program comes to what the program comes to from there,
LEMMA ReachesLater ==
  ASSUME NEW P \in Seq(Statement), NEW Q \in Seq(Statement), NEW d \in Nat, Later(P, Q, d),
         NEW k \in Nat \ {0}, NEW G
  PROVE  Reaches(P, k + d, G) <=> Reaches(Q, k, G)
<1>1. ASSUME Reaches(Q, k, G)
      PROVE  Reaches(P, k + d, G)
  <2>1. PICK j \in k..Len(Q) :
          /\ Q[j] = G
          /\ \A i \in k..(j - 1) : Q[i][1] \in Calm /\ (Q[i][1] = "get" => Passes(Q, i, j))
    BY <1>1 DEF Reaches
  <2>2. j \in 1..Len(Q) /\ j + d \in (k + d)..Len(P) /\ P[j + d] = G
    BY <2>1 DEF Later
  <2>3. ASSUME NEW i \in (k + d)..(j + d - 1)
        PROVE  P[i][1] \in Calm /\ (P[i][1] = "get" => Passes(P, i, j + d))
    <3>1. i - d \in k..(j - 1) /\ i - d \in 1..Len(Q) /\ (i - d) + d = i /\ j \in 1..(Len(Q) + 1)
      BY <2>2
    <3>2. Q[i - d] = P[i]
      BY <3>1 DEF Later
    <3>3. Passes(P, (i - d) + d, j + d) <=> Passes(Q, i - d, j)
      BY <3>1, PassesLater
    <3> QED
      BY <2>1, <3>1, <3>2, <3>3
  <2> QED
    BY <2>2, <2>3 DEF Reaches
<1>2. ASSUME Reaches(P, k + d, G)
      PROVE  Reaches(Q, k, G)
  <2>1. PICK j \in (k + d)..Len(P) :
          /\ P[j] = G
          /\ \A i \in (k + d)..(j - 1) : P[i][1] \in Calm /\ (P[i][1] = "get" => Passes(P, i, j))
    BY <1>2 DEF Reaches
  <2>2. /\ j - d \in k..Len(Q) /\ j - d \in 1..Len(Q) /\ (j - d) + d = j /\ Q[j - d] = G
        /\ j - d \in 1..(Len(Q) + 1)
    BY <2>1 DEF Later
  <2>3. ASSUME NEW i \in k..(j - d - 1)
        PROVE  Q[i][1] \in Calm /\ (Q[i][1] = "get" => Passes(Q, i, j - d))
    <3>1. i + d \in (k + d)..(j - 1) /\ i \in 1..Len(Q)
      BY <2>2
    <3>2. Q[i] = P[i + d]
      BY <3>1 DEF Later
    <3>3. Passes(P, i + d, (j - d) + d) <=> Passes(Q, i, j - d)
      BY <2>2, <3>1, PassesLater
    <3> QED
      BY <2>1, <2>2, <3>1, <3>2, <3>3
  <2> QED
    BY <2>2, <2>3 DEF Reaches
<1> QED
  BY <1>1, <1>2

\* has the handlers that its statements have,
LEMMA HandledLater ==
  ASSUME NEW P \in Seq(Statement), NEW Q \in Seq(Statement), NEW d \in Nat, Later(P, Q, d),
         NEW i \in 1..Len(Q)
  PROVE  Handled(P, i + d) <=> Handled(Q, i)
<1>1. ASSUME Handled(Q, i)
      PROVE  Handled(P, i + d)
  <2>1. PICK m \in (i + 1)..Len(Q) : Q[m] = Recovers /\ \A l \in (i + 1)..(m - 1) : Q[l][1] # "except"
    BY <1>1 DEF Handled
  <2>2. m + d \in (i + d + 1)..Len(P) /\ m \in 1..Len(Q) /\ P[m + d] = Recovers
    BY <2>1 DEF Later
  <2>3. ASSUME NEW l \in (i + d + 1)..(m + d - 1)
        PROVE  P[l][1] # "except"
    <3>1. l - d \in (i + 1)..(m - 1) /\ l - d \in 1..Len(Q) /\ (l - d) + d = l
      BY <2>2
    <3>2. Q[l - d] = P[l]
      BY <3>1 DEF Later
    <3> QED
      BY <2>1, <3>1, <3>2
  <2> QED
    BY <2>2, <2>3 DEF Handled
<1>2. ASSUME Handled(P, i + d)
      PROVE  Handled(Q, i)
  <2>1. PICK m \in (i + d + 1)..Len(P) :
               P[m] = Recovers /\ \A l \in (i + d + 1)..(m - 1) : P[l][1] # "except"
    BY <1>2 DEF Handled
  <2>2. m - d \in (i + 1)..Len(Q) /\ m - d \in 1..Len(Q) /\ (m - d) + d = m /\ Q[m - d] = Recovers
    BY <2>1 DEF Later
  <2>3. ASSUME NEW l \in (i + 1)..(m - d - 1)
        PROVE  Q[l][1] # "except"
    <3>1. l + d \in (i + d + 1)..(m - 1) /\ l \in 1..Len(Q)
      BY <2>2
    <3>2. Q[l] = P[l + d]
      BY <3>1 DEF Later
    <3> QED
      BY <2>1, <3>1, <3>2
  <2> QED
    BY <2>2, <2>3 DEF Handled
<1> QED
  BY <1>1, <1>2

\* and has ahead what the program has ahead there.
LEMMA AheadLater ==
  ASSUME NEW P \in Seq(Statement), NEW Q \in Seq(Statement), NEW d \in Nat, Later(P, Q, d),
         NEW i \in 1..Len(Q)
  PROVE  Ahead(P, i + d) <=> Ahead(Q, i)
<1>1. P[i + d] = Q[i] /\ Len(P) = Len(Q) + d /\ i + d \in 1..Len(P)
  BY DEF Later
<1>2. (i + d) + 1 = (i + 1) + d /\ (i + d) + 2 = (i + 2) + d /\ i + 1 \in Nat \ {0}
  OBVIOUS
<1>3. \A G : Reaches(P, (i + d) + 1, G) <=> Reaches(Q, i + 1, G)
  <2>1. \A G : Reaches(P, (i + 1) + d, G) <=> Reaches(Q, i + 1, G)
    BY <1>2, ReachesLater
  <2> QED
    BY <1>2, <2>1
<1>4. Handled(P, i + d) <=> Handled(Q, i)
  BY HandledLater
<1>5. /\ (i + d) + 1 \in DOMAIN P <=> i + 1 \in DOMAIN Q
      /\ (i + d) + 2 \in DOMAIN P <=> i + 2 \in DOMAIN Q
      /\ i + 1 \in DOMAIN Q => P[(i + d) + 1] = Q[i + 1]
      /\ i + 2 \in DOMAIN Q => P[(i + d) + 2] = Q[i + 2]
  <2>1. DOMAIN P = 1..Len(P) /\ DOMAIN Q = 1..Len(Q)
    OBVIOUS
  <2> QED
    BY <1>1, <1>2, <2>1 DEF Later
<1> QED
  BY <1>1, <1>3, <1>4, <1>5 DEF Ahead

\* ... or lengthened.
Starts(P, R) == Len(P) <= Len(R) /\ \A i \in 1..Len(P) : R[i] = P[i]

\* What a statement has ahead it has in a program that goes on further, too.
LEMMA AheadStarts ==
  ASSUME NEW P \in Seq(Statement), NEW R \in Seq(Statement), Starts(P, R), NEW i \in 1..Len(P),
         Ahead(P, i)
  PROVE  Ahead(R, i)
<1>1. P[i] = R[i] /\ DOMAIN P = 1..Len(P) /\ DOMAIN R = 1..Len(R) /\ Len(P) <= Len(R)
  BY DEF Starts
<1>2. ASSUME NEW G, Reaches(P, i + 1, G)
      PROVE  Reaches(R, i + 1, G)
  <2>1. PICK j \in (i + 1)..Len(P) :
          /\ P[j] = G
          /\ \A l \in (i + 1)..(j - 1) : P[l][1] \in Calm /\ (P[l][1] = "get" => Passes(P, l, j))
    BY <1>2 DEF Reaches
  <2>2. j \in (i + 1)..Len(R) /\ R[j] = G
    BY <2>1 DEF Starts
  <2>3. ASSUME NEW l \in (i + 1)..(j - 1)
        PROVE  R[l][1] \in Calm /\ (R[l][1] = "get" => Passes(R, l, j))
    <3>1. R[l] = P[l]
      BY <2>1 DEF Starts
    <3>2. ASSUME Passes(P, l, j)
          PROVE  Passes(R, l, j)
      <4>1. PICK m \in (l + 1)..(j - 1) : P[m] = Skip /\ \A n \in (l + 1)..(m - 1) : P[n][1] # "except"
        BY <3>2 DEF Passes
      <4>2. \A n \in (l + 1)..m : R[n] = P[n]
        BY <2>1, <4>1 DEF Starts
      <4> QED
        BY <4>1, <4>2 DEF Passes
    <3> QED
      BY <2>1, <3>1, <3>2
  <2> QED
    BY <2>2, <2>3 DEF Reaches
<1>3. ASSUME Handled(P, i)
      PROVE  Handled(R, i)
  <2>1. PICK m \in (i + 1)..Len(P) : P[m] = Recovers /\ \A n \in (i + 1)..(m - 1) : P[n][1] # "except"
    BY <1>3 DEF Handled
  <2>2. m \in (i + 1)..Len(R) /\ \A n \in (i + 1)..m : R[n] = P[n]
    BY <2>1 DEF Starts
  <2> QED
    BY <2>1, <2>2, SMTT(30) DEF Handled
<1>4. /\ i + 1 \in DOMAIN P => i + 1 \in DOMAIN R /\ R[i + 1] = P[i + 1]
      /\ i + 2 \in DOMAIN P => i + 2 \in DOMAIN R /\ R[i + 2] = P[i + 2]
  BY <1>1 DEF Starts
<1> QED
  BY <1>1, <1>2, <1>3, <1>4 DEF Ahead

\* A later part of a program in order is in order.
LEMMA TidyLater ==
  ASSUME NEW P \in Seq(Statement), NEW Q \in Seq(Statement), NEW d \in Nat, Later(P, Q, d), Tidy(P)
  PROVE  Tidy(Q)
<1> SUFFICES ASSUME NEW i \in 1..Len(Q)
             PROVE  Ahead(Q, i) /\ Behind(Q, i)
  BY DEF Tidy
<1>1. i + d \in DOMAIN P /\ P[i + d] = Q[i]
  BY DEF Later
<1>2. Ahead(P, i + d) /\ Behind(P, i + d)
  BY <1>1 DEF Tidy
<1>3. Ahead(Q, i)
  BY <1>2, AheadLater
<1>4. /\ i > 1 => P[(i + d) - 1] = Q[i - 1]
      /\ i > 2 => P[(i + d) - 2] = Q[i - 2]
  <2>1. /\ i > 1 => i - 1 \in 1..Len(Q) /\ (i - 1) + d = (i + d) - 1
        /\ i > 2 => i - 2 \in 1..Len(Q) /\ (i - 2) + d = (i + d) - 2
    OBVIOUS
  <2> QED
    BY <2>1 DEF Later
<1>5. Behind(Q, i)
  <2>1. CASE Q[i][1] = "status"
    <3>1. i + d = 1 \/ (i + d = 2 /\ P[1] = Fetch)
      BY <1>1, <1>2, <2>1 DEF Behind
    <3>2. i = 1 \/ (i = 2 /\ d = 0)
      BY <3>1
    <3>3. i = 2 => Q[1] = Fetch
      BY <1>4, <3>1, <3>2
    <3> QED
      BY <2>1, <3>2, <3>3 DEF Behind
  <2>2. CASE Q[i][1] = "history"
    <3>1. CASE i = 1
      BY <2>2, <3>1 DEF Behind
    <3>2. CASE i # 1
      <4>1. i > 1 /\ (i # 2 => i > 2) /\ i + d # 1 /\ (i + d = 2 => i = 2)
        BY <3>2
      <4>2. \/ \E m \in Methods : P[(i + d) - 1] = <<"status", Q[i][2], Q[i][3], m>>
            \/ /\ P[(i + d) - 1] = Commit /\ Q[i][3] = "discovered"
               /\ i + d = 2 \/ P[(i + d) - 2] = <<"insert", Q[i][2]>>
        BY <1>1, <1>2, <2>2, <4>1 DEF Behind
      <4> QED
        BY <1>4, <2>2, <4>1, <4>2 DEF Behind
    <3> QED
      BY <3>1, <3>2
  <2> QED
    BY <2>1, <2>2 DEF Behind
<1> QED
  BY <1>3, <1>5

\* A program, or what is left of one after a read or a handler: it sets no
\* status yet, and tells of none but of the videos it creates.
Afresh(P, i) ==
  LET s == P[i] IN
  /\ s[1] # "status"
  /\ s[1] = "history" =>
       i > 2 /\ P[i - 1] = Commit /\ s[3] = "discovered" /\ P[i - 2] = <<"insert", s[2]>>
Fresh(P) == \A i \in DOMAIN P : Ahead(P, i) /\ Afresh(P, i)

\* A program that sets no status yet is in order, and tells and sets nothing.
LEMMA FreshTidy ==
  ASSUME NEW P \in Seq(Statement), Fresh(P)
  PROVE  /\ Tidy(P)
         /\ \A v : ~Tells(P, v) /\ ~Sets(P, v)
         /\ P # <<>> => P[1][1] \notin {"status", "history"}
<1>1. DOMAIN P = 1..Len(P)
  OBVIOUS
<1>2. Tidy(P)
  BY DEF Fresh, Tidy, Afresh, Behind
<1>3. \A i \in 1..Len(P) : P[i][1] # "status" /\ (P[i][1] = "history" => i > 2)
  BY <1>1 DEF Fresh, Afresh
<1>4. P # <<>> => 1 \in 1..Len(P)
  OBVIOUS
<1>5. Len(P) > 1 => 2 \in 1..Len(P)
  OBVIOUS
<1>6. \A v : ~Tells(P, v) /\ ~Sets(P, v)
  BY <1>3, <1>4, <1>5 DEF Tells, Sets
<1> QED
  BY <1>2, <1>3, <1>4, <1>6

\* One program after another.
LEMMA FreshJoin ==
  ASSUME NEW P \in Seq(Statement), NEW Q \in Seq(Statement), Fresh(P), Fresh(Q)
  PROVE  P \o Q \in Seq(Statement) /\ Fresh(P \o Q)
<1> DEFINE R == P \o Q
<1>1. R \in Seq(Statement) /\ Len(R) = Len(P) + Len(Q) /\ Later(R, Q, Len(P)) /\ Len(P) \in Nat
  BY JoinLater
<1>2. Starts(P, R)
  BY JoinLater DEF Starts
<1> HIDE DEF R
<1>3. ASSUME NEW i \in 1..Len(P)
      PROVE  Ahead(R, i) /\ Afresh(R, i)
  <2>1. Ahead(P, i) /\ Afresh(P, i)
    BY DEF Fresh
  <2>2. Ahead(R, i)
    BY <1>1, <1>2, <2>1, AheadStarts
  <2>3. R[i] = P[i] /\ (i > 2 => R[i - 1] = P[i - 1] /\ R[i - 2] = P[i - 2])
    BY <1>2 DEF Starts
  <2> QED
    BY <2>1, <2>2, <2>3 DEF Afresh
<1>4. ASSUME NEW i \in 1..Len(Q)
      PROVE  Ahead(R, i + Len(P)) /\ Afresh(R, i + Len(P))
  <2>1. Ahead(Q, i) /\ Afresh(Q, i)
    BY DEF Fresh
  <2>2. Ahead(R, i + Len(P))
    BY <1>1, <2>1, AheadLater
  <2>3. R[i + Len(P)] = Q[i]
    BY <1>1 DEF Later
  <2>4. i > 2 => /\ R[(i + Len(P)) - 1] = Q[i - 1] /\ R[(i + Len(P)) - 2] = Q[i - 2]
    <3>1. i > 2 => /\ i - 1 \in 1..Len(Q) /\ (i - 1) + Len(P) = (i + Len(P)) - 1
                   /\ i - 2 \in 1..Len(Q) /\ (i - 2) + Len(P) = (i + Len(P)) - 2
      BY <1>1
    <3> QED
      BY <1>1, <3>1 DEF Later
  <2>5. i > 2 => i + Len(P) > 2
    BY <1>1
  <2> QED
    BY <2>1, <2>2, <2>3, <2>4, <2>5 DEF Afresh
<1>5. \A i \in DOMAIN R : i \in 1..Len(P) \/ (i - Len(P) \in 1..Len(Q) /\ (i - Len(P)) + Len(P) = i)
  BY <1>1
<1>6. ASSUME NEW i \in DOMAIN R
      PROVE  Ahead(R, i) /\ Afresh(R, i)
  <2>1. CASE i \in 1..Len(P)
    BY <1>3, <2>1
  <2>2. CASE i - Len(P) \in 1..Len(Q) /\ (i - Len(P)) + Len(P) = i
    <3>1. Ahead(R, (i - Len(P)) + Len(P)) /\ Afresh(R, (i - Len(P)) + Len(P))
      BY <1>4, <2>2
    <3> QED
      BY <2>2, <3>1
  <2> QED
    BY <1>5, <2>1, <2>2
<1>7. Fresh(R)
  BY <1>6 DEF Fresh
<1> QED
  BY <1>1, <1>7 DEF R

\* After a read or a handler the rest is fresh.
LEMMA BreakFresh ==
  ASSUME NEW P \in Seq(Statement), NEW Q \in Seq(Statement), NEW d \in 1..Len(P), Later(P, Q, d),
         Tidy(P), P[d][1] \notin {"fetch", "commit", "status", "insert"}
  PROVE  Fresh(Q)
<1> SUFFICES ASSUME NEW i \in 1..Len(Q)
             PROVE  Ahead(Q, i) /\ Afresh(Q, i)
  BY DEF Fresh
<1>1. d \in Nat /\ d > 0 /\ Len(P) = Len(Q) + d
  BY DEF Later
<1>2. \A l \in 1..Len(Q) : l + d \in DOMAIN P /\ P[l + d] = Q[l]
  BY <1>1 DEF Later
<1>3. \A l \in DOMAIN P : Ahead(P, l) /\ Behind(P, l)
  BY DEF Tidy
<1>4. Ahead(Q, i)
  BY <1>1, <1>2, <1>3, AheadLater
<1>5. P[d] # Fetch /\ P[d] # Commit /\ P[d][1] # "status" /\ \A v : P[d] # <<"insert", v>>
  BY DEF Fetch, Commit
<1>6. ASSUME NEW l \in 1..Len(Q)
      PROVE  Q[l][1] # "status"
  <2>1. Behind(P, l + d) /\ P[l + d] = Q[l]
    BY <1>2, <1>3
  <2>2. l + d # 1 /\ (l + d = 2 => d = 1)
    BY <1>1
  <2> QED
    BY <1>5, <2>1, <2>2 DEF Behind
<1>7. ASSUME Q[i][1] = "history"
      PROVE  /\ i > 2 /\ Q[i - 1] = Commit /\ Q[i][3] = "discovered"
             /\ Q[i - 2] = <<"insert", Q[i][2]>>
  <2>1. Behind(P, i + d) /\ P[i + d] = Q[i] /\ i + d # 1
    BY <1>1, <1>2, <1>3
  <2>2. i = 1 => (i + d) - 1 = d
    BY <1>1
  <2>3. i # 1 => i - 1 \in 1..Len(Q) /\ (i - 1) + d = (i + d) - 1
    BY <1>1
  <2>4. P[(i + d) - 1][1] # "status"
    <3>1. i # 1 => P[(i - 1) + d] = Q[i - 1] /\ Q[i - 1][1] # "status"
      BY <1>2, <1>6, <2>3
    <3> QED
      BY <1>5, <2>2, <2>3, <3>1
  <2>5. P[(i + d) - 1] = Commit /\ Q[i][3] = "discovered"
        /\ (i + d = 2 \/ P[(i + d) - 2] = <<"insert", Q[i][2]>>)
    <3>1. \A s, m : (<<"status", Q[i][2], s, m>>)[1] = "status"
      OBVIOUS
    <3> QED
      BY <1>7, <2>1, <2>4, <3>1 DEF Behind
  <2>6. i # 1
    BY <1>5, <2>2, <2>5
  <2>7. Q[i - 1] = Commit
    BY <1>2, <2>3, <2>5, <2>6
  <2>8. i + d # 2
    BY <1>1, <2>6
  <2>9. i # 2
    <3>1. i = 2 => (i + d) - 2 = d
      BY <1>1
    <3> QED
      BY <1>5, <2>5, <2>8, <3>1
  <2>10. i - 2 \in 1..Len(Q) /\ (i - 2) + d = (i + d) - 2 /\ i > 2
    BY <1>1, <2>6, <2>9
  <2>11. Q[i - 2] = <<"insert", Q[i][2]>>
    BY <1>2, <2>5, <2>8, <2>10
  <2> QED
    BY <2>5, <2>7, <2>10, <2>11
<1> QED
  BY <1>4, <1>6, <1>7 DEF Afresh

-----------------------------------------------------------------------------
(* Programs that are put together *)

\* Joining lists is adding one after the other.
LEMMA FlattenSteps ==
  ASSUME NEW T, NEW seqs \in Seq(T), NEW S, T \subseteq Seq(S),
         \A a, b \in T : a \o b \in T
  PROVE  \E f : /\ f = [i \in 1..Len(seqs) |-> IF i = 1 THEN seqs[i] ELSE f[i-1] \o seqs[i]]
                /\ FlattenSeq(seqs) = IF Len(seqs) = 0 THEN seqs ELSE f[Len(seqs)]
<1> DEFINE Joins(f) == f = [i \in 1..Len(seqs) |-> IF i = 1 THEN seqs[i] ELSE f[i-1] \o seqs[i]]
           flatten == CHOOSE f : Joins(f)
           Upto(n, g) == \A i \in 1..n : g[i] = IF i = 1 THEN seqs[i] ELSE g[i-1] \o seqs[i]
           bad == {n \in 0..Len(seqs) : ~\E g \in [1..n -> T] : Upto(n, g)}
<1>1. Len(seqs) \in Nat /\ \A i \in 1..Len(seqs) : seqs[i] \in T
  OBVIOUS
<1>2. bad = {}
  <2> SUFFICES ASSUME bad # {} PROVE FALSE
    OBVIOUS
  <2>1. PICK m \in bad : \A n \in bad : m <= n
    <3>1. bad \in SUBSET Nat
      BY <1>1
    <3> QED
      BY <3>1, LeastExists
  <2>2. m \in 0..Len(seqs) /\ ~\E g \in [1..m -> T] : Upto(m, g)
    BY <2>1
  <2>3. m # 0
    <3>1. [i \in 1..0 |-> << >>] \in [1..0 -> T] /\ Upto(0, [i \in 1..0 |-> << >>])
      OBVIOUS
    <3> QED
      BY <2>2, <3>1
  <2>4. m-1 \in 0..Len(seqs) /\ m-1 \notin bad
    <3>1. m \in Nat /\ m-1 \in 0..Len(seqs) /\ m-1 < m
      BY <1>1, <2>2, <2>3
    <3> HIDE DEF bad
    <3> QED
      BY <2>1, <3>1
  <2>5. PICK g \in [1..(m-1) -> T] : Upto(m-1, g)
    BY <2>4
  <2> DEFINE last == IF m = 1 THEN seqs[1] ELSE g[m-1] \o seqs[m]
             h == [i \in 1..m |-> IF i = m THEN last ELSE g[i]]
  <2>6. m \in 1..Len(seqs) /\ last \in T
    <3>1. m \in 1..Len(seqs) /\ seqs[m] \in T
      BY <1>1, <2>2, <2>3
    <3>2. m # 1 => g[m-1] \in T
      BY <1>1, <2>2, <2>3
    <3> QED
      BY <3>1, <3>2
  <2>7. h \in [1..m -> T]
    <3> HIDE DEF last
    <3> QED
      BY <1>1, <2>6
  <2>8. Upto(m, h)
    <3> SUFFICES ASSUME NEW i \in 1..m
                 PROVE  h[i] = IF i = 1 THEN seqs[i] ELSE h[i-1] \o seqs[i]
      OBVIOUS
    <3>1. CASE i = m
      BY <1>1, <2>6, <3>1
    <3>2. CASE i # m
      <4>1. i \in 1..(m-1) /\ (i # 1 => i-1 \in 1..(m-1))
        BY <1>1, <2>6, <3>2
      <4> HIDE DEF last
      <4>2. h[i] = g[i]
        BY <3>2
      <4>3. i # 1 => h[i-1] = g[i-1]
        BY <4>1
      <4>4. g[i] = IF i = 1 THEN seqs[i] ELSE g[i-1] \o seqs[i]
        BY <2>5, <4>1
      <4> HIDE DEF h
      <4> QED
        BY <4>2, <4>3, <4>4
    <3> QED
      BY <3>1, <3>2
  <2> QED
    BY <2>2, <2>7, <2>8
<1>3. PICK g \in [1..Len(seqs) -> T] : Upto(Len(seqs), g)
  <2>1. Len(seqs) \in 0..Len(seqs)
    BY <1>1
  <2>2. Len(seqs) \notin bad
    <3> HIDE DEF bad
    <3> QED
      BY <1>2
  <2> HIDE DEF Upto
  <2> QED
    BY <2>1, <2>2
<1>4. Joins(g)
  <2>1. g = [i \in 1..Len(seqs) |-> g[i]]
    BY <1>3
  <2> QED
    BY <1>3, <2>1
<1>5. Joins(flatten)
  <2> HIDE DEF Joins
  <2> QED
    BY <1>4
<1>6. FlattenSeq(seqs) = IF Len(seqs) = 0 THEN seqs ELSE flatten[Len(seqs)]
  BY DEF FlattenSeq
<1> HIDE DEF flatten
<1> QED
  BY <1>5, <1>6

\* What two joined lists have in common the join of many has.
LEMMA FlattenIn ==
  ASSUME NEW T, NEW seqs \in Seq(T), NEW S, T \subseteq Seq(S), <<>> \in T,
         \A a, b \in T : a \o b \in T
  PROVE  FlattenSeq(seqs) \in T
<1>1. PICK f : /\ f = [i \in 1..Len(seqs) |-> IF i = 1 THEN seqs[i] ELSE f[i-1] \o seqs[i]]
               /\ FlattenSeq(seqs) = IF Len(seqs) = 0 THEN seqs ELSE f[Len(seqs)]
  BY FlattenSteps
<1>2. Len(seqs) \in Nat /\ \A i \in 1..Len(seqs) : seqs[i] \in T
  OBVIOUS
<1>3. \A i \in 1..Len(seqs) : f[i] = IF i = 1 THEN seqs[i] ELSE f[i-1] \o seqs[i]
  BY <1>1
<1>4. \A i \in 1..Len(seqs) : f[i] \in T
  <2> DEFINE wrong == {i \in 1..Len(seqs) : f[i] \notin T}
  <2> SUFFICES ASSUME wrong # {} PROVE FALSE
    OBVIOUS
  <2>1. PICK m \in wrong : \A n \in wrong : m <= n
    <3>1. wrong \in SUBSET Nat
      BY <1>2
    <3> QED
      BY <3>1, LeastExists
  <2>2. m \in 1..Len(seqs) /\ f[m] \notin T
    BY <2>1
  <2>3. m # 1 => f[m-1] \in T
    <3>1. m # 1 => m-1 \in 1..Len(seqs) /\ m-1 < m /\ m \in Nat
      BY <1>2, <2>2
    <3>2. m # 1 => m-1 \notin wrong
      <4> HIDE DEF wrong
      <4> QED
        BY <2>1, <3>1
    <3> QED
      BY <3>1, <3>2
  <2> HIDE DEF wrong
  <2> QED
    BY <1>2, <1>3, <2>2, <2>3
<1>5. CASE Len(seqs) = 0
  <2>1. seqs = <<>>
    BY <1>5
  <2> QED
    BY <1>1, <1>5, <2>1
<1>6. CASE Len(seqs) # 0
  <2>1. Len(seqs) \in 1..Len(seqs)
    BY <1>2, <1>6
  <2> QED
    BY <1>1, <1>4, <1>6, <2>1
<1> QED
  BY <1>5, <1>6

\* One list joined is that list.
LEMMA FlattenOne ==
  ASSUME NEW S, NEW x \in Seq(S)
  PROVE  FlattenSeq([i \in 1..1 |-> x]) = x
<1> DEFINE seqs == [i \in 1..1 |-> x]
<1>1. seqs \in Seq(Seq(S)) /\ Len(seqs) = 1 /\ seqs[1] = x
  OBVIOUS
<1>2. \A a, b \in Seq(S) : a \o b \in Seq(S)
  OBVIOUS
<1> HIDE DEF seqs
<1>3. PICK f : /\ f = [i \in 1..Len(seqs) |-> IF i = 1 THEN seqs[i] ELSE f[i-1] \o seqs[i]]
               /\ FlattenSeq(seqs) = IF Len(seqs) = 0 THEN seqs ELSE f[Len(seqs)]
  BY <1>1, <1>2, FlattenSteps
<1>4. f[1] = seqs[1]
  <2>1. 1 \in 1..Len(seqs)
    BY <1>1
  <2> QED
    BY <1>3, <2>1
<1>5. FlattenSeq(seqs) = x
  BY <1>1, <1>3, <1>4
<1> QED
  BY <1>5 DEF seqs

\* Lists of one element each are joined to the list of the elements.
LEMMA FlattenSingles ==
  ASSUME NEW S, NEW xs \in Seq(S)
  PROVE  FlattenSeq([i \in 1..Len(xs) |-> <<xs[i]>>]) = xs
<1> DEFINE seqs == [i \in 1..Len(xs) |-> <<xs[i]>>]
<1>1. /\ seqs \in Seq(Seq(S)) /\ Len(seqs) = Len(xs) /\ Len(xs) \in Nat
      /\ \A i \in 1..Len(xs) : seqs[i] = <<xs[i]>> /\ xs[i] \in S
  OBVIOUS
<1>2. \A a, b \in Seq(S) : a \o b \in Seq(S)
  OBVIOUS
<1> HIDE DEF seqs
<1>3. PICK f : /\ f = [i \in 1..Len(seqs) |-> IF i = 1 THEN seqs[i] ELSE f[i-1] \o seqs[i]]
               /\ FlattenSeq(seqs) = IF Len(seqs) = 0 THEN seqs ELSE f[Len(seqs)]
  BY <1>1, <1>2, FlattenSteps
<1>4. \A i \in 1..Len(xs) : f[i] = IF i = 1 THEN <<xs[i]>> ELSE f[i-1] \o <<xs[i]>>
  BY <1>1, <1>3
<1> DEFINE Right(i) == f[i] \in Seq(S) /\ Len(f[i]) = i /\ \A n \in 1..i : f[i][n] = xs[n]
           wrong == {i \in 1..Len(xs) : ~Right(i)}
<1>5. wrong = {}
  <2> SUFFICES ASSUME wrong # {} PROVE FALSE
    OBVIOUS
  <2>1. PICK m \in wrong : \A n \in wrong : m <= n
    <3>1. wrong \in SUBSET Nat
      BY <1>1
    <3> QED
      BY <3>1, LeastExists
  <2>2. m \in 1..Len(xs) /\ ~Right(m) /\ m \in Nat /\ xs[m] \in S
    BY <1>1, <2>1
  <2>3. CASE m = 1
    <3>1. f[1] = <<xs[1]>>
      BY <1>4, <2>2, <2>3
    <3> QED
      BY <2>2, <2>3, <3>1
  <2>4. CASE m # 1
    <3>1. m-1 \in 1..Len(xs) /\ m-1 < m
      BY <1>1, <2>2, <2>4
    <3>2. m-1 \notin wrong
      <4> HIDE DEF wrong
      <4> QED
        BY <2>1, <2>2, <3>1
    <3>3. Right(m-1)
      BY <3>1, <3>2
    <3>4. f[m] = f[m-1] \o <<xs[m]>>
      BY <1>4, <2>2, <2>4
    <3>5. f[m-1] \in Seq(S) /\ Len(f[m-1]) = m - 1 /\ \A n \in 1..(m-1) : f[m-1][n] = xs[n]
      BY <3>3
    <3>6. f[m] \in Seq(S) /\ Len(f[m]) = m
      BY <2>2, <3>4, <3>5
    <3>7. \A n \in 1..m : f[m][n] = xs[n]
      <4>1. \A n \in 1..(m-1) : f[m][n] = f[m-1][n]
        BY <2>2, <3>4, <3>5
      <4>2. f[m][m] = xs[m]
        BY <2>2, <3>4, <3>5
      <4> QED
        BY <2>2, <3>5, <4>1, <4>2
    <3> QED
      BY <2>2, <3>6, <3>7
  <2> QED
    BY <2>3, <2>4
<1>6. CASE Len(xs) = 0
  <2>1. seqs = <<>> /\ xs = <<>>
    BY <1>1, <1>6
  <2>2. FlattenSeq(seqs) = seqs
    BY <1>1, <1>3, <1>6
  <2> QED
    BY <2>1, <2>2 DEF seqs
<1>7. CASE Len(xs) # 0
  <2>1. Len(xs) \in 1..Len(xs)
    BY <1>1, <1>7
  <2>2. Right(Len(xs))
    <3> HIDE DEF Right
    <3> QED
      BY <1>5, <2>1
  <2>3. f[Len(xs)] = xs
    BY <2>2
  <2>4. FlattenSeq(seqs) = xs
    BY <1>1, <1>3, <1>7, <2>3
  <2> QED
    BY <2>4 DEF seqs
<1> QED
  BY <1>6, <1>7

-----------------------------------------------------------------------------
(* Programs that are fresh *)

Programmes == {P \in Seq(Statement) : Fresh(P)}

\* One statement that asks nothing of what follows.
Idle == {"get", "getany", "getnamed", "gettag", "find", "findtag", "fetch", "commit", "begin", "edit",
         "updatenamed", "export", "rollback", "except"}

\* Statements that need nothing around them.
LEMMA IdleFresh ==
  ASSUME NEW s \in Statement, s[1] \in Idle
  PROVE  <<s>> \in Programmes
<1>1. <<s>> \in Seq(Statement) /\ DOMAIN <<s>> = {1} /\ <<s>>[1] = s
  OBVIOUS
<1>2. Ahead(<<s>>, 1) /\ Afresh(<<s>>, 1)
  BY <1>1 DEF Ahead, Afresh, Idle, Sealed, Retold
<1> QED
  BY <1>1, <1>2 DEF Programmes, Fresh

\* A write with its commit.
LEMMA SealFresh ==
  ASSUME NEW s \in Statement,
         s[1] \in {"edit", "hide", "show", "remove", "inserttag", "deletetag", "insertnamed", "updatenamed",
                   "hidenamed", "link", "unlink"}
  PROVE  <<s, Commit>> \in Programmes
<1> DEFINE P == <<s, Commit>>
<1>1. Commit \in Statement /\ Commit[1] = "commit"
  BY PlainStatement DEF Commit
<1>2. P \in Seq(Statement) /\ Len(P) = 2 /\ DOMAIN P = {1, 2} /\ P[1] = s /\ P[2] = Commit
  BY <1>1
<1> HIDE DEF P
<1>3. Reaches(P, 2, Commit)
  <2>1. 2 \in 2..Len(P) /\ 2..(2 - 1) = {}
    BY <1>2
  <2> QED
    BY <1>2, <2>1 DEF Reaches
<1>4. Ahead(P, 1) /\ Afresh(P, 1)
  BY <1>2, <1>3 DEF Ahead, Afresh, Retold
<1>5. Ahead(P, 2) /\ Afresh(P, 2)
  BY <1>1, <1>2 DEF Ahead, Afresh, Retold, Sealed
<1> QED
  BY <1>2, <1>4, <1>5 DEF Programmes, Fresh, P

\* Fresh programs are put together to fresh ones,
LEMMA JoinFresh ==
  ASSUME NEW P \in Programmes, NEW Q \in Programmes
  PROVE  P \o Q \in Programmes
BY FreshJoin DEF Programmes

\* and any number of them.
LEMMA FlattenFresh ==
  ASSUME NEW seqs \in Seq(Programmes)
  PROVE  FlattenSeq(seqs) \in Programmes
<1>1. <<>> \in Programmes /\ Programmes \subseteq Seq(Statement)
  BY DEF Programmes, Fresh
<1>2. \A a, b \in Programmes : a \o b \in Programmes
  BY JoinFresh
<1> QED
  BY <1>1, <1>2, FlattenIn

\* What is reached is reached in a longer program.
LEMMA ReachesStarts ==
  ASSUME NEW P \in Seq(Statement), NEW Q \in Seq(Statement), NEW k \in Nat, NEW G, Reaches(P, k, G), k > 0
  PROVE  Reaches(P \o Q, k, G)
<1> DEFINE R == P \o Q
<1>1. R \in Seq(Statement) /\ Len(R) = Len(P) + Len(Q) /\ \A i \in 1..Len(P) : R[i] = P[i]
  BY JoinLater
<1> HIDE DEF R
<1>2. PICK j \in k..Len(P) :
        /\ P[j] = G
        /\ \A l \in k..(j - 1) : P[l][1] \in Calm /\ (P[l][1] = "get" => Passes(P, l, j))
  BY DEF Reaches
<1>3. j \in k..Len(R) /\ R[j] = G /\ Len(P) \in Nat /\ j \in Nat
  BY <1>1, <1>2
<1>4. ASSUME NEW l \in k..(j - 1)
      PROVE  R[l][1] \in Calm /\ (R[l][1] = "get" => Passes(R, l, j))
  <2>1. R[l] = P[l]
    BY <1>1, <1>2
  <2>2. ASSUME Passes(P, l, j)
        PROVE  Passes(R, l, j)
    <3>1. PICK m \in (l + 1)..(j - 1) : P[m] = Skip /\ \A n \in (l + 1)..(m - 1) : P[n][1] # "except"
      BY <2>2 DEF Passes
    <3>2. \A n \in (l + 1)..m : R[n] = P[n]
      BY <1>1, <1>2, <3>1, SMTT(30)
    <3> QED
      BY <3>1, <3>2 DEF Passes
  <2> QED
    BY <1>2, <2>1, <2>2
<1> QED
  BY <1>3, <1>4 DEF Reaches, R

\* Statements that are passed whatever they return.
Lull(X) ==
  /\ X \in Seq(Statement)
  /\ \A i \in 1..Len(X) :
       X[i][1] \in Calm /\ (X[i][1] = "get" => Passes(X, i, Len(X) + 1))

\* Through statements that go on whatever happens, what comes behind is reached.
LEMMA LullReaches ==
  ASSUME NEW X, Lull(X), NEW Q \in Seq(Statement), NEW G, Reaches(Q, 1, G), NEW k \in 1..(Len(X) + 1)
  PROVE  Reaches(X \o Q, k, G)
<1> DEFINE R == X \o Q
<1>1. X \in Seq(Statement)
  BY DEF Lull
<1>2. /\ R \in Seq(Statement) /\ Len(R) = Len(X) + Len(Q) /\ Later(R, Q, Len(X)) /\ Len(X) \in Nat
      /\ \A i \in 1..Len(X) : R[i] = X[i]
  BY <1>1, JoinLater
<1> HIDE DEF R
<1>3. Reaches(R, 1 + Len(X), G)
  BY <1>2, ReachesLater
<1>4. PICK j \in (1 + Len(X))..Len(R) :
        /\ R[j] = G
        /\ \A i \in (1 + Len(X))..(j - 1) : R[i][1] \in Calm /\ (R[i][1] = "get" => Passes(R, i, j))
  BY <1>3 DEF Reaches
<1>5. ASSUME NEW i \in k..(j - 1)
      PROVE  R[i][1] \in Calm /\ (R[i][1] = "get" => Passes(R, i, j))
  <2>1. CASE i \in (1 + Len(X))..(j - 1)
    BY <1>4, <2>1
  <2>2. CASE i \in 1..Len(X)
    <3>1. R[i] = X[i] /\ X[i][1] \in Calm /\ (X[i][1] = "get" => Passes(X, i, Len(X) + 1))
      BY <1>2, <2>2 DEF Lull
    <3>2. ASSUME Passes(X, i, Len(X) + 1)
          PROVE  Passes(R, i, j)
      <4>1. PICK m \in (i + 1)..((Len(X) + 1) - 1) :
                   X[m] = Skip /\ \A l \in (i + 1)..(m - 1) : X[l][1] # "except"
        BY <3>2 DEF Passes
      <4>2. m \in (i + 1)..(j - 1) /\ \A l \in (i + 1)..m : R[l] = X[l]
        BY <1>2, <1>4, <2>2, <4>1
      <4> QED
        BY <4>1, <4>2, SMTT(30) DEF Passes
    <3> QED
      BY <3>1, <3>2
  <2> QED
    BY <1>2, <1>4, <2>1, <2>2
<1>6. j \in k..Len(R)
  BY <1>2, <1>4
<1> QED
  BY <1>4, <1>5, <1>6 DEF Reaches, R

\* Such statements one after the other.
LEMMA LullJoin ==
  ASSUME NEW X, NEW Y, Lull(X), Lull(Y)
  PROVE  Lull(X \o Y)
<1> DEFINE R == X \o Y
<1>1. X \in Seq(Statement) /\ Y \in Seq(Statement)
  BY DEF Lull
<1>2. /\ R \in Seq(Statement) /\ Len(R) = Len(X) + Len(Y) /\ Later(R, Y, Len(X)) /\ Len(X) \in Nat
      /\ \A i \in 1..Len(X) : R[i] = X[i]
  BY <1>1, JoinLater
<1> HIDE DEF R
<1>3. ASSUME NEW i \in 1..Len(R)
      PROVE  R[i][1] \in Calm /\ (R[i][1] = "get" => Passes(R, i, Len(R) + 1))
  <2>1. CASE i \in 1..Len(X)
    <3>1. R[i] = X[i] /\ X[i][1] \in Calm /\ (X[i][1] = "get" => Passes(X, i, Len(X) + 1))
      BY <1>2, <2>1 DEF Lull
    <3>2. ASSUME Passes(X, i, Len(X) + 1)
          PROVE  Passes(R, i, Len(R) + 1)
      <4>1. PICK m \in (i + 1)..((Len(X) + 1) - 1) :
                   X[m] = Skip /\ \A l \in (i + 1)..(m - 1) : X[l][1] # "except"
        BY <3>2 DEF Passes
      <4>2. m \in (i + 1)..((Len(R) + 1) - 1) /\ \A l \in (i + 1)..m : R[l] = X[l]
        BY <1>1, <1>2, <2>1, <4>1
      <4> QED
        BY <4>1, <4>2 DEF Passes
    <3> QED
      BY <3>1, <3>2
  <2>2. CASE i \notin 1..Len(X)
    <3>1. i - Len(X) \in 1..Len(Y) /\ (i - Len(X)) + Len(X) = i /\ Len(Y) + 1 \in 1..(Len(Y) + 1)
          /\ (Len(Y) + 1) + Len(X) = Len(R) + 1
      BY <1>1, <1>2, <2>2
    <3>2. R[i] = Y[i - Len(X)]
      BY <1>2, <3>1 DEF Later
    <3>3. Passes(R, (i - Len(X)) + Len(X), (Len(Y) + 1) + Len(X)) <=> Passes(Y, i - Len(X), Len(Y) + 1)
      BY <1>1, <1>2, <3>1, PassesLater
    <3> QED
      BY <3>1, <3>2, <3>3 DEF Lull
  <2> QED
    BY <2>1, <2>2
<1> QED
  BY <1>2, <1>3 DEF Lull, R

\* One such statement.
LEMMA LullOne ==
  ASSUME NEW s \in Statement, s[1] \in Calm, s[1] # "get"
  PROVE  Lull(<<s>>)
BY DEF Lull

\* Such statements in front of a program that commits and exports what they write.
LEMMA LullFresh ==
  ASSUME NEW X, Lull(X), NEW Q \in Programmes,
         \A i \in 1..Len(X) :
           /\ X[i][1] \in Sealed => Reaches(X, i + 1, Commit) \/ Reaches(Q, 1, Commit)
           /\ X[i][1] \in Retold => Reaches(Q, 1, <<"export", X[i][2]>>)
  PROVE  X \o Q \in Programmes
<1> DEFINE R == X \o Q
<1>1. X \in Seq(Statement) /\ Q \in Seq(Statement) /\ Fresh(Q)
  BY DEF Lull, Programmes
<1>2. /\ R \in Seq(Statement) /\ Len(R) = Len(X) + Len(Q) /\ Later(R, Q, Len(X)) /\ Len(X) \in Nat
      /\ \A i \in 1..Len(X) : R[i] = X[i]
  BY <1>1, JoinLater
<1>3. ASSUME NEW i \in 1..Len(X), NEW G, Reaches(Q, 1, G)
      PROVE  Reaches(R, i + 1, G)
  <2>1. i + 1 \in 1..(Len(X) + 1)
    BY <1>2
  <2> QED
    BY <1>1, <1>3, <2>1, LullReaches
<1>4. ASSUME NEW i \in 1..Len(X), NEW G, Reaches(X, i + 1, G)
      PROVE  Reaches(R, i + 1, G)
  <2>1. i + 1 \in Nat /\ i + 1 > 0
    OBVIOUS
  <2> QED
    BY <1>1, <1>4, <2>1, ReachesStarts
<1> HIDE DEF R
<1>5. ASSUME NEW i \in 1..Len(X)
      PROVE  Ahead(R, i) /\ Afresh(R, i)
  <2>1. R[i] = X[i] /\ X[i][1] \in Calm
    BY <1>2 DEF Lull
  <2>2. R[i][1] \in Sealed => Reaches(R, i + 1, Commit)
    BY <1>3, <1>4, <2>1
  <2>3. R[i][1] \in Retold => Reaches(R, i + 1, <<"export", R[i][2]>>)
    BY <1>3, <2>1
  <2>4. R[i][1] \notin {"insert", "remove", "history", "getstatus", "status"}
    BY <2>1 DEF Calm
  <2>5. Ahead(R, i)
    BY <2>2, <2>3, <2>4 DEF Ahead
  <2> QED
    BY <2>4, <2>5 DEF Afresh
<1>6. ASSUME NEW i \in 1..Len(R), i \notin 1..Len(X)
      PROVE  Ahead(R, i) /\ Afresh(R, i)
  <2>1. i - Len(X) \in 1..Len(Q) /\ (i - Len(X)) + Len(X) = i
    BY <1>1, <1>2, <1>6
  <2>2. Ahead(Q, i - Len(X)) /\ Afresh(Q, i - Len(X))
    BY <1>1, <2>1 DEF Fresh
  <2>3. Ahead(R, (i - Len(X)) + Len(X))
    BY <1>1, <1>2, <2>1, <2>2, AheadLater
  <2>4. R[i] = Q[i - Len(X)]
    BY <1>2, <2>1 DEF Later
  <2>5. i - Len(X) > 2 => /\ i > 2 /\ R[i - 1] = Q[(i - Len(X)) - 1] /\ R[i - 2] = Q[(i - Len(X)) - 2]
    <3>1. i - Len(X) > 2 =>
            /\ (i - Len(X)) - 1 \in 1..Len(Q) /\ ((i - Len(X)) - 1) + Len(X) = i - 1
            /\ (i - Len(X)) - 2 \in 1..Len(Q) /\ ((i - Len(X)) - 2) + Len(X) = i - 2 /\ i > 2
      BY <1>2, <2>1
    <3> QED
      BY <1>2, <3>1 DEF Later
  <2> QED
    BY <2>1, <2>2, <2>3, <2>4, <2>5 DEF Afresh
<1>7. DOMAIN R = 1..Len(R)
  BY <1>2
<1> QED
  BY <1>2, <1>5, <1>6, <1>7 DEF Programmes, Fresh, R

-----------------------------------------------------------------------------
(* The calls are *)

\* Tuples in pieces.
LEMMA Pieces ==
  ASSUME NEW S, NEW a \in S, NEW b \in S, NEW c \in S
  PROVE  <<a, b>> = <<a>> \o <<b>> /\ <<a, b, c>> = <<a>> \o <<b, c>>
<1>1. <<a>> \in Seq(S) /\ <<b>> \in Seq(S) /\ <<a, b>> \in Seq(S) /\ <<b, c>> \in Seq(S) /\ <<a, b, c>> \in Seq(S)
  OBVIOUS
<1>2. /\ <<a>> \o <<b>> \in Seq(S) /\ Len(<<a>> \o <<b>>) = Len(<<a, b>>)
      /\ \A i \in 1..Len(<<a, b>>) : <<a, b>>[i] = (<<a>> \o <<b>>)[i]
  OBVIOUS
<1>3. <<a, b>> = <<a>> \o <<b>>
  BY <1>1, <1>2, SeqEqual
<1>4. /\ <<a>> \o <<b, c>> \in Seq(S) /\ Len(<<a>> \o <<b, c>>) = Len(<<a, b, c>>)
      /\ \A i \in 1..Len(<<a, b, c>>) : <<a, b, c>>[i] = (<<a>> \o <<b, c>>)[i]
  OBVIOUS
<1>5. <<a, b, c>> = <<a>> \o <<b, c>>
  BY <1>1, <1>4, SeqEqual
<1> QED
  BY <1>3, <1>5

\* Commits, transactions and handlers.
LEMMA PlainFresh ==
  /\ <<Commit>> \in Programmes /\ <<<<"begin">>>> \in Programmes
  /\ \A kinds \in SUBSET {"missing", "query", "sql", "busy", "raw"} :
       /\ <<Except(kinds, <<>>)>> \in Programmes
       /\ <<Except(kinds, <<Rollback("query")>>)>> \in Programmes
       /\ <<Commit, Except(kinds, <<Rollback("transaction")>>)>> \in Programmes
       /\ <<Except(kinds, <<Rollback("transaction")>>)>> \in Programmes
<1>1. <<Commit>> \in Programmes /\ <<<<"begin">>>> \in Programmes
  BY PlainStatement, IdleFresh DEF Commit, Idle
<1>2. ASSUME NEW kinds \in SUBSET {"missing", "query", "sql", "busy", "raw"},
             NEW then, Except(kinds, then) \in Statement
      PROVE  <<Except(kinds, then)>> \in Programmes
  <2>1. Except(kinds, then)[1] \in Idle
    BY DEF Except, Idle
  <2> QED
    BY <1>2, <2>1, IdleFresh
<1>3. ASSUME NEW kinds \in SUBSET {"missing", "query", "sql", "busy", "raw"}
      PROVE  <<Commit, Except(kinds, <<Rollback("transaction")>>)>> \in Programmes
  <2>1. <<Except(kinds, <<Rollback("transaction")>>)>> \in Programmes
    BY <1>2, PlainStatement
  <2>2. <<Commit>> \o <<Except(kinds, <<Rollback("transaction")>>)>> \in Programmes
    BY <1>1, <2>1, JoinFresh
  <2>3. Commit \in Statement /\ Except(kinds, <<Rollback("transaction")>>) \in Statement
    BY PlainStatement
  <2>4. <<Commit, Except(kinds, <<Rollback("transaction")>>)>>
          = <<Commit>> \o <<Except(kinds, <<Rollback("transaction")>>)>>
    BY <2>3, Pieces
  <2> QED
    BY <2>2, <2>4
<1> QED
  BY <1>1, <1>2, <1>3, PlainStatement

\* The handler of most methods around a fresh program.
LEMMA GuardedFresh ==
  ASSUME NEW body \in Programmes
  PROVE  Guarded(body) \in Programmes
BY PlainFresh, JoinFresh DEF Guarded

\* create_video().
LEMMA CreateFresh ==
  ASSUME NEW v \in Videos
  PROVE  CreateVideo(v) \in Programmes
<1> DEFINE P == CreateVideo(v)
           hist == <<"history", v, "discovered">>
<1>1. "discovered" \in Statuses
  BY LibraryAssumption
<1>2. /\ <<"insert", v>> \in Statement /\ hist \in Statement /\ Commit \in Statement /\ Recovers \in Statement
      /\ Commit[1] = "commit" /\ Recovers[1] = "except"
  BY <1>1, VideoStatement, PlainStatement DEF Recovers, Commit, Except
<1>3. P = (<<<<"insert", v>>, Commit>> \o <<hist, Commit>>) \o <<Recovers>>
  BY DEF CreateVideo, Guarded, History, Recovers
<1>4. P \in Seq(Statement)
  BY <1>2, <1>3
<1>5. /\ Len(P) = 5 /\ P[1] = <<"insert", v>> /\ P[2] = Commit /\ P[3] = hist /\ P[4] = Commit
      /\ P[5] = Recovers
  <2> HIDE DEF hist
  <2> QED
    BY <1>2, <1>3
<1> HIDE DEF P
<1>6. Ahead(P, 1) /\ Afresh(P, 1)
  <2>1. Reaches(P, 2, Commit)
    <3>1. 2 \in 2..Len(P) /\ 2..(2 - 1) = {}
      BY <1>5
    <3> QED
      BY <1>5, <3>1 DEF Reaches
  <2>2. DOMAIN P = 1..5
    BY <1>4, <1>5
  <2> QED
    BY <1>5, <2>1, <2>2 DEF Ahead, Afresh, Sealed, Retold
<1>7. Ahead(P, 3) /\ Afresh(P, 3)
  <2>1. Handled(P, 3)
    <3>1. 5 \in (3 + 1)..Len(P) /\ \A l \in (3 + 1)..(5 - 1) : P[l][1] # "except"
      <4>1. \A l \in (3 + 1)..(5 - 1) : l = 4
        OBVIOUS
      <4> QED
        BY <1>2, <1>5, <4>1
    <3> QED
      BY <1>5, <3>1 DEF Handled
  <2>2. DOMAIN P = 1..5
    BY <1>4, <1>5
  <2> QED
    BY <1>5, <2>1, <2>2 DEF Ahead, Afresh, Sealed, Retold
<1>8. \A i \in {2, 4, 5} : Ahead(P, i) /\ Afresh(P, i)
  BY <1>2, <1>5 DEF Ahead, Afresh, Sealed, Retold
<1>9. DOMAIN P = {1, 2, 3, 4, 5}
  BY <1>4, <1>5
<1> QED
  BY <1>4, <1>6, <1>7, <1>8, <1>9 DEF Programmes, Fresh, P

\* The start of update_video() and update_status().
LEMMA StatusFresh ==
  ASSUME NEW v \in Videos, NEW s \in Statuses, NEW m \in Methods
  PROVE  Guarded(<<<<"getstatus", v, s, m>>>>) \in Programmes
<1> DEFINE get == <<"getstatus", v, s, m>>
           P == <<get, Recovers>>
<1>1. /\ get \in Statement /\ Recovers \in Statement /\ Recovers[1] = "except"
  BY VideoStatement, PlainStatement DEF Recovers, Except
<1>2. P = Guarded(<<get>>)
  <2>1. P = <<get>> \o <<Recovers>>
    BY <1>1, Pieces
  <2> QED
    BY <2>1 DEF Guarded, Recovers
<1>3. P \in Seq(Statement) /\ Len(P) = 2 /\ DOMAIN P = {1, 2} /\ P[1] = get /\ P[2] = Recovers
  BY <1>1
<1> HIDE DEF P
<1>4. Handled(P, 1)
  <2>1. 2 \in (1 + 1)..Len(P) /\ (1 + 1)..(2 - 1) = {}
    BY <1>3
  <2> QED
    BY <1>3, <2>1 DEF Handled
<1>5. Ahead(P, 1) /\ Afresh(P, 1) /\ Ahead(P, 2) /\ Afresh(P, 2)
  BY <1>1, <1>3, <1>4 DEF Ahead, Afresh, Sealed, Retold
<1> QED
  BY <1>2, <1>3, <1>5 DEF Programmes, Fresh

\* The methods of videos.
LEMMA VideosFresh ==
  ASSUME NEW v \in Videos
  PROVE  /\ CreateVideo(v) \in Programmes /\ EditVideo(v) \in Programmes
         /\ DeleteVideo(v) \in Programmes /\ HardDeleteVideo(v) \in Programmes
         /\ RestoreVideo(v) \in Programmes
         /\ Get(v) \in Programmes /\ Export(v) \in Programmes
         /\ \A s \in Statuses : UpdateVideo(v, s) \in Programmes /\ UpdateStatus(v, s) \in Programmes
<1>1. Get(v) \in Programmes /\ GetAny(v) \in Programmes /\ Export(v) \in Programmes
  BY VideoStatement, IdleFresh DEF Get, GetAny, Export, Idle
<1>2. \A what \in {"edit", "hide", "show", "remove"} : <<<<what, v>>, Commit>> \in Programmes
  BY VideoStatement, SealFresh
<1>3. Guarded(Get(v) \o <<<<"hide", v>>, Commit>>) \in Programmes
  BY <1>1, <1>2, JoinFresh, GuardedFresh
<1>4. \A what \in {"edit", "show", "remove"} : Guarded(GetAny(v) \o <<<<what, v>>, Commit>>) \in Programmes
  BY <1>1, <1>2, JoinFresh, GuardedFresh
<1>5. /\ EditVideo(v) \in Programmes /\ DeleteVideo(v) \in Programmes
      /\ HardDeleteVideo(v) \in Programmes /\ RestoreVideo(v) \in Programmes
  BY <1>3, <1>4 DEF EditVideo, DeleteVideo, HardDeleteVideo, RestoreVideo
<1>6. \A s \in Statuses : UpdateVideo(v, s) \in Programmes /\ UpdateStatus(v, s) \in Programmes
  BY StatusFresh DEF UpdateVideo, UpdateStatus, Methods
<1> QED
  BY <1>1, <1>5, <1>6, CreateFresh

\* The methods of artists and collections.
LEMMA NamesFresh ==
  ASSUME NEW n \in Named
  PROVE  /\ UpsertNamed(n) \in Programmes /\ HideNamed(n) \in Programmes
         /\ \A v \in Videos : LinkNamed(v, n) \in Programmes /\ UnlinkNamed(v, n) \in Programmes
<1>1. "sql" \in Handlers /\ "raw" \in Handlers
  BY DEF Handlers
<1>2. UpsertNamed(n) \in Programmes
  <2>1. <<<<"find", n, "sql">>>> \in Programmes /\ <<<<"find", n, "raw">>>> \in Programmes
    BY <1>1, NamedStatement, IdleFresh DEF Idle
  <2> QED
    BY <2>1, GuardedFresh DEF UpsertNamed
<1>3. HideNamed(n) \in Programmes
  <2>1. <<"getnamed", n>> \in Statement /\ <<"hidenamed", n>> \in Statement /\ Commit \in Statement
    BY NamedStatement, PlainStatement
  <2>2. <<<<"getnamed", n>>>> \in Programmes /\ <<<<"hidenamed", n>>, Commit>> \in Programmes
    BY <2>1, IdleFresh, SealFresh DEF Idle
  <2>3. HideNamed(n) = <<<<"getnamed", n>>>> \o <<<<"hidenamed", n>>, Commit>>
    BY <2>1, Pieces DEF HideNamed
  <2> QED
    BY <2>2, <2>3, JoinFresh
<1>4. ASSUME NEW v \in Videos
      PROVE  LinkNamed(v, n) \in Programmes /\ UnlinkNamed(v, n) \in Programmes
  <2>1. <<<<"link", v, n, "sql">>, Commit>> \in Programmes /\ <<<<"link", v, n, "raw">>, Commit>> \in Programmes
    BY <1>1, NamedStatement, SealFresh
  <2>2. <<<<"unlink", v, n>>, Commit>> \in Programmes
    BY NamedStatement, SealFresh
  <2> QED
    BY <2>1, <2>2, GuardedFresh DEF LinkNamed, UnlinkNamed
<1> QED
  BY <1>2, <1>3, <1>4

\* delete_tag().
LEMMA DeleteFresh ==
  ASSUME NEW t \in Tags, NEW force \in BOOLEAN
  PROVE  DeleteTag(t, force) \in Programmes
<1>1. <<"gettag", t, force>> \in Statement /\ <<"deletetag", t>> \in Statement /\ Commit \in Statement
  BY TagStatement, PlainStatement
<1>2. <<<<"gettag", t, force>>>> \in Programmes /\ <<<<"deletetag", t>>, Commit>> \in Programmes
  BY <1>1, IdleFresh, SealFresh DEF Idle
<1>3. DeleteTag(t, force) = <<<<"gettag", t, force>>>> \o <<<<"deletetag", t>>, Commit>>
  BY <1>1, Pieces DEF DeleteTag
<1> QED
  BY <1>2, <1>3, JoinFresh

\* transaction() around a fresh program.
LEMMA TransactionFresh ==
  ASSUME NEW body \in Programmes
  PROVE  InTransaction(body) \in Programmes
<1>1. <<Commit, Except({"missing", "query", "sql", "busy", "raw"}, <<Rollback("transaction")>>)>> \in Programmes
  BY PlainFresh
<1>2. <<<<"begin">>>> \o body \in Programmes
  BY PlainFresh, JoinFresh
<1> QED
  BY <1>1, <1>2, JoinFresh DEF InTransaction

\* A bulk method around a fresh program for each video.
LEMMA EachFresh ==
  ASSUME NEW vs \in Seq(Videos), NEW body, \A v \in Videos : body[v] \in Programmes
  PROVE  Each(vs, body) \in Programmes
<1> DEFINE parts == [i \in 1..Len(vs) |-> body[vs[i]] \o <<Except({"missing", "query"}, <<>>)>>]
<1>1. \A i \in 1..Len(vs) : body[vs[i]] \o <<Except({"missing", "query"}, <<>>)>> \in Programmes
  <2>1. \A i \in 1..Len(vs) : body[vs[i]] \in Programmes
    OBVIOUS
  <2>2. <<Except({"missing", "query"}, <<>>)>> \in Programmes
    BY PlainFresh
  <2> QED
    BY <2>1, <2>2, JoinFresh
<1>2. parts \in Seq(Programmes)
  BY <1>1
<1> HIDE DEF parts
<1>3. FlattenSeq(parts) \in Programmes
  BY <1>2, FlattenFresh
<1> QED
  BY <1>3 DEF Each, parts

\* The bulk methods but bulk_apply_tags().
LEMMA BulksFresh ==
  ASSUME NEW vs \in Seq(Videos)
  PROVE  /\ \A s \in Statuses : BulkUpdateStatus(vs, s) \in Programmes
         /\ BulkOrganizeVideos(vs) \in Programmes /\ BulkAddToCollection(vs) \in Programmes
         /\ \A hard \in BOOLEAN : BulkDeleteVideos(vs, hard) \in Programmes
<1>1. ASSUME NEW body, \A v \in Videos : body[v] \in Programmes
      PROVE  InTransaction(Each(vs, body)) \in Programmes
  BY <1>1, EachFresh, TransactionFresh
<1>2. ASSUME NEW s \in Statuses
      PROVE  BulkUpdateStatus(vs, s) \in Programmes
  <2> DEFINE body == [v \in Videos |-> UpdateStatus(v, s)]
  <2>1. \A v \in Videos : body[v] \in Programmes
    BY VideosFresh
  <2> HIDE DEF body
  <2>2. InTransaction(Each(vs, body)) \in Programmes
    BY <1>1, <2>1
  <2> QED
    BY <2>2 DEF BulkUpdateStatus, body
<1>3. BulkOrganizeVideos(vs) \in Programmes
  <2> DEFINE body == [v \in Videos |-> EditVideo(v)]
  <2>1. \A v \in Videos : body[v] \in Programmes
    BY VideosFresh
  <2> HIDE DEF body
  <2>2. InTransaction(Each(vs, body)) \in Programmes
    BY <1>1, <2>1
  <2> QED
    BY <2>2 DEF BulkOrganizeVideos, body
<1>4. ASSUME NEW hard \in BOOLEAN
      PROVE  BulkDeleteVideos(vs, hard) \in Programmes
  <2> DEFINE body == [v \in Videos |-> IF hard THEN HardDeleteVideo(v) ELSE DeleteVideo(v)]
  <2>1. \A v \in Videos : body[v] \in Programmes
    BY VideosFresh
  <2> HIDE DEF body
  <2>2. InTransaction(Each(vs, body)) \in Programmes
    BY <1>1, <2>1
  <2> QED
    BY <2>2 DEF BulkDeleteVideos, body
<1>5. BulkAddToCollection(vs) \in Programmes
  <2> DEFINE body == [v \in Videos |-> LinkNamed(v, "collection")]
  <2>1. "collection" \in Named
    BY DEF Named
  <2>2. \A v \in Videos : body[v] \in Programmes
    BY <2>1, NamesFresh
  <2>3. <<<<"getnamed", "collection">>>> \in Programmes
    BY <2>1, NamedStatement, IdleFresh DEF Idle
  <2> HIDE DEF body
  <2>4. InTransaction(Each(vs, body)) \in Programmes
    BY <1>1, <2>2
  <2>5. <<<<"getnamed", "collection">>>> \o InTransaction(Each(vs, body)) \in Programmes
    BY <2>3, <2>4, JoinFresh
  <2> QED
    BY <2>5 DEF BulkAddToCollection, body
<1> QED
  BY <1>2, <1>3, <1>4, <1>5

-----------------------------------------------------------------------------
(* Tags *)

\* How programs are put together does not matter. As a relation, so that the
\* three programs it is about can be named.
Rejoins(a, b, c) == (a \o b) \o c = a \o (b \o c)
LEMMA Rejoined == \A a, b, c \in Seq(Statement) : Rejoins(a, b, c)
BY ConcatAssociative DEF Rejoins

LEMMA Assoc ==
  ASSUME NEW a \in Seq(Statement), NEW b \in Seq(Statement), NEW c \in Seq(Statement)
  PROVE  (a \o b) \o c = a \o (b \o c)
BY Rejoined DEF Rejoins

\* Four of them.
RejoinsFour(a, b, c, d) ==
  (a \o (b \o c)) \o d = a \o (b \o (c \o d))
LEMMA Regroup == \A a, b, c, d \in Seq(Statement) : RejoinsFour(a, b, c, d)
<1> SUFFICES ASSUME NEW a \in Seq(Statement), NEW b \in Seq(Statement), NEW c \in Seq(Statement),
                    NEW d \in Seq(Statement)
             PROVE  RejoinsFour(a, b, c, d)
  OBVIOUS
<1>1. b \o c \in Seq(Statement)
  BY SequelType
<1>2. Rejoins(a, b \o c, d) /\ Rejoins(b, c, d)
  BY <1>1, Rejoined
<1> QED
  BY <1>2, Zenon DEF Rejoins, RejoinsFour

\* Five of them.
RejoinsFive(a, b, c, d, e) ==
  (a \o ((b \o c) \o d)) \o e = a \o (b \o (c \o (d \o e)))
LEMMA RegroupFive == \A a, b, c, d, e \in Seq(Statement) : RejoinsFive(a, b, c, d, e)
<1> SUFFICES ASSUME NEW a \in Seq(Statement), NEW b \in Seq(Statement), NEW c \in Seq(Statement),
                    NEW d \in Seq(Statement), NEW e \in Seq(Statement)
             PROVE  RejoinsFive(a, b, c, d, e)
  OBVIOUS
<1>1. c \o d \in Seq(Statement)
  BY SequelType
<1>2. b \o (c \o d) \in Seq(Statement)
  BY <1>1, SequelType
<1>3. /\ Rejoins(b, c, d) /\ Rejoins(c, d, e)
      /\ Rejoins(b, c \o d, e) /\ Rejoins(a, b \o (c \o d), e)
  BY <1>1, <1>2, Rejoined
<1> QED
  BY <1>3, Zenon DEF Rejoins, RejoinsFive

\* Six of them, two by two.
RejoinsPairs(a, b, c, d, e, f) ==
  ((a \o (b \o (c \o d))) \o e) \o f = a \o ((b \o c) \o ((d \o e) \o f))
LEMMA RegroupPairs == \A a, b, c, d, e, f \in Seq(Statement) : RejoinsPairs(a, b, c, d, e, f)
<1> SUFFICES ASSUME NEW a \in Seq(Statement), NEW b \in Seq(Statement), NEW c \in Seq(Statement),
                    NEW d \in Seq(Statement), NEW e \in Seq(Statement), NEW f \in Seq(Statement)
             PROVE  RejoinsPairs(a, b, c, d, e, f)
  OBVIOUS
<1>1. b \o c \in Seq(Statement) /\ d \o e \in Seq(Statement)
  BY SequelType
<1>2. (b \o c) \o d \in Seq(Statement) /\ (b \o c) \o (d \o e) \in Seq(Statement)
  BY <1>1, SequelType
<1>3. /\ Rejoins(b, c, d) /\ Rejoins(a, (b \o c) \o d, e) /\ Rejoins(b \o c, d, e)
      /\ Rejoins(a, (b \o c) \o (d \o e), f) /\ Rejoins(b \o c, d \o e, f)
  BY <1>1, <1>2, Rejoined
<1> QED
  BY <1>3, Zenon DEF Rejoins, RejoinsPairs

\* A statement is reached where it is.
LEMMA ReachesSelf ==
  ASSUME NEW s \in Statement
  PROVE  Reaches(<<s>>, 1, s)
<1>1. 1 \in 1..Len(<<s>>) /\ 1..(1 - 1) = {} /\ <<s>>[1] = s
  OBVIOUS
<1> QED
  BY <1>1 DEF Reaches

\* A commit and an export.
LEMMA CommitExport ==
  ASSUME NEW v \in Videos
  PROVE  LET Q == <<Commit>> \o Export(v) IN
         Q \in Programmes /\ Reaches(Q, 1, Commit) /\ Reaches(Q, 1, <<"export", v>>)
<1> DEFINE Q == <<Commit>> \o Export(v)
<1>1. <<Commit>> \in Programmes /\ Export(v) \in Programmes
  BY PlainFresh, VideosFresh
<1>2. Q \in Programmes
  BY <1>1, JoinFresh
<1>3. <<"export", v>> \in Statement /\ Commit \in Statement
  BY VideoStatement, PlainStatement
<1>4. Reaches(<<Commit>>, 1, Commit) /\ Reaches(Export(v), 1, <<"export", v>>)
  BY <1>3, ReachesSelf DEF Export
<1>5. Reaches(Q, 1, Commit)
  <2>1. <<Commit>> \in Seq(Statement) /\ Export(v) \in Seq(Statement) /\ 1 \in Nat /\ 1 > 0
    BY <1>1 DEF Programmes
  <2> QED
    BY <1>4, <2>1, ReachesStarts
<1>6. Lull(<<Commit>>)
  BY <1>3, LullOne DEF Commit, Calm
<1>7. Reaches(Q, 1, <<"export", v>>)
  <2>1. 1 \in 1..(Len(<<Commit>>) + 1)
    OBVIOUS
  <2> QED
    BY <1>1, <1>4, <1>6, <2>1, LullReaches DEF Programmes
<1> QED
  BY <1>2, <1>5, <1>7

\* A tag is looked up, or made, and put on a video; what else the list writes.
LEMMA TagOnParts ==
  ASSUME NEW v \in Videos, NEW t \in Tags, NEW source \in {"manual", "auto"}
  PROVE  LET Y == UpsertTag(t) \o <<<<"addtag", v, source>>>> IN
         /\ TagOn(v, t, source) = Y \o <<Commit>>
         /\ Lull(Y) /\ \A i \in 1..Len(Y) : Y[i][1] \in Retold => Y[i][2] = v
<1> DEFINE add == <<"addtag", v, source>>
           Y == UpsertTag(t) \o <<add>>
<1>1. <<"findtag", t>> \in Statement /\ add \in Statement /\ Commit \in Statement
  BY TagStatement, PlainStatement
<1>2. UpsertTag(t) \in Seq(Statement) /\ <<add>> \in Seq(Statement) /\ <<Commit>> \in Seq(Statement)
  BY <1>1 DEF UpsertTag
<1>3. TagOn(v, t, source) = Y \o <<Commit>>
  <2>1. AddTag(v, source) = <<add>> \o <<Commit>>
    BY <1>1, Pieces DEF AddTag
  <2> HIDE DEF add
  <2> QED
    BY <1>2, <2>1, Assoc DEF TagOn
<1>4. Lull(Y)
  BY <1>1, LullOne, LullJoin DEF UpsertTag, Calm
<1>5. Len(Y) = 2 /\ Y[1] = <<"findtag", t>> /\ Y[2] = add
  <2>1. Y = <<<<"findtag", t>>>> \o <<add>>
    BY DEF UpsertTag
  <2> HIDE DEF Y, add
  <2> QED
    BY <1>1, <2>1
<1>6. \A i \in 1..Len(Y) : Y[i][1] \in Retold => Y[i][2] = v
  <2>1. \A i \in 1..2 : i = 1 \/ i = 2
    OBVIOUS
  <2> HIDE DEF Y
  <2> QED
    BY <1>5, <2>1 DEF Retold
<1> QED
  BY <1>3, <1>4, <1>6

\* auto_add_decade_tag() of an import commits what it writes.
LEMMA ImportFresh ==
  ASSUME NEW v \in Videos, NEW t \in Tags
  PROVE  ImportTag(v, t) \in Programmes
<1> DEFINE add == <<"importtag", v>>
           Y == UpsertTag(t) \o <<add>>
           Q == <<Commit>>
<1>1. <<"findtag", t>> \in Statement /\ add \in Statement /\ Commit \in Statement
  BY TagStatement, VideoStatement, PlainStatement
<1>2. UpsertTag(t) \in Seq(Statement) /\ <<add>> \in Seq(Statement) /\ Q \in Seq(Statement)
  BY <1>1 DEF UpsertTag
<1>3. ImportTag(v, t) = Y \o Q
  <2>1. <<add, Commit>> = <<add>> \o Q
    BY <1>1, Pieces
  <2>2. Y \o Q = UpsertTag(t) \o (<<add>> \o Q)
    <3> HIDE DEF add, Q
    <3> QED
      BY <1>2, Assoc
  <2> QED
    BY <2>1, <2>2, Zenon DEF ImportTag
<1>4. Lull(Y)
  BY <1>1, LullOne, LullJoin DEF UpsertTag, Calm
<1>5. Len(Y) = 2 /\ Y[1] = <<"findtag", t>> /\ Y[2] = add
  <2>1. Y = <<<<"findtag", t>>>> \o <<add>>
    BY DEF UpsertTag
  <2> HIDE DEF Y, add
  <2> QED
    BY <1>1, <2>1
<1>6. Q \in Programmes /\ Reaches(Q, 1, Commit)
  <2>1. Q \in Programmes
    BY <1>1, IdleFresh DEF Idle, Commit
  <2>2. 1 \in 1..Len(Q) /\ 1..(1 - 1) = {} /\ Q[1] = Commit
    BY <1>1
  <2> QED
    BY <2>1, <2>2 DEF Reaches
<1>7. \A i \in 1..Len(Y) : Y[i][1] \notin Retold
  <2>1. \A i \in 1..2 : i = 1 \/ i = 2
    OBVIOUS
  <2> HIDE DEF Y
  <2> QED
    BY <1>5, <2>1 DEF Retold
<1> HIDE DEF Y, Q
<1> QED
  BY <1>3, <1>4, <1>6, <1>7, LullFresh

\* Something that writes tags of one video, with a commit and an export.
LEMMA TaggingFresh ==
  ASSUME NEW v \in Videos, NEW X, Lull(X), \A i \in 1..Len(X) : X[i][1] \in Retold => X[i][2] = v
  PROVE  X \o (<<Commit>> \o Export(v)) \in Programmes
<1> DEFINE Q == <<Commit>> \o Export(v)
<1>1. Q \in Programmes /\ Reaches(Q, 1, Commit) /\ Reaches(Q, 1, <<"export", v>>)
  BY CommitExport
<1> HIDE DEF Q
<1>2. X \o Q \in Programmes
  BY <1>1, LullFresh
<1> QED
  BY <1>2 DEF Q

\* The same of two lists of such statements.
LEMMA TellsJoin ==
  ASSUME NEW X \in Seq(Statement), NEW Y \in Seq(Statement), NEW v,
         \A i \in 1..Len(X) : X[i][1] \in Retold => X[i][2] = v,
         \A i \in 1..Len(Y) : Y[i][1] \in Retold => Y[i][2] = v
  PROVE  \A i \in 1..Len(X \o Y) : (X \o Y)[i][1] \in Retold => (X \o Y)[i][2] = v
<1> SUFFICES ASSUME NEW i \in 1..Len(X \o Y)
             PROVE  (X \o Y)[i][1] \in Retold => (X \o Y)[i][2] = v
  OBVIOUS
<1>1. \/ i \in 1..Len(X) /\ (X \o Y)[i] = X[i]
      \/ i - Len(X) \in 1..Len(Y) /\ (X \o Y)[i] = Y[i - Len(X)]
  OBVIOUS
<1> QED
  BY <1>1

\* One program twice, and four after it.
RejoinsTwice(a, b, c, d, e) ==
  (a \o ((a \o b) \o (c \o d))) \o e = a \o (a \o ((b \o c) \o (d \o e)))
LEMMA RegroupTwice == \A a, b, c, d, e \in Seq(Statement) : RejoinsTwice(a, b, c, d, e)
<1> SUFFICES ASSUME NEW a \in Seq(Statement), NEW b \in Seq(Statement), NEW c \in Seq(Statement),
                    NEW d \in Seq(Statement), NEW e \in Seq(Statement)
             PROVE  RejoinsTwice(a, b, c, d, e)
  OBVIOUS
<1>1. b \o c \in Seq(Statement) /\ c \o d \in Seq(Statement)
  BY SequelType
<1>2. (b \o c) \o d \in Seq(Statement)
  BY <1>1, SequelType
<1>3. a \o ((b \o c) \o d) \in Seq(Statement)
  BY <1>2, SequelType
<1>4. /\ Rejoins(a, b, c \o d) /\ Rejoins(b, c, d)
      /\ Rejoins(a, a \o ((b \o c) \o d), e) /\ Rejoins(a, (b \o c) \o d, e)
      /\ Rejoins(b \o c, d, e)
  BY <1>1, <1>2, <1>3, Rejoined
<1> QED
  BY <1>4, Zenon DEF Rejoins, RejoinsTwice

\* Two reads of a video, what writes tags of it, a commit and an export.
LEMMA PlacedFresh ==
  ASSUME NEW v \in Videos, NEW g \in Programmes, NEW w, NEW y, NEW c \in Seq(Statement), NEW e \in Seq(Statement),
         Lull(w), Lull(y), c = <<Commit>>, e = Export(v),
         \A i \in 1..Len(w) : w[i][1] \in Retold => w[i][2] = v,
         \A i \in 1..Len(y) : y[i][1] \in Retold => y[i][2] = v
  PROVE  (g \o ((g \o w) \o (y \o c))) \o e \in Programmes
<1>1. /\ g \in Seq(Statement) /\ w \in Seq(Statement) /\ y \in Seq(Statement)
      /\ c \in Seq(Statement) /\ e \in Seq(Statement)
  BY DEF Programmes, Lull
<1>2. (w \o y) \o (c \o e) \in Programmes
  <2>1. Lull(w \o y)
    BY LullJoin
  <2>2. \A i \in 1..Len(w \o y) : (w \o y)[i][1] \in Retold => (w \o y)[i][2] = v
    BY <1>1, TellsJoin
  <2> QED
    BY <2>1, <2>2, TaggingFresh
<1>3. (g \o ((g \o w) \o (y \o c))) \o e = g \o (g \o ((w \o y) \o (c \o e)))
  <2>1. RejoinsTwice(g, w, y, c, e)
    BY <1>1, RegroupTwice
  <2> QED
    BY <2>1 DEF RejoinsTwice
<1>4. g \o (g \o ((w \o y) \o (c \o e))) \in Programmes
  BY <1>2, JoinFresh
<1> QED
  BY <1>3, <1>4

\* set_video_tags() with a tag.
LEMMA SetTagsFresh ==
  ASSUME NEW v \in Videos, NEW t \in Tags, NEW replace \in BOOLEAN
  PROVE  SetVideoTags(v, <<t>>, replace) \in Programmes
<1> DEFINE G == Get(v)
           W == Wiped(v, replace)
           Y == UpsertTag(t) \o <<<<"addtag", v, "manual">>>>
           C == <<Commit>>
           E == Export(v)
<1>1. G \in Programmes /\ E \in Programmes /\ C \in Programmes
  BY VideosFresh, PlainFresh
<1>2. TagOn(v, t, "manual") = Y \o C /\ Lull(Y) /\ \A i \in 1..Len(Y) : Y[i][1] \in Retold => Y[i][2] = v
  BY TagOnParts
<1>3. Lull(W) /\ \A i \in 1..Len(W) : W[i][1] \in Retold => W[i][2] = v
  <2>1. CASE replace
    <3>1. W = <<<<"wipe", v>>>> /\ <<"wipe", v>> \in Statement
      BY <2>1, VideoStatement DEF Wiped
    <3>2. Lull(<<<<"wipe", v>>>>)
      BY <3>1, LullOne DEF Calm
    <3> QED
      BY <3>1, <3>2
  <2>2. CASE ~replace
    BY <2>2 DEF Wiped, Lull
  <2> QED
    BY <2>1, <2>2
<1>4. FlattenSeq([i \in 1..Len(<<t>>) |-> TagOn(v, <<t>>[i], "manual")]) = Y \o C
  <2>1. TagOn(v, t, "manual") \in Seq(Statement)
    BY TagProgrammes, SequelType
  <2>2. [i \in 1..Len(<<t>>) |-> TagOn(v, <<t>>[i], "manual")] = [i \in 1..1 |-> TagOn(v, t, "manual")]
    OBVIOUS
  <2> QED
    BY <1>2, <2>1, <2>2, FlattenOne
<1>5. SetVideoTags(v, <<t>>, replace) = (G \o ((G \o W) \o (Y \o C))) \o E
  BY <1>4 DEF SetVideoTags, SetTags
<1> HIDE DEF G, W, Y, C, E
<1>6. /\ G \in Seq(Statement) /\ W \in Seq(Statement) /\ Y \in Seq(Statement) /\ C \in Seq(Statement)
      /\ E \in Seq(Statement)
  BY <1>1, <1>2, <1>3 DEF Programmes, Lull
<1>7. (G \o ((G \o W) \o (Y \o C))) \o E \in Programmes
  <2>1. C = <<Commit>> /\ E = Export(v)
    BY DEF C, E
  <2> QED
    BY <1>1, <1>2, <1>3, <1>6, <2>1, PlacedFresh
<1> QED
  BY <1>5, <1>7

\* remove_video_tag().
LEMMA RemoveTagFresh ==
  ASSUME NEW v \in Videos, NEW t \in Tags
  PROVE  RemoveVideoTag(v, t) \in Programmes
<1> DEFINE G == Get(v) \o <<<<"gettag", t, TRUE>>>>
           N == <<<<"untag", v>>>>
           C == <<Commit>>
           E == Export(v)
<1>1. <<"gettag", t, TRUE>> \in Statement /\ <<"untag", v>> \in Statement /\ Commit \in Statement
  BY TagStatement, VideoStatement, PlainStatement
<1>2. G \in Programmes
  <2>1. <<<<"gettag", t, TRUE>>>> \in Programmes
    BY <1>1, IdleFresh DEF Idle
  <2> QED
    BY <2>1, VideosFresh, JoinFresh
<1>3. Lull(N) /\ \A i \in 1..Len(N) : N[i][1] \in Retold => N[i][2] = v
  <2>1. Lull(N)
    BY <1>1, LullOne DEF Calm
  <2> QED
    BY <2>1
<1>4. C \in Programmes /\ E \in Programmes
  BY VideosFresh, PlainFresh
<1>5. RemoveVideoTag(v, t) = (G \o (N \o C)) \o E
  <2>1. Untag(v) = N \o C
    BY <1>1, Pieces DEF Untag
  <2> QED
    BY <2>1 DEF RemoveVideoTag
<1>6. N \o (C \o E) \in Programmes
  BY <1>3, TaggingFresh
<1> HIDE DEF G, N, C, E
<1>7. (G \o (N \o C)) \o E = G \o (N \o (C \o E))
  <2>1. G \in Seq(Statement) /\ C \in Seq(Statement) /\ E \in Seq(Statement)
    BY <1>2, <1>4 DEF Programmes
  <2>2. N \in Seq(Statement)
    BY <1>3 DEF Lull
  <2>3. RejoinsFour(G, N, C, E)
    BY <2>1, <2>2, Regroup
  <2> QED
    BY <2>3 DEF RejoinsFour
<1>8. G \o (N \o (C \o E)) \in Programmes
  BY <1>2, <1>6, JoinFresh
<1> QED
  BY <1>5, <1>7, <1>8

-----------------------------------------------------------------------------
(* Tags of many videos *)

\* The decade job's tag in a transaction, and the export after it.
LEMMA ChangedFresh ==
  ASSUME NEW v \in Videos, NEW b \in Programmes, NEW f, NEW y, NEW c \in Seq(Statement),
         NEW k \in Programmes, NEW e \in Seq(Statement),
         Lull(f), Lull(y), Lull(k), c = <<Commit>>, e = Export(v),
         \A i \in 1..Len(f) : f[i][1] \in Retold => f[i][2] = v,
         \A i \in 1..Len(y) : y[i][1] \in Retold => y[i][2] = v
  PROVE  ((b \o (f \o (y \o c))) \o k) \o e \in Programmes
<1>1. /\ b \in Seq(Statement) /\ f \in Seq(Statement) /\ y \in Seq(Statement) /\ k \in Seq(Statement)
      /\ c \in Seq(Statement) /\ e \in Seq(Statement)
  BY DEF Programmes, Lull
<1>2. c \in Programmes /\ e \in Programmes /\ Reaches(c, 1, Commit) /\ Reaches(e, 1, <<"export", v>>)
  BY PlainFresh, VideosFresh, VideoStatement, PlainStatement, ReachesSelf DEF Export
<1>3. Lull(c)
  BY PlainStatement, LullOne DEF Commit, Calm
<1>4. PICK x \in Seq(Statement) : x = f \o y
  BY <1>1, SequelType
<1>5. Lull(x) /\ \A i \in 1..Len(x) : x[i][1] \in Retold => x[i][2] = v
  BY <1>1, <1>4, LullJoin, TellsJoin
<1>6. PICK q \in Programmes : q = (c \o k) \o e
  BY <1>2, JoinFresh
<1>7. Reaches(q, 1, Commit)
  <2>1. 1 \in Nat /\ 1 > 0 /\ 1 \in 1..(Len(c \o k) + 1)
    <3>1. c \o k \in Seq(Statement)
      BY <1>1, SequelType
    <3> QED
      BY <3>1
  <2>2. Reaches(c \o k, 1, Commit)
    BY <1>1, <1>2, <2>1, ReachesStarts
  <2>3. c \o k \in Seq(Statement)
    BY <1>1, SequelType
  <2> QED
    BY <1>1, <1>6, <2>1, <2>2, <2>3, ReachesStarts
<1>8. Reaches(q, 1, <<"export", v>>)
  <2>1. Lull(c \o k)
    BY <1>3, LullJoin
  <2>2. 1 \in 1..(Len(c \o k) + 1)
    <3>1. c \o k \in Seq(Statement)
      BY <1>1, SequelType
    <3> QED
      BY <3>1
  <2> QED
    BY <1>1, <1>2, <1>6, <2>1, <2>2, LullReaches
<1>9. x \o q \in Programmes
  BY <1>5, <1>7, <1>8, LullFresh
<1>10. b \o (x \o q) \in Programmes
  BY <1>9, JoinFresh
<1>11. ((b \o (f \o (y \o c))) \o k) \o e = b \o ((f \o y) \o ((c \o k) \o e))
  <2>1. RejoinsPairs(b, f, y, c, k, e)
    BY <1>1, RegroupPairs
  <2> QED
    BY <2>1 DEF RejoinsPairs
<1> QED
  BY <1>4, <1>6, <1>10, <1>11, Zenon

\* update_decade_tag().
LEMMA DecadeFresh ==
  ASSUME NEW v \in Videos, NEW old \in Tags, NEW new \in Tags
  PROVE  UpdateDecadeTag(v, old, new) \in Programmes
<1> DEFINE F == <<<<"findauto", v, {old}>>>>
           Y == UpsertTag(new) \o <<<<"addtag", v, "auto">>>>
           C == <<Commit>>
           K == <<Commit, Except({"missing", "query", "sql", "busy", "raw"}, <<Rollback("transaction")>>)>>
           B == <<<<"begin">>>>
           E == Export(v)
<1>1. B \in Programmes /\ K \in Programmes /\ C \in Programmes /\ E \in Programmes
  BY PlainFresh, VideosFresh
<1>2. TagOn(v, new, "auto") = Y \o C /\ Lull(Y) /\ \A i \in 1..Len(Y) : Y[i][1] \in Retold => Y[i][2] = v
  BY TagOnParts
<1>3. Lull(F) /\ \A i \in 1..Len(F) : F[i][1] \in Retold => F[i][2] = v
  <2>1. <<"findauto", v, {old}>> \in Statement
    BY TagStatement
  <2>2. Lull(F)
    BY <2>1, LullOne DEF Calm
  <2> QED
    BY <2>2
<1>4. Lull(K)
  <2>1. Commit \in Statement /\ Except({"missing", "query", "sql", "busy", "raw"}, <<Rollback("transaction")>>) \in Statement
    BY PlainStatement
  <2>2. Lull(<<Commit>>)
    BY <2>1, LullOne DEF Commit, Calm
  <2>3. Lull(<<Except({"missing", "query", "sql", "busy", "raw"}, <<Rollback("transaction")>>)>>)
    BY <2>1, LullOne DEF Except, Calm
  <2>4. K = <<Commit>> \o <<Except({"missing", "query", "sql", "busy", "raw"}, <<Rollback("transaction")>>)>>
    BY <2>1, Pieces
  <2> QED
    BY <2>2, <2>3, <2>4, LullJoin
<1>5. UpdateDecadeTag(v, old, new) = ((B \o (F \o (Y \o C))) \o K) \o E
  BY <1>2 DEF UpdateDecadeTag, InTransaction
<1>6. C = <<Commit>> /\ E = Export(v) /\ C \in Seq(Statement) /\ E \in Seq(Statement)
  BY <1>1 DEF Programmes
<1> HIDE DEF F, Y, C, K, B, E
<1>7. ((B \o (F \o (Y \o C))) \o K) \o E \in Programmes
  BY <1>1, <1>2, <1>3, <1>4, <1>6, ChangedFresh
<1> QED
  BY <1>5, <1>7

\* One video of the decade tag job.
LEMMA SyncFresh ==
  ASSUME NEW v \in Videos, NEW t \in Tags, NEW mode \in {"apply", "remove", "migrate"}
  PROVE  SyncDecadeTags(v, t, mode) \in Programmes
<1> DEFINE a == IF mode # "apply" THEN <<<<"findauto", v, Tags>>>> ELSE <<>>
           Y == UpsertTag(t) \o <<<<"addtag", v, "auto">>>>
           put == IF mode # "remove" THEN TagOn(v, t, "auto") ELSE <<>>
           E == Export(v)
           last == <<Except({"raw"}, <<>>)>>
<1>1. E \in Programmes /\ last \in Programmes
  BY PlainFresh, VideosFresh
<1>2. TagOn(v, t, "auto") = Y \o <<Commit>> /\ Lull(Y) /\ \A i \in 1..Len(Y) : Y[i][1] \in Retold => Y[i][2] = v
  BY TagOnParts
<1>3. Lull(a) /\ \A i \in 1..Len(a) : a[i][1] = "findauto" /\ a[i][2] = v
  <2>1. CASE mode # "apply"
    <3>1. <<"findauto", v, Tags>> \in Statement
      BY TagStatement
    <3>2. Lull(<<<<"findauto", v, Tags>>>>)
      BY <3>1, LullOne DEF Calm
    <3> QED
      BY <2>1, <3>2
  <2>2. CASE mode = "apply"
    BY <2>2 DEF Lull
  <2> QED
    BY <2>1, <2>2
<1>4. SyncDecadeTags(v, t, mode) = ((a \o put) \o E) \o last
  BY DEF SyncDecadeTags
<1>5. (a \o put) \o E \in Programmes
  <2> HIDE DEF a
  <2>1. CASE mode # "remove"
    <3>1. PICK x \in Seq(Statement), y \in Seq(Statement), c \in Seq(Statement), e \in Seq(Statement) :
            x = a /\ y = Y /\ c = <<Commit>> /\ e = E
      BY <1>1, <1>2, <1>3, PlainFresh DEF Lull, Programmes
    <3>2. put = y \o c
      BY <1>2, <2>1, <3>1
    <3> HIDE DEF E, Y, put
    <3>3. Lull(x \o y)
      BY <1>2, <1>3, <3>1, LullJoin
    <3>4. \A i \in 1..Len(x \o y) : (x \o y)[i][1] \in Retold => (x \o y)[i][2] = v
      BY <1>2, <1>3, <3>1, TellsJoin
    <3>5. (x \o y) \o (<<Commit>> \o Export(v)) \in Programmes
      BY <3>3, <3>4, TaggingFresh
    <3>6. (x \o y) \o (c \o e) \in Programmes
      BY <3>1, <3>5 DEF E
    <3>7. x \o (y \o c) = (x \o y) \o c
      BY Assoc, SMTT(30)
    <3>8. ((x \o y) \o c) \o e = (x \o y) \o (c \o e)
      <4>1. x \o y \in Seq(Statement)
        BY SequelType
      <4> QED
        BY <4>1, Assoc
    <3>9. (x \o (y \o c)) \o e \in Programmes
      BY <3>6, <3>7, <3>8, Zenon
    <3> QED
      BY <3>1, <3>2, <3>9
  <2>2. CASE mode = "remove"
    <3>1. Reaches(E, 1, <<"export", v>>)
      BY VideoStatement, ReachesSelf DEF Export
    <3>2. a \o E \in Programmes
      <4> HIDE DEF E
      <4>1. \A i \in 1..Len(a) : a[i][1] \notin Sealed /\ a[i][2] = v
        BY <1>3 DEF Sealed
      <4> QED
        BY <1>1, <1>3, <3>1, <4>1, LullFresh
    <3>3. a \o <<>> = a
      BY <1>3 DEF Lull
    <3> QED
      BY <2>2, <3>2, <3>3
  <2> QED
    BY <2>1, <2>2
<1> HIDE DEF a, put, E, last
<1>6. ((a \o put) \o E) \o last \in Programmes
  BY <1>1, <1>5, JoinFresh
<1> QED
  BY <1>4, <1>6

\* Every video is one of a list of them all.
LEMMA ListedAll ==
  Both \in Seq(Videos) /\ \A v \in Videos : \E i \in 1..Len(Both) : Both[i] = v
<1> DEFINE n == Cardinality(Videos)
<1>1. IsFiniteSet(Videos) /\ n \in Nat /\ ExistsBijection(1..n, Videos)
  BY LibraryAssumption, FS_CardinalityType
<1>2. \E f \in [1..n -> Videos] : IsInjective(f)
  BY <1>1 DEF ExistsBijection, Bijection, Injection, IsInjective
<1>3. Both \in [1..n -> Videos] /\ IsInjective(Both)
  BY <1>2 DEF Both, SetToSeq
<1>4. Both \in Injection(1..n, Videos)
  BY <1>3 DEF IsInjective, Injection
<1>5. IsFiniteSet(1..n) /\ Cardinality(1..n) = n
  BY <1>1, FS_Interval
<1>6. Both \in Surjection(1..n, Videos)
  <2> HIDE DEF n
  <2>1. Cardinality(1..n) = Cardinality(Videos)
    BY <1>5 DEF n
  <2> QED
    BY <1>1, <1>4, <1>5, <2>1, FS_Injection
<1> HIDE DEF n
<1>7. Both \in Seq(Videos) /\ Len(Both) = n
  BY <1>1, <1>3
<1>8. \A v \in Videos : \E i \in 1..n : Both[i] = v
  BY <1>6 DEF Surjection
<1> QED
  BY <1>7, <1>8

\* A job exports them one after the other.
LEMMA SelectiveFresh ==
  ASSUME NEW vs \in Seq(Videos)
  PROVE  /\ ExportSelective(vs) \in Programmes
         /\ \A i \in 1..Len(vs) : Reaches(ExportSelective(vs), 1, <<"export", vs[i]>>)
<1> DEFINE parts == [i \in 1..Len(vs) |-> Export(vs[i])]
           S == FlattenSeq(parts)
           xs == [i \in 1..Len(vs) |-> <<"export", vs[i]>>]
<1>1. \A i \in 1..Len(vs) : vs[i] \in Videos
  OBVIOUS
<1>2. parts \in Seq(Programmes)
  BY <1>1, VideosFresh
<1>3. S \in Programmes
  <2> HIDE DEF parts
  <2> QED
    BY <1>2, FlattenFresh
<1>4. xs \in Seq(Statement) /\ Len(xs) = Len(vs) /\ \A i \in 1..Len(vs) : xs[i] = <<"export", vs[i]>>
  <2>1. \A i \in 1..Len(vs) : <<"export", vs[i]>> \in Statement
    BY <1>1, VideoStatement
  <2>2. Len(vs) \in Nat
    OBVIOUS
  <2> QED
    BY <2>1, <2>2
<1>5. parts = [i \in 1..Len(xs) |-> <<xs[i]>>]
  BY <1>4 DEF Export
<1>6. S = xs
  <2> HIDE DEF xs, parts
  <2> QED
    BY <1>4, <1>5, FlattenSingles
<1>7. ASSUME NEW j \in 1..Len(vs)
      PROVE  Reaches(S, 1, <<"export", vs[j]>>)
  <2>1. j \in 1..Len(S) /\ S[j] = <<"export", vs[j]>>
    BY <1>4, <1>6
  <2>2. \A i \in 1..(j - 1) : S[i][1] \in Calm /\ S[i][1] # "get"
    BY <1>4, <1>6 DEF Calm
  <2> HIDE DEF S
  <2> QED
    BY <2>1, <2>2 DEF Reaches
<1> QED
  BY <1>3, <1>7 DEF ExportSelective

\* Pieces put together to tuples.
LEMMA FourJoined ==
  ASSUME NEW a, NEW b, NEW c, NEW d
  PROVE  /\ (<<a>> \o <<b>> \o <<c>>) \o <<d>> = <<a, b, c, d>>
         /\ (<<a>> \o <<>> \o <<c>>) \o <<d>> = <<a, c, d>>
<1>1. PICK S : a \in S /\ b \in S /\ c \in S /\ d \in S
  <2>1. a \in {a, b, c, d} /\ b \in {a, b, c, d} /\ c \in {a, b, c, d} /\ d \in {a, b, c, d}
    OBVIOUS
  <2> QED
    BY <2>1
<1>2. <<a>> \o <<b>> = <<a, b>>
  BY <1>1, Pieces
<1>3. <<a, b>> \o <<c>> = <<a, b, c>>
  <2>1. <<a, b>> \o <<c>> \in Seq(S) /\ Len(<<a, b>> \o <<c>>) = Len(<<a, b, c>>)
        /\ \A i \in 1..Len(<<a, b, c>>) : <<a, b, c>>[i] = (<<a, b>> \o <<c>>)[i]
    BY <1>1
  <2>2. <<a, b, c>> \in Seq(S)
    BY <1>1
  <2> QED
    BY <2>1, <2>2, SeqEqual
<1>4. <<a, b, c>> \o <<d>> = <<a, b, c, d>>
  <2>1. <<a, b, c>> \o <<d>> \in Seq(S) /\ Len(<<a, b, c>> \o <<d>>) = Len(<<a, b, c, d>>)
        /\ \A i \in 1..Len(<<a, b, c, d>>) : <<a, b, c, d>>[i] = (<<a, b, c>> \o <<d>>)[i]
    BY <1>1
  <2>2. <<a, b, c, d>> \in Seq(S)
    BY <1>1
  <2> QED
    BY <2>1, <2>2, SeqEqual
<1>5. <<a>> \o <<>> = <<a>>
  <2>1. <<a>> \in Seq(S)
    BY <1>1
  <2> QED
    BY <2>1
<1>6. <<a>> \o <<c>> = <<a, c>>
  BY <1>1, Pieces
<1>7. <<a, c>> \o <<d>> = <<a, c, d>>
  <2>1. <<a, c>> \o <<d>> \in Seq(S) /\ Len(<<a, c>> \o <<d>>) = Len(<<a, c, d>>)
        /\ \A i \in 1..Len(<<a, c, d>>) : <<a, c, d>>[i] = (<<a, c>> \o <<d>>)[i]
    BY <1>1
  <2>2. <<a, c, d>> \in Seq(S)
    BY <1>1
  <2> QED
    BY <2>1, <2>2, SeqEqual
<1> QED
  BY <1>2, <1>3, <1>4, <1>5, <1>6, <1>7, Zenon

\* What a bulk method does with one video: it may wipe, it adds, and passes.
LEMMA TaggedLull ==
  ASSUME NEW v \in Videos, NEW replace \in BOOLEAN
  PROVE  Lull((Get(v) \o Wiped(v, replace) \o <<<<"addtag", v, "manual">>>>) \o <<Skip>>)
<1> DEFINE get == <<"get", v>>
           wipe == <<"wipe", v>>
           add == <<"addtag", v, "manual">>
           P == (Get(v) \o Wiped(v, replace) \o <<add>>) \o <<Skip>>
<1>1. /\ get \in Statement /\ wipe \in Statement /\ add \in Statement /\ Skip \in Statement
      /\ get[1] = "get" /\ wipe[1] = "wipe" /\ add[1] = "addtag" /\ Skip[1] = "except"
  BY VideoStatement, TagStatement, PlainStatement DEF Skip, Except
<1>2. CASE replace
  <2>1. P = (<<get>> \o <<wipe>> \o <<add>>) \o <<Skip>>
    BY <1>2 DEF Get, Wiped
  <2> HIDE DEF P, get, wipe, add
  <2>2. P \in Seq(Statement) /\ Len(P) = 4 /\ P[1] = get /\ P[2] = wipe /\ P[3] = add /\ P[4] = Skip
    <3>1. (<<get>> \o <<wipe>> \o <<add>>) \o <<Skip>> = <<get, wipe, add, Skip>>
      BY FourJoined
    <3>2. P = <<get, wipe, add, Skip>>
      BY <2>1, <3>1, Zenon
    <3> QED
      BY <1>1, <3>2
  <2>3. Passes(P, 1, 5)
    <3>1. 4 \in (1 + 1)..(5 - 1) /\ \A l \in (1 + 1)..(4 - 1) : l = 2 \/ l = 3
      OBVIOUS
    <3>2. P[2][1] # "except" /\ P[3][1] # "except"
      BY <1>1, <2>2
    <3> QED
      BY <2>2, <3>1, <3>2 DEF Passes
  <2>4. \A i \in 1..4 : i = 1 \/ i = 2 \/ i = 3 \/ i = 4
    OBVIOUS
  <2>5. Lull(P)
    BY <1>1, <2>2, <2>3, <2>4 DEF Lull, Calm
  <2> QED
    BY <2>5 DEF P, add
<1>3. CASE ~replace
  <2>1. P = (<<get>> \o <<>> \o <<add>>) \o <<Skip>>
    BY <1>3 DEF Get, Wiped
  <2> HIDE DEF P, get, wipe, add
  <2>2. P \in Seq(Statement) /\ Len(P) = 3 /\ P[1] = get /\ P[2] = add /\ P[3] = Skip
    BY <1>1, <2>1
  <2>3. Passes(P, 1, 4)
    <3>1. 3 \in (1 + 1)..(4 - 1) /\ \A l \in (1 + 1)..(3 - 1) : l = 2
      OBVIOUS
    <3>2. P[2][1] # "except"
      BY <1>1, <2>2
    <3> QED
      BY <2>2, <3>1, <3>2 DEF Passes
  <2>4. \A i \in 1..3 : i = 1 \/ i = 2 \/ i = 3
    OBVIOUS
  <2>5. Lull(P)
    BY <1>1, <2>2, <2>3, <2>4 DEF Lull, Calm
  <2> QED
    BY <2>5 DEF P, add
<1> QED
  BY <1>2, <1>3

\* All of the videos are tagged in a transaction and exported after it.
LEMMA ApplyFresh ==
  ASSUME NEW t \in Tags, NEW replace \in BOOLEAN
  PROVE  ApplyTags(Both, t, replace) \in Programmes
<1> DEFINE body == [v \in Videos |-> Get(v) \o Wiped(v, replace) \o <<<<"addtag", v, "manual">>>>]
           parts == [i \in 1..Len(Both) |-> body[Both[i]] \o <<Except({"missing", "query"}, <<>>)>>]
           U == UpsertTag(t)
           B == <<<<"begin">>>>
           M == FlattenSeq(parts)
           K == <<Commit, Except({"missing", "query", "sql", "busy", "raw"}, <<Rollback("transaction")>>)>>
           S == ExportSelective(Both)
           T == {P \in Seq(Statement) : Lull(P)}
<1>1. Lull(M)
  <2>1. \A i \in 1..Len(Both) : Both[i] \in Videos
    BY ListedAll
  <2>2. \A i \in 1..Len(Both) : body[Both[i]] \o <<Except({"missing", "query"}, <<>>)>> \in T
    <3>1. \A v \in Videos : Lull(body[v] \o <<Except({"missing", "query"}, <<>>)>>)
      BY TaggedLull DEF Skip
    <3> QED
      BY <2>1, <3>1 DEF Lull
  <2>3. parts \in Seq(T)
    <3> HIDE DEF body, T
    <3>1. Len(Both) \in Nat
      BY ListedAll
    <3> QED
      BY <2>2, <3>1
  <2>4. \A a, b \in T : a \o b \in T
    BY LullJoin DEF Lull
  <2>5. <<>> \in T /\ T \subseteq Seq(Statement)
    BY DEF Lull
  <2>6. M \in T
    <3> HIDE DEF parts, T
    <3> QED
      BY <2>3, <2>4, <2>5, FlattenIn
  <2> QED
    BY <2>6
<1>2. B \in Programmes /\ K \in Programmes /\ U \in Programmes /\ S \in Programmes
  <2>1. U \in Programmes
    BY TagStatement, IdleFresh DEF UpsertTag, Idle
  <2> QED
    BY <2>1, PlainFresh, ListedAll, SelectiveFresh
<1>3. Lull(K) /\ Reaches(K, 1, Commit)
  <2>1. Commit \in Statement /\ Except({"missing", "query", "sql", "busy", "raw"}, <<Rollback("transaction")>>) \in Statement
    BY PlainStatement
  <2>2. Lull(<<Commit>>) /\ Reaches(<<Commit>>, 1, Commit)
    BY <2>1, LullOne, ReachesSelf DEF Commit, Calm
  <2>3. Lull(<<Except({"missing", "query", "sql", "busy", "raw"}, <<Rollback("transaction")>>)>>)
    BY <2>1, LullOne DEF Except, Calm
  <2>4. K = <<Commit>> \o <<Except({"missing", "query", "sql", "busy", "raw"}, <<Rollback("transaction")>>)>>
    BY <2>1, Pieces
  <2>5. 1 \in Nat /\ 1 > 0
    OBVIOUS
  <2>6. Reaches(K, 1, Commit)
    BY <2>2, <2>3, <2>4, <2>5, ReachesStarts DEF Lull
  <2> QED
    BY <2>2, <2>3, <2>4, <2>6, LullJoin
<1>4. ApplyTags(Both, t, replace) = (U \o ((B \o M) \o K)) \o S
  BY DEF ApplyTags, BulkApplyTags, InTransaction, Each
<1>5. \A v \in Videos : Reaches(S, 1, <<"export", v>>)
  BY ListedAll, SelectiveFresh
<1> HIDE DEF U, B, M, K, S, T
<1>6. PICK u \in Programmes, b \in Programmes, m \in Seq(Statement), k \in Programmes, s \in Programmes :
        u = U /\ b = B /\ m = M /\ k = K /\ s = S
  BY <1>1, <1>2 DEF Lull
<1>11. (u \o ((b \o m) \o k)) \o s = u \o (b \o (m \o (k \o s)))
  <2>1. u \in Seq(Statement) /\ b \in Seq(Statement) /\ k \in Seq(Statement) /\ s \in Seq(Statement)
    BY DEF Programmes
  <2>2. RejoinsFive(u, b, m, k, s)
    BY <2>1, RegroupFive
  <2> QED
    BY <2>2 DEF RejoinsFive
<1>7. PICK q \in Programmes : q = k \o s
  BY JoinFresh
<1>8. Reaches(q, 1, Commit) /\ \A v \in Videos : Reaches(q, 1, <<"export", v>>)
  <2>1. 1 \in Nat /\ 1 > 0 /\ 1 \in 1..(Len(k) + 1) /\ k \in Seq(Statement) /\ s \in Seq(Statement)
    BY DEF Programmes
  <2>2. Reaches(q, 1, Commit)
    BY <1>3, <1>6, <1>7, <2>1, ReachesStarts
  <2>3. \A v \in Videos : Reaches(q, 1, <<"export", v>>)
    BY <1>3, <1>5, <1>6, <1>7, <2>1, LullReaches
  <2> QED
    BY <2>2, <2>3
<1>9. m \o q \in Programmes
  <2>1. \A i \in 1..Len(m) : m[i] \in Statement /\ m[i][1] \in Calm
    BY <1>1, <1>6 DEF Lull
  <2>2. \A i \in 1..Len(m) : m[i][1] \in Retold => m[i][2] \in Videos
    BY <2>1, VideoOperands, TagOperands DEF Retold
  <2> QED
    BY <1>1, <1>6, <1>8, <2>2, LullFresh
<1>10. u \o (b \o (m \o (k \o s))) \in Programmes
  BY <1>7, <1>9, JoinFresh
<1> QED
  BY <1>4, <1>6, <1>10, <1>11

\* Every call but the one that clears the tags of a video is fresh.
LEMMA ProgramFresh ==
  ASSUME NEW service \in Services, service # "untag", NEW program \in Programs(service)
  PROVE  program \in Programmes
<1>1. service \in {"videos", "named", "tags", "bulk", "decades"}
  BY LibraryAssumption
<1>2. Both \in Seq(Videos)
  BY ListedAll
<1>3. CASE service = "videos"
  <2>1. program \in VideoCalls
    BY <1>3 DEF Programs
  <2>2. CASE program \in {CreateVideo(v) : v \in Videos \ db.born}
    BY <2>2, VideosFresh
  <2>3. CASE program \in {UpdateVideo(v, s) : v \in Videos, s \in Statuses}
                         \cup {UpdateStatus(v, s) : v \in Videos, s \in Statuses}
    BY <2>3, VideosFresh
  <2>4. CASE program \in {EditVideo(v) : v \in Videos} \cup {DeleteVideo(v) : v \in Videos}
                         \cup {RestoreVideo(v) : v \in Videos} \cup {HardDeleteVideo(v) : v \in Videos}
    BY <2>4, VideosFresh
  <2> QED
    BY <2>1, <2>2, <2>3, <2>4 DEF VideoCalls
<1>4. CASE service = "named"
  <2>1. program \in NamedCalls("artist") \cup NamedCalls("collection")
    BY <1>4 DEF Programs, ArtistCalls, CollectionCalls
  <2>2. \A n \in Named : NamedCalls(n) \subseteq Programmes
    BY NamesFresh DEF NamedCalls
  <2> QED
    BY <2>1, <2>2 DEF Named
<1>5. CASE service = "tags"
  <2> DEFINE sets == {SetVideoTags(v, <<t>>, r) : v \in Videos, t \in Tags, r \in BOOLEAN}
             removals == {RemoveVideoTag(v, t) : v \in Videos, t \in Tags}
             deletions == {DeleteTag(t, f) : t \in Tags, f \in BOOLEAN}
  <2>1. sets \subseteq Programmes
    <3> SUFFICES ASSUME NEW x \in sets
                 PROVE  x \in Programmes
      OBVIOUS
    <3>1. PICK v \in Videos, t \in Tags, r \in BOOLEAN : x = SetVideoTags(v, <<t>>, r)
      OBVIOUS
    <3>2. SetVideoTags(v, <<t>>, r) \in Programmes
      BY SetTagsFresh
    <3> QED
      BY <3>1, <3>2
  <2>2. removals \subseteq Programmes
    BY RemoveTagFresh
  <2>3. deletions \subseteq Programmes
    BY DeleteFresh
  <2>4. program \in TagCalls
    BY <1>5 DEF Programs
  <2>5. TagCalls = sets \cup removals \cup deletions
    BY DEF TagCalls
  <2> HIDE DEF sets, removals, deletions
  <2> QED
    BY <2>1, <2>2, <2>3, <2>4, <2>5
<1>6. CASE service = "bulk"
  <2>1. program \in BulkCalls
    BY <1>6 DEF Programs
  <2>2. CASE program \in {ApplyTags(Both, t, r) : t \in Tags, r \in BOOLEAN}
    BY <2>2, ApplyFresh
  <2>3. CASE program \notin {ApplyTags(Both, t, r) : t \in Tags, r \in BOOLEAN}
    BY <1>2, <2>1, <2>3, BulksFresh DEF BulkCalls
  <2> QED
    BY <2>2, <2>3
<1>7. CASE service = "decades"
  <2>1. program \in DecadeCalls
    BY <1>7 DEF Programs
  <2>2. \A v \in Videos, o \in Tags, n \in Tags : UpdateDecadeTag(v, o, n) \in Programmes
    BY DecadeFresh
  <2>3. \A v \in Videos, n \in Tags, mode \in {"apply", "remove", "migrate"} :
          SyncDecadeTags(v, n, mode) \in Programmes
    BY SyncFresh
  <2>4. \A v \in Videos, n \in Tags : ImportTag(v, n) \in Programmes
    BY ImportFresh
  <2> QED
    BY <2>1, <2>2, <2>3, <2>4 DEF DecadeCalls
<1> QED
  BY <1>1, <1>3, <1>4, <1>5, <1>6, <1>7

-----------------------------------------------------------------------------
(* What is left after a step *)

\* What is left when markers were passed is a later part of the program.
LEMMA RestLater ==
  ASSUME NEW P \in Seq(Statement)
  PROVE  \E d \in 0..Len(P) :
           /\ Rest(P) \in Seq(Statement) /\ Later(P, Rest(P), d)
           /\ \A i \in 1..d : P[i][1] = "except"
           /\ Rest(P) # <<>> => d < Len(P) /\ Rest(P)[1][1] # "except"
           /\ Rest(P) = <<>> => d = Len(P)
<1> DEFINE I == {i \in 1..Len(P) : P[i][1] # "except"}
           n == IF I # {} THEN Min(I) ELSE 0
<1>1. n = SelectInSeq(P, LAMBDA s : s[1] # "except")
  BY DEF SelectInSeq
<1>2. Rest(P) = IF n = 0 THEN <<>> ELSE SubSeq(P, n, Len(P))
  BY <1>1 DEF Rest
<1>3. I # {} => Min(I) \in I /\ \A i \in I : Min(I) <= i
  <2>1. I \in SUBSET Nat
    OBVIOUS
  <2> HIDE DEF I
  <2>2. I # {} => \E i \in I : \A j \in I : i <= j
    BY <2>1, LeastExists
  <2> QED
    BY <2>2 DEF Min
<1>4. Len(P) \in Nat
  OBVIOUS
<1>5. CASE I = {}
  <2>1. Rest(P) = <<>>
    BY <1>2, <1>5
  <2>2. Later(P, <<>>, Len(P))
    BY <1>4 DEF Later
  <2>3. \A i \in 1..Len(P) : P[i][1] = "except"
    BY <1>5
  <2> QED
    BY <1>4, <2>1, <2>2, <2>3
<1>6. CASE I # {}
  <2>1. n \in 1..Len(P) /\ P[n][1] # "except" /\ \A i \in I : n <= i
    BY <1>3, <1>6
  <2>2. \A i \in 1..(n - 1) : P[i][1] = "except"
    <3>1. \A i \in 1..(n - 1) : i \in 1..Len(P) /\ ~(n <= i)
      BY <1>4, <2>1
    <3> HIDE DEF n
    <3> QED
      BY <2>1, <3>1
  <2> HIDE DEF n
  <2>3. PICK d \in 0..Len(P) : d = n - 1 /\ d < Len(P) /\ n = d + 1
    BY <1>4, <2>1
  <2>4. Rest(P) = SubSeq(P, d + 1, Len(P))
    BY <1>2, <2>1, <2>3
  <2>5. Rest(P) \in Seq(Statement) /\ Later(P, Rest(P), d)
    BY <2>4, SuffixLater
  <2>6. 1 \in 1..Len(Rest(P)) /\ Rest(P)[1] = P[n]
    BY <2>3, <2>5 DEF Later
  <2>7. Rest(P) # <<>>
    BY <2>6
  <2> QED
    BY <2>1, <2>2, <2>3, <2>5, <2>6, <2>7
<1> QED
  BY <1>5, <1>6

\* No marker to pass.
LEMMA RestSame ==
  ASSUME NEW P \in Seq(Statement), P # <<>>, P[1][1] # "except"
  PROVE  Rest(P) = P
<1>1. PICK d \in 0..Len(P) :
        /\ Rest(P) \in Seq(Statement) /\ Later(P, Rest(P), d)
        /\ \A i \in 1..d : P[i][1] = "except"
  BY RestLater
<1>2. d = 0
  BY <1>1
<1>3. Len(Rest(P)) = Len(P) /\ \A i \in 1..Len(P) : Rest(P)[i] = P[i]
  BY <1>1, <1>2 DEF Later
<1> QED
  BY <1>1, <1>3, SeqEqual

\* Markers in front are nothing that a program asks for.
LEMMA FreshRest ==
  ASSUME NEW P \in Seq(Statement), Fresh(P)
  PROVE  Rest(P) \in Seq(Statement) /\ Fresh(Rest(P))
<1>1. PICK d \in 0..Len(P) :
        /\ Rest(P) \in Seq(Statement) /\ Later(P, Rest(P), d)
        /\ \A i \in 1..d : P[i][1] = "except"
        /\ Rest(P) # <<>> => d < Len(P) /\ Rest(P)[1][1] # "except"
  BY RestLater
<1>2. CASE d = 0
  <2>1. CASE P = <<>>
    <3>1. Rest(P) = <<>>
      BY <1>1, <2>1 DEF Later
    <3> QED
      BY <2>1, <3>1
  <2>2. CASE P # <<>>
    <3>1. Rest(P) # <<>> /\ Rest(P)[1] = P[1]
      BY <1>1, <1>2, <2>2 DEF Later
    <3> QED
      BY <1>1, <2>2, <3>1, RestSame
  <2> QED
    BY <2>1, <2>2
<1>3. CASE d # 0
  <2>1. d \in 1..Len(P) /\ P[d][1] = "except"
    BY <1>1, <1>3
  <2>2. Tidy(P)
    BY FreshTidy
  <2> QED
    BY <1>1, <2>1, <2>2, BreakFresh
<1> QED
  BY <1>2, <1>3

\* After a statement the rest of its program goes on.
LEMMA GoesOn ==
  ASSUME NEW P \in Seq(Statement), P # <<>>, Tidy(P), NEW R, R = Rest(Tail(P))
  PROVE  /\ R \in Seq(Statement) /\ Tidy(R)
         /\ \A G : G[1] # "except" /\ Reaches(P, 2, G) => Reaches(R, 1, G)
         /\ \/ Fresh(R)
            \/ R = Tail(P) /\ P[1][1] \in {"fetch", "commit", "status", "insert"}
         /\ Len(P) > 1 /\ P[2][1] # "except" => R = Tail(P) /\ R # <<>> /\ R[1] = P[2]
<1>1. Tail(P) \in Seq(Statement) /\ Later(P, Tail(P), 1)
  BY TailLater
<1>2. PICK c \in 0..Len(Tail(P)) :
        /\ R \in Seq(Statement) /\ Later(Tail(P), R, c)
        /\ \A i \in 1..c : Tail(P)[i][1] = "except"
        /\ R # <<>> => c < Len(Tail(P)) /\ R[1][1] # "except"
  BY <1>1, RestLater
<1>3. PICK d \in Nat : d = 1 + c
  BY <1>1, <1>2
<1>4. Later(P, R, d)
  <2>1. 1 \in Nat /\ c \in Nat
    BY <1>2
  <2> QED
    BY <1>1, <1>2, <1>3, <2>1, LaterLater
<1>5. Tidy(R)
  BY <1>2, <1>4, TidyLater
<1>6. d \in 1..Len(P) /\ \A i \in 2..d : P[i][1] = "except"
  <2>1. d \in 1..Len(P)
    BY <1>1, <1>2, <1>3 DEF Later
  <2>2. ASSUME NEW i \in 2..d
        PROVE  P[i][1] = "except"
    <3>1. i - 1 \in 1..c /\ i - 1 \in 1..Len(Tail(P)) /\ (i - 1) + 1 = i
      BY <1>2, <1>3, <2>1, <2>2
    <3> QED
      BY <1>1, <1>2, <3>1 DEF Later
  <2> QED
    BY <2>1, <2>2
<1>7. ASSUME NEW G, G[1] # "except", Reaches(P, 2, G)
      PROVE  Reaches(R, 1, G)
  <2>1. PICK j \in 2..Len(P) :
          /\ P[j] = G
          /\ \A i \in 2..(j - 1) : P[i][1] \in Calm /\ (P[i][1] = "get" => Passes(P, i, j))
    BY <1>7 DEF Reaches
  <2>2. j \notin 2..d
    BY <1>6, <1>7, <2>1
  <2>3. j \in (1 + d)..Len(P) /\ \A i \in (1 + d)..(j - 1) : i \in 2..(j - 1)
    BY <1>6, <2>1, <2>2
  <2>4. Reaches(P, 1 + d, G)
    BY <2>1, <2>3 DEF Reaches
  <2>5. 1 \in Nat \ {0}
    OBVIOUS
  <2> QED
    BY <1>2, <1>4, <2>4, <2>5, ReachesLater
<1>8. \/ Fresh(R)
      \/ R = Tail(P) /\ P[1][1] \in {"fetch", "commit", "status", "insert"}
  <2>1. CASE c = 0
    <3>1. R = Tail(P)
      <4>1. Len(R) = Len(Tail(P)) /\ \A i \in 1..Len(R) : R[i] = Tail(P)[i]
        BY <1>2, <2>1 DEF Later
      <4> QED
        BY <1>1, <1>2, <4>1, SeqEqual
    <3>2. P[1][1] \notin {"fetch", "commit", "status", "insert"} => Fresh(R)
      <4>1. d = 1
        BY <1>3, <2>1
      <4> QED
        BY <1>2, <1>4, <1>6, <4>1, BreakFresh
    <3> QED
      BY <3>1, <3>2
  <2>2. CASE c # 0
    <3>1. P[d][1] = "except"
      BY <1>2, <1>3, <1>6, <2>2
    <3> QED
      BY <1>2, <1>4, <1>6, <3>1, BreakFresh
  <2> QED
    BY <2>1, <2>2
<1>9. ASSUME Len(P) > 1, P[2][1] # "except"
      PROVE  R = Tail(P) /\ R # <<>> /\ R[1] = P[2]
  <2>1. Tail(P) # <<>> /\ Tail(P)[1] = P[2]
    BY <1>9
  <2>2. R = Tail(P)
    BY <1>1, <1>9, <2>1, RestSame
  <2> QED
    BY <2>1, <2>2
<1> QED
  BY <1>2, <1>5, <1>7, <1>8, <1>9

\* An exception is caught by the first marker for it, or by none.
LEMMA UnwoundCases ==
  ASSUME NEW P \in Seq(Statement), NEW kind
  PROVE  \/ Unwound(P, kind) = <<>> /\ \A i \in 1..Len(P) : ~(P[i][1] = "except" /\ kind \in P[i][2])
         \/ \E n \in 1..Len(P) :
              /\ P[n][1] = "except" /\ kind \in P[n][2]
              /\ \A i \in 1..(n - 1) : ~(P[i][1] = "except" /\ kind \in P[i][2])
              /\ Unwound(P, kind) = Rest(P[n][3] \o SubSeq(P, n + 1, Len(P)))
<1> DEFINE I == {i \in 1..Len(P) : P[i][1] = "except" /\ kind \in P[i][2]}
           n == IF I # {} THEN Min(I) ELSE 0
<1>1. n = SelectInSeq(P, LAMBDA s : s[1] = "except" /\ kind \in s[2])
  BY DEF SelectInSeq
<1>2. Unwound(P, kind) = IF n = 0 THEN <<>> ELSE Rest(P[n][3] \o SubSeq(P, n + 1, Len(P)))
  BY <1>1 DEF Unwound
<1>3. I # {} => Min(I) \in I /\ \A i \in I : Min(I) <= i
  <2>1. I \in SUBSET Nat
    OBVIOUS
  <2> HIDE DEF I
  <2>2. I # {} => \E i \in I : \A j \in I : i <= j
    BY <2>1, LeastExists
  <2> QED
    BY <2>2 DEF Min
<1>4. CASE I = {}
  <2>1. n = 0
    BY <1>4
  <2> HIDE DEF n
  <2>2. Unwound(P, kind) = <<>>
    BY <1>2, <2>1
  <2> QED
    BY <1>4, <2>2
<1>5. CASE I # {}
  <2>1. n \in 1..Len(P) /\ P[n][1] = "except" /\ kind \in P[n][2] /\ \A i \in I : n <= i
    BY <1>3, <1>5
  <2>2. \A i \in 1..(n - 1) : i \in 1..Len(P) /\ ~(n <= i)
    <3>1. Len(P) \in Nat
      OBVIOUS
    <3> HIDE DEF n
    <3> QED
      BY <2>1, <3>1
  <2>3. \A i \in 1..(n - 1) : ~(P[i][1] = "except" /\ kind \in P[i][2])
    <3> HIDE DEF n
    <3> QED
      BY <2>1, <2>2
  <2> HIDE DEF n
  <2>4. Unwound(P, kind) = Rest(P[n][3] \o SubSeq(P, n + 1, Len(P)))
    BY <1>2, <2>1
  <2> QED
    BY <2>1, <2>3, <2>4
<1> QED
  BY <1>4, <1>5

\* What a handler does is to roll back, or nothing.
LEMMA HandlerIs ==
  ASSUME NEW s \in Statement, s[1] = "except"
  PROVE  s[3] \in {<<>>, <<Rollback("query")>>, <<Rollback("transaction")>>}
<1>1. CASE s \in VideoStatements
  BY <1>1 DEF VideoStatements
<1>2. CASE s \in NamedStatements
  BY <1>2 DEF NamedStatements
<1>3. CASE s \in TagStatements
  BY <1>3 DEF TagStatements
<1>4. CASE s \in Plain
  BY <1>4 DEF Plain, Fetch, Commit, Rollback
<1>5. CASE s \in Markers
  BY <1>5 DEF Markers
<1> QED
  BY <1>1, <1>2, <1>3, <1>4, <1>5 DEF Statement

\* What a handler does is fresh.
LEMMA HandlerFresh ==
  ASSUME NEW s \in Statement, s[1] = "except"
  PROVE  s[3] \in Programmes
<1>1. <<>> \in Programmes
  BY DEF Programmes, Fresh
<1>2. <<Rollback("query")>> \in Programmes /\ <<Rollback("transaction")>> \in Programmes
  BY PlainStatement, IdleFresh DEF Rollback, Idle
<1> QED
  BY <1>1, <1>2, HandlerIs

\* What is left after an exception is fresh.
LEMMA UnwoundFresh ==
  ASSUME NEW P \in Seq(Statement), P # <<>>, Tidy(P), NEW kind, NEW R, R = Unwound(Tail(P), kind)
  PROVE  R \in Seq(Statement) /\ Fresh(R)
<1>1. Tail(P) \in Seq(Statement) /\ Later(P, Tail(P), 1)
  BY TailLater
<1>2. CASE R = <<>>
  <2>1. <<>> \in Programmes
    BY DEF Programmes, Fresh
  <2> QED
    BY <1>2, <2>1 DEF Programmes
<1>3. CASE \E n \in 1..Len(Tail(P)) :
              /\ Tail(P)[n][1] = "except" /\ kind \in Tail(P)[n][2]
              /\ R = Rest(Tail(P)[n][3] \o SubSeq(Tail(P), n + 1, Len(Tail(P))))
  <2>1. PICK n \in 1..Len(Tail(P)) :
              /\ Tail(P)[n][1] = "except"
              /\ R = Rest(Tail(P)[n][3] \o SubSeq(Tail(P), n + 1, Len(Tail(P))))
    BY <1>3
  <2>2. PICK then \in Programmes : then = Tail(P)[n][3]
    <3>1. Tail(P)[n] \in Statement
      BY <1>1, <2>1
    <3> QED
      BY <2>1, <3>1, HandlerFresh
  <2>3. PICK Q \in Seq(Statement) : Q = SubSeq(Tail(P), n + 1, Len(Tail(P))) /\ Later(Tail(P), Q, n)
    <3>1. n \in 0..Len(Tail(P))
      OBVIOUS
    <3> QED
      BY <1>1, <3>1, SuffixLater
  <2>4. PICK d \in Nat : d = 1 + n
    OBVIOUS
  <2>5. Later(P, Q, d)
    <3>1. 1 \in Nat /\ n \in Nat
      OBVIOUS
    <3> QED
      BY <1>1, <2>3, <2>4, <3>1, LaterLater
  <2>6. d \in 1..Len(P) /\ P[d][1] = "except"
    <3>1. d \in 1..Len(P) /\ Tail(P)[n] = P[n + 1]
      BY <1>1, <2>4 DEF Later
    <3> QED
      BY <2>1, <2>4, <3>1
  <2>7. Q \in Programmes
    BY <2>5, <2>6, BreakFresh DEF Programmes
  <2>8. then \o Q \in Programmes
    BY <2>2, <2>7, JoinFresh
  <2>9. R = Rest(then \o Q)
    BY <2>1, <2>2, <2>3
  <2> QED
    BY <2>8, <2>9, FreshRest DEF Programmes
<1> QED
  BY <1>1, <1>2, <1>3, UnwoundCases

\* A handler that is there rolls back.
LEMMA UnwoundHandled ==
  ASSUME NEW P \in Seq(Statement), P # <<>>, Handled(P, 1)
  PROVE  Unwound(Tail(P), "sql") # <<>> /\ Unwound(Tail(P), "sql")[1] = Rollback("query")
<1>1. Tail(P) \in Seq(Statement) /\ Later(P, Tail(P), 1)
  BY TailLater
<1>2. PICK m \in 2..Len(P) : P[m] = Recovers /\ \A l \in 2..(m - 1) : P[l][1] # "except"
  BY DEF Handled
<1>3. PICK k \in 1..Len(Tail(P)) : k + 1 = m
  <2>1. m - 1 \in 1..Len(Tail(P)) /\ (m - 1) + 1 = m
    BY <1>1, <1>2 DEF Later
  <2> QED
    BY <2>1
<1>4. Tail(P)[k] = Recovers /\ \A l \in 1..(k - 1) : Tail(P)[l][1] # "except"
  <2>1. Tail(P)[k] = P[k + 1]
    BY <1>1 DEF Later
  <2>2. \A l \in 1..(k - 1) : l + 1 \in 2..(m - 1) /\ l \in 1..Len(Tail(P))
    BY <1>3
  <2>3. \A l \in 1..(k - 1) : Tail(P)[l] = P[l + 1]
    BY <1>1, <2>2 DEF Later
  <2> QED
    BY <1>2, <1>3, <2>1, <2>2, <2>3
<1>5. Recovers[1] = "except" /\ "sql" \in Recovers[2] /\ Recovers[3] = <<Rollback("query")>>
  BY DEF Recovers, Except
<1>6. PICK n \in 1..Len(Tail(P)) :
              /\ Tail(P)[n][1] = "except" /\ "sql" \in Tail(P)[n][2]
              /\ \A i \in 1..(n - 1) : ~(Tail(P)[i][1] = "except" /\ "sql" \in Tail(P)[i][2])
              /\ Unwound(Tail(P), "sql") = Rest(Tail(P)[n][3] \o SubSeq(Tail(P), n + 1, Len(Tail(P))))
  <2>1. ~\A i \in 1..Len(Tail(P)) : ~(Tail(P)[i][1] = "except" /\ "sql" \in Tail(P)[i][2])
    BY <1>4, <1>5
  <2> QED
    BY <1>1, <2>1, UnwoundCases
<1>7. n = k
  <2>1. ~(n < k)
    <3>1. n < k => n \in 1..(k - 1)
      OBVIOUS
    <3> QED
      BY <1>4, <1>6, <3>1
  <2>2. ~(k < n)
    <3>1. k < n => k \in 1..(n - 1)
      OBVIOUS
    <3> QED
      BY <1>4, <1>5, <1>6, <3>1
  <2> QED
    BY <2>1, <2>2
<1>8. PICK Q \in Seq(Statement) : Q = SubSeq(Tail(P), n + 1, Len(Tail(P)))
  <2>1. n \in 0..Len(Tail(P))
    OBVIOUS
  <2> QED
    BY <1>1, <2>1, SuffixLater
<1>9. PICK back \in Statement : back = Rollback("query")
  BY PlainStatement
<1>10. Unwound(Tail(P), "sql") = Rest(<<back>> \o Q)
  BY <1>4, <1>5, <1>6, <1>7, <1>8, <1>9
<1>11. <<back>> \o Q \in Seq(Statement) /\ <<back>> \o Q # <<>> /\ (<<back>> \o Q)[1] = back
  OBVIOUS
<1>12. back[1] # "except"
  BY <1>9 DEF Rollback
<1>13. Rest(<<back>> \o Q) = <<back>> \o Q
  BY <1>11, <1>12, RestSame
<1> QED
  BY <1>9, <1>10, <1>11, <1>13

\* A bulk method goes on after a video that is missing.
LEMMA UnwoundSkips ==
  ASSUME NEW P \in Seq(Statement), P # <<>>, P[1][1] = "get", NEW G, G[1] \notin {"get", "except"}, Reaches(P, 1, G)
  PROVE  Reaches(Unwound(Tail(P), "missing"), 1, G)
<1>1. Tail(P) \in Seq(Statement) /\ Later(P, Tail(P), 1)
  BY TailLater
<1>2. PICK j \in 1..Len(P) :
          /\ P[j] = G
          /\ \A i \in 1..(j - 1) : P[i][1] \in Calm /\ (P[i][1] = "get" => Passes(P, i, j))
  BY DEF Reaches
<1>3. j # 1 /\ Passes(P, 1, j)
  <2>1. j # 1
    BY <1>2
  <2>2. 1 \in 1..(j - 1)
    BY <1>2, <2>1
  <2> QED
    BY <1>2, <2>1, <2>2
<1>4. PICK m \in 2..(j - 1) : P[m] = Skip /\ \A l \in 2..(m - 1) : P[l][1] # "except"
  BY <1>3 DEF Passes
<1>5. PICK k \in 1..Len(Tail(P)) : k + 1 = m
  <2>1. m - 1 \in 1..Len(Tail(P)) /\ (m - 1) + 1 = m
    BY <1>1, <1>2, <1>4 DEF Later
  <2> QED
    BY <2>1
<1>6. Tail(P)[k] = Skip /\ \A l \in 1..(k - 1) : Tail(P)[l][1] # "except"
  <2>1. Tail(P)[k] = P[k + 1]
    BY <1>1 DEF Later
  <2>2. \A l \in 1..(k - 1) : l + 1 \in 2..(m - 1) /\ l \in 1..Len(Tail(P))
    BY <1>5
  <2>3. \A l \in 1..(k - 1) : Tail(P)[l] = P[l + 1]
    BY <1>1, <2>2 DEF Later
  <2> QED
    BY <1>4, <1>5, <2>1, <2>2, <2>3
<1>7. Skip[1] = "except" /\ "missing" \in Skip[2] /\ Skip[3] = <<>>
  BY DEF Skip, Except
<1>8. PICK n \in 1..Len(Tail(P)) :
              /\ Tail(P)[n][1] = "except" /\ "missing" \in Tail(P)[n][2]
              /\ \A i \in 1..(n - 1) : ~(Tail(P)[i][1] = "except" /\ "missing" \in Tail(P)[i][2])
              /\ Unwound(Tail(P), "missing") = Rest(Tail(P)[n][3] \o SubSeq(Tail(P), n + 1, Len(Tail(P))))
  <2>1. ~\A i \in 1..Len(Tail(P)) : ~(Tail(P)[i][1] = "except" /\ "missing" \in Tail(P)[i][2])
    BY <1>6, <1>7
  <2> QED
    BY <1>1, <2>1, UnwoundCases
<1>9. n = k
  <2>1. ~(n < k)
    <3>1. n < k => n \in 1..(k - 1)
      OBVIOUS
    <3> QED
      BY <1>6, <1>8, <3>1
  <2>2. ~(k < n)
    <3>1. k < n => k \in 1..(n - 1)
      OBVIOUS
    <3> QED
      BY <1>6, <1>7, <1>8, <3>1
  <2> QED
    BY <2>1, <2>2
<1>10. PICK Q \in Seq(Statement) : Q = SubSeq(Tail(P), n + 1, Len(Tail(P))) /\ Later(Tail(P), Q, n)
  <2>1. n \in 0..Len(Tail(P))
    OBVIOUS
  <2> QED
    BY <1>1, <2>1, SuffixLater
<1>11. Unwound(Tail(P), "missing") = Rest(Q)
  <2>1. <<>> \o Q = Q
    OBVIOUS
  <2> QED
    BY <1>6, <1>7, <1>8, <1>9, <1>10, <2>1
<1>12. Later(P, Q, m)
  <2>1. 1 \in Nat /\ n \in Nat /\ 1 + n = m
    BY <1>5, <1>9
  <2>2. Later(P, Q, 1 + n)
    BY <1>1, <1>10, <2>1, LaterLater
  <2> QED
    BY <2>1, <2>2
<1>13. PICK c \in 0..Len(Q) :
        /\ Rest(Q) \in Seq(Statement) /\ Later(Q, Rest(Q), c)
        /\ \A i \in 1..c : Q[i][1] = "except"
  BY RestLater
<1>14. PICK d \in Nat : d = m + c
  BY <1>13
<1>15. Later(P, Rest(Q), d)
  <2>1. m \in Nat /\ c \in Nat
    OBVIOUS
  <2> QED
    BY <1>12, <1>13, <1>14, <2>1, LaterLater
<1>16. j \notin (m + 1)..d
  <2>1. ASSUME j \in (m + 1)..d
        PROVE  FALSE
    <3>1. j - m \in 1..c /\ j - m \in 1..Len(Q) /\ (j - m) + m = j
      BY <1>13, <1>14, <2>1, SMTT(30)
    <3>2. Q[j - m] = P[j]
      BY <1>12, <3>1 DEF Later
    <3> QED
      BY <1>2, <1>13, <3>1, <3>2
  <2> QED
    BY <2>1
<1>17. Reaches(P, 1 + d, G)
  <2>1. j \in (1 + d)..Len(P) /\ \A i \in (1 + d)..(j - 1) : i \in 1..(j - 1)
    BY <1>2, <1>4, <1>14, <1>16
  <2> QED
    BY <1>2, <2>1 DEF Reaches
<1>18. Reaches(Rest(Q), 1, G)
  <2>1. 1 \in Nat \ {0}
    OBVIOUS
  <2> QED
    BY <1>13, <1>15, <1>17, <2>1, ReachesLater
<1> QED
  BY <1>11, <1>18

-----------------------------------------------------------------------------
(* What a read puts in front of the rest of its program *)

\* Statements that take tags of v off, each with its commit.
Untagging(v) ==
  {X \in Seq(Statement) :
     /\ Lull(X)
     /\ \A i \in 1..Len(X) :
          /\ X[i][1] \in Sealed => Reaches(X, i + 1, Commit)
          /\ X[i][1] \in Retold => X[i][2] = v}

\* Statements that take tags off one video, put together,
LEMMA UntaggingJoin ==
  ASSUME NEW v, NEW X \in Untagging(v), NEW Y \in Untagging(v)
  PROVE  X \o Y \in Untagging(v)
<1> DEFINE R == X \o Y
<1>1. /\ X \in Seq(Statement) /\ Y \in Seq(Statement) /\ Lull(X) /\ Lull(Y)
      /\ \A i \in 1..Len(X) :
           /\ X[i][1] \in Sealed => Reaches(X, i + 1, Commit)
           /\ X[i][1] \in Retold => X[i][2] = v
      /\ \A i \in 1..Len(Y) :
           /\ Y[i][1] \in Sealed => Reaches(Y, i + 1, Commit)
           /\ Y[i][1] \in Retold => Y[i][2] = v
  BY DEF Untagging
<1>2. /\ R \in Seq(Statement) /\ Len(R) = Len(X) + Len(Y) /\ Later(R, Y, Len(X)) /\ Len(X) \in Nat
      /\ \A i \in 1..Len(X) : R[i] = X[i]
  BY <1>1, JoinLater
<1>3. Lull(R)
  BY <1>1, LullJoin
<1>4. ASSUME NEW i \in 1..Len(X), Reaches(X, i + 1, Commit)
      PROVE  Reaches(R, i + 1, Commit)
  <2>1. i + 1 \in Nat /\ i + 1 > 0
    OBVIOUS
  <2> QED
    BY <1>1, <1>4, <2>1, ReachesStarts
<1> HIDE DEF R
<1>5. ASSUME NEW i \in 1..Len(R)
      PROVE  /\ R[i][1] \in Sealed => Reaches(R, i + 1, Commit)
             /\ R[i][1] \in Retold => R[i][2] = v
  <2>1. CASE i \in 1..Len(X)
    BY <1>1, <1>2, <1>4, <2>1
  <2>2. CASE i \notin 1..Len(X)
    <3>1. PICK k \in 1..Len(Y) : k + Len(X) = i
      <4>1. i - Len(X) \in 1..Len(Y) /\ (i - Len(X)) + Len(X) = i
        BY <1>1, <1>2, <2>2
      <4> QED
        BY <4>1
    <3>2. R[i] = Y[k]
      BY <1>2, <3>1 DEF Later
    <3>3. k + 1 \in Nat \ {0} /\ (k + 1) + Len(X) = i + 1
      BY <1>2, <3>1
    <3>4. Reaches(R, (k + 1) + Len(X), Commit) <=> Reaches(Y, k + 1, Commit)
      BY <1>1, <1>2, <3>3, ReachesLater, ZenonT(40)
    <3> QED
      BY <1>1, <3>1, <3>2, <3>3, <3>4
  <2> QED
    BY <2>1, <2>2
<1> QED
  BY <1>2, <1>3, <1>5 DEF Untagging, R

\* one of them,
LEMMA UntaggingParts ==
  ASSUME NEW v
  PROVE  /\ <<>> \in Untagging(v) /\ <<Fetch>> \in Untagging(v)
         /\ \A t \in Tags : <<<<"inserttag", t>>, Commit>> \in Untagging(v)
         /\ v \in Videos => \A id \in Nat : <<<<"untagid", v, id>>, Commit>> \in Untagging(v)
<1>1. <<>> \in Untagging(v)
  BY DEF Untagging, Lull
<1>2. <<Fetch>> \in Untagging(v)
  <2>1. Fetch \in Statement /\ Fetch[1] = "fetch"
    BY PlainStatement DEF Fetch
  <2>2. Lull(<<Fetch>>)
    BY <2>1, LullOne DEF Calm
  <2>3. "fetch" \notin Sealed /\ "fetch" \notin Retold
    BY DEF Sealed, Retold
  <2>4. Len(<<Fetch>>) = 1 /\ <<Fetch>>[1] = Fetch /\ <<Fetch>> \in Seq(Statement)
    BY <2>1
  <2> QED
    BY <2>1, <2>2, <2>3, <2>4 DEF Untagging
<1>3. ASSUME NEW s \in Statement, s[1] \in {"inserttag", "untagid"}, s[1] = "untagid" => s[2] = v
      PROVE  <<s, Commit>> \in Untagging(v)
  <2> DEFINE X == <<s, Commit>>
  <2>1. Commit \in Statement /\ Commit[1] = "commit"
    BY PlainStatement DEF Commit
  <2>2. X \in Seq(Statement) /\ Len(X) = 2 /\ X[1] = s /\ X[2] = Commit
    BY <2>1
  <2> HIDE DEF X
  <2>3. s[1] \in Calm /\ s[1] # "get" /\ "commit" \in Calm /\ "commit" # "get"
    BY <1>3 DEF Calm
  <2>4. Lull(X)
    <3>1. \A i \in 1..Len(X) : X[i] = s \/ X[i] = Commit
      BY <2>2
    <3> QED
      BY <2>1, <2>2, <2>3, <3>1 DEF Lull
  <2>5. Reaches(X, 2, Commit)
    BY <2>2 DEF Reaches
  <2>6. "commit" \notin Sealed /\ "commit" \notin Retold /\ "inserttag" \notin Retold
    BY DEF Sealed, Retold
  <2>7. ASSUME NEW i \in 1..Len(X)
        PROVE  /\ X[i][1] \in Sealed => Reaches(X, i + 1, Commit)
               /\ X[i][1] \in Retold => X[i][2] = v
    <3>1. CASE i = 1
      BY <1>3, <2>2, <2>5, <2>6, <3>1
    <3>2. CASE i = 2
      BY <2>1, <2>2, <2>6, <3>2
    <3> QED
      BY <2>2, <3>1, <3>2
  <2> QED
    BY <2>2, <2>4, <2>7 DEF Untagging, X
<1>4. ASSUME NEW t \in Tags
      PROVE  <<<<"inserttag", t>>, Commit>> \in Untagging(v)
  <2>1. <<"inserttag", t>> \in Statement
    BY TagStatement
  <2> QED
    BY <1>3, <2>1
<1>5. ASSUME v \in Videos, NEW id \in Nat
      PROVE  <<<<"untagid", v, id>>, Commit>> \in Untagging(v)
  <2>1. <<"untagid", v, id>> \in Statement
    BY <1>5, TagStatement
  <2> QED
    BY <1>3, <2>1
<1> QED
  BY <1>1, <1>2, <1>4, <1>5

\* and any number of them.
LEMMA UntaggingFlat ==
  ASSUME NEW v, NEW seqs \in Seq(Untagging(v))
  PROVE  FlattenSeq(seqs) \in Untagging(v)
<1>1. Untagging(v) \subseteq Seq(Statement)
  BY DEF Untagging
<1>2. <<>> \in Untagging(v)
  BY UntaggingParts
<1>3. \A a, b \in Untagging(v) : a \o b \in Untagging(v)
  BY UntaggingJoin
<1> QED
  BY <1>1, <1>2, <1>3, FlattenIn

\* What most reads put in front.
Looks == {"get", "getany", "getnamed", "gettag", "findtag", "findauto"}

\* Three statements put together.
LEMMA ThreeJoined ==
  ASSUME NEW a, NEW b, NEW c
  PROVE  <<a>> \o <<b, c>> = <<a, b, c>>
<1>1. PICK S : a \in S /\ b \in S /\ c \in S
  <2>1. a \in {a, b, c} /\ b \in {a, b, c} /\ c \in {a, b, c}
    OBVIOUS
  <2> QED
    BY <2>1
<1>2. <<a>> \o <<b, c>> \in Seq(S) /\ Len(<<a>> \o <<b, c>>) = Len(<<a, b, c>>)
      /\ \A i \in 1..Len(<<a, b, c>>) : <<a, b, c>>[i] = (<<a>> \o <<b, c>>)[i]
  BY <1>1
<1>3. <<a, b, c>> \in Seq(S)
  BY <1>1
<1> QED
  BY <1>2, <1>3, SeqEqual

\* What a lookup puts in front goes on whatever happens.
LEMMA ThenLull ==
  ASSUME NEW d \in Tables, NEW s \in Statement, s[1] \in Looks
  PROVE  /\ Then(d, s) \in Untagging(s[2])
         /\ s[1] # "findauto" => \A i \in 1..Len(Then(d, s)) : Then(d, s)[i][1] \notin Retold
         /\ Len(Then(d, s)) > 0 /\ Then(d, s)[1] = Fetch
<1>1. \A v : <<Fetch>> \in Untagging(v)
  BY UntaggingParts
<1>2. Fetch[1] = "fetch" /\ "fetch" \notin Retold
  BY DEF Fetch, Retold
<1>3. CASE s[1] \in {"get", "getany", "getnamed", "gettag"}
  <2>1. Then(d, s) = <<Fetch>> /\ s[1] # "findauto"
    BY <1>3 DEF Then
  <2>2. Len(<<Fetch>>) = 1 /\ <<Fetch>>[1] = Fetch
    OBVIOUS
  <2> QED
    BY <1>1, <1>2, <2>1, <2>2
<1>4. CASE s[1] = "findtag"
  <2>1. PICK t \in Tags : t = s[2]
    BY <1>4, TagOperands
  <2>2. CASE d.tag[t] = 0
    <3> DEFINE Y == <<<<"inserttag", t>>, Commit>>
    <3>1. Y \in Untagging(t)
      BY UntaggingParts
    <3>2. Then(d, s) = <<Fetch>> \o Y
      BY <1>4, <2>1, <2>2 DEF Then
    <3>3. <<Fetch>> \o Y = <<Fetch, <<"inserttag", t>>, Commit>>
      BY ThreeJoined
    <3>4. PICK X : X = <<Fetch, <<"inserttag", t>>, Commit>>
      OBVIOUS
    <3>5. /\ Len(X) = 3 /\ Len(X) > 0
          /\ X[1] = Fetch /\ X[2] = <<"inserttag", t>> /\ X[3] = Commit
      BY <3>4
    <3>6. \A i \in 1..Len(X) : X[i][1] \notin Retold
      <4>1. \A i \in 1..Len(X) : i = 1 \/ i = 2 \/ i = 3
        BY <3>5
      <4>2. X[1][1] = "fetch" /\ X[2][1] = "inserttag" /\ X[3][1] = "commit"
        BY <3>5 DEF Fetch, Commit
      <4> QED
        BY <4>1, <4>2 DEF Retold
    <3>7. X \in Untagging(t)
      <4> HIDE DEF Y
      <4>1. <<Fetch>> \o Y \in Untagging(t)
        BY <1>1, <3>1, UntaggingJoin
      <4> QED
        BY <3>3, <3>4, <4>1
    <3>8. Then(d, s) = X
      BY <3>2, <3>3, <3>4
    <3>9. Then(d, s) \in Untagging(s[2])
      BY <2>1, <3>7, <3>8, Zenon
    <3>10. \A i \in 1..Len(Then(d, s)) : Then(d, s)[i][1] \notin Retold
      BY <3>6, <3>8, Zenon
    <3>11. Len(Then(d, s)) > 0 /\ Then(d, s)[1] = Fetch
      BY <3>5, <3>8, Zenon
    <3> QED
      BY <3>9, <3>10, <3>11
  <2>3. CASE d.tag[t] # 0
    <3>1. Then(d, s) = <<Fetch>> \o <<>>
      BY <1>4, <2>1, <2>3 DEF Then
    <3>2. <<Fetch>> \o <<>> = <<Fetch>> /\ Len(<<Fetch>>) = 1 /\ <<Fetch>>[1] = Fetch
      OBVIOUS
    <3> QED
      BY <1>1, <1>2, <3>1, <3>2
  <2> QED
    BY <2>2, <2>3
<1>5. CASE s[1] = "findauto"
  <2>1. PICK v \in Videos, ts \in SUBSET Tags : v = s[2] /\ ts = s[3]
    BY <1>5, TagOperands
  <2> DEFINE found == {d.tag[t] : t \in {u \in ts : <<v, d.tag[u]>> \in d.auto}}
             ids == SetToSeq(found)
             removals == [i \in 1..Len(ids) |-> <<<<"untagid", v, ids[i]>>, Commit>>]
  <2>2. found \in SUBSET (0..MaxTagId) /\ MaxTagId \in Nat
    <3>1. MaxTagId \in Nat /\ d.tag \in [Tags -> 0..MaxTagId]
      BY LibraryAssumption DEF Tables
    <3>2. \A t \in ts : d.tag[t] \in 0..MaxTagId
      BY <3>1
    <3> QED
      BY <3>1, <3>2
  <2>3. IsFiniteSet(found)
    <3>1. IsFiniteSet(0..MaxTagId)
      BY <2>2, FS_Interval
    <3> HIDE DEF found
    <3> QED
      BY <2>2, <3>1, FS_Subset
  <2>4. Then(d, s) = <<Fetch>> \o FlattenSeq(removals)
    BY <1>5, <2>1 DEF Then
  <2> HIDE DEF found
  <2>5. ids \in Seq(found)
    BY <2>3, ListOfSet
  <2> HIDE DEF ids
  <2>6. Len(ids) \in Nat /\ \A i \in 1..Len(ids) : ids[i] \in Nat
    <3>1. found \subseteq Nat
      BY <2>2
    <3>2. Len(ids) \in Nat /\ \A i \in 1..Len(ids) : ids[i] \in found
      BY <2>5
    <3> QED
      BY <3>1, <3>2
  <2>7. \A i \in 1..Len(ids) : <<<<"untagid", v, ids[i]>>, Commit>> \in Untagging(v)
    BY <2>6, UntaggingParts
  <2>8. removals \in Seq(Untagging(v))
    BY <2>6, <2>7
  <2> HIDE DEF removals
  <2>9. PICK Y \in Untagging(v) : Y = FlattenSeq(removals)
    BY <2>8, UntaggingFlat
  <2>10. <<Fetch>> \o Y \in Untagging(v)
    BY <1>1, UntaggingJoin
  <2>11. Len(<<Fetch>> \o Y) > 0 /\ (<<Fetch>> \o Y)[1] = Fetch
    <3>1. Y \in Seq(Statement) /\ <<Fetch>> \in Seq(Statement)
      BY <1>1 DEF Untagging
    <3>2. Len(<<Fetch>>) = 1 /\ <<Fetch>>[1] = Fetch
      OBVIOUS
    <3>3. Len(<<Fetch>> \o Y) = 1 + Len(Y) /\ (<<Fetch>> \o Y)[1] = <<Fetch>>[1]
      BY <3>1, <3>2, JoinLater
    <3> QED
      BY <3>1, <3>2, <3>3
  <2> QED
    BY <1>5, <2>1, <2>4, <2>9, <2>10, <2>11
<1> QED
  BY <1>3, <1>4, <1>5 DEF Looks

-----------------------------------------------------------------------------
(* How the rest of a program goes on after a read *)

\* What it is still to commit and to export.
Onward(P, R) == \A G : G[1] \in {"commit", "export"} /\ Reaches(P, 1, G) => Reaches(R, 1, G)

\* What a program comes to and has not yet come to, it comes to after its first statement.
LEMMA ReachesNext ==
  ASSUME NEW P \in Seq(Statement), NEW G, Reaches(P, 1, G), P[1] # G
  PROVE  P[1][1] \in Calm /\ Reaches(P, 2, G)
<1>1. PICK j \in 1..Len(P) :
        /\ P[j] = G
        /\ \A i \in 1..(j - 1) : P[i][1] \in Calm /\ (P[i][1] = "get" => Passes(P, i, j))
  BY DEF Reaches
<1>2. j \in 2..Len(P) /\ \A i \in 2..(j - 1) : i \in 1..(j - 1)
  BY <1>1
<1>3. 1 \in 1..(j - 1)
  BY <1>2
<1> QED
  BY <1>1, <1>2, <1>3 DEF Reaches

\* After a lookup a program comes to what it came to before.
LEMMA LooksOn ==
  ASSUME NEW d \in Tables, NEW P \in Seq(Statement), P # <<>>, Tidy(P), P[1][1] \in Looks,
         NEW R, R = Rest(Then(d, P[1]) \o Tail(P))
  PROVE  R \in Seq(Statement) /\ Fresh(R) /\ Onward(P, R)
<1> DEFINE s == P[1]
<1>1. Tail(P) \in Seq(Statement) /\ Later(P, Tail(P), 1) /\ s \in Statement /\ 1 \in 1..Len(P)
  BY TailLater
<1>2. PICK X : X = Then(d, s)
  OBVIOUS
<1>3. /\ X \in Untagging(s[2])
      /\ s[1] # "findauto" => \A i \in 1..Len(X) : X[i][1] \notin Retold
      /\ Len(X) > 0 /\ X[1] = Fetch
  BY <1>1, <1>2, ThenLull
<1>4. /\ X \in Seq(Statement) /\ Lull(X)
      /\ \A i \in 1..Len(X) : /\ X[i][1] \in Sealed => Reaches(X, i + 1, Commit)
                              /\ X[i][1] \in Retold => X[i][2] = s[2]
  BY <1>3 DEF Untagging
<1>5. PICK Q \in Programmes : Q = Tail(P)
  <2>1. Fresh(Tail(P))
    BY <1>1, BreakFresh DEF Looks
  <2> QED
    BY <1>1, <2>1 DEF Programmes
<1>6. Q \in Seq(Statement) /\ Later(P, Q, 1)
  BY <1>1, <1>5
<1>7. ASSUME NEW G, Reaches(P, 2, G)
      PROVE  Reaches(Q, 1, G)
  <2>1. 1 \in Nat \ {0} /\ 1 + 1 = 2
    OBVIOUS
  <2>2. Reaches(P, 1 + 1, G)
    BY <1>7
  <2> QED
    BY <1>6, <2>1, <2>2, ReachesLater
<1>8. ASSUME NEW i \in 1..Len(X)
      PROVE  /\ X[i][1] \in Sealed => Reaches(X, i + 1, Commit) \/ Reaches(Q, 1, Commit)
             /\ X[i][1] \in Retold => Reaches(Q, 1, <<"export", X[i][2]>>)
  <2>1. s[1] = "findauto" => Reaches(P, 2, <<"export", s[2]>>)
    <3>1. Ahead(P, 1) /\ "findauto" \in Retold /\ 1 + 1 = 2
      BY <1>1 DEF Tidy, Retold
    <3> QED
      BY <3>1 DEF Ahead
  <2> QED
    BY <1>3, <1>4, <1>7, <2>1
<1>9. X \o Q \in Programmes
  BY <1>4, <1>8, LullFresh
<1>10. X \o Q \in Seq(Statement) /\ X \o Q # <<>> /\ (X \o Q)[1] = Fetch
  <2>1. /\ X \o Q \in Seq(Statement) /\ Len(X \o Q) = Len(X) + Len(Q)
        /\ \A i \in 1..Len(X) : (X \o Q)[i] = X[i]
    BY <1>4, <1>6, JoinLater
  <2>2. Len(X) \in Nat /\ Len(Q) \in Nat /\ 1 \in 1..Len(X)
    BY <1>3, <1>4, <1>6
  <2> HIDE DEF s
  <2> QED
    BY <1>3, <2>1, <2>2
<1>11. R = X \o Q
  <2>1. (X \o Q)[1][1] # "except"
    BY <1>10 DEF Fetch
  <2>2. Rest(X \o Q) = X \o Q
    BY <1>10, <2>1, RestSame
  <2> QED
    BY <1>2, <1>5, <2>2
<1>12. ASSUME NEW G, G[1] \in {"commit", "export"}, Reaches(P, 1, G)
       PROVE  Reaches(R, 1, G)
  <2>1. P[1] # G
    BY <1>12 DEF Looks
  <2>2. Reaches(Q, 1, G)
    BY <1>7, <1>12, <2>1, ReachesNext
  <2>3. 1 \in 1..(Len(X) + 1)
    BY <1>3, <1>4
  <2>4. Reaches(X \o Q, 1, G)
    BY <1>4, <1>6, <2>2, <2>3, LullReaches
  <2> QED
    BY <1>11, <2>4, Zenon
<1>13. R \in Programmes
  BY <1>9, <1>11
<1>14. Onward(P, R)
  BY <1>12 DEF Onward
<1> QED
  BY <1>13, <1>14 DEF Programmes

\* After the lookup of an artist or a collection, too.
LEMMA FindOn ==
  ASSUME NEW d \in Tables, NEW P \in Seq(Statement), P # <<>>, Tidy(P), P[1][1] = "find",
         NEW R, R = Rest(Then(d, P[1]) \o Tail(P))
  PROVE  R \in Seq(Statement) /\ Fresh(R) /\ Onward(P, R)
<1> DEFINE s == P[1]
<1>1. Tail(P) \in Seq(Statement) /\ Later(P, Tail(P), 1) /\ s \in Statement /\ 1 \in 1..Len(P)
  BY TailLater
<1>2. PICK n \in Named, h \in Handlers : n = s[2] /\ h = s[3]
  BY <1>1, NamedOperands
<1>3. PICK w \in Statement :
        /\ w[1] \in {"insertnamed", "updatenamed"}
        /\ Then(d, s) = <<Fetch, w, Commit>>
  <2>1. PICK what \in {"insertnamed", "updatenamed"} :
          what = IF Row(d, n) = "live" THEN "updatenamed" ELSE "insertnamed"
    OBVIOUS
  <2>2. <<what, n, h>> \in Statement /\ <<what, n, h>>[1] \in {"insertnamed", "updatenamed"}
    BY NamedStatement
  <2>3. Then(d, s) = <<Fetch, <<what, n, h>>, Commit>>
    BY <1>2, <2>1 DEF Then
  <2> QED
    BY <2>2, <2>3
<1>4. PICK X \in Programmes : X = Then(d, s)
  <2>1. <<Fetch>> \in Programmes
    <3>1. Fetch \in Statement /\ Fetch[1] \in Idle
      BY PlainStatement DEF Fetch, Idle
    <3> QED
      BY <3>1, IdleFresh
  <2>2. <<w, Commit>> \in Programmes
    BY <1>3, SealFresh
  <2>3. <<Fetch>> \o <<w, Commit>> = <<Fetch, w, Commit>>
    BY ThreeJoined
  <2>4. <<Fetch, w, Commit>> \in Programmes
    BY <2>1, <2>2, <2>3, JoinFresh
  <2> QED
    BY <1>3, <2>4
<1>5. PICK Q \in Programmes : Q = Tail(P)
  <2>1. Fresh(Tail(P))
    BY <1>1, BreakFresh
  <2> QED
    BY <1>1, <2>1 DEF Programmes
<1>6. X \o Q \in Programmes
  BY JoinFresh
<1>7. R \in Seq(Statement) /\ Fresh(R)
  <2>1. R = Rest(X \o Q)
    BY <1>4, <1>5
  <2> QED
    BY <1>6, <2>1, FreshRest DEF Programmes
<1>8. Onward(P, R)
  <2>1. ASSUME NEW G, G[1] \in {"commit", "export"}, Reaches(P, 1, G)
        PROVE  FALSE
    <3>1. P[1] # G
      BY <2>1
    <3>2. P[1][1] \in Calm
      BY <2>1, <3>1, ReachesNext
    <3> QED
      BY <3>2 DEF Calm
  <2> QED
    BY <2>1 DEF Onward
<1> QED
  BY <1>7, <1>8

\* The status that a method sets after it has read the old one.
LEMMA FollowsFresh ==
  ASSUME NEW X \in Seq(Statement), NEW Q \in Seq(Statement), Fresh(Q),
         \A i \in 1..Len(X) : Ahead(X \o Q, i) /\ Behind(X \o Q, i)
  PROVE  Tidy(X \o Q)
<1> DEFINE R == X \o Q
<1>1. /\ R \in Seq(Statement) /\ Len(R) = Len(X) + Len(Q) /\ Later(R, Q, Len(X)) /\ Len(X) \in Nat
      /\ Len(Q) \in Nat
  BY JoinLater
<1>2. \A i \in 1..Len(X) : Ahead(R, i) /\ Behind(R, i)
  OBVIOUS
<1> HIDE DEF R
<1>3. ASSUME NEW i \in 1..Len(R), i \notin 1..Len(X)
      PROVE  Ahead(R, i) /\ Behind(R, i)
  <2>1. PICK k \in 1..Len(Q) : k + Len(X) = i
    <3>1. i - Len(X) \in 1..Len(Q) /\ (i - Len(X)) + Len(X) = i
      BY <1>1, <1>3
    <3> QED
      BY <3>1
  <2>2. Ahead(Q, k) /\ Afresh(Q, k)
    BY DEF Fresh
  <2>3. Ahead(R, i)
    <3>1. Ahead(R, k + Len(X))
      BY <1>1, <2>2, AheadLater
    <3> QED
      BY <2>1, <3>1
  <2>4. R[i] = Q[k]
    BY <1>1, <2>1 DEF Later
  <2>5. k > 2 => i > 2 /\ R[i - 1] = Q[k - 1] /\ R[i - 2] = Q[k - 2]
    <3>1. k > 2 => /\ k - 1 \in 1..Len(Q) /\ (k - 1) + Len(X) = i - 1
                   /\ k - 2 \in 1..Len(Q) /\ (k - 2) + Len(X) = i - 2 /\ i > 2
      BY <1>1, <2>1
    <3> QED
      BY <1>1, <3>1 DEF Later
  <2> QED
    BY <2>2, <2>3, <2>4, <2>5 DEF Afresh, Behind
<1>4. DOMAIN R = 1..Len(R)
  BY <1>1
<1> QED
  BY <1>2, <1>3, <1>4 DEF Tidy, R

Setting(X, v, s, m) ==
  /\ X \in Seq(Statement) /\ Len(X) \in {1, 3, 4, 5} /\ X[1] = Fetch
  /\ Len(X) > 1 => X[2] = <<"status", v, s, m>>
  /\ Len(X) = 3 => X[3] = Commit
  /\ Len(X) > 3 => X[3] = <<"history", v, s>> /\ \A i \in 4..Len(X) : X[i] = Commit

\* What the methods that set a status do after they read the old one is in order.
LEMMA SettingTidy ==
  ASSUME NEW P \in Seq(Statement), P # <<>>, Handled(P, 1), NEW Q, Q = Tail(P), Fresh(Q),
         NEW v, NEW s, NEW m \in Methods, NEW X, Setting(X, v, s, m)
  PROVE  Tidy(X \o Q)
<1> DEFINE R == X \o Q
<1>1. Len(P) \in Nat /\ Q \in Seq(Statement) /\ Later(P, Q, 1) /\ X \in Seq(Statement)
  BY TailLater DEF Setting
<1>2. /\ R \in Seq(Statement) /\ Len(R) = Len(X) + Len(Q) /\ Later(R, Q, Len(X)) /\ Len(X) \in Nat
      /\ Len(Q) \in Nat /\ \A i \in 1..Len(X) : R[i] = X[i]
  <2>1. /\ R \in Seq(Statement) /\ Len(R) = Len(X) + Len(Q) /\ Later(R, Q, Len(X))
        /\ \A i \in 1..Len(X) : R[i] = X[i]
    BY <1>1, JoinLater, Zenon
  <2>2. Len(X) \in Nat /\ Len(Q) \in Nat
    BY <1>1
  <2> QED
    BY <2>1, <2>2
<1> HIDE DEF R
<1>3. DOMAIN R = 1..Len(R) /\ \A i \in 1..Len(X) : i \in DOMAIN R
  BY <1>2
<1>4. PICK n \in Nat : n = Len(X)
  BY <1>2
<1>5. n \in {1, 3, 4, 5} /\ R[1] = Fetch
  <2>1. Len(X) \in {1, 3, 4, 5} /\ X[1] = Fetch
    BY DEF Setting
  <2>2. 1 \in 1..Len(X)
    BY <2>1
  <2> QED
    BY <1>2, <1>4, <2>1, <2>2
<1>6. ASSUME NEW i \in 1..n, R[i] \in {Fetch, Commit}
      PROVE  Ahead(R, i) /\ Behind(R, i)
  <2>1. R[i][1] \in {"fetch", "commit"}
    BY <1>6 DEF Fetch, Commit
  <2> QED
    BY <2>1 DEF Ahead, Behind, Sealed, Retold
<1>7. ASSUME n > 1
      PROVE  /\ 2 \in DOMAIN R /\ 3 \in DOMAIN R /\ R[2] = <<"status", v, s, m>>
             /\ n = 3 => R[3] = Commit
             /\ n # 3 => R[3] = <<"history", v, s>> /\ 4 \in DOMAIN R
             /\ \A i \in 4..n : R[i] = Commit
  <2>1. 2 \in 1..n /\ 3 \in 1..n /\ n = Len(X)
    BY <1>4, <1>5, <1>7
  <2>2. R[2] = X[2] /\ R[3] = X[3] /\ 2 \in DOMAIN R /\ 3 \in DOMAIN R
    BY <1>2, <1>3, <2>1
  <2>3. n # 3 => 4 \in 1..n /\ n > 3
    BY <1>5, <1>7
  <2>4. \A i \in 4..n : n > 3 /\ i \in 1..n
    BY <1>5
  <2>5. \A i \in 4..n : R[i] = X[i]
    BY <1>2, <1>4, <2>4
  <2> QED
    BY <1>3, <1>4, <1>7, <2>1, <2>2, <2>3, <2>4, <2>5 DEF Setting
<1>8. ASSUME n > 1
      PROVE  Ahead(R, 2) /\ Behind(R, 2)
  <2>1. R[3] \in {Commit, <<"history", v, s>>}
    BY <1>5, <1>7, <1>8
  <2>2. 2 + 1 = 3
    OBVIOUS
  <2> QED
    BY <1>5, <1>7, <1>8, <2>1, <2>2 DEF Ahead, Behind, Sealed, Retold
<1>9. ASSUME n > 3
      PROVE  Ahead(R, 3) /\ Behind(R, 3)
  <2>1. /\ R[2] = <<"status", v, s, m>> /\ R[3] = <<"history", v, s>> /\ 4 \in DOMAIN R
        /\ \A i \in 4..n : R[i] = Commit
    BY <1>5, <1>7, <1>9
  <2>2. Handled(R, 3)
    <3>1. PICK g \in 2..Len(P) : P[g] = Recovers /\ \A l \in 2..(g - 1) : P[l][1] # "except"
      BY DEF Handled
    <3>2. PICK k \in 1..Len(Q) : k + 1 = g
      <4>1. g - 1 \in 1..Len(Q) /\ (g - 1) + 1 = g
        BY <1>1, <3>1 DEF Later
      <4> QED
        BY <4>1
    <3>3. Q[k] = Recovers /\ \A l \in 1..(k - 1) : Q[l][1] # "except"
      <4>1. \A l \in 1..(k - 1) : l \in 1..Len(Q) /\ l + 1 \in 2..(g - 1)
        BY <1>2, <3>2
      <4> QED
        BY <1>1, <3>1, <3>2, <4>1 DEF Later
    <3>4. k + n \in 4..Len(R) /\ R[k + n] = Recovers
      BY <1>2, <1>4, <1>9, <3>3 DEF Later
    <3>5. ASSUME NEW l \in 4..((k + n) - 1)
          PROVE  R[l][1] # "except"
      <4>1. CASE l <= n
        <5>1. R[l] = Commit
          BY <2>1, <4>1
        <5> QED
          BY <5>1 DEF Commit
      <4>2. CASE l > n
        <5>1. PICK j \in 1..(k - 1) : j + n = l
          <6>1. l - n \in 1..(k - 1) /\ (l - n) + n = l
            BY <4>2
          <6> QED
            BY <6>1
        <5>2. j \in 1..Len(Q)
          BY <1>2
        <5> QED
          BY <1>2, <1>4, <3>3, <5>1, <5>2 DEF Later
      <4> QED
        BY <4>1, <4>2
    <3>6. 3 + 1 = 4
      OBVIOUS
    <3> QED
      BY <3>4, <3>5, <3>6 DEF Handled
  <2>3. R[4] = Commit /\ 3 + 1 = 4 /\ 3 - 1 = 2
    BY <1>9, <2>1
  <2>4. Ahead(R, 3)
    BY <2>1, <2>2, <2>3 DEF Ahead, Sealed, Retold
  <2>5. Behind(R, 3)
    BY <2>1, <2>3 DEF Behind
  <2> QED
    BY <2>4, <2>5
<1>10. ASSUME NEW i \in 1..n
       PROVE  Ahead(R, i) /\ Behind(R, i)
  <2>1. i = 1 \/ (i = 2 /\ n > 1) \/ (i = 3 /\ n = 3) \/ (i = 3 /\ n > 3) \/ (i \in 4..n /\ n > 1)
    BY <1>5
  <2>2. CASE i = 2 \/ (i = 3 /\ n > 3)
    BY <1>8, <1>9, <2>1, <2>2
  <2>3. CASE i = 1 \/ (i = 3 /\ n = 3) \/ (i \in 4..n /\ n > 1)
    BY <1>5, <1>6, <1>7, <2>3
  <2> QED
    BY <2>1, <2>2, <2>3
<1> QED
  BY <1>1, <1>4, <1>10, FollowsFresh DEF R

\* It is what ThenStatus() says.
LEMMA ThenSets ==
  ASSUME NEW d \in Tables, NEW s \in Statement, s[1] = "getstatus"
  PROVE  Setting(Then(d, s), s[2], s[3], s[4])
<1>1. PICK v \in Videos, u \in Statuses, m \in Methods : v = s[2] /\ u = s[3] /\ m = s[4]
  BY VideoOperands
<1>2. PICK w \in Statement, h \in Statement, c \in Statement, f \in Statement :
        /\ w = <<"status", v, u, m>> /\ h = <<"history", v, u>>
        /\ c = Commit /\ f = Fetch
  BY VideoStatement, PlainStatement
<1>3. ASSUME NEW L, L = <<c>> \/ L = <<>>
      PROVE  <<w>> \o <<h, c>> \o L \in {<<w, h, c>>, <<w, h, c, c>>}
  <2>1. <<w>> \o <<h, c>> = <<w, h, c>>
    BY ThreeJoined
  <2>2. <<w, h, c>> \o <<c>> = <<w, h, c, c>>
    <3>1. <<w, h, c>> \o <<c>> \in Seq(Statement) /\ Len(<<w, h, c>> \o <<c>>) = Len(<<w, h, c, c>>)
          /\ \A i \in 1..Len(<<w, h, c, c>>) : <<w, h, c, c>>[i] = (<<w, h, c>> \o <<c>>)[i]
      OBVIOUS
    <3>2. <<w, h, c, c>> \in Seq(Statement)
      OBVIOUS
    <3> QED
      BY <3>1, <3>2, SeqEqual
  <2>3. <<w, h, c>> \o <<>> = <<w, h, c>>
    <3>1. <<w, h, c>> \in Seq(Statement)
      OBVIOUS
    <3> QED
      BY <3>1
  <2> QED
    BY <1>3, <2>1, <2>2, <2>3, Zenon
<1>4. /\ <<f>> \o <<w, h, c>> = <<f, w, h, c>>
       /\ <<f>> \o <<w, h, c, c>> = <<f, w, h, c, c>>
  <2>1. <<f>> \o <<w, h, c>> \in Seq(Statement) /\ Len(<<f>> \o <<w, h, c>>) = Len(<<f, w, h, c>>)
        /\ \A i \in 1..Len(<<f, w, h, c>>) : <<f, w, h, c>>[i] = (<<f>> \o <<w, h, c>>)[i]
    OBVIOUS
  <2>2. <<f>> \o <<w, h, c, c>> \in Seq(Statement)
        /\ Len(<<f>> \o <<w, h, c, c>>) = Len(<<f, w, h, c, c>>)
        /\ \A i \in 1..Len(<<f, w, h, c, c>>) : <<f, w, h, c, c>>[i] = (<<f>> \o <<w, h, c, c>>)[i]
    OBVIOUS
  <2>3. <<f, w, h, c>> \in Seq(Statement) /\ <<f, w, h, c, c>> \in Seq(Statement)
    OBVIOUS
  <2> QED
    BY <2>1, <2>2, <2>3, SeqEqual
<1>5. Then(d, s) \in {<<f>>, <<f, w, c>>, <<f, w, h, c>>, <<f, w, h, c, c>>}
  <2> DEFINE Y == ThenStatus(d.status[v], v, u, m)
  <2>1. Then(d, s) = <<f>> \o Y
    BY <1>1, <1>2 DEF Then
  <2>2. CASE d.status[v] # u
    <3>1. PICK L : L = (IF m = "update_video" THEN <<c>> ELSE <<>>) /\ (L = <<c>> \/ L = <<>>)
      OBVIOUS
    <3>2. Y = <<w>> \o <<h, c>> \o L
      BY <1>2, <2>2, <3>1 DEF ThenStatus, History
    <3> HIDE DEF Y
    <3>3. Y = <<w, h, c>> \/ Y = <<w, h, c, c>>
      <4>1. <<w>> \o <<h, c>> \o L \in {<<w, h, c>>, <<w, h, c, c>>}
        BY <1>3, <3>1
      <4> QED
        BY <3>2, <4>1, Zenon
    <3>4. <<f>> \o <<w, h, c>> = <<f, w, h, c>> /\ <<f>> \o <<w, h, c, c>> = <<f, w, h, c, c>>
      BY <1>4
    <3>5. Then(d, s) = <<f, w, h, c>> \/ Then(d, s) = <<f, w, h, c, c>>
      BY <2>1, <3>3, <3>4, Zenon
    <3> QED
      BY <3>5, Zenon
  <2>3. CASE d.status[v] = u /\ m = "update_video"
    <3>1. Y = <<w, c>>
      BY <1>2, <2>3 DEF ThenStatus
    <3> HIDE DEF Y
    <3>2. <<f>> \o <<w, c>> = <<f, w, c>>
      BY ThreeJoined
    <3> QED
      BY <2>1, <3>1, <3>2, Zenon
  <2>4. CASE d.status[v] = u /\ m # "update_video"
    <3>1. Y = <<>>
      BY <2>4 DEF ThenStatus
    <3> HIDE DEF Y
    <3>2. <<f>> \o <<>> = <<f>>
      OBVIOUS
    <3> QED
      BY <2>1, <3>1, <3>2, Zenon
  <2> QED
    BY <2>2, <2>3, <2>4
<1>6. ASSUME NEW X, X \in {<<f>>, <<f, w, c>>, <<f, w, h, c>>, <<f, w, h, c, c>>}
      PROVE  /\ X \in Seq(Statement) /\ Len(X) \in {1, 3, 4, 5} /\ X[1] = f
             /\ Len(X) > 1 => X[2] = w
             /\ Len(X) = 3 => X[3] = c
             /\ Len(X) > 3 => X[3] = h /\ \A i \in 4..Len(X) : X[i] = c
  <2>1. CASE X = <<f>>
    BY <2>1
  <2>2. CASE X = <<f, w, c>>
    BY <2>2
  <2>3. CASE X = <<f, w, h, c>>
    <3>1. X \in Seq(Statement) /\ Len(X) = 4 /\ X[1] = f /\ X[2] = w /\ X[3] = h /\ X[4] = c
      BY <2>3
    <3>2. \A i \in 4..4 : i = 4
      OBVIOUS
    <3> QED
      BY <3>1, <3>2
  <2>4. CASE X = <<f, w, h, c, c>>
    <3>1. X \in Seq(Statement) /\ Len(X) = 5 /\ X[1] = f /\ X[2] = w /\ X[3] = h /\ X[4] = c /\ X[5] = c
      BY <2>4
    <3>2. \A i \in 4..5 : i = 4 \/ i = 5
      OBVIOUS
    <3> QED
      BY <3>1, <3>2
  <2> QED
    BY <1>6, <2>1, <2>2, <2>3, <2>4
<1>7. PICK X : X = Then(d, s)
  OBVIOUS
<1>8. /\ X \in Seq(Statement) /\ Len(X) \in {1, 3, 4, 5} /\ X[1] = f
      /\ Len(X) > 1 => X[2] = w
      /\ Len(X) = 3 => X[3] = c
      /\ Len(X) > 3 => X[3] = h /\ \A i \in 4..Len(X) : X[i] = c
  BY <1>5, <1>6, <1>7, Zenon
<1>9. Setting(X, v, u, m)
  BY <1>2, <1>8 DEF Setting
<1> QED
  BY <1>1, <1>7, <1>9, Zenon

\* After the old status was read a program is about to set the new one, at most.
LEMMA GetStatusOn ==
  ASSUME NEW d \in Tables, NEW P \in Seq(Statement), P # <<>>, Tidy(P), P[1][1] = "getstatus",
         NEW R, R = Rest(Then(d, P[1]) \o Tail(P))
  PROVE  /\ R \in Seq(Statement) /\ Tidy(R) /\ Onward(P, R)
         /\ \A v : /\ ~Tells(R, v)
                   /\ Sets(R, v) => v = P[1][2] /\ R[1] = Fetch
<1> DEFINE s == P[1]
<1>1. Tail(P) \in Seq(Statement) /\ Later(P, Tail(P), 1) /\ s \in Statement /\ 1 \in 1..Len(P)
  BY TailLater
<1>2. PICK Q \in Seq(Statement) : Q = Tail(P) /\ Fresh(Q)
  BY <1>1, BreakFresh
<1>3. PICK v \in Videos, u \in Statuses, m \in Methods : v = s[2] /\ u = s[3] /\ m = s[4]
  BY <1>1, VideoOperands
<1>4. PICK X : X = Then(d, s)
  OBVIOUS
<1>5. Setting(X, v, u, m)
  <2>1. Setting(Then(d, s), s[2], s[3], s[4])
    BY <1>1, ThenSets
  <2> QED
    BY <1>3, <1>4, <2>1
<1>6. Handled(P, 1)
  <2>1. Ahead(P, 1)
    BY <1>1 DEF Tidy
  <2> QED
    BY <2>1 DEF Ahead
<1> HIDE DEF s
<1>7. Tidy(X \o Q)
  BY <1>2, <1>3, <1>5, <1>6, SettingTidy
<1>8. /\ X \o Q \in Seq(Statement) /\ X \o Q # <<>> /\ (X \o Q)[1] = Fetch
      /\ Len(X \o Q) = Len(X) + Len(Q)
      /\ Len(X) > 1 => (X \o Q)[2] = X[2]
      /\ Len(X) = 1 /\ Len(Q) > 0 => (X \o Q)[2] = Q[1]
  <2>1. X \in Seq(Statement) /\ X[1] = Fetch /\ Len(X) \in Nat /\ Len(Q) \in Nat /\ Len(X) > 0
    <3>1. X \in Seq(Statement) /\ X[1] = Fetch /\ Len(X) \in {1, 3, 4, 5}
      BY <1>5 DEF Setting
    <3> QED
      BY <1>2, <3>1
  <2>2. /\ X \o Q \in Seq(Statement) /\ Len(X \o Q) = Len(X) + Len(Q)
        /\ \A i \in 1..Len(X) : (X \o Q)[i] = X[i]
        /\ \A i \in 1..Len(Q) : (X \o Q)[i + Len(X)] = Q[i]
    BY <2>1, JoinLater DEF Later
  <2>3. PICK Z \in Seq(Statement) : Z = X \o Q
    BY <2>2
  <2>4. /\ Len(Z) = Len(X) + Len(Q)
        /\ \A i \in 1..Len(X) : Z[i] = X[i]
        /\ \A i \in 1..Len(Q) : Z[i + Len(X)] = Q[i]
    BY <2>2, <2>3, Zenon
  <2>5. /\ Z # <<>> /\ Z[1] = Fetch
        /\ Len(X) > 1 => Z[2] = X[2]
        /\ Len(X) = 1 /\ Len(Q) > 0 => Z[2] = Q[1]
    <3>1. Len(X) = 1 /\ Len(Q) > 0 => Z[1 + Len(X)] = Q[1]
      BY <2>1, <2>4
    <3>2. 1 \in 1..Len(X) /\ (Len(X) > 1 => 2 \in 1..Len(X))
      BY <2>1
    <3>3. Z[1] = Fetch /\ (Len(X) > 1 => Z[2] = X[2])
      BY <2>1, <2>4, <3>2
    <3> QED
      BY <2>1, <2>4, <3>1, <3>3
  <2> QED
    BY <2>2, <2>3, <2>5, Zenon
<1>9. R = X \o Q
  <2>1. (X \o Q)[1][1] # "except"
    BY <1>8 DEF Fetch
  <2>2. Rest(X \o Q) = X \o Q
    BY <1>8, <2>1, RestSame
  <2> QED
    BY <1>2, <1>4, <2>2 DEF s
<1>10. /\ R \in Seq(Statement) /\ Tidy(R) /\ R # <<>> /\ R[1] = Fetch /\ Len(R) = Len(X) + Len(Q)
       /\ Len(X) > 1 => R[2] = X[2]
       /\ Len(X) = 1 /\ Len(Q) > 0 => R[2] = Q[1]
  BY <1>7, <1>8, <1>9, Zenon
<1>11. ASSUME NEW w
       PROVE  ~Tells(R, w) /\ (Sets(R, w) => w = P[1][2] /\ R[1] = Fetch)
  <2>1. ~Tells(R, w)
    BY <1>10 DEF Tells, Fetch, Commit
  <2>2. Sets(R, w) => w = P[1][2]
    <3>1. CASE Len(X) > 1
      <4>1. R[2][2] = P[1][2]
        BY <1>3, <1>5, <1>10, <3>1 DEF s, Setting
      <4>2. R[1][1] # "status"
        BY <1>10 DEF Fetch
      <4> QED
        BY <4>1, <4>2 DEF Sets
    <3>2. CASE Len(X) = 1
      <4>1. Len(Q) > 0 => Q[1][1] # "status"
        <5>1. Q # <<>> => Q[1][1] \notin {"status", "history"}
          BY <1>2, FreshTidy
        <5> QED
          BY <5>1
      <4>2. R[1][1] # "status"
        BY <1>10 DEF Fetch
      <4>3. Len(R) > 1 => R[2][1] # "status"
        <5>1. Len(Q) \in Nat
          BY <1>2
        <5> QED
          BY <1>10, <3>2, <4>1, <5>1
      <4> QED
        BY <4>2, <4>3 DEF Sets
    <3>3. Len(X) = 1 \/ Len(X) > 1
      <4>1. PICK n \in {1, 3, 4, 5} : n = Len(X)
        BY <1>5 DEF Setting
      <4>2. n = 1 \/ n > 1
        OBVIOUS
      <4> QED
        BY <4>1, <4>2
    <3> QED
      BY <3>1, <3>2, <3>3
  <2> QED
    BY <1>10, <2>1, <2>2
<1>12. Onward(P, R)
  <2>1. ASSUME NEW G, G[1] \in {"commit", "export"}, Reaches(P, 1, G)
        PROVE  FALSE
    <3>1. P[1] # G
      BY <2>1
    <3>2. P[1][1] \in Calm
      BY <2>1, <3>1, ReachesNext
    <3> QED
      BY <3>2 DEF Calm
  <2> QED
    BY <2>1 DEF Onward
<1> QED
  BY <1>10, <1>11, <1>12

-----------------------------------------------------------------------------
(* How the rest of a program goes on after the other statements *)

\* Statements without operands.
LEMMA PlainOperands ==
  ASSUME NEW s \in Statement
  PROVE  (s[1] = "fetch" => s = Fetch) /\ (s[1] = "commit" => s = Commit)
<1>1. CASE s \in VideoStatements
  BY <1>1 DEF VideoStatements
<1>2. CASE s \in NamedStatements
  BY <1>2 DEF NamedStatements
<1>3. CASE s \in TagStatements
  BY <1>3 DEF TagStatements
<1>4. CASE s \in Plain
  BY <1>4 DEF Plain, Fetch, Commit, Rollback
<1>5. CASE s \in Markers
  BY <1>5 DEF Markers
<1> QED
  BY <1>1, <1>2, <1>3, <1>4, <1>5 DEF Statement

\* What is reached behind the first statement is still reached after it.
LEMMA NextReaches ==
  ASSUME NEW P \in Seq(Statement), P # <<>>, Tidy(P), NEW R, R = Rest(Tail(P)),
         NEW G, G[1] # "except", P[1] # G, Reaches(P, 1, G)
  PROVE  Reaches(R, 1, G)
<1>1. Reaches(P, 2, G)
  BY ReachesNext
<1> QED
  BY <1>1, GoesOn

\* After the rows were fetched a program sets the status it was about to set.
LEMMA FetchOn ==
  ASSUME NEW P \in Seq(Statement), P # <<>>, Tidy(P), P[1][1] = "fetch",
         NEW R, R = Rest(Tail(P))
  PROVE  /\ R \in Seq(Statement) /\ Tidy(R) /\ Onward(P, R)
         /\ \A v : ~Tells(R, v) /\ (Sets(R, v) => Sets(P, v) /\ P[1] = Fetch)
<1>1. R \in Seq(Statement) /\ Tidy(R)
  BY GoesOn
<1>2. Onward(P, R)
  <2>1. ASSUME NEW G, G[1] \in {"commit", "export"}, Reaches(P, 1, G)
        PROVE  Reaches(R, 1, G)
    <3>1. P[1] # G /\ G[1] # "except"
      BY <2>1
    <3> QED
      BY <2>1, <3>1, NextReaches
  <2> QED
    BY <2>1 DEF Onward
<1>3. P[1] = Fetch
  <2>1. P[1] \in Statement
    OBVIOUS
  <2> QED
    BY <2>1, PlainOperands
<1>4. ASSUME NEW v, Fresh(R)
      PROVE  ~Tells(R, v) /\ ~Sets(R, v)
  BY <1>1, <1>4, FreshTidy
<1>5. ASSUME NEW v, R = Tail(P)
      PROVE  ~Tells(R, v) /\ (Sets(R, v) => Sets(P, v))
  <2>1. \A i \in 1..Len(R) : R[i] = P[i + 1] /\ i + 1 \in DOMAIN P /\ Behind(P, i + 1)
    BY <1>5 DEF Tidy
  <2>2. Len(R) > 0 => R[1] = P[2] /\ Len(P) > 1 /\ Behind(P, 2)
    BY <1>1, <2>1
  <2>3. Len(R) > 1 => R[2] = P[3] /\ Len(P) > 2 /\ Behind(P, 3)
    BY <1>1, <2>1
  <2>4. Fetch[1] = "fetch" /\ Commit[1] = "commit" /\ Fetch # Commit
    BY DEF Fetch, Commit
  <2>5. Len(R) > 0 => R[1][1] # "history"
    BY <1>3, <2>2, <2>4 DEF Behind
  <2>6. Len(R) > 1 /\ R[1] = Commit => R[2][1] # "history"
    BY <1>3, <2>2, <2>3, <2>4 DEF Behind
  <2>7. Len(R) > 1 => R[2][1] # "status"
    BY <2>3 DEF Behind
  <2>8. ~Tells(R, v)
    BY <1>1, <2>5, <2>6 DEF Tells
  <2>9. Sets(R, v) => Sets(P, v)
    BY <1>1, <1>3, <2>2, <2>7 DEF Sets
  <2> QED
    BY <2>8, <2>9
<1> QED
  BY <1>1, <1>2, <1>3, <1>4, <1>5, GoesOn

\* After the start of a transaction or an export a program comes to all else.
LEMMA PlainOn ==
  ASSUME NEW P \in Seq(Statement), P # <<>>, Tidy(P), P[1][1] \in {"begin", "export"},
         NEW R, R = Rest(Tail(P))
  PROVE  /\ R \in Seq(Statement) /\ Fresh(R)
         /\ \A G : G[1] # "except" /\ P[1] # G /\ Reaches(P, 1, G) => Reaches(R, 1, G)
<1>1. R \in Seq(Statement) /\ Fresh(R)
  BY GoesOn
<1> QED
  BY <1>1, NextReaches

\* After a commit a program tells what it was about to tell.
LEMMA CommitOn ==
  ASSUME NEW P \in Seq(Statement), P # <<>>, Tidy(P), P[1] = Commit,
         NEW R, R = Rest(Tail(P))
  PROVE  /\ R \in Seq(Statement) /\ Tidy(R)
         /\ \A G : G[1] = "export" /\ Reaches(P, 1, G) => Reaches(R, 1, G)
         /\ \A v : /\ ~Sets(R, v)
                   /\ Tells(R, v) <=> Tells(P, v)
                   /\ Tells(R, v) => R[1] # Commit /\ Telling(R) = Telling(P)
<1>1. R \in Seq(Statement) /\ Tidy(R)
  BY GoesOn
<1>2. Fetch[1] = "fetch" /\ Commit[1] = "commit" /\ Fetch # Commit
  BY DEF Fetch, Commit
<1>3. ASSUME NEW G, G[1] = "export", Reaches(P, 1, G)
      PROVE  Reaches(R, 1, G)
  <2>1. P[1] # G /\ G[1] # "except"
    BY <1>2, <1>3
  <2> QED
    BY <1>3, <2>1, NextReaches
<1>4. ASSUME NEW v, Tells(P, v)
      PROVE  Tells(R, v) /\ R[1] # Commit /\ Telling(R) = Telling(P)
  <2>1. Len(P) > 1 /\ P[2][1] = "history" /\ P[2][2] = v
    BY <1>2, <1>4 DEF Tells
  <2>2. R # <<>> /\ R[1] = P[2]
    BY <2>1, GoesOn
  <2>3. R[1] # Commit
    BY <1>2, <2>1, <2>2
  <2> QED
    BY <2>1, <2>2, <2>3 DEF Tells, Telling
<1>5. ASSUME NEW v, Fresh(R)
      PROVE  ~Tells(R, v) /\ ~Sets(R, v)
  BY <1>1, <1>5, FreshTidy
<1>6. ASSUME NEW v, R = Tail(P)
      PROVE  ~Sets(R, v) /\ (Tells(R, v) => Tells(P, v))
  <2>1. \A i \in 1..Len(R) : R[i] = P[i + 1] /\ i + 1 \in DOMAIN P /\ Behind(P, i + 1)
    BY <1>6 DEF Tidy
  <2>2. Len(R) > 0 => R[1] = P[2] /\ Len(P) > 1 /\ Behind(P, 2)
    BY <1>1, <2>1
  <2>3. Len(R) > 1 => R[2] = P[3] /\ Len(P) > 2 /\ Behind(P, 3)
    BY <1>1, <2>1
  <2>4. Len(R) > 0 => R[1][1] # "status"
    BY <1>2, <2>2 DEF Behind
  <2>5. Len(R) > 1 => R[2][1] # "status"
    BY <2>3 DEF Behind
  <2>6. Len(R) > 1 /\ R[1] = Commit => R[2][1] # "history"
    BY <1>2, <2>2, <2>3 DEF Behind
  <2>7. ~Sets(R, v)
    BY <1>1, <2>4, <2>5 DEF Sets
  <2>8. Tells(R, v) => Tells(P, v)
    BY <1>1, <2>2, <2>6 DEF Tells
  <2> QED
    BY <2>7, <2>8
<1>7. Fresh(R) \/ R = Tail(P)
  BY GoesOn
<1> QED
  BY <1>1, <1>3, <1>4, <1>5, <1>6, <1>7

\* A write: what is told of it, and what commits and exports it.
LEMMA WriteOn ==
  ASSUME NEW P \in Seq(Statement), P # <<>>, Tidy(P), P[1][1] \in Writes,
         NEW R, R = Rest(Tail(P))
  PROVE  /\ R \in Seq(Statement) /\ Tidy(R) /\ Onward(P, R)
         /\ \A v : ~Sets(R, v)
         /\ \A v : Tells(R, v) => \/ P[1][1] = "status" /\ P[1][2] = v /\ P[2] # Commit
                                  \/ P[1] = <<"insert", v>>
<1>1. R \in Seq(Statement) /\ Tidy(R)
  BY GoesOn
<1>2. Fetch[1] = "fetch" /\ Commit[1] = "commit" /\ Fetch # Commit
  BY DEF Fetch, Commit
<1>3. Onward(P, R)
  <2>1. ASSUME NEW G, G[1] \in {"commit", "export"}, Reaches(P, 1, G)
        PROVE  Reaches(R, 1, G)
    <3>1. P[1] # G /\ G[1] # "except"
      BY <2>1 DEF Writes
    <3> QED
      BY <2>1, <3>1, NextReaches
  <2> QED
    BY <2>1 DEF Onward
<1>4. ASSUME NEW v, Fresh(R)
      PROVE  ~Tells(R, v) /\ ~Sets(R, v)
  BY <1>1, <1>4, FreshTidy
<1>5. ASSUME NEW v, R = Tail(P), P[1][1] \in {"status", "insert"}
      PROVE  /\ ~Sets(R, v)
             /\ Tells(R, v) => \/ P[1][1] = "status" /\ P[1][2] = v /\ P[2] # Commit
                               \/ P[1] = <<"insert", v>>
  <2>1. \A i \in 1..Len(R) : R[i] = P[i + 1] /\ i + 1 \in DOMAIN P /\ Behind(P, i + 1)
    BY <1>5 DEF Tidy
  <2>2. Len(R) > 0 => R[1] = P[2] /\ Len(P) > 1 /\ Behind(P, 2)
    BY <1>1, <2>1
  <2>3. Len(R) > 1 => R[2] = P[3] /\ Len(P) > 2 /\ Behind(P, 3)
    BY <1>1, <2>1
  <2>4. Len(R) > 0 => R[1][1] # "status"
    BY <1>2, <1>5, <2>2 DEF Behind
  <2>5. Len(R) > 1 => R[2][1] # "status"
    BY <2>3 DEF Behind
  <2>6. ~Sets(R, v)
    BY <1>1, <2>4, <2>5 DEF Sets
  <2>7. ASSUME Len(R) > 0, R[1][1] = "history", R[1][2] = v
        PROVE  P[1][1] = "status" /\ P[1][2] = v /\ P[2] # Commit
    <3>1. P[1] # Commit
      BY <1>2, <1>5
    <3>2. PICK m \in Methods : P[1] = <<"status", P[2][2], P[2][3], m>>
      BY <2>2, <2>7, <3>1 DEF Behind
    <3> QED
      BY <1>2, <2>2, <2>7, <3>2
  <2>8. ASSUME Len(R) > 1, R[1] = Commit, R[2][1] = "history", R[2][2] = v
        PROVE  P[1] = <<"insert", v>>
    <3>1. P[2] = Commit /\ P[3][1] = "history" /\ P[3][2] = v
      BY <2>2, <2>3, <2>8
    <3> QED
      BY <1>2, <2>3, <2>8, <3>1 DEF Behind
  <2>9. Tells(R, v) => \/ P[1][1] = "status" /\ P[1][2] = v /\ P[2] # Commit
                       \/ P[1] = <<"insert", v>>
    BY <1>1, <2>7, <2>8 DEF Tells
  <2> QED
    BY <2>6, <2>9
<1>6. Fresh(R) \/ (R = Tail(P) /\ P[1][1] \in {"status", "insert"})
  BY GoesOn DEF Writes
<1> QED
  BY <1>1, <1>3, <1>4, <1>5, <1>6

\* What a program is at after a write.
LEMMA WriteEnds ==
  ASSUME NEW P \in Seq(Statement), P # <<>>, Tidy(P), P[1][1] \in Writes,
         NEW R, R = Rest(Tail(P))
  PROVE  /\ P[1][1] \in Sealed => Reaches(R, 1, Commit)
         /\ P[1][1] \in Retold => Reaches(R, 1, <<"export", P[1][2]>>)
         /\ P[1][1] \in {"insert", "remove", "history"} => R # <<>> /\ R[1] = Commit
         /\ P[1][1] = "insert" => Tells(R, P[1][2]) /\ Telling(R) = "discovered"
         /\ P[1][1] = "status" =>
              /\ Len(P) > 1 /\ R # <<>> /\ R[1] = P[2]
              /\ P[2] # Commit => /\ R[1] = <<"history", P[1][2], P[1][3]>>
                                  /\ Tells(R, P[1][2]) /\ Telling(R) = P[1][3]
<1>1. Ahead(P, 1) /\ 1 \in 1..Len(P) /\ Len(P) \in Nat
  BY DEF Tidy
<1>2. Commit[1] = "commit"
  BY DEF Commit
<1>3. P[1][1] \in Sealed => Reaches(R, 1, Commit)
  <2>1. P[1][1] \in Sealed => Reaches(P, 2, Commit)
    BY <1>1 DEF Ahead
  <2> QED
    BY <1>2, <2>1, GoesOn
<1>4. P[1][1] \in Retold => Reaches(R, 1, <<"export", P[1][2]>>)
  <2>1. P[1][1] \in Retold => Reaches(P, 2, <<"export", P[1][2]>>)
    BY <1>1 DEF Ahead
  <2>2. <<"export", P[1][2]>>[1] # "except"
    OBVIOUS
  <2> QED
    BY <2>1, <2>2, GoesOn
<1>5. ASSUME P[1][1] \in {"insert", "remove", "history"}
      PROVE  R = Tail(P) /\ R # <<>> /\ R[1] = Commit
  <2>1. Len(P) > 1 /\ P[2] = Commit
    BY <1>1, <1>5 DEF Ahead
  <2> QED
    BY <1>2, <2>1, GoesOn
<1>6. ASSUME P[1][1] = "insert"
      PROVE  Tells(R, P[1][2]) /\ Telling(R) = "discovered"
  <2>1. 3 \in 1..Len(P) /\ P[3] = <<"history", P[1][2], "discovered">>
    <3>1. 1 + 2 \in DOMAIN P /\ P[1 + 2] = <<"history", P[1][2], "discovered">>
      BY <1>1, <1>6, Zenon DEF Ahead
    <3>2. 1 + 2 = 3 /\ DOMAIN P = 1..Len(P)
      OBVIOUS
    <3> QED
      BY <3>1, <3>2
  <2>2. R = Tail(P) /\ R # <<>> /\ R[1] = Commit
    BY <1>5, <1>6
  <2>3. Len(R) > 1 /\ R[2] = P[3]
    BY <2>1, <2>2
  <2> QED
    BY <2>1, <2>2, <2>3 DEF Tells, Telling
<1>7. ASSUME P[1][1] = "status"
      PROVE  /\ Len(P) > 1 /\ R # <<>> /\ R[1] = P[2]
             /\ P[2] # Commit => /\ R[1] = <<"history", P[1][2], P[1][3]>>
                                 /\ Tells(R, P[1][2]) /\ Telling(R) = P[1][3]
  <2>1. Len(P) > 1 /\ P[2] \in {Commit, <<"history", P[1][2], P[1][3]>>}
    BY <1>1, <1>7 DEF Ahead
  <2>2. P[2][1] # "except"
    BY <1>2, <2>1
  <2>3. R # <<>> /\ R[1] = P[2]
    BY <2>1, <2>2, GoesOn
  <2>4. ASSUME P[2] # Commit
        PROVE  /\ R[1] = <<"history", P[1][2], P[1][3]>>
               /\ Tells(R, P[1][2]) /\ Telling(R) = P[1][3]
    <3>1. R[1] = <<"history", P[1][2], P[1][3]>>
      BY <2>1, <2>3, <2>4
    <3>2. R[1] # Commit
      BY <2>3, <2>4
    <3> QED
      BY <2>3, <3>1, <3>2 DEF Tells, Telling
  <2> QED
    BY <2>1, <2>3, <2>4
<1> QED
  BY <1>3, <1>4, <1>5, <1>6, <1>7

-----------------------------------------------------------------------------
(* What a write changes *)

SameRows(d, e) ==
  e.status = d.status /\ e.told = d.told /\ e.born = d.born /\ e.hidden = d.hidden
SameLinks(d, e) == e.tag = d.tag /\ e.links = d.links

\* The index changes no row and no link.
LEMMA ReindexedSame ==
  ASSUME NEW d \in Tables, NEW v \in Videos, NEW e, e = Reindexed(d, {v})
  PROVE  SameRows(d, e) /\ SameLinks(d, e)
<1>1. {v} \in SUBSET Videos
  OBVIOUS
<1>2. e = [d EXCEPT !.indexed = e.indexed, !.words = e.words]
  BY <1>1, ReindexedKeeps
<1> QED
  BY <1>2 DEF SameRows, SameLinks, Tables

\* Links that change drop tags, and change the words of those they touch only.
LEMMA LinkedTags ==
  ASSUME NEW d \in Tables, NEW links, NEW e, e = Linked(d, links)
  PROVE  \A t \in Tags : e.tag[t] = 0 \/ e.tag[t] = d.tag[t]
<1> DEFINE Of(ls, t) == {l \in ls : d.tag[t] # 0 /\ l[2] = d.tag[t]}
           count == [t \in Tags |-> d.usage[t] + Cardinality(Of(links \ d.links, t))
                                      - Cardinality(Of(d.links \ links, t))]
           dropped == {t \in Tags : Of(d.links \ links, t) # {} /\ count[t] = 0}
           touched == {l[1] : l \in (d.links \ links) \cup (links \ d.links)}
           tags == [t \in Tags |-> IF t \in dropped THEN 0 ELSE d.tag[t]]
           auto == d.auto \cap links
           f == [d EXCEPT !.links = links, !.auto = auto, !.usage = count, !.tag = tags]
           shown == {v \in touched : Visible(f, v)}
           indexed == (f.indexed \ touched) \cup shown
           words == {w \in f.words : w[1] \notin touched} \cup UNION {{v} \X WordsOf(f, v) : v \in shown}
<1>1. e = [f EXCEPT !.indexed = indexed, !.words = words]
  BY DEF Linked, Reindexed
<1>2. e.tag = tags
  <2>1. f = [d EXCEPT !.links = links, !.auto = auto, !.usage = count, !.tag = tags]
    OBVIOUS
  <2> HIDE DEF tags, count, auto, indexed, words, f
  <2> QED
    BY <1>1, <2>1 DEF Tables
<1> HIDE DEF dropped
<1> QED
  BY <1>2

\* Links of other videos change no word of this one.
LEMMA LinkedWords ==
  ASSUME NEW d \in Tables, TagIds(d), UsageCounts(d),
         NEW links \in SUBSET (Videos \X (1..MaxTagId)),
         \A l \in links : \E t \in Tags : d.tag[t] = l[2],
         NEW e, e = Linked(d, links),
         NEW v \in Videos, \A id : <<v, id>> \in links <=> <<v, id>> \in d.links
  PROVE  WordsOf(e, v) = WordsOf(d, v)
<1>1. e.links = links /\ \A l \in links : \E t \in Tags : e.tag[t] = l[2]
  BY LinkedKeeps
<1>2. \A t \in Tags : e.tag[t] = 0 \/ e.tag[t] = d.tag[t]
  BY LinkedTags
<1>3. ASSUME NEW t \in Tags, d.tag[t] # 0, <<v, d.tag[t]>> \in d.links
      PROVE  e.tag[t] # 0 /\ <<v, e.tag[t]>> \in e.links
  <2>1. <<v, d.tag[t]>> \in links
    BY <1>3
  <2>2. PICK u \in Tags : e.tag[u] = d.tag[t]
    BY <1>1, <2>1
  <2>3. d.tag[u] = d.tag[t]
    BY <1>2, <1>3, <2>2
  <2>4. u = t
    BY <1>3, <2>3 DEF TagIds
  <2> QED
    BY <1>1, <1>3, <2>1, <2>2, <2>4
<1>4. ASSUME NEW t \in Tags, e.tag[t] # 0, <<v, e.tag[t]>> \in e.links
      PROVE  d.tag[t] # 0 /\ <<v, d.tag[t]>> \in d.links
  <2>1. e.tag[t] = d.tag[t]
    BY <1>2, <1>4
  <2> QED
    BY <1>1, <1>4, <2>1
<1> QED
  BY <1>3, <1>4 DEF WordsOf

\* The columns of the videos.
LEMMA InsertRow ==
  ASSUME NEW d, Sound(d), NEW v \in Videos, NEW s \in Statuses, NEW born \in SUBSET Videos,
         NEW e, e = SetRow([d EXCEPT !.born = born], v, s)
  PROVE  /\ e.status = [d.status EXCEPT ![v] = s] /\ e.born = born
         /\ e.told = d.told /\ e.hidden = d.hidden /\ SameLinks(d, e)
<1> DEFINE f == [[d EXCEPT !.born = born] EXCEPT !.status[v] = s]
<1>1. e = Reindexed(f, {v})
  BY DEF SetRow
<1>2. d \in Tables
  BY DEF Sound
<1>3. f \in Tables /\ f.status = [d.status EXCEPT ![v] = s]
  BY <1>2 DEF Tables
<1>4. f.born = born /\ f.told = d.told /\ f.hidden = d.hidden /\ SameLinks(d, f)
  BY <1>2 DEF SameLinks, Tables
<1> HIDE DEF f
<1>5. SameRows(f, e) /\ SameLinks(f, e)
  BY <1>1, <1>3, ReindexedSame
<1> QED
  BY <1>3, <1>4, <1>5 DEF SameRows, SameLinks

\* Hiding, and showing, a video.
LEMMA HiddenRow ==
  ASSUME NEW d, Sound(d), NEW v \in Videos, NEW hidden \in SUBSET Videos,
         NEW e, e = Reindexed([d EXCEPT !.hidden = hidden], {v})
  PROVE  /\ e.status = d.status /\ e.born = d.born /\ e.told = d.told /\ e.hidden = hidden
         /\ SameLinks(d, e)
<1> DEFINE f == [d EXCEPT !.hidden = hidden]
<1>1. d \in Tables
  BY DEF Sound
<1>2. f \in Tables /\ f.hidden = hidden
  BY <1>1 DEF Tables
<1>3. f.born = d.born /\ f.told = d.told /\ f.status = d.status /\ SameLinks(d, f)
  BY <1>1 DEF SameLinks, Tables
<1>4. e = Reindexed(f, {v})
  OBVIOUS
<1> HIDE DEF f
<1>5. SameRows(f, e) /\ SameLinks(f, e)
  BY <1>2, <1>4, ReindexedSame
<1> QED
  BY <1>2, <1>3, <1>5 DEF SameRows, SameLinks

\* Removing one.
LEMMA RemovedRow ==
  ASSUME NEW d, Sound(d), NEW v \in Videos, NEW e, e = Removed(d, v)
  PROVE  /\ e.status = [d.status EXCEPT ![v] = "none"] /\ e.told = [d.told EXCEPT ![v] = "none"]
         /\ e.born = d.born /\ e.hidden = d.hidden \ {v}
         /\ \A w \in Videos \ {v} : WordsOf(e, w) = WordsOf(d, w)
<1> DEFINE members == {m \in d.members : m[1] # v}
           row == [d EXCEPT !.status[v] = "none", !.hidden = @ \ {v}, !.told[v] = "none",
                            !.members = members]
           links == {l \in d.links : l[1] # v}
           f == Linked(row, links)
<1>1. d \in Tables /\ TagIds(d) /\ UsageCounts(d) /\ \A l \in d.links : LinkLeads(d, l)
  BY DEF Sound
<1>2. d.links \in SUBSET (Videos \X (1..MaxTagId))
  BY <1>1 DEF Tables
<1>3. row \in Tables
  BY <1>1 DEF Tables
<1>4. /\ row.status = [d.status EXCEPT ![v] = "none"] /\ row.hidden = d.hidden \ {v}
      /\ row.told = [d.told EXCEPT ![v] = "none"] /\ row.born = d.born
  BY <1>1 DEF Tables
<1>5. SameTags(d, row)
  BY <1>1 DEF SameTags, Tables
<1>6. e = Reindexed(f, {v})
  <2>1. row.links = d.links
    BY <1>5 DEF SameTags
  <2> QED
    BY DEF Removed
<1> HIDE DEF row
<1>7. TagIds(row) /\ UsageCounts(row)
  BY <1>1, <1>5, SameTagsKeeps
<1>8. links \in SUBSET (Videos \X (1..MaxTagId)) /\ links \subseteq d.links
  BY <1>2
<1>9. \A l \in links : \E t \in Tags : row.tag[t] = l[2]
  BY <1>1, <1>5, <1>8 DEF LinkLeads, SameTags
<1>10. ASSUME NEW w \in Videos \ {v}
       PROVE  WordsOf(f, w) = WordsOf(row, w)
  <2>1. \A id : <<w, id>> \in links <=> <<w, id>> \in row.links
    BY <1>5 DEF SameTags
  <2> HIDE DEF links
  <2> QED
    BY <1>3, <1>7, <1>8, <1>9, <2>1, LinkedWords
<1>11. f \in Tables /\ SameRest(row, f)
  <2> HIDE DEF links
  <2> QED
    BY <1>3, <1>7, <1>8, <1>9, LinkedKeeps
<1> HIDE DEF f
<1>12. SameRows(f, e) /\ SameLinks(f, e)
  BY <1>6, <1>11, ReindexedSame
<1>13. \A w \in Videos \ {v} : WordsOf(e, w) = WordsOf(d, w)
  <2>1. \A w : WordsOf(e, w) = WordsOf(f, w)
    BY <1>12 DEF SameLinks, WordsOf
  <2>2. \A w : WordsOf(row, w) = WordsOf(d, w)
    BY <1>5 DEF SameTags, WordsOf
  <2> QED
    BY <1>10, <2>1, <2>2
<1> QED
  BY <1>4, <1>11, <1>12, <1>13 DEF SameRest, SameRows

\* The links that a write leaves, when it changes links and no row.
LEMMA UnlinkedWords ==
  ASSUME NEW d, Sound(d), NEW links \in SUBSET (Videos \X (1..MaxTagId)),
         \A l \in links : LinkLeads(d, l),
         NEW v \in Videos, \A w \in Videos \ {v} : \A id : <<w, id>> \in links <=> <<w, id>> \in d.links,
         NEW e, e = Linked(d, links)
  PROVE  SameRows(d, e) /\ \A w \in Videos \ {v} : WordsOf(e, w) = WordsOf(d, w)
<1>1. d \in Tables /\ TagIds(d) /\ UsageCounts(d)
  BY DEF Sound
<1>2. \A l \in links : \E t \in Tags : d.tag[t] = l[2]
  BY DEF LinkLeads
<1>3. SameRest(d, e)
  BY <1>1, <1>2, LinkedKeeps
<1>4. ASSUME NEW w \in Videos \ {v}
      PROVE  WordsOf(e, w) = WordsOf(d, w)
  BY <1>1, <1>2, LinkedWords
<1> QED
  BY <1>3, <1>4 DEF SameRest, SameRows

RowWrites == {"insert", "status", "history", "hide", "show", "remove"}
LinkWrites == {"addtag", "importtag", "wipe", "untag", "untagid"}

\* A write of links changes the words of its video only.
LEMMA LinksWritten ==
  ASSUME NEW d, Sound(d), NEW s \in Statement, NEW id \in Nat, Raises(d, s, id) = "none",
         s[1] \in LinkWrites, NEW e, e = Written(d, s, id)
  PROVE  SameRows(d, e) /\ \A v \in Videos \ {s[2]} : WordsOf(e, v) = WordsOf(d, v)
<1>1. PICK v \in Videos : v = s[2]
  BY VideoOperands, TagOperands DEF LinkWrites
<1>2. /\ d \in Tables /\ d.links \in SUBSET (Videos \X (1..MaxTagId))
      /\ \A l \in d.links : LinkLeads(d, l)
  BY DEF Sound, Tables
<1>3. CASE s[1] \in {"addtag", "importtag"}
  <2> DEFINE link == <<v, id>>
             links == d.links \cup {link}
             f == Linked(d, links)
  <2>1. PICK auto : e = [f EXCEPT !.auto = auto]
    BY <1>1, <1>3 DEF Written
  <2>2. Exists(d, v) /\ id # 0 /\ \E t \in Tags : d.tag[t] = id
    BY <1>1, <1>3 DEF Raises
  <2>3. PICK t \in Tags : d.tag[t] = id
    BY <2>2
  <2>4. link \in Videos \X (1..MaxTagId) /\ LinkLeads(d, link)
    <3>1. LinkLeads(d, link)
      BY <2>2 DEF LinkLeads
    <3>2. link \in Videos \X (1..MaxTagId)
      BY <2>2, <2>3, AddTagSound
    <3> QED
      BY <3>1, <3>2
  <2>5. links \in SUBSET (Videos \X (1..MaxTagId)) /\ \A l \in links : LinkLeads(d, l)
    BY <1>2, <2>4
  <2>6. \A w \in Videos \ {v} : \A i : <<w, i>> \in links <=> <<w, i>> \in d.links
    OBVIOUS
  <2>7. f \in Tables
    <3>1. Sound(f)
      BY <2>2, <2>3, AddTagSound
    <3> QED
      BY <3>1 DEF Sound
  <2> HIDE DEF links
  <2>8. SameRows(d, f) /\ \A w \in Videos \ {v} : WordsOf(f, w) = WordsOf(d, w)
    BY <2>5, <2>6, UnlinkedWords
  <2> HIDE DEF f
  <2>9. SameRows(f, e) /\ SameLinks(f, e)
    BY <2>1, <2>7 DEF SameRows, SameLinks, Tables
  <2>10. \A w : WordsOf(e, w) = WordsOf(f, w)
    BY <2>9 DEF SameLinks, WordsOf
  <2>11. SameRows(d, e)
    BY <2>8, <2>9 DEF SameRows
  <2> QED
    BY <1>1, <2>8, <2>10, <2>11
<1>4. CASE s[1] \in {"wipe", "untag", "untagid"}
  <2>1. PICK links : /\ e = Linked(d, links) /\ links \subseteq d.links
                     /\ \A w \in Videos \ {v} : \A i : <<w, i>> \in links <=> <<w, i>> \in d.links
    <3>1. CASE s[1] = "wipe"
      <4>1. e = Linked(d, {l \in d.links : l[1] # v})
        BY <1>1, <3>1 DEF Written
      <4> QED
        BY <4>1
    <3>2. CASE s[1] = "untag"
      <4>1. e = Linked(d, d.links \ {<<v, id>>})
        BY <1>1, <3>2 DEF Written
      <4> QED
        BY <4>1
    <3>3. CASE s[1] = "untagid"
      <4>1. e = Linked(d, d.links \ {<<v, s[3]>>})
        BY <1>1, <3>3 DEF Written
      <4> QED
        BY <4>1
    <3> QED
      BY <1>4, <3>1, <3>2, <3>3
  <2>2. links \in SUBSET (Videos \X (1..MaxTagId)) /\ \A l \in links : LinkLeads(d, l)
    BY <1>2, <2>1
  <2> QED
    BY <1>1, <2>1, <2>2, UnlinkedWords
<1> QED
  BY <1>3, <1>4 DEF LinkWrites

RowColumns(d, e, s) ==
  /\ s[1] = "insert" =>
       /\ s[2] \notin d.born /\ e.status = [d.status EXCEPT ![s[2]] = "discovered"]
       /\ e.born = d.born \cup {s[2]} /\ e.told = d.told /\ e.hidden = d.hidden
  /\ s[1] = "status" =>
       \/ ~Exists(d, s[2]) /\ e = d
       \/ /\ Exists(d, s[2]) /\ e.status = [d.status EXCEPT ![s[2]] = s[3]]
          /\ e.born = d.born /\ e.told = d.told /\ e.hidden = d.hidden
  /\ s[1] = "history" =>
       /\ Exists(d, s[2]) /\ e.told = [d.told EXCEPT ![s[2]] = s[3]]
       /\ e.status = d.status /\ e.born = d.born /\ e.hidden = d.hidden
  /\ s[1] = "hide" =>
       e.status = d.status /\ e.told = d.told /\ e.born = d.born /\ d.hidden \subseteq e.hidden
  /\ s[1] = "show" =>
       /\ e.status = d.status /\ e.told = d.told /\ e.born = d.born
       /\ e.hidden = d.hidden \ {s[2]}
  /\ s[1] = "remove" =>
       /\ e.status = [d.status EXCEPT ![s[2]] = "none"] /\ e.told = [d.told EXCEPT ![s[2]] = "none"]
       /\ e.born = d.born /\ e.hidden = d.hidden \ {s[2]}
  /\ s[1] # "remove" => SameLinks(d, e)
  /\ \A v \in Videos : WordsOf(e, v) = WordsOf(d, v) \/ (s[1] = "remove" /\ v = s[2])

\* A write of rows changes its column only.
LEMMA RowsWritten ==
  ASSUME NEW d, Sound(d), NEW s \in Statement, NEW id \in Nat, Raises(d, s, id) = "none",
         s[1] \in RowWrites, NEW e, e = Written(d, s, id)
  PROVE  RowColumns(d, e, s)
<1> USE DEF RowColumns
<1>1. PICK v \in Videos : v = s[2]
  BY VideoOperands DEF RowWrites
<1>2. d \in Tables /\ d.born \in SUBSET Videos /\ d.hidden \in SUBSET Videos
  BY DEF Sound, Tables
<1>3. SameLinks(d, e) => \A w : WordsOf(e, w) = WordsOf(d, w)
  BY DEF SameLinks, WordsOf
<1>4. CASE s[1] = "insert"
  <2>1. "discovered" \in Statuses /\ d.born \cup {v} \in SUBSET Videos
    BY <1>2, LibraryAssumption
  <2>2. v \notin d.born /\ e = SetRow([d EXCEPT !.born = d.born \cup {v}], v, "discovered")
    BY <1>1, <1>4 DEF Raises, Written
  <2>3. /\ e.status = [d.status EXCEPT ![v] = "discovered"] /\ e.born = d.born \cup {v}
        /\ e.told = d.told /\ e.hidden = d.hidden /\ SameLinks(d, e)
    BY <2>1, <2>2, InsertRow
  <2> QED
    BY <1>1, <1>3, <1>4, <2>2, <2>3
<1>5. CASE s[1] = "status"
  <2>1. s[3] \in Statuses
    BY <1>5, VideoOperands
  <2>2. d = [d EXCEPT !.born = d.born]
    BY <1>2 DEF Tables
  <2>3. e = IF Exists(d, v) THEN SetRow([d EXCEPT !.born = d.born], v, s[3]) ELSE d
    BY <1>1, <1>5, <2>2 DEF Written
  <2>4. CASE Exists(d, v)
    <3>1. /\ e.status = [d.status EXCEPT ![v] = s[3]] /\ e.born = d.born
          /\ e.told = d.told /\ e.hidden = d.hidden /\ SameLinks(d, e)
      BY <1>2, <2>1, <2>3, <2>4, InsertRow
    <3> QED
      BY <1>1, <1>3, <1>5, <2>4, <3>1
  <2>5. CASE ~Exists(d, v)
    <3>1. e = d /\ SameLinks(d, e)
      BY <2>3, <2>5 DEF SameLinks
    <3> QED
      BY <1>1, <1>3, <1>5, <2>5, <3>1
  <2> QED
    BY <2>4, <2>5
<1>6. CASE s[1] = "history"
  <2>1. Exists(d, v) /\ e = [d EXCEPT !.told[v] = s[3]]
    BY <1>1, <1>6 DEF Raises, Written
  <2>2. /\ e.told = [d.told EXCEPT ![v] = s[3]] /\ e.status = d.status /\ e.born = d.born
        /\ e.hidden = d.hidden /\ SameLinks(d, e)
    BY <1>2, <2>1 DEF Tables, SameLinks
  <2> QED
    BY <1>1, <1>3, <1>6, <2>1, <2>2
<1>7. CASE s[1] = "hide"
  <2> DEFINE hidden == d.hidden \cup {v}
  <2>1. hidden \in SUBSET Videos /\ d.hidden \subseteq hidden
    BY <1>2
  <2>2. e = IF Exists(d, v) THEN Reindexed([d EXCEPT !.hidden = hidden], {v}) ELSE d
    BY <1>1, <1>7 DEF Written, Hidden
  <2> HIDE DEF hidden
  <2>3. CASE Exists(d, v)
    <3>1. /\ e.status = d.status /\ e.born = d.born /\ e.told = d.told /\ e.hidden = hidden
          /\ SameLinks(d, e)
      BY <2>1, <2>2, <2>3, HiddenRow
    <3> QED
      BY <1>3, <1>7, <2>1, <3>1
  <2>4. CASE ~Exists(d, v)
    <3>1. e = d /\ SameLinks(d, e)
      BY <2>2, <2>4 DEF SameLinks
    <3> QED
      BY <1>3, <1>7, <3>1
  <2> QED
    BY <2>3, <2>4
<1>8. CASE s[1] = "show"
  <2> DEFINE hidden == d.hidden \ {v}
  <2>1. hidden \in SUBSET Videos
    BY <1>2
  <2>2. e = Reindexed([d EXCEPT !.hidden = hidden], {v})
    BY <1>1, <1>8 DEF Written, Shown
  <2>3. hidden = d.hidden \ {v}
    OBVIOUS
  <2> HIDE DEF hidden
  <2>4. /\ e.status = d.status /\ e.born = d.born /\ e.told = d.told /\ e.hidden = hidden
        /\ SameLinks(d, e)
    BY <2>1, <2>2, HiddenRow
  <2> QED
    BY <1>1, <1>3, <1>8, <2>3, <2>4
<1>9. CASE s[1] = "remove"
  <2>1. e = Removed(d, v)
    BY <1>1, <1>9 DEF Written
  <2>2. /\ e.status = [d.status EXCEPT ![v] = "none"] /\ e.told = [d.told EXCEPT ![v] = "none"]
        /\ e.born = d.born /\ e.hidden = d.hidden \ {v}
        /\ \A w \in Videos \ {v} : WordsOf(e, w) = WordsOf(d, w)
    BY <2>1, RemovedRow
  <2> QED
    BY <1>1, <1>9, <2>2
<1> QED
  BY <1>4, <1>5, <1>6, <1>7, <1>8, <1>9 DEF RowWrites

\* The other writes: artists and collections, and the rows of tags.
NamedWrites == {"insertnamed", "updatenamed", "hidenamed", "link", "unlink", "edit"}

\* An artist or a collection is no video.
LEMMA NamedWritten ==
  ASSUME NEW d, Sound(d), NEW s \in Statement, NEW id \in Nat,
         s[1] \in NamedWrites, NEW e, e = Written(d, s, id)
  PROVE  /\ SameRows(d, e) /\ SameLinks(d, e)
         /\ s[1] \in {"edit", "updatenamed"} => e = d
<1>1. d \in Tables
  BY DEF Sound
<1>2. CASE s[1] \in {"edit", "updatenamed"}
  <2>1. e = d
    BY <1>2 DEF Written
  <2> QED
    BY <2>1 DEF SameRows, SameLinks
<1>3. CASE s[1] \in {"insertnamed", "hidenamed"}
  <2>1. PICK named : e = [d EXCEPT !.named = named]
    BY <1>3 DEF Written
  <2>2. SameRows(d, e) /\ SameLinks(d, e)
    BY <1>1, <2>1 DEF SameRows, SameLinks, Tables
  <2> QED
    BY <1>3, <2>2
<1>4. CASE s[1] \in {"link", "unlink"}
  <2>1. PICK members : e = [d EXCEPT !.members = members]
    BY <1>4 DEF Written
  <2>2. SameRows(d, e) /\ SameLinks(d, e)
    BY <1>1, <2>1 DEF SameRows, SameLinks, Tables
  <2> QED
    BY <1>4, <2>2
<1> QED
  BY <1>2, <1>3, <1>4 DEF NamedWrites

\* No video has a new tag.
LEMMA TagInserted ==
  ASSUME NEW d, Sound(d), NEW s \in Statement, NEW id \in Nat, Raises(d, s, id) = "none",
         s[1] = "inserttag", d.lastTag < MaxTagId, NEW e, e = Written(d, s, id)
  PROVE  SameRows(d, e) /\ \A v \in Videos : WordsOf(e, v) = WordsOf(d, v)
<1>1. PICK t \in Tags : t = s[2]
  BY TagOperands
<1>2. PICK n \in Nat : n = d.lastTag + 1
  BY DEF Sound, Tables
<1>3. d \in Tables /\ d.tag \in [Tags -> 0..MaxTagId] /\ d.lastTag \in Nat
      /\ d.links \in SUBSET (Videos \X (1..MaxTagId)) /\ MaxTagId \in Nat
  BY LibraryAssumption DEF Sound, Tables
<1>4. d.tag[t] = 0
  BY <1>1 DEF Raises
<1>5. e = [d EXCEPT !.lastTag = n, !.tag[t] = n]
  BY <1>1, <1>2 DEF Written
<1>6. SameRows(d, e) /\ e.links = d.links
  BY <1>3, <1>5 DEF SameRows, Tables
<1>7. e.tag = [d.tag EXCEPT ![t] = n]
  BY <1>3, <1>5 DEF Tables
<1>8. \A v : <<v, n>> \notin d.links
  <2>1. ASSUME NEW v, <<v, n>> \in d.links
        PROVE  FALSE
    <3>1. PICK u \in Tags : d.tag[u] = n
      BY <2>1 DEF Sound, LinkLeads
    <3>2. d.tag[u] <= d.lastTag
      BY DEF Sound, TagIds
    <3> QED
      BY <1>2, <1>3, <3>1, <3>2
  <2> QED
    BY <2>1
<1>9. ASSUME NEW v \in Videos, NEW u \in Tags
      PROVE  u \in WordsOf(e, v) <=> u \in WordsOf(d, v)
  <2>1. CASE u = t
    BY <1>3, <1>4, <1>6, <1>7, <1>8, <2>1 DEF WordsOf
  <2>2. CASE u # t
    BY <1>3, <1>6, <1>7, <2>2 DEF WordsOf
  <2> QED
    BY <2>1, <2>2
<1> QED
  BY <1>6, <1>9 DEF WordsOf

\* Links change no row.
LEMMA LinkedRows ==
  ASSUME NEW d \in Tables, NEW links, NEW e, e = Linked(d, links)
  PROVE  SameRows(d, e)
<1> DEFINE Of(ls, t) == {l \in ls : d.tag[t] # 0 /\ l[2] = d.tag[t]}
           count == [t \in Tags |-> d.usage[t] + Cardinality(Of(links \ d.links, t))
                                      - Cardinality(Of(d.links \ links, t))]
           dropped == {t \in Tags : Of(d.links \ links, t) # {} /\ count[t] = 0}
           touched == {l[1] : l \in (d.links \ links) \cup (links \ d.links)}
           tags == [t \in Tags |-> IF t \in dropped THEN 0 ELSE d.tag[t]]
           auto == d.auto \cap links
           f == [d EXCEPT !.links = links, !.auto = auto, !.usage = count, !.tag = tags]
           shown == {v \in touched : Visible(f, v)}
           indexed == (f.indexed \ touched) \cup shown
           words == {w \in f.words : w[1] \notin touched} \cup UNION {{v} \X WordsOf(f, v) : v \in shown}
<1>1. e = [f EXCEPT !.indexed = indexed, !.words = words]
  BY DEF Linked, Reindexed
<1>2. f = [d EXCEPT !.links = links, !.auto = auto, !.usage = count, !.tag = tags]
  OBVIOUS
<1> HIDE DEF tags, count, auto, indexed, words, f
<1> QED
  BY <1>1, <1>2 DEF SameRows, Tables

\* Nor does a tag that is deleted.
LEMMA TagDeleted ==
  ASSUME NEW d, Sound(d), NEW t \in Tags, NEW e, e = TagRemoved(d, t)
  PROVE  SameRows(d, e)
<1> DEFINE row == [d EXCEPT !.tag[t] = 0, !.usage[t] = 0]
           links == {l \in d.links : l[2] # d.tag[t]}
<1>1. /\ d \in Tables /\ d.tag \in [Tags -> 0..MaxTagId] /\ d.usage \in [Tags -> Nat]
      /\ MaxTagId \in Nat
  BY LibraryAssumption DEF Sound, Tables
<1>2. PICK tag \in [Tags -> 0..MaxTagId], usage \in [Tags -> Nat] :
        row = [d EXCEPT !.tag = tag, !.usage = usage]
  <2>1. [d.tag EXCEPT ![t] = 0] \in [Tags -> 0..MaxTagId] /\ [d.usage EXCEPT ![t] = 0] \in [Tags -> Nat]
    BY <1>1
  <2>2. row = [d EXCEPT !.tag = [d.tag EXCEPT ![t] = 0], !.usage = [d.usage EXCEPT ![t] = 0]]
    BY <1>1 DEF Tables
  <2> HIDE DEF row
  <2> QED
    BY <2>1, <2>2
<1>3. e = Linked(row, links)
  BY DEF TagRemoved
<1> HIDE DEF row, links
<1>4. row \in Tables /\ SameRows(d, row)
  BY <1>1, <1>2 DEF Tables, SameRows
<1>5. SameRows(row, e)
  BY <1>3, <1>4, LinkedRows
<1> QED
  BY <1>4, <1>5 DEF SameRows

\* What each write leaves alone.
Rewrites(d, e, s) ==
  /\ s[1] \notin {"insert", "remove", "status"} => e.status = d.status
  /\ s[1] \notin {"history", "remove"} => e.told = d.told
  /\ s[1] # "insert" => e.born = d.born
  /\ s[1] \notin {"hide", "show", "remove"} => e.hidden = d.hidden
  /\ s[1] \notin LinkWrites \cup {"remove", "deletetag"} => \A v \in Videos : WordsOf(e, v) = WordsOf(d, v)
  /\ s[1] # "deletetag" => \A v \in Videos \ {s[2]} : WordsOf(e, v) = WordsOf(d, v)
  /\ s[1] \in {"edit", "updatenamed", "status", "history"} => SameLinks(d, e)
  /\ s[1] \in {"edit", "updatenamed"} => e = d

\* Every write leaves alone what Rewrites says.
LEMMA WriteRewrites ==
  ASSUME NEW d, Sound(d), NEW s \in Statement, NEW id \in Nat, Raises(d, s, id) = "none",
         s[1] \in Writes, s[1] = "inserttag" => d.lastTag < MaxTagId, NEW e, e = Written(d, s, id)
  PROVE  Rewrites(d, e, s)
<1>r. s[1] \in RowWrites => RowColumns(d, e, s)
  BY RowsWritten
<1>1. CASE s[1] \in RowWrites
  <2>1. /\ s[1] \notin {"insert", "remove", "status"} => e.status = d.status
        /\ s[1] \notin {"history", "remove"} => e.told = d.told
        /\ s[1] # "insert" => e.born = d.born
        /\ s[1] \notin {"hide", "show", "remove"} => e.hidden = d.hidden
    BY <1>1, <1>r DEF RowWrites, RowColumns
  <2>2. s[1] # "remove" => SameLinks(d, e)
    BY <1>1, <1>r DEF RowColumns
  <2>3. \A v \in Videos : WordsOf(e, v) = WordsOf(d, v) \/ (s[1] = "remove" /\ v = s[2])
    BY <1>1, <1>r DEF RowColumns
  <2>4. s[1] \notin {"edit", "updatenamed"}
    BY <1>1 DEF RowWrites
  <2> QED
    BY <2>1, <2>2, <2>3, <2>4 DEF Rewrites
<1>2. CASE s[1] \in LinkWrites
  <2>1. SameRows(d, e) /\ \A v \in Videos \ {s[2]} : WordsOf(e, v) = WordsOf(d, v)
    BY <1>2, LinksWritten
  <2>2. s[1] \notin {"edit", "updatenamed", "status", "history"}
    BY <1>2 DEF LinkWrites
  <2> QED
    BY <1>2, <2>1, <2>2 DEF Rewrites, SameRows
<1>3. CASE s[1] \in NamedWrites
  <2>1. SameRows(d, e) /\ SameLinks(d, e) /\ (s[1] \in {"edit", "updatenamed"} => e = d)
    BY <1>3, NamedWritten
  <2>2. \A v \in Videos : WordsOf(e, v) = WordsOf(d, v)
    BY <2>1 DEF SameLinks, WordsOf
  <2> QED
    BY <2>1, <2>2 DEF Rewrites, SameRows
<1>4. CASE s[1] = "inserttag"
  <2>1. SameRows(d, e) /\ \A v \in Videos : WordsOf(e, v) = WordsOf(d, v)
    BY <1>4, TagInserted
  <2> QED
    BY <1>4, <2>1 DEF Rewrites, SameRows
<1>5. CASE s[1] = "deletetag"
  <2>1. e = TagRemoved(d, s[2]) /\ s[2] \in Tags
    BY <1>5, TagOperands DEF Written
  <2>2. SameRows(d, e)
    BY <2>1, TagDeleted
  <2> QED
    BY <1>5, <2>2 DEF Rewrites, SameRows
<1>6. s[1] \in RowWrites \cup LinkWrites \cup NamedWrites \cup {"inserttag", "deletetag"}
  BY DEF Writes, RowWrites, LinkWrites, NamedWrites
<1> QED
  BY <1>1, <1>2, <1>3, <1>4, <1>5, <1>6

\* Only an insert and a removal change which rows there are.
LEMMA WriteExists ==
  ASSUME NEW d, Sound(d), NEW s \in Statement, NEW id \in Nat, Raises(d, s, id) = "none",
         s[1] \in Writes, NEW e, e = Written(d, s, id), Rewrites(d, e, s)
  PROVE  /\ s[1] \notin {"insert", "remove"} => \A v \in Videos : Exists(e, v) <=> Exists(d, v)
         /\ s[1] = "insert" => Exists(e, s[2]) /\ s[2] \in e.born
         /\ s[1] = "remove" => ~Exists(e, s[2]) /\ e.told[s[2]] = "none"
         /\ \A v \in Videos \ {s[2]} : Exists(e, v) <=> Exists(d, v)
         /\ d.born \subseteq e.born
         /\ s[1] = "history" => Exists(d, s[2])
         /\ \A v \in Videos \ {s[2]} : e.status[v] = d.status[v] /\ e.told[v] = d.told[v]
<1>r. s[1] \in RowWrites => RowColumns(d, e, s)
  BY RowsWritten
<1>1. d.status \in [Videos -> Statuses \cup {"none"}] /\ d.told \in [Videos -> Statuses \cup {"none"}]
  BY DEF Sound, Tables
<1>2. "none" \notin Statuses /\ "discovered" \in Statuses
  BY LibraryAssumption
<1>3. CASE s[1] = "insert"
  <2>1. /\ e.status = [d.status EXCEPT ![s[2]] = "discovered"] /\ e.born = d.born \cup {s[2]}
        /\ e.told = d.told /\ s[2] \in Videos
    BY <1>3, <1>r, VideoOperands DEF RowColumns, RowWrites
  <2> QED
    BY <1>1, <1>2, <1>3, <2>1 DEF Exists
<1>4. CASE s[1] = "remove"
  <2>1. /\ e.status = [d.status EXCEPT ![s[2]] = "none"] /\ e.told = [d.told EXCEPT ![s[2]] = "none"]
        /\ e.born = d.born /\ s[2] \in Videos
    BY <1>4, <1>r, VideoOperands DEF RowColumns, RowWrites
  <2> QED
    BY <1>1, <1>4, <2>1 DEF Exists
<1>5. CASE s[1] = "status"
  <2>1. s[2] \in Videos /\ s[3] \in Statuses
    BY <1>5, VideoOperands
  <2>2. e = d \/ (Exists(d, s[2]) /\ e.status = [d.status EXCEPT ![s[2]] = s[3]] /\ e.born = d.born /\ e.told = d.told)
    BY <1>5, <1>r DEF RowColumns, RowWrites
  <2>3. \A v \in Videos : Exists(e, v) <=> Exists(d, v)
    BY <1>1, <1>2, <2>1, <2>2 DEF Exists
  <2>4. \A v \in Videos \ {s[2]} : e.status[v] = d.status[v] /\ e.told[v] = d.told[v]
    BY <1>1, <2>1, <2>2
  <2>5. d.born \subseteq e.born
    BY <2>2
  <2> QED
    BY <1>5, <2>3, <2>4, <2>5
<1>6. CASE s[1] = "history"
  <2>1. /\ s[2] \in Videos /\ s[3] \in Statuses /\ e.status = d.status /\ e.born = d.born /\ Exists(d, s[2])
        /\ e.told = [d.told EXCEPT ![s[2]] = s[3]]
    BY <1>6, <1>r, VideoOperands DEF RowColumns, RowWrites
  <2> QED
    BY <1>1, <1>6, <2>1 DEF Exists
<1>7. CASE s[1] \notin {"insert", "remove", "status", "history"}
  <2>1. e.status = d.status /\ e.told = d.told /\ e.born = d.born
    BY <1>7 DEF Rewrites
  <2> QED
    BY <1>7, <2>1 DEF Exists
<1> QED
  BY <1>3, <1>4, <1>5, <1>6, <1>7

\* Videos still have rows after they were inserted, and history after that.
LEMMA WriteKnown ==
  ASSUME NEW d, Sound(d), NEW s \in Statement, NEW id \in Nat, Raises(d, s, id) = "none",
         s[1] \in Writes, NEW e, e = Written(d, s, id), Rewrites(d, e, s), RowsKnown(d)
  PROVE  RowsKnown(e)
<1> SUFFICES ASSUME NEW v \in Videos
             PROVE  (Exists(e, v) => v \in e.born) /\ (~Exists(e, v) => e.told[v] = "none")
  BY DEF RowsKnown
<1>1. (Exists(d, v) => v \in d.born) /\ (~Exists(d, v) => d.told[v] = "none")
  BY DEF RowsKnown
<1>2. d.born \subseteq e.born
  BY WriteExists
<1>3. CASE v # s[2]
  BY <1>1, <1>2, <1>3, WriteExists
<1>4. CASE v = s[2] /\ s[1] \in {"insert", "remove"}
  BY <1>4, WriteExists
<1>5. CASE v = s[2] /\ s[1] = "history"
  <2>1. Exists(d, v) /\ (Exists(e, v) <=> Exists(d, v))
    BY <1>5, WriteExists
  <2> QED
    BY <1>1, <1>2, <2>1
<1>6. CASE v = s[2] /\ s[1] \notin {"insert", "remove", "history"}
  <2>1. (Exists(e, v) <=> Exists(d, v)) /\ e.told = d.told
    BY <1>6, WriteExists DEF Rewrites
  <2> QED
    BY <1>1, <1>2, <2>1
<1> QED
  BY <1>3, <1>4, <1>5, <1>6

\* A write that no commit of its program follows changes no more than statuses
\* and their history.
LEMMA WriteSame ==
  ASSUME NEW d, Sound(d), NEW s \in Statement, NEW id \in Nat, Raises(d, s, id) = "none",
         s[1] \in Writes \ Sealed, NEW e, e = Written(d, s, id), Rewrites(d, e, s)
  PROVE  SameLibrary(d, e)
<1>1. s[1] \in {"edit", "updatenamed", "status", "history"}
  BY DEF Writes, Sealed
<1>2. e.tag = d.tag /\ e.links = d.links /\ e.born = d.born /\ e.hidden = d.hidden
  BY <1>1 DEF Rewrites, SameLinks
<1>3. \A v \in Videos : Exists(e, v) <=> Exists(d, v)
  BY <1>1, WriteExists
<1> QED
  BY <1>2, <1>3 DEF SameLibrary, SameVideo

-----------------------------------------------------------------------------
(* A step and the line *)

\* p makes the statement P[1] and has R left: it leaves the line, or joins it at
\* the end, and the others move up.
Moves(p, P, R) ==
  /\ P = todo[p] /\ P \in Seq(Statement) /\ P # <<>> /\ R \in Seq(Statement)
  /\ todo'[p] = R /\ \A q \in Callers \ {p} : todo'[q] = todo[q]
  /\ Len(line) \in Nat /\ 1 \in DOMAIN line
  /\ \A i \in DOMAIN line : line[i] = p <=> i = 1
  /\ \A i \in Nat : \A q \in Callers \ {p} :
       (i \in DOMAIN line' /\ line'[i] = q) <=> (i + 1 \in DOMAIN line /\ line[i + 1] = q)
  /\ \A i \in DOMAIN line' : i \in Nat /\ line'[i] \in Callers
  /\ \A i \in DOMAIN line : i \in Nat \ {0} /\ line[i] \in Callers
  /\ \A q \in Callers : todo[q] # <<>> <=> \E i \in DOMAIN line : line[i] = q
  /\ R # <<>> => \E n \in DOMAIN line' : line'[n] = p /\ \A i \in DOMAIN line' : i <= n /\ (line'[i] = p => i = n)

\* A step moves its caller.
LEMMA AdvanceMoves ==
  ASSUME InLine, NEW p \in Callers, Turn(p), NEW R \in Seq(Statement), Advance(p, R)
  PROVE  Moves(p, todo[p], R)
<1>1. line # <<>> /\ line \in Seq(Callers) /\ line[1] = p
  BY TurnType DEF InLine
<1>2. todo \in [Callers -> Seq(Statement)] /\ todo' = [todo EXCEPT ![p] = R]
  BY DEF InLine, Advance
<1>3. /\ Tail(line) \in Seq(Callers) /\ Len(Tail(line)) = Len(line) - 1
      /\ Len(line) \in Nat \ {0} /\ DOMAIN line = 1..Len(line)
      /\ \A i \in 1..(Len(line) - 1) : Tail(line)[i] = line[i + 1]
  BY <1>1
<1>4. \A i \in DOMAIN line : line[i] = p <=> i = 1
  BY <1>1, <1>3, SMTT(30) DEF InLine
<1>5. /\ todo[p] \in Seq(Statement) /\ todo[p] # <<>>
      /\ Len(line) \in Nat /\ 1 \in DOMAIN line
  <2>1. Len(line) \in Nat /\ 1 \in DOMAIN line /\ line[1] = p
    BY <1>1, <1>3
  <2>2. todo[p] \in Seq(Statement)
    BY <1>2
  <2> QED
    BY <2>1, <2>2 DEF InLine
<1>6. \A i \in DOMAIN line : i \in Nat \ {0} /\ line[i] \in Callers
  BY <1>1
<1>7. \A q \in Callers : todo[q] # <<>> <=> \E i \in DOMAIN line : line[i] = q
  BY DEF InLine
<1>8. todo'[p] = R /\ \A q \in Callers \ {p} : todo'[q] = todo[q]
  BY <1>2
<1>9. (line' = Tail(line) /\ R = <<>>) \/ (line' = Append(Tail(line), p) /\ R # <<>>)
  BY DEF Advance
<1>10. CASE line' = Tail(line) /\ R = <<>>
  <2>1. DOMAIN line' = 1..(Len(line) - 1) /\ \A i \in 1..(Len(line) - 1) : line'[i] = line[i + 1]
    BY <1>3, <1>10
  <2>2. \A i \in Nat : i \in DOMAIN line' <=> i + 1 \in DOMAIN line /\ i # 0
    BY <1>3, <2>1
  <2>3. ASSUME NEW i \in Nat, NEW q \in Callers \ {p}
        PROVE  (i \in DOMAIN line' /\ line'[i] = q) <=> (i + 1 \in DOMAIN line /\ line[i + 1] = q)
    <3>1. i = 0 => line[i + 1] = p
      BY <1>1
    <3> QED
      BY <2>1, <2>2, <3>1
  <2>4. \A i \in DOMAIN line' : i \in Nat /\ line'[i] \in Callers
    BY <1>3, <1>10
  <2> QED
    BY <1>4, <1>5, <1>6, <1>7, <1>8, <1>10, <2>3, <2>4 DEF Moves
<1>11. CASE line' = Append(Tail(line), p) /\ R # <<>>
  <2>1. /\ DOMAIN line' = 1..Len(line) /\ \A i \in 1..(Len(line) - 1) : line'[i] = line[i + 1]
        /\ line'[Len(line)] = p /\ line' \in Seq(Callers)
    <3>1. PICK rest \in Seq(Callers), n \in Nat \ {0} :
                 /\ rest = Tail(line) /\ n = Len(line) /\ Len(rest) = n - 1
                 /\ \A i \in 1..(n - 1) : rest[i] = line[i + 1]
      BY <1>3
    <3>2. line' = Append(rest, p)
      BY <1>11, <3>1
    <3>3. /\ line' \in Seq(Callers) /\ Len(line') = n /\ line'[n] = p
          /\ \A i \in 1..(n - 1) : line'[i] = rest[i]
      BY <3>1, <3>2
    <3>4. DOMAIN line' = 1..n
      BY <3>3
    <3> QED
      BY <3>1, <3>3, <3>4, SMTT(30)
  <2>2. \A i \in Nat : i \in DOMAIN line' /\ i # Len(line) <=> i + 1 \in DOMAIN line /\ i # 0
    <3>1. PICK n \in Nat \ {0} : n = Len(line)
      BY <1>3
    <3>2. \A i \in Nat : i \in 1..n /\ i # n <=> i + 1 \in 1..n /\ i # 0
      OBVIOUS
    <3>3. DOMAIN line' = 1..n /\ DOMAIN line = 1..n
      BY <1>3, <2>1, <3>1
    <3> QED
      BY <3>1, <3>2, <3>3
  <2>3. ASSUME NEW i \in Nat, NEW q \in Callers \ {p}
        PROVE  (i \in DOMAIN line' /\ line'[i] = q) <=> (i + 1 \in DOMAIN line /\ line[i + 1] = q)
    <3>1. CASE i = 0
      <4>1. i \notin DOMAIN line' /\ line[i + 1] = p
        BY <1>1, <2>1, <3>1
      <4> QED
        BY <4>1
    <3>2. CASE i = Len(line)
      <4>1. line'[i] = p /\ i + 1 \notin DOMAIN line
        BY <1>3, <2>1, <3>2
      <4> QED
        BY <4>1
    <3>3. CASE i # 0 /\ i # Len(line)
      <4>1. i \in DOMAIN line' <=> i + 1 \in DOMAIN line
        BY <2>2, <3>3
      <4>2. ASSUME i \in DOMAIN line'
            PROVE  line'[i] = line[i + 1]
        <5>1. i \in 1..(Len(line) - 1)
          <6>1. i \in 1..Len(line)
            BY <2>1, <4>2, SMTT(30)
          <6>2. PICK m \in Nat : m = Len(line)
            BY <1>3
          <6> QED
            BY <3>3, <6>1, <6>2
        <5> QED
          BY <2>1, <5>1
      <4> QED
        BY <4>1, <4>2
    <3> QED
      BY <3>1, <3>2, <3>3
  <2>4. \A i \in DOMAIN line' : i \in Nat /\ line'[i] \in Callers
    BY <2>1
  <2>5. \E n \in DOMAIN line' : line'[n] = p /\ \A i \in DOMAIN line' : i <= n /\ (line'[i] = p => i = n)
    <3>1. Len(line) \in DOMAIN line' /\ \A i \in DOMAIN line' : i <= Len(line)
      BY <1>3, <2>1
    <3>2. ASSUME NEW i \in DOMAIN line', line'[i] = p
          PROVE  i = Len(line)
      <4>1. SUFFICES ASSUME i # Len(line) PROVE FALSE
        OBVIOUS
      <4>2. i \in 1..(Len(line) - 1) /\ i + 1 \in DOMAIN line /\ i + 1 # 1
        BY <1>3, <2>1, <4>1
      <4>3. line[i + 1] = p
        BY <2>1, <3>2, <4>2
      <4> QED
        BY <1>4, <4>2, <4>3
    <3> QED
      BY <2>1, <3>1, <3>2
  <2> QED
    BY <1>4, <1>5, <1>6, <1>7, <1>8, <2>3, <2>4, <2>5, Zenon DEF Moves
<1> QED
  BY <1>9, <1>10, <1>11

\* Who was before another still is, and everybody is before who has just moved.
LEMMA MovesBefore ==
  ASSUME NEW p \in Callers, NEW P, NEW R, Moves(p, P, R), NEW x \in Callers \ {p}
  PROVE  /\ \A q \in Callers \ {p} : Before(x, q) => Before(x, q)'
         /\ R # <<>> => Before(x, p)'
         /\ P # <<>> /\ todo[x] # <<>> => ~Before(x, p)
<1>1. ASSUME NEW q \in Callers \ {p}, Before(x, q)
      PROVE  Before(x, q)'
  <2> SUFFICES ASSUME NEW i \in DOMAIN line', NEW k \in DOMAIN line', line'[i] = x, line'[k] = q
               PROVE  i < k
    BY DEF Before
  <2>1. i \in Nat /\ k \in Nat
    BY DEF Moves
  <2>2. i + 1 \in DOMAIN line /\ line[i + 1] = x /\ k + 1 \in DOMAIN line /\ line[k + 1] = q
    BY <2>1 DEF Moves
  <2>3. i + 1 < k + 1
    BY <1>1, <2>2 DEF Before
  <2> QED
    BY <2>1, <2>3
<1>2. ASSUME R # <<>>
      PROVE  Before(x, p)'
  <2> SUFFICES ASSUME NEW i \in DOMAIN line', NEW k \in DOMAIN line', line'[i] = x, line'[k] = p
               PROVE  i < k
    BY DEF Before
  <2>1. i \in Nat /\ k \in Nat /\ i # k
    BY DEF Moves
  <2>2. i <= k
    BY <1>2 DEF Moves
  <2> QED
    BY <2>1, <2>2
<1>3. ASSUME todo[x] # <<>>, Before(x, p)
      PROVE  FALSE
  <2>1. PICK i \in DOMAIN line : line[i] = x
    BY <1>3 DEF Moves
  <2>2. 1 \in DOMAIN line /\ line[1] = p /\ i \in Nat /\ i # 0
    BY <1>3 DEF Moves
  <2>3. i < 1
    BY <1>3, <2>1, <2>2 DEF Before
  <2> QED
    BY <2>2, <2>3
<1> QED
  BY <1>1, <1>2, <1>3

\* Nobody tells without statements, and who tells is in the line.
LEMMA TellsInLine ==
  ASSUME NEW p \in Callers, NEW P, NEW R, Moves(p, P, R), NEW q \in Callers, NEW v, Tells(todo[q], v)
  PROVE  \E i \in DOMAIN line : line[i] = q
<1>1. todo[q] # <<>>
  BY DEF Tells
<1> QED
  BY <1>1 DEF Moves

\* The last to tell of a video remains the last, unless it is the one to move.
LEMMA LastTellsMoves ==
  ASSUME NEW p \in Callers, NEW P, NEW R, Moves(p, P, R), NEW v,
         ~Tells(R, v), LastTells(v), db'.status[v] = db.status[v]
  PROVE  \/ LastTells(v)'
         \/ /\ Tells(P, v) /\ Telling(P) = db.status[v]
            /\ \A q \in Callers \ {p} : ~Tells(todo[q], v)
<1>1. PICK i \in DOMAIN line :
        /\ Tells(todo[line[i]], v) /\ Telling(todo[line[i]]) = db.status[v]
        /\ \A k \in DOMAIN line : Tells(todo[line[k]], v) => k <= i
  BY DEF LastTells
<1>2. i \in Nat \ {0} /\ line[i] \in Callers
  BY DEF Moves
<1>3. CASE i = 1
  <2>1. line[i] = p /\ P = todo[p]
    BY <1>3 DEF Moves
  <2>2. ASSUME NEW q \in Callers \ {p}, Tells(todo[q], v)
        PROVE  FALSE
    <3>1. PICK k \in DOMAIN line : line[k] = q
      BY <2>2, TellsInLine
    <3>2. k <= 1 /\ k # 1 /\ k \in Nat \ {0}
      BY <1>1, <1>3, <2>2, <3>1 DEF Moves
    <3> QED
      BY <3>2
  <2> QED
    BY <1>1, <2>1, <2>2
<1>4. CASE i # 1
  <2>1. line[i] # p
    BY <1>4 DEF Moves
  <2>2. PICK j \in Nat : j + 1 = i
    <3>1. i - 1 \in Nat /\ (i - 1) + 1 = i
      BY <1>2
    <3> QED
      BY <3>1
  <2>3. j \in DOMAIN line' /\ line'[j] = line[i] /\ todo'[line[i]] = todo[line[i]]
    BY <1>2, <2>1, <2>2 DEF Moves
  <2>4. Tells(todo'[line'[j]], v) /\ Telling(todo'[line'[j]]) = db'.status[v]
    BY <1>1, <2>3
  <2>5. ASSUME NEW k \in DOMAIN line', Tells(todo'[line'[k]], v)
        PROVE  k <= j
    <3>1. k \in Nat /\ line'[k] \in Callers
      BY DEF Moves
    <3>2. line'[k] # p
      BY <2>5 DEF Moves
    <3>3. k + 1 \in DOMAIN line /\ line[k + 1] = line'[k] /\ todo'[line'[k]] = todo[line'[k]]
      BY <3>1, <3>2 DEF Moves
    <3>4. k + 1 <= i
      BY <1>1, <2>5, <3>3
    <3> QED
      BY <2>2, <3>1, <3>4
  <2> QED
    BY <2>3, <2>4, <2>5 DEF LastTells
<1> QED
  BY <1>3, <1>4

\* Who has just moved is the last to tell.
LEMMA LastTellsMover ==
  ASSUME NEW p \in Callers, NEW P, NEW R, Moves(p, P, R), NEW v,
         Tells(R, v), Telling(R) = db'.status[v]
  PROVE  LastTells(v)'
<1>1. R # <<>> /\ todo'[p] = R
  BY DEF Tells, Moves
<1>2. PICK n \in DOMAIN line' : line'[n] = p /\ \A i \in DOMAIN line' : i <= n
  BY <1>1 DEF Moves
<1> QED
  BY <1>1, <1>2 DEF LastTells

-----------------------------------------------------------------------------
(* Steps that change no table *)

Lightly(p, P, R) ==
  /\ Moves(p, P, R)
  /\ db' = db /\ disk' = disk /\ reverted' = reverted /\ untold \subseteq untold'
  /\ P[1] # Commit /\ (P[1][1] = "rollback" => db = disk)
  /\ P[1][1] = "history" => R # <<>> /\ R[1][1] = "rollback"
  /\ Reaches(P, 1, Commit) => Reaches(R, 1, Commit)
  /\ \A v \in Videos :
       /\ ~Tells(R, v) /\ (Tells(P, v) => ~Exists(db, v))
       /\ Sets(R, v) => Sets(P, v) \/ (R[1] = Fetch /\ Exists(db, v))
       /\ nfo'[v] = nfo[v] \/ nfo'[v] = WordsOf(db, v)
       /\ v \notin db.born => nfo'[v] = nfo[v]
       /\ Reaches(P, 1, <<"export", v>>) =>
            \/ Reaches(R, 1, <<"export", v>>)
            \/ ~Visible(db, v) \/ v \in untold' \/ nfo'[v] = WordsOf(db, v)

\* A commit that somebody comes to, somebody still comes to.
LEMMA LightlyComing ==
  ASSUME NEW p \in Callers, NEW P, NEW R, Lightly(p, P, R)
  PROVE  (Committing => Committing') /\ (Closing => Closing') /\ (db # disk /\ Ending => Ending')
<1>1. P = todo[p] /\ todo'[p] = R /\ \A q \in Callers \ {p} : todo'[q] = todo[q]
  BY DEF Lightly, Moves
<1>2. ASSUME Committing
      PROVE  Committing'
  <2>1. PICK q \in Callers : Reaches(todo[q], 1, Commit)
    BY <1>2 DEF Committing
  <2>2. Reaches(todo'[q], 1, Commit)
    BY <1>1, <2>1 DEF Lightly
  <2> QED
    BY <2>2 DEF Committing
<1>3. ASSUME Closing
      PROVE  Closing'
  <2>1. PICK q \in Callers : todo[q] # <<>> /\ todo[q][1] = Commit
    BY <1>3 DEF Closing
  <2>2. todo'[q] = todo[q]
    BY <1>1, <2>1 DEF Lightly
  <2> QED
    BY <2>1, <2>2 DEF Closing
<1>4. ASSUME db # disk, Ending
      PROVE  Ending'
  <2>1. PICK q \in Callers : todo[q] # <<>> /\ todo[q][1][1] \in {"history", "rollback"}
    BY <1>4 DEF Ending
  <2>2. todo'[q] # <<>> /\ todo'[q][1][1] \in {"history", "rollback"}
    BY <1>1, <1>4, <2>1 DEF Lightly
  <2> QED
    BY <2>2 DEF Ending
<1> QED
  BY <1>2, <1>3, <1>4

\* Whoever had something to commit still has, or there is nothing to commit.
LEMMA LightlyOwed ==
  ASSUME NEW p \in Callers, NEW P, NEW R, Lightly(p, P, R), Owed
  PROVE  Owed'
<1>1. db' = db /\ disk' = disk
  BY DEF Lightly
<1>2. (Committing => Committing') /\ (Closing => Closing') /\ (db # disk /\ Ending => Ending')
  BY LightlyComing
<1> QED
  BY <1>1, <1>2 DEF Owed

\* Who told of a video still does; a history row that is refused was of a removed video.
LEMMA LightlyTold ==
  ASSUME NEW p \in Callers, NEW P, NEW R, Lightly(p, P, R), Owed, RowsKnown(disk), Told
  PROVE  Told'
<1>1. /\ P = todo[p] /\ todo'[p] = R /\ \A q \in Callers \ {p} : todo'[q] = todo[q]
      /\ Moves(p, P, R)
  BY DEF Lightly, Moves
<1>2. db' = db /\ disk' = disk /\ reverted' = reverted
  BY DEF Lightly
<1> SUFFICES ASSUME NEW v \in Videos \ reverted
             PROVE  /\ Exists(db, v) =>
                         \/ (\A q \in Callers : ~Tells(todo'[q], v)) /\ db.told[v] = db.status[v]
                         \/ LastTells(v)'
                    /\ disk.told[v] # disk.status[v] => Closing' \/ \E q \in Callers : Tells(todo'[q], v)
  BY <1>2 DEF Told
<1>3. ~Tells(R, v) /\ (Tells(P, v) => ~Exists(db, v))
  BY DEF Lightly
<1>4. ASSUME Exists(db, v)
      PROVE  \/ (\A q \in Callers : ~Tells(todo'[q], v)) /\ db.told[v] = db.status[v]
             \/ LastTells(v)'
  <2>1. CASE (\A q \in Callers : ~Tells(todo[q], v)) /\ db.told[v] = db.status[v]
    BY <1>1, <1>3, <2>1
  <2>2. CASE LastTells(v)
    BY <1>1, <1>2, <1>3, <1>4, <2>2, LastTellsMoves
  <2> QED
    BY <1>4, <2>1, <2>2 DEF Told
<1>5. ASSUME disk.told[v] # disk.status[v]
      PROVE  Closing' \/ \E q \in Callers : Tells(todo'[q], v)
  <2>1. CASE Closing
    BY <2>1, LightlyComing
  <2>2. CASE \E q \in Callers : Tells(todo[q], v)
    <3>1. PICK q \in Callers : Tells(todo[q], v)
      BY <2>2
    <3>2. CASE q # p
      BY <1>1, <3>1, <3>2
    <3>3. CASE q = p
      <4>1. ~Exists(db, v)
        BY <1>1, <1>3, <3>1, <3>3
      <4>2. Exists(disk, v)
        BY <1>5 DEF RowsKnown, Exists
      <4>3. Closing
        BY <4>1, <4>2 DEF Owed
      <4> QED
        BY <4>3, LightlyComing
    <3> QED
      BY <3>2, <3>3
  <2> QED
    BY <1>5, <2>1, <2>2 DEF Told
<1> QED
  BY <1>4, <1>5

\* A status that is set now was read behind the row of who created the video.
LEMMA LightlyFirst ==
  ASSUME NEW p \in Callers, NEW P, NEW R, Lightly(p, P, R), RowsKnown(db), FirstTold
  PROVE  FirstTold'
<1>1. /\ P = todo[p] /\ todo'[p] = R /\ \A q \in Callers \ {p} : todo'[q] = todo[q]
      /\ Moves(p, P, R) /\ P # <<>>
  BY DEF Lightly, Moves
<1>2. db' = db
  BY DEF Lightly
<1> SUFFICES ASSUME NEW x \in Callers, NEW v \in Videos
             PROVE  /\ Tells(todo'[x], v) \/ Sets(todo'[x], v) => v \in db.born
                    /\ Tells(todo'[x], v) /\ todo'[x][1] = Commit =>
                         \A q \in Callers \ {x} :
                           ~Tells(todo'[q], v)
                           /\ (Sets(todo'[q], v) => todo'[q][1] = Fetch /\ Before(x, q)')
  BY <1>2 DEF FirstTold
<1>3. /\ ~Tells(R, v)
      /\ Sets(R, v) => Sets(P, v) \/ (R[1] = Fetch /\ Exists(db, v))
  BY DEF Lightly
<1>4. \A q \in Callers : Tells(todo[q], v) \/ Sets(todo[q], v) => v \in db.born
  BY DEF FirstTold
<1>5. Exists(db, v) => v \in db.born
  BY DEF RowsKnown
<1>6. ASSUME Tells(todo'[x], v), todo'[x][1] = Commit, NEW q \in Callers \ {x}
      PROVE  /\ ~Tells(todo'[q], v)
             /\ Sets(todo'[q], v) => todo'[q][1] = Fetch /\ Before(x, q)'
  <2>1. x # p /\ Tells(todo[x], v) /\ todo[x][1] = Commit
    BY <1>1, <1>3, <1>6
  <2>2. /\ ~Tells(todo[q], v)
        /\ Sets(todo[q], v) => todo[q][1] = Fetch /\ Before(x, q)
    BY <2>1 DEF FirstTold
  <2>3. CASE q # p
    <3>1. Before(x, q) => Before(x, q)'
      BY <1>1, <2>1, <2>3, MovesBefore
    <3> QED
      BY <1>1, <2>2, <2>3, <3>1
  <2>4. CASE q = p
    <3>1. todo[x] # <<>>
      BY <2>1 DEF Tells
    <3>2. ~Before(x, p) /\ (R # <<>> => Before(x, p)')
      BY <1>1, <2>1, <3>1, MovesBefore
    <3>3. ~Sets(P, v)
      BY <1>1, <2>2, <2>4, <3>2
    <3>4. Sets(R, v) => R # <<>>
      BY DEF Sets
    <3> QED
      BY <1>1, <1>3, <2>4, <3>2, <3>3, <3>4
  <2> QED
    BY <2>3, <2>4
<1> QED
  BY <1>1, <1>3, <1>4, <1>5, <1>6

\* An export writes what is, and other exports are still to come.
LEMMA LightlyExported ==
  ASSUME NEW p \in Callers, NEW P, NEW R, Lightly(p, P, R), Exported
  PROVE  Exported'
<1>1. P = todo[p] /\ todo'[p] = R /\ \A q \in Callers \ {p} : todo'[q] = todo[q]
  BY DEF Lightly, Moves
<1>2. db' = db /\ untold \subseteq untold'
  BY DEF Lightly
<1>3. ASSUME NEW v \in Videos \ untold', Visible(db, v)
      PROVE  nfo'[v] = WordsOf(db, v) \/ \E q \in Callers : Reaches(todo'[q], 1, <<"export", v>>)
  <2>1. CASE nfo[v] = WordsOf(db, v)
    BY <2>1 DEF Lightly
  <2>2. CASE \E q \in Callers : Reaches(todo[q], 1, <<"export", v>>)
    <3>1. PICK q \in Callers : Reaches(todo[q], 1, <<"export", v>>)
      BY <2>2
    <3>2. CASE q # p
      BY <1>1, <3>1, <3>2
    <3>3. CASE q = p
      <4>1. Reaches(R, 1, <<"export", v>>) \/ nfo'[v] = WordsOf(db, v)
        BY <1>1, <1>3, <3>1, <3>3 DEF Lightly
      <4> QED
        BY <1>1, <4>1
    <3> QED
      BY <3>2, <3>3
  <2> QED
    BY <1>2, <1>3, <2>1, <2>2 DEF Exported
<1>4. \A v \in Videos \ db.born : nfo'[v] = {}
  BY DEF Lightly, Exported
<1> QED
  BY <1>2, <1>3, <1>4 DEF Exported

\* The step of p leaves R to it, and R is in order.
Leaves(p) == \E R \in Seq(Statement) : Tidy(R) /\ Lightly(p, todo[p], R)

\* Whose turn it is has a statement to make, the first one.
LEMMA TurnMoves ==
  ASSUME InLine, NEW p \in Callers, Turn(p)
  PROVE  /\ todo[p] \in Seq(Statement) /\ todo[p] # <<>>
         /\ Next1(p) = todo[p][1] /\ todo[p][1] \in Statement /\ Tail(todo[p]) \in Seq(Statement)
<1>1. /\ Next1(p) \in Statement /\ Tail(todo[p]) \in Seq(Statement)
      /\ line # <<>> /\ line[1] = p /\ line \in Seq(Callers)
  BY TurnType DEF InLine
<1>2. 1 \in DOMAIN line
  BY <1>1
<1>3. todo[p] \in Seq(Statement) /\ todo[p] # <<>>
  BY <1>1, <1>2 DEF InLine
<1>4. Next1(p) = todo[p][1]
  BY <1>3 DEF Next1
<1> QED
  BY <1>1, <1>3, <1>4

\* Who is at another statement than these tells nothing.
LEMMA TellsOnly ==
  ASSUME NEW P, NEW v, P[1][1] \notin {"history", "commit"}
  PROVE  ~Tells(P, v)
<1>1. Commit[1] = "commit"
  BY DEF Commit
<1> QED
  BY <1>1 DEF Tells

\* Reads, transactions, exports and failures are such steps.
LEMMA ReadLeaves ==
  ASSUME LibraryIInv, \A q \in Callers : Tidy(todo[q]), NEW p \in Callers, Read(p)
  PROVE  Leaves(p)
<1>1. InLine /\ Turn(p) /\ db \in Tables
  BY DEF LibraryIInv, Stored, Sound, Read
<1>2. PICK P \in Seq(Statement) : P = todo[p]
  BY <1>1, TurnMoves
<1>3. P # <<>> /\ Next1(p) = P[1] /\ P[1] \in Statement /\ Tail(P) \in Seq(Statement) /\ Tidy(P)
  BY <1>1, <1>2, TurnMoves
<1>4. PICK R : R = Rest(Then(db, P[1]) \o Tail(P))
  OBVIOUS
<1>5. Advance(p, R)
  BY <1>2, <1>3, <1>4 DEF Read
<1>6. /\ P[1][1] \in {"get", "getany", "getnamed", "gettag", "getstatus", "find", "findtag", "findauto", "fetch"}
      /\ Raises(db, P[1], seen[p]) = "none"
      /\ UNCHANGED <<db, disk, nfo, untold, reverted>>
  BY <1>3 DEF Read
<1>7. /\ R \in Seq(Statement) /\ Tidy(R) /\ Onward(P, R)
      /\ \A v \in Videos :
           /\ ~Tells(R, v)
           /\ Sets(R, v) => Sets(P, v) \/ (R[1] = Fetch /\ Exists(db, v))
  <2>1. CASE P[1][1] \in Looks
    <3>1. R \in Seq(Statement) /\ Fresh(R) /\ Onward(P, R)
      BY <1>1, <1>3, <1>4, <2>1, LooksOn
    <3> QED
      BY <3>1, FreshTidy
  <2>2. CASE P[1][1] = "find"
    <3>1. R \in Seq(Statement) /\ Fresh(R) /\ Onward(P, R)
      BY <1>1, <1>3, <1>4, <2>2, FindOn
    <3> QED
      BY <3>1, FreshTidy
  <2>3. CASE P[1][1] = "getstatus"
    <3>1. /\ R \in Seq(Statement) /\ Tidy(R) /\ Onward(P, R)
          /\ \A v : ~Tells(R, v) /\ (Sets(R, v) => v = P[1][2] /\ R[1] = Fetch)
      BY <1>1, <1>3, <1>4, <2>3, GetStatusOn
    <3>2. Exists(db, P[1][2])
      BY <1>6, <2>3 DEF Raises, Finds, Visible
    <3> QED
      BY <3>1, <3>2
  <2>4. CASE P[1][1] = "fetch"
    <3>1. Then(db, P[1]) = <<>>
      BY <2>4 DEF Then
    <3>2. R = Rest(Tail(P))
      <4>1. <<>> \o Tail(P) = Tail(P)
        BY <1>3
      <4> QED
        BY <1>4, <3>1, <4>1
    <3> QED
      BY <1>3, <2>4, <3>2, FetchOn
  <2> QED
    BY <1>6, <2>1, <2>2, <2>3, <2>4 DEF Looks
<1>8. Moves(p, P, R)
  BY <1>1, <1>2, <1>5, <1>7, AdvanceMoves
<1>9. /\ P[1] # Commit
      /\ \A v \in Videos : ~Tells(P, v)
  BY <1>6, TellsOnly DEF Commit
<1>10. /\ Reaches(P, 1, Commit) => Reaches(R, 1, Commit)
       /\ \A v \in Videos : Reaches(P, 1, <<"export", v>>) => Reaches(R, 1, <<"export", v>>)
  BY <1>7 DEF Onward, Commit
<1>11. Lightly(p, P, R)
  BY <1>6, <1>7, <1>8, <1>9, <1>10 DEF Lightly
<1> QED
  BY <1>2, <1>7, <1>11 DEF Leaves

\* The start of a transaction.
LEMMA BeginLeaves ==
  ASSUME LibraryIInv, \A q \in Callers : Tidy(todo[q]), NEW p \in Callers, Begin(p)
  PROVE  Leaves(p)
<1>1. InLine /\ Turn(p)
  BY DEF LibraryIInv, Begin
<1>2. PICK P \in Seq(Statement) : P = todo[p]
  BY <1>1, TurnMoves
<1>3. P # <<>> /\ Next1(p) = P[1] /\ P[1] \in Statement /\ Tail(P) \in Seq(Statement) /\ Tidy(P)
  BY <1>1, <1>2, TurnMoves
<1>4. PICK R : R = Rest(Tail(P))
  OBVIOUS
<1>5. Advance(p, R) /\ P[1] = <<"begin">> /\ UNCHANGED <<db, disk, nfo, untold, reverted>>
  BY <1>2, <1>3, <1>4 DEF Begin
<1>6. /\ R \in Seq(Statement) /\ Fresh(R)
      /\ \A G : G[1] # "except" /\ P[1] # G /\ Reaches(P, 1, G) => Reaches(R, 1, G)
  <2>1. P[1][1] \in {"begin", "export"}
    BY <1>5
  <2> QED
    BY <1>3, <1>4, <2>1, PlainOn
<1>7. Tidy(R) /\ \A v : ~Tells(R, v) /\ ~Sets(R, v)
  BY <1>6, FreshTidy
<1>8. Moves(p, P, R)
  BY <1>1, <1>2, <1>5, <1>6, AdvanceMoves
<1>9. P[1] # Commit /\ P[1][1] = "begin" /\ \A v \in Videos : ~Tells(P, v)
  BY <1>5, TellsOnly DEF Commit
<1>10. /\ Reaches(P, 1, Commit) => Reaches(R, 1, Commit)
       /\ \A v \in Videos : Reaches(P, 1, <<"export", v>>) => Reaches(R, 1, <<"export", v>>)
  <2>1. Commit[1] # "except"
    BY DEF Commit
  <2>2. \A v \in Videos : <<"export", v>>[1] # "except" /\ P[1] # <<"export", v>>
    BY <1>5
  <2> QED
    BY <1>6, <1>9, <2>1, <2>2
<1>11. Lightly(p, P, R)
  BY <1>5, <1>7, <1>8, <1>9, <1>10 DEF Lightly
<1> QED
  BY <1>2, <1>6, <1>7, <1>11 DEF Leaves

\* An export.
LEMMA ExportLeaves ==
  ASSUME LibraryIInv, \A q \in Callers : Tidy(todo[q]), RowsKnown(db), NEW p \in Callers, ExportNfo(p)
  PROVE  Leaves(p)
<1>1. InLine /\ Turn(p) /\ nfo \in [Videos -> SUBSET Tags]
  BY DEF LibraryIInv, Noted, ExportNfo
<1>2. PICK P \in Seq(Statement) : P = todo[p]
  BY <1>1, TurnMoves
<1>3. P # <<>> /\ Next1(p) = P[1] /\ P[1] \in Statement /\ Tail(P) \in Seq(Statement) /\ Tidy(P)
  BY <1>1, <1>2, TurnMoves
<1>4. PICK R : R = Rest(Tail(P))
  OBVIOUS
<1>5. Advance(p, R) /\ P[1][1] = "export" /\ UNCHANGED <<db, disk, untold, reverted>>
  BY <1>2, <1>3, <1>4 DEF ExportNfo
<1>6. /\ R \in Seq(Statement) /\ Fresh(R)
      /\ \A G : G[1] # "except" /\ P[1] # G /\ Reaches(P, 1, G) => Reaches(R, 1, G)
  <2>1. P[1][1] \in {"begin", "export"}
    BY <1>5
  <2> QED
    BY <1>3, <1>4, <2>1, PlainOn
<1>7. Tidy(R) /\ \A v : ~Tells(R, v) /\ ~Sets(R, v)
  BY <1>6, FreshTidy
<1>8. Moves(p, P, R)
  BY <1>1, <1>2, <1>5, <1>6, AdvanceMoves
<1>9. P[1] # Commit /\ \A v \in Videos : ~Tells(P, v)
  BY <1>5, TellsOnly DEF Commit
<1>10. Reaches(P, 1, Commit) => Reaches(R, 1, Commit)
  <2>1. Commit[1] # "except"
    BY DEF Commit
  <2> QED
    BY <1>6, <1>9, <2>1
<1>11. PICK w \in Videos : w = P[1][2]
  BY <1>3, <1>5, VideoOperands
<1>12. nfo' = IF Visible(db, w) THEN [nfo EXCEPT ![w] = WordsOf(db, w)] ELSE nfo
  BY <1>3, <1>11 DEF ExportNfo
<1>13. ASSUME NEW v \in Videos
       PROVE  /\ nfo'[v] = nfo[v] \/ nfo'[v] = WordsOf(db, v)
              /\ v \notin db.born => nfo'[v] = nfo[v]
              /\ Reaches(P, 1, <<"export", v>>) =>
                   Reaches(R, 1, <<"export", v>>) \/ ~Visible(db, v) \/ nfo'[v] = WordsOf(db, v)
  <2>1. Visible(db, v) => v \in db.born
    BY DEF RowsKnown, Visible
  <2>2. CASE v = w
    BY <1>1, <1>12, <2>1, <2>2
  <2>3. CASE v # w
    <3>1. nfo'[v] = nfo[v]
      BY <1>1, <1>12, <2>3
    <3>2. <<"export", v>>[1] # "except" /\ P[1] # <<"export", v>>
      BY <1>11, <2>3
    <3> QED
      BY <1>6, <3>1, <3>2
  <2> QED
    BY <2>2, <2>3
<1>14. Lightly(p, P, R)
  BY <1>5, <1>7, <1>8, <1>9, <1>10, <1>13 DEF Lightly
<1> QED
  BY <1>2, <1>6, <1>7, <1>14 DEF Leaves

\* An export that fails, after which the video is known for it.
LEMMA ExportFailsLeaves ==
  ASSUME LibraryIInv, \A q \in Callers : Tidy(todo[q]), NEW p \in Callers, ExportFails(p)
  PROVE  Leaves(p)
<1>1. InLine /\ Turn(p)
  BY DEF LibraryIInv, ExportFails
<1>2. PICK P \in Seq(Statement) : P = todo[p]
  BY <1>1, TurnMoves
<1>3. P # <<>> /\ Next1(p) = P[1] /\ P[1] \in Statement /\ Tail(P) \in Seq(Statement) /\ Tidy(P)
  BY <1>1, <1>2, TurnMoves
<1>4. PICK R : R = Rest(Tail(P))
  OBVIOUS
<1>5. Advance(p, R) /\ P[1][1] = "export" /\ UNCHANGED <<db, disk, nfo, reverted>>
  BY <1>2, <1>3, <1>4 DEF ExportFails
<1>6. /\ R \in Seq(Statement) /\ Fresh(R)
      /\ \A G : G[1] # "except" /\ P[1] # G /\ Reaches(P, 1, G) => Reaches(R, 1, G)
  <2>1. P[1][1] \in {"begin", "export"}
    BY <1>5
  <2> QED
    BY <1>3, <1>4, <2>1, PlainOn
<1>7. Tidy(R) /\ \A v : ~Tells(R, v) /\ ~Sets(R, v)
  BY <1>6, FreshTidy
<1>8. Moves(p, P, R)
  BY <1>1, <1>2, <1>5, <1>6, AdvanceMoves
<1>9. P[1] # Commit /\ \A v \in Videos : ~Tells(P, v)
  BY <1>5, TellsOnly DEF Commit
<1>10. Reaches(P, 1, Commit) => Reaches(R, 1, Commit)
  <2>1. Commit[1] # "except"
    BY DEF Commit
  <2> QED
    BY <1>6, <1>9, <2>1
<1>11. PICK w \in Videos : w = P[1][2]
  BY <1>3, <1>5, VideoOperands
<1>12. untold' = untold \cup {w}
  BY <1>3, <1>11 DEF ExportFails
<1>13. ASSUME NEW v \in Videos, Reaches(P, 1, <<"export", v>>)
       PROVE  Reaches(R, 1, <<"export", v>>) \/ v \in untold'
  <2>1. CASE v = w
    BY <1>12, <2>1
  <2>2. CASE v # w
    <3>1. <<"export", v>>[1] # "except" /\ P[1] # <<"export", v>>
      BY <1>11, <2>2
    <3> QED
      BY <1>6, <1>13, <3>1
  <2> QED
    BY <2>1, <2>2
<1>14. Lightly(p, P, R)
  BY <1>5, <1>7, <1>8, <1>9, <1>10, <1>12, <1>13 DEF Lightly
<1> QED
  BY <1>2, <1>6, <1>7, <1>14 DEF Leaves

\* A statement that fails.
LEMMA RaiseLeaves ==
  ASSUME LibraryIInv, \A q \in Callers : Tidy(todo[q]), NEW p \in Callers, Raise(p), ~upset'
  PROVE  Leaves(p)
<1>1. InLine /\ Turn(p)
  BY DEF LibraryIInv, Raise
<1>2. PICK P \in Seq(Statement) : P = todo[p]
  BY <1>1, TurnMoves
<1>3. P # <<>> /\ Next1(p) = P[1] /\ P[1] \in Statement /\ Tail(P) \in Seq(Statement) /\ Tidy(P)
  BY <1>1, <1>2, TurnMoves
<1>4. PICK kind : kind = Raises(db, P[1], seen[p])
  OBVIOUS
<1>5. /\ kind # "raw" /\ UNCHANGED <<db, disk, nfo, untold, reverted>>
      /\ \/ kind # "none" /\ Advance(p, Unwound(Tail(P), kind))
         \/ kind = "none" /\ MayConflict(P[1]) /\ Advance(p, Unwound(Tail(P), "sql"))
  BY <1>2, <1>3, <1>4 DEF Raise
<1>6. PICK how, R : /\ R = Unwound(Tail(P), how) /\ Advance(p, R)
                    /\ \/ kind # "none" /\ how = kind
                       \/ kind = "none" /\ MayConflict(P[1])
  BY <1>5
<1>7. R \in Seq(Statement) /\ Fresh(R)
  BY <1>3, <1>6, UnwoundFresh
<1>8. Tidy(R) /\ \A v : ~Tells(R, v) /\ ~Sets(R, v)
  BY <1>7, FreshTidy
<1>9. Moves(p, P, R)
  BY <1>1, <1>2, <1>6, <1>7, AdvanceMoves
<1>10. /\ P[1][1] \notin {"commit", "rollback"} /\ P[1] # Commit
       /\ P[1][1] = "history" => ~Exists(db, P[1][2]) /\ how = "sql"
       /\ P[1][1] \in Calm => P[1][1] = "get" /\ how = "missing"
  <2>1. CASE kind # "none" /\ how = kind
    <3>1. P[1][1] \notin {"get", "getany", "getstatus"} => Finds(db, P[1])
      BY DEF Finds
    <3>2. P[1][1] \notin {"commit", "rollback"}
      BY <1>4, <2>1, <3>1 DEF Raises
    <3>3. P[1][1] = "history" => ~Exists(db, P[1][2]) /\ how = "sql"
      BY <1>4, <2>1, <3>1, SMTT(30) DEF Raises
    <3>4. P[1][1] \in Calm => P[1][1] = "get" /\ how = "missing"
      BY <1>4, <1>5, <2>1, <3>1 DEF Raises, Calm
    <3> QED
      BY <3>2, <3>3, <3>4, SMTT(30) DEF Commit
  <2>2. CASE MayConflict(P[1])
    BY <2>2 DEF MayConflict, Calm, Commit
  <2> QED
    BY <1>6, <2>1, <2>2
<1>11. P[1][1] = "history" => R # <<>> /\ R[1][1] = "rollback"
  <2>1. ASSUME P[1][1] = "history"
        PROVE  R # <<>> /\ R[1][1] = "rollback"
    <3>1. Ahead(P, 1)
      <4>1. 1 \in DOMAIN P
        BY <1>3
      <4> QED
        BY <1>3, <4>1 DEF Tidy
    <3>2. Handled(P, 1)
      BY <2>1, <3>1 DEF Ahead
    <3>3. R # <<>> /\ R[1] = Rollback("query")
      BY <1>3, <1>6, <1>10, <2>1, <3>2, UnwoundHandled
    <3> QED
      BY <3>3 DEF Rollback
  <2> QED
    BY <2>1
<1>12. ASSUME NEW G, G[1] \in {"commit", "export"}, Reaches(P, 1, G)
       PROVE  Reaches(R, 1, G)
  <2>1. P[1] # G
    <3>1. P[1][1] # "export"
      <4>1. P[1][1] = "export" => P[1][1] \in Calm
        BY DEF Calm
      <4> QED
        BY <1>10, <4>1
    <3> QED
      BY <1>10, <1>12, <3>1
  <2>2. P[1][1] \in Calm
    BY <1>12, <2>1, ReachesNext
  <2>3. P[1][1] = "get" /\ how = "missing"
    BY <1>10, <2>2
  <2>4. G[1] \notin {"get", "except"}
    BY <1>12
  <2> QED
    BY <1>3, <1>6, <1>12, <2>3, <2>4, UnwoundSkips
<1>13. /\ Reaches(P, 1, Commit) => Reaches(R, 1, Commit)
       /\ \A v \in Videos : Reaches(P, 1, <<"export", v>>) => Reaches(R, 1, <<"export", v>>)
  <2>1. Commit[1] \in {"commit", "export"} /\ \A v \in Videos : <<"export", v>>[1] \in {"commit", "export"}
    BY DEF Commit
  <2> QED
    BY <1>12, <2>1
<1>14. \A v \in Videos : Tells(P, v) => ~Exists(db, v)
  BY <1>10 DEF Tells
<1>15. Lightly(p, P, R)
  BY <1>5, <1>8, <1>9, <1>10, <1>11, <1>13, <1>14 DEF Lightly
<1> QED
  BY <1>2, <1>7, <1>8, <1>15 DEF Leaves

-----------------------------------------------------------------------------
(* Writes *)

\* What a write makes of the tables.
Changed(p, P) ==
  /\ disk' = disk /\ nfo' = nfo
  /\ P[1] \in Statement /\ P[1][1] \in Writes
  /\ Rewrites(db, db', P[1])
  /\ P[1][1] \in RowWrites => RowColumns(db, db', P[1])
  /\ P[1][1] \in Sealed \/ SameLibrary(db, db')
  /\ P[1][1] \notin {"insert", "remove"} => \A v \in Videos : Exists(db', v) <=> Exists(db, v)
  /\ P[1][1] = "insert" => Exists(db', P[1][2]) /\ P[1][2] \in db'.born
  /\ P[1][1] = "remove" => ~Exists(db', P[1][2])
  /\ \A v \in Videos \ {P[1][2]} :
       /\ Exists(db', v) <=> Exists(db, v)
       /\ db'.status[v] = db.status[v] /\ db'.told[v] = db.told[v]
  /\ db.born \subseteq db'.born
  /\ untold \subseteq untold' /\ reverted \subseteq reverted'
  /\ P[1][1] = "deletetag" => untold' = Videos
  /\ P[1][1] \in {"show", "importtag"} => P[1][2] \in untold'
  /\ P[1][1] = "status" /\ P[1][2] \notin reverted' /\ Len(P) > 1 /\ P[2] = Commit => db'.status = db.status

\* What it has left.
Left(P, R) ==
  /\ Tidy(R) /\ Onward(P, R)
  /\ \A v : ~Sets(R, v)
  /\ \A v : Tells(R, v) => \/ P[1][1] = "status" /\ P[1][2] = v /\ P[2] # Commit
                           \/ P[1] = <<"insert", v>>
  /\ P[1][1] \in Sealed => Reaches(R, 1, Commit)
  /\ P[1][1] \in Retold => Reaches(R, 1, <<"export", P[1][2]>>)
  /\ P[1][1] \in {"insert", "remove", "history"} => R # <<>> /\ R[1] = Commit
  /\ P[1][1] = "insert" => Tells(R, P[1][2]) /\ Telling(R) = "discovered"
  /\ P[1][1] = "status" =>
       /\ Len(P) > 1 /\ R # <<>> /\ R[1] = P[2]
       /\ P[2] # Commit => /\ R[1] = <<"history", P[1][2], P[1][3]>>
                           /\ Tells(R, P[1][2]) /\ Telling(R) = P[1][3]

\* A write that succeeds changes what Changed says,
LEMMA WriteChanges ==
  ASSUME LibraryIInv, NEW p \in Callers, Write(p), NEW P, P = todo[p]
  PROVE  Changed(p, P)
<1>1. InLine /\ Turn(p) /\ Sound(db)
  BY DEF LibraryIInv, Stored, Write
<1>2. P \in Seq(Statement) /\ P # <<>> /\ Next1(p) = P[1] /\ P[1] \in Statement
  BY <1>1, TurnMoves
<1>3. PICK s \in Statement : s = P[1]
  BY <1>2
<1>4. PICK id \in Nat : id = seen[p]
  BY DEF LibraryIInv, Noted
<1>5. /\ s[1] \in Writes /\ Raises(db, s, id) = "none" /\ (s[1] = "inserttag" => db.lastTag < MaxTagId)
      /\ db' = Written(db, s, id) /\ disk' = disk /\ nfo' = nfo
  BY <1>2, <1>3, <1>4 DEF Write
<1>6. PICK d, e : d = db /\ e = db'
  OBVIOUS
<1>7. Rewrites(d, e, s)
  BY <1>1, <1>5, <1>6, WriteRewrites
<1>8. s[1] \in RowWrites => RowColumns(d, e, s)
  BY <1>1, <1>5, <1>6, RowsWritten
<1>9. s[1] \in Sealed \/ SameLibrary(d, e)
  BY <1>1, <1>5, <1>6, <1>7, WriteSame
<1>10. /\ s[1] \notin {"insert", "remove"} => \A v \in Videos : Exists(e, v) <=> Exists(d, v)
       /\ s[1] = "insert" => Exists(e, s[2]) /\ s[2] \in e.born
       /\ s[1] = "remove" => ~Exists(e, s[2])
       /\ \A v \in Videos \ {s[2]} : Exists(e, v) <=> Exists(d, v)
       /\ d.born \subseteq e.born
       /\ \A v \in Videos \ {s[2]} : e.status[v] = d.status[v] /\ e.told[v] = d.told[v]
  BY <1>1, <1>5, <1>6, <1>7, WriteExists
<1>11. /\ untold' = untold \cup (CASE s[1] = "deletetag" -> Videos
                                   [] s[1] \in {"show", "importtag"} -> {s[2]}
                                   [] OTHER -> {})
       /\ reverted' = IF s[1] = "status" /\ db'.status # db.status /\ Unsaid(p)
                        THEN reverted \cup {s[2]} ELSE reverted
  BY <1>2, <1>3 DEF Write
<1>12. /\ untold \subseteq untold' /\ reverted \subseteq reverted'
       /\ s[1] = "deletetag" => untold' = Videos
       /\ s[1] \in {"show", "importtag"} => s[2] \in untold'
  <2>1. untold \subseteq Videos
    BY DEF LibraryIInv, Noted
  <2> QED
    BY <1>11, <2>1
<1>13. s[1] = "status" /\ s[2] \notin reverted' /\ Len(P) > 1 /\ P[2] = Commit => db'.status = db.status
  BY <1>11 DEF Unsaid
<1> QED
  BY <1>3, <1>5, <1>6, <1>7, <1>8, <1>9, <1>10, <1>12, <1>13 DEF Changed

\* and leaves its program as Left says.
LEMMA WriteLeaves ==
  ASSUME LibraryIInv, \A q \in Callers : Tidy(todo[q]), NEW p \in Callers, Write(p), NEW P, P = todo[p]
  PROVE  \E R \in Seq(Statement) : Moves(p, P, R) /\ Left(P, R)
<1>1. InLine /\ Turn(p)
  BY DEF LibraryIInv, Write
<1>2. P \in Seq(Statement) /\ P # <<>> /\ Next1(p) = P[1] /\ Tidy(P)
  BY <1>1, TurnMoves
<1>3. PICK R : R = Rest(Tail(P))
  OBVIOUS
<1>4. P[1][1] \in Writes /\ Advance(p, R)
  BY <1>2, <1>3 DEF Write
<1>5. /\ R \in Seq(Statement) /\ Tidy(R) /\ Onward(P, R)
      /\ \A v : ~Sets(R, v)
      /\ \A v : Tells(R, v) => \/ P[1][1] = "status" /\ P[1][2] = v /\ P[2] # Commit
                               \/ P[1] = <<"insert", v>>
  BY <1>2, <1>3, <1>4, WriteOn
<1>6. /\ P[1][1] \in Sealed => Reaches(R, 1, Commit)
      /\ P[1][1] \in Retold => Reaches(R, 1, <<"export", P[1][2]>>)
      /\ P[1][1] \in {"insert", "remove", "history"} => R # <<>> /\ R[1] = Commit
      /\ P[1][1] = "insert" => Tells(R, P[1][2]) /\ Telling(R) = "discovered"
      /\ P[1][1] = "status" =>
           /\ Len(P) > 1 /\ R # <<>> /\ R[1] = P[2]
           /\ P[2] # Commit => /\ R[1] = <<"history", P[1][2], P[1][3]>>
                               /\ Tells(R, P[1][2]) /\ Telling(R) = P[1][3]
  BY <1>2, <1>3, <1>4, WriteEnds
<1>7. Left(P, R)
  BY <1>5, <1>6 DEF Left
<1>8. Moves(p, P, R)
  BY <1>1, <1>4, <1>5, AdvanceMoves
<1> QED
  BY <1>5, <1>7, <1>8

\* What comes first is reached.
LEMMA FirstReached ==
  ASSUME NEW R \in Seq(Statement), R # <<>>, NEW G, R[1] = G
  PROVE  Reaches(R, 1, G)
<1>1. 1 \in 1..Len(R) /\ \A i \in 1..(1 - 1) : FALSE
  OBVIOUS
<1> QED
  BY <1>1 DEF Reaches

\* A commit that somebody comes to, somebody still comes to.
LEMMA WriteComing ==
  ASSUME NEW p \in Callers, NEW P, NEW R, Moves(p, P, R), Left(P, R), P[1][1] \in Writes
  PROVE  (Committing => Committing') /\ (Closing => Closing')
<1>1. P = todo[p] /\ todo'[p] = R /\ \A q \in Callers \ {p} : todo'[q] = todo[q]
  BY DEF Moves
<1>2. ASSUME Committing
      PROVE  Committing'
  <2>1. PICK q \in Callers : Reaches(todo[q], 1, Commit)
    BY <1>2 DEF Committing
  <2>2. Commit[1] = "commit"
    BY DEF Commit
  <2>3. Reaches(todo'[q], 1, Commit)
    BY <1>1, <2>1, <2>2 DEF Left, Onward
  <2> QED
    BY <2>3 DEF Committing
<1>3. ASSUME Closing
      PROVE  Closing'
  <2>1. PICK q \in Callers : todo[q] # <<>> /\ todo[q][1] = Commit
    BY <1>3 DEF Closing
  <2>2. q # p
    BY <1>1, <2>1 DEF Writes, Commit
  <2> QED
    BY <1>1, <2>1, <2>2 DEF Closing
<1> QED
  BY <1>2, <1>3

\* A commit follows a write, or the history and then a commit.
LEMMA WriteOwed ==
  ASSUME NEW p \in Callers, NEW P, NEW R, Moves(p, P, R), Left(P, R), Changed(p, P), Owed
  PROVE  Owed'
<1>1. /\ P = todo[p] /\ todo'[p] = R /\ \A q \in Callers \ {p} : todo'[q] = todo[q]
      /\ R \in Seq(Statement)
  BY DEF Moves
<1>2. P[1][1] \in Writes /\ disk' = disk
  BY DEF Changed
<1>3. (Committing => Committing') /\ (Closing => Closing')
  BY <1>2, WriteComing
<1>4. Reaches(R, 1, Commit) => Committing'
  BY <1>1 DEF Committing
<1>5. R # <<>> /\ R[1] = Commit => Committing' /\ Closing'
  <2>1. R # <<>> /\ R[1] = Commit => Reaches(R, 1, Commit)
    BY <1>1, FirstReached
  <2> QED
    BY <1>1, <1>4, <2>1 DEF Closing
<1>6. P[1][1] \in Sealed => Committing'
  BY <1>4 DEF Left
<1>7. ASSUME db' # disk
      PROVE  Committing' \/ Ending'
  <2>1. CASE P[1][1] \in Sealed
    BY <1>6, <2>1
  <2>2. CASE P[1][1] = "history"
    BY <1>5, <2>2 DEF Left
  <2>3. CASE P[1][1] = "status"
    <3>1. R # <<>> /\ (R[1] = Commit \/ R[1] = <<"history", P[1][2], P[1][3]>>)
      BY <2>3 DEF Left
    <3>2. CASE R[1] = Commit
      BY <1>5, <3>1, <3>2
    <3>3. CASE R[1] = <<"history", P[1][2], P[1][3]>>
      <4>1. R[1][1] = "history"
        BY <3>3
      <4> QED
        BY <1>1, <3>1, <4>1 DEF Ending
    <3> QED
      BY <3>1, <3>2, <3>3
  <2>4. CASE P[1][1] \in {"edit", "updatenamed"}
    <3>1. db' = db
      BY <2>4 DEF Changed, Rewrites
    <3>2. CASE Committing
      BY <1>3, <3>2
    <3>3. CASE Ending
      <4>1. PICK q \in Callers : todo[q] # <<>> /\ todo[q][1][1] \in {"history", "rollback"}
        BY <3>3 DEF Ending
      <4>2. q # p
        BY <1>1, <2>4, <4>1
      <4> QED
        BY <1>1, <4>1, <4>2 DEF Ending
    <3> QED
      BY <1>7, <3>1, <3>2, <3>3 DEF Owed
  <2> QED
    BY <1>2, <2>1, <2>2, <2>3, <2>4 DEF Writes, Sealed
<1>8. ASSUME ~SameLibrary(db', disk)
      PROVE  Committing'
  <2>1. CASE SameLibrary(db, db')
    <3>1. ~SameLibrary(db, disk)
      BY <1>8, <2>1 DEF SameLibrary, SameVideo
    <3> QED
      BY <1>3, <3>1 DEF Owed
  <2> QED
    BY <1>6, <2>1 DEF Changed
<1>9. ASSUME NEW v \in Videos, Exists(db', v) # Exists(disk, v)
      PROVE  Closing'
  <2>1. CASE P[1][1] \in {"insert", "remove"}
    BY <1>5, <2>1 DEF Left
  <2>2. CASE P[1][1] \notin {"insert", "remove"}
    <3>1. Exists(db, v) # Exists(disk, v)
      BY <1>9, <2>2 DEF Changed, Exists
    <3> QED
      BY <1>3, <3>1 DEF Owed
  <2> QED
    BY <2>1, <2>2
<1> QED
  BY <1>2, <1>7, <1>8, <1>9 DEF Owed

\* Whose write is none of the history tells of nothing.
LEMMA WriteTells ==
  ASSUME NEW P, NEW v, P[1][1] \in Writes, Tells(P, v)
  PROVE  P[1][1] = "history" /\ P[1][2] = v /\ Telling(P) = P[1][3]
<1>1. P[1] # Commit
  BY DEF Writes, Commit
<1> QED
  BY <1>1 DEF Tells, Telling

\* Who sets a status tells it last, and who tells it last tells what is.
LEMMA WriteTold ==
  ASSUME LibraryIInv, NEW p \in Callers, NEW P, NEW R, Moves(p, P, R), Left(P, R), Changed(p, P), Told
  PROVE  Told'
<1>1. /\ P = todo[p] /\ todo'[p] = R /\ \A q \in Callers \ {p} : todo'[q] = todo[q]
      /\ R \in Seq(Statement)
  BY DEF Moves
<1>2. P[1][1] \in Writes /\ disk' = disk /\ reverted \subseteq reverted' /\ P[1] \in Statement
  BY DEF Changed
<1>3. Closing => Closing'
  BY <1>2, WriteComing
<1>4. /\ db.status \in [Videos -> Statuses \cup {"none"}] /\ db.told \in [Videos -> Statuses \cup {"none"}]
  BY DEF LibraryIInv, Stored, Sound, Tables
<1> SUFFICES ASSUME NEW v \in Videos \ reverted'
             PROVE  /\ Exists(db', v) =>
                         \/ (\A q \in Callers : ~Tells(todo'[q], v)) /\ db'.told[v] = db'.status[v]
                         \/ LastTells(v)'
                    /\ disk.told[v] # disk.status[v] => Closing' \/ \E q \in Callers : Tells(todo'[q], v)
  BY <1>2 DEF Told
<1>5. v \in Videos \ reverted
  BY <1>2
\* A write that does not touch what is told of v.
<1>6. ASSUME Exists(db, v), ~Tells(P, v), ~Tells(R, v), db'.status[v] = db.status[v], db'.told[v] = db.told[v]
      PROVE  \/ (\A q \in Callers : ~Tells(todo'[q], v)) /\ db'.told[v] = db'.status[v]
             \/ LastTells(v)'
  <2>1. CASE (\A q \in Callers : ~Tells(todo[q], v)) /\ db.told[v] = db.status[v]
    BY <1>1, <1>6, <2>1
  <2>2. CASE LastTells(v)
    BY <1>6, <2>2, LastTellsMoves
  <2> QED
    BY <1>5, <1>6, <2>1, <2>2 DEF Told
<1>7. ASSUME Exists(db', v)
      PROVE  \/ (\A q \in Callers : ~Tells(todo'[q], v)) /\ db'.told[v] = db'.status[v]
             \/ LastTells(v)'
  <2>1. CASE v # P[1][2]
    <3>1. /\ Exists(db, v) /\ db'.status[v] = db.status[v] /\ db'.told[v] = db.told[v]
      BY <1>7, <2>1 DEF Changed
    <3>2. ~Tells(P, v)
      BY <1>2, <2>1, WriteTells
    <3>3. ~Tells(R, v)
      <4>1. P[1] # <<"insert", v>>
        BY <2>1
      <4> QED
        BY <2>1, <4>1 DEF Left
    <3> QED
      BY <1>6, <3>1, <3>2, <3>3
  <2>2. CASE v = P[1][2] /\ P[1][1] = "insert"
    <3>1. db'.status[v] = "discovered"
      BY <1>4, <2>2 DEF Changed, RowColumns, RowWrites
    <3>2. Tells(R, v) /\ Telling(R) = "discovered"
      BY <2>2 DEF Left
    <3> QED
      BY <3>1, <3>2, LastTellsMover
  <2>3. CASE v = P[1][2] /\ P[1][1] = "remove"
    BY <1>7, <2>3 DEF Changed
  <2>4. CASE v = P[1][2] /\ P[1][1] = "status"
    <3>1. Exists(db, v) /\ db'.told = db.told
      BY <1>7, <2>4 DEF Changed, Rewrites
    <3>2. CASE P[2] # Commit
      <4>1. db'.status[v] = P[1][3]
        <5>1. RowColumns(db, db', P[1])
          BY <2>4 DEF Changed, RowWrites
        <5> QED
          BY <1>4, <2>4, <3>1, <5>1 DEF RowColumns
      <4>2. Tells(R, v) /\ Telling(R) = P[1][3]
        BY <2>4, <3>2 DEF Left
      <4> QED
        BY <4>1, <4>2, LastTellsMover
    <3>3. CASE P[2] = Commit
      <4>1. db'.status = db.status
        BY <2>4, <3>3 DEF Changed, Left
      <4>2. ~Tells(P, v)
        BY <1>2, <2>4, WriteTells
      <4>3. ~Tells(R, v)
        <5>1. P[1] # <<"insert", v>>
          BY <2>4
        <5> QED
          BY <3>3, <5>1 DEF Left
      <4> QED
        BY <1>6, <3>1, <4>1, <4>2, <4>3
    <3> QED
      BY <3>2, <3>3
  <2>5. CASE v = P[1][2] /\ P[1][1] = "history"
    <3>1. Exists(db, v) /\ db'.status = db.status
      BY <1>7, <2>5 DEF Changed, Rewrites
    <3>2. db'.told[v] = P[1][3]
      BY <1>4, <2>5 DEF Changed, RowColumns, RowWrites
    <3>3. Tells(P, v) /\ Telling(P) = P[1][3]
      <4>1. P # <<>> /\ P[1] # Commit
        BY <2>5 DEF Commit, Moves
      <4> QED
        BY <2>5, <4>1 DEF Tells, Telling
    <3>4. ~Tells(R, v)
      <4>1. P[1] # <<"insert", v>>
        BY <2>5
      <4> QED
        BY <2>5, <4>1 DEF Left
    <3>5. LastTells(v)
      BY <1>1, <1>5, <3>1, <3>3 DEF Told
    <3>6. \/ LastTells(v)'
          \/ Telling(P) = db.status[v] /\ \A q \in Callers \ {p} : ~Tells(todo[q], v)
      BY <3>1, <3>4, <3>5, LastTellsMoves
    <3> QED
      BY <1>1, <3>1, <3>2, <3>3, <3>4, <3>6
  <2>6. CASE v = P[1][2] /\ P[1][1] \notin {"insert", "remove", "status", "history"}
    <3>1. Exists(db, v) /\ db'.status = db.status /\ db'.told = db.told
      BY <1>7, <2>6 DEF Changed, Rewrites
    <3>2. ~Tells(P, v)
      BY <1>2, <2>6, WriteTells
    <3>3. ~Tells(R, v)
      <4>1. P[1] # <<"insert", v>>
        BY <2>6
      <4> QED
        BY <2>6, <4>1 DEF Left
    <3> QED
      BY <1>6, <3>1, <3>2, <3>3
  <2> QED
    BY <2>1, <2>2, <2>3, <2>4, <2>5, <2>6
<1>8. ASSUME disk.told[v] # disk.status[v]
      PROVE  Closing' \/ \E q \in Callers : Tells(todo'[q], v)
  <2>1. CASE Closing
    BY <1>3, <2>1
  <2>2. CASE \E q \in Callers : Tells(todo[q], v)
    <3>1. PICK q \in Callers : Tells(todo[q], v)
      BY <2>2
    <3>2. CASE q # p
      BY <1>1, <3>1, <3>2
    <3>3. CASE q = p
      <4>1. P[1][1] = "history"
        BY <1>1, <1>2, <3>1, <3>3, WriteTells
      <4>2. R # <<>> /\ R[1] = Commit
        BY <4>1 DEF Left
      <4> QED
        BY <1>1, <4>2 DEF Closing
    <3> QED
      BY <3>2, <3>3
  <2> QED
    BY <1>5, <1>8, <2>1, <2>2 DEF Told
<1> QED
  BY <1>7, <1>8

\* A new video is known to nobody else.
LEMMA WriteFirst ==
  ASSUME NEW p \in Callers, NEW P, NEW R, Moves(p, P, R), Left(P, R), Changed(p, P), FirstTold
  PROVE  FirstTold'
<1>1. /\ P = todo[p] /\ todo'[p] = R /\ \A q \in Callers \ {p} : todo'[q] = todo[q]
      /\ P # <<>>
  BY DEF Moves
<1>2. P[1][1] \in Writes /\ db.born \subseteq db'.born
  BY DEF Changed
<1> SUFFICES ASSUME NEW x \in Callers, NEW v \in Videos
             PROVE  /\ Tells(todo'[x], v) \/ Sets(todo'[x], v) => v \in db'.born
                    /\ Tells(todo'[x], v) /\ todo'[x][1] = Commit =>
                         \A q \in Callers \ {x} :
                           ~Tells(todo'[q], v)
                           /\ (Sets(todo'[q], v) => todo'[q][1] = Fetch /\ Before(x, q)')
  BY DEF FirstTold
<1>3. ~Sets(R, v)
  BY DEF Left
<1>4. \A q \in Callers : Tells(todo[q], v) \/ Sets(todo[q], v) => v \in db.born
  BY DEF FirstTold
<1>5. Sets(P, v) => P[1] # Fetch /\ P[1][1] = "status"
  BY <1>2 DEF Sets, Fetch, Writes
<1>6. P[1] = <<"insert", v>> => v \notin db.born /\ v \in db'.born
  BY DEF Changed, RowColumns, RowWrites
<1>7. Tells(R, v) => v \in db'.born
  <2>1. CASE P[1][1] = "status" /\ P[1][2] = v
    <3>1. Sets(P, v)
      BY <1>1, <2>1 DEF Sets
    <3> QED
      BY <1>1, <1>2, <1>4, <3>1
  <2>2. CASE P[1] = <<"insert", v>>
    BY <1>6, <2>2
  <2> QED
    BY <2>1, <2>2 DEF Left
<1>8. Tells(todo'[x], v) \/ Sets(todo'[x], v) => v \in db'.born
  BY <1>1, <1>2, <1>3, <1>4, <1>7
<1>9. ASSUME Tells(todo'[x], v), todo'[x][1] = Commit, NEW q \in Callers \ {x}
      PROVE  /\ ~Tells(todo'[q], v)
             /\ Sets(todo'[q], v) => todo'[q][1] = Fetch /\ Before(x, q)'
  <2>1. CASE x = p
    <3>1. P[1] = <<"insert", v>>
      <4>1. SUFFICES ASSUME P[1][1] = "status" /\ P[1][2] = v /\ P[2] # Commit
                     PROVE  FALSE
        BY <1>1, <1>9, <2>1 DEF Left
      <4>2. R[1] = <<"history", P[1][2], P[1][3]>>
        BY <4>1 DEF Left
      <4> QED
        BY <1>1, <1>9, <2>1, <4>2 DEF Commit
    <3>2. ~Tells(todo[q], v) /\ ~Sets(todo[q], v)
      BY <1>4, <1>6, <3>1
    <3> QED
      BY <1>1, <2>1, <3>2
  <2>2. CASE x # p
    <3>1. Tells(todo[x], v) /\ todo[x][1] = Commit
      BY <1>1, <1>9, <2>2
    <3>2. /\ ~Tells(todo[q], v)
          /\ Sets(todo[q], v) => todo[q][1] = Fetch /\ Before(x, q)
      BY <3>1 DEF FirstTold
    <3>3. CASE q # p
      <4>1. Before(x, q) => Before(x, q)'
        BY <1>1, <2>2, <3>3, MovesBefore
      <4> QED
        BY <1>1, <3>2, <3>3, <4>1
    <3>4. CASE q = p
      <4>1. ~Sets(P, v)
        BY <1>1, <1>5, <3>2, <3>4
      <4>2. ~Tells(R, v)
        <5>1. P[1] # <<"insert", v>>
          BY <1>4, <1>6, <3>1
        <5>2. ~(P[1][1] = "status" /\ P[1][2] = v)
          BY <1>1, <4>1 DEF Sets
        <5> QED
          BY <5>1, <5>2 DEF Left
      <4> QED
        BY <1>1, <1>3, <3>4, <4>2
    <3> QED
      BY <3>3, <3>4
  <2> QED
    BY <2>1, <2>2
<1> QED
  BY <1>8, <1>9

\* A video that becomes visible is new, or was restored.
LEMMA WriteShows ==
  ASSUME NEW p \in Callers, NEW P, Changed(p, P), NEW v \in Videos, Visible(db', v),
         ~(P[1][1] \in {"insert", "show"} /\ P[1][2] = v)
  PROVE  Visible(db, v)
<1>1. Exists(db', v)
  BY DEF Visible
<1>2. Exists(db, v)
  BY <1>1 DEF Changed
<1>3. v \notin db.hidden
  <2>1. CASE P[1][1] \notin {"hide", "show", "remove"}
    BY <2>1 DEF Changed, Rewrites, Visible
  <2>2. CASE P[1][1] = "hide"
    <3>1. db.hidden \subseteq db'.hidden
      BY <2>2 DEF Changed, RowColumns, RowWrites
    <3> QED
      BY <3>1 DEF Visible
  <2>3. CASE P[1][1] \in {"show", "remove"}
    <3>1. db'.hidden = db.hidden \ {P[1][2]}
      BY <2>3 DEF Changed, RowColumns, RowWrites
    <3>2. v # P[1][2]
      BY <1>1, <2>3 DEF Changed
    <3> QED
      BY <3>1, <3>2 DEF Visible
  <2> QED
    BY <2>1, <2>2, <2>3
<1> QED
  BY <1>2, <1>3 DEF Visible

\* Links that are written are exported later.
LEMMA WriteExported ==
  ASSUME LibraryIInv, NEW p \in Callers, NEW P, NEW R, Moves(p, P, R), Left(P, R), Changed(p, P),
         RowsKnown(db), Exported
  PROVE  Exported'
<1>1. P = todo[p] /\ todo'[p] = R /\ \A q \in Callers \ {p} : todo'[q] = todo[q]
  BY DEF Moves
<1>2. /\ nfo' = nfo /\ untold \subseteq untold' /\ db.born \subseteq db'.born
      /\ P[1][1] \in Writes
  BY DEF Changed
<1>3. ASSUME NEW v \in Videos \ untold', Visible(db', v)
      PROVE  nfo'[v] = WordsOf(db', v) \/ \E q \in Callers : Reaches(todo'[q], 1, <<"export", v>>)
  <2>1. P[1][1] # "deletetag" /\ ~(P[1][1] \in {"show", "importtag"} /\ P[1][2] = v)
    BY <1>3 DEF Changed
  <2>2. CASE P[1][1] = "insert" /\ P[1][2] = v
    <3>1. v \notin db.born /\ WordsOf(db', v) = WordsOf(db, v)
      BY <2>2 DEF Changed, RowColumns, RowWrites
    <3>2. nfo'[v] = {}
      BY <1>2, <3>1 DEF Exported
    <3>3. ASSUME NEW t \in Tags
          PROVE  <<v, db.tag[t]>> \notin db.links
      <4>1. SUFFICES ASSUME <<v, db.tag[t]>> \in db.links PROVE FALSE
        OBVIOUS
      <4>2. Exists(db, v)
        BY <4>1 DEF LibraryIInv, Stored, Sound, LinkLeads
      <4> QED
        BY <3>1, <4>2 DEF RowsKnown
    <3> QED
      BY <3>1, <3>2, <3>3 DEF WordsOf
  <2>3. CASE P[1][1] \in LinkWrites /\ P[1][2] = v
    <3>1. Reaches(R, 1, <<"export", v>>)
      BY <2>1, <2>3 DEF Left, LinkWrites, Retold
    <3> QED
      BY <1>1, <3>1
  <2>4. CASE ~(P[1][1] = "insert" /\ P[1][2] = v) /\ ~(P[1][1] \in LinkWrites /\ P[1][2] = v)
    <3>1. Visible(db, v)
      BY <1>3, <2>1, <2>4, WriteShows
    <3>2. WordsOf(db', v) = WordsOf(db, v)
      <4>1. CASE v # P[1][2]
        BY <2>1, <4>1 DEF Changed, Rewrites
      <4>2. CASE v = P[1][2]
        <5>1. P[1][1] # "remove"
          BY <1>3, <4>2 DEF Changed, Visible
        <5> QED
          BY <2>1, <2>4, <4>2, <5>1 DEF Changed, Rewrites
      <4> QED
        BY <4>1, <4>2
    <3>3. v \in Videos \ untold
      BY <1>2, <1>3
    <3>4. CASE nfo[v] = WordsOf(db, v)
      BY <1>2, <3>2, <3>4
    <3>5. CASE \E q \in Callers : Reaches(todo[q], 1, <<"export", v>>)
      <4>1. PICK q \in Callers : Reaches(todo[q], 1, <<"export", v>>)
        BY <3>5
      <4>2. <<"export", v>>[1] \in {"commit", "export"}
        OBVIOUS
      <4>3. Reaches(todo'[q], 1, <<"export", v>>)
        BY <1>1, <4>1, <4>2 DEF Left, Onward
      <4> QED
        BY <4>3
    <3> QED
      BY <3>1, <3>3, <3>4, <3>5 DEF Exported
  <2> QED
    BY <2>2, <2>3, <2>4
<1>4. \A v \in Videos \ db'.born : nfo'[v] = {}
  BY <1>2 DEF Exported
<1> QED
  BY <1>3, <1>4 DEF Exported

-----------------------------------------------------------------------------
(* Commits *)

\* What a commit leaves, and which it keeps.
Commits(p, P, R) ==
  /\ Moves(p, P, R) /\ P[1] = Commit
  /\ db' = db /\ disk' = db /\ nfo' = nfo /\ untold' = untold /\ reverted' = reverted
  /\ \A v \in Videos :
       /\ Reaches(P, 1, <<"export", v>>) => Reaches(R, 1, <<"export", v>>)
       /\ ~Sets(R, v)
       /\ Tells(R, v) <=> Tells(P, v)
       /\ Tells(R, v) => R[1] # Commit /\ Telling(R) = Telling(P)

\* A commit commits, and leaves its program in order.
LEMMA CommitLeaves ==
  ASSUME LibraryIInv, \A q \in Callers : Tidy(todo[q]), NEW p \in Callers, CommitAll(p), NEW P, P = todo[p]
  PROVE  \E R \in Seq(Statement) : Tidy(R) /\ Commits(p, P, R)
<1>1. InLine /\ Turn(p)
  BY DEF LibraryIInv, CommitAll
<1>2. P \in Seq(Statement) /\ P # <<>> /\ Next1(p) = P[1] /\ Tidy(P)
  BY <1>1, TurnMoves
<1>3. PICK R : R = Rest(Tail(P))
  OBVIOUS
<1>4. /\ P[1] = Commit /\ Advance(p, R)
      /\ db' = db /\ disk' = db /\ nfo' = nfo /\ untold' = untold /\ reverted' = reverted
  BY <1>2, <1>3 DEF CommitAll
<1>5. /\ R \in Seq(Statement) /\ Tidy(R)
      /\ \A G : G[1] = "export" /\ Reaches(P, 1, G) => Reaches(R, 1, G)
      /\ \A v : /\ ~Sets(R, v)
                /\ Tells(R, v) <=> Tells(P, v)
                /\ Tells(R, v) => R[1] # Commit /\ Telling(R) = Telling(P)
  BY <1>2, <1>3, <1>4, CommitOn
<1>6. Moves(p, P, R)
  BY <1>1, <1>4, <1>5, AdvanceMoves
<1>7. \A v \in Videos : Reaches(P, 1, <<"export", v>>) => Reaches(R, 1, <<"export", v>>)
  <2>1. \A v : <<"export", v>>[1] = "export"
    OBVIOUS
  <2> QED
    BY <1>5, <2>1
<1>8. Commits(p, P, R)
  BY <1>4, <1>5, <1>6, <1>7 DEF Commits
<1> QED
  BY <1>5, <1>8

\* The tables as committed are the tables.
LEMMA EvenOwed ==
  ASSUME db' = disk'
  PROVE  Owed'
BY DEF Owed, SameLibrary, SameVideo

\* Who told of a video still does.
LEMMA CommitTold ==
  ASSUME NEW p \in Callers, NEW P, NEW R, Commits(p, P, R), RowsKnown(db), FirstTold, Told
  PROVE  Told'
<1>1. /\ P = todo[p] /\ todo'[p] = R /\ \A q \in Callers \ {p} : todo'[q] = todo[q]
      /\ Moves(p, P, R)
  BY DEF Commits, Moves
<1>2. db' = db /\ disk' = db /\ reverted' = reverted
  BY DEF Commits
<1> SUFFICES ASSUME NEW v \in Videos \ reverted
             PROVE  /\ Exists(db, v) =>
                         \/ (\A q \in Callers : ~Tells(todo'[q], v)) /\ db.told[v] = db.status[v]
                         \/ LastTells(v)'
                    /\ db.told[v] # db.status[v] => Closing' \/ \E q \in Callers : Tells(todo'[q], v)
  BY <1>2 DEF Told
<1>3. Tells(R, v) <=> Tells(P, v)
  BY DEF Commits
<1>4. \A i \in DOMAIN line : line[i] \in Callers
  BY <1>1 DEF Moves
<1>5. ASSUME Exists(db, v)
      PROVE  \/ (\A q \in Callers : ~Tells(todo'[q], v)) /\ db.told[v] = db.status[v]
             \/ LastTells(v)'
  <2>1. CASE (\A q \in Callers : ~Tells(todo[q], v)) /\ db.told[v] = db.status[v]
    BY <1>1, <1>3, <2>1
  <2>2. CASE LastTells(v) /\ ~Tells(R, v)
    BY <1>1, <1>2, <1>3, <2>2, LastTellsMoves
  <2>3. CASE LastTells(v) /\ Tells(R, v)
    <3>1. Tells(todo[p], v) /\ todo[p][1] = Commit
      BY <1>1, <1>3, <2>3 DEF Commits
    <3>2. \A q \in Callers \ {p} : ~Tells(todo[q], v)
      BY <3>1 DEF FirstTold
    <3>3. PICK i \in DOMAIN line : Tells(todo[line[i]], v) /\ Telling(todo[line[i]]) = db.status[v]
      BY <2>3 DEF LastTells
    <3>4. line[i] = p
      BY <1>4, <3>2, <3>3
    <3>5. Telling(R) = db.status[v]
      BY <1>1, <2>3, <3>3, <3>4 DEF Commits
    <3> QED
      BY <1>1, <1>2, <2>3, <3>5, LastTellsMover
  <2> QED
    BY <1>5, <2>1, <2>2, <2>3 DEF Told
<1>6. ASSUME db.told[v] # db.status[v]
      PROVE  \E q \in Callers : Tells(todo'[q], v)
  <2>1. Exists(db, v)
    BY <1>6 DEF RowsKnown, Exists
  <2>2. LastTells(v)
    BY <1>6, <2>1 DEF Told
  <2>3. PICK q \in Callers : Tells(todo[q], v)
    BY <1>4, <2>2 DEF LastTells
  <2> QED
    BY <1>1, <1>3, <2>3
<1> QED
  BY <1>5, <1>6

\* Who created a video tells of it next.
LEMMA CommitFirst ==
  ASSUME NEW p \in Callers, NEW P, NEW R, Commits(p, P, R), FirstTold
  PROVE  FirstTold'
<1>1. /\ P = todo[p] /\ todo'[p] = R /\ \A q \in Callers \ {p} : todo'[q] = todo[q]
      /\ Moves(p, P, R)
  BY DEF Commits, Moves
<1>2. db' = db
  BY DEF Commits
<1> SUFFICES ASSUME NEW x \in Callers, NEW v \in Videos
             PROVE  /\ Tells(todo'[x], v) \/ Sets(todo'[x], v) => v \in db.born
                    /\ Tells(todo'[x], v) /\ todo'[x][1] = Commit =>
                         \A q \in Callers \ {x} :
                           ~Tells(todo'[q], v)
                           /\ (Sets(todo'[q], v) => todo'[q][1] = Fetch /\ Before(x, q)')
  BY <1>2 DEF FirstTold
<1>3. /\ ~Sets(R, v) /\ (Tells(R, v) <=> Tells(P, v))
      /\ Tells(R, v) => R[1] # Commit
  BY DEF Commits
<1>4. \A q \in Callers : Tells(todo[q], v) \/ Sets(todo[q], v) => v \in db.born
  BY DEF FirstTold
<1>5. ASSUME Tells(todo'[x], v), todo'[x][1] = Commit, NEW q \in Callers \ {x}
      PROVE  /\ ~Tells(todo'[q], v)
             /\ Sets(todo'[q], v) => todo'[q][1] = Fetch /\ Before(x, q)'
  <2>1. x # p /\ Tells(todo[x], v) /\ todo[x][1] = Commit
    BY <1>1, <1>3, <1>5
  <2>2. /\ ~Tells(todo[q], v)
        /\ Sets(todo[q], v) => todo[q][1] = Fetch /\ Before(x, q)
    BY <2>1 DEF FirstTold
  <2>3. CASE q # p
    <3>1. Before(x, q) => Before(x, q)'
      BY <1>1, <2>1, <2>3, MovesBefore
    <3> QED
      BY <1>1, <2>2, <2>3, <3>1
  <2>4. CASE q = p
    BY <1>1, <1>3, <2>2, <2>4
  <2> QED
    BY <2>3, <2>4
<1> QED
  BY <1>1, <1>3, <1>4, <1>5

\* The exports are still to come.
LEMMA CommitExported ==
  ASSUME NEW p \in Callers, NEW P, NEW R, Commits(p, P, R), Exported
  PROVE  Exported'
<1>1. P = todo[p] /\ todo'[p] = R /\ \A q \in Callers \ {p} : todo'[q] = todo[q]
  BY DEF Commits, Moves
<1>2. db' = db /\ nfo' = nfo /\ untold' = untold
  BY DEF Commits
<1>3. \A v \in Videos, q \in Callers :
        Reaches(todo[q], 1, <<"export", v>>) => Reaches(todo'[q], 1, <<"export", v>>)
  BY <1>1 DEF Commits
<1>4. ASSUME NEW v \in Videos \ untold, Visible(db, v)
      PROVE  nfo[v] = WordsOf(db, v) \/ \E q \in Callers : Reaches(todo'[q], 1, <<"export", v>>)
  BY <1>3, <1>4 DEF Exported
<1> QED
  BY <1>2, <1>4 DEF Exported

-----------------------------------------------------------------------------
(* Rollbacks *)

\* A rollback that undoes nobody else's work: there is none, or nobody else is
\* at work.
LEMMA RollbackLeaves ==
  ASSUME LibraryIInv, \A q \in Callers : Tidy(todo[q]), NEW p \in Callers, RollbackAll(p), ~upset',
         NEW P, P = todo[p]
  PROVE  \E R \in Seq(Statement) :
           /\ Moves(p, P, R) /\ Fresh(R) /\ P[1][1] = "rollback"
           /\ db' = disk /\ disk' = disk /\ nfo' = nfo /\ untold' = untold /\ reverted' = reverted
           /\ db = disk \/ \A q \in Callers \ {p} : todo[q] = <<>>
<1>1. InLine /\ Turn(p) /\ line \in Seq(Callers)
  BY DEF LibraryIInv, InLine, RollbackAll
<1>2. P \in Seq(Statement) /\ P # <<>> /\ Next1(p) = P[1] /\ Tidy(P)
  BY <1>1, TurnMoves
<1>3. PICK R : R = Unwound(Tail(P), P[1][2])
  OBVIOUS
<1>4. /\ P[1][1] = "rollback" /\ Advance(p, R)
      /\ db' = disk /\ disk' = disk /\ nfo' = nfo /\ untold' = untold /\ reverted' = reverted
      /\ db = disk \/ ~(Len(line) > 1)
  BY <1>2, <1>3 DEF RollbackAll
<1>5. R \in Seq(Statement) /\ Fresh(R)
  BY <1>2, <1>3, UnwoundFresh
<1>6. Moves(p, P, R)
  BY <1>1, <1>4, <1>5, AdvanceMoves
<1>7. ASSUME ~(Len(line) > 1), NEW q \in Callers \ {p}
      PROVE  todo[q] = <<>>
  <2>1. SUFFICES ASSUME todo[q] # <<>> PROVE FALSE
    OBVIOUS
  <2>2. PICK i \in DOMAIN line : line[i] = q
    BY <1>6, <2>1 DEF Moves
  <2>3. i = 1
    BY <1>1, <1>7
  <2> QED
    BY <1>6, <2>2, <2>3 DEF Moves
<1> QED
  BY <1>4, <1>5, <1>6, <1>7

\* A program at a rollback comes to nothing.
LEMMA RollbackReaches ==
  ASSUME NEW P \in Seq(Statement), P # <<>>, P[1][1] = "rollback",
         NEW G, G[1] \in {"commit", "export"}
  PROVE  ~Reaches(P, 1, G)
<1>1. P[1] # G /\ P[1][1] \notin Calm
  BY DEF Calm
<1> QED
  BY <1>1, ReachesNext

\* Who is not at work comes to nothing.
LEMMA NothingAhead ==
  ASSUME NEW v
  PROVE  /\ ~Tells(<<>>, v) /\ ~Sets(<<>>, v) /\ \A G : ~Reaches(<<>>, 1, G)
         /\ Tidy(<<>>)
<1>1. Len(<<>>) = 0 /\ DOMAIN <<>> = {}
  OBVIOUS
<1>2. ~Tells(<<>>, v) /\ ~Sets(<<>>, v)
  BY <1>1 DEF Tells, Sets
<1>3. \A G : ~Reaches(<<>>, 1, G)
  BY <1>1 DEF Reaches
<1>4. Tidy(<<>>)
  BY <1>1 DEF Tidy
<1> QED
  BY <1>2, <1>3, <1>4

\* Nobody else's work undone, though there was some.
LEMMA AloneOnward ==
  ASSUME NEW p \in Callers, NEW P, NEW R, Moves(p, P, R), Fresh(R), P[1][1] = "rollback",
         db' = disk, disk' = disk, nfo' = nfo, untold' = untold, reverted' = reverted,
         \A q \in Callers \ {p} : todo[q] = <<>>,
         RowsKnown(disk), Owed, Told, FirstTold, Exported
  PROVE  Told' /\ FirstTold' /\ Exported'
<1>1. /\ P = todo[p] /\ todo'[p] = R /\ \A q \in Callers \ {p} : todo'[q] = <<>>
      /\ P \in Seq(Statement) /\ P # <<>> /\ R \in Seq(Statement)
  BY DEF Moves
<1>2. \A q \in Callers : \A v : ~Tells(todo'[q], v) /\ ~Sets(todo'[q], v)
  BY <1>1, FreshTidy, NothingAhead
<1>3. ~Closing /\ \A q \in Callers : \A v : ~Tells(todo[q], v)
  <2>1. P[1] # Commit
    BY DEF Commit
  <2>2. \A v : ~Tells(P, v)
    BY TellsOnly
  <2> QED
    BY <1>1, <2>1, <2>2, NothingAhead DEF Closing
<1>4. \A G : G[1] \in {"commit", "export"} => \A q \in Callers : ~Reaches(todo[q], 1, G)
  BY <1>1, RollbackReaches, NothingAhead
<1>5. ~Committing
  <2>1. Commit[1] \in {"commit", "export"}
    BY DEF Commit
  <2> QED
    BY <1>4, <2>1 DEF Committing
<1>6. SameLibrary(db, disk)
  BY <1>5 DEF Owed
<1>7. \A v \in Videos \ reverted : disk.told[v] = disk.status[v]
  BY <1>3 DEF Told
<1>8. Told'
  BY <1>2, <1>7 DEF Told
<1>9. FirstTold'
  BY <1>2 DEF FirstTold
<1>10. ASSUME NEW v \in Videos \ untold, Visible(disk, v)
       PROVE  nfo[v] = WordsOf(disk, v)
  <2>1. Visible(db, v) /\ WordsOf(db, v) = WordsOf(disk, v)
    BY <1>6, <1>10 DEF SameLibrary, SameVideo, Visible, WordsOf
  <2>2. \A q \in Callers : ~Reaches(todo[q], 1, <<"export", v>>)
    <3>1. <<"export", v>>[1] \in {"commit", "export"}
      OBVIOUS
    <3> QED
      BY <1>4, <3>1
  <2> QED
    BY <2>1, <2>2 DEF Exported
<1>11. \A v \in Videos \ disk.born : nfo[v] = {}
  BY <1>6 DEF SameLibrary, Exported
<1>12. Exported'
  BY <1>10, <1>11 DEF Exported
<1> QED
  BY <1>8, <1>9, <1>12

\* There was no work to undo.
LEMMA IdleRollback ==
  ASSUME NEW p \in Callers, NEW P, NEW R, Moves(p, P, R), Fresh(R), P[1][1] = "rollback",
         db = disk, db' = disk, disk' = disk, nfo' = nfo, untold' = untold, reverted' = reverted
  PROVE  Lightly(p, P, R)
<1>1. P \in Seq(Statement) /\ P # <<>> /\ R \in Seq(Statement)
  BY DEF Moves
<1>2. P[1] # Commit
  BY DEF Commit
<1>3. \A v : ~Tells(P, v) /\ ~Tells(R, v) /\ ~Sets(R, v)
  BY <1>1, TellsOnly, FreshTidy
<1>4. \A G : G[1] \in {"commit", "export"} => ~Reaches(P, 1, G)
  BY <1>1, RollbackReaches
<1>5. ~Reaches(P, 1, Commit) /\ \A v : ~Reaches(P, 1, <<"export", v>>)
  <2>1. Commit[1] \in {"commit", "export"} /\ \A v : <<"export", v>>[1] \in {"commit", "export"}
    BY DEF Commit
  <2> QED
    BY <1>4, <2>1
<1> QED
  BY <1>2, <1>3, <1>5 DEF Lightly

-----------------------------------------------------------------------------
(* Calls *)

\* A call joins the line with a fresh program.
LEMMA CallJoins ==
  ASSUME LibraryIInv, "untag" \notin Services, NEW p \in Callers, Call(p)
  PROVE  \E R \in Seq(Statement) :
           /\ Fresh(R) /\ todo[p] = <<>>
           /\ todo'[p] = R /\ \A q \in Callers \ {p} : todo'[q] = todo[q]
           /\ Len(line) \in Nat /\ \A i \in DOMAIN line : i \in Nat /\ line[i] \in Callers \ {p}
           /\ \A i \in DOMAIN line : i \in DOMAIN line' /\ line'[i] = line[i]
           /\ \A i \in DOMAIN line' : i \in DOMAIN line \/ line'[i] = p
<1>1. PICK service \in Services : \E program \in Programs(service) : todo' = [todo EXCEPT ![p] = program]
  BY DEF Call
<1>2. PICK program \in Programs(service) : todo' = [todo EXCEPT ![p] = program]
  BY <1>1
<1>3. program \in Seq(Statement) /\ Fresh(program)
  <2>1. program \in Programmes
    BY <1>1, <1>2, ProgramFresh
  <2> QED
    BY <2>1 DEF Programmes
<1>4. todo[p] = <<>> /\ line' = Append(line, p) /\ line \in Seq(Callers)
  BY DEF Call, LibraryIInv, InLine
<1>5. todo'[p] = program /\ \A q \in Callers \ {p} : todo'[q] = todo[q]
  BY <1>2 DEF LibraryIInv, InLine
<1>6. /\ Len(line) \in Nat /\ DOMAIN line = 1..Len(line)
      /\ DOMAIN line' = 1..(Len(line) + 1) /\ line'[Len(line) + 1] = p
      /\ \A i \in 1..Len(line) : line'[i] = line[i]
  BY <1>4
<1>7. \A i \in DOMAIN line : i \in Nat /\ line[i] \in Callers \ {p}
  <2>1. \A i \in DOMAIN line : line[i] # p
    BY <1>4 DEF LibraryIInv, InLine
  <2> QED
    BY <1>4, <1>6, <2>1
<1>8. \A i \in DOMAIN line' : i \in DOMAIN line \/ line'[i] = p
  <2>1. PICK n \in Nat : n = Len(line)
    BY <1>6
  <2>2. \A i \in 1..(n + 1) : i \in 1..n \/ i = n + 1
    OBVIOUS
  <2> QED
    BY <1>6, <2>1, <2>2, SMTT(30)
<1>9. \A i \in DOMAIN line : i \in DOMAIN line' /\ line'[i] = line[i]
  BY <1>6
<1> QED
  BY <1>3, <1>4, <1>5, <1>6, <1>7, <1>8, <1>9

\* It changes nothing for the others.
LEMMA CallOnward ==
  ASSUME LibraryIInv, "untag" \notin Services, NEW p \in Callers, Call(p),
         \A q \in Callers : Tidy(todo[q]), Owed, Told, FirstTold, Exported
  PROVE  (\A q \in Callers : Tidy(todo'[q])) /\ Owed' /\ Told' /\ FirstTold' /\ Exported'
<1>1. PICK R \in Seq(Statement) :
        /\ Fresh(R) /\ todo[p] = <<>>
        /\ todo'[p] = R /\ \A q \in Callers \ {p} : todo'[q] = todo[q]
        /\ Len(line) \in Nat /\ \A i \in DOMAIN line : i \in Nat /\ line[i] \in Callers \ {p}
        /\ \A i \in DOMAIN line : i \in DOMAIN line' /\ line'[i] = line[i]
        /\ \A i \in DOMAIN line' : i \in DOMAIN line \/ line'[i] = p
  BY CallJoins
<1>2. /\ db' = db /\ disk' = disk /\ nfo' = nfo /\ untold' = untold /\ reverted' = reverted
  BY DEF Call
<1>3. Tidy(R) /\ \A v : ~Tells(R, v) /\ ~Sets(R, v)
  BY <1>1, FreshTidy
<1>4. \A q \in Callers : Tidy(todo'[q])
  BY <1>1, <1>3
<1>5. /\ \A v : \A q \in Callers : Tells(todo'[q], v) <=> Tells(todo[q], v)
      /\ \A v : \A q \in Callers : Sets(todo'[q], v) <=> Sets(todo[q], v)
      /\ \A q \in Callers : \A G : Reaches(todo[q], 1, G) => Reaches(todo'[q], 1, G)
  <2>1. \A v : ~Tells(<<>>, v) /\ ~Sets(<<>>, v) /\ \A G : ~Reaches(<<>>, 1, G)
    BY NothingAhead
  <2> QED
    BY <1>1, <1>3, <2>1
<1>6. Owed'
  <2>1. Committing => Committing'
    BY <1>5 DEF Committing
  <2>2. Closing => Closing'
    BY <1>1 DEF Closing
  <2>3. Ending => Ending'
    BY <1>1 DEF Ending
  <2> QED
    BY <1>2, <2>1, <2>2, <2>3 DEF Owed
<1>7. ASSUME NEW v, LastTells(v)
      PROVE  LastTells(v)'
  <2>1. PICK i \in DOMAIN line :
          /\ Tells(todo[line[i]], v) /\ Telling(todo[line[i]]) = db.status[v]
          /\ \A k \in DOMAIN line : Tells(todo[line[k]], v) => k <= i
    BY <1>7 DEF LastTells
  <2>2. i \in DOMAIN line' /\ line'[i] = line[i] /\ todo'[line[i]] = todo[line[i]]
    BY <1>1
  <2>3. ASSUME NEW k \in DOMAIN line', Tells(todo'[line'[k]], v)
        PROVE  k <= i
    <3>1. line'[k] # p
      BY <1>1, <1>3, <2>3
    <3>2. k \in DOMAIN line
      BY <1>1, <3>1
    <3>3. line'[k] = line[k] /\ todo'[line[k]] = todo[line[k]]
      BY <1>1, <3>2
    <3> QED
      BY <2>1, <2>3, <3>2, <3>3
  <2> QED
    BY <1>2, <2>1, <2>2, <2>3 DEF LastTells
<1>8. Told'
  <2>1. Closing => Closing'
    BY <1>1 DEF Closing
  <2> SUFFICES ASSUME NEW v \in Videos \ reverted
               PROVE  /\ Exists(db, v) =>
                           \/ (\A q \in Callers : ~Tells(todo'[q], v)) /\ db.told[v] = db.status[v]
                           \/ LastTells(v)'
                      /\ disk.told[v] # disk.status[v] => Closing' \/ \E q \in Callers : Tells(todo'[q], v)
    BY <1>2 DEF Told
  <2>2. /\ Exists(db, v) =>
             \/ (\A q \in Callers : ~Tells(todo[q], v)) /\ db.told[v] = db.status[v]
             \/ LastTells(v)
        /\ disk.told[v] # disk.status[v] => Closing \/ \E q \in Callers : Tells(todo[q], v)
    BY DEF Told
  <2> QED
    BY <1>5, <1>7, <2>1, <2>2
<1>9. FirstTold'
  <2> SUFFICES ASSUME NEW x \in Callers, NEW v \in Videos
               PROVE  /\ Tells(todo'[x], v) \/ Sets(todo'[x], v) => v \in db.born
                      /\ Tells(todo'[x], v) /\ todo'[x][1] = Commit =>
                           \A q \in Callers \ {x} :
                             ~Tells(todo'[q], v)
                             /\ (Sets(todo'[q], v) => todo'[q][1] = Fetch /\ Before(x, q)')
    BY <1>2 DEF FirstTold
  <2>1. Tells(todo'[x], v) \/ Sets(todo'[x], v) => v \in db.born
    BY <1>5 DEF FirstTold
  <2>2. ASSUME Tells(todo'[x], v), todo'[x][1] = Commit, NEW q \in Callers \ {x}
        PROVE  /\ ~Tells(todo'[q], v)
               /\ Sets(todo'[q], v) => todo'[q][1] = Fetch /\ Before(x, q)'
    <3>1. x # p /\ todo'[x] = todo[x]
      BY <1>1, <1>3, <2>2
    <3>2. ~Tells(todo[q], v) /\ (Sets(todo[q], v) => todo[q][1] = Fetch /\ Before(x, q))
      BY <2>2, <3>1 DEF FirstTold
    <3>3. ASSUME Sets(todo'[q], v)
          PROVE  todo'[q][1] = Fetch /\ Before(x, q)'
      <4>1. q # p /\ todo'[q] = todo[q]
        BY <1>1, <1>3, <3>3
      <4>2. todo[q][1] = Fetch /\ Before(x, q)
        BY <3>2, <3>3, <4>1
      <4>3. Before(x, q)'
        <5> SUFFICES ASSUME NEW i \in DOMAIN line', NEW k \in DOMAIN line', line'[i] = x, line'[k] = q
                     PROVE  i < k
          BY DEF Before
        <5>1. i \in DOMAIN line /\ k \in DOMAIN line /\ line[i] = x /\ line[k] = q
          BY <1>1, <3>1, <4>1
        <5> QED
          BY <4>2, <5>1 DEF Before
      <4> QED
        BY <4>1, <4>2, <4>3
    <3> QED
      BY <1>5, <3>2, <3>3
  <2> QED
    BY <2>1, <2>2
<1>10. Exported'
  <2>1. ASSUME NEW v \in Videos \ untold, Visible(db, v)
        PROVE  nfo[v] = WordsOf(db, v) \/ \E q \in Callers : Reaches(todo'[q], 1, <<"export", v>>)
    BY <1>5, <2>1 DEF Exported
  <2> QED
    BY <1>2, <2>1 DEF Exported
<1> QED
  BY <1>4, <1>6, <1>8, <1>9, <1>10

-----------------------------------------------------------------------------
(* Whatever the order of their statements *)

\* What Whole says of the state, unless a call failed or was cut off.
Ordered ==
  /\ \A q \in Callers : Tidy(todo[q])
  /\ RowsKnown(db) /\ RowsKnown(disk)
  /\ Owed /\ Told /\ FirstTold /\ Exported

\* Steps that change no table keep the order,
LEMMA LightlyOrdered ==
  ASSUME NEW p \in Callers, NEW P, NEW R, P = todo[p], Tidy(R), Lightly(p, P, R), Ordered
  PROVE  Ordered'
<1>1. \A q \in Callers : Tidy(todo'[q])
  BY DEF Lightly, Moves, Ordered
<1>2. RowsKnown(db') /\ RowsKnown(disk')
  BY DEF Lightly, Ordered
<1>3. Owed'
  BY LightlyOwed DEF Ordered
<1>4. Told'
  BY LightlyTold DEF Ordered
<1>5. FirstTold'
  BY LightlyFirst DEF Ordered
<1>6. Exported'
  BY LightlyExported DEF Ordered
<1> QED
  BY <1>1, <1>2, <1>3, <1>4, <1>5, <1>6 DEF Ordered

\* those that leave their program in order,
LEMMA LeavesOrdered ==
  ASSUME NEW p \in Callers, Leaves(p), Ordered
  PROVE  Ordered'
<1>1. PICK R \in Seq(Statement) : Tidy(R) /\ Lightly(p, todo[p], R)
  BY DEF Leaves
<1> QED
  BY <1>1, LightlyOrdered

\* writes,
LEMMA WriteOrdered ==
  ASSUME LibraryIInv, Ordered, NEW p \in Callers, Write(p)
  PROVE  Ordered'
<1>1. PICK P : P = todo[p]
  OBVIOUS
<1>2. PICK R \in Seq(Statement) : Moves(p, P, R) /\ Left(P, R)
  BY <1>1, WriteLeaves DEF Ordered
<1>3. Changed(p, P)
  BY <1>1, WriteChanges
<1>4. \A q \in Callers : Tidy(todo'[q])
  BY <1>2 DEF Left, Moves, Ordered
<1>5. RowsKnown(db') /\ RowsKnown(disk')
  <2>1. InLine /\ Turn(p) /\ Sound(db)
    BY DEF LibraryIInv, Stored, Write
  <2>2. Next1(p) = P[1] /\ P[1] \in Statement
    BY <1>1, <2>1, TurnMoves
  <2>3. PICK s \in Statement : s = P[1]
    BY <2>2
  <2>4. PICK id \in Nat : id = seen[p]
    BY DEF LibraryIInv, Noted
  <2>5. PICK d, e : d = db /\ e = db'
    OBVIOUS
  <2>6. s[1] \in Writes /\ Raises(d, s, id) = "none" /\ e = Written(d, s, id) /\ disk' = disk
    BY <2>2, <2>3, <2>4, <2>5 DEF Write
  <2>7. Sound(d) /\ RowsKnown(d) /\ Rewrites(d, e, s)
    BY <1>3, <2>1, <2>3, <2>5 DEF Ordered, Changed
  <2>8. RowsKnown(e)
    BY <2>6, <2>7, WriteKnown
  <2> QED
    BY <2>5, <2>6, <2>8 DEF Ordered
<1>6. Owed'
  BY <1>2, <1>3, WriteOwed DEF Ordered
<1>7. Told'
  BY <1>2, <1>3, WriteTold DEF Ordered
<1>8. FirstTold'
  BY <1>2, <1>3, WriteFirst DEF Ordered
<1>9. Exported'
  BY <1>2, <1>3, WriteExported DEF Ordered
<1> QED
  BY <1>4, <1>5, <1>6, <1>7, <1>8, <1>9 DEF Ordered

\* commits,
LEMMA CommitOrdered ==
  ASSUME LibraryIInv, Ordered, NEW p \in Callers, CommitAll(p)
  PROVE  Ordered'
<1>1. PICK P : P = todo[p]
  OBVIOUS
<1>2. PICK R \in Seq(Statement) : Tidy(R) /\ Commits(p, P, R)
  BY <1>1, CommitLeaves DEF Ordered
<1>3. \A q \in Callers : Tidy(todo'[q])
  BY <1>2 DEF Commits, Moves, Ordered
<1>4. RowsKnown(db') /\ RowsKnown(disk') /\ db' = disk'
  BY <1>2 DEF Commits, Ordered
<1>5. Owed'
  BY <1>4, EvenOwed
<1>6. Told'
  BY <1>2, CommitTold DEF Ordered
<1>7. FirstTold'
  BY <1>2, CommitFirst DEF Ordered
<1>8. Exported'
  BY <1>2, CommitExported DEF Ordered
<1> QED
  BY <1>3, <1>4, <1>5, <1>6, <1>7, <1>8 DEF Ordered

\* rollbacks that undo nobody else's work,
LEMMA RollbackOrdered ==
  ASSUME LibraryIInv, Ordered, NEW p \in Callers, RollbackAll(p), ~upset'
  PROVE  Ordered'
<1>1. PICK P : P = todo[p]
  OBVIOUS
<1>2. PICK R \in Seq(Statement) :
        /\ Moves(p, P, R) /\ Fresh(R) /\ P[1][1] = "rollback"
        /\ db' = disk /\ disk' = disk /\ nfo' = nfo /\ untold' = untold /\ reverted' = reverted
        /\ db = disk \/ \A q \in Callers \ {p} : todo[q] = <<>>
  BY <1>1, RollbackLeaves DEF Ordered
<1>3. Tidy(R)
  BY <1>2, FreshTidy
<1>4. CASE db = disk
  <2>1. Lightly(p, P, R)
    BY <1>2, <1>4, IdleRollback
  <2> QED
    BY <1>1, <1>3, <2>1, LightlyOrdered
<1>5. CASE \A q \in Callers \ {p} : todo[q] = <<>>
  <2>1. \A q \in Callers : Tidy(todo'[q])
    BY <1>2, <1>3 DEF Moves, Ordered
  <2>2. RowsKnown(db') /\ RowsKnown(disk') /\ db' = disk'
    BY <1>2 DEF Ordered
  <2>3. Owed'
    BY <2>2, EvenOwed
  <2>4. Told' /\ FirstTold' /\ Exported'
    BY <1>2, <1>5, AloneOnward DEF Ordered
  <2> QED
    BY <2>1, <2>2, <2>3, <2>4 DEF Ordered
<1> QED
  BY <1>2, <1>4, <1>5

\* and calls.
LEMMA CallOrdered ==
  ASSUME LibraryIInv, "untag" \notin Services, Ordered, NEW p \in Callers, Call(p)
  PROVE  Ordered'
<1>1. RowsKnown(db') /\ RowsKnown(disk')
  BY DEF Call, Ordered
<1> QED
  BY <1>1, CallOnward DEF Ordered

\* Whole is that Ordered holds as long as nothing is upset.
LEMMA WholeInit ==
  ASSUME Init
  PROVE  Whole
<1>1. LibraryIInv
  BY LibraryInit
<1>2. PICK b \in Beginnings : db = Filled(b)
  BY DEF Init
<1>3. db.told = db.status /\ db.born = b.videos
      /\ db.status = [v \in Videos |-> IF v \in b.videos THEN "discovered" ELSE "none"]
  <2> DEFINE first == [v \in Videos |-> IF v \in b.videos THEN "discovered" ELSE "none"]
             rows == [Empty EXCEPT !.status = first, !.told = first, !.born = b.videos,
                                   !.indexed = b.videos, !.named = b.named]
  <2>1. rows.told = first /\ rows.status = first /\ rows.born = b.videos
    BY DEF Empty
  <2>2. db.told = rows.told /\ db.status = rows.status /\ db.born = rows.born
    BY <1>2 DEF Filled, Empty
  <2> QED
    BY <2>1, <2>2
<1>4. RowsKnown(db)
  BY <1>3 DEF RowsKnown, Exists
<1>5. /\ \A q \in Callers : todo[q] = <<>>
      /\ disk = db /\ nfo = [v \in Videos |-> WordsOf(db, v)]
  BY DEF Init
<1>6. \A q \in Callers : \A v : ~Tells(todo[q], v) /\ ~Sets(todo[q], v) /\ Tidy(todo[q])
  BY <1>5, NothingAhead
<1>7. Owed
  BY <1>5 DEF Owed, SameLibrary, SameVideo
<1>8. Told
  BY <1>3, <1>5, <1>6 DEF Told
<1>9. FirstTold
  BY <1>6 DEF FirstTold
<1>10. ASSUME NEW v \in Videos \ db.born
       PROVE  nfo[v] = {}
  <2>1. ASSUME NEW t \in Tags
        PROVE  <<v, db.tag[t]>> \notin db.links
    <3>1. SUFFICES ASSUME <<v, db.tag[t]>> \in db.links PROVE FALSE
      OBVIOUS
    <3>2. Exists(db, v)
      BY <1>1, <3>1 DEF LibraryIInv, Stored, Sound, LinkLeads
    <3> QED
      BY <1>4, <1>10, <3>2 DEF RowsKnown
  <2> QED
    BY <1>5, <2>1 DEF WordsOf
<1>11. Exported
  BY <1>5, <1>10 DEF Exported
<1> QED
  BY <1>4, <1>5, <1>6, <1>7, <1>8, <1>9, <1>11 DEF Whole

\* Every step keeps the order, or upsets it and says so.
LEMMA WholeStep ==
  ASSUME LibraryIInv, "untag" \notin Services, Whole, [Next]_vars
  PROVE  Whole'
<1> SUFFICES ASSUME ~upset' PROVE Ordered'
  BY DEF Whole, Ordered
<1>1. ~upset => Ordered
  BY DEF Whole, Ordered
<1>2. ASSUME NEW p \in Callers, Call(p) PROVE Ordered'
  <2>1. ~upset
    BY <1>2 DEF Call
  <2> QED
    BY <1>1, <1>2, <2>1, CallOrdered
<1>3. ASSUME NEW p \in Callers, Read(p) PROVE Ordered'
  <2>1. ~upset
    BY <1>3 DEF Read
  <2>2. Leaves(p)
    BY <1>1, <1>3, <2>1, ReadLeaves DEF Ordered
  <2> QED
    BY <1>1, <2>1, <2>2, LeavesOrdered
<1>4. ASSUME NEW p \in Callers, Write(p) PROVE Ordered'
  <2>1. ~upset
    BY <1>4 DEF Write
  <2> QED
    BY <1>1, <1>4, <2>1, WriteOrdered
<1>5. ASSUME NEW p \in Callers, Begin(p) PROVE Ordered'
  <2>1. ~upset
    BY <1>5 DEF Begin
  <2>2. Leaves(p)
    BY <1>1, <1>5, <2>1, BeginLeaves DEF Ordered
  <2> QED
    BY <1>1, <2>1, <2>2, LeavesOrdered
<1>6. ASSUME NEW p \in Callers, Raise(p) PROVE Ordered'
  <2>1. ~upset
    BY <1>6 DEF Raise
  <2>2. Leaves(p)
    BY <1>1, <1>6, <2>1, RaiseLeaves DEF Ordered
  <2> QED
    BY <1>1, <2>1, <2>2, LeavesOrdered
<1>7. ASSUME NEW p \in Callers, CommitAll(p) PROVE Ordered'
  <2>1. ~upset
    BY <1>7 DEF CommitAll
  <2> QED
    BY <1>1, <1>7, <2>1, CommitOrdered
<1>8. ASSUME NEW p \in Callers, RollbackAll(p) PROVE Ordered'
  <2>1. ~upset
    BY <1>8 DEF RollbackAll
  <2> QED
    BY <1>1, <1>8, <2>1, RollbackOrdered
<1>9. ASSUME NEW p \in Callers, ExportNfo(p) PROVE Ordered'
  <2>1. ~upset
    BY <1>9 DEF ExportNfo
  <2>2. Leaves(p)
    BY <1>1, <1>9, <2>1, ExportLeaves DEF Ordered
  <2> QED
    BY <1>1, <2>1, <2>2, LeavesOrdered
<1>10. ASSUME NEW p \in Callers, ExportFails(p) PROVE Ordered'
  <2>1. ~upset
    BY <1>10 DEF ExportFails
  <2>2. Leaves(p)
    BY <1>1, <1>10, <2>1, ExportFailsLeaves DEF Ordered
  <2> QED
    BY <1>1, <2>1, <2>2, LeavesOrdered
<1>11. ASSUME NEW p \in Callers, Cancel(p) PROVE Ordered'
  BY <1>11 DEF Cancel
<1>12. ASSUME Crash PROVE Ordered'
  BY <1>12 DEF Crash
<1>13. ASSUME UNCHANGED vars PROVE Ordered'
  <2>1. UNCHANGED <<db, disk, nfo, todo, line, upset, untold, reverted>>
    BY <1>13 DEF vars
  <2>2. Ordered
    BY <1>1, <2>1
  <2>3. Closing' = Closing /\ Committing' = Committing /\ Ending' = Ending
    BY <2>1 DEF Closing, Committing, Ending
  <2>4. \A v : LastTells(v)' = LastTells(v)
    BY <2>1 DEF LastTells
  <2>5. \A x, q : Before(x, q)' = Before(x, q)
    BY <2>1 DEF Before
  <2>6. Owed'
    BY <2>1, <2>2, <2>3 DEF Ordered, Owed
  <2>7. Told'
    BY <2>1, <2>2, <2>3, <2>4 DEF Ordered, Told
  <2>8. FirstTold'
    BY <2>1, <2>2, <2>5 DEF Ordered, FirstTold
  <2>9. Exported'
    BY <2>1, <2>2 DEF Ordered, Exported
  <2> QED
    BY <2>1, <2>2, <2>6, <2>7, <2>8, <2>9 DEF Ordered
<1> QED
  BY <1>2, <1>3, <1>4, <1>5, <1>6, <1>7, <1>8, <1>9, <1>10, <1>11, <1>12, <1>13 DEF Next

\* When everybody has returned, nothing is left behind.
LEMMA QuietWhole ==
  ASSUME LibraryIInv, Whole
  PROVE  WholeWhenQuiet
<1> SUFFICES ASSUME line = <<>>, ~upset
             PROVE  /\ db = disk
                    /\ \A v \in Videos \ reverted : db.told[v] = db.status[v]
                    /\ \A v \in Videos \ untold : Visible(db, v) => nfo[v] = WordsOf(db, v)
  BY DEF WholeWhenQuiet, Quiet
<1>1. \A q \in Callers : todo[q] = <<>>
  BY DEF LibraryIInv, InLine
<1>2. DOMAIN line = {}
  OBVIOUS
<1>3. \A q \in Callers : \A G : ~Reaches(todo[q], 1, G)
  BY <1>1, NothingAhead
<1>4. db = disk
  BY <1>1, <1>3 DEF Whole, Owed, Committing, Ending
<1>5. ASSUME NEW v \in Videos \ reverted
      PROVE  db.told[v] = db.status[v]
  <2>1. CASE Exists(db, v)
    BY <1>2, <2>1 DEF Whole, Told, LastTells
  <2>2. CASE ~Exists(db, v)
    BY <2>2 DEF Whole, RowsKnown, Exists
  <2> QED
    BY <2>1, <2>2
<1>6. \A v \in Videos \ untold : Visible(db, v) => nfo[v] = WordsOf(db, v)
  BY <1>3 DEF Whole, Exported
<1> QED
  BY <1>4, <1>5, <1>6

\* Calls of VideoService, of the routes and of the jobs, other than those that
\* take the last tags off a video, leave nothing behind when they have returned,
\* but for the files that WholeWhenQuiet excepts, whatever the order of their
\* statements: for any number of callers, calls, videos and tags.
THEOREM WholeWhenQuietCorrect ==
  ASSUME "untag" \notin Services
  PROVE  Spec => []WholeWhenQuiet
<1>1. Init => LibraryIInv /\ Whole
  BY LibraryInit, WholeInit
<1>2. LibraryIInv /\ Whole /\ [Next]_vars => (LibraryIInv /\ Whole)'
  <2>1. LibraryIInv /\ [Next]_vars => LibraryIInv'
    BY LibraryNext
  <2>2. LibraryIInv /\ Whole /\ [Next]_vars => Whole'
    BY WholeStep
  <2> QED
    BY <2>1, <2>2
<1>3. LibraryIInv /\ Whole => WholeWhenQuiet
  BY QuietWhole
<1> QED
  BY <1>1, <1>2, <1>3, PTL DEF Spec

-----------------------------------------------------------------------------
(* ConfigManager *)

\* config.yaml holds what validation makes of it: a restart reads back what
\* was written.
FileIsProper == Coerced(yaml) = yaml

\* What updates change in place is a snapshot's object only after an undo or
\* a redo made it the live one.
LiveIsApart == \A i \in DOMAIN snaps : snaps[i] = live => live \in used

\* Until then, and until a batch fails, the manager and the rest of the server
\* share one object.
OneObject == used = {} /\ failed = << >> => live = app

ConfigIInv ==
  /\ ConfigTypeOK /\ snaps \in Seq(Nat)
  /\ CurrentSnapshotIsLive /\ UnusedSnapshotsStay /\ UnsavedIsScheduled
  /\ FileIsProper /\ LiveIsApart /\ OneObject

-----------------------------------------------------------------------------

\* Validation of a configuration gives one, and of that the same.
LEMMA CoercedTwice ==
  ASSUME NEW cfg \in Configs
  PROVE  Coerced(cfg) \in Configs /\ Coerced(Coerced(cfg)) = Coerced(cfg)
BY ConfigAssumption DEF Coerced, Configs

\* A batch of changes to a configuration gives one.
LEMMA AppliedType ==
  ASSUME ConfigTypeOK, NEW u \in Batches
  PROVE  Applied(u) \in Configs
<1>1. PICK fs \in SUBSET Fields : u \in [fs -> Values]
  BY DEF Batches
<1>2. Config \in Configs
  BY DEF ConfigTypeOK, Config
<1> QED
  BY <1>1, <1>2 DEF Applied, Configs

\* A new snapshot comes last, after what was not undone, and the list keeps to
\* its bound.
LEMMA PushLast ==
  ASSUME NEW S, NEW s \in Seq(S), index \in 0 .. Len(s), NEW x \in S,
         NEW t, t = Push(Kept(s), x)
  PROVE  /\ t \in Seq(S) /\ Len(t) \in 1 .. index + 1
         /\ Len(s) <= MaxSnapshots => Len(t) <= MaxSnapshots
         /\ Len(t) = IF index + 1 > MaxSnapshots THEN index ELSE index + 1
         /\ t[Len(t)] = x
         /\ \A k \in 1 .. Len(t) - 1 :
              t[k] = s[IF index + 1 > MaxSnapshots THEN k + 1 ELSE k]
<1> DEFINE i == index
           h == Kept(s)
           longer == Append(h, x)
<1>1. Len(s) \in Nat /\ i \in 0 .. Len(s) /\ MaxSnapshots \in Nat /\ MaxSnapshots > 0
  BY ConfigAssumption
<1>2. h \in Seq(S) /\ Len(h) = i /\ \A k \in 1 .. i : h[k] = s[k]
  BY <1>1 DEF Kept
<1> HIDE DEF h, i
<1>3. /\ longer \in Seq(S) /\ Len(longer) = i + 1 /\ longer[i + 1] = x
      /\ \A k \in 1 .. i : longer[k] = s[k]
  BY <1>2
<1> HIDE DEF longer
<1>4. /\ Tail(longer) \in Seq(S) /\ Len(Tail(longer)) = i
      /\ \A k \in 1 .. i : Tail(longer)[k] = longer[k + 1]
  BY <1>1, <1>3
<1>5. t = IF i + 1 > MaxSnapshots THEN Tail(longer) ELSE longer
  BY <1>3 DEF Push, longer, h
<1>6. CASE i + 1 > MaxSnapshots
  <2>1. t = Tail(longer) /\ i > 0
    BY <1>1, <1>5, <1>6
  <2>2. t \in Seq(S) /\ Len(t) = i /\ t[i] = x
    BY <1>1, <1>3, <1>4, <2>1
  <2>3. \A k \in 1 .. i - 1 : t[k] = s[k + 1]
    BY <1>1, <1>2, <1>3, <1>4, <2>1
  <2>4. Len(s) <= MaxSnapshots => i <= MaxSnapshots
    BY <1>1
  <2> QED
    <3>1. \A k \in 1 .. Len(t) - 1 :
            t[k] = s[IF index + 1 > MaxSnapshots THEN k + 1 ELSE k]
      BY <1>6, <2>2, <2>3 DEF i
    <3>2. /\ t \in Seq(S) /\ Len(t) \in 1 .. index + 1 /\ t[Len(t)] = x
          /\ Len(t) = IF index + 1 > MaxSnapshots THEN index ELSE index + 1
          /\ Len(s) <= MaxSnapshots => Len(t) <= MaxSnapshots
      BY <1>1, <1>6, <2>1, <2>2, <2>4 DEF i
    <3> QED
      BY <3>1, <3>2
<1>7. CASE ~(i + 1 > MaxSnapshots)
  <2>1. t = longer
    BY <1>5, <1>7
  <2>2. t \in Seq(S) /\ Len(t) = i + 1 /\ t[i + 1] = x
    BY <1>3, <2>1
  <2>3. \A k \in 1 .. i : t[k] = s[k]
    BY <1>1, <1>2, <1>3, <2>1
  <2>4. i + 1 <= MaxSnapshots
    BY <1>1, <1>7
  <2> QED
    <3>1. \A k \in 1 .. Len(t) - 1 :
            t[k] = s[IF index + 1 > MaxSnapshots THEN k + 1 ELSE k]
      BY <1>1, <1>7, <2>2, <2>3 DEF i
    <3>2. /\ t \in Seq(S) /\ Len(t) \in 1 .. index + 1 /\ t[Len(t)] = x
          /\ Len(t) = IF index + 1 > MaxSnapshots THEN index ELSE index + 1
          /\ Len(s) <= MaxSnapshots => Len(t) <= MaxSnapshots
      BY <1>1, <1>7, <2>2, <2>4 DEF i
    <3> QED
      BY <3>1, <3>2
<1> QED
  BY <1>6, <1>7

\* An element at the end of a list.
LEMMA AppendLast ==
  ASSUME NEW S, NEW s \in Seq(S), NEW x \in S, NEW t, t = Append(s, x)
  PROVE  /\ t \in Seq(S) /\ Len(t) = Len(s) + 1 /\ t[Len(s) + 1] = x
         /\ \A k \in 1 .. Len(s) : t[k] = s[k]
OBVIOUS

\* update() and update_many(): the new snapshot is a copy of what the live
\* object has become, and the live object is no other's.
LEMMA CommitKeeps ==
  ASSUME ConfigIInv, NEW cfg \in Configs, Change(cfg)
  PROVE  ConfigIInv'
<1> DEFINE n == Len(store)
           held == [store EXCEPT ![live] = cfg]
           copy == Coerced(cfg)
<1>1. /\ store \in Seq(Configs) /\ n \in Nat /\ live \in 1 .. n /\ app \in 1 .. n
      /\ snaps \in Seq(Nat) /\ Len(snaps) \in 0 .. MaxSnapshots
      /\ \A i \in 1 .. Len(snaps) : snaps[i] \in 1 .. n
      /\ index \in 0 .. Len(snaps)
      /\ taken \in Seq(Configs) /\ Len(taken) = Len(snaps) /\ used \subseteq 1 .. n
  <2>1. ConfigTypeOK /\ snaps \in Seq(Nat)
    BY DEF ConfigIInv
  <2>2. store \in Seq(Configs) /\ live \in DOMAIN store /\ app \in DOMAIN store
    BY <2>1 DEF ConfigTypeOK
  <2>3. \A i \in DOMAIN snaps : snaps[i] \in DOMAIN store
    BY <2>1 DEF ConfigTypeOK
  <2>4. DOMAIN store = 1 .. n /\ DOMAIN snaps = 1 .. Len(snaps)
    BY <2>1, <2>2
  <2>5. /\ Len(snaps) \in 0 .. MaxSnapshots /\ index \in 0 .. Len(snaps)
        /\ taken \in Seq(Configs) /\ Len(taken) = Len(snaps) /\ used \subseteq DOMAIN store
    BY <2>1 DEF ConfigTypeOK
  <2>6. n \in Nat
    BY <2>2
  <2> HIDE DEF n
  <2> QED
    BY <2>1, <2>2, <2>3, <2>4, <2>5, <2>6
<1>2. copy \in Configs /\ Coerced(copy) = copy
  BY CoercedTwice
<1>3. /\ store' = Append(held, copy) /\ saving' = "pending"
      /\ snaps' = Push(Kept(snaps), n + 1)
      /\ taken' = Push(Kept(taken), copy)
      /\ index' = Len(snaps') /\ UNCHANGED <<live, app, yaml, used, failed>>
  BY DEF Change, ScheduleSave, SnapshotOf
<1> HIDE DEF copy
<1>4. held \in Seq(Configs) /\ Len(held) = n /\ held[live] = cfg
  BY <1>1
<1> HIDE DEF held, n
<1>5. /\ store' \in Seq(Configs) /\ Len(store') = n + 1
      /\ store'[n + 1] = copy /\ store'[live] = cfg
      /\ \A k \in 1 .. n : k # live => store'[k] = store[k]
  <2>1. store' = Append(held, copy)
    BY <1>3
  <2>2. /\ store' \in Seq(Configs) /\ Len(store') = Len(held) + 1
        /\ store'[Len(held) + 1] = copy /\ \A k \in 1 .. Len(held) : store'[k] = held[k]
    BY <1>2, <1>4, <2>1, AppendLast
  <2>3. \A k \in 1 .. n : k # live => held[k] = store[k]
    BY <1>1 DEF held
  <2> QED
    BY <1>1, <1>4, <2>2, <2>3
<1>6. MaxSnapshots \in Nat /\ n + 1 \in Nat
  BY <1>1, ConfigAssumption
<1>7. /\ snaps' \in Seq(Nat) /\ Len(snaps') \in 1 .. index + 1 /\ Len(snaps') <= MaxSnapshots
      /\ Len(snaps') = IF index + 1 > MaxSnapshots THEN index ELSE index + 1
      /\ snaps'[Len(snaps')] = n + 1
      /\ \A k \in 1 .. Len(snaps') - 1 :
           snaps'[k] = snaps[IF index + 1 > MaxSnapshots THEN k + 1 ELSE k]
  <2>1. snaps \in Seq(Nat) /\ index \in 0 .. Len(snaps) /\ n + 1 \in Nat
    BY <1>1, <1>6
  <2>2. snaps' = Push(Kept(snaps), n + 1) /\ Len(snaps) <= MaxSnapshots
    BY <1>1, <1>3, <1>6
  <2> DEFINE S == Nat
             x == n + 1
  <2>3. x \in S
    BY <2>1
  <2>4. snaps \in Seq(S)
    BY <2>1
  <2>5. snaps' = Push(Kept(snaps), x)
    BY <2>2
  <2> HIDE DEF S, x
  <2>6. index \in 0 .. Len(snaps)
    BY <2>1
  <2>7. /\ snaps' \in Seq(S) /\ Len(snaps') \in 1 .. index + 1
        /\ Len(snaps) <= MaxSnapshots => Len(snaps') <= MaxSnapshots
        /\ Len(snaps') = IF index + 1 > MaxSnapshots THEN index ELSE index + 1
        /\ snaps'[Len(snaps')] = x
        /\ \A k \in 1 .. Len(snaps') - 1 :
             snaps'[k] = snaps[IF index + 1 > MaxSnapshots THEN k + 1 ELSE k]
    BY <2>3, <2>4, <2>5, <2>6, PushLast
  <2> QED
    BY <2>2, <2>7, Zenon DEF S, x
<1>8. /\ taken' \in Seq(Configs)
      /\ Len(taken') = IF index + 1 > MaxSnapshots THEN index ELSE index + 1
      /\ taken'[Len(taken')] = copy
      /\ \A k \in 1 .. Len(taken') - 1 :
           taken'[k] = taken[IF index + 1 > MaxSnapshots THEN k + 1 ELSE k]
  <2>1. taken \in Seq(Configs) /\ index \in 0 .. Len(taken)
    BY <1>1
  <2>2. taken' = Push(Kept(taken), copy)
    BY <1>3
  <2> DEFINE S == Configs
             x == copy
  <2>3. x \in S
    BY <1>2
  <2>5. taken \in Seq(S)
    BY <2>1
  <2>6. taken' = Push(Kept(taken), x)
    BY <2>2
  <2> HIDE DEF S, x
  <2>7. index \in 0 .. Len(taken)
    BY <2>1
  <2>4. /\ taken' \in Seq(S) /\ Len(taken') \in 1 .. index + 1
        /\ Len(taken) <= MaxSnapshots => Len(taken') <= MaxSnapshots
        /\ Len(taken') = IF index + 1 > MaxSnapshots THEN index ELSE index + 1
        /\ taken'[Len(taken')] = x
        /\ \A k \in 1 .. Len(taken') - 1 :
             taken'[k] = taken[IF index + 1 > MaxSnapshots THEN k + 1 ELSE k]
    BY <2>3, <2>5, <2>6, <2>7, PushLast
  <2> QED
    BY <2>4, Zenon DEF S, x
<1>9. ASSUME NEW k \in 1 .. Len(snaps')
      PROVE  snaps'[k] \in 1 .. n + 1
  <2> DEFINE S == 1 .. n + 1
             x == n + 1
  <2>1. x \in S
    BY <1>1
  <2>2. \A j \in 1 .. Len(snaps) : snaps[j] \in S
    BY <1>1
  <2> HIDE DEF S, x
  <2>3. snaps \in Seq(S)
    <3>1. snaps \in Seq(Nat)
      BY <1>1
    <3>2. snaps = [j \in 1..Len(snaps) |-> snaps[j]] /\ Len(snaps) \in Nat
      BY <3>1
    <3>3. [j \in 1..Len(snaps) |-> snaps[j]] \in Seq(S)
      BY <2>2, <3>2
    <3> QED
      BY <3>2, <3>3
  <2>4. snaps' = Push(Kept(snaps), x)
    BY <1>3 DEF x
  <2>5. index \in 0 .. Len(snaps)
    BY <1>1
  <2>6. snaps' \in Seq(S)
    BY <2>1, <2>3, <2>4, <2>5, PushLast
  <2>7. snaps'[k] \in S
    BY <2>6
  <2> QED
    BY <2>7 DEF S
<1>10. ConfigTypeOK'
  <2>1. live' \in DOMAIN store' /\ app' \in DOMAIN store'
    BY <1>1, <1>3, <1>5
  <2>2. \A k \in DOMAIN snaps' : snaps'[k] \in DOMAIN store'
    <3>1. DOMAIN snaps' = 1 .. Len(snaps') /\ DOMAIN store' = 1 .. n + 1
      <4>1. snaps' \in Seq(Nat) /\ store' \in Seq(Configs) /\ Len(store') = n + 1
        BY <1>5, <1>7
      <4> QED
        BY <4>1
    <3> QED
      BY <1>9, <3>1
  <2>3. Len(snaps') \in 0 .. MaxSnapshots /\ index' \in 0 .. Len(snaps') /\ index' # 0
    BY <1>1, <1>3, <1>6, <1>7
  <2>4. /\ yaml' \in Configs /\ saving' \in {"none", "pending", "failed"}
        /\ failed' \in Seq({"refused", "broken"})
    BY <1>3 DEF ConfigIInv, ConfigTypeOK
  <2>5. used' \subseteq DOMAIN store'
    BY <1>1, <1>3, <1>5
  <2> QED
    BY <1>5, <1>7, <1>8, <2>1, <2>2, <2>3, <2>4, <2>5 DEF ConfigTypeOK
<1>11. CurrentSnapshotIsLive'
  <2>1. store'[snaps'[index']] = copy /\ Coerced(store'[live']) = copy
    BY <1>3, <1>5, <1>7 DEF copy
  <2>2. used' = {} /\ failed' = << >> => live' = app'
    BY <1>3 DEF ConfigIInv, OneObject
  <2> QED
    BY <1>2, <2>1, <2>2 DEF CurrentSnapshotIsLive, Alike
<1>12. UnusedSnapshotsStay' /\ LiveIsApart'
  <2>1. ASSUME NEW k \in DOMAIN snaps'
        PROVE  /\ snaps'[k] \notin used' => store'[snaps'[k]] = taken'[k]
               /\ snaps'[k] = live' => live' \in used'
    <3>1. k \in 1 .. Len(snaps') /\ Len(snaps') = Len(taken')
      BY <1>7, <1>8
    <3>2. CASE k = Len(snaps')
      <4>1. snaps'[k] = n + 1 /\ taken'[k] = copy /\ store'[n + 1] = copy
        <5>1. snaps'[Len(snaps')] = n + 1 /\ taken'[Len(taken')] = copy /\ store'[n + 1] = copy
          BY <1>5, <1>7, <1>8
        <5> QED
          BY <3>1, <3>2, <5>1
      <4>2. live' # n + 1
        <5>1. live' = live /\ live \in 1 .. n /\ n \in Nat
          BY <1>1, <1>3
        <5> QED
          BY <5>1
      <4> QED
        BY <4>1, <4>2
    <3>3. CASE k # Len(snaps')
      <4> DEFINE j == IF index + 1 > MaxSnapshots THEN k + 1 ELSE k
      <4>1. k \in 1 .. Len(snaps') - 1
        BY <1>7, <3>1, <3>3
      <4>2. j \in DOMAIN snaps
        <5>1. /\ Len(snaps') = IF index + 1 > MaxSnapshots THEN index ELSE index + 1
              /\ index \in 0 .. Len(snaps) /\ Len(snaps) \in Nat
              /\ DOMAIN snaps = 1 .. Len(snaps)
          BY <1>1, <1>7
        <5>2. k \in Nat /\ k >= 1 /\ k + 1 <= Len(snaps') /\ Len(snaps') \in Nat
          <6>1. Len(snaps') \in Nat
            <7>1. snaps' \in Seq(Nat)
              BY <1>7
            <7> QED
              BY <7>1
          <6> QED
            BY <4>1, <6>1
        <5>3. j \in 1 .. Len(snaps)
          BY <1>6, <5>1, <5>2
        <5> QED
          BY <5>1, <5>3
      <4>3. snaps'[k] = snaps[j] /\ taken'[k] = taken[j]
        BY <1>7, <1>8, <3>1, <4>1
      <4> HIDE DEF j
      <4>4. /\ snaps[j] \notin used => store[snaps[j]] = taken[j]
            /\ snaps[j] = live => live \in used
        BY <4>2 DEF ConfigIInv, UnusedSnapshotsStay, LiveIsApart
      <4>5. snaps[j] \in 1 .. n
        BY <1>1, <4>2
      <4>6. snaps[j] # live => store'[snaps[j]] = store[snaps[j]]
        BY <1>5, <4>5
      <4> QED
        BY <1>3, <4>3, <4>4, <4>6
    <3> QED
      BY <3>2, <3>3
  <2> QED
    BY <2>1 DEF UnusedSnapshotsStay, LiveIsApart
<1>13. UnsavedIsScheduled' /\ OneObject'
  BY <1>3 DEF ConfigIInv, UnsavedIsScheduled, OneObject
<1>14. FileIsProper'
  BY <1>3 DEF ConfigIInv, FileIsProper, Coerced
<1> QED
  BY <1>7, <1>10, <1>11, <1>12, <1>13, <1>14 DEF ConfigIInv

\* update_many() that fails, with the value of the live object for cfg: only
\* what failed batches are excused from is disturbed.
LEMMA RefuseKeeps ==
  ASSUME ConfigIInv, NEW u \in Batches, RefuseMany(u)
  PROVE  ConfigIInv'
<1> DEFINE n == Len(store)
           held == [store EXCEPT ![live] = Applied(u)]
           copy == Coerced(Config)
<1>1. /\ store \in Seq(Configs) /\ n \in Nat /\ live \in 1 .. n /\ app \in 1 .. n
      /\ \A i \in DOMAIN snaps : snaps[i] \in 1 .. n
      /\ Config \in Configs /\ used \subseteq 1 .. n
  <2>1. ConfigTypeOK
    BY DEF ConfigIInv
  <2>2. /\ store \in Seq(Configs) /\ live \in DOMAIN store /\ app \in DOMAIN store
        /\ \A i \in DOMAIN snaps : snaps[i] \in DOMAIN store
        /\ used \subseteq DOMAIN store
    BY <2>1 DEF ConfigTypeOK
  <2>3. DOMAIN store = 1 .. n /\ n \in Nat
    BY <2>2
  <2> HIDE DEF n
  <2>4. Config \in Configs
    BY <2>2 DEF Config
  <2> QED
    BY <2>2, <2>3, <2>4
<1>2. copy \in Configs /\ Coerced(copy) = copy /\ Applied(u) \in Configs
  BY <1>1, CoercedTwice, AppliedType DEF ConfigIInv
<1>3. /\ store' = Append(held, copy) /\ live' = Len(store')
      /\ failed' = Append(failed, "refused")
      /\ UNCHANGED <<app, snaps, index, saving, yaml, taken, used>>
  BY DEF RefuseMany
<1> HIDE DEF copy
<1>4. held \in Seq(Configs) /\ Len(held) = n /\ \A k \in 1 .. n : k # live => held[k] = store[k]
  BY <1>1, <1>2
<1> HIDE DEF held, n
<1>5. /\ store' \in Seq(Configs) /\ Len(store') = n + 1 /\ live' = n + 1 /\ store'[live'] = copy
      /\ \A k \in 1 .. n : k # live => store'[k] = store[k]
  <2>1. /\ store' \in Seq(Configs) /\ Len(store') = Len(held) + 1
        /\ store'[Len(held) + 1] = copy /\ \A k \in 1 .. Len(held) : store'[k] = held[k]
    BY <1>2, <1>3, <1>4, AppendLast
  <2> QED
    BY <1>1, <1>3, <1>4, <2>1
<1>6. failed \in Seq({"refused", "broken"})
  BY DEF ConfigIInv, ConfigTypeOK
<1>7. /\ failed' \in Seq({"refused", "broken"}) /\ Len(failed') = Len(failed) + 1 /\ failed' # << >>
      /\ \A k \in DOMAIN failed : k \in DOMAIN failed' /\ failed'[k] = failed[k]
  BY <1>3, <1>6
<1>8. ConfigTypeOK'
  <2>1. live' \in DOMAIN store' /\ app' \in DOMAIN store'
    BY <1>1, <1>3, <1>5
  <2>2. \A k \in DOMAIN snaps' : snaps'[k] \in DOMAIN store'
    BY <1>1, <1>3, <1>5
  <2>3. used' \subseteq DOMAIN store'
    BY <1>1, <1>3, <1>5
  <2> QED
    BY <1>3, <1>5, <1>7, <2>1, <2>2, <2>3 DEF ConfigIInv, ConfigTypeOK
<1>9. CurrentSnapshotIsLive' /\ OneObject'
  BY <1>7 DEF CurrentSnapshotIsLive, OneObject
<1>10. UnsavedIsScheduled'
  <2>1. "broken" \in Range(failed) => "broken" \in Range(failed')
    BY <1>7 DEF Range
  <2>2. SUFFICES ASSUME "broken" \notin Range(failed), saving = "none", NEW f \in Fields,
                        store'[live'][f] # Default
                 PROVE  yaml[f] = Coerce[store'[live'][f]]
    BY <1>3, <2>1 DEF UnsavedIsScheduled, Config
  <2>3. store'[live'][f] = Coerce[Config[f]] /\ Config[f] \in Values
    BY <1>1, <1>5 DEF copy, Coerced, Configs
  <2>4. Config[f] # Default
    BY <2>2, <2>3, ConfigAssumption
  <2>5. yaml[f] = Coerce[Config[f]]
    BY <2>2, <2>4 DEF ConfigIInv, UnsavedIsScheduled
  <2> QED
    BY <2>3, <2>5, ConfigAssumption
<1>11. FileIsProper' /\ snaps' \in Seq(Nat)
  BY <1>3 DEF ConfigIInv, FileIsProper, Coerced
<1>12. UnusedSnapshotsStay' /\ LiveIsApart'
  <2>1. ASSUME NEW k \in DOMAIN snaps'
        PROVE  /\ snaps'[k] \notin used' => store'[snaps'[k]] = taken'[k]
               /\ snaps'[k] # live'
    <3>1. k \in DOMAIN snaps /\ snaps'[k] = snaps[k] /\ snaps[k] \in 1 .. n
      BY <1>1, <1>3
    <3>2. /\ snaps[k] \notin used => store[snaps[k]] = taken[k]
          /\ snaps[k] = live => live \in used
      BY <3>1 DEF ConfigIInv, UnusedSnapshotsStay, LiveIsApart
    <3>3. snaps[k] # live => store'[snaps[k]] = store[snaps[k]]
      BY <1>5, <3>1
    <3>4. snaps[k] # live'
      BY <1>1, <1>5, <3>1
    <3> QED
      BY <1>3, <3>1, <3>2, <3>3, <3>4
  <2> QED
    BY <2>1 DEF UnusedSnapshotsStay, LiveIsApart
<1> QED
  BY <1>8, <1>9, <1>10, <1>11, <1>12 DEF ConfigIInv

\* update_many() that breaks off.
LEMMA BreakKeeps ==
  ASSUME ConfigIInv, NEW u \in Batches, BreakMany(u)
  PROVE  ConfigIInv'
<1>1. /\ store \in Seq(Configs) /\ live \in 1 .. Len(store)
      /\ failed \in Seq({"refused", "broken"})
  BY DEF ConfigIInv, ConfigTypeOK
<1>2. Applied(u) \in Configs
  BY AppliedType DEF ConfigIInv
<1>3. /\ store' = [store EXCEPT ![live] = Applied(u)] /\ failed' = Append(failed, "broken")
      /\ UNCHANGED <<live, app, snaps, index, saving, yaml, taken, used>>
  BY DEF BreakMany
<1>4. /\ store' \in Seq(Configs) /\ DOMAIN store' = DOMAIN store
      /\ \A k \in DOMAIN store : k # live => store'[k] = store[k]
  BY <1>1, <1>2, <1>3
<1>5. /\ failed' \in Seq({"refused", "broken"})
      /\ Len(failed') = Len(failed) + 1 /\ failed'[Len(failed')] = "broken"
  BY <1>1, <1>3
<1>6. "broken" \in Range(failed') /\ failed' # << >>
  BY <1>1, <1>5 DEF Range
<1>7. ConfigTypeOK'
  BY <1>3, <1>4, <1>5 DEF ConfigIInv, ConfigTypeOK
<1>8. LiveIsApart'
  BY <1>3 DEF ConfigIInv, LiveIsApart
<1>9. UnusedSnapshotsStay'
  <2>1. ASSUME NEW k \in DOMAIN snaps, snaps[k] \notin used
        PROVE  store'[snaps[k]] = taken[k]
    <3>1. snaps[k] # live /\ store[snaps[k]] = taken[k] /\ snaps[k] \in DOMAIN store
      BY <2>1 DEF ConfigIInv, ConfigTypeOK, UnusedSnapshotsStay, LiveIsApart
    <3> QED
      BY <1>4, <3>1
  <2> QED
    BY <1>3, <2>1 DEF UnusedSnapshotsStay
<1>10. CurrentSnapshotIsLive' /\ UnsavedIsScheduled' /\ OneObject'
  BY <1>6 DEF CurrentSnapshotIsLive, UnsavedIsScheduled, OneObject
<1> QED
  BY <1>3, <1>7, <1>8, <1>9, <1>10 DEF ConfigIInv, FileIsProper, Coerced

\* undo() and redo(): what the manager shows is the snapshot.
LEMMA RestoreKeeps ==
  ASSUME ConfigIInv, NEW i \in 1 .. Len(snaps), Restore(i)
  PROVE  ConfigIInv'
<1>1. /\ index' = i /\ live' = snaps[i] /\ saving' = "pending" /\ used' = used \cup {snaps[i]}
      /\ UNCHANGED <<store, app, snaps, yaml, taken, failed>>
  BY DEF Restore, ScheduleSave
<1>2. snaps \in Seq(Nat) /\ \A k \in DOMAIN snaps : snaps[k] \in DOMAIN store
  BY DEF ConfigIInv, ConfigTypeOK
<1>3. live' \in DOMAIN store /\ live' \in used'
  BY <1>1, <1>2
<1>4. ConfigTypeOK'
  <2>1. used' \subseteq DOMAIN store
    BY <1>1, <1>3 DEF ConfigIInv, ConfigTypeOK
  <2> QED
    BY <1>1, <1>2, <1>3, <2>1 DEF ConfigIInv, ConfigTypeOK
<1>5. CurrentSnapshotIsLive' /\ OneObject' /\ UnsavedIsScheduled'
  BY <1>1, <1>3 DEF CurrentSnapshotIsLive, Alike, OneObject, UnsavedIsScheduled
<1>6. LiveIsApart' /\ UnusedSnapshotsStay'
  BY <1>1, <1>3 DEF ConfigIInv, LiveIsApart, UnusedSnapshotsStay
<1> QED
  BY <1>1, <1>4, <1>5, <1>6 DEF ConfigIInv, FileIsProper, Coerced

\* A new process runs with what is in the file.
LEMMA RestartKeeps ==
  ASSUME ConfigIInv, Restart
  PROVE  ConfigIInv'
<1>1. /\ store' = <<yaml>> /\ live' = 1 /\ app' = 1
      /\ snaps' = << >> /\ taken' = << >> /\ index' = 0
      /\ saving' = "none" /\ used' = {} /\ failed' = << >> /\ yaml' = yaml
  BY DEF Restart
<1>2. yaml \in Configs /\ Coerced(yaml) = yaml
  BY DEF ConfigIInv, ConfigTypeOK, FileIsProper
<1>3. store' \in Seq(Configs) /\ DOMAIN store' = {1} /\ store'[1] = yaml
  BY <1>1, <1>2
<1>4. ConfigTypeOK'
  <2>1. Len(snaps') = 0 /\ DOMAIN snaps' = {} /\ Len(taken') = 0
    BY <1>1
  <2>2. taken' \in Seq(Configs) /\ failed' \in Seq({"refused", "broken"})
    BY <1>1
  <2>3. MaxSnapshots \in Nat /\ 0 \in 0 .. MaxSnapshots /\ 0 \in 0 .. 0
    BY ConfigAssumption
  <2>4. live' \in DOMAIN store' /\ app' \in DOMAIN store' /\ saving' = "none" /\ yaml' \in Configs
    BY <1>1, <1>2, <1>3
  <2> QED
    BY <1>1, <1>3, <2>1, <2>2, <2>3, <2>4 DEF ConfigTypeOK
<1>5. CurrentSnapshotIsLive' /\ OneObject'
  BY <1>1 DEF CurrentSnapshotIsLive, OneObject
<1>6. UnsavedIsScheduled'
  <2>1. \A f \in Fields : yaml[f] = Coerce[yaml[f]]
    BY <1>2 DEF Coerced, Configs
  <2> QED
    BY <1>1, <1>3, <2>1 DEF UnsavedIsScheduled, Config
<1>7. LiveIsApart' /\ UnusedSnapshotsStay'
  <2>1. DOMAIN snaps' = {}
    BY <1>1
  <2> QED
    BY <2>1 DEF LiveIsApart, UnusedSnapshotsStay
<1> QED
  BY <1>1, <1>2, <1>4, <1>5, <1>6, <1>7 DEF ConfigIInv, FileIsProper, Coerced

\* The save writes what the manager shows, and leaves what the file says of
\* the fields that have their defaults.
LEMMA SaveKeeps ==
  ASSUME ConfigIInv, Save
  PROVE  ConfigIInv'
<1>1. /\ yaml' = Merged(Config) /\ saving' = "none"
      /\ UNCHANGED <<store, live, app, snaps, index, taken, used, failed>>
  BY DEF Save
<1>2. Config \in Configs /\ yaml \in Configs /\ Coerced(yaml) = yaml
  BY DEF ConfigIInv, ConfigTypeOK, FileIsProper, Config
<1>3. yaml' \in Configs /\ Coerced(yaml') = yaml'
  <2>1. \A f \in Fields : /\ yaml'[f] = IF Config[f] = Default THEN yaml[f] ELSE Coerce[Config[f]]
                          /\ Config[f] \in Values /\ yaml[f] \in Values /\ Coerce[yaml[f]] = yaml[f]
    BY <1>1, <1>2 DEF Merged, Configs, Coerced
  <2>2. \A f \in Fields : yaml'[f] \in Values /\ Coerce[yaml'[f]] = yaml'[f]
    BY <2>1, ConfigAssumption
  <2>3. yaml' = [f \in Fields |-> yaml'[f]]
    BY <1>1 DEF Merged
  <2> QED
    BY <2>2, <2>3 DEF Configs, Coerced
<1>4. ConfigTypeOK' /\ snaps' \in Seq(Nat)
  BY <1>1, <1>3 DEF ConfigIInv, ConfigTypeOK
<1>5. UnsavedIsScheduled'
  BY <1>1 DEF UnsavedIsScheduled, Config, Merged
<1>6. CurrentSnapshotIsLive' /\ OneObject' /\ LiveIsApart' /\ UnusedSnapshotsStay'
  BY <1>1 DEF ConfigIInv, CurrentSnapshotIsLive, Alike, Coerced, OneObject, LiveIsApart, UnusedSnapshotsStay
<1> QED
  BY <1>3, <1>4, <1>5, <1>6 DEF ConfigIInv, FileIsProper, Coerced

\* A save that fails is on record in the task that ended with it.
LEMMA FailSaveKeeps ==
  ASSUME ConfigIInv, FailSave
  PROVE  ConfigIInv'
<1>1. /\ saving' = "failed"
      /\ UNCHANGED <<store, live, app, snaps, index, yaml, taken, used, failed>>
  BY DEF FailSave
<1>2. ConfigTypeOK' /\ snaps' \in Seq(Nat) /\ FileIsProper' /\ UnsavedIsScheduled'
  BY <1>1 DEF ConfigIInv, ConfigTypeOK, FileIsProper, Coerced, UnsavedIsScheduled
<1>3. CurrentSnapshotIsLive' /\ OneObject' /\ LiveIsApart' /\ UnusedSnapshotsStay'
  BY <1>1 DEF ConfigIInv, CurrentSnapshotIsLive, Alike, Coerced, OneObject, LiveIsApart, UnusedSnapshotsStay
<1> QED
  BY <1>2, <1>3 DEF ConfigIInv

\* The first process starts with the defaults, which validation accepts.
LEMMA ConfigIInvInit == ConfigInit => ConfigIInv
<1> SUFFICES ASSUME ConfigInit PROVE ConfigIInv
  OBVIOUS
<1>1. /\ yaml = [f \in Fields |-> Default] /\ store = <<yaml>> /\ live = 1 /\ app = 1
      /\ snaps = << >> /\ taken = << >> /\ index = 0 /\ saving = "none"
      /\ used = {} /\ failed = << >>
  BY DEF ConfigInit
<1>2. yaml \in Configs /\ Coerced(yaml) = yaml
  BY <1>1, ConfigAssumption DEF Coerced, Configs
<1>3. store \in Seq(Configs) /\ DOMAIN store = {1} /\ store[1] = yaml
  BY <1>1, <1>2
<1>4. ConfigTypeOK
  <2>1. Len(snaps) = 0 /\ DOMAIN snaps = {} /\ Len(taken) = 0
    BY <1>1
  <2>2. taken \in Seq(Configs) /\ failed \in Seq({"refused", "broken"})
    BY <1>1
  <2>3. MaxSnapshots \in Nat /\ 0 \in 0 .. MaxSnapshots /\ 0 \in 0 .. 0
    BY ConfigAssumption
  <2>4. live \in DOMAIN store /\ app \in DOMAIN store /\ saving = "none" /\ yaml \in Configs
    BY <1>1, <1>2, <1>3
  <2> QED
    BY <1>1, <1>3, <2>1, <2>2, <2>3, <2>4 DEF ConfigTypeOK
<1>5. CurrentSnapshotIsLive /\ OneObject
  BY <1>1 DEF CurrentSnapshotIsLive, OneObject
<1>6. UnsavedIsScheduled
  BY <1>1, <1>3 DEF UnsavedIsScheduled, Config
<1>7. LiveIsApart /\ UnusedSnapshotsStay
  <2>1. DOMAIN snaps = {}
    BY <1>1
  <2> QED
    BY <2>1 DEF LiveIsApart, UnusedSnapshotsStay
<1> QED
  BY <1>1, <1>2, <1>4, <1>5, <1>6, <1>7 DEF ConfigIInv, FileIsProper

\* Every step keeps the invariant.
LEMMA ConfigIInvStep == ConfigIInv /\ [ConfigNext]_configVars => ConfigIInv'
<1> SUFFICES ASSUME ConfigIInv, [ConfigNext]_configVars PROVE ConfigIInv'
  OBVIOUS
<1>1. ASSUME NEW f \in Fields, NEW v \in Values, Update(f, v)
      PROVE  ConfigIInv'
  <2>1. Config \in Configs
    BY DEF ConfigIInv, ConfigTypeOK, Config
  <2>2. [Config EXCEPT ![f] = v] \in Configs
    BY <2>1 DEF Configs
  <2>3. Change([Config EXCEPT ![f] = v])
    BY <1>1 DEF Update
  <2> QED
    BY <2>2, <2>3, CommitKeeps
<1>2. ASSUME NEW u \in Batches, UpdateMany(u)
      PROVE  ConfigIInv'
  <2>1. Applied(u) \in Configs
    BY AppliedType DEF ConfigIInv
  <2>2. Change(Applied(u))
    BY <1>2 DEF UpdateMany
  <2> QED
    BY <2>1, <2>2, CommitKeeps
<1>3. ASSUME NEW u \in Batches, RefuseMany(u)
      PROVE  ConfigIInv'
  BY <1>3, RefuseKeeps
<1>4. ASSUME NEW u \in Batches, BreakMany(u)
      PROVE  ConfigIInv'
  BY <1>4, BreakKeeps
<1>5. ASSUME NEW steps \in 1 .. MaxSnapshots, Undo(steps)
      PROVE  ConfigIInv'
  <2>1. index - steps \in 1 .. Len(snaps) /\ Restore(index - steps)
    BY <1>5 DEF Undo
  <2> QED
    BY <2>1, RestoreKeeps
<1>6. ASSUME NEW steps \in 1 .. MaxSnapshots, Redo(steps)
      PROVE  ConfigIInv'
  <2>1. index + steps \in 1 .. Len(snaps) /\ Restore(index + steps)
    BY <1>6 DEF Redo
  <2> QED
    BY <2>1, RestoreKeeps
<1>7. CASE Save
  BY <1>7, SaveKeeps
<1>8. CASE Restart
  BY <1>8, RestartKeeps
<1>9. CASE UNCHANGED configVars
  BY <1>9 DEF configVars, ConfigIInv, ConfigTypeOK, CurrentSnapshotIsLive, Alike, UnsavedIsScheduled, FileIsProper,
              Config, Coerced, OneObject, LiveIsApart, UnusedSnapshotsStay
<1>10. CASE FailSave
  BY <1>10, FailSaveKeeps
<1> QED
  BY <1>1, <1>2, <1>3, <1>4, <1>5, <1>6, <1>7, <1>8, <1>9, <1>10 DEF ConfigNext

\* The inductive invariant holds in every state.
LEMMA ConfigIInvCorrect == ConfigSpec => []ConfigIInv
BY ConfigIInvInit, ConfigIInvStep, PTL DEF ConfigSpec

-----------------------------------------------------------------------------

\* The history is in order (common/config_manager.py, save_snapshot, undo and
\* redo; fuzzbin.get_config): its position is one of its bounded list, a
\* snapshot not yet restored holds what was recorded, and while no batch has
\* failed the current one is what the manager shows, and what the rest of the
\* server runs with until the first undo or redo.
THEOREM ConfigInvCorrect == ConfigSpec => []ConfigInv
<1>1. ConfigIInv => ConfigInv
  <2>1. ASSUME ConfigIInv PROVE ServerFollows
    BY <2>1 DEF ConfigIInv, OneObject, ServerFollows, Alike
  <2> QED
    BY <2>1 DEF ConfigIInv, ConfigInv
<1> QED
  BY <1>1, ConfigIInvCorrect, PTL

\* Every value the manager shows, other than a default, is in config.yaml,
\* about to be saved, or the last save failed (_schedule_save,
\* save_after_delay, to_yaml), also after refused batches and across restarts,
\* unless a batch broke off half-way.
THEOREM UnsavedIsScheduledCorrect == ConfigSpec => []UnsavedIsScheduled
<1>1. ConfigIInv => UnsavedIsScheduled
  BY DEF ConfigIInv
<1> QED
  BY <1>1, ConfigIInvCorrect, PTL
=============================================================================
