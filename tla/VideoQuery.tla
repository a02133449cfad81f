----------------------------- MODULE VideoQuery -----------------------------
(***************************************************************************)
(* Queries on the videos table (fuzzbin/core/db/query.py, the filters of   *)
(* web/schemas/video.py and the facets of core/db/repository.py).          *)
(*                                                                         *)
(* A row is a function on Columns; the tags and collections of a video are *)
(* columns that hold a set.  A query object is a record, its conditions a  *)
(* set of clauses: they are joined by AND, their order means nothing, and  *)
(* a clause that is there twice (count() and execute() of one object both  *)
(* insert the full-text condition) is there once.                          *)
(***************************************************************************)
EXTENDS Naturals, FiniteSets, Sequences, SequencesExt

CONSTANTS
  Like,    \* <<pattern, text>>: the text contains the pattern, in any case
  Match,   \* <<search, text>>: the full-text search finds the text
  NULL

TextColumns == {"title", "artist", "album", "director", "genre"}
ExactColumns == {"year", "status", "imvdb_video_id", "youtube_id"}
LinkColumns == {"tags", "collections"}
Columns == TextColumns \cup ExactColumns \cup LinkColumns \cup {"file"}

\* What a column holds that has no value.
Missing(c) == IF c \in LinkColumns THEN {} ELSE NULL
Blank == [c \in Columns |-> Missing(c)]

-----------------------------------------------------------------------------
(* The builder *)

NewQuery == [where |-> {}, fts |-> NULL, deleted |-> FALSE, desc |-> FALSE,
             limit |-> NULL, offset |-> 0]

Clause(kind, column, values, missing) ==
  [kind |-> kind, column |-> column, values |-> values, missing |-> missing]

Where(q, clause) == [q EXCEPT !.where = @ \cup {clause}]

\* where_title(), where_artist(), where_album(), where_director()
WhereText(q, column, pattern) == Where(q, Clause("like", column, {pattern}, FALSE))

\* A list of values, and whether rows without one are wanted too.
WhereAny(q, kind, column, values, missing) ==
  IF values = {} /\ ~missing THEN q ELSE Where(q, Clause(kind, column, values, missing))

WhereTextAny(q, column, patterns, missing) == WhereAny(q, "like", column, patterns, missing)
WhereYearAny(q, years, missing) == WhereAny(q, "in", "year", years, missing)
WhereYearRange(q, first, last) == Where(q, Clause("in", "year", first..last, FALSE))

\* where_status(), where_imvdb_id(), where_youtube_id(), where_year()
WhereIs(q, column, value) == Where(q, Clause("in", column, {value}, FALSE))

WhereTagAny(q, patterns, missing) == WhereAny(q, "linked like", "tags", patterns, missing)
WhereCollection(q, pattern) == Where(q, Clause("linked like", "collections", {pattern}, FALSE))
WhereTagId(q, id) == Where(q, Clause("linked", "tags", {id}, FALSE))
WhereCollectionId(q, id) == Where(q, Clause("linked", "collections", {id}, FALSE))

\* where_tag_missing(), where_genre_missing(), where_director_missing(), where_year_missing()
WhereMissing(q, column) == Where(q, Clause("in", column, {}, TRUE))

Search(q, words) == [q EXCEPT !.fts = words]
IncludeDeleted(q) == [q EXCEPT !.deleted = TRUE]
\* created_at grows with the id; other columns leave ties in no order.
OrderBy(q, desc) == [q EXCEPT !.desc = desc]
Paged(q, limit, offset) == [q EXCEPT !.limit = limit, !.offset = offset]

-----------------------------------------------------------------------------
(* What the SQL text selects *)

Holds(row, clause) ==
  LET x == row[clause.column] IN
  \/ clause.missing /\ x = Missing(clause.column)
  \/ clause.kind = "like" /\ \E p \in clause.values : <<p, x>> \in Like
  \/ clause.kind = "in" /\ x \in clause.values
  \/ clause.kind = "linked" /\ x \cap clause.values # {}
  \/ clause.kind = "linked like" /\ \E p \in clause.values, t \in x : <<p, t>> \in Like
  \/ /\ clause.kind = "match"
     /\ \E w \in clause.values :
          \/ \E c \in TextColumns : <<w, row[c]>> \in Match
          \/ \E t \in row["tags"] : <<w, t>> \in Match

\* _build_query() turns the search into one more condition of the object.
Build(q) ==
  IF q.fts = NULL THEN q ELSE Where(q, Clause("match", "title", {q.fts}, FALSE))

Selected(rows, hidden, q) ==
  {v \in DOMAIN rows \ (IF q.deleted THEN {} ELSE hidden) :
     \A clause \in Build(q).where : Holds(rows[v], clause)}

Count(rows, hidden, q) == Cardinality(Selected(rows, hidden, q))

Window(all, q) ==
  SubSeq(all, q.offset + 1,
         IF q.limit = NULL \/ q.offset + q.limit > Len(all) THEN Len(all)
         ELSE q.offset + q.limit)

Ahead(w, v, desc) == IF desc THEN w > v ELSE w < v
Place(chosen, v, desc) == 1 + Cardinality({w \in chosen : Ahead(w, v, desc)})
Sorted(chosen, desc) ==
  [i \in 1..Cardinality(chosen) |-> CHOOSE v \in chosen : Place(chosen, v, desc) = i]

Execute(rows, hidden, q) == Window(Sorted(Selected(rows, hidden, q), q.desc), q)

-----------------------------------------------------------------------------
(* The filters of a request *)

\* VideoFilters: a function on the filters that are given.  NULL stands for
\* the value by which a request asks for rows that have none.
Filters == TextColumns \cup ExactColumns \cup {"tag_name", "collection_name", "tag_id", "collection_id", "years"}

Given(f, c) == f[c] \ {NULL}
Only(f, c) == CHOOSE x \in f[c] : TRUE
WantsMissing(f, c) == NULL \in f[c]

ByText(q, f, c) == WhereTextAny(q, c, Given(f, c), WantsMissing(f, c))

ApplyOne(q, f, c) ==
  CASE c \in {"title", "artist", "album"} -> WhereText(q, c, Only(f, c))
    [] c = "director" -> IF WantsMissing(f, c) THEN WhereMissing(q, c) ELSE WhereText(q, c, Only(f, c))
    [] c = "genre" -> ByText(q, f, c)
    [] c = "year" -> WhereYearAny(q, Given(f, c), WantsMissing(f, c))
    [] c = "years" -> WhereYearRange(q, Min(f[c]), Max(f[c]))
    [] c \in ExactColumns \ {"year"} -> WhereIs(q, c, Only(f, c))
    [] c = "tag_name" -> WhereTagAny(q, Given(f, c), WantsMissing(f, c))
    [] c = "collection_name" -> WhereCollection(q, Only(f, c))
    [] c = "tag_id" -> WhereTagId(q, Only(f, c))
    [] c = "collection_id" -> WhereCollectionId(q, Only(f, c))

\* Years that are listed take the place of a range of years.
ApplyToQuery(f) ==
  [NewQuery EXCEPT !.where =
    UNION {ApplyOne(NewQuery, f, c).where :
             c \in DOMAIN f \ (IF "year" \in DOMAIN f THEN {"years"} ELSE {})}]

-----------------------------------------------------------------------------
(* Facets *)

\* get_facets(): how many of the videos have which value in a column; those
\* that have none count as NULL.
ValuesIn(row, c) ==
  IF row[c] = Missing(c) THEN {NULL} ELSE IF c \in LinkColumns THEN row[c] ELSE {row[c]}

Facet(rows, hidden, q, c) ==
  LET chosen == Selected(rows, hidden, q)
      values == UNION {ValuesIn(rows[v], c) : v \in chosen}
  IN [x \in values |-> Cardinality({v \in chosen : x \in ValuesIn(rows[v], c)})]

\* The filter by which a client chooses a value of a facet.
FilterOf(c) == IF c = "tags" THEN "tag_name" ELSE c

=============================================================================
