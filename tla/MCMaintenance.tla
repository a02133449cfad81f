--------------------------- MODULE MCMaintenance ---------------------------
(***************************************************************************)
(* An instance of Maintenance for TLC: two migrations, the second of which *)
(* adds columns; two videos, pages of one.                                 *)
(***************************************************************************)
EXTENDS Maintenance

CONSTANTS rock, hardrock, onstage, star, home, k1, k2, nightly, weekly, b1, b2, r1, r2

MCLike == {<<rock, rock>>, <<rock, hardrock>>, <<hardrock, hardrock>>, <<onstage, onstage>>, <<star, star>>}
MCMatch == {<<onstage, onstage>>}

Song == [Blank EXCEPT !["genre"] = hardrock, !["year"] = 1990, !["tags"] = {onstage}, !["artist"] = star, !["file"] = home]
Bare == [Blank EXCEPT !["genre"] = rock, !["file"] = home]
Draft == [Blank EXCEPT !["tags"] = {onstage}]

MCContents == {Song, Bare, Draft}
MCFirstRows == (1 :> Song) @@ (2 :> Bare)

MCScripts == <<<<[repeatable |-> TRUE], [repeatable |-> TRUE]>>, <<[repeatable |-> FALSE], [repeatable |-> FALSE]>>>>

List(f) == [kind |-> "list", filter |-> f, query |-> ApplyToQuery(f), page |-> 2, size |-> 1]
MCRequests ==
  {List(("genre" :> {rock, NULL}) @@ ("tag_name" :> {onstage, NULL})),
   [List("years" :> {1980, 2000}) EXCEPT !.query = OrderBy(Search(@, onstage), TRUE)],
   [kind |-> "counts", cache |-> "route", key |-> k1],
   [kind |-> "counts", cache |-> "service", key |-> k1],
   [kind |-> "counts", cache |-> "service", key |-> k2],
   [kind |-> "nfo job", query |-> NewQuery, incremental |-> TRUE],
   [kind |-> "nfo request", query |-> IncludeDeleted(NewQuery), incremental |-> FALSE, overwrite |-> TRUE],
   [kind |-> "nfo request", query |-> NewQuery, incremental |-> FALSE, overwrite |-> FALSE],
   [kind |-> "playlist", query |-> NewQuery, format |-> "m3u"]}
  \cup [kind : {"create"}, table : Tables, name : {nightly, weekly}]
  \cup [kind : {"delete"}, table : Tables]
  \cup {[kind |-> "run", table |-> "scheduled_tasks"]}

Symmetry == Permutations(Callers) \cup Permutations(Backups) \cup Permutations({nightly, weekly})
=============================================================================
