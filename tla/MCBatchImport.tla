----------------------------- MODULE MCBatchImport -----------------------------
(* Instances of BatchImport for TLC: a song, a longer title that contains   *)
(* its own, and a version of it.                                            *)
EXTENDS BatchImport

CONSTANTS song, songs, remix, im1, yt1

MCTitles == {song, songs, remix}
MCLonger == [t \in MCTitles |-> IF t = song THEN MCTitles ELSE {t}]
MCVersions == [t \in MCTitles |-> IF t = songs THEN {songs} ELSE {song, remix}]

a == [title |-> song, imvdb |-> im1, youtube |-> yt1, file |-> TRUE]
b == [title |-> songs, imvdb |-> NoId, youtube |-> NoId, file |-> FALSE]
c == [title |-> remix, imvdb |-> NoId, youtube |-> yt1, file |-> FALSE]
MCItems == {a, b, c}
MCStock == {b}

Ask(kind, items, skip, auto) == [kind |-> kind, items |-> items, skip |-> skip, auto |-> auto]

MCOffers ==
  {Ask("nfo", <<a, b>>, TRUE, FALSE),
   Ask("spotify", <<c, b>>, TRUE, FALSE),
   Ask("list", <<a, c>>, FALSE, TRUE),
   Ask("imvdb", <<a>>, TRUE, TRUE),
   Ask("youtube", <<c>>, TRUE, TRUE),
   Ask("split", << >>, FALSE, FALSE), Ask("enrich", << >>, FALSE, FALSE),
   Ask("direct", <<a>>, FALSE, FALSE),
   Ask("refresh", << >>, FALSE, FALSE), Ask("urls", <<a>>, FALSE, FALSE)}
=============================================================================
