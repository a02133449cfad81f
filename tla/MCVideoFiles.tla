----------------------------- MODULE MCVideoFiles -----------------------------
(***************************************************************************)
(* An instance of VideoFiles for TLC: each video is imported at one path,  *)
(* its metadata put it at another: v and w at paths of their own, x and y  *)
(* at the same.  One video with three requests that move it; with two      *)
(* requests and thumbnails, or a repair; two that may be duplicates; and   *)
(* the two that share a path, with one request at a time or two.  The      *)
(* videos of a pair may be exchanged, together with their paths.           *)
(***************************************************************************)
EXTENDS VideoFiles, TLC

CONSTANTS v, w, x, y, av, aw, ax, ay, bv, bw, bxy, c1, c2, c3

MCInbox == v :> av @@ w :> aw @@ x :> ax @@ y :> ay
MCTarget == v :> bv @@ w :> bw @@ x :> bxy @@ y :> bxy

Moving3 == {"organize", "delete", "restore"}
Scene(K, n, S, m) == [kinds |-> K, slots |-> n, videos |-> S, faults |-> m]
Alone(S) == {
  Scene(Moving3, 3, S, 1),
  Scene(Moving3 \cup {"purge", "rows", "thumbnail"}, 2, S, 1),
  Scene(Moving3 \cup {"purge", "rows", "repair"}, 2, S, 1)}
MCScenes == Alone({v}) \cup Alone({w}) \cup {
  Scene({"organize", "resolve"}, 1, {v, w}, 1),
  Scene({"organize", "resolve"}, 2, {v, w}, 0),
  Scene(Moving3 \cup {"purge", "rows"}, 1, {x, y}, 1),
  Scene(Moving3, 2, {x, y}, 0)}

SwapApart == (v :> w) @@ (w :> v) @@ (av :> aw) @@ (aw :> av) @@ (bv :> bw) @@ (bw :> bv)
SwapShared == (x :> y) @@ (y :> x) @@ (ax :> ay) @@ (ay :> ax)
Symmetry == Permutations(Clients) \cup {SwapApart, SwapShared}
=============================================================================
