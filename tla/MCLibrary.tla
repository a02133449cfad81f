------------------------------ MODULE MCLibrary ------------------------------
(***************************************************************************)
(* An instance of Library for TLC.  The symmetry is sound: no definition   *)
(* chooses among callers or among tags.                                    *)
(***************************************************************************)
EXTENDS Library, TLC

CONSTANTS v1, v2

Beginning(videos, tagged, auto) ==
  [videos : {videos}, tagged : {tagged}, tag : Tags, auto : {auto},
   named : {[artist |-> "none", collection |-> "live"]}]
MCBeginnings ==
  Beginning({v1}, {}, FALSE) \cup Beginning({v1}, {v1}, FALSE)
  \cup Beginning({v1, v2}, {v1}, TRUE) \cup Beginning({v1, v2}, {v1, v2}, FALSE)

Symmetry == Permutations(Callers) \cup Permutations(Tags)
=============================================================================
