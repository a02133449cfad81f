----------------------------- MODULE MCApiClients -----------------------------
(***************************************************************************)
(* An instance of ApiClients for TLC: as in the code, MusicBrainz lets one *)
(* call in at a time and the others more.                                  *)
(***************************************************************************)
EXTENDS ApiClients

CONSTANTS t1, t2, t3

MCMaxConcurrent == [a \in Apis |-> IF a = "musicbrainz" THEN 1 ELSE 2]
=============================================================================
