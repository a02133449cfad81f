--------------------------- MODULE MCImportPipeline ---------------------------
(***************************************************************************)
(* An instance of ImportPipeline for TLC: the metadata of the video put it *)
(* at one of two paths.                                                    *)
(***************************************************************************)
EXTENDS ImportPipeline, TLC

CONSTANTS v, v1, v2

MCTitles == [x \in Videos |-> Names]
MCFirstTitles == [x \in Videos |-> v1]
=============================================================================
