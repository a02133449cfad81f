----------------------------- MODULE MCJobEvents -----------------------------
(***************************************************************************)
(* An instance of JobEvents for TLC: jobs j and k contend for the lock of  *)
(* the bus, the events go to connection c, whose peer may be slow.         *)
(***************************************************************************)
EXTENDS JobEvents, TLC

CONSTANTS j, k, c

MCOrder == [x \in Connections |-> 1]
MCProgress == [x \in Jobs |-> IF x = j THEN 2 ELSE 1]
=============================================================================
