----------------------------- MODULE MCJobQueue -----------------------------
(***************************************************************************)
(* Instances of JobQueue for TLC.  a is an import with a timeout, b        *)
(* depends on it, c is an urgent job without a video, d is a retry of a; t   *)
(* is a cron template and x the clone the scheduler may make of it.        *)
(***************************************************************************)
EXTENDS JobQueue, TLC

CONSTANTS a, b, c, d, t, x, v, w1, w2

MCPriority == [j \in Jobs |-> IF j \in {b, c} THEN 10 ELSE 5]
MCCreatedAt == [j \in Jobs |-> IF j = a THEN 1 ELSE IF j = b THEN 2 ELSE 3]
MCDependsOn == [j \in Jobs |-> IF j = b THEN {a} ELSE {}]
MCVideoOf == [j \in Jobs |-> IF j \in {a, b, d} THEN v ELSE NoVideo]
MCCloneOf == [j \in Execs |-> t]

Symmetry == Permutations(Workers)
=============================================================================
