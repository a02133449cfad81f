---------------------------- MODULE JobLifecycle ----------------------------
(***************************************************************************)
(* What the job queue promises to whoever submits work, whatever happens   *)
(* to the queue, its workers and its process: a job is executed at most    *)
(* once, and only after every job it depends on has completed.             *)
(*                                                                         *)
(* The statuses of fuzzbin/tasks/models.py are folded into four stages.    *)
(***************************************************************************)
CONSTANTS Jobs, DependsOn

VARIABLES
  stage,   \* the stage of each job
  done     \* the jobs whose handler completed

vars == <<stage, done>>

Stage == {"none", "accepted", "executing", "over"}

Init == stage = [j \in Jobs |-> "none"] /\ done = {}

\* Some jobs are submitted, or cloned by the scheduler.
Accept(js) ==
  /\ \A j \in js : stage[j] = "none"
  /\ stage' = [j \in Jobs |-> IF j \in js THEN "accepted" ELSE stage[j]]
  /\ UNCHANGED done

\* The handler of a job is started.
Begin(j) ==
  /\ stage[j] = "accepted"
  /\ DependsOn[j] \subseteq done
  /\ stage' = [stage EXCEPT ![j] = "executing"]
  /\ UNCHANGED done

\* The handler of a job is left, with success or without.
End(j) ==
  /\ stage[j] = "executing"
  /\ stage' = [stage EXCEPT ![j] = "over"]
  /\ done' \in {done, done \cup {j}}

\* The process ends under its handlers.
Interrupt ==
  /\ stage' = [j \in Jobs |-> IF stage[j] = "executing" THEN "over" ELSE stage[j]]
  /\ UNCHANGED done

Next ==
  \/ \E js \in SUBSET Jobs : Accept(js)
  \/ \E j \in Jobs : Begin(j) \/ End(j)
  \/ Interrupt

Spec == Init /\ [][Next]_vars
=============================================================================
