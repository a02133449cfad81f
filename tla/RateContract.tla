----------------------------- MODULE RateContract -----------------------------
(***************************************************************************)
(* What a limited API is promised: an eager token bucket.  In any n ticks  *)
(* at most Burst + (n * TopRate) \div Cost requests are made.              *)
(***************************************************************************)
EXTENDS Naturals

CONSTANTS Full,    \* capacity of the bucket, in units
          Cost,    \* units a request takes
          TopRate  \* units a tick brings

VARIABLE meter

Capped(x) == IF x > Full THEN Full ELSE x

Init == meter = Full

Wait == meter' = Capped(meter + TopRate)

Request == /\ meter >= Cost
           /\ meter' = meter - Cost

\* A new client starts with a full bucket of its own.
Renew == meter' = Full

Next == Wait \/ Request \/ Renew

Spec == Init /\ [][Next]_meter
=============================================================================
