----------------------------- MODULE TokenBucket -----------------------------
(***************************************************************************)
(* What RateLimiter promises: a bucket that fills by one unit per unit of  *)
(* time up to Capacity, and grants that each take Cost units out of it.    *)
(***************************************************************************)
EXTENDS Integers

\* Positive numbers, Cost at most Capacity.
CONSTANTS Cost, Capacity

VARIABLE level

Init == level = Capacity

Fill == level' = IF level < Capacity THEN level + 1 ELSE Capacity

Grant ==
  /\ level >= Cost
  /\ level' = level - Cost

Next == Fill \/ Grant

Spec == Init /\ [][Next]_level

=============================================================================
