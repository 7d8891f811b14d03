----------------------------- MODULE Downsample -----------------------------
(***************************************************************************)
(* How the history of a node is thinned before it is sent                  *)
(* (server/src/stats/StatsDataDownsample.ts).  The measurements of a node, *)
(* in the order of time, are numbered from 0; n is how many there are and  *)
(* cap the bound, STATS_MAX_POINTS_PER_NODE.  Each bucket becomes one      *)
(* point: the average of its usage and the rest of its last measurement.   *)
(***************************************************************************)
EXTENDS Integers

\* Math.ceil(sorted.length / maxPoints)
BucketCount(n, cap) == (n + cap - 1) \div cap

\* The first measurement of bucket b, and one past the last of b - 1.
Start(b, n, cap) == (b * n) \div BucketCount(n, cap)

Bucket(b, n, cap) == Start(b, n, cap) .. Start(b + 1, n, cap) - 1

\* The points sent; a bucket without measurements sends none.
Points(n, cap) ==
  IF n <= cap THEN 0 .. n - 1
  ELSE {b \in 0 .. BucketCount(n, cap) - 1 : Bucket(b, n, cap) # {}}
=============================================================================
