------------------------------- MODULE MCTraffic -------------------------------
(* Instances of Traffic: ids, topics, groups, payload kinds and calls are      *)
(* model values.  The client has a rule to begin with and one to replace it    *)
(* by, of each algorithm; a slow one refills nothing.                          *)
EXTENDS Traffic, TLC

CONSTANTS m1, m2, t1, t2, g1, g2, k1, s1, c1, c2, c3, standard, unknown, fallback

BucketRule(capacity, rate) ==
  [algorithm |-> "token_bucket", capacity |-> capacity, rate |-> rate, window |-> 2]
WindowRule(capacity, window) ==
  [algorithm |-> "sliding_window", capacity |-> capacity, rate |-> 1, window |-> window]

MCRules == {BucketRule(3, 1), BucketRule(2, 0), WindowRule(2, 2), WindowRule(1, 3)}
MCStandard == BucketRule(2, 3)
MCFallback == BucketRule(1, 1)

TrafficSymmetry == Permutations(Messages) \cup Permutations(Groups)
===============================================================================
