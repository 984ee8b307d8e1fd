------------------------------ MODULE MCPacedPlans ------------------------------
(* One device and three profiles of one round, an hour of two ticks. Of     *)
(* three reposts an hour the bucket lets through two at a moment; the one   *)
(* like an hour is held back by the hour.                                   *)
EXTENDS PacedPlans, TLC

CONSTANTS d1, t1, t2, t3

Profiles == Permutations(Targets)

SmallLimit == [o \in Outcomes |-> IF o = "repost" THEN 3 ELSE 1]

=============================================================================
