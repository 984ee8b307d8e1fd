-------------------------- MODULE MCAssignmentLedger --------------------------
(* Two situations on one table.  In the first no operator acts: one target   *)
(* on two phones in one round, and again on d1 in a second one (x1, x2, x3). *)
(* In the second these rows are over and the operator has stopped phone d2:  *)
(* one assignment (x4) passes through every phase under two launches of d1   *)
(* and the operator's commands.  w4 is a launch of d1 that has ended.        *)
EXTENDS AssignmentLedger, TLC

CONSTANTS d1, d2, u1, u2, r1, r2, r3, x1, x2, x3, x4, w1, w2, w3, w4

MCRoundOf == (x1 :> r1) @@ (x2 :> r1) @@ (x3 :> r2) @@ (x4 :> r3)
MCTargetOf == (x1 :> u1) @@ (x2 :> u1) @@ (x3 :> u1) @@ (x4 :> u2)
MCDeviceOf == (x1 :> d1) @@ (x2 :> d2) @@ (x3 :> d1) @@ (x4 :> d1)
MCOrderOf == [a \in Assignments |-> 1]
MCHostOf == (w1 :> d1) @@ (w2 :> d1) @@ (w3 :> d2) @@ (w4 :> d1)

Fresh ==
    /\ now = 1
    /\ owner = [a \in Assignments |-> Nobody]
    /\ expires = [a \in Assignments |-> 0]
    /\ nextAt = [a \in Assignments |-> 0]
    /\ visitAt = [a \in Assignments |-> Null]
    /\ job = [w \in Workers |-> Nobody]
    /\ since = [w \in Workers |-> 0]

\* Either the second round is stopped, or every row has been claimed before
\* and the earlier launch of d1 is over.
RoundsInit ==
    /\ Fresh
    /\ phase = [a \in Assignments |-> "pending"]
    /\ control = [x \in Operable |-> "running"]
    /\ \/ /\ roundState = [r \in Rounds |-> IF r = r1 THEN "pending" ELSE "stopped"]
          /\ fence = [w \in Workers |-> IF w = w4 THEN "out" ELSE "waiting"]
          /\ attempts = [a \in Assignments |-> 0]
       \/ /\ roundState = [r \in Rounds |-> IF r = r3 THEN "stopped" ELSE "running"]
          /\ fence = [w \in Workers |-> IF w \in {w2, w4} THEN "out" ELSE "waiting"]
          /\ attempts = [a \in Assignments |-> IF a = x4 THEN 0 ELSE 1]

OperatorInit ==
    /\ Fresh
    /\ phase = [a \in Assignments |-> IF a = x4 THEN "pending" ELSE "skipped"]
    /\ control = [x \in Operable |-> IF x = d2 THEN "stopped" ELSE "running"]
    /\ roundState = [r \in Rounds |-> IF r = r3 THEN "pending" ELSE "completed"]
    /\ fence = [w \in Workers |-> IF w \in {w3, w4} THEN "out" ELSE "waiting"]
    /\ attempts = [a \in Assignments |-> IF a = x4 THEN 0 ELSE 1]

MCInit == RoundsInit \/ OperatorInit

\* A stopped phone stays stopped: the situation is known from the state.
Attended == control[d2] = "stopped"

\* Bounds of the first situation: a shorter clock, no commands but the retry,
\* and workers that go no further than the visit before they end a row.
RoundsTick == now < MaxTime - 1

MCNext ==
    \/ (Attended \/ RoundsTick) /\ Tick
    \/ RecoverExpired
    \/ \E a \in Assignments : Retry(a)
    \/ \E x \in Operable, s \in Controls : Attended /\ SetControl(x, s)
    \/ \E r \in Rounds, s \in RoundCommands : Attended /\ SetRound(r, s)
    \/ \E S \in SUBSET Workers : LapseFence(S)
    \/ \E w \in Workers : Device(w)
    \/ \E w \in Workers, r \in Rounds : Claim(w, r) \/ ClaimNothing(w, r)
    \/ \E w \in Workers : RecordVisit(w) \/ Renew(w) \/ Defer(w) \/ Skip(w) \/ Complete(w)
    \/ \E w \in Workers, p \in Journey :
          (Attended \/ p = "identity_confirmed") /\ Advance(w, p)

MCSpec == MCInit /\ [][MCNext]_vars

=============================================================================
