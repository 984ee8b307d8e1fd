------------------------------ MODULE PlanCourse ------------------------------
(***************************************************************************)
(* The course of one action plan, without tokens, books and launches: what *)
(* the plan calls of the repository make of its row. PacedPlans implements *)
(* it for every target and device; ActionExecution shows that the launches *)
(* of a worker, however they are cut short, never ask for anything else.   *)
(***************************************************************************)
CONSTANT Outcomes   \* the outcomes a plan may ask for

VARIABLES state, requested, effective, last

planVars == <<state, requested, effective, last>>

PlanInit == state = "none" /\ requested = "trace" /\ effective = "trace" /\ last = "none"

Planned ==
  /\ state = "none" /\ state' = "planned"
  /\ \E o \in Outcomes \cup {"trace"} : requested' = o /\ effective' = o
  /\ last' = "none"

Executed ==
  /\ state = "planned" /\ effective # "trace"
  /\ state' = "executing"
  /\ UNCHANGED <<requested, effective, last>>

\* What is uncertain is only looked at again: it may turn out confirmed, and
\* never becomes a plan that could be executed once more.
Recorded(r) ==
  /\ \/ state = "executing" /\ (r = "unavailable" => effective = "repost")
     \/ state = "uncertain" /\ r \in {"confirmed", "uncertain"}
  /\ state' = IF r \in {"confirmed", "uncertain"} THEN r ELSE "planned"
  /\ last' = r
  /\ UNCHANGED <<requested, effective>>

FellBack ==
  /\ state = "planned" /\ effective = "repost" /\ last = "unavailable"
  /\ state' = "confirmed" /\ effective' = "trace"
  /\ UNCHANGED <<requested, last>>

Traced ==
  /\ state = "planned" /\ effective = "trace"
  /\ state' = "confirmed"
  /\ UNCHANGED <<requested, effective, last>>

PlanNext ==
  \/ Planned \/ Executed \/ FellBack \/ Traced
  \/ \E r \in {"confirmed", "not_applied", "uncertain", "unavailable"} : Recorded(r)

PlanSpec == PlanInit /\ [][PlanNext]_planVars

=============================================================================
