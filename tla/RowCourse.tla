------------------------------ MODULE RowCourse ------------------------------
(***************************************************************************)
(* The course of one assignment, without leases, owners and clocks: what   *)
(* the ledger accepts for a row, whoever asks. AssignmentLedger implements *)
(* it for every row, ActionExecution for the one its launches work on.     *)
(***************************************************************************)
EXTENDS PhaseTable

VARIABLES
  phase,
  visited   \* the identity was confirmed on the page, once

courseVars == <<phase, visited>>

CourseInit == phase = "pending" /\ visited = FALSE

\* The row falls back to the schedule it has evidence for.
Recovered ==
  /\ phase \notin Terminal
  /\ phase' = IF visited THEN "deferred" ELSE "pending"
  /\ UNCHANGED visited

\* A claim, of a row that waits or whose lease ran out.
Claimed ==
  /\ phase \notin Terminal
  /\ phase' = "profile_opening"
  /\ UNCHANGED visited

Identified ==
  /\ "identity_confirmed" \in Allowed(phase)
  /\ phase' = "identity_confirmed"
  /\ visited' = TRUE

Moved ==
  /\ phase' \in Working \cap Allowed(phase)
  /\ phase' = "identity_confirmed" => visited
  /\ UNCHANGED visited

Deferred ==
  /\ phase \notin Terminal
  /\ phase' = "deferred"
  /\ UNCHANGED visited

Skipped ==
  /\ phase = "profile_opening" /\ ~visited
  /\ phase' = "skipped"
  /\ UNCHANGED visited

Completed ==
  /\ "completed" \in Allowed(phase)
  /\ phase' = "completed"
  /\ UNCHANGED visited

CourseNext ==
  \/ Recovered \/ Claimed \/ Identified \/ Moved \/ Deferred \/ Skipped \/ Completed

CourseSpec == CourseInit /\ [][CourseNext]_courseVars

\* A row gets past the opening of the profile, and is completed, only with a
\* visit; it is skipped only without one.
VisitFirst ==
  /\ phase \in (Working \ {"profile_opening"}) \cup {"completed"} => visited
  /\ phase = "skipped" => ~visited

=============================================================================
