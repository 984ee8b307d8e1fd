-------------------------- MODULE MCActionExecution --------------------------
(* Three launches that follow one another on one phone. *)
EXTENDS ActionExecution

Launches == 1..3

=============================================================================
