------------------------------ MODULE PhaseTable ------------------------------
(***************************************************************************)
(* The phases of an assignment and the table of its transitions, which the *)
(* ledger enforces and the mobile worker has to follow.                    *)
(***************************************************************************)

Working == {"profile_opening", "identity_confirmed", "waiting_snapshot",
            "video_opening", "video_confirmed", "quota_reserved",
            "action_executing", "action_reconciling"}
Waiting == {"pending", "deferred"}
Terminal == {"completed", "skipped"}
Phases == Working \cup Waiting \cup Terminal

\* _ALLOWED_PHASE_TRANSITIONS
Allowed(p) ==
  CASE p = "profile_opening" -> {"identity_confirmed", "deferred", "skipped"}
    [] p = "identity_confirmed" ->
         {"waiting_snapshot", "video_opening", "completed", "deferred"}
    [] p = "waiting_snapshot" -> {"video_opening", "completed", "deferred"}
    [] p = "video_opening" -> {"video_confirmed", "deferred"}
    [] p = "video_confirmed" ->
         {"quota_reserved", "action_reconciling", "completed", "deferred"}
    [] p = "quota_reserved" -> {"action_executing", "deferred"}
    [] p = "action_executing" -> {"action_reconciling", "completed", "deferred"}
    [] p = "action_reconciling" -> {"action_executing", "completed", "deferred"}
    [] OTHER -> {}

=============================================================================
