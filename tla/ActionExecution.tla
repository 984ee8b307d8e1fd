---------------------------- MODULE ActionExecution ----------------------------
(***************************************************************************)
(* One assignment from its claim to its end, as MobileAssignmentWorker     *)
(* runs it against the repository and the phone: visit, snapshot, action   *)
(* plan, video, interaction, reconciliation. Launches of the device follow *)
(* one another; a launch that lost the device goes on until its next fence *)
(* check, in the middle of a tap if need be.                               *)
(*                                                                         *)
(* A step is one repository transaction or one device operation, so that a *)
(* crash, a lost lease or a new launch can fall between any two of them.   *)
(* AssignmentLedger has the leases in full: here a lease is live until it  *)
(* runs out, at any time. The phone is external and modelled by what       *)
(* device.py reads from it: what it shows as done is done.                 *)
(***************************************************************************)
EXTENDS Naturals, PhaseTable

CONSTANTS
  Workers,          \* launches of the device, numbered in their order
  Outcomes,         \* what a plan may ask for, a subset of OutcomeKinds
  ExecuteAnswers,   \* results execute_outcome may return without a tap
  ReconcileAnswers, \* results reconcile_outcome may return
  MaxActionAttempts,\* max_action_attempts
  MaxFailures,      \* bound on crashes, failed operations, lost leases and
                    \* executions that say they did nothing
  Nobody            \* no launch has the device, nobody owns the row

OutcomeKinds == {"like", "favorite", "repost", "trace"}
Results == {"confirmed", "not_applied", "uncertain", "unavailable"}

ASSUME ActionAssumption ==
  /\ Workers \subseteq Nat
  /\ Outcomes \subseteq OutcomeKinds
  /\ ExecuteAnswers \subseteq Results \ {"confirmed"}
  \* reconcile_outcome reads the control's state and never finds it missing
  /\ ReconcileAnswers \subseteq Results \ {"confirmed", "unavailable"}
  /\ MaxActionAttempts \in Nat \ {0} /\ MaxFailures \in Nat
  /\ Nobody \notin Workers

VARIABLES
  phase, owner, live, visited, code, \* the row: phase, lease, visit, last_error_code
  snapshot,   \* eligibility in the target's profile snapshot, or "none"
  reader,     \* whose the lease on taking it is: "ours", "theirs" or nobody's
  plan,       \* the plan: state, outcomes, last result, is its video set
  tenant,     \* the launch whose device lease is live
  pc,         \* where each launch is
  seen,       \* what a launch remembers: the plan's state as it was read, its
              \* attempts, its reconciliations, the error code to end with
  answer,     \* the device's last answer to a launch
  taps,       \* taps on the control of the outcome, ever
  landed,     \* the phone shows the outcome as done
  failures    \* what MaxFailures bounds, so far

rowVars == <<phase, owner, live, visited, code>>
profile == <<snapshot, reader>>
phone == <<taps, landed>>
vars == <<rowVars, profile, plan, tenant, pc, seen, answer, phone, failures>>

PlanStates == {"none", "planned", "executing", "uncertain", "confirmed"}
Locations == {"off", "idle", "open", "metrics", "lease", "read", "wait", "plan", "video",
              "trace", "act", "mark", "execute", "armed", "tapped", "reconcile",
              "recover", "record", "again", "fallback", "finish", "close",
              "defer", "gone"}
Codes == {"none", "error", "action_uncertain_terminal",
          "profile_unavailable_after_snapshot",
          "confirmed_visit_profile_unreachable", "profile_unreachable"}
NewPlan(state, o) ==
  [state |-> state, requested |-> o, effective |-> o, last |-> "none", video |-> FALSE]
Fresh == [state |-> "none", attempts |-> 0, checks |-> 0, code |-> "none"]

TypeOK ==
  /\ phase \in Phases /\ owner \in Workers \cup {Nobody}
  /\ live \in BOOLEAN /\ visited \in BOOLEAN /\ code \in Codes
  /\ snapshot \in {"none", "eligible", "ineligible"}
  /\ reader \in {"nobody", "ours", "theirs"}
  /\ plan \in [state : PlanStates, requested : OutcomeKinds,
               effective : OutcomeKinds, last : Results \cup {"none"},
               video : BOOLEAN]
  /\ tenant \in Workers \cup {Nobody}
  /\ pc \in [Workers -> Locations]
  /\ seen \in [Workers -> [state : PlanStates, attempts : Nat, checks : Nat,
                        code : Codes]]
  /\ answer \in [Workers -> Results \cup {"none"}]
  /\ taps \in Nat /\ landed \in BOOLEAN /\ failures \in Nat

\* The account may have liked or reposted the chosen video before.
Init ==
  /\ phase = "pending" /\ owner = Nobody /\ live = FALSE
  /\ visited = FALSE /\ code = "none"
  /\ snapshot = "none" /\ reader = "nobody" /\ plan = NewPlan("none", "trace")
  /\ tenant = Nobody
  /\ pc = [w \in Workers |-> "off"]
  /\ seen = [w \in Workers |-> Fresh]
  /\ answer = [w \in Workers |-> "none"]
  /\ taps = 0 /\ landed \in BOOLEAN /\ failures = 0

Goto(w, l) == pc' = [pc EXCEPT ![w] = l]

\* The launch is at a place, and forgets what it knew of the row.
Forget(w, l) ==
  /\ Goto(w, l)
  /\ seen' = [seen EXCEPT ![w] = Fresh]
  /\ answer' = [answer EXCEPT ![w] = "none"]

\* The fence of a repository call, and that of a device operation.
Holds(w) == tenant = w /\ owner = w /\ live
HasDevice(w) == tenant = w

At(w, l) == pc[w] = l /\ Holds(w)

-----------------------------------------------------------------------------
(* Launches, leases and failures. *)

\* A new launch is granted the device after the lease of the last one ended.
TakeOver(w) ==
  /\ pc[w] = "off" /\ \A v \in Workers : v < w => pc[v] # "off"
  /\ tenant = Nobody
  /\ tenant' = w
  /\ Goto(w, "idle")
  /\ UNCHANGED <<rowVars, profile, plan, seen, answer, phone, failures>>

\* The device lease runs out or is released; the process may still run.
LoseDevice ==
  /\ tenant # Nobody /\ failures < MaxFailures
  /\ tenant' = Nobody
  /\ failures' = failures + 1
  /\ UNCHANGED <<rowVars, profile, plan, pc, seen, answer, phone>>

\* The lease of the row runs out; under a launch that still has the device
\* that is a failure, the worker renews it between its operations.
LeaseRunsOut ==
  /\ owner # Nobody /\ live
  /\ IF Holds(owner)
     THEN failures < MaxFailures /\ failures' = failures + 1
     ELSE UNCHANGED failures
  /\ live' = FALSE
  /\ UNCHANGED <<phase, owner, visited, code, profile, plan, tenant, pc,
                 seen, answer, phone>>

\* MUTANT: a worker that still has the device does not notice its row is gone.
ExitOnLostDevice(w) ==
  /\ pc[w] \notin {"off", "idle", "gone"}
  /\ ~HasDevice(w)
  /\ Forget(w, "gone")
  /\ UNCHANGED <<rowVars, profile, plan, tenant, phone, failures>>

\* DeviceWorkerLeaseLost: the fence of the next call fails, and the worker
\* leaves its loop. It may operate the phone until it makes that call.
ExitOnLostLease(w) ==
  /\ pc[w] \notin {"off", "idle", "gone"}
  /\ ~Holds(w)
  /\ Forget(w, "gone")
  /\ tenant' = IF tenant = w THEN Nobody ELSE tenant
  /\ UNCHANGED <<rowVars, profile, plan, phone, failures>>

\* The process dies; its device lease ends without a successor for now.
Crash(w) ==
  /\ pc[w] \notin {"off", "gone"} /\ failures < MaxFailures
  /\ Forget(w, "gone")
  /\ tenant' = IF tenant = w THEN Nobody ELSE tenant
  /\ failures' = failures + 1
  /\ UNCHANGED <<rowVars, profile, plan, phone>>

\* Another device of the round is the first to visit, and is to take the
\* target's snapshot for all of them.
OtherReads ==
  /\ snapshot = "none" /\ reader = "nobody"
  /\ reader' = "theirs"
  /\ UNCHANGED <<rowVars, snapshot, plan, tenant, pc, seen, answer, phone, failures>>

OtherPublishes ==
  /\ snapshot = "none" /\ reader = "theirs"
  /\ snapshot' \in {"eligible", "ineligible"} /\ reader' = "nobody"
  /\ UNCHANGED <<rowVars, plan, tenant, pc, seen, answer, phone, failures>>

\* The snapshot lease runs out on a device that is dead, or still reading.
ReaderRunsOut ==
  /\ reader # "nobody" /\ failures < MaxFailures
  /\ reader' = "nobody"
  /\ failures' = failures + 1
  /\ UNCHANGED <<rowVars, snapshot, plan, tenant, pc, seen, answer, phone>>

\* The effect of a tap reaches the account, at once, late or never.
Land ==
  /\ taps > 0 /\ ~landed
  /\ landed' = TRUE
  /\ UNCHANGED <<rowVars, profile, plan, tenant, pc, seen, answer, taps, failures>>

\* The recovery of an expired lease, by the fleet loop or by a claim.
Recover ==
  /\ owner # Nobody /\ ~live
  /\ phase' = IF visited THEN "deferred" ELSE "pending"
  /\ owner' = Nobody
  /\ UNCHANGED <<live, visited, code, profile, plan, tenant, pc, seen,
                 answer, phone, failures>>

-----------------------------------------------------------------------------
(* The worker up to its plan. *)

Claim(w) ==
  /\ pc[w] = "idle" /\ tenant = w
  /\ phase \in {"pending", "deferred"} /\ owner = Nobody
  /\ phase' = "profile_opening" /\ owner' = w /\ live' = TRUE
  /\ Goto(w, "open")
  /\ UNCHANGED <<visited, code, profile, plan, tenant, seen, answer, phone, failures>>

\* Every operation may fail with an exception, which run_assignment turns
\* into a deferral.
OperationFails(w) ==
  /\ pc[w] \in {"open", "metrics", "read", "plan", "video", "execute", "armed",
                "tapped", "reconcile", "recover"}
  /\ Holds(w) /\ failures < MaxFailures
  /\ Goto(w, "defer")
  /\ failures' = failures + 1
  /\ UNCHANGED <<rowVars, profile, plan, tenant, seen, answer, phone>>

Visit(w) ==
  /\ At(w, "open")
  /\ phase' = "identity_confirmed" /\ visited' = TRUE
  /\ Goto(w, "metrics")
  /\ UNCHANGED <<owner, live, code, profile, plan, tenant, seen, answer, phone, failures>>

\* The page says that the account is missing or suspended.
SkipUnreachable(w) ==
  /\ At(w, "open") /\ ~visited
  /\ phase' = "skipped" /\ code' = "profile_unreachable"
  /\ owner' = Nobody /\ live' = FALSE
  /\ Forget(w, "idle")
  /\ UNCHANGED <<visited, profile, plan, tenant, phone, failures>>

\* A visited profile that is unreachable now: two transactions.
ReopenFails(w) ==
  /\ At(w, "open") /\ visited
  /\ phase' = "identity_confirmed"
  /\ seen' = [seen EXCEPT ![w].code = "confirmed_visit_profile_unreachable"]
  /\ Goto(w, "close")
  /\ UNCHANGED <<owner, live, visited, code, profile, plan, tenant, answer, phone, failures>>

ReadSnapshot(w) ==
  /\ At(w, "metrics")
  /\ Goto(w, IF snapshot = "none" THEN "lease" ELSE "plan")
  /\ UNCHANGED <<rowVars, profile, plan, tenant, seen, answer, phone, failures>>

\* claim_snapshot_lease: a lease of this device, of an earlier launch even, is
\* its own to renew. Refused, the worker waits, although the snapshot may have
\* been published in the meantime.
ClaimReading(w) ==
  /\ At(w, "lease")
  /\ \/ /\ snapshot = "none" /\ reader # "theirs"
        /\ reader' = "ours" /\ Goto(w, "read") /\ UNCHANGED phase
     \/ /\ snapshot # "none" \/ reader = "theirs"
        /\ phase' = "waiting_snapshot" /\ Goto(w, "wait") /\ UNCHANGED reader
  /\ UNCHANGED <<owner, live, visited, code, snapshot, plan, tenant, seen, answer,
                 phone, failures>>

\* MUTANT: the snapshot is stored over another.
PublishOver(w) ==
  /\ At(w, "read")
  /\ snapshot' \in {"eligible", "ineligible"} /\ reader' = "nobody"
  /\ Goto(w, "plan")
  /\ UNCHANGED <<rowVars, plan, tenant, seen, answer, phone, failures>>

\* publish_profile_snapshot
Publish(w) ==
  /\ At(w, "read")
  /\ snapshot = "none" /\ reader = "ours"
  /\ snapshot' \in {"eligible", "ineligible"} /\ reader' = "nobody"
  /\ Goto(w, "plan")
  /\ UNCHANGED <<rowVars, plan, tenant, seen, answer, phone, failures>>

\* It raises: the lease ran out while the worker read the profile.
PublishRefused(w) ==
  /\ At(w, "read")
  /\ snapshot # "none" \/ reader # "ours"
  /\ Goto(w, "defer")
  /\ UNCHANGED <<rowVars, profile, plan, tenant, seen, answer, phone, failures>>

WaitForSnapshot(w) ==
  /\ At(w, "wait")
  /\ Goto(w, "defer")
  /\ UNCHANGED <<rowVars, profile, plan, tenant, seen, answer, phone, failures>>

\* No video is visible and the page says the account is gone.
NoVideo(w) ==
  /\ At(w, "plan") /\ snapshot = "eligible" /\ ~plan.video
  /\ seen' = [seen EXCEPT ![w].code = "profile_unavailable_after_snapshot"]
  /\ Goto(w, "close")
  /\ UNCHANGED <<rowVars, profile, plan, tenant, answer, phone, failures>>

\* create_paced_action_plan: the existing plan, or a new one for the outcome
\* that is due, a trace when none is or when the profile is not eligible.
Plans ==
  IF plan.state # "none" THEN {plan}
  ELSE {NewPlan("planned", o) :
          o \in IF snapshot = "eligible" THEN Outcomes \cup {"trace"} ELSE {"trace"}}

MakePlan(w) ==
  /\ At(w, "plan")
  /\ \E p \in Plans :
       /\ plan' = p
       /\ seen' = [seen EXCEPT ![w].state = p.state]
       /\ Goto(w, IF p.state = "confirmed" THEN "finish"
                  ELSE IF snapshot = "ineligible" THEN "trace" ELSE "video")
  /\ UNCHANGED <<rowVars, profile, tenant, answer, phone, failures>>

\* The video is set in the plan and opened; then its controls are visible.
OpenVideo(w) ==
  /\ At(w, "video")
  /\ plan' = [plan EXCEPT !.video = TRUE]
  /\ phase' = IF phase = "identity_confirmed" THEN "video_opening" ELSE "video_confirmed"
  /\ Goto(w, IF phase = "identity_confirmed" THEN "video"
             ELSE IF plan.effective = "trace" THEN "trace" ELSE "act")
  /\ UNCHANGED <<owner, live, visited, code, profile, tenant, seen,
                 answer, phone, failures>>

ConfirmTrace(w) ==
  /\ At(w, "trace") /\ plan.effective = "trace"
  /\ plan' = [plan EXCEPT !.state = "confirmed"]
  /\ Goto(w, "finish")
  /\ UNCHANGED <<rowVars, profile, tenant, seen, answer, phone, failures>>

-----------------------------------------------------------------------------
(* The interaction. *)

\* MUTANT: only an uncertain plan is reconciled.
ResumesUncertain(w) == seen[w].state = "uncertain"

\* A plan that was left executing or uncertain is reconciled, never executed.
Resumes(w) == seen[w].state \in {"executing", "uncertain"}

StartAction(w) ==
  /\ At(w, "act")
  /\ \/ /\ Resumes(w)
        /\ phase' = "action_reconciling"
        /\ seen' = [seen EXCEPT ![w].checks = 1]
        /\ Goto(w, "reconcile")
     \/ /\ ~Resumes(w) /\ phase = "video_confirmed"
        /\ phase' = "quota_reserved" /\ UNCHANGED <<seen, pc>>
     \/ /\ ~Resumes(w) /\ phase = "quota_reserved"
        /\ phase' = "action_executing" /\ Goto(w, "mark") /\ UNCHANGED seen
  /\ UNCHANGED <<owner, live, visited, code, profile, plan, tenant, answer,
                 phone, failures>>

\* mark_action_executing; an uncertain plan makes it raise.
MarkExecuting(w) ==
  /\ At(w, "mark")
  /\ plan.state \in {"planned", "executing"}
  /\ plan' = [plan EXCEPT !.state = "executing"]
  /\ Goto(w, "execute")
  /\ UNCHANGED <<rowVars, profile, tenant, seen, answer, phone, failures>>

Answer(w, r) == answer' = [answer EXCEPT ![w] = r] /\ Goto(w, "record")

\* FencedVerifiedDevice checks the fence before it hands over to the phone.
BeginExecute(w) ==
  /\ pc[w] = "execute" /\ HasDevice(w)
  /\ Goto(w, "armed")
  /\ UNCHANGED <<rowVars, profile, plan, tenant, seen, answer, phone, failures>>

\* execute_outcome without a tap: done already, no control to be found, or
\* the share panel without a repost control.
LookOnly(w) ==
  /\ pc[w] = "armed" /\ HasDevice(w)
  /\ \/ landed /\ Answer(w, "confirmed") /\ UNCHANGED failures
     \/ \E r \in ExecuteAnswers \ {"not_applied"} :
          /\ r = "unavailable" => plan.effective = "repost" /\ ~landed
          /\ Answer(w, r) /\ UNCHANGED failures
     \/ /\ "not_applied" \in ExecuteAnswers /\ ~landed
        /\ failures < MaxFailures /\ failures' = failures + 1
        /\ Answer(w, "not_applied")
  /\ UNCHANGED <<rowVars, profile, plan, tenant, seen, phone>>

\* The tap itself comes whenever the phone gets to it: it asks for no lease.
Tap(w) ==
  /\ pc[w] = "armed"
  /\ ~landed
  /\ taps' = taps + 1
  /\ Goto(w, "tapped")
  /\ UNCHANGED <<rowVars, profile, plan, tenant, seen, answer, landed, failures>>

WatchTap(w) ==
  /\ pc[w] = "tapped" /\ HasDevice(w)
  /\ Answer(w, IF landed THEN "confirmed" ELSE "uncertain")
  /\ UNCHANGED <<rowVars, profile, plan, tenant, seen, phone, failures>>

\* reconcile_outcome only looks. In reconciliation a result that would let
\* the worker tap again counts as uncertain.
Coerced(r) ==
  IF r = "not_applied" \/ (r = "unavailable" /\ plan.effective # "repost")
  THEN "uncertain" ELSE r

Reconcile(w) ==
  /\ pc[w] = "reconcile" /\ HasDevice(w)
  /\ \/ landed /\ Answer(w, "confirmed")
     \/ \E r \in ReconcileAnswers :
          /\ r \in {"not_applied", "unavailable"} => ~landed
          /\ Answer(w, Coerced(r))
  /\ UNCHANGED <<rowVars, profile, plan, tenant, seen, phone, failures>>

\* MUTANT: the result is stored as the plan's state.
SettledByName(r) == r

\* The plan's next state for a result.
Settled(r) ==
  CASE r = "confirmed" -> "confirmed"
    [] r = "uncertain" -> "uncertain"
    [] OTHER -> "planned"

\* MUTANT: an uncertain execution is taken for the end of the action.
AfterResultHasty(w, r) ==
  CASE r \in {"confirmed", "uncertain"} -> "finish"
    [] r = "unavailable" -> IF plan.effective = "repost" THEN "fallback" ELSE "defer"
    [] OTHER -> IF seen[w].attempts + 1 >= MaxActionAttempts THEN "defer" ELSE "again"

\* Where the worker goes with a recorded result.
AfterResult(w, r) ==
  CASE r = "confirmed" -> "finish"
    [] r = "unavailable" -> IF plan.effective = "repost" THEN "fallback" ELSE "defer"
    [] r = "uncertain" -> IF seen[w].checks >= 1 THEN "close" ELSE "recover"
    [] OTHER -> IF seen[w].attempts + 1 >= MaxActionAttempts THEN "defer" ELSE "again"

RecordResult(w) ==
  /\ At(w, "record")
  /\ plan' = [plan EXCEPT !.state = IF @ = "confirmed" THEN @ ELSE Settled(answer[w]),
                          !.last = answer[w]]
  /\ seen' = [seen EXCEPT ![w].attempts = @ + 1,
                          ![w].code = IF AfterResult(w, answer[w]) = "close"
                                      THEN "action_uncertain_terminal" ELSE @]
  /\ Goto(w, AfterResult(w, answer[w]))
  /\ UNCHANGED <<rowVars, profile, tenant, answer, phone, failures>>

\* The single reconciliation after an uncertain execution.
GoReconcile(w) ==
  /\ At(w, "recover")
  /\ phase' = "action_reconciling"
  /\ seen' = [seen EXCEPT ![w].checks = @ + 1]
  /\ Goto(w, "reconcile")
  /\ UNCHANGED <<owner, live, visited, code, profile, plan, tenant, answer,
                 phone, failures>>

\* A result that says nothing was applied leads back to the execution, or to
\* a deferral when the action's time is used up.
ExecuteAgain(w) ==
  /\ At(w, "again")
  /\ Goto(w, "mark") \/ Goto(w, "defer")
  /\ UNCHANGED <<rowVars, profile, plan, tenant, seen, answer, phone, failures>>

\* confirm_action_unavailable_as_trace
FallBack(w) ==
  /\ At(w, "fallback")
  /\ plan.requested = "repost" /\ plan.effective = "repost"
  /\ plan.state = "planned" /\ plan.last = "unavailable"
  /\ plan' = [plan EXCEPT !.effective = "trace", !.state = "confirmed"]
  /\ Goto(w, "finish")
  /\ UNCHANGED <<rowVars, profile, tenant, seen, answer, phone, failures>>

-----------------------------------------------------------------------------
(* The end of a run. *)

\* complete_assignment; "close" carries a terminal error code.
Complete(w) ==
  /\ At(w, "finish") \/ At(w, "close")
  /\ phase' = "completed" /\ owner' = Nobody /\ live' = FALSE
  /\ code' = IF pc[w] = "finish" THEN "none" ELSE seen[w].code
  /\ Forget(w, "idle")
  /\ UNCHANGED <<visited, profile, plan, tenant, phone, failures>>

Defer(w) ==
  /\ At(w, "defer")
  /\ phase' = "deferred" /\ owner' = Nobody /\ live' = FALSE /\ code' = "error"
  /\ Forget(w, "idle")
  /\ UNCHANGED <<visited, profile, plan, tenant, phone, failures>>

Run(w) ==
  \/ Claim(w) \/ Visit(w) \/ SkipUnreachable(w) \/ ReopenFails(w)
  \/ ReadSnapshot(w) \/ ClaimReading(w) \/ Publish(w) \/ PublishRefused(w)
  \/ WaitForSnapshot(w) \/ NoVideo(w) \/ MakePlan(w)
  \/ OpenVideo(w) \/ ConfirmTrace(w)
  \/ StartAction(w) \/ MarkExecuting(w) \/ BeginExecute(w)
  \/ LookOnly(w) \/ Tap(w) \/ WatchTap(w)
  \/ Reconcile(w) \/ RecordResult(w) \/ GoReconcile(w) \/ ExecuteAgain(w)
  \/ FallBack(w) \/ Complete(w) \/ Defer(w)

Next ==
  \/ LoseDevice \/ LeaseRunsOut \/ OtherReads \/ OtherPublishes \/ ReaderRunsOut
  \/ Land \/ Recover
  \/ \E w \in Workers :
       Run(w) \/ TakeOver(w) \/ ExitOnLostLease(w) \/ OperationFails(w) \/ Crash(w)

Spec == Init /\ [][Next]_vars

\* Launches keep running and are replaced, leases nobody renews run out, and
\* the fleet loop recovers them; a device that has the snapshot lease publishes
\* in the end, unless the lease runs out. Failures are finite by MaxFailures.
FairSpec ==
  /\ Spec
  /\ WF_vars(LeaseRunsOut) /\ WF_vars(Recover) /\ WF_vars(OtherPublishes)
  /\ \A w \in Workers :
       WF_vars(Run(w)) /\ WF_vars(TakeOver(w)) /\ WF_vars(ExitOnLostLease(w))

-----------------------------------------------------------------------------
(* Properties. *)

\* The control of an outcome is tapped at most once per plan, although every
\* step can be cut short and be taken up again by another launch, and a launch
\* that has lost the device may still be in the middle of its tap.
AtMostOneTap == taps <= 1

\* A completed assignment has an explanation: without an error code its plan
\* is confirmed, and an interaction among them has really happened; ended as
\* uncertain its plan says uncertain and stays unconfirmed in the books; a skip
\* has neither a visit nor a plan.
CompletionExplained ==
  /\ phase = "completed" /\ code = "none" => plan.state = "confirmed"
  /\ plan.state = "confirmed" => plan.effective = "trace" \/ landed
  /\ phase = "completed" /\ code = "action_uncertain_terminal" => plan.state = "uncertain"
  /\ phase = "completed" => visited
  /\ phase = "skipped" => ~visited /\ plan.state = "none"

\* A target is judged once for all devices: a snapshot that one of them has
\* published is never replaced by that of another whose lease ran out while
\* it was reading.
JudgedOnce == [][snapshot # "none" => snapshot' = snapshot]_vars

\* With finitely many failures the assignment ends: no launch, lease or plan
\* is left behind in a state nobody takes up again.
Ends == <>(phase \in Terminal)

-----------------------------------------------------------------------------
(* What the properties rest on: the inductive invariant. Only the launch   *)
(* that has the device changes the plan, so what it remembers is true.     *)

Deciding == {"video", "trace", "act"}
Acting == {"mark", "execute", "armed", "tapped", "reconcile", "recover", "record",
           "again", "fallback"}
Unvisited == {"off", "idle", "open", "defer", "gone"}

\* What the launch that has the device knows of the plan.
PlanInHand ==
  \A w \in Workers : tenant = w =>
    /\ pc[w] \in Deciding => seen[w].state = plan.state
    /\ pc[w] \in Deciding \cup Acting => plan.state \notin {"none", "confirmed"}
    /\ pc[w] = "finish" => plan.state = "confirmed"
    /\ pc[w] = "close" =>
         /\ seen[w].code # "none"
         /\ seen[w].code = "action_uncertain_terminal" => plan.state = "uncertain"
    /\ pc[w] = "execute" => plan.state = "executing"
    /\ pc[w] = "record" => answer[w] # "none" /\ (answer[w] = "confirmed" => landed)

\* A tap has been made, or a launch is past its last check before one.
Spent == taps > 0 \/ \E w \in Workers : pc[w] = "armed"

\* Once a tap is out the plan says so, and no launch is on its way to another.
TapsOnRecord ==
  /\ Spent => plan.state \in {"executing", "uncertain", "confirmed"}
  /\ \A w \in Workers : pc[w] = "armed" =>
       taps = 0 /\ \A v \in Workers : pc[v] = "armed" => v = w
  /\ \A w \in Workers : tenant = w =>
       /\ pc[w] \in {"mark", "execute", "again"} => ~Spent
       /\ pc[w] = "record" /\ answer[w] \in {"not_applied", "unavailable"} => ~Spent

\* Plans are made after a visit, and rows that have ended are nobody's.
RowsInOrder ==
  /\ \A w \in Workers : pc[w] \notin Unvisited => visited
  /\ ~visited => plan.state = "none"
  /\ phase \in Terminal => owner = Nobody

\* The phase of the row is the one the place of its owner calls for, so that the
\* ledger's table refuses none of its calls.
InPhase ==
  \A w \in Workers : owner = w =>
    /\ phase \in Working
    /\ pc[w] = "open" => phase = "profile_opening"
    /\ pc[w] \in {"metrics", "lease", "read", "plan"} => phase = "identity_confirmed"
    /\ pc[w] = "video" => phase \in {"identity_confirmed", "video_opening"}
    /\ pc[w] = "trace" => phase \in {"identity_confirmed", "video_confirmed"}
    /\ pc[w] = "act" => phase = "video_confirmed" \/ (phase = "quota_reserved" /\ ~Resumes(w))
    /\ pc[w] \in {"mark", "execute", "armed", "tapped", "recover", "again", "fallback"}
         => phase = "action_executing"
    /\ pc[w] = "reconcile" => phase = "action_reconciling"
    /\ pc[w] = "record" =>
         phase = IF seen[w].checks = 0 THEN "action_executing" ELSE "action_reconciling"
    /\ pc[w] \in {"finish", "close"} => "completed" \in Allowed(phase)

\* A launch that has looked again has an answer that ends the action.
LookedOnce ==
  \A w \in Workers :
    /\ pc[w] = "reconcile" => seen[w].checks # 0
    /\ pc[w] = "record" /\ seen[w].checks # 0 => answer[w] \in {"confirmed", "uncertain"}
    /\ pc[w] \notin {"reconcile", "record", "finish", "close", "defer"}
         => seen[w].checks = 0

\* The state of the plan is the one the place of the launch that has the device
\* calls for: what is uncertain is never executed again.
PlanInStep ==
  /\ plan.effective = "trace" => plan.state \notin {"executing", "uncertain"}
  /\ \A w \in Workers : tenant = w =>
       /\ pc[w] \in Acting \cup {"act"} => plan.effective # "trace"
       /\ pc[w] \in {"mark", "again", "fallback"} => plan.state = "planned"
       /\ pc[w] \in {"execute", "armed", "tapped"} => plan.state = "executing"
       /\ pc[w] = "recover" => plan.state = "uncertain"
       /\ pc[w] \in {"reconcile", "record"} => plan.state \in {"executing", "uncertain"}
       /\ pc[w] = "record" =>
            /\ plan.state = "uncertain" => answer[w] \in {"confirmed", "uncertain"}
            /\ answer[w] = "unavailable" => plan.effective = "repost"

\* The row takes the course the ledger accepts, and the plan the course of the
\* repository's plans.
Row == INSTANCE RowCourse
ImplementsCourse == Row!CourseSpec

PlanRow == INSTANCE PlanCourse WITH
  state <- plan.state, requested <- plan.requested,
  effective <- plan.effective, last <- plan.last
ImplementsPlan == PlanRow!PlanSpec

IInv ==
  /\ TypeOK /\ PlanInHand /\ TapsOnRecord /\ AtMostOneTap
  /\ InPhase /\ LookedOnce /\ PlanInStep /\ RowsInOrder /\ CompletionExplained

=============================================================================
