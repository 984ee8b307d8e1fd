--------------------------- MODULE AssignmentLedger ---------------------------
(***************************************************************************)
(* The assignment ledger of an exposure round: table round_assignments and *)
(* the round's state. One assignment is one target to be visited once by   *)
(* one device. Fenced device workers claim an assignment under a lease,    *)
(* walk it through its phases and end it; leases that run out are          *)
(* recovered by the fleet loop or by the next claim of the same device;    *)
(* operators pause, resume, stop and retry.                                *)
(*                                                                         *)
(* Every repository call is one BEGIN IMMEDIATE transaction and one action *)
(* here. A fenced call compares leases with the clock inside the           *)
(* transaction (_fence_validation_now_ms); the times it stores come from a *)
(* reading the caller took earlier, which is the t of an action.           *)
(*                                                                         *)
(* Priority batches and the coverage they share are in PriorityQueue; the  *)
(* rounds here have none.                                                  *)
(***************************************************************************)
EXTENDS Naturals, PhaseTable

CONSTANTS
  Devices,       \* phones
  Targets,       \* identity_key values
  Rounds,        \* ordinary exposure rounds, over pools that share targets
  Assignments,   \* rows of round_assignments
  RoundOf, TargetOf, DeviceOf,  \* columns of an assignment, functions
  OrderOf,       \* order_key: [Assignments -> Nat]
  Workers,       \* worker launches, each with an owner_id of its own
  HostOf,        \* [Workers -> Devices]
  Operable,      \* bound: the devices and assignments the operator controls
  RoundCommands, \* bound: the states the operator may put a round in
  Journey,       \* bound: the phases workers pass through
  ClaimTTL,      \* lease_ttl_ms of a claim
  RunTTL,        \* assignment_lease_ttl_ms of a renewal
  Gap,           \* min_inter_device_gap_ms
  RetryDelay,    \* retry_delay_ms
  MaxTime,       \* bound on the clock
  MaxAttempts,   \* bound on attempt_count
  Nobody         \* NULL in lease_owner, and an idle worker's job

ASSUME ColumnAssumption ==
  /\ RoundOf \in [Assignments -> Rounds]
  /\ TargetOf \in [Assignments -> Targets]
  /\ DeviceOf \in [Assignments -> Devices]
  /\ OrderOf \in [Assignments -> Nat]
  /\ HostOf \in [Workers -> Devices]

\* A round is created for a pool with targets and at least one device.
ASSUME RoundAssumption == \A r \in Rounds : \E a \in Assignments : RoundOf[a] = r

ASSUME NobodyAssumption == Nobody \notin Workers /\ Nobody \notin Assignments

ASSUME TimeAssumption ==
  /\ ClaimTTL \in Nat \ {0} /\ RunTTL \in Nat \ {0}
  /\ Gap \in Nat /\ RetryDelay \in Nat
  /\ MaxTime \in Nat \ {0} /\ MaxAttempts \in Nat

Null == 0   \* visit_confirmed_at_ms IS NULL; the clock starts at 1

ASSUME BoundAssumption ==
  /\ Journey \subseteq Working
  /\ RoundCommands \subseteq {"running", "paused", "stopped"}

RoundStates == {"pending", "running", "paused", "stopped", "completed"}
Controls == {"running", "paused", "stopped"}

VARIABLES
  now,         \* the clock
  phase, owner, expires, nextAt, visitAt, attempts, \* columns of the rows
  roundState,  \* exposure_rounds.state
  control,     \* operator_control_states, by device or assignment
  fence,       \* the worker lease of each launch, see LaunchFence
  job,         \* the assignment a worker process has in its hands
  since        \* when it claimed that assignment, 0 for an idle worker

lease == <<owner, expires>>
row == <<phase, lease, nextAt, visitAt, attempts>>
hands == <<job, since>>
vars == <<now, row, roundState, control, fence, hands>>

Leases == INSTANCE LaunchFence WITH Launches <- Workers

TypeOK ==
  /\ now \in Nat \ {0}
  /\ phase \in [Assignments -> Phases]
  /\ owner \in [Assignments -> Workers \cup {Nobody}]
  /\ expires \in [Assignments -> Nat]
  /\ nextAt \in [Assignments -> Nat]
  /\ visitAt \in [Assignments -> Nat]
  /\ attempts \in [Assignments -> Nat]
  /\ roundState \in [Rounds -> RoundStates]
  /\ control \in [Operable -> Controls]
  /\ fence \in [Workers -> Leases!Fences]
  /\ job \in [Workers -> Assignments \cup {Nobody}]
  /\ since \in [Workers -> Nat]

\* A round is created with all its assignments, in one transaction.
Init ==
  /\ now = 1
  /\ phase = [a \in Assignments |-> "pending"]
  /\ owner = [a \in Assignments |-> Nobody]
  /\ expires = [a \in Assignments |-> 0]
  /\ nextAt = [a \in Assignments |-> 0]
  /\ visitAt = [a \in Assignments |-> Null]
  /\ attempts = [a \in Assignments |-> 0]
  /\ roundState = [r \in Rounds |-> "pending"]
  /\ control = [x \in Operable |-> "running"]
  /\ fence = [w \in Workers |-> "waiting"]
  /\ job = [w \in Workers |-> Nobody]
  /\ since = [w \in Workers |-> 0]

-----------------------------------------------------------------------------
(* The clauses of the SQL statements. *)

Leased(a, t) == owner[a] # Nobody /\ expires[a] > t
Expired(a, t) == owner[a] # Nobody /\ expires[a] <= t /\ phase[a] \notin Terminal

\* MUTANT: only the rows of the assignment's own round are looked at.
SameTargetInRound(a) ==
  {b \in Assignments \ {a} : TargetOf[b] = TargetOf[a] /\ RoundOf[b] = RoundOf[a]}

SameTarget(a) == {b \in Assignments \ {a} : TargetOf[b] = TargetOf[a]}

\* MUTANT: visits of the last Gap ticks do not block.
BlockedByLease(a) == \E b \in SameTarget(a) : Leased(b, now)

\* Another row of the target is being worked on or was visited a moment ago.
Blocked(a) ==
  \E b \in SameTarget(a) :
    \/ Leased(b, now)
    \/ visitAt[b] # Null /\ visitAt[b] + Gap > now

Held(x) == x \in Operable /\ control[x] # "running"

\* Lease recovery of the rows in R at clock value t: the phase falls back to
\* the schedule the row has evidence for, the owner is dropped.
Recovered(R) ==
  /\ phase' = [a \in Assignments |->
                 IF a \notin R THEN phase[a]
                 ELSE IF visitAt[a] = Null THEN "pending" ELSE "deferred"]
  /\ owner' = [a \in Assignments |-> IF a \in R THEN Nobody ELSE owner[a]]
  /\ expires' = [a \in Assignments |-> IF a \in R THEN 0 ELSE expires[a]]

Later(s, t) == IF s > t THEN s ELSE t

RescheduledAt(R, t) ==
  [a \in Assignments |-> IF a \in R THEN Later(nextAt[a], t) ELSE nextAt[a]]

\* MUTANT: the row's owner and expiry are checked, the device lease is not.
FencedByRow(w) == job[w] # Nobody /\ owner[job[w]] = w /\ expires[job[w]] > now

\* _assert_row_worker_fence: the worker's device lease is live and so is the
\* lease of the row it has in its hands.
Fenced(w) ==
  /\ job[w] # Nobody
  /\ fence[w] = "active"
  /\ owner[job[w]] = w
  /\ expires[job[w]] > now

\* MUTANT: rows that wait for a retry do not keep a round open.
AllTerminalOrDeferred(r, p) ==
  \A a \in Assignments : RoundOf[a] = r => p[a] \in Terminal \cup {"deferred"}

AllTerminal(r, p) == \A a \in Assignments : RoundOf[a] = r => p[a] \in Terminal

\* _mark_round_completed_if_terminal, after the row update of the same step.
MarkRound(r) ==
  roundState' = IF AllTerminal(r, phase')
                THEN [roundState EXCEPT ![r] = "completed"] ELSE roundState

EmptyHands(w) ==
  /\ job' = [job EXCEPT ![w] = Nobody]
  /\ since' = [since EXCEPT ![w] = 0]

-----------------------------------------------------------------------------
(* Time and the worker leases. *)

Tick ==
  /\ now < MaxTime
  /\ now' = now + 1
  /\ UNCHANGED <<row, roundState, control, fence, hands>>

\* A launch is granted its device: no lease of the device is live, and the
\* expired row of an earlier launch is deleted.
GrantFence(w) ==
  /\ Leases!Grant(w)
  /\ UNCHANGED <<now, row, roundState, control, hands>>

\* Device leases run out; a heartbeat that was late in the queue for the
\* database may still renew one while nobody has taken the device.
LapseFence(S) ==
  /\ Leases!Lapse(S)
  /\ UNCHANGED <<now, row, roundState, control, hands>>

ReviveFence(w) ==
  /\ Leases!Revive(w)
  /\ UNCHANGED <<now, row, roundState, control, hands>>

\* The worker process ends, by a crash, by stop() or by an exception; its
\* supervisor releases the device lease. The row it had stays as it is.
EndWorker(w) ==
  /\ Leases!End(w)
  /\ EmptyHands(w)
  /\ UNCHANGED <<now, row, roundState, control>>

\* DeviceWorkerLeaseLost: a replaced worker's next call fails and it exits.
LoseJob(w) ==
  /\ job[w] # Nobody /\ ~Fenced(w)
  /\ EmptyHands(w)
  /\ fence' = [fence EXCEPT ![w] = "out"]
  /\ UNCHANGED <<now, row, roundState, control>>

-----------------------------------------------------------------------------
(* The claim of the next assignment. *)

Stale(w, r) ==
  {a \in Assignments :
     RoundOf[a] = r /\ DeviceOf[a] = HostOf[w] /\ Expired(a, now)}

\* The rows the claim's SELECT returns, with the recovery of the same
\* transaction applied: a row recovered just now waits from now on.
Eligible(w, r) ==
  {a \in Assignments :
     /\ RoundOf[a] = r /\ DeviceOf[a] = HostOf[w]
     /\ a \in Stale(w, r) \/ phase[a] \in Waiting
     /\ nextAt[a] <= now
     /\ roundState[r] \in {"pending", "running"}
     /\ ~Held(HostOf[w]) /\ ~Held(a)
     /\ ~Blocked(a)
     /\ attempts[a] < MaxAttempts}

\* ORDER BY: rows never visited first, then the device's own random order.
ClaimedAsPending(a) == visitAt[a] = Null /\ phase[a] # "deferred"

Precedes(a, b) ==
  \/ ClaimedAsPending(a) /\ ~ClaimedAsPending(b)
  \/ ClaimedAsPending(a) = ClaimedAsPending(b) /\ OrderOf[a] <= OrderOf[b]

CanClaim(w, r) ==
  /\ fence[w] = "active" /\ job[w] = Nobody
  /\ roundState[r] \in {"pending", "running"}

Claim(w, r) ==
  /\ CanClaim(w, r)
  /\ \E a \in Eligible(w, r) :
       /\ \A b \in Eligible(w, r) : Precedes(a, b)
       /\ phase' = [b \in Assignments |->
                      IF b = a THEN "profile_opening"
                      ELSE IF b \notin Stale(w, r) THEN phase[b]
                      ELSE IF visitAt[b] = Null THEN "pending" ELSE "deferred"]
       /\ owner' = [b \in Assignments |->
                      IF b = a THEN w
                      ELSE IF b \in Stale(w, r) THEN Nobody ELSE owner[b]]
       /\ expires' = [b \in Assignments |->
                        IF b = a THEN now + ClaimTTL
                        ELSE IF b \in Stale(w, r) THEN 0 ELSE expires[b]]
       /\ nextAt' = RescheduledAt(Stale(w, r), now)
       /\ attempts' = [attempts EXCEPT ![a] = @ + 1]
       /\ job' = [job EXCEPT ![w] = a]
       /\ since' = [since EXCEPT ![w] = now]
  /\ roundState' = [roundState EXCEPT ![r] = "running"]
  /\ UNCHANGED <<now, visitAt, control, fence>>

\* A claim that finds nothing still recovers the device's expired rows.
ClaimNothing(w, r) ==
  /\ CanClaim(w, r)
  /\ Eligible(w, r) = {}
  /\ Recovered(Stale(w, r))
  /\ nextAt' = RescheduledAt(Stale(w, r), now)
  /\ UNCHANGED <<now, visitAt, attempts, roundState, control, fence, hands>>

-----------------------------------------------------------------------------
(* The worker's calls for the assignment in its hands. *)

\* Readings of the clock taken since the worker claimed the row.
Readings(w) == since[w]..now

RecordVisit(w) ==
  /\ Fenced(w)
  /\ "identity_confirmed" \in Allowed(phase[job[w]])
  /\ phase' = [phase EXCEPT ![job[w]] = "identity_confirmed"]
  /\ \E t \in Readings(w) :
       visitAt' = [visitAt EXCEPT ![job[w]] = IF @ = Null THEN t ELSE @]
  /\ UNCHANGED <<now, lease, nextAt, attempts,
                 roundState, control, fence, hands>>

Renew(w) ==
  /\ Fenced(w) /\ phase[job[w]] \notin Terminal
  /\ expires' = [expires EXCEPT ![job[w]] = now + RunTTL]
  /\ UNCHANGED <<now, phase, owner, nextAt, visitAt, attempts,
                 roundState, control, fence, hands>>

\* transition_assignment. The worker confirms an identity this way only when
\* a profile it has visited before cannot be opened any more.
Advance(w, p) ==
  /\ Fenced(w)
  /\ p \in Allowed(phase[job[w]])
  /\ p = "identity_confirmed" => visitAt[job[w]] # Null
  /\ phase' = [phase EXCEPT ![job[w]] = p]
  /\ UNCHANGED <<now, lease, nextAt, visitAt, attempts,
                 roundState, control, fence, hands>>

\* MUTANT: the expiry takes the NULL that belongs in the owner.
DroppedToNull(a) ==
  /\ owner' = [owner EXCEPT ![a] = Nobody]
  /\ expires' = [expires EXCEPT ![a] = Nobody]

Dropped(a) ==
  /\ owner' = [owner EXCEPT ![a] = Nobody]
  /\ expires' = [expires EXCEPT ![a] = 0]

\* defer_assignment. The worker's manual_retry_only is never reached: only a
\* profile being opened can be unreachable, and such a row ends or is skipped.
Defer(w) ==
  /\ Fenced(w) /\ phase[job[w]] \notin Terminal
  /\ phase' = [phase EXCEPT ![job[w]] = "deferred"]
  /\ Dropped(job[w])
  /\ \E t \in Readings(w) : nextAt' = [nextAt EXCEPT ![job[w]] = t + RetryDelay]
  /\ EmptyHands(w)
  /\ UNCHANGED <<now, visitAt, attempts, roundState, control, fence>>

Skip(w) ==
  /\ Fenced(w)
  /\ phase[job[w]] = "profile_opening" /\ visitAt[job[w]] = Null
  /\ attempts[job[w]] >= 1
  /\ phase' = [phase EXCEPT ![job[w]] = "skipped"]
  /\ Dropped(job[w])
  /\ MarkRound(RoundOf[job[w]])
  /\ EmptyHands(w)
  /\ UNCHANGED <<now, nextAt, visitAt, attempts, control, fence>>

Complete(w) ==
  /\ Fenced(w)
  /\ "completed" \in Allowed(phase[job[w]])
  /\ phase' = [phase EXCEPT ![job[w]] = "completed"]
  /\ Dropped(job[w])
  /\ MarkRound(RoundOf[job[w]])
  /\ EmptyHands(w)
  /\ UNCHANGED <<now, nextAt, visitAt, attempts, control, fence>>

-----------------------------------------------------------------------------
(* The fleet loop and the operators. *)

\* recover_expired_assignment_leases, over all rounds and devices, with the
\* clock value t of the loop's poll.
RecoverExpired ==
  /\ \E t \in 1..now :
       LET R == {a \in Assignments : Expired(a, t)}
       IN  Recovered(R) /\ nextAt' = RescheduledAt(R, t)
  /\ UNCHANGED <<now, visitAt, attempts, roundState, control, fence, hands>>

\* retry_assignment, and the console's retry command.
Retry(a) ==
  /\ phase[a] = "deferred" /\ owner[a] = Nobody
  /\ nextAt' = [nextAt EXCEPT ![a] = 0]
  /\ UNCHANGED <<now, phase, lease, visitAt, attempts,
                 roundState, control, fence, hands>>

\* _apply_control, scope device or assignment: start, pause, stop.
SetControl(x, s) ==
  /\ control[x] = "stopped" => s = "stopped"
  /\ x \in Assignments =>
       /\ phase[x] \notin Terminal
       /\ s \in {"paused", "stopped"} => ~Leased(x, now)
  /\ control' = [control EXCEPT ![x] = s]
  /\ UNCHANGED <<now, row, roundState, fence, hands>>

\* _apply_control, scope round.
SetRound(r, s) ==
  /\ roundState[r] # "completed"
  /\ roundState[r] = "stopped" => s = "stopped"
  /\ roundState' = [roundState EXCEPT ![r] = s]
  /\ UNCHANGED <<now, row, control, fence, hands>>

Device(w) ==
  \/ GrantFence(w) \/ ReviveFence(w) \/ EndWorker(w) \/ LoseJob(w)

Operate(w) ==
  \/ \E r \in Rounds : Claim(w, r) \/ ClaimNothing(w, r)
  \/ RecordVisit(w) \/ Renew(w) \/ \E p \in Journey : Advance(w, p)
  \/ Defer(w) \/ Skip(w) \/ Complete(w)

Command ==
  \/ \E a \in Assignments : Retry(a)
  \/ \E x \in Operable, s \in Controls : SetControl(x, s)
  \/ \E r \in Rounds, s \in RoundCommands : SetRound(r, s)

Next ==
  \/ Tick \/ RecoverExpired \/ Command
  \/ \E S \in SUBSET Workers : LapseFence(S)
  \/ \E w \in Workers : Device(w) \/ Operate(w)

Spec == Init /\ [][Next]_vars

-----------------------------------------------------------------------------
(* Properties. *)

\* A target is worked on by one worker at a time, over all devices and all
\* rounds that contain it.
TargetExclusive ==
  \A a, b \in Assignments :
    a # b /\ TargetOf[a] = TargetOf[b] => ~(Leased(a, now) /\ Leased(b, now))

\* Recorded visits of one target by different assignments lie at least Gap
\* apart, although the time of a visit is read before the transaction that
\* stores it and leases expire, are recovered and are claimed again.
VisitsApart ==
  \A a, b \in Assignments :
    a # b /\ TargetOf[a] = TargetOf[b] /\ visitAt[a] # Null /\ visitAt[b] # Null
      => visitAt[a] + Gap <= visitAt[b] \/ visitAt[b] + Gap <= visitAt[a]

\* A round is completed exactly when every assignment of it has ended,
\* whatever the operator did to the round in between.
RoundCompletedIffDone ==
  \A r \in Rounds :
    (roundState[r] = "completed") <=> AllTerminal(r, phase)

\* A worker whose device has been granted to a later launch, or whose lease
\* on the row has run out, changes nothing: rows end, or gain a visit, only
\* under the live lease of a worker whose fence is active.
OnlyFencedWrites ==
  [][\A a \in Assignments :
       (phase'[a] # phase[a] /\ phase'[a] \in Terminal) \/ visitAt'[a] # visitAt[a]
         => /\ Leased(a, now)
            /\ fence[owner[a]] = "active"
            /\ DeviceOf[a] = HostOf[owner[a]]]_vars

-----------------------------------------------------------------------------
(* What the properties rest on: the inductive invariant.                   *)

\* A row is leased to workers of its own device only.
OwnersAreHosts ==
  \A a \in Assignments : owner[a] # Nobody => DeviceOf[a] = HostOf[owner[a]]

\* While a worker holds the live lease of a row, the visits of the row's target
\* lie at least Gap before the moment it claimed the row.
GapBeforeClaim ==
  \A w \in Workers, b \in Assignments :
    (/\ job[w] # Nobody /\ owner[job[w]] = w /\ Leased(job[w], now)
     /\ b \in SameTarget(job[w]) /\ visitAt[b] # Null)
      => visitAt[b] + Gap <= since[w]

\* A launch that waits for its device has nothing in its hands.
WaitingIdle == \A w \in Workers : fence[w] = "waiting" => job[w] = Nobody

\* A worker that has a row read the clock when it claimed it: no visit it can
\* store is mistaken for the missing one.
ClaimsDated == \A w \in Workers : job[w] # Nobody => since[w] > 0

\* The fences are those LaunchFence describes, and every row takes the course
\* RowCourse describes.
ImplementsFence == Leases!FenceSpec

Course(a) == INSTANCE RowCourse WITH phase <- phase[a], visited <- (visitAt[a] # Null)

ImplementsCourses == \A a \in Assignments : Course(a)!CourseSpec

\* No row gets past the opening of the profile without a visit.
VisitsFirst == \A a \in Assignments : Course(a)!VisitFirst

IInv ==
  /\ TypeOK /\ WaitingIdle /\ ClaimsDated /\ VisitsFirst
  /\ Leases!OneInForce /\ OwnersAreHosts /\ TargetExclusive
  /\ GapBeforeClaim /\ VisitsApart /\ RoundCompletedIffDone

=============================================================================
