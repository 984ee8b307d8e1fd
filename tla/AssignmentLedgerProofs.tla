------------------------ MODULE AssignmentLedgerProofs ------------------------
(***************************************************************************)
(* Theorems about AssignmentLedger, for every set of devices, targets,     *)
(* rounds, rows and worker launches, and every duration; and, in the       *)
(* second part, about TargetImport, which makes the pools whose targets    *)
(* the ledger assigns, for every file of every length.  The two share no   *)
(* variable: the pool is finished before a batch of it is started.         *)
(***************************************************************************)
EXTENDS AssignmentLedger, TargetImport, FiniteSetTheorems, WellFoundedInduction,
        SequenceTheorems, TLAPS

-----------------------------------------------------------------------------
(* Type correctness. *)

\* The initial state is well typed.
LEMMA InitTypeOK == Init => TypeOK
BY DEF Init, TypeOK, Null, Phases, Waiting, RoundStates, Controls, Leases!Fences

\* A fenced worker has a row in its hands.
LEMMA InHands ==
  ASSUME TypeOK, NEW w \in Workers, Fenced(w)
  PROVE  job[w] \in Assignments /\ Leased(job[w], now) /\ owner[job[w]] = w
BY NobodyAssumption DEF TypeOK, Fenced, Leased

\* The phases a row may be moved to are phases, and rows that have ended stay.
LEMMA AllowedPhases ==
  ASSUME NEW p, NEW q \in Allowed(p)
  PROVE  q \in Phases /\ p \notin Terminal
BY DEF Allowed, Phases, Working, Waiting, Terminal

\* Recovery leaves rows that wait without an owner.
LEMMA RecoveredType ==
  ASSUME TypeOK, NEW R \in SUBSET Assignments, Recovered(R)
  PROVE  /\ phase' \in [Assignments -> Phases]
         /\ owner' \in [Assignments -> Workers \cup {Nobody}]
         /\ expires' \in [Assignments -> Nat]
BY DEF TypeOK, Recovered, Phases, Waiting

LEMMA RescheduledType ==
  ASSUME TypeOK, NEW R \in SUBSET Assignments, NEW t \in Nat
  PROVE  RescheduledAt(R, t) \in [Assignments -> Nat]
BY DEF TypeOK, RescheduledAt, Later

\* Neither the clock, nor the device leases, nor a claim leave the types.
LEMMA FleetTypeOK ==
  ASSUME TypeOK,
         \/ Tick \/ RecoverExpired
         \/ \E S \in SUBSET Workers : LapseFence(S)
         \/ \E w \in Workers : Device(w)
         \/ \E w \in Workers, r \in Rounds : Claim(w, r) \/ ClaimNothing(w, r)
  PROVE  TypeOK'
<1> USE DEF row, lease, hands
<1>1. CASE Tick
  BY <1>1 DEF Tick, TypeOK
<1>2. CASE RecoverExpired
  <2>1. PICK t \in 1..now :
          LET R == {a \in Assignments : Expired(a, t)}
          IN  Recovered(R) /\ nextAt' = RescheduledAt(R, t)
    BY <1>2 DEF RecoverExpired
  <2>2. t \in Nat
    BY DEF TypeOK
  <2>3. /\ phase' \in [Assignments -> Phases]
        /\ owner' \in [Assignments -> Workers \cup {Nobody}]
        /\ expires' \in [Assignments -> Nat]
        /\ nextAt' \in [Assignments -> Nat]
    BY <2>1, <2>2, RecoveredType, RescheduledType
  <2>. QED
    BY <1>2, <2>3 DEF RecoverExpired, TypeOK
<1>3. ASSUME NEW w \in Workers, Device(w)
      PROVE  TypeOK'
  BY <1>3
  DEF Device, GrantFence, ReviveFence, EndWorker, LoseJob, EmptyHands, TypeOK,
      Leases!Grant, Leases!Revive, Leases!End, Leases!Fences
<1>6. ASSUME NEW S \in SUBSET Workers, LapseFence(S)
      PROVE  TypeOK'
  BY <1>6 DEF LapseFence, TypeOK, Leases!Lapse, Leases!Fences
<1>4. ASSUME NEW w \in Workers, NEW r \in Rounds, Claim(w, r)
      PROVE  TypeOK'
  <2>1. nextAt' \in [Assignments -> Nat]
    <3>1. Stale(w, r) \subseteq Assignments
      BY DEF Stale
    <3>2. nextAt' = RescheduledAt(Stale(w, r), now) /\ now \in Nat
      BY <1>4 DEF Claim, TypeOK
    <3>. QED
      BY <3>1, <3>2, RescheduledType
  <2>2. phase' \in [Assignments -> Phases]
    BY <1>4 DEF Claim, TypeOK, Phases, Waiting, Working
  <2>3. owner' \in [Assignments -> Workers \cup {Nobody}]
    BY <1>4 DEF Claim, TypeOK
  <2>4. expires' \in [Assignments -> Nat]
    BY <1>4, TimeAssumption DEF Claim, TypeOK
  <2>5. /\ attempts' \in [Assignments -> Nat]
        /\ job' \in [Workers -> Assignments \cup {Nobody}]
        /\ since' \in [Workers -> Nat]
    <3>1. PICK a \in Assignments : /\ attempts' = [attempts EXCEPT ![a] = @ + 1]
                                   /\ job' = [job EXCEPT ![w] = a]
                                   /\ since' = [since EXCEPT ![w] = now]
      BY <1>4 DEF Claim, Eligible
    <3>. QED
      BY <3>1 DEF TypeOK
  <2>6. roundState' \in [Rounds -> RoundStates]
    BY <1>4 DEF Claim, TypeOK, RoundStates
  <2>. QED
    BY <1>4, <2>1, <2>2, <2>3, <2>4, <2>5, <2>6 DEF Claim, TypeOK
<1>5. ASSUME NEW w \in Workers, NEW r \in Rounds, ClaimNothing(w, r)
      PROVE  TypeOK'
  <2>1. Stale(w, r) \subseteq Assignments /\ now \in Nat
    BY DEF Stale, TypeOK
  <2>2. /\ phase' \in [Assignments -> Phases]
        /\ owner' \in [Assignments -> Workers \cup {Nobody}]
        /\ expires' \in [Assignments -> Nat]
        /\ nextAt' \in [Assignments -> Nat]
    BY <1>5, <2>1, RecoveredType, RescheduledType DEF ClaimNothing
  <2>. QED
    BY <1>5, <2>2 DEF ClaimNothing, TypeOK
<1>. QED
  BY <1>1, <1>2, <1>3, <1>4, <1>5, <1>6

\* Nor do the calls of a worker for the row in its hands.
LEMMA WorkerTypeOK ==
  ASSUME TypeOK, NEW w \in Workers,
         \/ RecordVisit(w) \/ Renew(w) \/ (\E p \in Journey : Advance(w, p))
         \/ Defer(w) \/ Skip(w) \/ Complete(w)
  PROVE  TypeOK'
<1> DEFINE j == job[w]
<1> USE DEF lease, hands
<1>1. j \in Assignments
  BY InHands DEF RecordVisit, Renew, Advance, Defer, Skip, Complete
<1>2. now \in Nat /\ since[w] \in Nat
  BY DEF TypeOK
<1>3. CASE RecordVisit(w)
  <2>1. PICK t \in Readings(w) : visitAt' = [visitAt EXCEPT ![j] = IF @ = Null THEN t ELSE @]
    BY <1>3 DEF RecordVisit
  <2>2. t \in Nat
    BY <1>2 DEF Readings
  <2>3. visitAt' \in [Assignments -> Nat]
    BY <2>1, <2>2 DEF TypeOK
  <2>. QED
    BY <1>3, <2>3 DEF RecordVisit, TypeOK, Phases, Working
<1>4. CASE Renew(w)
  BY <1>1, <1>2, <1>4, TimeAssumption DEF Renew, TypeOK
<1>5. ASSUME NEW p \in Journey, Advance(w, p)
      PROVE  TypeOK'
  <2>1. p \in Phases
    BY BoundAssumption DEF Phases
  <2>. QED
    BY <1>5, <2>1 DEF Advance, TypeOK
<1>6. CASE Defer(w)
  <2>1. PICK t \in Readings(w) : nextAt' = [nextAt EXCEPT ![j] = t + RetryDelay]
    BY <1>6 DEF Defer
  <2>2. t + RetryDelay \in Nat
    BY <1>2, TimeAssumption DEF Readings
  <2>3. nextAt' \in [Assignments -> Nat]
    BY <2>1, <2>2 DEF TypeOK
  <2>. QED
    BY <1>6, <2>3 DEF Defer, Dropped, EmptyHands, TypeOK, Phases, Waiting
<1>7. CASE Skip(w) \/ Complete(w)
  <2>1. roundState' \in [Rounds -> RoundStates]
    BY <1>7 DEF Skip, Complete, MarkRound, TypeOK, RoundStates
  <2>. QED
    BY <1>7, <2>1 DEF Skip, Complete, Dropped, EmptyHands, TypeOK, Phases, Terminal
<1>. QED
  BY <1>3, <1>4, <1>5, <1>6, <1>7

\* Nor do the commands of the operator.
LEMMA StepTypeOK == TypeOK /\ [Next]_vars => TypeOK'
<1> SUFFICES ASSUME TypeOK, [Next]_vars
             PROVE  TypeOK'
  OBVIOUS
<1>1. CASE Command
  <2>1. ASSUME NEW a \in Assignments, Retry(a)
        PROVE  TypeOK'
    BY <2>1 DEF Retry, lease, hands, TypeOK
  <2>2. ASSUME NEW x \in Operable, NEW s \in Controls, SetControl(x, s)
        PROVE  TypeOK'
    BY <2>2 DEF SetControl, row, lease, hands, TypeOK
  <2>3. ASSUME NEW r \in Rounds, NEW s \in RoundCommands, SetRound(r, s)
        PROVE  TypeOK'
    <3>1. s \in RoundStates
      BY BoundAssumption DEF RoundStates
    <3>. QED
      BY <2>3, <3>1 DEF SetRound, row, lease, hands, TypeOK
  <2>. QED
    BY <1>1, <2>1, <2>2, <2>3 DEF Command
<1>2. CASE UNCHANGED vars
  BY <1>2 DEF vars, row, lease, hands, TypeOK
<1>. QED
  BY <1>1, <1>2, FleetTypeOK, WorkerTypeOK DEF Next, Operate

-----------------------------------------------------------------------------
(* What a step can do to leases, visits and hands.                         *)

\* The steps that touch neither leases nor visits, by what they leave alone.
LEMMA QuietSteps ==
  ASSUME [Next]_vars
  PROVE  \/ /\ UNCHANGED <<owner, expires, visitAt, job, since>>
            /\ now' = now \/ Tick
         \/ /\ UNCHANGED <<owner, expires, visitAt, now>>
            /\ \E w \in Workers : EmptyHands(w)
         \/ RecoverExpired
         \/ \E w \in Workers :
              \/ \E r \in Rounds : Claim(w, r) \/ ClaimNothing(w, r)
              \/ RecordVisit(w) \/ Renew(w) \/ Defer(w) \/ Skip(w) \/ Complete(w)
<1> USE DEF row, lease, hands
<1>1. CASE UNCHANGED vars
  BY <1>1 DEF vars
<1>2. CASE Command
  BY <1>2 DEF Command, Retry, SetControl, SetRound
<1>3. ASSUME \/ \E w \in Workers : GrantFence(w) \/ ReviveFence(w)
             \/ \E S \in SUBSET Workers : LapseFence(S)
      PROVE  UNCHANGED <<owner, expires, visitAt, job, since, now>>
  BY <1>3 DEF GrantFence, LapseFence, ReviveFence
<1>4. ASSUME NEW w \in Workers, EndWorker(w) \/ LoseJob(w)
      PROVE  UNCHANGED <<owner, expires, visitAt, now>> /\ EmptyHands(w)
  BY <1>4 DEF EndWorker, LoseJob
<1>5. ASSUME NEW w \in Workers, NEW p \in Journey, Advance(w, p)
      PROVE  UNCHANGED <<owner, expires, visitAt, job, since, now>>
  BY <1>5 DEF Advance
<1>6. CASE Tick
  BY <1>6 DEF Tick
<1>. QED
  BY <1>1, <1>2, <1>3, <1>4, <1>5, <1>6 DEF Next, Device, Operate

\* What a claim does: one eligible row is leased, no other row gains a lease.
LEMMA ClaimFrame ==
  ASSUME TypeOK, NEW w \in Workers, NEW r \in Rounds, Claim(w, r)
  PROVE  \E a \in Assignments :
           /\ a \in Eligible(w, r)
           /\ owner'[a] = w /\ DeviceOf[a] = HostOf[w] /\ ~Blocked(a)
           /\ job' = [job EXCEPT ![w] = a] /\ since' = [since EXCEPT ![w] = now]
           /\ UNCHANGED <<now, visitAt>>
           /\ \A b \in Assignments \ {a} :
                owner'[b] = Nobody \/ (owner'[b] = owner[b] /\ expires'[b] = expires[b])
<1>1. PICK a \in Eligible(w, r) :
        /\ owner' = [b \in Assignments |->
                       IF b = a THEN w
                       ELSE IF b \in Stale(w, r) THEN Nobody ELSE owner[b]]
        /\ expires' = [b \in Assignments |->
                         IF b = a THEN now + ClaimTTL
                         ELSE IF b \in Stale(w, r) THEN 0 ELSE expires[b]]
        /\ job' = [job EXCEPT ![w] = a]
        /\ since' = [since EXCEPT ![w] = now]
  BY DEF Claim
<1>2. a \in Assignments /\ DeviceOf[a] = HostOf[w] /\ ~Blocked(a)
  BY DEF Eligible
<1>3. UNCHANGED <<now, visitAt>>
  BY DEF Claim
<1>4. \A b \in Assignments \ {a} :
        owner'[b] = Nobody \/ (owner'[b] = owner[b] /\ expires'[b] = expires[b])
  BY <1>1
<1>. QED
  BY <1>1, <1>2, <1>3, <1>4

\* A lease after the step is that of a claim, or was live and had its owner.
LEMMA LeaseFrame ==
  ASSUME TypeOK, [Next]_vars, NEW a \in Assignments, owner'[a] # Nobody
  PROVE  \/ owner'[a] = owner[a] /\ (Leased(a, now)' => Leased(a, now))
         \/ \E w \in Workers, r \in Rounds :
              /\ Claim(w, r)
              /\ owner'[a] = w /\ DeviceOf[a] = HostOf[w] /\ ~Blocked(a)
              /\ job' = [job EXCEPT ![w] = a] /\ since' = [since EXCEPT ![w] = now]
              /\ UNCHANGED <<now, visitAt>>
              /\ \A b \in Assignments \ {a} :
                   owner'[b] = Nobody \/ (owner'[b] = owner[b] /\ expires'[b] = expires[b])
<1>1. now \in Nat /\ expires[a] \in Nat
  BY DEF TypeOK
<1>2. CASE UNCHANGED <<owner, expires>> /\ (now' = now \/ Tick)
  BY <1>1, <1>2 DEF Tick, Leased
<1>3. ASSUME NEW R \in SUBSET Assignments, Recovered(R), now' = now
      PROVE  owner'[a] = owner[a] /\ (Leased(a, now)' => Leased(a, now))
  BY <1>1, <1>3 DEF Recovered, Leased
<1>4. CASE RecoverExpired
  <2>1. PICK t \in 1..now : Recovered({b \in Assignments : Expired(b, t)})
    BY <1>4 DEF RecoverExpired
  <2>2. now' = now
    BY <1>4 DEF RecoverExpired
  <2>. QED
    BY <1>3, <2>1, <2>2
<1>5. ASSUME NEW w \in Workers, NEW r \in Rounds, ClaimNothing(w, r)
      PROVE  owner'[a] = owner[a] /\ (Leased(a, now)' => Leased(a, now))
  <2>1. Recovered(Stale(w, r)) /\ now' = now /\ Stale(w, r) \subseteq Assignments
    BY <1>5 DEF ClaimNothing, Stale
  <2>. QED
    BY <1>3, <2>1
<1>6. ASSUME NEW w \in Workers, RecordVisit(w)
      PROVE  UNCHANGED <<owner, expires, now>>
  BY <1>6 DEF RecordVisit, lease
<1>7. ASSUME NEW w \in Workers, Renew(w)
      PROVE  owner'[a] = owner[a] /\ (Leased(a, now)' => Leased(a, now))
  <2>1. UNCHANGED <<owner, now>>
    BY <1>7 DEF Renew
  <2>2. a = job[w] \/ expires'[a] = expires[a]
    BY <1>7 DEF Renew, TypeOK
  <2>3. Leased(job[w], now)
    BY <1>7, InHands DEF Renew
  <2>. QED
    BY <2>1, <2>2, <2>3 DEF Leased
<1>8. ASSUME NEW w \in Workers, Defer(w) \/ Skip(w) \/ Complete(w)
      PROVE  owner'[a] = owner[a] /\ (Leased(a, now)' => Leased(a, now))
  <2>1. Dropped(job[w]) /\ now' = now
    BY <1>8 DEF Defer, Skip, Complete
  <2>. QED
    BY <2>1 DEF Dropped, TypeOK, Leased
<1>9. ASSUME NEW w \in Workers, NEW r \in Rounds, Claim(w, r)
      PROVE  \/ owner'[a] = owner[a] /\ (Leased(a, now)' => Leased(a, now))
             \/ /\ Claim(w, r)
                /\ owner'[a] = w /\ DeviceOf[a] = HostOf[w] /\ ~Blocked(a)
                /\ job' = [job EXCEPT ![w] = a] /\ since' = [since EXCEPT ![w] = now]
                /\ UNCHANGED <<now, visitAt>>
                /\ \A b \in Assignments \ {a} :
                     owner'[b] = Nobody \/ (owner'[b] = owner[b] /\ expires'[b] = expires[b])
  <2>1. PICK c \in Assignments :
           /\ owner'[c] = w /\ DeviceOf[c] = HostOf[w] /\ ~Blocked(c)
           /\ job' = [job EXCEPT ![w] = c] /\ since' = [since EXCEPT ![w] = now]
           /\ UNCHANGED <<now, visitAt>>
           /\ \A b \in Assignments \ {c} :
                owner'[b] = Nobody \/ (owner'[b] = owner[b] /\ expires'[b] = expires[b])
    BY <1>9, ClaimFrame
  <2>. QED
    BY <1>9, <2>1 DEF Leased
<1>. QED
  BY <1>2, <1>4, <1>5, <1>6, <1>7, <1>8, <1>9, QuietSteps

\* Hands that are full after a step were full of the same row, or have just
\* claimed it.
LEMMA HandsFrame ==
  ASSUME TypeOK, [Next]_vars, NEW w \in Workers, job'[w] # Nobody
  PROVE  \/ job'[w] = job[w] /\ since'[w] = since[w]
         \/ \E r \in Rounds : Claim(w, r)
<1>1. ASSUME NEW v \in Workers, EmptyHands(v)
      PROVE  job'[w] = job[w] /\ since'[w] = since[w]
  BY <1>1 DEF EmptyHands, TypeOK
<1>2. ASSUME NEW v \in Workers, NEW r \in Rounds, Claim(v, r), v # w
      PROVE  job'[w] = job[w] /\ since'[w] = since[w]
  <2>1. PICK a : job' = [job EXCEPT ![v] = a] /\ since' = [since EXCEPT ![v] = now]
    BY <1>2 DEF Claim
  <2>. QED
    BY <1>2, <2>1 DEF TypeOK
<1>3. ASSUME NEW v \in Workers, Defer(v) \/ Skip(v) \/ Complete(v)
      PROVE  EmptyHands(v)
  BY <1>3 DEF Defer, Skip, Complete
<1>4. \A v \in Workers, r \in Rounds : ClaimNothing(v, r) => UNCHANGED <<job, since>>
  BY DEF ClaimNothing, hands
<1>5. RecoverExpired => UNCHANGED <<job, since>>
  BY DEF RecoverExpired, hands
<1>6. \A v \in Workers : RecordVisit(v) \/ Renew(v) => UNCHANGED <<job, since>>
  BY DEF RecordVisit, Renew, hands
<1>. QED
  BY <1>1, <1>2, <1>3, <1>4, <1>5, <1>6, QuietSteps

\* A visit is stored once, by the worker that has the row under a live lease,
\* with a time read since it claimed the row.
LEMMA VisitFrame ==
  ASSUME TypeOK, [Next]_vars, NEW a \in Assignments, visitAt'[a] # visitAt[a]
  PROVE  \E w \in Workers :
           /\ Fenced(w) /\ job[w] = a /\ visitAt[a] = Null /\ visitAt'[a] \in Readings(w)
           /\ \A b \in Assignments \ {a} : visitAt'[b] = visitAt[b]
           /\ UNCHANGED <<now, owner, expires, job, since>>
<1>1. PICK w \in Workers : RecordVisit(w)
  BY QuietSteps
  DEF RecoverExpired, Claim, ClaimNothing, Renew, Defer, Skip, Complete
<1>2. PICK t \in Readings(w) :
        visitAt' = [visitAt EXCEPT ![job[w]] = IF @ = Null THEN t ELSE @]
  BY <1>1 DEF RecordVisit
<1>3. Fenced(w) /\ UNCHANGED <<now, owner, expires, job, since>>
  BY <1>1 DEF RecordVisit, lease, hands
<1>4. job[w] = a /\ visitAt[a] = Null /\ visitAt'[a] = t
  BY <1>2 DEF TypeOK
<1>. QED
  BY <1>2, <1>3, <1>4 DEF TypeOK

-----------------------------------------------------------------------------
(* The invariant.                                                          *)

\* Two rows of a target are never leased at a moment.
LEMMA ExclusiveStep ==
  ASSUME TypeOK, TypeOK', TargetExclusive, [Next]_vars
  PROVE  TargetExclusive'
<1> SUFFICES ASSUME NEW a \in Assignments, NEW b \in Assignments,
                    a # b, TargetOf[a] = TargetOf[b],
                    Leased(a, now)', Leased(b, now)'
             PROVE  FALSE
  BY DEF TargetExclusive
<1>1. owner'[a] # Nobody /\ owner'[b] # Nobody
  BY DEF Leased
<1>2. ~(Leased(a, now) /\ Leased(b, now))
  BY DEF TargetExclusive
<1>3. \A c, d \in Assignments :
        c # d /\ TargetOf[c] = TargetOf[d] /\ Leased(d, now) => Blocked(c)
  BY DEF Blocked, SameTarget
<1>4. ASSUME NEW c \in Assignments, NEW d \in Assignments, {c, d} = {a, b}, ~Leased(c, now)
      PROVE  FALSE
  <2>1. c # d /\ TargetOf[c] = TargetOf[d] /\ Leased(c, now)' /\ Leased(d, now)'
    BY <1>4
  <2>2. PICK w \in Workers :
          /\ ~Blocked(c) /\ now' = now
          /\ owner'[d] = Nobody \/ (owner'[d] = owner[d] /\ expires'[d] = expires[d])
    BY <1>1, <1>4, <2>1, LeaseFrame
  <2>3. Leased(d, now)
    BY <2>1, <2>2 DEF Leased
  <2>. QED
    BY <1>3, <2>1, <2>2, <2>3
<1>. QED
  BY <1>2, <1>4

\* A row is leased to a worker of its device.
LEMMA HostStep ==
  ASSUME TypeOK, OwnersAreHosts, [Next]_vars
  PROVE  OwnersAreHosts'
BY LeaseFrame DEF OwnersAreHosts

\* Nobody visits a target behind the back of the worker that holds it.
LEMMA GapStep ==
  ASSUME TypeOK, TypeOK', TargetExclusive, GapBeforeClaim, [Next]_vars
  PROVE  GapBeforeClaim'
<1> SUFFICES ASSUME NEW w \in Workers, NEW b \in Assignments,
                    (/\ job[w] # Nobody /\ owner[job[w]] = w /\ Leased(job[w], now)
                     /\ b \in SameTarget(job[w]) /\ visitAt[b] # Null)'
             PROVE  visitAt'[b] + Gap <= since'[w]
  BY DEF GapBeforeClaim
<1> PICK a \in Assignments : job'[w] = a
  BY DEF TypeOK
<1>0. /\ owner'[a] = w /\ Leased(a, now)'
      /\ b \in SameTarget(a) /\ visitAt'[b] # Null
  BY DEF SameTarget, Leased
<1>1. job'[w] # Nobody /\ owner'[a] # Nobody /\ a # b /\ TargetOf[b] = TargetOf[a]
  BY <1>0, NobodyAssumption DEF SameTarget
<1>2. CASE job[w] = a /\ since'[w] = since[w] /\ owner[a] = w /\ Leased(a, now)
  <2>1. visitAt'[b] = visitAt[b]
    <3>1. SUFFICES ASSUME visitAt'[b] # visitAt[b]
                   PROVE  FALSE
      OBVIOUS
    <3>2. PICK v \in Workers : Fenced(v) /\ job[v] = b
      BY <3>1, VisitFrame
    <3>3. Leased(b, now)
      BY <3>2, InHands
    <3>. QED
      BY <1>1, <1>2, <3>3 DEF TargetExclusive
  <2>. QED
    BY <1>0, <1>1, <1>2, <2>1 DEF GapBeforeClaim
<1>3. ASSUME NEW v \in Workers, ~Blocked(a), owner'[a] = v,
             since' = [since EXCEPT ![v] = now], UNCHANGED visitAt
      PROVE  visitAt'[b] + Gap <= since'[w]
  <2>1. v = w /\ since'[w] = now
    BY <1>0, <1>3 DEF TypeOK
  <2>2. ~(visitAt[b] # Null /\ visitAt[b] + Gap > now)
    BY <1>1, <1>3 DEF Blocked, SameTarget
  <2>3. visitAt[b] \in Nat /\ now \in Nat /\ Gap \in Nat
    BY TimeAssumption DEF TypeOK
  <2>. QED
    BY <1>0, <1>3, <2>1, <2>2, <2>3
<1>4. ASSUME NEW r \in Rounds, Claim(w, r)
      PROVE  ~Blocked(a) /\ since' = [since EXCEPT ![w] = now] /\ UNCHANGED visitAt
  <2>1. PICK c \in Assignments : /\ ~Blocked(c) /\ job' = [job EXCEPT ![w] = c]
                                 /\ since' = [since EXCEPT ![w] = now] /\ UNCHANGED visitAt
    BY <1>4, ClaimFrame
  <2>2. c = a
    BY <2>1 DEF TypeOK
  <2>. QED
    BY <2>1, <2>2
<1>5. CASE \E r \in Rounds : Claim(w, r)
  BY <1>3, <1>4, <1>5
<1>6. CASE job'[w] = job[w] /\ since'[w] = since[w]
  <2>1. CASE owner'[a] = owner[a] /\ Leased(a, now)
    BY <1>0, <1>2, <1>6, <2>1
  <2>2. CASE \E v \in Workers : /\ ~Blocked(a) /\ owner'[a] = v
                                /\ since' = [since EXCEPT ![v] = now] /\ UNCHANGED visitAt
    BY <1>3, <2>2
  <2>3. \/ owner'[a] = owner[a] /\ Leased(a, now)
        \/ \E v \in Workers : /\ ~Blocked(a) /\ owner'[a] = v
                              /\ since' = [since EXCEPT ![v] = now] /\ UNCHANGED visitAt
    BY <1>0, <1>1, LeaseFrame
  <2>. QED
    BY <2>1, <2>2, <2>3
<1>. QED
  BY <1>1, <1>5, <1>6, HandsFrame

\* A new visit comes at least Gap after the visits there are.
LEMMA ApartStep ==
  ASSUME TypeOK, TypeOK', GapBeforeClaim, VisitsApart, [Next]_vars
  PROVE  VisitsApart'
<1> SUFFICES ASSUME NEW a \in Assignments, NEW b \in Assignments,
                    a # b, TargetOf[a] = TargetOf[b], visitAt'[a] # Null, visitAt'[b] # Null
             PROVE  visitAt'[a] + Gap <= visitAt'[b] \/ visitAt'[b] + Gap <= visitAt'[a]
  BY DEF VisitsApart
<1>1. ASSUME NEW c \in Assignments, NEW d \in Assignments, {c, d} = {a, b},
             visitAt'[c] # visitAt[c]
      PROVE  visitAt'[d] + Gap <= visitAt'[c]
  <2>1. PICK w \in Workers :
          /\ Fenced(w) /\ job[w] = c /\ visitAt'[c] \in Readings(w)
          /\ \A e \in Assignments \ {c} : visitAt'[e] = visitAt[e]
    BY <1>1, VisitFrame
  <2>2. visitAt'[d] = visitAt[d] /\ visitAt[d] # Null /\ d \in SameTarget(c)
    BY <1>1, <2>1 DEF SameTarget
  <2>3. visitAt[d] + Gap <= since[w]
    BY <2>1, <2>2, InHands, NobodyAssumption DEF GapBeforeClaim
  <2>4. visitAt[d] \in Nat /\ since[w] \in Nat /\ now \in Nat /\ Gap \in Nat
    BY TimeAssumption DEF TypeOK
  <2>. QED
    BY <2>1, <2>2, <2>3, <2>4 DEF Readings
<1>2. CASE visitAt'[a] = visitAt[a] /\ visitAt'[b] = visitAt[b]
  BY <1>2 DEF VisitsApart
<1>. QED
  BY <1>1, <1>2

\* What ends, ends for good; a row ends only by Skip and Complete.
LEMMA EndFrame ==
  ASSUME TypeOK, [Next]_vars
  PROVE  \/ \A a \in Assignments : phase'[a] = phase[a] \/ {phase'[a], phase[a]} \cap Terminal = {}
         \/ \E w \in Workers : Skip(w) \/ Complete(w)
<1>1. ASSUME NEW R \in SUBSET Assignments, Recovered(R), \A a \in R : phase[a] \notin Terminal
      PROVE  \A a \in Assignments : phase'[a] = phase[a] \/ {phase'[a], phase[a]} \cap Terminal = {}
  BY <1>1 DEF Recovered, Terminal
<1>2. CASE RecoverExpired
  <2>1. PICK t \in 1..now : Recovered({a \in Assignments : Expired(a, t)})
    BY <1>2 DEF RecoverExpired
  <2>. QED
    BY <1>1, <2>1 DEF Expired
<1>3. ASSUME NEW w \in Workers, NEW r \in Rounds, ClaimNothing(w, r)
      PROVE  \A a \in Assignments : phase'[a] = phase[a] \/ {phase'[a], phase[a]} \cap Terminal = {}
  BY <1>1, <1>3 DEF ClaimNothing, Stale, Expired
<1>4. ASSUME NEW w \in Workers, NEW r \in Rounds, Claim(w, r)
      PROVE  \A a \in Assignments : phase'[a] = phase[a] \/ {phase'[a], phase[a]} \cap Terminal = {}
  <2>1. PICK c \in Eligible(w, r) :
          phase' = [b \in Assignments |->
                      IF b = c THEN "profile_opening"
                      ELSE IF b \notin Stale(w, r) THEN phase[b]
                      ELSE IF visitAt[b] = Null THEN "pending" ELSE "deferred"]
    BY <1>4 DEF Claim
  <2>2. phase[c] \notin Terminal /\ \A b \in Stale(w, r) : phase[b] \notin Terminal
    BY DEF Eligible, Stale, Expired, Waiting, Terminal
  <2>. QED
    BY <2>1, <2>2 DEF Terminal
<1>5. ASSUME NEW w \in Workers, NEW p, NEW q,
             job[w] \in Assignments, phase[job[w]] \notin Terminal, q \notin Terminal,
             phase' = [phase EXCEPT ![job[w]] = q]
      PROVE  \A a \in Assignments : phase'[a] = phase[a] \/ {phase'[a], phase[a]} \cap Terminal = {}
  BY <1>5 DEF TypeOK
<1>6. ASSUME NEW w \in Workers, RecordVisit(w) \/ Defer(w) \/ \E p \in Journey : Advance(w, p)
      PROVE  \A a \in Assignments : phase'[a] = phase[a] \/ {phase'[a], phase[a]} \cap Terminal = {}
  <2>1. job[w] \in Assignments
    BY <1>6, InHands DEF RecordVisit, Defer, Advance
  <2>2. phase[job[w]] \notin Terminal
    BY <1>6, AllowedPhases DEF RecordVisit, Defer, Advance
  <2>3. PICK q : q \notin Terminal /\ phase' = [phase EXCEPT ![job[w]] = q]
    BY <1>6, BoundAssumption DEF RecordVisit, Defer, Advance, Terminal, Working
  <2>. QED
    BY <1>5, <2>1, <2>2, <2>3
<1>7. CASE phase' = phase
  BY <1>7
<1>8. \/ phase' = phase
      \/ RecoverExpired
      \/ \E w \in Workers :
           \/ \E r \in Rounds : Claim(w, r) \/ ClaimNothing(w, r)
           \/ RecordVisit(w) \/ Defer(w) \/ Skip(w) \/ Complete(w)
           \/ \E p \in Journey : Advance(w, p)
  BY DEF Next, vars, row, Command, Retry, SetControl, SetRound, Tick, Device, GrantFence,
         LapseFence, ReviveFence, EndWorker, LoseJob, Operate, Renew
<1>. QED
  BY <1>2, <1>3, <1>4, <1>6, <1>7, <1>8

\* The state of a round moves by its end, by a claim and by the operator.
LEMMA RoundFrame ==
  ASSUME [Next]_vars
  PROVE  \/ roundState' = roundState
         \/ \E w \in Workers, r \in Rounds : Claim(w, r)
         \/ \E w \in Workers : Skip(w) \/ Complete(w)
         \/ \E r \in Rounds, s \in RoundCommands : SetRound(r, s)
BY DEF Next, vars, row, lease, hands, Command, Retry, SetControl, Tick, Device, GrantFence,
       LapseFence, ReviveFence, EndWorker, LoseJob, Operate, Renew, RecoverExpired,
       ClaimNothing, RecordVisit, Advance, Defer

\* A round is marked completed with its last row, and never otherwise.
LEMMA RoundStep ==
  ASSUME TypeOK, RoundCompletedIffDone, [Next]_vars
  PROVE  RoundCompletedIffDone'
<1> SUFFICES ASSUME NEW r \in Rounds
             PROVE  (roundState'[r] = "completed") <=> AllTerminal(r, phase')
  BY DEF RoundCompletedIffDone, AllTerminal
<1>1. (roundState[r] = "completed") <=> AllTerminal(r, phase)
  BY DEF RoundCompletedIffDone
<1>2. ASSUME NEW w \in Workers, Skip(w) \/ Complete(w)
      PROVE  (roundState'[r] = "completed") <=> AllTerminal(r, phase')
  <2> DEFINE j == job[w]
  <2>1. j \in Assignments
    BY <1>2, InHands DEF Skip, Complete
  <2>2. phase[j] \notin Terminal
    BY <1>2, AllowedPhases DEF Skip, Complete, Terminal
  <2>3. /\ MarkRound(RoundOf[j])
        /\ \A a \in Assignments \ {j} : phase'[a] = phase[a]
    BY <1>2 DEF Skip, Complete, TypeOK
  <2>4. CASE r = RoundOf[j]
    <3>1. roundState[r] # "completed"
      BY <1>1, <2>1, <2>2, <2>4 DEF AllTerminal
    <3>. QED
      BY <2>3, <2>4, <3>1 DEF MarkRound, TypeOK
  <2>5. CASE r # RoundOf[j]
    <3>1. roundState'[r] = roundState[r]
      BY <2>3, <2>5 DEF MarkRound, TypeOK
    <3>2. AllTerminal(r, phase') <=> AllTerminal(r, phase)
      BY <2>3, <2>5 DEF AllTerminal
    <3>. QED
      BY <1>1, <3>1, <3>2
  <2>. QED
    BY <2>4, <2>5
<1>3. ASSUME \A a \in Assignments : phase'[a] = phase[a] \/ {phase'[a], phase[a]} \cap Terminal = {}
      PROVE  (roundState'[r] = "completed") <=> AllTerminal(r, phase')
  <2>1. AllTerminal(r, phase') <=> AllTerminal(r, phase)
    BY <1>3 DEF AllTerminal
  <2>2. ASSUME NEW w \in Workers, NEW q \in Rounds, Claim(w, q)
        PROVE  (roundState'[r] = "completed") <=> (roundState[r] = "completed")
    <3>1. roundState' = [roundState EXCEPT ![q] = "running"]
      BY <2>2 DEF Claim
    <3>2. roundState[q] # "completed"
      BY <2>2 DEF Claim, CanClaim
    <3>. QED
      BY <3>1, <3>2 DEF TypeOK
  <2>3. ASSUME NEW q \in Rounds, NEW s \in RoundCommands, SetRound(q, s)
        PROVE  (roundState'[r] = "completed") <=> (roundState[r] = "completed")
    <3>1. s # "completed"
      BY BoundAssumption
    <3>. QED
      BY <2>3, <3>1 DEF SetRound, TypeOK
  <2>. QED
    BY <1>1, <1>2, <2>1, <2>2, <2>3, RoundFrame
<1>. QED
  BY <1>2, <1>3, EndFrame

\* Rows end and gain visits only in the hands of fenced workers.
LEMMA WriteStep ==
  ASSUME TypeOK, OwnersAreHosts, [Next]_vars, NEW a \in Assignments,
         (phase'[a] # phase[a] /\ phase'[a] \in Terminal) \/ visitAt'[a] # visitAt[a]
  PROVE  /\ Leased(a, now)
         /\ fence[owner[a]] = "active"
         /\ DeviceOf[a] = HostOf[owner[a]]
<1>1. ASSUME NEW w \in Workers, Fenced(w), job[w] = a
      PROVE  /\ Leased(a, now)
             /\ fence[owner[a]] = "active"
             /\ DeviceOf[a] = HostOf[owner[a]]
  BY <1>1, InHands, NobodyAssumption DEF Fenced, OwnersAreHosts, Leased
<1>2. CASE visitAt'[a] # visitAt[a]
  BY <1>1, <1>2, VisitFrame
<1>3. CASE phase'[a] # phase[a] /\ phase'[a] \in Terminal
  <2>1. ~ \A b \in Assignments : phase'[b] = phase[b] \/ {phase'[b], phase[b]} \cap Terminal = {}
    BY <1>3
  <2>2. ASSUME NEW w \in Workers, Skip(w) \/ Complete(w)
        PROVE  Fenced(w) /\ job[w] = a
    BY <1>3, <2>2 DEF Skip, Complete, TypeOK
  <2>. QED
    BY <1>1, <2>1, <2>2, EndFrame
<1>. QED
  BY <1>2, <1>3

-----------------------------------------------------------------------------
(* The fences.                                                             *)

\* What a step does to the fences.
LEMMA FenceFrame ==
  ASSUME TypeOK, WaitingIdle, [Next]_vars
  PROVE  Leases!FenceNext \/ fence' = fence
<1>1. CASE UNCHANGED vars
  BY <1>1 DEF vars
<1>2. CASE Command
  BY <1>2 DEF Command, Retry, SetControl, SetRound
<1>3. CASE Tick \/ RecoverExpired
  BY <1>3 DEF Tick, RecoverExpired
<1>4. ASSUME NEW S \in SUBSET Workers, LapseFence(S)
      PROVE  Leases!FenceNext
  BY <1>4 DEF LapseFence, Leases!FenceNext
<1>5. ASSUME NEW w \in Workers, Device(w)
      PROVE  Leases!FenceNext \/ fence' = fence
  <2>1. CASE GrantFence(w) \/ ReviveFence(w) \/ EndWorker(w)
    BY <2>1 DEF GrantFence, ReviveFence, EndWorker, Leases!FenceNext
  <2>2. CASE LoseJob(w)
    <3>1. fence' = [fence EXCEPT ![w] = "out"] /\ fence[w] \in {"active", "lapsed", "out"}
      BY <2>2 DEF LoseJob, TypeOK, WaitingIdle, Leases!Fences
    <3>2. CASE fence[w] = "out"
      BY <3>1, <3>2 DEF TypeOK
    <3>3. CASE fence[w] # "out"
      BY <3>1, <3>3 DEF Leases!End, Leases!FenceNext
    <3>. QED
      BY <3>2, <3>3
  <2>. QED
    BY <1>5, <2>1, <2>2 DEF Device
<1>6. ASSUME NEW w \in Workers, Operate(w)
      PROVE  fence' = fence
  BY <1>6 DEF Operate, Claim, ClaimNothing, RecordVisit, Renew, Advance, Defer, Skip, Complete
<1>. QED
  BY <1>1, <1>2, <1>3, <1>4, <1>5, <1>6 DEF Next

\* A grant puts out whoever had the device, so one launch of it is in force.
LEMMA InForceStep ==
  ASSUME TypeOK, WaitingIdle, Leases!OneInForce, [Next]_vars
  PROVE  Leases!OneInForce'
<1> USE DEF TypeOK, Leases!Fences, Leases!OneInForce
<1>1. CASE fence' = fence
  BY <1>1
<1>2. ASSUME NEW w \in Workers, Leases!Grant(w)
      PROVE  Leases!OneInForce'
  BY <1>2 DEF Leases!Grant
<1>3. ASSUME NEW w \in Workers, Leases!Revive(w) \/ Leases!End(w)
      PROVE  Leases!OneInForce'
  BY <1>3 DEF Leases!Revive, Leases!End
<1>4. ASSUME NEW S \in SUBSET Workers, Leases!Lapse(S)
      PROVE  Leases!OneInForce'
  BY <1>4 DEF Leases!Lapse
<1>. QED
  BY <1>1, <1>2, <1>3, <1>4, FenceFrame DEF Leases!FenceNext

\* Only a launch that has its device claims rows.
LEMMA IdleStep ==
  ASSUME TypeOK, WaitingIdle, [Next]_vars
  PROVE  WaitingIdle'
<1> SUFFICES ASSUME NEW w \in Workers, fence'[w] = "waiting", job'[w] # Nobody
             PROVE  FALSE
  BY DEF WaitingIdle
<1>1. fence[w] = "waiting"
  BY FenceFrame
  DEF TypeOK, Leases!Fences, Leases!FenceNext, Leases!Grant, Leases!Revive, Leases!End,
      Leases!Lapse
<1>2. job[w] = Nobody
  BY <1>1 DEF WaitingIdle
<1>3. PICK r \in Rounds : Claim(w, r)
  BY <1>2, HandsFrame
<1>. QED
  BY <1>1, <1>3 DEF Claim, CanClaim

-----------------------------------------------------------------------------
(* The courses of the rows.                                                *)

\* A row is claimed with the time of the claim.
LEMMA DatedStep ==
  ASSUME TypeOK, ClaimsDated, [Next]_vars
  PROVE  ClaimsDated'
<1> SUFFICES ASSUME NEW w \in Workers, job'[w] # Nobody
             PROVE  since'[w] > 0
  BY DEF ClaimsDated
<1>1. CASE job'[w] = job[w] /\ since'[w] = since[w]
  BY <1>1 DEF ClaimsDated
<1>2. ASSUME NEW r \in Rounds, Claim(w, r)
      PROVE  since'[w] > 0
  <2>1. since' = [since EXCEPT ![w] = now]
    BY <1>2 DEF Claim
  <2>. QED
    BY <2>1 DEF TypeOK
<1>. QED
  BY <1>1, <1>2, HandsFrame

\* The steps that move a row, by the call that makes them.
LEMMA RowSteps ==
  ASSUME [Next]_vars
  PROVE  \/ phase' = phase /\ visitAt' = visitAt
         \/ RecoverExpired
         \/ \E w \in Workers :
              \/ \E r \in Rounds : Claim(w, r) \/ ClaimNothing(w, r)
              \/ RecordVisit(w) \/ Defer(w) \/ Skip(w) \/ Complete(w)
              \/ \E p \in Journey : Advance(w, p)
BY DEF Next, vars, row, Command, Retry, SetControl, SetRound, Tick, Device, GrantFence,
       LapseFence, ReviveFence, EndWorker, LoseJob, Operate, Renew

\* What the worker's calls make of the row in its hands.
LEMMA WorkerCourse ==
  ASSUME TypeOK, ClaimsDated, NEW w \in Workers, NEW a \in Assignments, job[w] = a,
         \/ RecordVisit(w) \/ Defer(w) \/ Skip(w) \/ Complete(w)
         \/ \E p \in Journey : Advance(w, p)
  PROVE  Course(a)!CourseNext
<1> USE DEF Course!CourseNext
<1>1. CASE RecordVisit(w)
  <2>1. PICK t \in Readings(w) : visitAt' = [visitAt EXCEPT ![a] = IF @ = Null THEN t ELSE @]
    BY <1>1 DEF RecordVisit
  <2>2. t > 0
    BY NobodyAssumption DEF Readings, ClaimsDated, TypeOK
  <2>3. visitAt'[a] # Null
    BY <2>1, <2>2 DEF TypeOK, Null
  <2>4. "identity_confirmed" \in Allowed(phase[a]) /\ phase'[a] = "identity_confirmed"
    BY <1>1 DEF RecordVisit, TypeOK
  <2>. QED
    BY <2>3, <2>4 DEF Course!Identified, Course!Allowed, Allowed
<1>2. ASSUME NEW p \in Journey, Advance(w, p)
      PROVE  Course(a)!CourseNext
  <2>1. /\ p \in Allowed(phase[a]) /\ phase'[a] = p /\ visitAt' = visitAt
        /\ p = "identity_confirmed" => visitAt[a] # Null
    BY <1>2 DEF Advance, TypeOK
  <2>2. p \in Working
    BY BoundAssumption
  <2>. QED
    BY <2>1, <2>2
    DEF Course!Moved, Course!Working, Course!Allowed, Working, Allowed
<1>3. CASE Defer(w)
  <2>1. phase[a] \notin Terminal /\ phase'[a] = "deferred" /\ visitAt' = visitAt
    BY <1>3 DEF Defer, TypeOK
  <2>. QED
    BY <2>1 DEF Course!Deferred, Course!Terminal, Terminal
<1>4. CASE Skip(w)
  <2>1. /\ phase[a] = "profile_opening" /\ visitAt[a] = Null
        /\ phase'[a] = "skipped" /\ visitAt' = visitAt
    BY <1>4 DEF Skip, TypeOK
  <2>. QED
    BY <2>1 DEF Course!Skipped
<1>5. CASE Complete(w)
  <2>1. /\ "completed" \in Allowed(phase[a])
        /\ phase'[a] = "completed" /\ visitAt' = visitAt
    BY <1>5 DEF Complete, TypeOK
  <2>. QED
    BY <2>1 DEF Course!Completed, Course!Allowed, Allowed
<1>. QED
  BY <1>1, <1>2, <1>3, <1>4, <1>5

\* Every step leaves a row alone or takes it one step along its course.
LEMMA CourseFrame ==
  ASSUME TypeOK, ClaimsDated, [Next]_vars, NEW a \in Assignments
  PROVE  Course(a)!CourseNext \/ (phase'[a] = phase[a] /\ visitAt'[a] = visitAt[a])
<1>1. ASSUME NEW R \in SUBSET Assignments, Recovered(R), visitAt' = visitAt,
             \A b \in R : phase[b] \notin Terminal
      PROVE  Course(a)!CourseNext \/ (phase'[a] = phase[a] /\ visitAt'[a] = visitAt[a])
  <2>1. CASE a \in R
    <3>1. /\ phase[a] \notin Terminal
          /\ phase'[a] = IF visitAt[a] = Null THEN "pending" ELSE "deferred"
      BY <1>1, <2>1 DEF Recovered
    <3>. QED
      BY <1>1, <3>1
      DEF Course!CourseNext, Course!Recovered, Course!Terminal, Terminal
  <2>2. CASE a \notin R
    BY <1>1, <2>2 DEF Recovered
  <2>. QED
    BY <2>1, <2>2
<1>2. CASE RecoverExpired
  <2>1. PICK t \in 1..now : Recovered({b \in Assignments : Expired(b, t)})
    BY <1>2 DEF RecoverExpired
  <2>2. visitAt' = visitAt
    BY <1>2 DEF RecoverExpired
  <2>. QED
    BY <1>1, <2>1, <2>2 DEF Expired
<1>3. ASSUME NEW w \in Workers, NEW r \in Rounds, ClaimNothing(w, r)
      PROVE  Course(a)!CourseNext \/ (phase'[a] = phase[a] /\ visitAt'[a] = visitAt[a])
  BY <1>1, <1>3 DEF ClaimNothing, Stale, Expired
<1>4. ASSUME NEW w \in Workers, NEW r \in Rounds, Claim(w, r)
      PROVE  Course(a)!CourseNext \/ (phase'[a] = phase[a] /\ visitAt'[a] = visitAt[a])
  <2>1. PICK c \in Eligible(w, r) :
          phase' = [b \in Assignments |->
                      IF b = c THEN "profile_opening"
                      ELSE IF b \notin Stale(w, r) THEN phase[b]
                      ELSE IF visitAt[b] = Null THEN "pending" ELSE "deferred"]
    BY <1>4 DEF Claim
  <2>2. visitAt' = visitAt
    BY <1>4 DEF Claim
  <2>3. phase[c] \notin Terminal /\ \A b \in Stale(w, r) : phase[b] \notin Terminal
    BY DEF Eligible, Stale, Expired, Waiting, Terminal
  <2>4. CASE a = c
    BY <2>1, <2>2, <2>3, <2>4
    DEF Course!CourseNext, Course!Claimed, Course!Terminal, Terminal
  <2>5. CASE a # c /\ a \in Stale(w, r)
    BY <2>1, <2>2, <2>3, <2>5
    DEF Course!CourseNext, Course!Recovered, Course!Terminal, Terminal
  <2>6. CASE a # c /\ a \notin Stale(w, r)
    BY <2>1, <2>2, <2>6
  <2>. QED
    BY <2>4, <2>5, <2>6
<1>5. ASSUME NEW w \in Workers,
             \/ RecordVisit(w) \/ Defer(w) \/ Skip(w) \/ Complete(w)
             \/ \E p \in Journey : Advance(w, p)
      PROVE  Course(a)!CourseNext \/ (phase'[a] = phase[a] /\ visitAt'[a] = visitAt[a])
  <2>1. CASE job[w] = a
    BY <1>5, <2>1, WorkerCourse
  <2>2. CASE job[w] # a
    BY <1>5, <2>2 DEF TypeOK, RecordVisit, Defer, Skip, Complete, Advance
  <2>. QED
    BY <2>1, <2>2
<1>. QED
  BY <1>2, <1>3, <1>4, <1>5, RowSteps

\* The table lets no row past the opening of the profile without a visit.
LEMMA VisitFirstStep ==
  ASSUME NEW a \in Assignments, Course(a)!VisitFirst, Course(a)!CourseNext
  PROVE  Course(a)!VisitFirst'
<1> USE DEF Course!VisitFirst, Course!Working
<1>1. CASE Course(a)!Recovered \/ Course(a)!Claimed \/ Course(a)!Deferred
  BY <1>1 DEF Course!Recovered, Course!Claimed, Course!Deferred
<1>2. CASE Course(a)!Identified
  BY <1>2 DEF Course!Identified
<1>3. CASE Course(a)!Moved
  BY <1>3 DEF Course!Moved, Course!Allowed
<1>4. CASE Course(a)!Skipped
  BY <1>4 DEF Course!Skipped
<1>5. CASE Course(a)!Completed
  BY <1>5 DEF Course!Completed, Course!Allowed
<1>. QED
  BY <1>1, <1>2, <1>3, <1>4, <1>5 DEF Course!CourseNext

LEMMA VisitsFirstStep ==
  ASSUME TypeOK, ClaimsDated, VisitsFirst, [Next]_vars
  PROVE  VisitsFirst'
<1> SUFFICES ASSUME NEW a \in Assignments
             PROVE  Course(a)!VisitFirst'
  BY DEF VisitsFirst
<1>1. Course(a)!VisitFirst
  BY DEF VisitsFirst
<1>2. CASE phase'[a] = phase[a] /\ visitAt'[a] = visitAt[a]
  BY <1>1, <1>2 DEF Course!VisitFirst, Course!Working
<1>. QED
  BY <1>1, <1>2, CourseFrame, VisitFirstStep

-----------------------------------------------------------------------------
(* The theorems.                                                           *)

\* The invariant holds at first: every round has rows that wait.
LEMMA InitIInv == Init => IInv
<1> SUFFICES ASSUME Init
             PROVE  IInv
  OBVIOUS
<1>1. TypeOK
  BY InitTypeOK
<1>2. OwnersAreHosts /\ TargetExclusive /\ GapBeforeClaim /\ VisitsApart
      /\ WaitingIdle /\ Leases!OneInForce
  BY DEF Init, WaitingIdle, Leases!OneInForce, OwnersAreHosts, TargetExclusive, GapBeforeClaim, VisitsApart, Leased
<1>3. RoundCompletedIffDone
  BY RoundAssumption DEF Init, RoundCompletedIffDone, AllTerminal, Terminal
<1>4. ClaimsDated /\ VisitsFirst
  BY DEF Init, ClaimsDated, VisitsFirst, Course!VisitFirst, Course!Working
<1>. QED
  BY <1>1, <1>2, <1>3, <1>4 DEF IInv

LEMMA StepIInv == IInv /\ [Next]_vars => IInv'
<1> SUFFICES ASSUME IInv, [Next]_vars
             PROVE  IInv'
  OBVIOUS
<1>1. /\ TypeOK /\ WaitingIdle /\ ClaimsDated /\ VisitsFirst
      /\ Leases!OneInForce /\ OwnersAreHosts /\ TargetExclusive
      /\ GapBeforeClaim /\ VisitsApart /\ RoundCompletedIffDone
  BY DEF IInv
<1>2. TypeOK'
  BY <1>1, StepTypeOK
<1>3. OwnersAreHosts'
  BY <1>1, HostStep
<1>4. TargetExclusive'
  BY <1>1, <1>2, ExclusiveStep
<1>5. GapBeforeClaim'
  BY <1>1, <1>2, GapStep
<1>6. VisitsApart'
  BY <1>1, <1>2, ApartStep
<1>7. RoundCompletedIffDone'
  BY <1>1, RoundStep
<1>8. WaitingIdle' /\ Leases!OneInForce'
  BY <1>1, <1>2, IdleStep, InForceStep
<1>9. ClaimsDated' /\ VisitsFirst'
  BY <1>1, DatedStep, VisitsFirstStep
<1>. QED
  BY <1>2, <1>3, <1>4, <1>5, <1>6, <1>7, <1>8, <1>9 DEF IInv

\* Every reachable state satisfies the invariant.
THEOREM Invariance == Spec => []IInv
BY InitIInv, StepIInv, PTL DEF Spec

\* The types of the ledger are never left.
THEOREM TypeCorrect == Spec => []TypeOK
<1>1. IInv => TypeOK
  BY DEF IInv
<1>. QED
  BY <1>1, Invariance, PTL

\* A target is worked on by one worker at a time, over all devices and rounds.
THEOREM TargetsExclusive == Spec => []TargetExclusive
<1>1. IInv => TargetExclusive
  BY DEF IInv
<1>. QED
  BY <1>1, Invariance, PTL

\* The visits of a target lie at least the gap apart.
THEOREM VisitsKeepApart == Spec => []VisitsApart
<1>1. IInv => VisitsApart
  BY DEF IInv
<1>. QED
  BY <1>1, Invariance, PTL

\* A round is completed exactly when all its rows have ended.
THEOREM RoundsCompleted == Spec => []RoundCompletedIffDone
<1>1. IInv => RoundCompletedIffDone
  BY DEF IInv
<1>. QED
  BY <1>1, Invariance, PTL

\* Rows end and gain visits under live leases and active fences only.
THEOREM FencedWrites == Spec => OnlyFencedWrites
<1>1. IInv /\ [Next]_vars =>
        [\A a \in Assignments :
           (phase'[a] # phase[a] /\ phase'[a] \in Terminal) \/ visitAt'[a] # visitAt[a]
             => /\ Leased(a, now)
                /\ fence[owner[a]] = "active"
                /\ DeviceOf[a] = HostOf[owner[a]]]_vars
  BY WriteStep DEF IInv
<1>. QED
  BY <1>1, Invariance, PTL DEF Spec, OnlyFencedWrites

\* Of the launches of a device at most one can ever write to the ledger again.
THEOREM OneLaunchInForce == Spec => []Leases!OneInForce
<1>1. IInv => Leases!OneInForce
  BY DEF IInv
<1>. QED
  BY <1>1, Invariance, PTL

\* The ledger asks nothing of its fences but what LaunchFence describes, which
\* is what WorkerLease implements.
THEOREM FencesAsDescribed == Spec => ImplementsFence
<1>1. Init => Leases!FenceInit
  BY DEF Init, Leases!FenceInit
<1>2. IInv /\ [Next]_vars => [Leases!FenceNext]_fence
  BY FenceFrame DEF IInv
<1>. QED
  BY <1>1, <1>2, Invariance, PTL DEF Spec, ImplementsFence, Leases!FenceSpec

\* No row gets past the opening of the profile, or is completed, without a
\* visit of its target; none that was visited is skipped.
THEOREM VisitedFirst == Spec => []VisitsFirst
<1>1. IInv => VisitsFirst
  BY DEF IInv
<1>. QED
  BY <1>1, Invariance, PTL

\* Each row takes the course RowCourse describes, whatever the clock, the
\* leases, the other rows and the operators do.
THEOREM RowsTakeTheirCourse == Spec => ImplementsCourses
<1> SUFFICES ASSUME NEW a \in Assignments
             PROVE  Spec => Course(a)!CourseSpec
  BY DEF ImplementsCourses
<1>1. Init => Course(a)!CourseInit
  BY DEF Init, Course!CourseInit
<1>2. IInv /\ [Next]_vars => [Course(a)!CourseNext]_(Course(a)!courseVars)
  BY CourseFrame DEF IInv, Course!courseVars
<1>. QED
  BY <1>1, <1>2, Invariance, PTL DEF Spec, Course!CourseSpec

-----------------------------------------------------------------------------
(* Where the rows come from: the import of a pool (TargetImport).          *)
(*                                                                         *)
(* A position of a list from which the targets of a set have been taken,   *)
(* but for the first of them.                                              *)

\* A set of numbers has a least one.
LEMMA LeastOf ==
  ASSUME NEW S \in SUBSET Nat, S # {}
  PROVE  \E i \in S : \A j \in S : i <= j
<1>1. PICK i \in S : \A j \in S : <<j, i>> \notin OpToRel(<, Nat)
  BY WFMin, NatLessThanWellFounded, Zenon
<1>2. \A j \in S : ~(j < i)
  BY <1>1, Zenon DEF OpToRel
<1>. QED
  BY <1>2

\* Min, which the reader renumbers by, is that one.
LEMMA MinIsLeast ==
  ASSUME NEW M \in SUBSET Nat, M # {}
  PROVE  Min(M) \in M /\ \A j \in M : Min(M) <= j
BY LeastOf DEF Min

\* The members of D before position i.
Below(D, i) == {d \in D : d < i}

\* Between two positions at most as many members of D are passed as positions, and one
\* fewer when the first is not a member.
LEMMA CountBelow ==
  ASSUME NEW D \in SUBSET Nat, IsFiniteSet(D), NEW i \in Nat, NEW j \in Nat, i <= j
  PROVE  /\ Cardinality(Below(D, i)) \in Nat
         /\ Cardinality(Below(D, i)) <= Cardinality(Below(D, j))
         /\ Cardinality(Below(D, j)) <= Cardinality(Below(D, i)) + (j - i)
         /\ i < j /\ i \notin D =>
              Cardinality(Below(D, j)) <= Cardinality(Below(D, i)) + (j - i) - 1
<1> DEFINE Between == {d \in D : i <= d /\ d < j}
<1>1. /\ IsFiniteSet(Below(D, i)) /\ IsFiniteSet(Between) /\ IsFiniteSet(Below(D, j))
      /\ Cardinality(Below(D, i)) \in Nat /\ Cardinality(Between) \in Nat
      /\ Cardinality(Below(D, j)) \in Nat
  <2>1. Below(D, i) \in SUBSET D /\ Between \in SUBSET D /\ Below(D, j) \in SUBSET D
    BY DEF Below
  <2>. QED
    BY <2>1, FS_Subset, FS_CardinalityType
<1>2. Cardinality(Below(D, j)) = Cardinality(Below(D, i)) + Cardinality(Between)
  <2>1. Below(D, j) = Below(D, i) \cup Between /\ Below(D, i) \cap Between = {}
    <3>1. \A d \in D : d < j <=> d < i \/ (i <= d /\ d < j)
      OBVIOUS
    <3>2. \A d \in D : ~(d < i /\ i <= d)
      OBVIOUS
    <3>. QED
      BY <3>1, <3>2, Zenon DEF Below
  <2>. HIDE DEF Between
  <2>2. Cardinality(Below(D, i) \cup Between) =
          Cardinality(Below(D, i)) + Cardinality(Between) - Cardinality(Below(D, i) \cap Between)
    BY <1>1, FS_Union, Zenon
  <2>. QED
    BY <1>1, <2>1, <2>2, FS_EmptySet
<1>3. Cardinality(Between) <= j - i
  <2>1. Between \in SUBSET (i..(j - 1))
    <3>1. \A d \in D : i <= d /\ d < j => d \in i..(j - 1)
      OBVIOUS
    <3>. QED
      BY <3>1, Zenon
  <2>2. IsFiniteSet(i..(j - 1)) /\ Cardinality(i..(j - 1)) = j - i
    <3>1. i \in Int /\ j - 1 \in Int
      OBVIOUS
    <3>2. /\ IsFiniteSet(i..(j - 1))
          /\ Cardinality(i..(j - 1)) = IF i > j - 1 THEN 0 ELSE (j - 1) - i + 1
      BY <3>1, FS_Interval
    <3>. QED
      BY <3>2
  <2>. QED
    BY <2>1, <2>2, FS_Subset, Zenon
<1>4. ASSUME i < j, i \notin D PROVE Cardinality(Between) <= j - i - 1
  <2>1. Between \in SUBSET ((i + 1)..(j - 1))
    <3>1. \A d \in D : i <= d /\ d < j => d \in (i + 1)..(j - 1)
      BY <1>4
    <3>. QED
      BY <3>1, Zenon
  <2>2. IsFiniteSet((i + 1)..(j - 1)) /\ Cardinality((i + 1)..(j - 1)) = j - i - 1
    <3>1. i + 1 \in Int /\ j - 1 \in Int
      OBVIOUS
    <3>2. /\ IsFiniteSet((i + 1)..(j - 1))
          /\ Cardinality((i + 1)..(j - 1)) =
               IF i + 1 > j - 1 THEN 0 ELSE (j - 1) - (i + 1) + 1
      BY <3>1, FS_Interval
    <3>. QED
      BY <1>4, <3>2
  <2>. HIDE DEF Between
  <2>3. Cardinality(Between) <= Cardinality((i + 1)..(j - 1))
    BY <2>1, <2>2, FS_Subset, Zenon
  <2>. QED
    BY <2>2, <2>3
<1>. HIDE DEF Between
<1>. QED
  BY <1>1, <1>2, <1>3, <1>4

\* Where targets are found once those of M are one: the places left are filled
\* without a gap, and no two share one but those of M.
Kept(n, M) == (1..n) \ (M \ {Min(M)})

\* Renumber leaves out no place and gives no place twice, but to those of M.
LEMMA Places ==
  ASSUME NEW n \in Nat, NEW M \in SUBSET (1..n), M # {}
  PROVE  /\ Cardinality(M) \in Nat
         /\ Cardinality(Kept(n, M)) \in Nat
         /\ Cardinality(Kept(n, M)) = n - Cardinality(M) + 1
         /\ Min(M) \in M /\ Min(M) \in Kept(n, M)
         /\ \A i \in M : Renumber(i, M) = Min(M)
         /\ \A i \in 1..n : Renumber(i, M) \in 1..Cardinality(Kept(n, M))
         /\ \A i, j \in Kept(n, M) : Renumber(i, M) = Renumber(j, M) => i = j
         /\ \A p \in 1..Cardinality(Kept(n, M)) : \E i \in Kept(n, M) : Renumber(i, M) = p
<1> DEFINE rest == (1..n) \ (M \ {Min(M)})
           D == M \ {Min(M)}
           R(i) == i - Cardinality(Below(D, i))
           m == Cardinality(rest)
<1>1. M \in SUBSET Nat /\ Min(M) \in M /\ \A j \in M : Min(M) <= j
  BY MinIsLeast
<1>2. IsFiniteSet(1..n) /\ Cardinality(1..n) = n
  BY FS_Interval
<1>3. /\ IsFiniteSet(M) /\ Cardinality(M) \in Nat
      /\ IsFiniteSet(D) /\ Cardinality(D) = Cardinality(M) - 1
      /\ D \in SUBSET (1..n) /\ D \in SUBSET Nat
  <2>1. IsFiniteSet(M) /\ Cardinality(M) \in Nat
    BY <1>2, FS_Subset, FS_CardinalityType
  <2>. QED
    BY <1>1, <2>1, FS_RemoveElement
<1>4. IsFiniteSet(rest) /\ m = n - Cardinality(M) + 1 /\ m \in Nat
  <2>1. (1..n) \cap D = D
    BY <1>3
  <2>2. IsFiniteSet(rest) /\ m = Cardinality(1..n) - Cardinality((1..n) \cap D)
    BY <1>2, FS_Difference
  <2>3. m \in Nat
    BY <2>2, FS_CardinalityType
  <2>. HIDE DEF D, m
  <2>4. m = n - Cardinality(D)
    BY <1>2, <2>1, <2>2
  <2>. QED
    BY <1>3, <2>2, <2>3, <2>4
<1>5. Min(M) \in rest /\ rest \subseteq 1..n /\ rest \cap D = {}
  BY <1>1
<1>. HIDE DEF m, D, rest
<1>6. ASSUME NEW i \in rest PROVE Renumber(i, M) = R(i)
  <2>1. CASE i \in M
    <3>1. i = Min(M)
      BY <2>1 DEF rest
    <3>2. \A d \in D : ~(d < i)
      <4>1. \A d \in D : d \in M /\ d \in Nat /\ i <= d /\ i \in Nat
        BY <1>1, <3>1 DEF D
      <4>. QED
        BY <4>1
    <3>3. Below(D, i) = {}
      BY <3>2, Zenon DEF Below
    <3>. QED
      BY <1>1, <2>1, <3>1, <3>3, FS_EmptySet DEF Renumber
  <2>2. CASE i \notin M
    BY <2>2 DEF Renumber, Below, D
  <2>. QED
    BY <2>1, <2>2
<1>7. ASSUME NEW i \in rest PROVE R(i) \in 1..m
  <2>1. i \in 1..n /\ i \notin D
    BY <1>5
  <2>2. Cardinality(Below(D, i)) \in Nat /\ R(i) \in Int
    <3>1. i \in Nat /\ i <= i
      BY <2>1
    <3>2. Cardinality(Below(D, i)) \in Nat
      BY <1>3, <3>1, CountBelow, Zenon
    <3>. QED
      BY <3>1, <3>2
  <2>3. R(i) >= 1
    <3>1. Cardinality(Below(D, 1)) = 0
      <4>1. \A d \in D : ~(d < 1)
        BY <1>3
      <4>2. Below(D, 1) = {}
        BY <4>1, Zenon DEF Below
      <4>. QED
        BY <4>2, FS_EmptySet
    <3>2. Cardinality(Below(D, i)) <= Cardinality(Below(D, 1)) + (i - 1)
      <4>1. 1 \in Nat /\ i \in Nat /\ 1 <= i
        BY <2>1
      <4>. QED
        BY <1>3, <4>1, CountBelow, Zenon
    <3>. QED
      BY <2>1, <2>2, <3>1, <3>2
  <2>4. R(i) <= m
    <3>1. Below(D, n + 1) = D
      <4>1. \A d \in D : d < n + 1
        BY <1>3
      <4>. QED
        BY <4>1, Zenon DEF Below
    <3>2. Cardinality(Below(D, n + 1)) <= Cardinality(Below(D, i)) + (n + 1 - i) - 1
      <4>1. i \in Nat /\ n + 1 \in Nat /\ i <= n + 1 /\ i < n + 1
        BY <2>1
      <4>. QED
        <5>1. i < n + 1 /\ i \notin D =>
                Cardinality(Below(D, n + 1)) <= Cardinality(Below(D, i)) + ((n + 1) - i) - 1
          BY <1>3, <4>1, CountBelow, Zenon
        <5>. QED
          BY <2>1, <4>1, <5>1
    <3>. QED
      BY <1>3, <1>4, <2>1, <2>2, <3>1, <3>2
  <2>. QED
    BY <1>4, <2>2, <2>3, <2>4
<1>8. ASSUME NEW i \in rest, NEW j \in rest, i < j PROVE R(i) < R(j)
  <2>1. i \in 1..n /\ j \in 1..n /\ i \notin D
    BY <1>5
  <2>2. /\ Cardinality(Below(D, i)) \in Nat /\ Cardinality(Below(D, j)) \in Nat
        /\ Cardinality(Below(D, j)) <= Cardinality(Below(D, i)) + (j - i) - 1
    <3>1. i \in Nat /\ j \in Nat /\ i <= j /\ j <= j
      BY <1>8, <2>1
    <3>2. Cardinality(Below(D, j)) \in Nat
      BY <1>3, <3>1, CountBelow, Zenon
    <3>. QED
      BY <1>3, <1>8, <2>1, <3>1, <3>2, CountBelow, Zenon
  <2>. QED
    BY <2>1, <2>2
<1>9. ASSUME NEW i \in rest, NEW j \in rest, R(i) = R(j) PROVE i = j
  <2>1. i \in Int /\ j \in Int /\ R(i) \in Int /\ R(j) \in Int
    BY <1>5, <1>7
  <2>. QED
    BY <1>8, <1>9, <2>1
<1>10. \A p \in 1..m : \E i \in rest : R(i) = p
  <2> DEFINE f == [i \in rest |-> R(i)]
  <2>1. f \in Injection(rest, 1..m)
    BY <1>7, <1>9 DEF Injection, IsInjective
  <2>2. IsFiniteSet(1..m) /\ Cardinality(1..m) = m
    BY <1>4, FS_Interval
  <2>3. f \in Surjection(rest, 1..m)
    <3>. HIDE DEF f
    <3>. QED
      BY <2>1, <2>2, FS_Injection DEF m
  <2>. QED
    BY <2>3 DEF Surjection
<1>11. ASSUME NEW i \in M PROVE Renumber(i, M) = Min(M)
  BY DEF Renumber
<1>12. ASSUME NEW i \in 1..n PROVE Renumber(i, M) \in 1..m
  <2>1. CASE i \in rest
    BY <1>6, <1>7, <2>1
  <2>2. CASE i \notin rest
    <3>1. Renumber(i, M) = Renumber(Min(M), M)
      BY <1>1, <1>11, <2>2 DEF rest
    <3>. QED
      BY <1>5, <1>6, <1>7, <3>1
  <2>. QED
    BY <2>1, <2>2
<1>13. \A i, j \in rest : Renumber(i, M) = Renumber(j, M) => i = j
  BY <1>6, <1>9
<1>14. \A p \in 1..m : \E i \in rest : Renumber(i, M) = p
  BY <1>6, <1>10
<1>. HIDE DEF R
<1>. QED
  BY <1>1, <1>3, <1>4, <1>5, <1>11, <1>12, <1>13, <1>14, Zenon DEF m, rest, Kept

-----------------------------------------------------------------------------
(* The parts into which kin divides a set.                                 *)

\* What the reference definition of the parts says, for citing.
LEMMA PartsAre ==
  ASSUME NEW kin, NEW S
  PROVE  S \in Parts(kin) <=>
           /\ S \subseteq DOMAIN kin /\ S # {} /\ Closed(S, kin)
           /\ \A T : T \subseteq S /\ T # {} /\ Closed(T, kin) => T = S
BY DEF Parts

\* A set that kin does not leave holds the whole of every part it meets.
LEMMA PartsWithin ==
  ASSUME NEW kin, NEW S \in Parts(kin), NEW T, Closed(T, kin), S \cap T # {}
  PROVE  S \subseteq T
<1>1. Closed(S \cap T, kin)
  BY PartsAre DEF Closed
<1>. QED
  BY <1>1, PartsAre

\* Two parts that share a member are the same.
LEMMA PartsApart ==
  ASSUME NEW kin, NEW S \in Parts(kin), NEW T \in Parts(kin), S \cap T # {}
  PROVE  S = T
<1>1. Closed(S, kin) /\ Closed(T, kin)
  BY PartsAre
<1>2. S \subseteq T /\ T \subseteq S
  BY <1>1, PartsWithin
<1>. QED
  BY <1>2

\* next is kin with one element more.
Grown(kin, next, n) ==
  /\ n \notin DOMAIN kin /\ DOMAIN next = DOMAIN kin \cup {n}
  /\ \A i \in DOMAIN kin : kin[i] \subseteq DOMAIN kin /\ next[i] \ {n} = kin[i]
  /\ next[n] \subseteq DOMAIN next
  /\ \A i \in DOMAIN kin : n \in next[i] <=> i \in next[n]

\* The new element and what it has kin in.
Touched(kin, s) == {S \in Parts(kin) : S \cap s # {}}
Whole(kin, next, n) == (UNION Touched(kin, next[n])) \cup {n}

\* One element more: the parts it has kin in become one with it, the others stay.
LEMMA NewPart ==
  ASSUME NEW kin, NEW next, NEW n, Grown(kin, next, n), UNION Parts(kin) = DOMAIN kin
  PROVE  /\ \A S : S \in Parts(next) <=>
                   \/ S \in Parts(kin) /\ S \notin Touched(kin, next[n])
                   \/ S = Whole(kin, next, n)
         /\ UNION Parts(next) = DOMAIN next
<1> DEFINE V == DOMAIN kin
           Q == Touched(kin, next[n])
           L == (UNION Q) \cup {n}
<1>0. /\ n \notin V /\ DOMAIN next = V \cup {n}
      /\ \A i \in V : kin[i] \subseteq V /\ next[i] \ {n} = kin[i]
      /\ next[n] \subseteq V \cup {n}
      /\ \A i \in V : n \in next[i] <=> i \in next[n]
      /\ UNION Parts(kin) = V
      /\ Q = {S \in Parts(kin) : S \cap next[n] # {}}
  BY DEF Grown, Touched
<1>. HIDE DEF V, Q
<1>1. \A S \in Parts(kin) : S \subseteq V /\ S # {} /\ Closed(S, kin)
  BY PartsAre DEF V
<1>2. ASSUME NEW T, T \subseteq V \cup {n}, Closed(T, next), NEW S \in Parts(kin), S \cap T # {}
      PROVE  S \subseteq T
  <2>1. ASSUME NEW i \in S \cap T PROVE kin[i] \subseteq S \cap T
    BY <1>0, <1>1, <1>2, <2>1 DEF Closed
  <2>2. Closed(S \cap T, kin)
    BY <1>0, <2>1 DEF Closed
  <2>. QED
    BY <1>2, <2>2, PartsAre
<1>3. L \in Parts(next)
  <2>1. L \subseteq V \cup {n} /\ L # {}
    BY <1>0, <1>1
  <2>2. ASSUME NEW i \in L PROVE next[i] \subseteq L
    <3>1. CASE i = n
      <4>1. ASSUME NEW x \in next[n], x \in V PROVE x \in L
        BY <1>0, <4>1
      <4>. QED
        BY <1>0, <3>1, <4>1
    <3>2. CASE i # n
      <4>1. PICK S \in Q : i \in S
        BY <1>0, <3>2
      <4>2. i \in V /\ kin[i] \subseteq S
        BY <1>0, <1>1, <4>1 DEF Closed
      <4>. QED
        BY <1>0, <4>1, <4>2
    <3>. QED
      BY <1>0, <3>1, <3>2
  <2>3. ASSUME NEW T, T \subseteq L, T # {}, Closed(T, next)
        PROVE  T = L
    <3>1. T \subseteq V \cup {n}
      BY <1>0, <2>1, <2>3
    <3>2. n \in T
      <4>1. SUFFICES ASSUME n \notin T PROVE FALSE
        BY <1>0
      <4>2. PICK S \in Q : S \cap T # {}
        BY <1>0, <2>3, <4>1
      <4>3. S \subseteq T
        BY <1>0, <1>2, <2>3, <3>1, <4>2
      <4>4. PICK x \in S : x \in next[n]
        BY <1>0, <4>2
      <4>5. x \in V /\ n \in next[x]
        BY <1>0, <1>1, <4>2, <4>4
      <4>. QED
        BY <1>0, <2>3, <4>1, <4>3, <4>4, <4>5 DEF Closed
    <3>3. ASSUME NEW S \in Q PROVE S \subseteq T
      <4>1. next[n] \subseteq T
        BY <1>0, <2>3, <3>2 DEF Closed
      <4>2. S \cap T # {}
        BY <1>0, <4>1
      <4>. QED
        BY <1>0, <1>2, <2>3, <3>1, <4>2
    <3>. QED
      BY <1>0, <2>3, <3>2, <3>3
  <2>4. Closed(L, next)
    BY <1>0, <2>2 DEF Closed
  <2>. HIDE DEF L
  <2>. QED
    BY <1>0, <2>1, <2>3, <2>4, PartsAre
<1>4. ASSUME NEW S \in Parts(kin), S \notin Q PROVE S \in Parts(next)
  <2>1. S \subseteq V /\ S # {} /\ Closed(S, kin) /\ S \cap next[n] = {}
    BY <1>0, <1>1, <1>4
  <2>2. Closed(S, next)
    <3>1. ASSUME NEW i \in S PROVE next[i] \subseteq S
      BY <1>0, <2>1, <3>1 DEF Closed
    <3>. QED
      BY <1>0, <3>1 DEF Closed
  <2>3. ASSUME NEW T, T \subseteq S, T # {}, Closed(T, next)
        PROVE  T = S
    <3>1. T \subseteq V \cup {n} /\ S \cap T # {}
      BY <1>0, <2>1, <2>3
    <3>. QED
      BY <1>0, <1>2, <2>3, <3>1
  <2>. QED
    BY <1>0, <2>1, <2>2, <2>3, PartsAre
<1>5. ASSUME NEW i \in V \cup {n} PROVE \E S \in (Parts(kin) \ Q) \cup {L} : i \in S
  <2>1. CASE i \in L
    BY <1>0, <2>1
  <2>2. CASE i \notin L
    <3>1. PICK S \in Parts(kin) : i \in S
      BY <1>0, <2>2
    <3>2. S \notin Q
      BY <1>0, <2>2, <3>1
    <3>. QED
      BY <1>0, <3>1, <3>2
  <2>. QED
    BY <1>0, <2>1, <2>2
<1>6. ASSUME NEW S \in Parts(next) PROVE S \in (Parts(kin) \ Q) \cup {L}
  <2>1. S \subseteq V \cup {n} /\ S # {}
    BY <1>0, PartsAre
  <2>2. PICK i \in S : TRUE
    BY <1>0, <2>1
  <2>3. PICK T \in (Parts(kin) \ Q) \cup {L} : i \in T
    BY <1>0, <1>5, <2>1, <2>2
  <2>4. T \in Parts(next)
    BY <1>0, <1>3, <1>4, <2>3
  <2>5. S = T
    BY <1>0, <2>2, <2>3, <2>4, PartsApart
  <2>. QED
    BY <1>0, <2>3, <2>5
<1>7. Parts(next) = (Parts(kin) \ Q) \cup {L}
  <2>. HIDE DEF L
  <2>. QED
    BY <1>0, <1>3, <1>4, <1>6
<1>8. UNION Parts(next) = V \cup {n}
  <2>1. \A S \in Parts(next) : S \subseteq V \cup {n}
    BY <1>0, PartsAre
  <2>. HIDE DEF L
  <2>. QED
    BY <1>0, <1>5, <1>7, <2>1
<1>. QED
  BY <1>0, <1>7, <1>8 DEF Q, Whole

-----------------------------------------------------------------------------
(* The list of targets.                                                    *)

\* The members of the sets that W gives the members of D.
AllOf(W, D) == UNION {W[i] : i \in D}

\* The sum that import_pool stores counts the members of disjoint sets when the rows
\* behind each target are as many as the members of its set.
LEMMA RowsSummed ==
  ASSUME NEW D, D = DOMAIN targets, IsFiniteSet(D),
         NEW F, IsFiniteSet(F),
         NEW W,
         \A i \in D : W[i] \subseteq F /\ RowsBehind(targets[i]) = Cardinality(W[i]),
         \A i, j \in D : i # j => W[i] \cap W[j] = {}
  PROVE  MapThenSumSet(LAMBDA i : RowsBehind(targets[i]), D) =
           Cardinality(AllOf(W, D))
<1> DEFINE U(s) == UNION {W[i] : i \in s}
           g == [s \in SUBSET D |-> Cardinality(U(s))]
           pick(s) == CHOOSE x \in s : TRUE
<1>1. \A s \in SUBSET D : IsFiniteSet(U(s)) /\ Cardinality(U(s)) \in Nat
  <2>1. \A s \in SUBSET D : U(s) \in SUBSET F
    OBVIOUS
  <2>. HIDE DEF U
  <2>. QED
    BY <2>1, FS_Subset, FS_CardinalityType
<1>2. ASSUME NEW s \in SUBSET D, s # {}
      PROVE  /\ pick(s) \in s
             /\ Cardinality(U(s)) = RowsBehind(targets[pick(s)]) + Cardinality(U(s \ {pick(s)}))
  <2> DEFINE x == pick(s)
             own == W[x]
             rest == U(s \ {x})
  <2>1. x \in s
    BY <1>2
  <2>. HIDE DEF x
  <2>2. IsFiniteSet(own) /\ Cardinality(own) \in Nat /\ RowsBehind(targets[x]) = Cardinality(own)
    BY <2>1, FS_Subset, FS_CardinalityType
  <2>3. U(s) = own \cup rest
    BY <2>1
  <2>4. own \cap rest = {}
    BY <2>1
  <2>5. IsFiniteSet(rest) /\ Cardinality(rest) \in Nat
    BY <1>1
  <2>. HIDE DEF U, own, rest
  <2>6. Cardinality(own \cup rest) =
          Cardinality(own) + Cardinality(rest) - Cardinality(own \cap rest)
    BY <2>2, <2>5, FS_Union, Zenon
  <2>7. Cardinality(own \cap rest) = 0
    BY <2>4, FS_EmptySet, Zenon
  <2>8. Cardinality(own \cup rest) = Cardinality(own) + Cardinality(rest)
    BY <2>2, <2>5, <2>6, <2>7
  <2>9. Cardinality(U(s)) = RowsBehind(targets[x]) + Cardinality(rest)
    BY <2>2, <2>3, <2>8, Zenon
  <2>. QED
    BY <2>1, <2>9 DEF rest, x
<1>3. Cardinality(U({})) = 0
  <2>1. U({}) = {}
    OBVIOUS
  <2>. QED
    BY <2>1, FS_EmptySet
<1> DEFINE Rec(h, s) == IF s = {} THEN 0 ELSE RowsBehind(targets[pick(s)]) + h[s \ {pick(s)}]
<1>4. \A s \in SUBSET D : g[s] = Rec(g, s)
  <2>. HIDE DEF U, pick
  <2>. QED
    BY <1>2, <1>3
<1>5. g = [s \in SUBSET D |-> Rec(g, s)]
  <2>1. g = [s \in SUBSET D |-> g[s]]
    OBVIOUS
  <2>. HIDE DEF g, pick
  <2>. QED
    BY <1>4, <2>1
<1>6. ASSUME NEW h, h = [s \in SUBSET D |-> Rec(h, s)] PROVE h = g
  <2> DEFINE wrong == {s \in SUBSET D : h[s] # g[s]}
             sizes == {Cardinality(s) : s \in wrong}
  <2>. HIDE DEF g
  <2>0. \A s \in SUBSET D : IsFiniteSet(s) /\ Cardinality(s) \in Nat
    BY FS_Subset, FS_CardinalityType
  <2>1. wrong = {}
    <3>1. SUFFICES ASSUME wrong # {} PROVE FALSE
      OBVIOUS
    <3>2. sizes \in SUBSET Nat /\ sizes # {}
      BY <2>0, <3>1
    <3>3. PICK c \in sizes : \A d \in sizes : c <= d
      <4>. HIDE DEF sizes
      <4>. QED
        BY <3>2, LeastOf
    <3>4. PICK s \in wrong : Cardinality(s) = c
      BY <3>3
    <3>5. s # {}
      <4>1. h[{}] = 0 /\ g[{}] = 0
        BY <1>4, <1>6
      <4>. QED
        BY <3>4, <4>1
    <3>6. pick(s) \in s
      BY <1>2, <3>4, <3>5
    <3>. HIDE DEF pick
    <3>7. h[s \ {pick(s)}] = g[s \ {pick(s)}]
      <4>1. s \ {pick(s)} \in SUBSET D
        BY <3>4
      <4>2. Cardinality(s \ {pick(s)}) = Cardinality(s) - 1
        BY <2>0, <3>4, <3>6, FS_RemoveElement
      <4>3. Cardinality(s) \in Nat
        BY <2>0, <3>4
      <4>. QED
        BY <3>3, <3>4, <4>1, <4>2, <4>3
    <3>8. h[s] = Rec(h, s) /\ g[s] = Rec(g, s)
      BY <1>4, <1>6, <3>4
    <3>. QED
      BY <3>4, <3>5, <3>7, <3>8
  <2>2. g = [s \in SUBSET D |-> g[s]] /\ h = [s \in SUBSET D |-> h[s]]
    BY <1>6 DEF g
  <2>3. \A s \in SUBSET D : h[s] = g[s]
    BY <2>1
  <2>4. [s \in SUBSET D |-> h[s]] = [s \in SUBSET D |-> g[s]]
    BY <2>3
  <2>. QED
    BY <2>2, <2>4, Zenon
<1>7. MapThenSumSet(LAMBDA i : RowsBehind(targets[i]), D) = g[D]
  <2>. HIDE DEF g
  <2>1. g = [s \in SUBSET D |-> IF s = {} THEN 0 ELSE RowsBehind(targets[CHOOSE x \in s : TRUE])
                                  + g[s \ {CHOOSE x \in s : TRUE}]]
    BY <1>5
  <2>2. \A h : h = [s \in SUBSET D |-> IF s = {} THEN 0 ELSE
                                  RowsBehind(targets[CHOOSE x \in s : TRUE])
                                  + h[s \ {CHOOSE x \in s : TRUE}]] => h = g
    BY <1>6
  <2>. QED
    BY <2>1, <2>2, Zenon DEF MapThenSumSet, MapThenFoldSet
<1>. QED
  BY <1>7 DEF AllOf

\* The list that _merge_target leaves: the joined target at the place of the first it
\* matched, each other target at the place Renumber gives it.
LEMMA JoinedList ==
  ASSUME NEW T, targets \in Seq(T), NEW M \in SUBSET DOMAIN targets, M # {}, NEW whole \in T
  PROVE  /\ Joined(M, whole) \in Seq(T)
         /\ Cardinality(M) \in Nat
         /\ Len(Joined(M, whole)) = Len(targets) - Cardinality(M) + 1
         /\ Min(M) \in M
         /\ \A i \in M : Renumber(i, M) = Min(M)
         /\ \A i \in DOMAIN targets : Renumber(i, M) \in DOMAIN Joined(M, whole)
         /\ \A i, j \in DOMAIN targets :
              Renumber(i, M) = Renumber(j, M) <=> i = j \/ (i \in M /\ j \in M)
         /\ \A p \in DOMAIN Joined(M, whole) : \E i \in DOMAIN targets : Renumber(i, M) = p
         /\ \A i \in M : Joined(M, whole)[Renumber(i, M)] = whole
         /\ \A i \in DOMAIN targets \ M : Joined(M, whole)[Renumber(i, M)] = targets[i]
<1> DEFINE n == Len(targets)
           rest == Kept(n, M)
           m == Cardinality(rest)
           At(p) == CHOOSE i \in rest : Renumber(i, M) = p
<1>1. n \in Nat /\ DOMAIN targets = 1..n /\ \A i \in 1..n : targets[i] \in T
  BY LenProperties, ElementOfSeq
<1>2. /\ Cardinality(M) \in Nat
      /\ m \in Nat /\ m = n - Cardinality(M) + 1
      /\ Min(M) \in M /\ Min(M) \in rest
      /\ \A i \in M : Renumber(i, M) = Min(M)
      /\ \A i \in 1..n : Renumber(i, M) \in 1..m
      /\ \A i, j \in rest : Renumber(i, M) = Renumber(j, M) => i = j
      /\ \A p \in 1..m : \E i \in rest : Renumber(i, M) = p
  <2>1. n \in Nat /\ M \in SUBSET (1..n)
    BY <1>1
  <2>. HIDE DEF n
  <2>. QED
    BY <2>1, Places, Zenon
<1>3. Joined(M, whole) = [p \in 1..m |-> IF At(p) = Min(M) THEN whole ELSE targets[At(p)]]
  BY <1>1 DEF Joined, Kept
<1>4. \A i \in 1..n : i \in rest \/ i \in M
  BY DEF Kept
<1>5. rest \subseteq 1..n
  BY DEF Kept
<1>6. \A i \in rest : i \in M => i = Min(M)
  BY DEF Kept
<1>. HIDE DEF n, rest, m
<1>7. \A p \in 1..m : At(p) \in rest /\ Renumber(At(p), M) = p
  BY <1>2
<1>8. \A i \in rest : At(Renumber(i, M)) = i
  BY <1>2, <1>5, <1>7
<1>. HIDE DEF At
<1>9. Joined(M, whole) \in [1..m -> T]
  BY <1>1, <1>3, <1>5, <1>7
<1>10. Joined(M, whole) \in Seq(T) /\ DOMAIN Joined(M, whole) = 1..m /\ Len(Joined(M, whole)) = m
  BY <1>2, <1>9, IsASeq, LenProperties
<1>11. ASSUME NEW i \in 1..n, NEW j \in 1..n
       PROVE  Renumber(i, M) = Renumber(j, M) <=> i = j \/ (i \in M /\ j \in M)
  BY <1>2, <1>4, <1>6
<1>12. ASSUME NEW i \in 1..n
       PROVE  Joined(M, whole)[Renumber(i, M)] = IF i \in M THEN whole ELSE targets[i]
  <2>1. CASE i \in M
    <3>1. At(Min(M)) = Min(M)
      BY <1>2, <1>8
    <3>. QED
      BY <1>2, <1>3, <2>1, <3>1
  <2>2. CASE i \notin M
    <3>1. i \in rest /\ At(Renumber(i, M)) = i /\ Renumber(i, M) \in 1..m /\ i # Min(M)
      BY <1>2, <1>4, <1>8, <2>2
    <3>. QED
      BY <1>3, <2>2, <3>1
  <2>. QED
    BY <2>1, <2>2
<1>13. \A p \in 1..m : \E i \in 1..n : Renumber(i, M) = p
  BY <1>2, <1>5
<1>14. /\ \A i \in M : Joined(M, whole)[Renumber(i, M)] = whole
       /\ \A i \in (1..n) \ M : Joined(M, whole)[Renumber(i, M)] = targets[i]
  BY <1>1, <1>12
<1>. QED
  BY <1>1, <1>2, <1>10, <1>11, <1>13, <1>14 DEF n

-----------------------------------------------------------------------------
(* A row is read.                                                          *)

\* What the readers take for a row of a person.
Takes(entry) == IF reader = "priority" THEN entry.name # Blank ELSE ~Incomplete(entry)

\* The line of the row that is read next.
NewLine == Len(file) + 1

ReadsRow(entry) == file' = Append(file, entry) /\ reader' = reader

\* The file after one more row.
LEMMA FileRead ==
  ASSUME ImportTypeOK, NEW entry \in Rows, ReadsRow(entry)
  PROVE  /\ file' \in Seq(Rows)
         /\ Len(file') = NewLine /\ NewLine \in Nat \ {0} /\ NewLine \notin DOMAIN file
         /\ file'[NewLine] = entry
         /\ \A i \in DOMAIN file : file'[i] = file[i]
         /\ Valid \subseteq DOMAIN file
         /\ DOMAIN file = 1..Len(file) /\ Len(file) \in Nat
         /\ Valid' = IF Takes(entry) THEN Valid \cup {NewLine} ELSE Valid
<1>1. file \in Seq(Rows) /\ file' = Append(file, entry) /\ reader' = reader
  BY DEF ImportTypeOK, ReadsRow
<1>2. /\ Len(file) \in Nat /\ DOMAIN file = 1..Len(file)
      /\ file' \in Seq(Rows) /\ Len(file') = Len(file) + 1
      /\ DOMAIN file' = 1..(Len(file) + 1)
      /\ file'[Len(file) + 1] = entry
      /\ \A i \in 1..Len(file) : file'[i] = file[i]
  BY <1>1
<1>3. DOMAIN file' = DOMAIN file \cup {NewLine} /\ NewLine \notin DOMAIN file
  <2>1. \A i : i \in 1..(Len(file) + 1) <=> i \in 1..Len(file) \/ i = Len(file) + 1
    BY <1>2
  <2>. QED
    BY <1>2, <2>1 DEF NewLine
<1>4. Valid \subseteq DOMAIN file
  BY DEF Valid
<1>5. Valid' = IF Takes(entry) THEN Valid \cup {NewLine} ELSE Valid
  <2>1. \A i \in DOMAIN file : i \in Valid' <=> i \in Valid
    BY <1>1, <1>2, <1>3 DEF Valid, Incomplete
  <2>2. NewLine \in Valid' <=> Takes(entry)
    BY <1>1, <1>2, <1>3 DEF Valid, Takes, NewLine, Incomplete
  <2>3. Valid' \subseteq DOMAIN file \cup {NewLine}
    BY <1>3 DEF Valid
  <2>. QED
    BY <1>3, <1>4, <2>1, <2>2, <2>3
<1>. QED
  BY <1>2, <1>3, <1>4, <1>5 DEF NewLine

\* Rows are joined exactly when they are looked up under a common name.
LEMMA JoinedByTokens ==
  ASSUME reader # "workbook", NEW r, NEW s
  PROVE  /\ Joins(r, s) <=> Tokens(r) \cap Tokens(s) # {}
         /\ Joins(r, s) <=> Joins(s, r)
BY DEF Joins, Tokens

\* The people of the file after the row: those the row is kin to are one with it.
LEMMA PeopleNext ==
  ASSUME ImportTypeOK, NEW entry \in Rows, ReadsRow(entry), UNION People = Valid,
         NEW Q, Q = {S \in People : \E i \in S : Joins(file[i], entry)}
  PROVE  /\ ~Takes(entry) => People' = People
         /\ Takes(entry) => /\ People' = (People \ Q) \cup {(UNION Q) \cup {NewLine}}
                          /\ UNION People' = Valid'
<1> DEFINE next == [i \in Valid' |-> {j \in Valid' : Joins(file'[i], file'[j])}]
<1>1. Kin' = next
  BY DEF Kin, Joins, ReadsRow
<1>2. People' = Parts(next)
  BY <1>1 DEF People, Parts, Closed
<1>3. CASE ~Takes(entry)
  <2>1. Valid' = Valid /\ \A i \in Valid : file'[i] = file[i]
    BY <1>3, FileRead
  <2>2. next = Kin
    BY <2>1 DEF Kin
  <2>. QED
    BY <1>2, <1>3, <2>2 DEF People
<1>4. CASE Takes(entry)
  <2>1. /\ Valid' = Valid \cup {NewLine} /\ NewLine \notin Valid
        /\ file'[NewLine] = entry /\ \A i \in Valid : file'[i] = file[i]
    BY <1>4, FileRead
  <2>2. DOMAIN Kin = Valid /\ DOMAIN next = Valid \cup {NewLine}
    BY <2>1 DEF Kin
  <2>3. \A i \in Valid : Kin[i] \subseteq Valid /\ next[i] \ {NewLine} = Kin[i]
    BY <2>1 DEF Kin
  <2>4. /\ next[NewLine] \subseteq Valid \cup {NewLine}
        /\ \A i \in Valid : NewLine \in next[i] <=> i \in next[NewLine]
        /\ \A i \in Valid : i \in next[NewLine] <=> Joins(file[i], entry)
    BY <2>1 DEF Joins
  <2>5. UNION Parts(Kin) = DOMAIN Kin
    BY <2>2 DEF People
  <2>6. \A S \in Parts(Kin) : S \subseteq Valid
    BY <2>2, PartsAre
  <2>7. Q = Touched(Kin, next[NewLine])
    <3>. HIDE DEF next
    <3>. QED
      BY <2>4, <2>6 DEF People, Touched
  <2>8. Grown(Kin, next, NewLine)
    <3>. HIDE DEF next
    <3>. QED
      BY <2>1, <2>2, <2>3, <2>4 DEF Grown
  <2>9. /\ \A S : S \in Parts(next) <=>
               \/ S \in Parts(Kin) /\ S \notin Touched(Kin, next[NewLine])
               \/ S = Whole(Kin, next, NewLine)
        /\ UNION Parts(next) = DOMAIN next
    <3>. HIDE DEF next
    <3>. QED
      BY <2>5, <2>8, NewPart
  <2>10. Whole(Kin, next, NewLine) = (UNION Q) \cup {NewLine}
    BY <2>7 DEF Whole
  <2>. QED
    <3>. HIDE DEF next
    <3>1. Parts(next) = (Parts(Kin) \ Q) \cup {(UNION Q) \cup {NewLine}}
      BY <2>7, <2>9, <2>10
    <3>. QED
      BY <1>2, <1>4, <2>1, <2>2, <2>9, <3>1 DEF People
<1>. QED
  BY <1>3, <1>4

\* The targets of the people the row is kin to.
Matched(entry) == {aliases[k] : k \in Tokens(entry) \cap DOMAIN aliases}

\* The table leads to the targets of the people the row is kin to, and to no others.
LEMMA MatchedPeople ==
  ASSUME ImportTypeOK, Traced, NamesLead, Tracing, NEW entry \in Rows
  PROVE  /\ Matched(entry) \subseteq DOMAIN targets
         /\ {S \in People : \E i \in S : Joins(file[i], entry)} =
              {targets[i].lines : i \in Matched(entry)}
<1>1. Matched(entry) \subseteq DOMAIN targets
  BY DEF ImportTypeOK, Matched
<1>2. {targets[i].lines : i \in DOMAIN targets} = People
  BY DEF Traced
<1>3. ASSUME NEW i \in Matched(entry) PROVE \E n \in targets[i].lines : Joins(file[n], entry)
  <2>1. PICK k \in Tokens(entry) \cap DOMAIN aliases : aliases[k] = i
    BY DEF Matched
  <2>2. PICK n \in targets[i].lines : k \in Tokens(file[n])
    BY <2>1 DEF NamesLead
  <2>. QED
    BY <2>1, <2>2, JoinedByTokens DEF Tracing
<1>4. ASSUME NEW i \in DOMAIN targets, NEW n \in targets[i].lines, Joins(file[n], entry)
      PROVE  i \in Matched(entry)
  <2>1. PICK k \in Tokens(entry) : k \in Tokens(file[n])
    BY <1>4, JoinedByTokens DEF Tracing
  <2>2. k \in DOMAIN aliases /\ aliases[k] = i
    BY <2>1 DEF NamesLead
  <2>. QED
    BY <2>1, <2>2 DEF Matched
<1>5. ASSUME NEW S \in People, NEW n \in S, Joins(file[n], entry)
      PROVE  S \in {targets[i].lines : i \in Matched(entry)}
  <2>1. PICK i \in DOMAIN targets : S = targets[i].lines
    BY <1>2
  <2>2. i \in Matched(entry)
    BY <1>4, <1>5, <2>1
  <2>. QED
    BY <2>1, <2>2
<1>6. ASSUME NEW i \in Matched(entry)
      PROVE  targets[i].lines \in {S \in People : \E n \in S : Joins(file[n], entry)}
  BY <1>1, <1>2, <1>3
<1>. QED
  BY <1>1, <1>5, <1>6

\* The lines of the one person a row and the people it is kin to turn out to be.
Together(entry) == (UNION {targets[i].lines : i \in Matched(entry)}) \cup {NewLine}

\* The people of the file after the row, in terms of the targets before it.
LEMMA PeopleTogether ==
  ASSUME ImportTypeOK, Traced, NamesLead, Tracing,
         NEW entry \in Rows, ReadsRow(entry), Takes(entry)
  PROVE  /\ UNION People' = Valid'
         /\ Together(entry) \in People'
         /\ \A i \in DOMAIN targets : i \notin Matched(entry) => targets[i].lines \in People'
         /\ \A S \in People' : \/ S = Together(entry)
                               \/ \E i \in DOMAIN targets \ Matched(entry) : S = targets[i].lines
         /\ \A i \in DOMAIN targets : NewLine \notin targets[i].lines
<1> DEFINE Q == {S \in People : \E i \in S : Joins(file[i], entry)}
<1>1. Q = {targets[i].lines : i \in Matched(entry)}
  BY MatchedPeople
<1>2. Matched(entry) \subseteq DOMAIN targets
  BY MatchedPeople
<1>3. /\ {targets[i].lines : i \in DOMAIN targets} = People
      /\ UNION People = Valid
      /\ \A i, j \in DOMAIN targets : targets[i].lines = targets[j].lines => i = j
  BY DEF Traced
<1>4. People' = (People \ Q) \cup {(UNION Q) \cup {NewLine}} /\ UNION People' = Valid'
  BY <1>3, PeopleNext
<1>5. (UNION Q) \cup {NewLine} = Together(entry)
  BY <1>1 DEF Together
<1>. HIDE DEF Q
<1>6. \A i \in DOMAIN targets : targets[i].lines \in Q <=> i \in Matched(entry)
  BY <1>1, <1>2, <1>3
<1>7. \A i \in DOMAIN targets : NewLine \notin targets[i].lines
  <2>1. NewLine \notin Valid
    BY FileRead
  <2>. QED
    BY <1>3, <2>1
<1>. QED
  BY <1>3, <1>4, <1>5, <1>6, <1>7

\* A row of people who have targets: the targets of Matched(row), all at the same
\* new place, are one with the row, and the others keep a place of their own.
LEMMA RowJoins ==
  ASSUME ImportTypeOK, Traced, NamesLead, Tracing,
         NEW entry \in Rows, ReadsRow(entry), Takes(entry),
         NEW moved,
         \A i \in DOMAIN targets : moved[i] \in DOMAIN targets',
         \A i, j \in DOMAIN targets :
           moved[i] = moved[j] <=> i = j \/ (i \in Matched(entry) /\ j \in Matched(entry)),
         \A p \in DOMAIN targets' : \E i \in DOMAIN targets : moved[i] = p,
         \A i \in DOMAIN targets : targets'[moved[i]].lines =
           IF i \in Matched(entry) THEN Together(entry) ELSE targets[i].lines,
         DOMAIN aliases' = DOMAIN aliases \cup Tokens(entry),
         \A k \in DOMAIN aliases : aliases'[k] = moved[aliases[k]],
         \A k \in Tokens(entry) : \A i \in Matched(entry) : aliases'[k] = moved[i],
         Matched(entry) # {}
  PROVE  Traced' /\ NamesLead'
<1>1. /\ {targets[i].lines : i \in DOMAIN targets} = People
      /\ UNION People = Valid
      /\ \A i, j \in DOMAIN targets : targets[i].lines = targets[j].lines => i = j
  BY DEF Traced
<1>2. Matched(entry) \subseteq DOMAIN targets
  BY MatchedPeople
<1>3. /\ UNION People' = Valid'
      /\ Together(entry) \in People'
      /\ \A i \in DOMAIN targets : i \notin Matched(entry) => targets[i].lines \in People'
      /\ \A S \in People' : \/ S = Together(entry)
                            \/ \E i \in DOMAIN targets \ Matched(entry) : S = targets[i].lines
      /\ \A i \in DOMAIN targets : NewLine \notin targets[i].lines
  BY PeopleTogether
<1>4. PICK m \in Matched(entry) : TRUE
  OBVIOUS
<1>5. {targets'[p].lines : p \in DOMAIN targets'} = People'
  <2>1. ASSUME NEW p \in DOMAIN targets' PROVE targets'[p].lines \in People'
    <3>1. PICK i \in DOMAIN targets : moved[i] = p
      OBVIOUS
    <3>. QED
      BY <1>3, <3>1
  <2>2. ASSUME NEW S \in People' PROVE \E p \in DOMAIN targets' : S = targets'[p].lines
    <3>1. CASE S = Together(entry)
      BY <1>2, <1>4, <3>1
    <3>2. CASE S # Together(entry)
      BY <1>3, <3>2
    <3>. QED
      BY <3>1, <3>2
  <2>. QED
    BY <2>1, <2>2
<1>6. ASSUME NEW p \in DOMAIN targets', NEW q \in DOMAIN targets',
             targets'[p].lines = targets'[q].lines
      PROVE  p = q
  <2>1. PICK i \in DOMAIN targets : moved[i] = p
    OBVIOUS
  <2>2. PICK j \in DOMAIN targets : moved[j] = q
    OBVIOUS
  <2>3. NewLine \in Together(entry)
    BY DEF Together
  <2>. QED
    BY <1>1, <1>3, <1>6, <2>1, <2>2, <2>3
<1>7. Traced'
  BY <1>3, <1>5, <1>6 DEF Traced
<1>8. /\ file'[NewLine] = entry
      /\ \A n \in Valid : file'[n] = file[n]
      /\ \A i \in DOMAIN targets : targets[i].lines \subseteq Valid
  BY <1>1, FileRead
<1>13. \A n : n \in Together(entry) <=>
              n = NewLine \/ \E j \in Matched(entry) : n \in targets[j].lines
  BY DEF Together
<1>9. \A r : Tokens(r)' = Tokens(r)
  BY DEF Tokens, ReadsRow
<1>10. ASSUME NEW p \in DOMAIN targets', NEW n \in targets'[p].lines, NEW k \in Tokens(file'[n])
       PROVE  k \in DOMAIN aliases' /\ aliases'[k] = p
  <2>1. PICK i \in DOMAIN targets : moved[i] = p
    OBVIOUS
  <2>2. CASE i \notin Matched(entry)
    <3>1. n \in targets[i].lines /\ file'[n] = file[n]
      BY <1>8, <2>1, <2>2
    <3>2. k \in DOMAIN aliases /\ aliases[k] = i
      BY <3>1 DEF NamesLead
    <3>. QED
      BY <2>1, <3>2
  <2>3. CASE i \in Matched(entry) /\ n = NewLine
    BY <1>8, <2>1, <2>3
  <2>4. CASE i \in Matched(entry) /\ n # NewLine
    <3>1. PICK j \in Matched(entry) : n \in targets[j].lines
      BY <1>13, <2>1, <2>4
    <3>2. j \in DOMAIN targets /\ file'[n] = file[n]
      BY <1>2, <1>8, <3>1
    <3>3. k \in DOMAIN aliases /\ aliases[k] = j
      BY <3>1, <3>2 DEF NamesLead
    <3>. QED
      BY <2>1, <2>4, <3>1, <3>2, <3>3
  <2>. QED
    BY <2>2, <2>3, <2>4
<1>11. ASSUME NEW k \in DOMAIN aliases'
       PROVE  \E n \in targets'[aliases'[k]].lines : k \in Tokens(file'[n])
  <2>1. CASE k \in Tokens(entry)
    <3>1. aliases'[k] = moved[m] /\ m \in DOMAIN targets
      BY <1>2, <1>4, <2>1
    <3>2. NewLine \in targets'[aliases'[k]].lines
      BY <1>4, <3>1 DEF Together
    <3>. QED
      BY <1>8, <2>1, <3>2
  <2>2. CASE k \in DOMAIN aliases
    <3>1. PICK n \in targets[aliases[k]].lines : k \in Tokens(file[n])
      BY <2>2 DEF NamesLead
    <3>2. aliases[k] \in DOMAIN targets
      BY <2>2 DEF ImportTypeOK
    <3>3. n \in targets'[aliases'[k]].lines
      <4>1. aliases'[k] = moved[aliases[k]]
        BY <2>2
      <4>2. aliases[k] \in Matched(entry) => n \in Together(entry)
        BY <1>13, <3>1
      <4>. QED
        BY <3>1, <3>2, <4>1, <4>2
    <3>4. file'[n] = file[n]
      BY <1>8, <3>1, <3>2
    <3>. QED
      BY <3>1, <3>3, <3>4
  <2>. QED
    BY <2>1, <2>2
<1>12. NamesLead'
  BY <1>9, <1>10, <1>11 DEF NamesLead
<1>. QED
  BY <1>7, <1>12

\* A row of nobody who has a target: it gets one of its own.
LEMMA RowIsNew ==
  ASSUME ImportTypeOK, Traced, NamesLead, Tracing,
         NEW entry \in Rows, ReadsRow(entry), Takes(entry),
         Matched(entry) = {},
         NEW new, new \notin DOMAIN targets,
         DOMAIN targets' = DOMAIN targets \cup {new},
         \A i \in DOMAIN targets : targets'[i].lines = targets[i].lines,
         targets'[new].lines = {NewLine},
         DOMAIN aliases' = DOMAIN aliases \cup Tokens(entry),
         \A k \in Tokens(entry) : aliases'[k] = new,
         \A k \in DOMAIN aliases \ Tokens(entry) : aliases'[k] = aliases[k]
  PROVE  Traced' /\ NamesLead'
<1>1. /\ {targets[i].lines : i \in DOMAIN targets} = People
      /\ UNION People = Valid
      /\ \A i, j \in DOMAIN targets : targets[i].lines = targets[j].lines => i = j
  BY DEF Traced
<1>2. Together(entry) = {NewLine} /\ Tokens(entry) \cap DOMAIN aliases = {}
  BY DEF Together, Matched
<1>3. /\ UNION People' = Valid'
      /\ {NewLine} \in People'
      /\ \A i \in DOMAIN targets : targets[i].lines \in People'
      /\ \A S \in People' : S = {NewLine} \/ \E i \in DOMAIN targets : S = targets[i].lines
      /\ \A i \in DOMAIN targets : NewLine \notin targets[i].lines
  BY <1>2, PeopleTogether
<1>4. {targets'[p].lines : p \in DOMAIN targets'} = People'
  <2>1. ASSUME NEW p \in DOMAIN targets' PROVE targets'[p].lines \in People'
    BY <1>3
  <2>2. ASSUME NEW S \in People' PROVE \E p \in DOMAIN targets' : S = targets'[p].lines
    <3>1. CASE S = {NewLine}
      BY <3>1
    <3>2. CASE S # {NewLine}
      BY <1>3, <3>2
    <3>. QED
      BY <3>1, <3>2
  <2>. QED
    BY <2>1, <2>2
<1>5. \A p, q \in DOMAIN targets' : targets'[p].lines = targets'[q].lines => p = q
  BY <1>1, <1>3
<1>6. Traced'
  BY <1>3, <1>4, <1>5 DEF Traced
<1>7. /\ file'[NewLine] = entry
      /\ \A n \in Valid : file'[n] = file[n]
      /\ \A i \in DOMAIN targets : targets[i].lines \subseteq Valid
  BY <1>1, FileRead
<1>8. \A r : Tokens(r)' = Tokens(r)
  BY DEF Tokens, ReadsRow
<1>9. ASSUME NEW p \in DOMAIN targets', NEW n \in targets'[p].lines, NEW k \in Tokens(file'[n])
      PROVE  k \in DOMAIN aliases' /\ aliases'[k] = p
  <2>1. CASE p = new
    BY <1>7, <2>1
  <2>2. CASE p # new
    <3>1. p \in DOMAIN targets /\ n \in targets[p].lines /\ file'[n] = file[n]
      BY <1>7, <2>2
    <3>2. k \in DOMAIN aliases /\ aliases[k] = p
      BY <3>1 DEF NamesLead
    <3>. QED
      BY <1>2, <3>2
  <2>. QED
    BY <2>1, <2>2
<1>10. ASSUME NEW k \in DOMAIN aliases'
       PROVE  \E n \in targets'[aliases'[k]].lines : k \in Tokens(file'[n])
  <2>1. CASE k \in Tokens(entry)
    BY <1>7, <2>1
  <2>2. CASE k \notin Tokens(entry)
    <3>1. k \in DOMAIN aliases /\ aliases'[k] = aliases[k]
      BY <2>2
    <3>2. PICK n \in targets[aliases[k]].lines : k \in Tokens(file[n])
      BY <3>1 DEF NamesLead
    <3>3. aliases[k] \in DOMAIN targets
      BY <3>1 DEF ImportTypeOK
    <3>4. file'[n] = file[n]
      BY <1>7, <3>2, <3>3
    <3>. QED
      BY <3>1, <3>2, <3>3, <3>4
  <2>. QED
    BY <2>1, <2>2
<1>11. NamesLead'
  BY <1>8, <1>9, <1>10 DEF NamesLead
<1>. QED
  BY <1>6, <1>11

\* A row that is no person's changes neither.
LEMMA RowIsNone ==
  ASSUME ImportTypeOK, Traced, NamesLead, Tracing,
         NEW entry \in Rows, ReadsRow(entry), ~Takes(entry),
         UNCHANGED <<targets, aliases>>
  PROVE  Traced' /\ NamesLead'
<1>1. /\ {targets[i].lines : i \in DOMAIN targets} = People
      /\ UNION People = Valid
      /\ \A i, j \in DOMAIN targets : targets[i].lines = targets[j].lines => i = j
  BY DEF Traced
<1>2. People' = People /\ Valid' = Valid
  <2> DEFINE Q == {S \in People : \E i \in S : Joins(file[i], entry)}
  <2>. HIDE DEF Q
  <2>. QED
    BY <1>1, PeopleNext, FileRead DEF Q
<1>3. \A i \in DOMAIN targets : \A n \in targets[i].lines : file'[n] = file[n]
  BY <1>1, FileRead
<1>4. \A r : Tokens(r)' = Tokens(r)
  BY DEF Tokens, ReadsRow
<1>5. \A k \in DOMAIN aliases : aliases[k] \in DOMAIN targets
  BY DEF ImportTypeOK
<1>6. NamesLead'
  BY <1>3, <1>4, <1>5 DEF NamesLead, Tracing
<1>. QED
  BY <1>1, <1>2, <1>6 DEF Traced

-----------------------------------------------------------------------------
(* Targets and tables.                                                     *)

\* What a target of the list is.
TargetRows == [name: Names \cup {Blank}, uid: Uids \cup {Blank},
               sec: Secs \cup {Blank}, lines: SUBSET Nat]

\* The cells of a row.
LEMMA RowTypes ==
  ASSUME NEW entry \in Rows
  PROVE  /\ entry.name \in Names \cup {Blank} /\ entry.uid \in Uids \cup {Blank}
         /\ entry.sec \in Secs \cup {Blank}
BY ImportAssumption

\* The target a row makes on its own.
LEMMA FreshIs ==
  ASSUME ImportTypeOK, NEW entry \in Rows
  PROVE  /\ Fresh(entry) \in TargetRows
         /\ [Fresh(entry) EXCEPT !.lines = {}] \in TargetRows
         /\ Fresh(entry).name = entry.name /\ Fresh(entry).uid = entry.uid
         /\ Fresh(entry).sec = entry.sec
         /\ Fresh(entry).lines = {NewLine}
         /\ Aliases(Fresh(entry)) = Aliases(entry)
<1>1. Len(file) + 1 \in Nat
  BY DEF ImportTypeOK
<1>. QED
  BY <1>1, RowTypes DEF Fresh, TargetRows, NewLine, Aliases

\* The list and the table, for citing.
LEMMA TargetTypes ==
  ASSUME ImportTypeOK
  PROVE  /\ targets \in Seq(TargetRows) /\ Len(targets) \in Nat
         /\ DOMAIN targets = 1..Len(targets)
         /\ \A i \in DOMAIN targets : targets[i] \in TargetRows
         /\ \A k \in DOMAIN aliases : aliases[k] \in DOMAIN targets
<1>1. targets \in Seq(TargetRows)
  BY DEF ImportTypeOK, TargetRows
<1>2. \A k \in DOMAIN aliases : aliases[k] \in DOMAIN targets
  BY DEF ImportTypeOK
<1>. QED
  BY <1>1, <1>2, LenProperties, ElementOfSeq

\* The list with one target more.
LEMMA AppendedIs ==
  ASSUME ImportTypeOK, NEW t \in TargetRows, targets' = Append(targets, t)
  PROVE  /\ targets' \in Seq(TargetRows)
         /\ Len(targets') = Len(targets) + 1
         /\ Len(targets) + 1 \notin DOMAIN targets
         /\ DOMAIN targets' = DOMAIN targets \cup {Len(targets) + 1}
         /\ \A i \in DOMAIN targets : targets'[i] = targets[i]
         /\ targets'[Len(targets) + 1] = t
<1> DEFINE n == Len(targets)
<1>1. n \in Nat /\ targets \in Seq(TargetRows) /\ DOMAIN targets = 1..n
  BY TargetTypes
<1>2. /\ targets' \in Seq(TargetRows) /\ Len(targets') = n + 1 /\ DOMAIN targets' = 1..(n + 1)
      /\ \A i \in 1..n : targets'[i] = targets[i]
      /\ targets'[n + 1] = t
  BY <1>1
<1>3. \A i : i \in 1..(n + 1) <=> i \in 1..n \/ i = n + 1
  BY <1>1
<1>4. n + 1 \notin 1..n
  BY <1>1
<1>. HIDE DEF n
<1>5. DOMAIN targets' = DOMAIN targets \cup {n + 1}
  BY <1>1, <1>2, <1>3
<1>. QED
  BY <1>1, <1>2, <1>4, <1>5 DEF n

-----------------------------------------------------------------------------
(* The readers that go by a key.                                           *)

\* Joining rows by their key keeps a target for each person and the table that leads there.
LEMMA ByKeyTraces ==
  ASSUME ImportTypeOK, Traced, NamesLead, NEW entry \in Rows, ReadsRow(entry), Takes(entry),
         Tracing, reader # "priority", ByKey(KeyOf(entry), Fresh(entry))
  PROVE  Traced' /\ NamesLead'
<1> DEFINE k == KeyOf(entry)
           t == Fresh(entry)
<1>1. Tokens(entry) = {k}
  BY DEF Tokens, Tracing
<1>2. t.lines = {NewLine} /\ t \in TargetRows
  BY FreshIs
<1>. HIDE DEF k, t
<1>3. CASE k \notin DOMAIN aliases
  <2> DEFINE new == Len(targets) + 1
  <2>1. targets' = Append(targets, t) /\ aliases' = Named({k}, new, aliases)
    BY <1>3 DEF ByKey, k, t
  <2>2. /\ new \notin DOMAIN targets /\ DOMAIN targets' = DOMAIN targets \cup {new}
        /\ \A i \in DOMAIN targets : targets'[i].lines = targets[i].lines
        /\ targets'[new].lines = {NewLine}
    BY <1>2, <2>1, AppendedIs
  <2>. HIDE DEF new
  <2>3. /\ DOMAIN aliases' = DOMAIN aliases \cup Tokens(entry)
        /\ \A j \in Tokens(entry) : aliases'[j] = new
        /\ \A j \in DOMAIN aliases \ Tokens(entry) : aliases'[j] = aliases[j]
    <3>1. /\ DOMAIN Named({k}, new, aliases) = DOMAIN aliases \cup {k}
          /\ \A j \in {k} : Named({k}, new, aliases)[j] = new
          /\ \A j \in DOMAIN aliases \ {k} : Named({k}, new, aliases)[j] = aliases[j]
      BY DEF Named
    <3>. QED
      BY <1>1, <2>1, <3>1, Zenon
  <2>4. Matched(entry) = {}
    BY <1>1, <1>3 DEF Matched
  <2>. QED
    BY <2>2, <2>3, <2>4, RowIsNew
<1>4. CASE k \in DOMAIN aliases
  <2> DEFINE m == aliases[k]
             moved == [i \in DOMAIN targets |-> i]
  <2>1. Matched(entry) = {m}
    BY <1>1, <1>4 DEF Matched
  <2>2. m \in DOMAIN targets /\ targets[m] \in TargetRows
    BY <1>4, TargetTypes
  <2>3. /\ targets' = [targets EXCEPT ![m].lines = @ \cup t.lines]
        /\ aliases' = aliases
    BY <1>4 DEF ByKey, Repeat, k, t
  <2>4. Together(entry) = targets[m].lines \cup {NewLine}
    BY <2>1 DEF Together
  <2>. HIDE DEF m
  <2>5. DOMAIN targets' = DOMAIN targets
    BY <2>3
  <2>6. \A i \in DOMAIN targets : targets'[moved[i]].lines =
          IF i \in Matched(entry) THEN Together(entry) ELSE targets[i].lines
    BY <1>2, <2>1, <2>2, <2>3, <2>4 DEF TargetRows
  <2>7. \A i \in DOMAIN targets : moved[i] = i
    OBVIOUS
  <2>8. \A j \in DOMAIN aliases : aliases[j] \in DOMAIN targets
    BY TargetTypes
  <2>9. Tokens(entry) \subseteq DOMAIN aliases /\ \A j \in Tokens(entry) : aliases[j] = m
    BY <1>1, <1>4 DEF m
  <2>. HIDE DEF moved
  <2>10. \A i \in DOMAIN targets : moved[i] \in DOMAIN targets'
    BY <2>5, <2>7, Zenon
  <2>11. \A i, j \in DOMAIN targets :
           moved[i] = moved[j] <=> i = j \/ (i \in Matched(entry) /\ j \in Matched(entry))
    BY <2>1, <2>7
  <2>12. \A p \in DOMAIN targets' : \E i \in DOMAIN targets : moved[i] = p
    BY <2>5, <2>7, Zenon
  <2>13. DOMAIN aliases' = DOMAIN aliases \cup Tokens(entry)
    BY <2>3, <2>9
  <2>14. \A j \in DOMAIN aliases : aliases'[j] = moved[aliases[j]]
    BY <2>3, <2>7, <2>8, Zenon
  <2>15. \A j \in Tokens(entry) : \A i \in Matched(entry) : aliases'[j] = moved[i]
    BY <2>1, <2>2, <2>3, <2>7, <2>9
  <2>16. Matched(entry) # {}
    BY <2>1
  <2>. QED
    BY <2>6, <2>10, <2>11, <2>12, <2>13, <2>14, <2>15, <2>16, RowJoins, Zenon
<1>. QED
  BY <1>3, <1>4

-----------------------------------------------------------------------------
(* The reader of priority files.                                           *)

\* Known is one of the values that are not blank, if there is one.
LEMMA KnownIs ==
  ASSUME NEW values
  PROVE  /\ Known(values) # Blank => Known(values) \in values
         /\ Known(values) = Blank => \A v \in values : v = Blank
BY DEF Known

\* The lines of all of S.
LinesOf(S) == UNION {u.lines : u \in S}

\* What _combine_targets makes of targets that agree has the ids of each.
LEMMA CombinedIs ==
  ASSUME NEW S, S \subseteq TargetRows, NEW t \in TargetRows
  PROVE  /\ Combined(S, t) \in TargetRows
         /\ Combined(S, t).name = t.name
         /\ Combined(S, t).lines = LinesOf(S \cup {t})
         /\ Combined(S, t).sec # Blank => \E u \in S \cup {t} : u.sec = Combined(S, t).sec
         /\ Combined(S, t).uid # Blank => \E u \in S \cup {t} : u.uid = Combined(S, t).uid
         /\ ~Conflict(S \cup {t}) => \A u \in S \cup {t} :
              u.sec \in {Blank, Combined(S, t).sec} /\ u.uid \in {Blank, Combined(S, t).uid}
<1> DEFINE all == S \cup {t}
           secs == {u.sec : u \in all}
           uids == {u.uid : u \in all}
           lines == UNION {u.lines : u \in all}
           w == Combined(S, t)
<1>1. w = [name |-> t.name, uid |-> Known(uids), sec |-> Known(secs), lines |-> lines]
  BY DEF Combined
<1>2. w.name = t.name /\ w.uid = Known(uids) /\ w.sec = Known(secs) /\ w.lines = lines
  BY <1>1
<1>3. /\ Known(secs) # Blank => Known(secs) \in secs
      /\ Known(secs) = Blank => \A v \in secs : v = Blank
      /\ Known(uids) # Blank => Known(uids) \in uids
      /\ Known(uids) = Blank => \A v \in uids : v = Blank
  <2>. HIDE DEF secs, uids
  <2>. QED
    BY KnownIs, Zenon
<1>4. \A u \in all : u \in TargetRows
  OBVIOUS
<1>5. /\ Known(secs) \in Secs \cup {Blank} /\ Known(uids) \in Uids \cup {Blank}
      /\ lines \in SUBSET Nat /\ t.name \in Names \cup {Blank}
  BY <1>3, <1>4 DEF TargetRows
<1>6. w \in TargetRows
  <2>. HIDE DEF secs, uids, lines, w
  <2>. QED
    BY <1>1, <1>5 DEF TargetRows
<1>7. ASSUME ~Conflict(all), NEW u \in all
      PROVE  u.sec \in {Blank, w.sec} /\ u.uid \in {Blank, w.uid}
  BY <1>2, <1>3, <1>7 DEF Conflict, Differ
<1>8. w.lines = LinesOf(all)
  BY <1>2 DEF LinesOf
<1>9. /\ w.sec # Blank => \E u \in all : u.sec = w.sec
      /\ w.uid # Blank => \E u \in all : u.uid = w.uid
  BY <1>2, <1>3
<1>10. ~Conflict(all) => \A u \in all : u.sec \in {Blank, w.sec} /\ u.uid \in {Blank, w.uid}
  BY <1>7, Zenon
<1>. QED
  BY <1>2, <1>6, <1>8, <1>9, <1>10, Zenon

\* The targets that a row of a priority file matches and the row, which are one
\* after it unless they are in conflict.
Meets(entry) == {targets[i] : i \in Matched(entry)} \cup {Fresh(entry)}

\* The lines of what a row meets are those of one person; the table matches those targets.
LEMMA MeetsLines ==
  ASSUME ImportTypeOK, NEW entry \in Rows
  PROVE  /\ \A n : n \in Together(entry) <=> \E u \in Meets(entry) : n \in u.lines
         /\ Meets(entry) \subseteq TargetRows
         /\ reader = "priority" => Matches(Fresh(entry)) = Matched(entry)
         /\ \A i \in Matched(entry) : i \in DOMAIN targets /\ targets[i] \in TargetRows
<1>1. /\ Fresh(entry).lines = {NewLine} /\ Fresh(entry) \in TargetRows
      /\ Aliases(Fresh(entry)) = Aliases(entry)
  BY FreshIs
<1>2. \A i \in Matched(entry) : i \in DOMAIN targets /\ targets[i] \in TargetRows
  BY TargetTypes DEF Matched
<1>3. \A n : n \in Together(entry) <=> \E u \in Meets(entry) : n \in u.lines
  BY <1>1 DEF Together, Meets
<1>4. reader = "priority" => Matches(Fresh(entry)) = Matched(entry)
  BY <1>1 DEF Matches, Matched, Tokens
<1>. QED
  BY <1>1, <1>2, <1>3, <1>4 DEF Meets

\* Every id a target or the row has is one of its lines'.
LEMMA MeetsIds ==
  ASSUME ImportTypeOK, Traced, IdsAgree, Tracing, reader = "priority",
         NEW entry \in Rows, ReadsRow(entry), NEW u \in Meets(entry)
  PROVE  /\ u.sec # Blank => \E n \in u.lines : file'[n].sec = u.sec
         /\ u.uid # Blank => \E n \in u.lines : file'[n].uid = u.uid
         /\ \A n \in u.lines :
              file'[n].sec \in {Blank, u.sec} /\ file'[n].uid \in {Blank, u.uid}
<1>1. CASE u = Fresh(entry)
  <2>1. u.sec = entry.sec /\ u.uid = entry.uid /\ u.lines = {NewLine}
    BY <1>1, FreshIs
  <2>2. file'[NewLine] = entry
    BY FileRead
  <2>. QED
    BY <2>1, <2>2
<1>2. CASE u # Fresh(entry)
  <2>1. PICK i \in DOMAIN targets : u = targets[i]
    BY <1>2, MeetsLines DEF Meets
  <2>2. /\ u.sec # Blank => \E n \in u.lines : file[n].sec = u.sec
        /\ u.uid # Blank => \E n \in u.lines : file[n].uid = u.uid
        /\ \A n \in u.lines :
             file[n].sec \in {Blank, u.sec} /\ file[n].uid \in {Blank, u.uid}
    BY <2>1 DEF IdsAgree, Tracing
  <2>3. \A n \in u.lines : file'[n] = file[n]
    <3>1. \A n \in Valid : file'[n] = file[n]
      BY FileRead
    <3>2. u.lines \subseteq Valid
      BY <2>1 DEF Traced
    <3>. QED
      BY <3>1, <3>2
  <2>. QED
    BY <2>2, <2>3
<1>. QED
  BY <1>1, <1>2

\* The row meets nobody.
LEMMA MergeNew ==
  ASSUME ImportTypeOK, Traced, NamesLead, IdsAgree, Tracing, reader = "priority",
         NEW entry \in Rows, ReadsRow(entry), Takes(entry), Matched(entry) = {},
         targets' = Append(targets, Fresh(entry)),
         aliases' = Named(Aliases(Fresh(entry)), Len(targets) + 1, aliases)
  PROVE  Traced' /\ NamesLead' /\ IdsAgree'
<1> DEFINE t == Fresh(entry)
           new == Len(targets) + 1
<1>1. /\ t.lines = {NewLine} /\ t \in TargetRows /\ Aliases(t) = Tokens(entry)
      /\ t.sec = entry.sec /\ t.uid = entry.uid
  BY FreshIs DEF Tokens
<1>2. /\ new \notin DOMAIN targets /\ DOMAIN targets' = DOMAIN targets \cup {new}
      /\ \A i \in DOMAIN targets : targets'[i] = targets[i]
      /\ targets'[new] = t
  BY <1>1, AppendedIs
<1>3. aliases' = Named(Tokens(entry), new, aliases)
  BY <1>1
<1>. HIDE DEF t, new
<1>4. /\ DOMAIN aliases' = DOMAIN aliases \cup Tokens(entry)
      /\ \A j \in Tokens(entry) : aliases'[j] = new
      /\ \A j \in DOMAIN aliases \ Tokens(entry) : aliases'[j] = aliases[j]
  BY <1>3 DEF Named
<1>5. /\ \A i \in DOMAIN targets : targets'[i].lines = targets[i].lines
      /\ targets'[new].lines = {NewLine}
  BY <1>1, <1>2
<1>6. Traced' /\ NamesLead'
  BY <1>2, <1>4, <1>5, RowIsNew
<1>7. file'[NewLine] = entry /\ \A n \in Valid : file'[n] = file[n]
  BY FileRead
<1>8. \A i \in DOMAIN targets : \A n \in targets[i].lines : file'[n] = file[n]
  BY <1>7 DEF Traced
<1>9. IdsAgree'
  <2>1. SUFFICES ASSUME NEW p \in DOMAIN targets'
                 PROVE  LET u == targets'[p] IN
                        /\ u.sec # Blank => \E n \in u.lines : file'[n].sec = u.sec
                        /\ u.uid # Blank => \E n \in u.lines : file'[n].uid = u.uid
                        /\ \A n \in u.lines : /\ file'[n].sec \in {Blank, u.sec}
                                              /\ file'[n].uid \in {Blank, u.uid}
    BY DEF IdsAgree
  <2>2. CASE p = new
    BY <1>1, <1>2, <1>7, <2>2
  <2>3. CASE p # new
    BY <1>2, <1>8, <2>3 DEF IdsAgree, Tracing
  <2>. QED
    BY <2>2, <2>3
<1>. QED
  BY <1>6, <1>9

\* The same of the list a step leaves.
LEMMA JoinedNext ==
  ASSUME targets \in Seq(TargetRows), NEW M \in SUBSET DOMAIN targets, M # {},
         NEW whole \in TargetRows, targets' = Joined(M, whole)
  PROVE  /\ targets' \in Seq(TargetRows)
         /\ Cardinality(M) \in Nat
         /\ Len(targets') = Len(targets) - Cardinality(M) + 1
         /\ Min(M) \in M
         /\ \A i \in M : Renumber(i, M) = Min(M)
         /\ \A i \in DOMAIN targets : Renumber(i, M) \in DOMAIN targets'
         /\ \A i, j \in DOMAIN targets :
              Renumber(i, M) = Renumber(j, M) <=> i = j \/ (i \in M /\ j \in M)
         /\ \A p \in DOMAIN targets' : \E i \in DOMAIN targets : Renumber(i, M) = p
         /\ \A i \in M : targets'[Renumber(i, M)] = whole
         /\ \A i \in DOMAIN targets \ M : targets'[Renumber(i, M)] = targets[i]
BY JoinedList

\* The row meets targets that agree: they become one with it.
LEMMA MergeJoined ==
  ASSUME ImportTypeOK, Traced, NamesLead, IdsAgree, Tracing, reader = "priority",
         NEW entry \in Rows, ReadsRow(entry), Takes(entry), Matched(entry) # {},
         ~Conflict(Meets(entry)), Merge(Fresh(entry))
  PROVE  Traced' /\ NamesLead' /\ IdsAgree'
<1> DEFINE M == Matched(entry)
           S == {targets[i] : i \in M}
           whole == Combined(S, Fresh(entry))
           moved == [i \in DOMAIN targets |-> Renumber(i, M)]
           table == [k \in DOMAIN aliases |-> Renumber(aliases[k], M)]
<1>0. /\ \A n : n \in Together(entry) <=> \E u \in Meets(entry) : n \in u.lines
      /\ Meets(entry) \subseteq TargetRows
      /\ Matches(Fresh(entry)) = M
      /\ \A i \in M : i \in DOMAIN targets /\ targets[i] \in TargetRows
  BY MeetsLines
<1>1. /\ targets' = Joined(M, whole)
      /\ aliases' = Named(Aliases(whole), Min(M), table)
  BY <1>0 DEF Merge, Meets
<1>2. /\ Fresh(entry) \in TargetRows /\ Fresh(entry).lines = {NewLine}
      /\ Fresh(entry).name = entry.name /\ Fresh(entry).uid = entry.uid
      /\ Fresh(entry).sec = entry.sec
  BY FreshIs
<1>3. S \subseteq TargetRows /\ Meets(entry) = S \cup {Fresh(entry)}
  BY <1>0 DEF Meets
<1>4. /\ whole \in TargetRows /\ whole.name = entry.name
      /\ \A n : n \in whole.lines <=> \E u \in Meets(entry) : n \in u.lines
      /\ whole.sec # Blank => \E u \in Meets(entry) : u.sec = whole.sec
      /\ whole.uid # Blank => \E u \in Meets(entry) : u.uid = whole.uid
      /\ \A u \in Meets(entry) : u.sec \in {Blank, whole.sec} /\ u.uid \in {Blank, whole.uid}
  <2> DEFINE t == Fresh(entry)
  <2>2. /\ S \subseteq TargetRows /\ t \in TargetRows
        /\ Meets(entry) = S \cup {t} /\ ~Conflict(S \cup {t})
    BY <1>2, <1>3
  <2>3. t.name = entry.name
    BY <1>2
  <2>1. Combined(S, t) = whole
    OBVIOUS
  <2>. HIDE DEF whole, S, t
  <2>4. /\ Combined(S, t) \in TargetRows
        /\ Combined(S, t).name = t.name
        /\ Combined(S, t).lines = LinesOf(S \cup {t})
        /\ Combined(S, t).sec # Blank => \E u \in S \cup {t} : u.sec = Combined(S, t).sec
        /\ Combined(S, t).uid # Blank => \E u \in S \cup {t} : u.uid = Combined(S, t).uid
    BY <2>2, CombinedIs
  <2>5. \A u \in S \cup {t} :
          u.sec \in {Blank, Combined(S, t).sec} /\ u.uid \in {Blank, Combined(S, t).uid}
    BY <2>2, CombinedIs
  <2>. QED
    <3>1. \A n : n \in LinesOf(Meets(entry)) <=> \E u \in Meets(entry) : n \in u.lines
      BY DEF LinesOf
    <3>. QED
      BY <2>1, <2>2, <2>3, <2>4, <2>5, <3>1
<1>. HIDE DEF whole, S
<1>5. whole.lines = Together(entry)
  BY <1>0, <1>4, Zenon DEF Together
<1>. HIDE DEF M
<1>6. /\ targets \in Seq(TargetRows) /\ M \subseteq DOMAIN targets /\ M # {}
      /\ targets' = Joined(M, whole)
  BY <1>1, <1>0, TargetTypes DEF M
<1>7. /\ Min(M) \in M
      /\ \A i \in M : Renumber(i, M) = Min(M)
      /\ \A i \in DOMAIN targets : Renumber(i, M) \in DOMAIN targets'
      /\ \A i, j \in DOMAIN targets :
           Renumber(i, M) = Renumber(j, M) <=> i = j \/ (i \in M /\ j \in M)
      /\ \A p \in DOMAIN targets' : \E i \in DOMAIN targets : Renumber(i, M) = p
      /\ \A i \in M : targets'[Renumber(i, M)] = whole
      /\ \A i \in DOMAIN targets \ M : targets'[Renumber(i, M)] = targets[i]
  <2>1. /\ targets \in Seq(TargetRows) /\ whole \in TargetRows
        /\ M # {} /\ M \in SUBSET DOMAIN targets
    BY <1>4, <1>6
  <2>2. targets' = Joined(M, whole)
    BY <1>6
  <2>. QED
    BY <2>1, <2>2, JoinedNext
<1>8. Tokens(entry) = Aliases(entry) /\ Tokens(entry) \subseteq Aliases(whole)
  <2>1. entry.sec \in {Blank, whole.sec} /\ entry.uid \in {Blank, whole.uid}
    BY <1>2, <1>4 DEF Meets
  <2>. QED
    BY <1>4, <2>1 DEF Tokens, Aliases
<1>9. ASSUME NEW k \in Aliases(whole)
      PROVE  k \in Tokens(entry) \/ (k \in DOMAIN aliases /\ aliases[k] \in M)
  <2>1. CASE k = <<"handle", whole.name>>
    BY <1>4, <1>8, <2>1 DEF Aliases
  <2>2. ASSUME NEW i \in M, NEW n \in targets[i].lines, k \in Aliases(file[n])
        PROVE  k \in DOMAIN aliases /\ aliases[k] \in M
    BY <1>6, <2>2 DEF NamesLead, Tokens
  <2>3. CASE k = <<"sec", whole.sec>> /\ whole.sec # Blank
    <3>1. PICK u \in Meets(entry) : u.sec = whole.sec
      BY <1>4, <2>3
    <3>2. CASE u = Fresh(entry)
      BY <1>2, <1>8, <2>3, <3>1, <3>2 DEF Aliases
    <3>3. CASE u # Fresh(entry)
      <4>1. PICK i \in M : u = targets[i]
        BY <3>3 DEF Meets, M
      <4>2. PICK n \in targets[i].lines : file[n].sec = whole.sec
        BY <1>6, <2>3, <3>1, <4>1 DEF IdsAgree, Tracing
      <4>. QED
        BY <2>2, <2>3, <4>2 DEF Aliases
    <3>. QED
      BY <3>2, <3>3
  <2>4. CASE k = <<"uid", whole.uid>> /\ whole.uid # Blank
    <3>1. PICK u \in Meets(entry) : u.uid = whole.uid
      BY <1>4, <2>4
    <3>2. CASE u = Fresh(entry)
      BY <1>2, <1>8, <2>4, <3>1, <3>2 DEF Aliases
    <3>3. CASE u # Fresh(entry)
      <4>1. PICK i \in M : u = targets[i]
        BY <3>3 DEF Meets, M
      <4>2. PICK n \in targets[i].lines : file[n].uid = whole.uid
        BY <1>6, <2>4, <3>1, <4>1 DEF IdsAgree, Tracing
      <4>. QED
        BY <2>2, <2>4, <4>2 DEF Aliases
    <3>. QED
      BY <3>2, <3>3
  <2>. QED
    BY <2>1, <2>3, <2>4 DEF Aliases
<1>10. /\ DOMAIN aliases' = DOMAIN aliases \cup Aliases(whole)
       /\ \A k \in Aliases(whole) : aliases'[k] = Min(M)
       /\ \A k \in DOMAIN aliases \ Aliases(whole) : aliases'[k] = Renumber(aliases[k], M)
  BY <1>1 DEF Named
<1>11. /\ \A i \in DOMAIN targets : moved[i] = Renumber(i, M)
       /\ \A k \in DOMAIN aliases : aliases[k] \in DOMAIN targets
  BY TargetTypes
<1>. HIDE DEF moved, table
<1>12. DOMAIN aliases' = DOMAIN aliases \cup Tokens(entry)
  BY <1>8, <1>9, <1>10
<1>13. \A k \in DOMAIN aliases : aliases'[k] = moved[aliases[k]]
  <2>1. ASSUME NEW k \in DOMAIN aliases, k \in Aliases(whole) PROVE aliases[k] \in M
    <3>1. k \in Tokens(entry) => aliases[k] \in M
      BY DEF M, Matched
    <3>. QED
      BY <1>9, <2>1, <3>1
  <2>. QED
    BY <1>7, <1>10, <1>11, <2>1
<1>14. \A k \in Tokens(entry) : \A i \in M : aliases'[k] = moved[i]
  BY <1>6, <1>7, <1>8, <1>10, <1>11
<1>15. \A i \in DOMAIN targets : moved[i] \in DOMAIN targets'
  BY <1>7, <1>11
<1>16. \A i, j \in DOMAIN targets : moved[i] = moved[j] <=> i = j \/ (i \in M /\ j \in M)
  BY <1>7, <1>11
<1>17. \A p \in DOMAIN targets' : \E i \in DOMAIN targets : moved[i] = p
  BY <1>7, <1>11
<1>18. \A i \in DOMAIN targets : targets'[moved[i]].lines =
         IF i \in M THEN Together(entry) ELSE targets[i].lines
  BY <1>5, <1>7, <1>11
<1>19. Traced' /\ NamesLead'
  BY <1>12, <1>13, <1>14, <1>15, <1>16, <1>17, <1>18, RowJoins, Zenon DEF M
<1>20. IdsAgree'
  <2>1. SUFFICES ASSUME NEW p \in DOMAIN targets'
                 PROVE  LET u == targets'[p] IN
                        /\ u.sec # Blank => \E n \in u.lines : file'[n].sec = u.sec
                        /\ u.uid # Blank => \E n \in u.lines : file'[n].uid = u.uid
                        /\ \A n \in u.lines : /\ file'[n].sec \in {Blank, u.sec}
                                              /\ file'[n].uid \in {Blank, u.uid}
    BY DEF IdsAgree
  <2>2. PICK i \in DOMAIN targets : Renumber(i, M) = p
    BY <1>7
  <2>3. CASE i \notin M
    <3>1. \A n \in targets[i].lines : file'[n] = file[n]
      BY FileRead DEF Traced
    <3>2. targets'[p] = targets[i]
      BY <1>7, <2>2, <2>3
    <3>3. LET u == targets[i] IN
          /\ u.sec # Blank => \E n \in u.lines : file[n].sec = u.sec
          /\ u.uid # Blank => \E n \in u.lines : file[n].uid = u.uid
          /\ \A n \in u.lines : file[n].sec \in {Blank, u.sec} /\ file[n].uid \in {Blank, u.uid}
      BY DEF IdsAgree, Tracing
    <3>. QED
      BY <3>1, <3>2, <3>3
  <2>4. CASE i \in M
    <3>1. \A u \in Meets(entry) :
            /\ u.sec # Blank => \E n \in u.lines : file'[n].sec = u.sec
            /\ u.uid # Blank => \E n \in u.lines : file'[n].uid = u.uid
            /\ \A n \in u.lines :
                 file'[n].sec \in {Blank, u.sec} /\ file'[n].uid \in {Blank, u.uid}
      BY MeetsIds
    <3>2. targets'[p] = whole
      BY <1>7, <2>2, <2>4
    <3>3. /\ whole.sec # Blank => \E n \in whole.lines : file'[n].sec = whole.sec
          /\ whole.uid # Blank => \E n \in whole.lines : file'[n].uid = whole.uid
      <4>1. ASSUME whole.sec # Blank PROVE \E n \in whole.lines : file'[n].sec = whole.sec
        <5>1. PICK u \in Meets(entry) : u.sec = whole.sec
          BY <1>4, <4>1
        <5>2. PICK n \in u.lines : file'[n].sec = u.sec
          BY <3>1, <4>1, <5>1
        <5>. QED
          BY <1>4, <5>1, <5>2
      <4>2. ASSUME whole.uid # Blank PROVE \E n \in whole.lines : file'[n].uid = whole.uid
        <5>1. PICK u \in Meets(entry) : u.uid = whole.uid
          BY <1>4, <4>2
        <5>2. PICK n \in u.lines : file'[n].uid = u.uid
          BY <3>1, <4>2, <5>1
        <5>. QED
          BY <1>4, <5>1, <5>2
      <4>. QED
        BY <4>1, <4>2
    <3>4. ASSUME NEW n \in whole.lines
          PROVE  file'[n].sec \in {Blank, whole.sec} /\ file'[n].uid \in {Blank, whole.uid}
      <4>1. PICK u \in Meets(entry) : n \in u.lines
        BY <1>4
      <4>2. /\ file'[n].sec \in {Blank, u.sec} /\ file'[n].uid \in {Blank, u.uid}
            /\ u.sec \in {Blank, whole.sec} /\ u.uid \in {Blank, whole.uid}
        BY <1>4, <3>1, <4>1
      <4>. QED
        BY <4>2
    <3>. QED
      BY <3>2, <3>3, <3>4
  <2>. QED
    BY <2>3, <2>4
<1>. QED
  BY <1>19, <1>20

\* The row meets targets that do not: some of their lines and the row's do not.
LEMMA MergeRefused ==
  ASSUME ImportTypeOK, Traced, NamesLead, IdsAgree, Tracing, reader = "priority",
         NEW entry \in Rows, ReadsRow(entry), Takes(entry), Conflict(Meets(entry))
  PROVE  \E S \in People' : Conflict({file'[i] : i \in S})
<1>1. PICK u \in Meets(entry), v \in Meets(entry) : Differ(u.sec, v.sec) \/ Differ(u.uid, v.uid)
  BY DEF Conflict
<1>2. \A n : n \in u.lines \/ n \in v.lines => n \in Together(entry)
  BY MeetsLines
<1>3. CASE Differ(u.sec, v.sec)
  <2>1. PICK n \in u.lines, m \in v.lines : file'[n].sec = u.sec /\ file'[m].sec = v.sec
    BY <1>3, MeetsIds DEF Differ
  <2>2. n \in Together(entry) /\ m \in Together(entry) /\ Differ(file'[n].sec, file'[m].sec)
    BY <1>2, <1>3, <2>1
  <2>3. Conflict({file'[i] : i \in Together(entry)})
    BY <2>2 DEF Conflict
  <2>. QED
    BY <2>3, PeopleTogether
<1>4. CASE Differ(u.uid, v.uid)
  <2>1. PICK n \in u.lines, m \in v.lines : file'[n].uid = u.uid /\ file'[m].uid = v.uid
    BY <1>4, MeetsIds DEF Differ
  <2>2. n \in Together(entry) /\ m \in Together(entry) /\ Differ(file'[n].uid, file'[m].uid)
    BY <1>2, <1>4, <2>1
  <2>3. Conflict({file'[i] : i \in Together(entry)})
    BY <2>2 DEF Conflict
  <2>. QED
    BY <2>3, PeopleTogether
<1>. QED
  BY <1>1, <1>3, <1>4

-----------------------------------------------------------------------------
(* Counts and types.                                                       *)

\* There are finitely many valid rows.
LEMMA ValidCount ==
  ASSUME ImportTypeOK
  PROVE  IsFiniteSet(Valid) /\ Cardinality(Valid) \in Nat
<1>1. DOMAIN file = 1..Len(file) /\ Len(file) \in Nat
  BY LenProperties DEF ImportTypeOK
<1>2. IsFiniteSet(DOMAIN file)
  BY <1>1, FS_Interval
<1>3. Valid \in SUBSET DOMAIN file
  BY DEF Valid
<1>. QED
  BY <1>2, <1>3, FS_Subset, FS_CardinalityType

\* How a row changes the counts.
LEMMA ValidNext ==
  ASSUME ImportTypeOK, NEW entry \in Rows, ReadsRow(entry)
  PROVE  /\ Len(file') = Len(file) + 1
         /\ Cardinality(Valid') =
              IF Takes(entry) THEN Cardinality(Valid) + 1 ELSE Cardinality(Valid)
<1>1. /\ Len(file') = NewLine /\ NewLine \notin Valid
      /\ Valid' = IF Takes(entry) THEN Valid \cup {NewLine} ELSE Valid
  BY FileRead
<1>2. IsFiniteSet(Valid)
  BY ValidCount
<1>3. Cardinality(Valid \cup {NewLine}) = Cardinality(Valid) + 1
  BY <1>1, <1>2, FS_AddElement
<1>. QED
  BY <1>1, <1>3 DEF NewLine

\* A target has lines, no two have one in common, and together they are the valid rows.
LEMMA LinesApart ==
  ASSUME ImportTypeOK, Traced, Tracing
  PROVE  /\ \A i \in DOMAIN targets : targets[i].lines \subseteq Valid /\ targets[i].lines # {}
         /\ \A i, j \in DOMAIN targets : i # j => targets[i].lines \cap targets[j].lines = {}
         /\ UNION {targets[i].lines : i \in DOMAIN targets} = Valid
<1>1. /\ {targets[i].lines : i \in DOMAIN targets} = People
      /\ UNION People = Valid
      /\ \A i, j \in DOMAIN targets : targets[i].lines = targets[j].lines => i = j
  BY DEF Traced
<1>2. \A S \in People : S # {}
  BY PartsAre DEF People
<1>3. \A S, T \in People : S \cap T # {} => S = T
  BY PartsApart DEF People
<1>. QED
  BY <1>1, <1>2, <1>3

\* What the reader does to the targets and the table leaves them of their types.
LEMMA TypesKept ==
  ASSUME ImportTypeOK, NEW entry \in Rows, ReadsRow(entry),
         targets' \in Seq(TargetRows),
         \A k \in DOMAIN aliases' : aliases'[k] \in DOMAIN targets',
         \E A : aliases' \in [A -> DOMAIN targets'],
         duplicates' \in Nat, invalid' \in Nat, sourceRows' \in Nat,
         outcome' \in {"reading", "refused", "rejected", "stored"}
  PROVE  ImportTypeOK'
<1>1. file' \in Seq(Rows)
  BY FileRead
<1>2. reader' \in Readers
  BY DEF ImportTypeOK, ReadsRow
<1>3. aliases' \in [DOMAIN aliases' -> DOMAIN targets']
  OBVIOUS
<1>. QED
  BY <1>1, <1>2, <1>3 DEF ImportTypeOK, TargetRows

-----------------------------------------------------------------------------
(* One row.                                                                *)

\* A row joined by its key: types, and a target or a duplicate more.
LEMMA ByKeyTypes ==
  ASSUME ImportTypeOK, NEW k, NEW t \in TargetRows, ByKey(k, t)
  PROVE  /\ targets' \in Seq(TargetRows)
         /\ aliases' \in [DOMAIN aliases' -> DOMAIN targets']
         /\ duplicates' \in Nat
         /\ Len(targets') + duplicates' = Len(targets) + duplicates + 1
<1>1. /\ targets \in Seq(TargetRows) /\ Len(targets) \in Nat
      /\ \A i \in DOMAIN targets : targets[i] \in TargetRows
      /\ \A j \in DOMAIN aliases : aliases[j] \in DOMAIN targets
  BY TargetTypes
<1>2. duplicates \in Nat /\ aliases \in [DOMAIN aliases -> DOMAIN targets]
  BY DEF ImportTypeOK
<1>3. CASE k \in DOMAIN aliases
  <2> DEFINE m == aliases[k]
             more == [targets[m] EXCEPT !.lines = @ \cup t.lines]
  <2>1. /\ targets' = [targets EXCEPT ![m] = more] /\ aliases' = aliases
        /\ duplicates' = duplicates + 1
    BY <1>3 DEF ByKey, Repeat
  <2>2. m \in DOMAIN targets /\ more \in TargetRows
    BY <1>1, <1>3 DEF TargetRows
  <2>. HIDE DEF m, more
  <2>3. /\ targets' \in Seq(TargetRows) /\ Len(targets') = Len(targets)
        /\ DOMAIN targets' = DOMAIN targets
    BY <1>1, <2>1, <2>2, ExceptSeq
  <2>. QED
    BY <1>1, <1>2, <2>1, <2>3
<1>4. CASE k \notin DOMAIN aliases
  <2> DEFINE new == Len(targets) + 1
  <2>1. /\ targets' = Append(targets, t) /\ duplicates' = duplicates
        /\ aliases' = Named({k}, new, aliases)
    BY <1>4 DEF ByKey
  <2>2. /\ targets' \in Seq(TargetRows) /\ Len(targets') = Len(targets) + 1
        /\ DOMAIN targets' = DOMAIN targets \cup {new}
    BY <2>1, AppendedIs
  <2>. HIDE DEF new
  <2>3. aliases' \in [DOMAIN aliases' -> DOMAIN targets']
    BY <1>1, <2>1, <2>2 DEF Named
  <2>4. Len(targets') + duplicates' = Len(targets) + duplicates + 1
    BY <1>1, <1>2, <2>1, <2>2
  <2>. QED
    BY <1>2, <2>1, <2>2, <2>3, <2>4, Zenon
<1>. QED
  BY <1>3, <1>4

\* A row of a priority file.
LEMMA PriorityTypes ==
  ASSUME ImportTypeOK, NEW entry \in Rows, reader = "priority", Merge(Fresh(entry)),
         outcome = "reading"
  PROVE  /\ targets' \in Seq(TargetRows)
         /\ aliases' \in [DOMAIN aliases' -> DOMAIN targets']
         /\ duplicates' \in Nat
         /\ outcome' \in {"reading", "refused"}
         /\ outcome' # "refused" => Len(targets') + duplicates' = Len(targets) + duplicates + 1
<1> DEFINE M == Matched(entry)
           t == Fresh(entry)
           S == {targets[i] : i \in M}
           whole == Combined(S, t)
<1>1. /\ targets \in Seq(TargetRows) /\ Len(targets) \in Nat
      /\ \A i \in DOMAIN targets : targets[i] \in TargetRows
      /\ \A j \in DOMAIN aliases : aliases[j] \in DOMAIN targets
  BY TargetTypes
<1>2. duplicates \in Nat /\ aliases \in [DOMAIN aliases -> DOMAIN targets]
  BY DEF ImportTypeOK
<1>3. /\ Matches(t) = M /\ t \in TargetRows /\ Aliases(t) = Aliases(entry)
      /\ \A i \in M : i \in DOMAIN targets /\ targets[i] \in TargetRows
  BY MeetsLines, FreshIs
<1>4. CASE M = {}
  <2> DEFINE new == Len(targets) + 1
  <2>1. /\ targets' = Append(targets, t) /\ duplicates' = duplicates /\ outcome' = outcome
        /\ aliases' = Named(Aliases(t), new, aliases)
    BY <1>3, <1>4 DEF Merge
  <2>2. /\ targets' \in Seq(TargetRows) /\ Len(targets') = Len(targets) + 1
        /\ DOMAIN targets' = DOMAIN targets \cup {new}
    BY <1>3, <2>1, AppendedIs
  <2>. HIDE DEF new, t
  <2>3. aliases' \in [DOMAIN aliases' -> DOMAIN targets']
    BY <1>1, <2>1, <2>2 DEF Named
  <2>4. Len(targets') + duplicates' = Len(targets) + duplicates + 1
    BY <1>1, <1>2, <2>1, <2>2
  <2>. QED
    BY <1>2, <2>1, <2>2, <2>3, <2>4, Zenon
<1>5. CASE M # {} /\ outcome' = "refused"
  <2>1. UNCHANGED <<targets, aliases, duplicates>>
    BY <1>3, <1>5 DEF Merge
  <2>. QED
    BY <1>1, <1>2, <1>5, <2>1
<1>6. CASE M # {} /\ outcome' # "refused"
  <2> DEFINE table == [k \in DOMAIN aliases |-> Renumber(aliases[k], M)]
  <2>1. /\ targets' = Joined(M, whole)
        /\ duplicates' = duplicates + Cardinality(M) /\ outcome' = outcome
        /\ aliases' = Named(Aliases(whole), Min(M), table)
    BY <1>3, <1>6 DEF Merge, Repeats
  <2>2. whole \in TargetRows
    <3>1. S \subseteq TargetRows
      BY <1>3
    <3>. HIDE DEF S, t
    <3>. QED
      BY <1>3, <3>1, CombinedIs
  <2>3. M \in SUBSET DOMAIN targets /\ M # {}
    BY <1>3, <1>6
  <2>. HIDE DEF M, whole, table
  <2>4. /\ targets' \in Seq(TargetRows)
        /\ Cardinality(M) \in Nat
        /\ Len(targets') = Len(targets) - Cardinality(M) + 1
        /\ Min(M) \in M
        /\ \A i \in DOMAIN targets : Renumber(i, M) \in DOMAIN targets'
        /\ \A i \in M : Renumber(i, M) = Min(M)
    BY <1>1, <2>1, <2>2, <2>3, JoinedNext
  <2>5. Min(M) \in DOMAIN targets'
    BY <2>3, <2>4
  <2>6. \A k \in DOMAIN table : table[k] \in DOMAIN targets'
    BY <1>1, <2>4 DEF table
  <2>7. aliases' \in [DOMAIN aliases' -> DOMAIN targets']
    BY <2>1, <2>5, <2>6 DEF Named
  <2>8. Len(targets') + duplicates' = Len(targets) + duplicates + 1 /\ duplicates' \in Nat
    BY <1>1, <1>2, <2>1, <2>4
  <2>. QED
    BY <2>1, <2>4, <2>7, <2>8
<1>. QED
  BY <1>4, <1>5, <1>6

\* Where targets have no lines they get none.
LEMMA ByKeyUnlined ==
  ASSUME ImportTypeOK, NEW k, NEW t \in TargetRows, ByKey(k, t), t.lines = {},
         \A i \in DOMAIN targets : targets[i].lines = {}
  PROVE  \A i \in DOMAIN targets' : targets'[i].lines = {}
<1>1. /\ \A i \in DOMAIN targets : targets[i] \in TargetRows
      /\ \A j \in DOMAIN aliases : aliases[j] \in DOMAIN targets
  BY TargetTypes
<1>2. CASE k \in DOMAIN aliases
  <2>1. targets' = [targets EXCEPT ![aliases[k]].lines = @ \cup t.lines]
    BY <1>2 DEF ByKey, Repeat
  <2>. QED
    BY <1>1, <1>2, <2>1 DEF TargetRows
<1>3. CASE k \notin DOMAIN aliases
  <2>1. targets' = Append(targets, t)
    BY <1>3 DEF ByKey
  <2>. QED
    BY <2>1, AppendedIs
<1>. QED
  BY <1>2, <1>3

\* A row of a priority file keeps the invariant.
LEMMA PriorityKeeps ==
  ASSUME ImportIInv, NEW entry \in Rows, ReadRow(entry), ReadPriority(entry)
  PROVE  ImportIInv'
<1>1. /\ ImportTypeOK /\ Traced /\ NamesLead /\ IdsAgree /\ Counted
      /\ outcome = "reading" /\ reader = "priority"
      /\ ReadsRow(entry) /\ sourceRows' = sourceRows
      /\ Takes(entry) <=> entry.name # Blank
  BY DEF ImportIInv, ReadRow, ReadPriority, ReadsRow, Takes
<1>2. Tracing /\ Unlined'
  BY <1>1 DEF Tracing, Unlined, ReadsRow
<1>3. /\ duplicates \in Nat /\ invalid \in Nat /\ sourceRows \in Nat /\ Len(targets) \in Nat
      /\ Cardinality(Valid) \in Nat
      /\ Len(file') = Len(file) + 1
      /\ Cardinality(Valid') = IF Takes(entry) THEN Cardinality(Valid) + 1 ELSE Cardinality(Valid)
      /\ Len(file) = Len(targets) + duplicates + invalid
      /\ Len(file) = Cardinality(Valid) + invalid
  BY <1>1, TargetTypes, ValidCount, ValidNext DEF Counted, ImportTypeOK
<1>4. CASE ~Takes(entry)
  <2>1. invalid' = invalid + 1 /\ UNCHANGED <<targets, aliases, duplicates, outcome>>
    BY <1>1, <1>4 DEF ReadPriority
  <2>2. Traced' /\ NamesLead'
    BY <1>1, <1>2, <1>4, <2>1, RowIsNone
  <2>3. ImportTypeOK'
    <3>1. /\ targets' \in Seq(TargetRows)
          /\ aliases' \in [DOMAIN aliases' -> DOMAIN targets']
          /\ duplicates' \in Nat /\ invalid' \in Nat /\ sourceRows' \in Nat
          /\ outcome' \in {"reading", "refused", "rejected", "stored"}
      BY <1>1, <1>3, <2>1, TargetTypes DEF ImportTypeOK
    <3>. QED
      BY <1>1, <3>1, TypesKept
  <2>4. IdsAgree'
    <3>1. \A i \in DOMAIN targets : \A n \in targets[i].lines : file'[n] = file[n]
      BY <1>1, <1>2, FileRead DEF Traced
    <3>. QED
      BY <1>1, <2>1, <3>1 DEF IdsAgree
  <2>5. RefusedForCause'
    BY <1>1, <2>1 DEF RefusedForCause
  <2>6. Counted'
    <3>1. /\ Len(file') = Len(targets') + duplicates' + invalid'
          /\ Len(file') = Cardinality(Valid') + invalid'
      <4>1. /\ Len(targets') = Len(targets) /\ duplicates' = duplicates
            /\ Cardinality(Valid') = Cardinality(Valid)
        BY <1>3, <1>4, <2>1
      <4>. QED
        BY <1>3, <2>1, <4>1
    <3>. QED
      BY <1>1, <2>1, <3>1 DEF Counted
  <2>. QED
    BY <1>2, <2>2, <2>3, <2>4, <2>5, <2>6 DEF ImportIInv
<1>5. CASE Takes(entry)
  <2>1. Merge(Fresh(entry)) /\ invalid' = invalid
    BY <1>1, <1>5 DEF ReadPriority
  <2>2. /\ targets' \in Seq(TargetRows)
        /\ aliases' \in [DOMAIN aliases' -> DOMAIN targets']
        /\ duplicates' \in Nat
        /\ outcome' \in {"reading", "refused"}
        /\ outcome' # "refused" => Len(targets') + duplicates' = Len(targets) + duplicates + 1
    BY <1>1, <2>1, PriorityTypes
  <2>3. ImportTypeOK'
    BY <1>1, <1>3, <2>1, <2>2, TypesKept
  <2>4. Counted'
    <3>1. outcome' # "refused" =>
            /\ Len(file') = Len(targets') + duplicates' + invalid'
            /\ Len(file') = Cardinality(Valid') + invalid'
      <4>1. Len(targets') \in Nat
        BY <2>2, LenProperties
      <4>2. /\ Len(file') = Len(file) + 1 /\ Len(file) \in Nat
            /\ Len(file) = Len(targets) + duplicates + invalid
            /\ Len(file) = Cardinality(Valid) + invalid
        BY <1>3
      <4>3. Cardinality(Valid') = Cardinality(Valid) + 1
        BY <1>3, <1>5
      <4>4. Len(file') = Cardinality(Valid') + invalid'
        BY <1>3, <2>1, <4>2, <4>3
      <4>5. outcome' # "refused" => Len(file') = Len(targets') + duplicates' + invalid'
        <5>1. HAVE outcome' # "refused"
        <5>2. Len(targets') + duplicates' = Len(targets) + duplicates + 1
          BY <2>2, <5>1
        <5>3. duplicates' \in Nat /\ invalid' = invalid
          BY <2>1, <2>2
        <5>. QED
          BY <1>3, <4>1, <4>2, <5>2, <5>3
      <4>. QED
        BY <4>4, <4>5
    <3>. QED
      BY <2>2, <3>1 DEF Counted
  <2>5. Matches(Fresh(entry)) = Matched(entry)
    BY <1>1, MeetsLines
  <2>6. CASE outcome' = "refused"
    <3>1. Conflict(Meets(entry))
      BY <1>1, <2>1, <2>5, <2>6 DEF Merge, Meets
    <3>2. \E S \in People' : Conflict({file'[i] : i \in S})
      BY <1>1, <1>2, <1>5, <3>1, MergeRefused
    <3>3. RefusedForCause'
      <4>1. (\E S \in People : Conflict({file[i] : i \in S}))'
        BY <3>2 DEF Conflict
      <4>. QED
        BY <4>1 DEF RefusedForCause
    <3>4. Traced' /\ NamesLead' /\ IdsAgree'
      BY <2>6 DEF Traced, NamesLead, IdsAgree, Tracing
    <3>. QED
      BY <1>2, <2>3, <2>4, <3>3, <3>4 DEF ImportIInv
  <2>7. CASE outcome' # "refused"
    <3>1. CASE Matched(entry) = {}
      <4>1. /\ targets' = Append(targets, Fresh(entry))
            /\ aliases' = Named(Aliases(Fresh(entry)), Len(targets) + 1, aliases)
        BY <2>1, <2>5, <3>1 DEF Merge
      <4>. QED
        BY <1>1, <1>2, <1>5, <2>3, <2>4, <2>7, <3>1, <4>1, MergeNew DEF ImportIInv, RefusedForCause
    <3>2. CASE Matched(entry) # {}
      <4>1. ~Conflict(Meets(entry))
        BY <2>1, <2>5, <2>7, <3>2 DEF Merge, Meets
      <4>. QED
        BY <1>1, <1>2, <1>5, <2>1, <2>3, <2>4, <2>7, <3>2, <4>1, MergeJoined
        DEF ImportIInv, RefusedForCause
    <3>. QED
      BY <3>1, <3>2
  <2>. QED
    BY <2>6, <2>7
<1>. QED
  BY <1>4, <1>5

\* A row of an export, of comments or of a workbook.
LEMMA KeyedKeeps ==
  ASSUME ImportIInv, NEW entry \in Rows, ReadRow(entry),
         ReadExport(entry) \/ ReadComments(entry) \/ ReadWorkbook(entry)
  PROVE  ImportIInv'
<1>1. /\ ImportTypeOK /\ Traced /\ NamesLead /\ Counted
      /\ Unlined /\ outcome = "reading" /\ reader \in {"export", "comments", "workbook"}
      /\ ReadsRow(entry) /\ sourceRows' = sourceRows
      /\ Takes(entry) <=> ~Incomplete(entry)
  BY DEF ImportIInv, ReadRow, ReadExport, ReadComments, ReadWorkbook, ReadsRow, Takes
<1>2. /\ duplicates \in Nat /\ invalid \in Nat /\ sourceRows \in Nat /\ Len(targets) \in Nat
      /\ Cardinality(Valid) \in Nat
      /\ Len(file') = Len(file) + 1
      /\ Cardinality(Valid') = IF Takes(entry) THEN Cardinality(Valid) + 1 ELSE Cardinality(Valid)
      /\ Len(file) = Len(targets) + duplicates + invalid
      /\ Len(file) = Cardinality(Valid) + invalid
  BY <1>1, TargetTypes, ValidCount, ValidNext DEF Counted, ImportTypeOK
<1>3. IdsAgree' /\ RefusedForCause'
  BY <1>1 DEF IdsAgree, RefusedForCause, ReadsRow
<1>4. CASE ~Takes(entry)
  <2>1. /\ UNCHANGED <<targets, aliases, duplicates>>
        /\ \/ invalid' = invalid + 1 /\ outcome' = "reading"
           \/ invalid' = invalid /\ outcome' = "refused"
    BY <1>1, <1>4 DEF ReadExport, ReadComments, ReadWorkbook
  <2>2. Traced' /\ NamesLead'
    <3>1. CASE Tracing
      BY <1>1, <1>4, <2>1, <3>1, RowIsNone
    <3>2. CASE ~Tracing
      BY <1>1, <3>2 DEF Tracing, Traced, NamesLead, ReadsRow
    <3>. QED
      BY <3>1, <3>2
  <2>3. ImportTypeOK'
    <3>1. /\ targets' \in Seq(TargetRows)
          /\ aliases' \in [DOMAIN aliases' -> DOMAIN targets']
          /\ duplicates' \in Nat /\ invalid' \in Nat /\ sourceRows' \in Nat
          /\ outcome' \in {"reading", "refused", "rejected", "stored"}
      BY <1>1, <1>2, <2>1, TargetTypes DEF ImportTypeOK
    <3>. QED
      BY <1>1, <3>1, TypesKept
  <2>4. Counted'
    <3>1. outcome' # "refused" => /\ Len(file') = Len(targets') + duplicates' + invalid'
                                  /\ Len(file') = Cardinality(Valid') + invalid'
      <4>1. /\ Len(targets') = Len(targets) /\ duplicates' = duplicates
            /\ Cardinality(Valid') = Cardinality(Valid)
        BY <1>2, <1>4, <2>1
      <4>. QED
        BY <1>2, <2>1, <4>1
    <3>. QED
      BY <2>1, <3>1 DEF Counted
  <2>. QED
    BY <1>1, <1>3, <2>1, <2>2, <2>3, <2>4 DEF ImportIInv, Unlined, ReadsRow
<1>5. CASE Takes(entry)
  <2>1. outcome' = "reading" /\ invalid' = invalid
    BY <1>1, <1>5 DEF ReadExport, ReadComments, ReadWorkbook
  <2>2. /\ targets' \in Seq(TargetRows)
        /\ aliases' \in [DOMAIN aliases' -> DOMAIN targets']
        /\ duplicates' \in Nat
        /\ Len(targets') + duplicates' = Len(targets) + duplicates + 1
    <3>1. CASE reader = "workbook"
      <4>1. ByKey(<<"uid", entry.uid>>, [Fresh(entry) EXCEPT !.lines = {}])
        BY <1>1, <1>5, <3>1 DEF ReadExport, ReadComments, ReadWorkbook
      <4>2. [Fresh(entry) EXCEPT !.lines = {}] \in TargetRows
        BY <1>1, FreshIs
      <4>. QED
        BY <1>1, <4>1, <4>2, ByKeyTypes
    <3>2. CASE reader # "workbook"
      <4>1. ByKey(KeyOf(entry), Fresh(entry))
        BY <1>1, <1>5, <3>2 DEF ReadExport, ReadComments, ReadWorkbook
      <4>2. Fresh(entry) \in TargetRows
        BY <1>1, FreshIs
      <4>. QED
        BY <1>1, <4>1, <4>2, ByKeyTypes
    <3>. QED
      BY <3>1, <3>2
  <2>3. ImportTypeOK'
    BY <1>1, <1>2, <2>1, <2>2, TypesKept
  <2>4. Counted'
    <3>1. Len(targets') \in Nat
      BY <2>2, LenProperties
    <3>2. /\ Len(file') = Len(targets') + duplicates' + invalid'
          /\ Len(file') = Cardinality(Valid') + invalid'
      <4>1. /\ Len(file') = Len(file) + 1 /\ Len(file) \in Nat
            /\ Len(file) = Len(targets) + duplicates + invalid
            /\ Len(file) = Cardinality(Valid) + invalid
        BY <1>2
      <4>2. Cardinality(Valid') = Cardinality(Valid) + 1
        BY <1>2, <1>5
      <4>3. duplicates' \in Nat /\ invalid' = invalid
        BY <2>1, <2>2
      <4>4. Len(targets') + duplicates' = Len(targets) + duplicates + 1
        BY <2>2
      <4>5. Len(file') = Len(targets') + duplicates' + invalid'
        BY <1>2, <3>1, <4>1, <4>3, <4>4
      <4>6. Len(file') = Cardinality(Valid') + invalid'
        BY <1>2, <4>1, <4>2, <4>3
      <4>. QED
        BY <4>5, <4>6
    <3>. QED
      BY <2>1, <3>2 DEF Counted
  <2>5. Traced' /\ NamesLead'
    <3>1. CASE reader = "workbook"
      BY <1>1, <3>1 DEF Traced, NamesLead, Tracing, ReadsRow
    <3>2. CASE reader # "workbook"
      <4>1. ByKey(KeyOf(entry), Fresh(entry))
        BY <1>1, <1>5, <3>2 DEF ReadExport, ReadComments, ReadWorkbook
      <4>2. Tracing
        BY <1>1, <3>2 DEF Tracing
      <4>. QED
        BY <1>1, <1>5, <4>1, <4>2, ByKeyTraces
    <3>. QED
      BY <3>1, <3>2
  <2>6. Unlined'
    <3>1. CASE reader = "workbook"
      <4>1. ByKey(<<"uid", entry.uid>>, [Fresh(entry) EXCEPT !.lines = {}])
        BY <1>1, <1>5, <3>1 DEF ReadExport, ReadComments, ReadWorkbook
      <4>2. [Fresh(entry) EXCEPT !.lines = {}] \in TargetRows
        BY <1>1, FreshIs
      <4>3. [Fresh(entry) EXCEPT !.lines = {}].lines = {}
        BY DEF Fresh
      <4>4. \A i \in DOMAIN targets : targets[i].lines = {}
        BY <1>1, <3>1 DEF Unlined
      <4>. QED
        BY <1>1, <4>1, <4>2, <4>3, <4>4, ByKeyUnlined DEF Unlined
    <3>2. CASE reader # "workbook"
      BY <1>1, <3>2 DEF Unlined, ReadsRow
    <3>. QED
      BY <3>1, <3>2
  <2>. QED
    BY <1>3, <2>3, <2>4, <2>5, <2>6 DEF ImportIInv
<1>. QED
  BY <1>4, <1>5

\* The pool at the end of the file.
LEMMA PoolKeeps ==
  ASSUME ImportIInv, ImportPool
  PROVE  ImportIInv'
<1>1. /\ ImportTypeOK /\ Traced /\ NamesLead /\ IdsAgree /\ Counted
      /\ Unlined /\ outcome = "reading" /\ outcome' \in {"rejected", "stored"}
      /\ UNCHANGED <<reader, file, targets, aliases, duplicates, invalid>>
  BY DEF ImportIInv, ImportPool
<1>2. Valid' = Valid /\ Tracing' = Tracing /\ \A r : Tokens(r)' = Tokens(r)
  BY <1>1 DEF Valid, Incomplete, Tracing, Tokens
<1>3. People' = People
  <2>1. Kin' = Kin
    BY <1>1, <1>2 DEF Kin, Joins
  <2>. QED
    BY <2>1 DEF People, Parts, Closed
<1>4. Traced'
  BY <1>1, <1>2, <1>3 DEF Traced
<1>5. NamesLead'
  BY <1>1, <1>2 DEF NamesLead
<1>6. IdsAgree' /\ RefusedForCause'
  BY <1>1 DEF IdsAgree, RefusedForCause
<1>7. /\ sourceRows' \in Nat
      /\ outcome' = "stored" =>
           sourceRows' = IF reader = "workbook" THEN Len(targets) ELSE Cardinality(Valid)
  <2>1. CASE outcome' = "rejected"
    BY <1>1, <2>1 DEF ImportPool, ImportTypeOK
  <2>2. CASE outcome' = "stored" /\ reader # "workbook"
    <3> DEFINE D == DOMAIN targets
               W == [i \in D |-> targets[i].lines]
    <3>1. IsFiniteSet(D) /\ D = DOMAIN targets
      BY <1>1, TargetTypes, FS_Interval
    <3>2. IsFiniteSet(Valid) /\ Cardinality(Valid) \in Nat
      BY <1>1, ValidCount
    <3>3. /\ \A i \in D : targets[i].lines \subseteq Valid /\ targets[i].lines # {}
          /\ \A i, j \in D : i # j => targets[i].lines \cap targets[j].lines = {}
          /\ UNION {targets[i].lines : i \in D} = Valid
      BY <1>1, <2>2, LinesApart DEF Tracing
    <3>6. /\ \A i \in D : W[i] \subseteq Valid /\ RowsBehind(targets[i]) = Cardinality(W[i])
          /\ \A i, j \in D : i # j => W[i] \cap W[j] = {}
          /\ AllOf(W, D) = Valid
      BY <3>3 DEF RowsBehind, AllOf
    <3>. HIDE DEF D, W
    <3>4. MapThenSumSet(LAMBDA i : RowsBehind(targets[i]), D) =
            Cardinality(AllOf(W, D))
      BY <3>1, <3>2, <3>6, RowsSummed, Zenon
    <3>5. sourceRows' = MapThenSumSet(LAMBDA i : RowsBehind(targets[i]), D)
      BY <2>2 DEF ImportPool, D
    <3>. QED
      BY <2>2, <3>2, <3>4, <3>5, <3>6
  <2>3. CASE outcome' = "stored" /\ reader = "workbook"
    <3> DEFINE D == DOMAIN targets
               W == [i \in D |-> {i}]
    <3>1. /\ IsFiniteSet(D) /\ D = DOMAIN targets
          /\ Cardinality(D) = Len(targets) /\ Len(targets) \in Nat
      <4>1. Len(targets) \in Nat /\ D = 1..Len(targets)
        BY <1>1, TargetTypes
      <4>. HIDE DEF D, W
      <4>2. /\ IsFiniteSet(1..Len(targets))
            /\ Cardinality(1..Len(targets)) = IF 1 > Len(targets) THEN 0 ELSE Len(targets) - 1 + 1
        BY <4>1, FS_Interval
      <4>. QED
        BY <4>1, <4>2 DEF D
    <3>2. /\ \A i \in D : W[i] \subseteq D /\ RowsBehind(targets[i]) = Cardinality(W[i])
          /\ \A i, j \in D : i # j => W[i] \cap W[j] = {}
          /\ AllOf(W, D) = D
      <4>1. \A i \in D : RowsBehind(targets[i]) = 1
        BY <1>1, <2>3 DEF RowsBehind, Unlined
      <4>2. \A i \in D : W[i] = {i}
        OBVIOUS
      <4>3. \A i : Cardinality({i}) = 1
        BY FS_Singleton
      <4>4. AllOf(W, D) = D
        BY <4>2 DEF AllOf
      <4>. HIDE DEF D, W
      <4>. QED
        BY <4>1, <4>2, <4>3, <4>4
    <3>. HIDE DEF D, W
    <3>3. MapThenSumSet(LAMBDA i : RowsBehind(targets[i]), D) =
            Cardinality(AllOf(W, D))
      BY <3>1, <3>2, RowsSummed, Zenon
    <3>4. sourceRows' = MapThenSumSet(LAMBDA i : RowsBehind(targets[i]), D)
      BY <2>3 DEF ImportPool, D
    <3>. QED
      BY <2>3, <3>1, <3>2, <3>3, <3>4
  <2>. QED
    BY <1>1, <2>1, <2>2, <2>3
<1>8. Counted'
  BY <1>1, <1>2, <1>7 DEF Counted
<1>9. ImportTypeOK'
  BY <1>1, <1>7 DEF ImportTypeOK
<1>. QED
  BY <1>1, <1>4, <1>5, <1>6, <1>8, <1>9 DEF ImportIInv, Unlined

\* Every step keeps the invariant.
LEMMA ImportStep ==
  ASSUME ImportIInv, [ImportNext]_importVars
  PROVE  ImportIInv'
<1>1. ASSUME NEW entry \in Rows, ReadRow(entry) PROVE ImportIInv'
  <2>1. CASE ReadPriority(entry)
    BY <1>1, <2>1, PriorityKeeps
  <2>2. CASE ReadExport(entry) \/ ReadComments(entry) \/ ReadWorkbook(entry)
    BY <1>1, <2>2, KeyedKeeps
  <2>. QED
    BY <1>1, <2>1, <2>2 DEF ReadRow
<1>2. CASE ImportPool
  BY <1>2, PoolKeeps
<1>3. CASE UNCHANGED importVars
  <2>1. /\ ImportTypeOK' /\ Unlined' /\ Valid' = Valid
        /\ Tracing' = Tracing /\ \A r : Tokens(r)' = Tokens(r)
    BY <1>3 DEF importVars, ImportIInv, ImportTypeOK, Unlined, Valid, Incomplete, Tracing, Tokens
  <2>2. People' = People
    <3>1. Kin' = Kin
      BY <1>3, <2>1 DEF importVars, Kin, Joins
    <3>. QED
      BY <3>1 DEF People, Parts, Closed
  <2>3. Traced'
    BY <1>3, <2>1, <2>2 DEF importVars, ImportIInv, Traced
  <2>4. NamesLead'
    BY <1>3, <2>1 DEF importVars, ImportIInv, NamesLead
  <2>5. IdsAgree' /\ RefusedForCause'
    BY <1>3, <2>2 DEF importVars, ImportIInv, IdsAgree, RefusedForCause, Conflict
  <2>6. Counted'
    BY <1>3, <2>1 DEF importVars, ImportIInv, Counted
  <2>. QED
    BY <2>1, <2>3, <2>4, <2>5, <2>6 DEF ImportIInv
<1>. QED
  BY <1>1, <1>2, <1>3 DEF ImportNext

\* The invariant holds before the first row.
LEMMA ImportStart == ImportInit => ImportIInv
<1>1. SUFFICES ASSUME ImportInit PROVE ImportIInv
  OBVIOUS
<1>2. /\ reader \in Readers /\ file = <<>> /\ targets = <<>> /\ aliases = <<>>
      /\ duplicates = 0 /\ invalid = 0 /\ sourceRows = 0 /\ outcome = "reading"
  BY <1>1 DEF ImportInit
<1>3. Valid = {} /\ DOMAIN targets = {} /\ DOMAIN aliases = {}
  BY <1>2 DEF Valid
<1>4. People = {}
  <2>1. DOMAIN Kin = {}
    BY <1>3 DEF Kin
  <2>2. \A S : S \notin Parts(Kin)
    BY <2>1, PartsAre
  <2>. QED
    BY <2>2 DEF People
<1>5. ImportTypeOK
  BY <1>2, <1>3 DEF ImportTypeOK
<1>6. Traced /\ NamesLead /\ IdsAgree /\ RefusedForCause /\ Unlined
  BY <1>2, <1>3, <1>4 DEF Traced, NamesLead, IdsAgree, RefusedForCause, Unlined
<1>7. Counted
  BY <1>2, <1>3, FS_EmptySet DEF Counted
<1>. QED
  BY <1>5, <1>6, <1>7 DEF ImportIInv

\* The table leads, at every moment of reading a file, from each name of a person's rows
\* to that person's one target, the ids of a target are those of its rows, and a row is
\* counted once (the loops of priority_importer.py and importer.py).
THEOREM ImportInductive == ImportSpec => []ImportIInv
BY ImportStart, ImportStep, PTL DEF ImportSpec

\* There are as many targets as people.
LEMMA TargetsAreCounted ==
  ASSUME ImportTypeOK, Traced, Tracing
  PROVE  Len(targets) = Cardinality(People)
<1> DEFINE n == Len(targets)
           f == [i \in 1..n |-> targets[i].lines]
<1>1. n \in Nat /\ DOMAIN targets = 1..n
  BY TargetTypes
<1>2. /\ {targets[i].lines : i \in 1..n} = People
      /\ \A i, j \in 1..n : targets[i].lines = targets[j].lines => i = j
  BY <1>1 DEF Traced
<1>3. f \in Bijection(1..n, People)
  BY <1>2 DEF Bijection, Injection, Surjection, IsInjective
<1>. HIDE DEF f, n
<1>4. IsFiniteSet(1..n) /\ Cardinality(1..n) = n
  BY <1>1, FS_Interval
<1>5. ExistsBijection(1..n, People)
  BY <1>3, Zenon DEF ExistsBijection
<1>6. Cardinality(1..n) = Cardinality(People)
  BY <1>4, <1>5, FS_Bijection
<1>. QED
  BY <1>4, <1>6 DEF n

\* The invariant says of a finished import what the reference says of the file.
LEMMA InvGivesPeople == ImportIInv => OneTargetPerPerson
<1>1. SUFFICES ASSUME ImportIInv PROVE OneTargetPerPerson
  OBVIOUS
<1>2. ASSUME reader # "workbook", outcome = "stored"
      PROVE  /\ {targets[i].lines : i \in DOMAIN targets} = People
             /\ Len(targets) = Cardinality(People)
  BY <1>1, <1>2, TargetsAreCounted DEF ImportIInv, Tracing, Traced
<1>3. ASSUME reader = "priority", outcome = "refused"
      PROVE  \E S \in People : Conflict({file[i] : i \in S})
  BY <1>1, <1>3 DEF ImportIInv, RefusedForCause
<1>4. ASSUME reader = "priority", outcome # "refused", NEW S \in People
      PROVE  ~Conflict({file[i] : i \in S})
  <2>1. PICK i \in DOMAIN targets : S = targets[i].lines
    BY <1>1, <1>4 DEF ImportIInv, Tracing, Traced
  <2>2. \A n \in S : /\ file[n].sec \in {Blank, targets[i].sec}
                    /\ file[n].uid \in {Blank, targets[i].uid}
    BY <1>1, <1>4, <2>1 DEF ImportIInv, IdsAgree
  <2>. QED
    BY <2>2 DEF Conflict, Differ
<1>. QED
  BY <1>2, <1>3, <1>4 DEF OneTargetPerPerson

\* However the rows of a file come, and however late it turns out that two targets are
\* one, the pool has one target for each person of the file with all of that person's
\* rows behind it, and a priority file is refused exactly when rows of one person name
\* two sec_uids or two user ids (_merge_target, _combine_targets, import_pool).
THEOREM ImportOneTargetPerPerson == ImportSpec => []OneTargetPerPerson
BY ImportInductive, InvGivesPeople, PTL

\* The invariant accounts for every row.
LEMMA InvGivesAccount == ImportIInv => RowsAccounted
<1>1. SUFFICES ASSUME ImportIInv PROVE RowsAccounted
  OBVIOUS
<1>2. invalid \in Nat /\ Cardinality(Valid) \in Nat
  BY <1>1, ValidCount DEF ImportIInv, ImportTypeOK
<1>. QED
  BY <1>1, <1>2 DEF ImportIInv, Counted, RowsAccounted

\* Every row of a file is behind a target, a duplicate or invalid, also when one row
\* turns several targets into one, and source_rows of the pool is the count of the valid
\* rows, or of the people of a workbook (import_pool).
THEOREM ImportRowsAccounted == ImportSpec => []RowsAccounted
BY ImportInductive, InvGivesAccount, PTL

==============================================================================
