----------------------------- MODULE PriorityQueue -----------------------------
(***************************************************************************)
(* Priority batches that interrupt an ordinary round: their FIFO queue,    *)
(* the barrier every device waits at until a batch is over, the scheduled  *)
(* claim, and the coverage that a confirmed visit lends to the rows of the *)
(* same person in the other rounds of the campaign.                        *)
(*                                                                         *)
(* AssignmentLedger has leases, delays and the order of a device's rows in *)
(* full. Here a row is held, left behind with a live lease, or lapsed; any *)
(* row may be the one that is due, and the fence that keeps a worker from  *)
(* writing to a row it has lost is taken as given.                         *)
(***************************************************************************)
EXTENDS Naturals, Sequences

CONSTANTS
  Devices,       \* the devices of the parent round, and so of its batches
  Batches,       \* priority batches, named by their rounds
  Parent,        \* the ordinary round
  Rows,          \* pool_targets of the rounds' pools
  RoundOf,       \* [Rows -> Batches \cup {Parent}]
  SecOf, IdOf, NameOf, \* sec_uid, target_id and username of a row, functions
  Blank,         \* the empty string in one of these columns
  RoundCommands, \* bound: the states an operator may put a round in
  MaxFailures,   \* bound on lost workers and deferrals
  Nowhere        \* the round of a device without an assignment

ASSUME RowAssumption ==
  /\ RoundOf \in [Rows -> Batches \cup {Parent}]
  /\ Parent \notin Batches /\ Nowhere \notin Batches \cup {Parent}
  /\ RoundCommands \subseteq {"running", "paused", "stopped"}
  /\ MaxFailures \in Nat

\* target_identity_key
KeyOf(t) ==
  IF SecOf[t] # Blank THEN <<"sec", SecOf[t]>>
  ELSE IF IdOf[t] # Blank THEN <<"uid", IdOf[t]>>
  ELSE <<"handle", NameOf[t]>>

\* A pool holds one target per identity key.
ASSUME PoolAssumption ==
  \A t, u \in Rows : t # u /\ RoundOf[t] = RoundOf[u] => KeyOf(t) # KeyOf(u)

Campaign == Batches \cup {Parent}
Assignments == Rows \X Devices
Target(x) == x[1]
Device(x) == x[2]
Round(x) == RoundOf[Target(x)]

Working == {"held", "left", "lapsed"}
Terminal == {"completed", "skipped"}

VARIABLES
  status,      \* phase and lease of a row
  visited,     \* visit_confirmed_at_ms IS NOT NULL
  went,        \* history: the device opened the profile for this very row
  roundState,  \* exposure_rounds.state
  queue,       \* priority_batches by queue_sequence
  batchState,  \* priority_batches.state
  failures     \* lost workers and deferrals so far

rows == <<status, visited, went>>
schedule == <<roundState, queue, batchState>>
vars == <<rows, schedule, failures>>

TypeOK ==
  /\ status \in [Assignments -> {"pending", "deferred"} \cup Working \cup Terminal]
  /\ visited \in [Assignments -> BOOLEAN]
  /\ went \in [Assignments -> BOOLEAN]
  /\ roundState \in
       [Campaign -> {"absent", "pending", "running", "paused", "stopped", "completed"}]
  /\ queue \in Seq(Batches)
  /\ batchState \in
       [Batches -> {"absent", "queued", "running", "barrier", "completed"}]
  /\ failures \in Nat

Init ==
  /\ status = [x \in Assignments |-> "pending"]
  /\ visited = [x \in Assignments |-> FALSE]
  /\ went = [x \in Assignments |-> FALSE]
  /\ roundState = [r \in Campaign |-> IF r = Parent THEN "pending" ELSE "absent"]
  /\ queue = <<>>
  /\ batchState = [b \in Batches |-> "absent"]
  /\ failures = 0

-----------------------------------------------------------------------------
(* Coverage: whose visit satisfies which row. *)

Shared(f, t, u) == f[t] # Blank /\ f[t] = f[u]
Conflict(f, t, u) == f[t] # Blank /\ f[u] # Blank /\ f[t] # f[u]

Match(t, u) ==
  /\ Shared(SecOf, t, u) \/ Shared(IdOf, t, u) \/ Shared(NameOf, t, u)
  /\ ~Conflict(SecOf, t, u) /\ ~Conflict(IdOf, t, u)

\* MUTANT: the account of the visit is not compared.
SameAccountNever(x, y) == TRUE

SameAccount(x, y) == Device(x) = Device(y)

\* Rows nobody has begun.
Open(r) == {x \in Assignments : Round(x) = r /\ status[x] = "pending"}

Links(S, r) ==
  {l \in S \X Open(r) : SameAccount(l[1], l[2]) /\ Match(Target(l[1]), Target(l[2]))}

\* _propagate_confirmed_coverage from the visited rows S to round r; a link
\* counts only if it is the only one of both its ends.
Satisfied(S, r) ==
  {l[2] : l \in {l \in Links(S, r) :
                   \A k \in Links(S, r) : k[1] = l[1] \/ k[2] = l[2] => k = l}}

-----------------------------------------------------------------------------
(* Rounds, batches and turns. *)

Active(r) == roundState[r] \in {"pending", "running"}

Over(r, s) == \A x \in Assignments : Round(x) = r => s[x] \in Terminal

\* MUTANT: the parent does not wait for its batches.
OutstandingNever == {}

\* The batches of the queue that are not completed.
Outstanding == {b \in Batches : batchState[b] \notin {"absent", "completed"}}

\* _mark_round_completed_if_terminal for the rounds R, after the row updates
\* of the same step.
Marked(R) ==
  [r \in Campaign |->
     IF r \in R /\ (r = Parent => Outstanding = {}) /\ Over(r, status')
     THEN "completed" ELSE roundState[r]]

Unfinished == {i \in DOMAIN queue : batchState[queue[i]] # "completed"
                                    /\ ~Over(queue[i], status)}

\* MUTANT: the newest batch goes first.
TurnNewest ==
  LET open == Unfinished
  IN IF open = {} THEN Parent ELSE queue[CHOOSE i \in open : \A j \in open : j <= i]

\* The oldest batch with work left, or the parent.
Turn ==
  LET open == Unfinished
  IN IF open = {} THEN Parent ELSE queue[CHOOSE i \in open : \A j \in open : i <= j]

\* The batches a claim meets ahead of that one.
Passed == LET open == Unfinished
          IN {queue[i] : i \in {i \in DOMAIN queue : \A j \in open : i < j}}

\* What a claim does to the batches and the rounds, whether it finds a row.
Advance ==
  LET turn == Turn
      passed == Passed
  IN /\ batchState' =
          [b \in Batches |->
             IF b \in passed THEN "completed"
             ELSE IF b # turn THEN batchState[b]
             ELSE IF \E d \in Devices : \A x \in Assignments :
                       Round(x) = b /\ Device(x) = d => status[x] \in Terminal
                  THEN "barrier" ELSE "running"]
     /\ UNCHANGED queue

AfterClaim ==
  LET turn == Turn
      passed == Passed
  IN [r \in Campaign |-> IF r \in passed \/ (r = turn /\ Over(r, status))
                          THEN "completed" ELSE roundState[r]]

\* MUTANT: a row is recovered into a state of batches.
ResumedQueued(x) == IF visited[x] THEN "deferred" ELSE "queued"

Resumed(x) == IF visited[x] THEN "deferred" ELSE "pending"

-----------------------------------------------------------------------------
(* Submission of a batch. *)

\* create_priority_batch, as the importer calls it.
CreateBatch(b) ==
  /\ batchState[b] = "absent"
  /\ Active(Parent)
  /\ queue' = Append(queue, b)
  /\ batchState' = [batchState EXCEPT ![b] = "queued"]
  /\ LET S == Satisfied({x \in Assignments : /\ Round(x) = Parent
                                             /\ status[x] = "completed"
                                             /\ visited[x]}, b)
     IN /\ status' = [x \in Assignments |-> IF x \in S THEN "completed" ELSE status[x]]
        /\ visited' = [x \in Assignments |-> visited[x] \/ x \in S]
        /\ roundState' = [roundState EXCEPT ![b] =
             IF Over(b, status') THEN "completed" ELSE "pending"]
  /\ UNCHANGED <<went, failures>>

-----------------------------------------------------------------------------
(* The workers. *)

Busy(d) == {x \in Assignments : Device(x) = d /\ status[x] = "held"}

\* A row of the same identity key is under a live lease.
Blocked(x) ==
  \E y \in Assignments \ {x} :
    KeyOf(Target(y)) = KeyOf(Target(x)) /\ status[y] \in {"held", "left"}

\* MUTANT: only rows that were never visited are claimed.
EligibleFresh(d) ==
  LET turn == Turn
  IN {x \in Assignments :
        /\ Round(x) = turn /\ Device(x) = d
        /\ status[x] = "pending" \/ (status[x] = "lapsed" /\ ~visited[x])
        /\ Active(turn) /\ ~Blocked(x)}

Eligible(d) ==
  LET turn == Turn
  IN {x \in Assignments :
        /\ Round(x) = turn /\ Device(x) = d
        /\ status[x] \in {"pending", "deferred", "lapsed"}
        /\ Active(turn) /\ ~Blocked(x)}

\* The lapsed rows of the device in that round are recovered first.
Recovered(d) ==
  LET turn == Turn
  IN [y \in Assignments |->
        IF Round(y) = turn /\ Device(y) = d /\ status[y] = "lapsed"
        THEN Resumed(y) ELSE status[y]]

\* claim_scheduled_assignment
Claim(d) ==
  /\ Busy(d) = {} /\ Active(Parent)
  /\ \E x \in Eligible(d) : status' = [Recovered(d) EXCEPT ![x] = "held"]
  /\ Advance
  /\ roundState' = [AfterClaim EXCEPT ![Turn] = "running"]
  /\ UNCHANGED <<visited, went, failures>>

\* A claim that finds no row that is due.
ClaimNothing(d) ==
  /\ Busy(d) = {} /\ Active(Parent)
  /\ status' = Recovered(d)
  /\ Advance
  /\ roundState' = AfterClaim
  /\ UNCHANGED <<visited, went, failures>>

Visit(x) ==
  /\ status[x] = "held" /\ ~went[x]
  /\ visited' = [visited EXCEPT ![x] = TRUE]
  /\ went' = [went EXCEPT ![x] = TRUE]
  /\ UNCHANGED <<status, schedule, failures>>

\* The rounds a completed row lends its visit to.
Destinations(r) == (Outstanding \cup {Parent}) \ {r}

\* complete_assignment, with an error code or without: both lend the visit.
Complete(x) ==
  /\ status[x] = "held" /\ visited[x]
  /\ LET S == [r \in Destinations(Round(x)) |-> Satisfied({x}, r)]
         gained == UNION {S[r] : r \in DOMAIN S}
     IN /\ status' = [y \in Assignments |->
                        IF y = x \/ y \in gained THEN "completed" ELSE status[y]]
        /\ visited' = [y \in Assignments |-> visited[y] \/ y \in gained]
        /\ roundState' = Marked({Round(x)} \cup {r \in DOMAIN S : S[r] # {}})
  /\ UNCHANGED <<went, queue, batchState, failures>>

Skip(x) ==
  /\ status[x] = "held" /\ ~visited[x]
  /\ status' = [status EXCEPT ![x] = "skipped"]
  /\ roundState' = Marked({Round(x)})
  /\ UNCHANGED <<visited, went, queue, batchState, failures>>

Defer(x) ==
  /\ status[x] = "held" /\ failures < MaxFailures
  /\ status' = [status EXCEPT ![x] = "deferred"]
  /\ failures' = failures + 1
  /\ UNCHANGED <<visited, went, schedule>>

\* The worker dies or is replaced: its lease outlives it for a while.
LoseWorker(x) ==
  /\ status[x] = "held" /\ failures < MaxFailures
  /\ status' = [status EXCEPT ![x] = "left"]
  /\ failures' = failures + 1
  /\ UNCHANGED <<visited, went, schedule>>

Lapse(x) ==
  /\ status[x] = "left"
  /\ status' = [status EXCEPT ![x] = "lapsed"]
  /\ UNCHANGED <<visited, went, schedule, failures>>

-----------------------------------------------------------------------------
(* The fleet loop and the operators. *)

RecoverExpired ==
  /\ status' = [x \in Assignments |->
                  IF status[x] = "lapsed" THEN Resumed(x) ELSE status[x]]
  /\ UNCHANGED <<visited, went, schedule, failures>>

\* round_operationally_complete
CheckDone ==
  /\ UNCHANGED status
  /\ roundState' = Marked({Parent})
  /\ UNCHANGED <<visited, went, queue, batchState, failures>>

SetRound(r, s) ==
  /\ roundState[r] \notin {"absent", "completed"}
  /\ roundState[r] = "stopped" => s = "stopped"
  /\ roundState' = [roundState EXCEPT ![r] = s]
  /\ UNCHANGED <<rows, queue, batchState, failures>>

SetFleet(s) ==
  /\ roundState' = [r \in Campaign |->
                      IF roundState[r] \in {"absent", "completed", "stopped"}
                      THEN roundState[r] ELSE s]
  /\ UNCHANGED <<rows, queue, batchState, failures>>

Work(x) ==
  \/ Visit(x) \/ Skip(x) \/ Complete(x)

Operate ==
  \/ \E r \in Campaign, s \in RoundCommands : SetRound(r, s)
  \/ \E s \in RoundCommands : SetFleet(s)

Next ==
  \/ \E b \in Batches : CreateBatch(b)
  \/ \E d \in Devices : Claim(d) \/ ClaimNothing(d)
  \/ \E x \in Assignments : Work(x) \/ Defer(x) \/ LoseWorker(x) \/ Lapse(x)
  \/ RecoverExpired \/ CheckDone \/ Operate

Spec == Init /\ [][Next]_vars

\* Workers keep claiming and work on what they hold, leases nobody renews
\* run out, and the fleet loop recovers them.
FairSpec ==
  /\ Spec
  /\ \A d \in Devices : WF_vars(Claim(d)) /\ WF_vars(ClaimNothing(d))
  /\ \A x \in Assignments : WF_vars(Work(x) \/ Lapse(x))
  /\ WF_vars(RecoverExpired)

-----------------------------------------------------------------------------
(* Properties. *)

\* The device has been in person to one of the rows of S.
Gone(d, S) == \E t \in S : went[<<t, d>>]

\* No visit on record can have been lent between S and a row outside.
LoansWithin(d, S) == \A t \in S, u \in Rows : visited[<<u, d>>] /\ Match(t, u) => u \in S

\* The loans that lead to t lead back to a row the device has been to.
TracedTo(t, d) == \A S \in SUBSET Rows : t \in S /\ LoansWithin(d, S) => Gone(d, S)

\* Coverage is traced: follow the loans of visits back from a completed row, each
\* between rows of the device that match, and one comes to a profile the device
\* has opened; nothing is completed by another account's visit, by rows that
\* vouch for each other, or by a visit that was never made
\* (_propagate_confirmed_coverage, complete_assignment, create_priority_batch).
CoverageTraced ==
  \A x \in Assignments : status[x] = "completed" => TracedTo(Target(x), Device(x))

\* A round counts as completed only when its rows are over, a submitted batch
\* exactly then, and the parent never before its batches: no command, claim,
\* submission or shared visit closes a round early or forgets to close one.
RoundsClosedInTime ==
  /\ \A r \in Campaign : roundState[r] = "completed" => Over(r, status)
  /\ \A b \in Batches : batchState[b] # "absent" /\ Over(b, status)
                         => roundState[b] = "completed"
  /\ roundState[Parent] = "completed" =>
       \A b \in Batches : batchState[b] \in {"absent", "completed"}

\* Claims follow the line of BatchBarrier: a batch is not begun before the
\* batches ahead of it are over, nor an ordinary row before all of them.
At(d) == IF Busy(d) = {} THEN Nowhere ELSE Round(CHOOSE x \in Busy(d) : TRUE)

Barrier == INSTANCE BatchBarrier WITH
  Idle <- Nowhere,
  line <- queue,
  done <- {r \in Campaign : roundState[r] = "completed"},
  at <- [d \in Devices |-> At(d)]

ImplementsBarrier == Barrier!BarrierSpec

\* The campaign drains: with finitely many failures every batch and then the
\* parent round come to their end, unless the operator stops or pauses rounds
\* again and again or leaves one so (claim_next_assignment's line, the recovery
\* of leases and the closing of rounds together).
Drains ==
  \/ <>[](roundState[Parent] = "completed")
  \/ []<>(\E r \in Campaign : roundState[r] \in {"paused", "stopped"})

\* What the documents promise of shared visits, see the runs that refute it.

\* A device goes to a person once in a campaign.
OncePerAccount ==
  \A x, y \in Assignments :
    x # y /\ Device(x) = Device(y) /\ Match(Target(x), Target(y))
      => ~(went[x] /\ went[y])

\* Behind a completed row is a visit to the very person it names: no visit is lent
\* against a conflict of stable identities.
CoverageEarned ==
  \A x \in Assignments :
    status[x] = "completed" =>
      \E y \in Assignments :
        went[y] /\ Device(y) = Device(x) /\ (x = y \/ Match(Target(x), Target(y)))

-----------------------------------------------------------------------------
(* What the properties rest on: the inductive invariant.                   *)

Line == {queue[i] : i \in DOMAIN queue}

\* The batches of the queue are those that have been submitted.
QueuedAreKnown == \A b \in Batches : b \in Line <=> batchState[b] # "absent"

\* Of the others there is nothing yet.
AbsentAreUnbegun ==
  \A b \in Batches :
    batchState[b] = "absent" =>
      /\ roundState[b] = "absent"
      /\ \A x \in Assignments : Round(x) = b => status[x] = "pending"

\* A claim passes by a batch only when its rows are over.
PassedAreOver == \A b \in Batches : batchState[b] = "completed" => Over(b, status)

OneInHand == \A d \in Devices : \A x, y \in Busy(d) : x = y

IInv ==
  /\ TypeOK /\ QueuedAreKnown /\ AbsentAreUnbegun /\ PassedAreOver
  /\ OneInHand /\ RoundsClosedInTime

\* Every recorded visit is traced to one made in person.
VisitTraced == \A x \in Assignments : visited[x] => TracedTo(Target(x), Device(x))

CompletedAreVisited == \A x \in Assignments : status[x] = "completed" => visited[x]

=============================================================================
