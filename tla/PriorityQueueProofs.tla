-------------------------- MODULE PriorityQueueProofs --------------------------
(***************************************************************************)
(* Theorems about PriorityQueue, for every set of devices, batches and     *)
(* rows, whatever names people have, and any number of failures.           *)
(***************************************************************************)
EXTENDS PriorityQueue, WellFoundedInduction, TLAPS

Statuses == {"pending", "deferred"} \cup Working \cup Terminal
RoundStates == {"absent", "pending", "running", "paused", "stopped", "completed"}

-----------------------------------------------------------------------------
(* Whose turn it is.                                                       *)

LEMMA Least ==
  ASSUME NEW S \in SUBSET Nat, S # {}
  PROVE  \E i \in S : \A j \in S : i <= j
<1>1. PICK i \in S : \A j \in S : <<j, i>> \notin OpToRel(<, Nat)
  BY WFMin, NatLessThanWellFounded, Zenon
<1>2. \A j \in S : ~(j < i)
  BY <1>1, Zenon DEF OpToRel
<1>. QED
  BY <1>2

LEMMA QueueType ==
  ASSUME TypeOK
  PROVE  /\ DOMAIN queue \subseteq Nat
         /\ \A i \in DOMAIN queue : queue[i] \in Batches
         /\ \A i \in DOMAIN queue : \A j \in 1..(i - 1) : j \in DOMAIN queue
         /\ Line \subseteq Batches
BY DEF TypeOK, Line

LEMMA RoundTypes ==
  /\ \A x \in Assignments : Round(x) \in Campaign /\ Device(x) \in Devices
  /\ \A b \in Batches : b # Parent /\ b # Nowhere
  /\ Parent # Nowhere
BY RowAssumption DEF Assignments, Round, Device, Target, Campaign

\* A batch without work left needs no turn.
Finished(b) == batchState[b] = "completed" \/ Over(b, status)

\* Either every batch is finished, or the turn is that of the first one that is
\* not, and the batches passed are those ahead of it.
LEMMA TurnEffect ==
  ASSUME TypeOK
  PROVE  \/ /\ Unfinished = {} /\ Turn = Parent /\ Passed = Line
            /\ \A b \in Line : Finished(b)
         \/ \E i \in Unfinished :
              /\ Turn = queue[i] /\ Turn \in Line /\ Turn # Parent
              /\ ~Finished(Turn)
              /\ Passed = {queue[j] : j \in 1..(i - 1)}
              /\ \A j \in 1..(i - 1) : queue[j] \in Line /\ Finished(queue[j])
<1>1. CASE Unfinished = {}
  BY <1>1 DEF Turn, Passed, Line, Unfinished, Finished
<1>2. CASE Unfinished # {}
  <2>1. Unfinished \in SUBSET Nat
    BY QueueType DEF Unfinished
  <2>2. \E i \in Unfinished : \A j \in Unfinished : i <= j
    BY <1>2, <2>1, Least
  <2> DEFINE i == CHOOSE k \in Unfinished : \A j \in Unfinished : k <= j
  <2>3. i \in Unfinished /\ \A j \in Unfinished : i <= j
    BY <2>2
  <2> HIDE DEF i
  <2>4. Turn = queue[i]
    BY <1>2 DEF Turn, i
  <2>5. i \in DOMAIN queue /\ i \in Nat /\ queue[i] \in Batches /\ ~Finished(queue[i])
    BY <2>3, QueueType DEF Unfinished, Finished
  <2>6. \A j \in 1..(i - 1) : j \in DOMAIN queue /\ j \notin Unfinished
    BY <2>1, <2>3, <2>5, QueueType
  <2>7. \A j \in 1..(i - 1) : queue[j] \in Line /\ Finished(queue[j])
    BY <2>6 DEF Unfinished, Finished, Line
  <2>8. {j \in DOMAIN queue : \A k \in Unfinished : j < k} = 1..(i - 1)
    <3>1. ASSUME NEW j \in DOMAIN queue, \A k \in Unfinished : j < k
          PROVE  j \in 1..(i - 1)
      BY <2>3, <2>5, <3>1 DEF TypeOK
    <3>2. ASSUME NEW j \in 1..(i - 1)
          PROVE  j \in DOMAIN queue /\ \A k \in Unfinished : j < k
      BY <2>1, <2>3, <2>5, <2>6
    <3>. QED
      BY <3>1, <3>2
  <2>9. Passed = {queue[j] : j \in 1..(i - 1)}
    BY <2>8 DEF Passed
  <2>. QED
    BY <2>3, <2>4, <2>5, <2>7, <2>9, RoundTypes DEF Line
<1>. QED
  BY <1>1, <1>2

\* What a claim makes of the batches: none is submitted or forgotten, and the
\* completed ones are over.
LEMMA AdvanceEffect ==
  ASSUME TypeOK, QueuedAreKnown, PassedAreOver, Advance
  PROVE  /\ queue' = queue
         /\ batchState' \in [Batches -> {"absent", "queued", "running", "barrier", "completed"}]
         /\ \A b \in Batches : batchState'[b] = "absent" <=> batchState[b] = "absent"
         /\ \A b \in Batches : batchState'[b] = "completed" => Over(b, status)
         /\ Unfinished = {} => \A b \in Line : batchState'[b] = "completed"
<1>1. Passed \subseteq Line /\ \A b \in Passed : Finished(b)
  BY TurnEffect
<1>2. Turn \in Batches => Turn \in Line
  BY TurnEffect, RoundTypes
<1>3. ASSUME NEW b \in Batches
      PROVE  /\ batchState'[b] \in {"absent", "queued", "running", "barrier", "completed"}
             /\ batchState'[b] = "absent" <=> batchState[b] = "absent"
             /\ batchState'[b] = "completed" => Over(b, status)
             /\ Unfinished = {} /\ b \in Line => batchState'[b] = "completed"
  <2>1. CASE b \in Passed
    <3>1. batchState'[b] = "completed"
      BY <2>1 DEF Advance
    <3>. QED
      BY <1>1, <2>1, <3>1 DEF QueuedAreKnown, PassedAreOver, Finished
  <2>2. CASE b \notin Passed /\ b # Turn
    <3>1. batchState'[b] = batchState[b]
      BY <2>2 DEF Advance
    <3>. QED
      BY <2>2, <3>1, TurnEffect DEF TypeOK, PassedAreOver
  <2>3. CASE b \notin Passed /\ b = Turn
    <3>1. batchState'[b] \in {"barrier", "running"}
      BY <2>3 DEF Advance
    <3>. QED
      BY <1>2, <2>3, <3>1, TurnEffect DEF QueuedAreKnown
  <2>. QED
    BY <2>1, <2>2, <2>3
<1>4. queue' = queue /\ DOMAIN batchState' = Batches /\ batchState' = [b \in Batches |-> batchState'[b]]
  BY DEF Advance
<1>. QED
  BY <1>3, <1>4, QueueType

\* And of the rounds: only the parent can be closed by it, after its batches.
LEMMA AfterClaimEffect ==
  ASSUME TypeOK, QueuedAreKnown, PassedAreOver, RoundsClosedInTime
  PROVE  /\ AfterClaim \in [Campaign -> RoundStates]
         /\ \A r \in Campaign : AfterClaim[r] # roundState[r] =>
              /\ AfterClaim[r] = "completed" /\ r = Parent
              /\ Turn = Parent /\ Unfinished = {} /\ Over(Parent, status)
<1>1. AfterClaim \in [Campaign -> RoundStates]
  BY DEF AfterClaim, TypeOK, RoundStates
<1>2. ASSUME NEW r \in Campaign, AfterClaim[r] # roundState[r]
      PROVE  /\ AfterClaim[r] = "completed" /\ r = Parent
             /\ Turn = Parent /\ Unfinished = {} /\ Over(Parent, status)
  <2>1. AfterClaim[r] = "completed" /\ (r \in Passed \/ (r = Turn /\ Over(r, status)))
    BY <1>2 DEF AfterClaim
  <2>2. r \notin Passed
    <3> SUFFICES ASSUME r \in Passed PROVE FALSE
      OBVIOUS
    <3>1. r \in Line /\ Finished(r)
      BY TurnEffect
    <3>. QED
      BY <1>2, <2>1, <3>1, QueueType
         DEF QueuedAreKnown, PassedAreOver, Finished, RoundsClosedInTime
  <2>3. r = Turn /\ Over(r, status)
    BY <2>1, <2>2
  <2>. QED
    BY <2>1, <2>3, TurnEffect DEF Finished
<1>. QED
  BY <1>1, <1>2

-----------------------------------------------------------------------------
(* What the steps do to rows and rounds.                                   *)

LEMMA OverStays ==
  ASSUME NEW r, Over(r, status),
         \A x \in Assignments : status[x] \in Terminal => status'[x] \in Terminal
  PROVE  Over(r, status')
BY DEF Over

\* Recovery sends lapsed rows back to wait.
LEMMA ResumedEffect ==
  ASSUME NEW x \in Assignments
  PROVE  Resumed(x) \in {"pending", "deferred"}
BY DEF Resumed

LEMMA RecoveredEffect ==
  ASSUME TypeOK, NEW d \in Devices
  PROVE  /\ Recovered(d) \in [Assignments -> Statuses]
         /\ \A x \in Assignments : Recovered(d)[x] # status[x] =>
              status[x] = "lapsed" /\ Recovered(d)[x] \in {"pending", "deferred"}
BY ResumedEffect DEF Recovered, TypeOK, Statuses

\* Lent visits end rows nobody has begun.
LEMMA SatisfiedAreOpen ==
  ASSUME NEW S, NEW r
  PROVE  Satisfied(S, r) \subseteq Open(r)
BY DEF Satisfied, Links

\* A completed row takes the rows of other known rounds with it that it
\* satisfies, and closes the rounds that are over thereby.
LEMMA CompleteEffect ==
  ASSUME TypeOK, NEW x \in Assignments, Complete(x)
  PROVE  /\ status' \in [Assignments -> Statuses] /\ visited' \in [Assignments -> BOOLEAN]
         /\ status[x] = "held" /\ status'[x] = "completed"
         /\ \A y \in Assignments : status'[y] # status[y] =>
              /\ status'[y] = "completed"
              /\ \/ y = x
                 \/ status[y] = "pending" /\ Round(y) \in Outstanding \cup {Parent}
         /\ roundState' \in [Campaign -> RoundStates]
         /\ \A r \in Campaign : roundState'[r] # roundState[r] =>
              /\ roundState'[r] = "completed" /\ Over(r, status')
              /\ r = Parent => Outstanding = {}
              /\ \E y \in Assignments : Round(y) = r /\ status'[y] # status[y]
         /\ \A y \in Assignments :
              status'[y] # status[y] /\ Over(Round(y), status') /\ Round(y) # Parent
                => roundState'[Round(y)] = "completed"
<1> DEFINE S == [r \in Destinations(Round(x)) |-> Satisfied({x}, r)]
           gained == UNION {S[r] : r \in DOMAIN S}
           R == {Round(x)} \cup {r \in DOMAIN S : S[r] # {}}
<1>1. /\ status[x] = "held"
      /\ status' = [y \in Assignments |->
                      IF y = x \/ y \in gained THEN "completed" ELSE status[y]]
      /\ visited' = [y \in Assignments |-> visited[y] \/ y \in gained]
      /\ roundState' = Marked(R)
  BY DEF Complete
<1>2. ASSUME NEW y \in gained
      PROVE  /\ status[y] = "pending" /\ Round(y) \in R
             /\ Round(y) \in Outstanding \cup {Parent}
  <2>1. PICK r \in Destinations(Round(x)) : y \in Satisfied({x}, r)
    BY <1>2
  <2>2. y \in Open(r)
    BY <2>1, SatisfiedAreOpen
  <2>. QED
    BY <2>1, <2>2 DEF Open, Destinations
<1> HIDE DEF S, gained
<1>3. status' \in [Assignments -> Statuses] /\ visited' \in [Assignments -> BOOLEAN]
  BY <1>1 DEF TypeOK, Statuses, Terminal
<1>4. \A y \in Assignments : status'[y] # status[y] =>
        status'[y] = "completed" /\ (y = x \/ y \in gained)
  BY <1>1
<1>5. roundState' \in [Campaign -> RoundStates]
  BY <1>1 DEF Marked, TypeOK, RoundStates
<1>6. \A r \in Campaign : roundState'[r] # roundState[r] =>
        roundState'[r] = "completed" /\ Over(r, status') /\ (r = Parent => Outstanding = {})
  BY <1>1 DEF Marked
<1>8. \A r \in R : \E y \in Assignments : Round(y) = r /\ status'[y] # status[y]
  <2>1. ASSUME NEW r \in DOMAIN S, S[r] # {}
        PROVE  \E y \in Assignments : Round(y) = r /\ status'[y] # status[y]
    <3>1. PICK y \in S[r] : TRUE
      BY <2>1
    <3>2. y \in Open(r) /\ y \in gained
      BY <2>1, <3>1, SatisfiedAreOpen DEF S, gained
    <3>. QED
      BY <1>1, <3>2 DEF Open
  <2>. QED
    BY <1>1, <2>1
<1>9. \A r \in Campaign : roundState'[r] # roundState[r] => r \in R
  BY <1>1 DEF Marked
<1>7. \A y \in Assignments :
        status'[y] # status[y] /\ Over(Round(y), status') /\ Round(y) # Parent
          => roundState'[Round(y)] = "completed"
  BY <1>1, <1>2, <1>4, RoundTypes DEF Marked
<1>. QED
  BY <1>1, <1>2, <1>3, <1>4, <1>5, <1>6, <1>7, <1>8, <1>9

LEMMA SkipEffect ==
  ASSUME TypeOK, NEW x \in Assignments, Skip(x)
  PROVE  /\ status' \in [Assignments -> Statuses]
         /\ status[x] = "held" /\ status'[x] = "skipped"
         /\ \A y \in Assignments : y # x => status'[y] = status[y]
         /\ roundState' \in [Campaign -> RoundStates]
         /\ \A r \in Campaign : roundState'[r] # roundState[r] =>
              /\ roundState'[r] = "completed" /\ Over(r, status')
              /\ r = Parent => Outstanding = {}
              /\ \E y \in Assignments : Round(y) = r /\ status'[y] # status[y]
         /\ Over(Round(x), status') /\ Round(x) # Parent
              => roundState'[Round(x)] = "completed"
<1>1. status[x] = "held" /\ status' = [status EXCEPT ![x] = "skipped"]
      /\ roundState' = Marked({Round(x)})
  BY DEF Skip
<1>0. Round(x) \in Campaign /\ status'[x] # status[x]
  BY <1>1, RoundTypes DEF TypeOK
<1>2. /\ roundState' \in [Campaign -> RoundStates]
      /\ \A r \in Campaign : roundState'[r] # roundState[r] =>
           /\ roundState'[r] = "completed" /\ Over(r, status') /\ r = Round(x)
           /\ r = Parent => Outstanding = {}
      /\ Over(Round(x), status') /\ Round(x) # Parent => roundState'[Round(x)] = "completed"
  BY <1>1, <1>0, RoundTypes DEF Marked, TypeOK, RoundStates
<1>. QED
  BY <1>0, <1>1, <1>2 DEF TypeOK, Statuses, Terminal

\* A new batch is closed at once if the parent's visits satisfy all its rows.
LEMMA CreateEffect ==
  ASSUME TypeOK, AbsentAreUnbegun, NEW b \in Batches, CreateBatch(b)
  PROVE  /\ batchState[b] = "absent" /\ roundState[b] = "absent" /\ Active(Parent)
         /\ queue' = Append(queue, b)
         /\ batchState' = [batchState EXCEPT ![b] = "queued"]
         /\ status' \in [Assignments -> Statuses] /\ visited' \in [Assignments -> BOOLEAN]
         /\ \A y \in Assignments : status'[y] # status[y] =>
              Round(y) = b /\ status[y] = "pending" /\ status'[y] = "completed"
         /\ roundState' \in [Campaign -> RoundStates]
         /\ \A r \in Campaign : r # b => roundState'[r] = roundState[r]
         /\ roundState'[b] = IF Over(b, status') THEN "completed" ELSE "pending"
<1> DEFINE S == Satisfied({x \in Assignments : /\ Round(x) = Parent
                                               /\ status[x] = "completed"
                                               /\ visited[x]}, b)
<1>1. S \subseteq Open(b)
  BY SatisfiedAreOpen
<1>2. /\ status' = [x \in Assignments |-> IF x \in S THEN "completed" ELSE status[x]]
      /\ visited' = [x \in Assignments |-> visited[x] \/ x \in S]
      /\ roundState' = [roundState EXCEPT ![b] =
                          IF Over(b, status') THEN "completed" ELSE "pending"]
      /\ batchState[b] = "absent" /\ Active(Parent)
      /\ queue' = Append(queue, b)
      /\ batchState' = [batchState EXCEPT ![b] = "queued"]
  BY DEF CreateBatch
<1> HIDE DEF S
<1>3. roundState[b] = "absent"
  BY <1>2 DEF AbsentAreUnbegun
<1>. QED
  BY <1>1, <1>2, <1>3 DEF TypeOK, Statuses, Terminal, Open, RoundStates, Campaign

\* A claim, found or not, recovers lapsed rows; one that finds a row takes it
\* in the round whose turn it is.
LEMMA ClaimEffect ==
  ASSUME TypeOK, NEW d \in Devices, Claim(d)
  PROVE  /\ Busy(d) = {} /\ Active(Parent) /\ Advance
         /\ roundState' = [AfterClaim EXCEPT ![Turn] = "running"]
         /\ UNCHANGED <<visited, went, failures>>
         /\ Turn \in Campaign /\ Active(Turn)
         /\ status' \in [Assignments -> Statuses]
         /\ \E x \in Assignments :
              /\ Round(x) = Turn /\ Device(x) = d
              /\ status[x] \in {"pending", "deferred", "lapsed"} /\ status'[x] = "held"
              /\ \A y \in Assignments : y # x /\ status'[y] # status[y] =>
                   status[y] = "lapsed" /\ status'[y] \in {"pending", "deferred"}
<1>1. PICK x \in Eligible(d) : status' = [Recovered(d) EXCEPT ![x] = "held"]
  BY DEF Claim
<1>2. /\ x \in Assignments /\ Round(x) = Turn /\ Device(x) = d /\ Active(Turn)
      /\ status[x] \in {"pending", "deferred", "lapsed"}
  BY <1>1 DEF Eligible
<1>. QED
  BY <1>1, <1>2, RecoveredEffect, RoundTypes DEF Claim, Statuses, Working
-----------------------------------------------------------------------------
(* The inductive invariant.                                                *)

LEMMA InitIInv == Init => IInv
<1> SUFFICES ASSUME Init PROVE IInv
  OBVIOUS
<1>1. TypeOK
  <2>1. <<>> \in Seq(Batches)
    OBVIOUS
  <2>. QED
    BY <2>1 DEF Init, TypeOK
<1>2. QueuedAreKnown /\ AbsentAreUnbegun /\ PassedAreOver
  BY RoundTypes DEF Init, QueuedAreKnown, Line, AbsentAreUnbegun, PassedAreOver, Campaign
<1>3. OneInHand
  BY DEF Init, OneInHand, Busy
<1>4. RoundsClosedInTime
  BY DEF Init, RoundsClosedInTime
<1>. QED
  BY <1>1, <1>2, <1>3, <1>4 DEF IInv

\* What a step must show of its effect.
LEMMA StepKeeps ==
  ASSUME IInv, TypeOK', QueuedAreKnown', OneInHand',
         \A x \in Assignments : status[x] \in Terminal => status'[x] \in Terminal,
         \A b \in Batches : batchState'[b] = "absent" =>
           /\ batchState[b] = "absent" /\ roundState'[b] = roundState[b]
           /\ \A x \in Assignments : Round(x) = b => status'[x] = status[x],
         \A b \in Batches : batchState'[b] = "completed" => Over(b, status),
         \A r \in Campaign : roundState'[r] = "completed" =>
           roundState[r] = "completed" \/ Over(r, status'),
         \A b \in Batches : batchState'[b] # "absent" /\ Over(b, status')
           => roundState'[b] = "completed",
         roundState'[Parent] = "completed" =>
           \A b \in Batches : batchState'[b] \in {"absent", "completed"}
  PROVE  IInv'
<1>1. AbsentAreUnbegun'
  BY DEF IInv, AbsentAreUnbegun
<1>2. PassedAreOver'
  BY OverStays DEF IInv, PassedAreOver
<1>3. \A r \in Campaign : roundState'[r] = "completed" => Over(r, status')
  BY OverStays DEF IInv, RoundsClosedInTime
<1>4. RoundsClosedInTime'
  BY <1>3 DEF RoundsClosedInTime
<1>. QED
  BY <1>1, <1>2, <1>4 DEF IInv

\* Nobody takes a row in hand.
LEMMA HandsStay ==
  ASSUME OneInHand, \A x \in Assignments : status'[x] = "held" => status[x] = "held"
  PROVE  OneInHand'
BY DEF OneInHand, Busy

\* Steps that move rows without ending one leave the rounds as they are.
LEMMA QuietStep ==
  ASSUME IInv, status' \in [Assignments -> Statuses], visited' \in [Assignments -> BOOLEAN],
         went' \in [Assignments -> BOOLEAN], failures' \in Nat, UNCHANGED schedule,
         \A x \in Assignments : status'[x] # status[x] =>
           /\ status[x] \in Working
           /\ status'[x] \notin Terminal /\ status'[x] # "held"
  PROVE  IInv'
<1>1. TypeOK'
  BY DEF IInv, TypeOK, Statuses, schedule
<1>2. QueuedAreKnown'
  BY DEF IInv, QueuedAreKnown, Line, schedule
<1>3. OneInHand'
  BY HandsStay DEF IInv
<1>4. \A x \in Assignments : status'[x] \in Terminal <=> status[x] \in Terminal
  BY DEF Working, Terminal
<1>5. \A r : Over(r, status') <=> Over(r, status)
  BY <1>4 DEF Over
<1>6. \A b \in Batches : batchState[b] = "absent" =>
        \A x \in Assignments : Round(x) = b => status'[x] = status[x]
  BY DEF IInv, AbsentAreUnbegun, Working
<1>7. roundState' = roundState /\ batchState' = batchState
  BY DEF schedule
<1>. QED
  BY <1>1, <1>2, <1>3, <1>4, <1>5, <1>6, <1>7, StepKeeps
     DEF IInv, PassedAreOver, RoundsClosedInTime

\* Steps that end rows which were in hand, or lend visits, and close rounds.
LEMMA EndingStep ==
  ASSUME IInv, NEW x \in Assignments, Complete(x) \/ Skip(x)
  PROVE  IInv'
<1>0. TypeOK
  BY DEF IInv
<1>1. /\ status' \in [Assignments -> Statuses]
      /\ status[x] = "held" /\ status'[x] \in Terminal
      /\ \A y \in Assignments : status'[y] # status[y] =>
           /\ status'[y] \in Terminal
           /\ \/ y = x
              \/ status[y] = "pending" /\ Round(y) \in Outstanding \cup {Parent}
      /\ roundState' \in [Campaign -> RoundStates]
      /\ \A r \in Campaign : roundState'[r] # roundState[r] =>
           /\ roundState'[r] = "completed" /\ Over(r, status')
           /\ r = Parent => Outstanding = {}
           /\ \E y \in Assignments : Round(y) = r /\ status'[y] # status[y]
      /\ \A y \in Assignments :
           status'[y] # status[y] /\ Over(Round(y), status') /\ Round(y) # Parent
             => roundState'[Round(y)] = "completed"
  BY <1>0, CompleteEffect, SkipEffect DEF Terminal
<1>2. /\ visited' \in [Assignments -> BOOLEAN]
      /\ UNCHANGED <<went, queue, batchState, failures>>
  BY <1>0, CompleteEffect DEF Complete, Skip, TypeOK
<1>3. TypeOK'
  BY <1>0, <1>1, <1>2 DEF TypeOK, Statuses, RoundStates
<1>4. QueuedAreKnown'
  BY <1>2 DEF IInv, QueuedAreKnown, Line
<1>5. OneInHand'
  BY <1>1, HandsStay DEF IInv, Terminal
<1>6. \A y \in Assignments : status[y] \in Terminal => status'[y] \in Terminal
  BY <1>1
<1>7. ASSUME NEW b \in Batches, batchState[b] = "absent"
      PROVE  /\ roundState'[b] = roundState[b]
             /\ \A y \in Assignments : Round(y) = b => status'[y] = status[y]
  <2>1. \A y \in Assignments : Round(y) = b => status[y] = "pending"
    BY <1>7 DEF IInv, AbsentAreUnbegun
  <2>2. b \notin Outstanding \cup {Parent}
    BY <1>7, RoundTypes DEF Outstanding
  <2>3. \A y \in Assignments : Round(y) = b => status'[y] = status[y]
    BY <1>1, <2>1, <2>2
  <2>4. roundState'[b] = roundState[b]
    BY <1>1, <2>3 DEF Campaign
  <2>. QED
    BY <2>3, <2>4
<1>8. ASSUME NEW b \in Batches, batchState[b] # "absent", Over(b, status')
      PROVE  roundState'[b] = "completed"
  <2>1. CASE \E y \in Assignments : Round(y) = b /\ status'[y] # status[y]
    BY <1>1, <1>8, <2>1, RoundTypes
  <2>2. CASE \A y \in Assignments : Round(y) = b => status'[y] = status[y]
    <3>1. Over(b, status)
      BY <1>8, <2>2 DEF Over
    <3>. QED
      BY <1>1, <1>8, <3>1 DEF IInv, RoundsClosedInTime, Campaign
  <2>. QED
    BY <2>1, <2>2
<1>9. ASSUME roundState'[Parent] = "completed", NEW b \in Batches
      PROVE  batchState[b] \in {"absent", "completed"}
  BY <1>1, <1>9 DEF IInv, RoundsClosedInTime, Campaign, Outstanding
<1>10. \A r \in Campaign : roundState'[r] = "completed" =>
         roundState[r] = "completed" \/ Over(r, status')
  BY <1>1
<1>. QED
  BY <1>2, <1>3, <1>4, <1>5, <1>6, <1>7, <1>8, <1>9, <1>10, StepKeeps
     DEF IInv, PassedAreOver

\* Steps that close the parent or move rounds at the operator's command.
LEMMA RoundStep ==
  ASSUME IInv, roundState' \in [Campaign -> RoundStates],
         UNCHANGED <<rows, queue, batchState, failures>>,
         \A r \in Campaign : roundState[r] \in {"absent", "completed"} =>
           roundState'[r] = roundState[r] \/ r = Parent,
         roundState[Parent] = "completed" => roundState'[Parent] = "completed",
         \A r \in Campaign : roundState'[r] = "completed" =>
           \/ roundState[r] = "completed"
           \/ r = Parent /\ Outstanding = {} /\ Over(Parent, status)
  PROVE  IInv'
<1>1. TypeOK' /\ UNCHANGED <<status, queue, batchState>>
  BY DEF IInv, TypeOK, rows, RoundStates
<1>2. QueuedAreKnown' /\ OneInHand'
  BY <1>1, HandsStay DEF IInv, QueuedAreKnown, Line
<1>3. \A b \in Batches : b \in Campaign /\ b # Parent
  BY RoundTypes DEF Campaign
<1>4. \A b \in Batches : batchState[b] = "absent" => roundState'[b] = roundState[b]
  BY <1>3 DEF IInv, AbsentAreUnbegun
<1>5. \A b \in Batches : batchState[b] = "completed" => Over(b, status)
  BY DEF IInv, PassedAreOver
<1>6. \A b \in Batches : batchState[b] # "absent" /\ Over(b, status)
        => roundState'[b] = "completed"
  BY <1>3 DEF IInv, RoundsClosedInTime
<1>7. roundState'[Parent] = "completed" =>
        \A b \in Batches : batchState[b] \in {"absent", "completed"}
  BY DEF IInv, RoundsClosedInTime, Outstanding, Campaign
<1>8. \A r \in Campaign : roundState'[r] = "completed" =>
        roundState[r] = "completed" \/ Over(r, status)
  OBVIOUS
<1>. QED
  BY <1>1, <1>2, <1>4, <1>5, <1>6, <1>7, <1>8, StepKeeps

LEMMA OperatorStep ==
  ASSUME IInv, CheckDone \/ Operate
  PROVE  IInv'
<1>0. TypeOK
  BY DEF IInv
<1>1. CASE CheckDone
  <2>1. /\ roundState' = Marked({Parent}) /\ UNCHANGED <<rows, queue, batchState, failures>>
        /\ status' = status
    BY <1>1 DEF CheckDone, rows
  <2>. QED
    BY <1>0, <2>1, RoundStep DEF Marked, TypeOK, RoundStates
<1>2. ASSUME NEW r \in Campaign, NEW s \in RoundCommands, SetRound(r, s)
      PROVE  IInv'
  BY <1>0, <1>2, RoundStep, RowAssumption DEF SetRound, TypeOK, RoundStates, Campaign
<1>3. ASSUME NEW s \in RoundCommands, SetFleet(s)
      PROVE  IInv'
  BY <1>0, <1>3, RoundStep, RowAssumption DEF SetFleet, TypeOK, RoundStates, Campaign
<1>. QED
  BY <1>1, <1>2, <1>3 DEF Operate

\* The submission of a batch.
LEMMA CreateStep ==
  ASSUME IInv, NEW b \in Batches, CreateBatch(b)
  PROVE  IInv'
<1>0. TypeOK /\ AbsentAreUnbegun
  BY DEF IInv
<1>1. /\ batchState[b] = "absent" /\ roundState[b] = "absent"
      /\ roundState[Parent] # "completed"
      /\ queue' = Append(queue, b)
      /\ batchState' = [batchState EXCEPT ![b] = "queued"]
      /\ status' \in [Assignments -> Statuses] /\ visited' \in [Assignments -> BOOLEAN]
      /\ \A y \in Assignments : status'[y] # status[y] =>
           Round(y) = b /\ status[y] = "pending" /\ status'[y] = "completed"
      /\ roundState' \in [Campaign -> RoundStates]
      /\ \A r \in Campaign : r # b => roundState'[r] = roundState[r]
      /\ roundState'[b] = IF Over(b, status') THEN "completed" ELSE "pending"
      /\ UNCHANGED <<went, failures>>
  BY <1>0, CreateEffect DEF CreateBatch, Active
<1>2. TypeOK'
  <2>1. queue' \in Seq(Batches)
    BY <1>0, <1>1 DEF TypeOK
  <2>2. batchState' \in [Batches -> {"absent", "queued", "running", "barrier", "completed"}]
    BY <1>0, <1>1 DEF TypeOK
  <2>. QED
    BY <1>0, <1>1, <2>1, <2>2 DEF TypeOK, Statuses, RoundStates
<1>3. Line' = Line \cup {b}
  <2>1. /\ DOMAIN queue' = DOMAIN queue \cup {Len(queue) + 1}
        /\ \A i \in DOMAIN queue : queue'[i] = queue[i]
        /\ queue'[Len(queue) + 1] = b
    BY <1>0, <1>1 DEF TypeOK
  <2>. QED
    BY <2>1 DEF Line
<1>4. QueuedAreKnown'
  BY <1>0, <1>1, <1>3 DEF IInv, QueuedAreKnown, TypeOK
<1>5. OneInHand'
  BY <1>1, HandsStay DEF IInv
<1>6. \A x \in Assignments : status[x] \in Terminal => status'[x] \in Terminal
  BY <1>1 DEF Terminal
<1>7. \A c \in Batches : c # b =>
        /\ batchState'[c] = batchState[c] /\ roundState'[c] = roundState[c]
        /\ \A x \in Assignments : Round(x) = c => status'[x] = status[x]
        /\ Over(c, status') <=> Over(c, status)
  BY <1>0, <1>1 DEF TypeOK, Campaign, Over
<1>8. batchState'[b] = "queued"
  BY <1>0, <1>1 DEF TypeOK
<1>9. \A c \in Batches : batchState'[c] = "completed" => Over(c, status)
  BY <1>7, <1>8 DEF IInv, PassedAreOver
<1>10. \A c \in Batches : batchState'[c] # "absent" /\ Over(c, status')
         => roundState'[c] = "completed"
  BY <1>1, <1>7 DEF IInv, RoundsClosedInTime
<1>11. \A c \in Batches : batchState'[c] = "absent" =>
         /\ batchState[c] = "absent" /\ roundState'[c] = roundState[c]
         /\ \A x \in Assignments : Round(x) = c => status'[x] = status[x]
  BY <1>7, <1>8
<1>12. \A r \in Campaign : roundState'[r] = "completed" =>
         roundState[r] = "completed" \/ Over(r, status')
  BY <1>1
<1>13. roundState'[Parent] # "completed"
  BY <1>1, RoundTypes DEF Campaign
<1>. QED
  BY <1>2, <1>4, <1>5, <1>6, <1>9, <1>10, <1>11, <1>12, <1>13, StepKeeps

\* A claim that finds a row closes no round.
LEMMA ClaimRounds ==
  ASSUME IInv, NEW d \in Devices, Claim(d)
  PROVE  /\ roundState' \in [Campaign -> RoundStates]
         /\ roundState'[Turn] = "running"
         /\ \A r \in Campaign : r # Turn => roundState'[r] = roundState[r]
<1>0. TypeOK /\ QueuedAreKnown /\ PassedAreOver /\ RoundsClosedInTime
  BY DEF IInv
<1>1. ~Over(Turn, status)
  BY <1>0, ClaimEffect DEF Over, Terminal
<1>2. \A r \in Campaign : AfterClaim[r] = roundState[r]
  BY <1>0, <1>1, AfterClaimEffect
<1>. QED
  BY <1>0, <1>2, ClaimEffect, AfterClaimEffect DEF RoundStates

\* It takes the one row its device has in hand.
LEMMA ClaimStep ==
  ASSUME IInv, NEW d \in Devices, Claim(d)
  PROVE  IInv'
<1>0. /\ TypeOK /\ QueuedAreKnown /\ AbsentAreUnbegun /\ PassedAreOver
      /\ OneInHand /\ RoundsClosedInTime
  BY DEF IInv
<1>1. PICK x \in Assignments :
        /\ Round(x) = Turn /\ Device(x) = d
        /\ status[x] \in {"pending", "deferred", "lapsed"} /\ status'[x] = "held"
        /\ \A y \in Assignments : y # x /\ status'[y] # status[y] =>
             status[y] = "lapsed" /\ status'[y] \in {"pending", "deferred"}
  BY <1>0, ClaimEffect
<1>2. /\ Busy(d) = {} /\ Active(Parent) /\ Advance
      /\ roundState' = [AfterClaim EXCEPT ![Turn] = "running"]
      /\ UNCHANGED <<visited, went, failures>>
      /\ Turn \in Campaign /\ Active(Turn)
      /\ status' \in [Assignments -> Statuses]
  BY <1>0, ClaimEffect
<1>3. /\ queue' = queue
      /\ batchState' \in [Batches -> {"absent", "queued", "running", "barrier", "completed"}]
      /\ \A b \in Batches : batchState'[b] = "absent" <=> batchState[b] = "absent"
      /\ \A b \in Batches : batchState'[b] = "completed" => Over(b, status)
  BY <1>0, <1>2, AdvanceEffect
<1>4. \A y \in Assignments : status'[y] \in Terminal <=> status[y] \in Terminal
  BY <1>1 DEF Terminal
<1>5. \A r : Over(r, status') <=> Over(r, status)
  BY <1>4 DEF Over
<1>6. ~Over(Turn, status)
  BY <1>1 DEF Over, Terminal
<1>8. /\ roundState' \in [Campaign -> RoundStates]
      /\ roundState'[Turn] = "running"
      /\ \A r \in Campaign : r # Turn => roundState'[r] = roundState[r]
  BY ClaimRounds
<1>9. TypeOK'
  BY <1>0, <1>2, <1>3, <1>8 DEF TypeOK, Statuses, RoundStates
<1>10. QueuedAreKnown'
  BY <1>0, <1>3 DEF QueuedAreKnown, Line
<1>11. OneInHand'
  <2>1. \A y \in Assignments : status'[y] = "held" => y = x \/ status[y] = "held"
    BY <1>1
  <2>. QED
    BY <1>0, <1>1, <1>2, <2>1 DEF OneInHand, Busy
<1>12. ASSUME NEW b \in Batches, batchState'[b] = "absent"
       PROVE  /\ batchState[b] = "absent" /\ roundState'[b] = roundState[b]
              /\ \A y \in Assignments : Round(y) = b => status'[y] = status[y]
  <2>1. batchState[b] = "absent" /\ roundState[b] = "absent" /\ b \in Campaign
    BY <1>0, <1>3, <1>12 DEF AbsentAreUnbegun, Campaign
  <2>2. b # Turn
    BY <1>2, <2>1 DEF Active
  <2>3. \A y \in Assignments : Round(y) = b => status[y] = "pending"
    BY <1>0, <2>1 DEF AbsentAreUnbegun
  <2>. QED
    BY <1>1, <1>8, <2>1, <2>2, <2>3
<1>13. \A b \in Batches : batchState'[b] # "absent" /\ Over(b, status')
         => roundState'[b] = "completed"
  BY <1>0, <1>3, <1>5, <1>6, <1>8 DEF RoundsClosedInTime, Campaign
<1>14. roundState'[Parent] # "completed"
  BY <1>2, <1>8 DEF Active, Campaign
<1>15. \A r \in Campaign : roundState'[r] = "completed" =>
         roundState[r] = "completed" \/ Over(r, status')
  BY <1>8
<1>. QED
  BY <1>3, <1>4, <1>9, <1>10, <1>11, <1>12, <1>13, <1>14, <1>15, StepKeeps

\* One that finds none may close the parent.
LEMMA ClaimNothingStep ==
  ASSUME IInv, NEW d \in Devices, ClaimNothing(d)
  PROVE  IInv'
<1>0. /\ TypeOK /\ QueuedAreKnown /\ AbsentAreUnbegun /\ PassedAreOver
      /\ OneInHand /\ RoundsClosedInTime
  BY DEF IInv
<1>1. /\ status' = Recovered(d) /\ Advance /\ roundState' = AfterClaim
      /\ Active(Parent) /\ UNCHANGED <<visited, went, failures>>
  BY DEF ClaimNothing
<1>2. /\ status' \in [Assignments -> Statuses]
      /\ \A y \in Assignments : status'[y] # status[y] =>
           status[y] = "lapsed" /\ status'[y] \in {"pending", "deferred"}
  BY <1>0, <1>1, RecoveredEffect
<1>3. /\ queue' = queue
      /\ batchState' \in [Batches -> {"absent", "queued", "running", "barrier", "completed"}]
      /\ \A b \in Batches : batchState'[b] = "absent" <=> batchState[b] = "absent"
      /\ \A b \in Batches : batchState'[b] = "completed" => Over(b, status)
      /\ Unfinished = {} => \A b \in Line : batchState'[b] = "completed"
  BY <1>0, <1>1, AdvanceEffect
<1>4. /\ roundState' \in [Campaign -> RoundStates]
      /\ \A r \in Campaign : roundState'[r] # roundState[r] =>
           /\ roundState'[r] = "completed" /\ r = Parent
           /\ Unfinished = {} /\ Over(Parent, status)
  BY <1>0, <1>1, AfterClaimEffect
<1>5. \A y \in Assignments : status'[y] \in Terminal <=> status[y] \in Terminal
  BY <1>2 DEF Terminal
<1>6. \A r : Over(r, status') <=> Over(r, status)
  BY <1>5 DEF Over
<1>7. TypeOK'
  BY <1>0, <1>1, <1>2, <1>3, <1>4 DEF TypeOK, Statuses, RoundStates
<1>8. QueuedAreKnown'
  BY <1>0, <1>3 DEF QueuedAreKnown, Line
<1>9. OneInHand'
  BY <1>0, <1>2, HandsStay
<1>10. \A b \in Batches : b \in Campaign /\ roundState'[b] = roundState[b]
  BY <1>4, RoundTypes DEF Campaign
<1>11. \A b \in Batches : batchState'[b] = "absent" =>
         /\ batchState[b] = "absent" /\ roundState'[b] = roundState[b]
         /\ \A y \in Assignments : Round(y) = b => status'[y] = status[y]
  BY <1>0, <1>2, <1>3, <1>10 DEF AbsentAreUnbegun
<1>12. \A b \in Batches : batchState'[b] # "absent" /\ Over(b, status')
         => roundState'[b] = "completed"
  BY <1>0, <1>3, <1>6, <1>10 DEF RoundsClosedInTime
<1>13. \A r \in Campaign : roundState'[r] = "completed" =>
         roundState[r] = "completed" \/ Over(r, status')
  BY <1>4, <1>6
<1>14. roundState'[Parent] = "completed" =>
         \A b \in Batches : batchState'[b] \in {"absent", "completed"}
  BY <1>0, <1>1, <1>3, <1>4 DEF Active, QueuedAreKnown, Campaign
<1>. QED
  BY <1>3, <1>5, <1>7, <1>8, <1>9, <1>11, <1>12, <1>13, <1>14, StepKeeps

\* Visits, failures and expiries.
LEMMA RowStep ==
  ASSUME IInv, NEW x \in Assignments,
         Visit(x) \/ Defer(x) \/ LoseWorker(x) \/ Lapse(x)
  PROVE  IInv'
<1>0. TypeOK
  BY DEF IInv
<1>1. CASE Visit(x)
  BY <1>0, <1>1, QuietStep DEF Visit, TypeOK, Statuses
<1>2. CASE Defer(x) \/ LoseWorker(x) \/ Lapse(x)
  BY <1>0, <1>2, QuietStep DEF Defer, LoseWorker, Lapse, TypeOK, Statuses, Working, Terminal
<1>. QED
  BY <1>1, <1>2

LEMMA StepIInv ==
  ASSUME IInv, [Next]_vars
  PROVE  IInv'
<1>1. CASE UNCHANGED vars
  BY <1>1, QuietStep DEF IInv, TypeOK, vars, rows, Statuses
<1>2. ASSUME NEW b \in Batches, CreateBatch(b) PROVE IInv'
  BY <1>2, CreateStep
<1>3. ASSUME NEW d \in Devices, Claim(d) \/ ClaimNothing(d) PROVE IInv'
  BY <1>3, ClaimStep, ClaimNothingStep
<1>4. ASSUME NEW x \in Assignments, Work(x) \/ Defer(x) \/ LoseWorker(x) \/ Lapse(x)
      PROVE  IInv'
  BY <1>4, RowStep, EndingStep DEF Work
<1>5. CASE RecoverExpired
  BY <1>5, ResumedEffect, QuietStep
     DEF RecoverExpired, IInv, TypeOK, Statuses, Working, Terminal
<1>6. CASE CheckDone \/ Operate
  BY <1>6, OperatorStep
<1>. QED
  BY <1>1, <1>2, <1>3, <1>4, <1>5, <1>6 DEF Next

\* The inductive invariant holds throughout.
THEOREM Invariance == Spec => []IInv
<1>1. IInv /\ [Next]_vars => IInv'
  BY StepIInv
<1>. QED
  BY <1>1, InitIInv, PTL DEF Spec

\* Rows, rounds and batches keep their types.
THEOREM TypeCorrect == Spec => []TypeOK
<1>1. IInv => TypeOK
  BY DEF IInv
<1>. QED
  BY <1>1, Invariance, PTL

\* A round is closed only when its rows are over, a batch exactly then, the
\* parent after its batches (_mark_round_completed_if_terminal and the claim).
THEOREM RoundsCloseInTime == Spec => []RoundsClosedInTime
<1>1. IInv => RoundsClosedInTime
  BY DEF IInv
<1>. QED
  BY <1>1, Invariance, PTL

-----------------------------------------------------------------------------
(* Refinement.                                                             *)

Closed == {r \in Campaign : roundState[r] = "completed"}

Places == [d \in Devices |-> At(d)]

LEMMA InitBarrier == Init => Barrier!BarrierInit
<1> SUFFICES ASSUME Init PROVE Barrier!BarrierInit
  OBVIOUS
<1>1. Closed = {} /\ queue = <<>>
  BY DEF Init, Closed
<1>2. Places = [d \in Devices |-> Nowhere]
  BY DEF Init, Places, At, Busy
<1>. QED
  BY <1>1, <1>2 DEF Barrier!BarrierInit, Closed, Places

LEMMA PlaceOf ==
  ASSUME OneInHand, NEW d \in Devices
  PROVE  /\ \A x \in Busy(d) : At(d) = Round(x)
         /\ Busy(d) = {} => At(d) = Nowhere
BY DEF OneInHand, At

\* The place depends on the rows in hand alone.
PlaceAmong(S) == IF S = {} THEN Nowhere ELSE Round(CHOOSE x \in S : TRUE)

LEMMA SamePlace ==
  ASSUME NEW d \in Devices, Busy(d)' = Busy(d)
  PROVE  At(d)' = At(d)
<1>1. At(d) = PlaceAmong(Busy(d))
  BY DEF At, PlaceAmong
<1>2. At(d)' = PlaceAmong(Busy(d)')
  BY DEF At, PlaceAmong
<1>. QED
  BY <1>1, <1>2

\* Devices stay where they are as long as the rows in hand are the same.
LEMMA PlacesStay ==
  ASSUME \A x \in Assignments : status'[x] = "held" <=> status[x] = "held"
  PROVE  Places' = Places
<1>1. \A d \in Devices : Busy(d)' = Busy(d)
  BY DEF Busy
<1>. QED
  BY <1>1, SamePlace DEF Places

\* Rounds that are closed may be added as long as none is opened again.
LEMMA ClosingIsFinishing ==
  ASSUME IInv', queue' = queue, Closed \subseteq Closed'
  PROVE  Barrier!MayFinish
<1>1. Closed' \subseteq Line' \cup {Parent}
  BY DEF IInv, Closed, Campaign, AbsentAreUnbegun, QueuedAreKnown
<1>2. Parent \in Closed' => Line' \subseteq Closed'
  <2> SUFFICES ASSUME Parent \in Closed', NEW b \in Line' PROVE b \in Closed'
    OBVIOUS
  <2>1. TypeOK' /\ QueuedAreKnown' /\ PassedAreOver' /\ RoundsClosedInTime'
    BY DEF IInv
  <2>2. b \in Batches
    BY <2>1 DEF TypeOK, Line
  <2>3. batchState'[b] # "absent" /\ batchState'[b] \in {"absent", "completed"}
    BY <2>1, <2>2 DEF QueuedAreKnown, RoundsClosedInTime, Closed
  <2>4. Over(b, status)'
    BY <2>1, <2>2, <2>3 DEF PassedAreOver
  <2>. QED
    BY <2>1, <2>2, <2>3, <2>4 DEF RoundsClosedInTime, Closed, Campaign
<1>3. Line' = Barrier!InLine /\ Line = Barrier!InLine
  BY DEF Line, Barrier!InLine
<1>. QED
  BY <1>1, <1>2, <1>3 DEF Barrier!MayFinish, Closed

\* A row that leaves the hand of its device, whatever it closes.
LEMMA LeavingStep ==
  ASSUME IInv, IInv', NEW x \in Assignments,
         status[x] = "held", status'[x] # "held",
         \A y \in Assignments : y # x => (status'[y] = "held" <=> status[y] = "held"),
         queue' = queue, Closed \subseteq Closed'
  PROVE  Barrier!Leave(Device(x))
<1> DEFINE d == Device(x)
<1>1. d \in Devices /\ Round(x) # Nowhere
  BY RoundTypes, RowAssumption DEF Campaign
<1>2. x \in Busy(d) /\ OneInHand
  BY DEF Busy, IInv
<1>3. At(d) = Round(x)
  BY <1>1, <1>2, PlaceOf
<1>4. Busy(d)' = {}
  BY <1>1, <1>2 DEF Busy, OneInHand
<1>5. \A e \in Devices : e # d => Busy(e)' = Busy(e)
  BY DEF Busy
<1>6. Places' = [Places EXCEPT ![d] = Nowhere]
  <2>1. At(d)' = Nowhere
    BY <1>4 DEF At
  <2>2. \A e \in Devices : e # d => At(e)' = At(e)
    BY <1>5, SamePlace
  <2>. QED
    BY <2>1, <2>2 DEF Places
<1>7. Barrier!MayFinish
  BY ClosingIsFinishing
<1>. QED
  BY <1>1, <1>3, <1>6, <1>7 DEF Barrier!Leave, Places

\* A claim is a start in the round whose turn it is.
LEMMA ClaimStarts ==
  ASSUME IInv, NEW d \in Devices, Claim(d)
  PROVE  Barrier!Start(d, Turn) /\ Turn \in Batches \cup {Parent}
<1>0. TypeOK /\ QueuedAreKnown /\ PassedAreOver /\ OneInHand /\ RoundsClosedInTime
  BY DEF IInv
<1>1. /\ Busy(d) = {} /\ Advance /\ Turn \in Campaign /\ Active(Turn)
      /\ roundState'[Turn] = "running"
      /\ \A r \in Campaign : r # Turn => roundState'[r] = roundState[r]
  BY <1>0, ClaimEffect, ClaimRounds
<1>2. PICK x \in Assignments :
        /\ Round(x) = Turn /\ Device(x) = d /\ status'[x] = "held"
        /\ status[x] # "held"
        /\ \A y \in Assignments : y # x /\ status'[y] # status[y] =>
             status[y] = "lapsed" /\ status'[y] \in {"pending", "deferred"}
  BY <1>0, ClaimEffect
<1>3. \A y \in Assignments : status'[y] = "held" <=> y = x \/ status[y] = "held"
  BY <1>2
<1>4. Busy(d)' = {x} /\ \A e \in Devices : e # d => Busy(e)' = Busy(e)
  BY <1>1, <1>2, <1>3 DEF Busy
<1>5. Places' = [Places EXCEPT ![d] = Turn]
  <2>1. At(d)' = Turn
    BY <1>2, <1>4 DEF At
  <2>2. \A e \in Devices : e # d => At(e)' = At(e)
    BY <1>4, SamePlace
  <2>. QED
    BY <2>1, <2>2 DEF Places
<1>6. Closed' = Closed /\ Turn \notin Closed
  BY <1>1 DEF Closed, Active
<1>7. \A b \in Line : Finished(b) => b \in Closed
  BY <1>0, QueueType DEF Finished, Closed, Campaign, PassedAreOver, QueuedAreKnown,
     RoundsClosedInTime
<1>8. Barrier!HasTurn(Turn)
  <2>1. CASE Turn = Parent /\ \A b \in Line : Finished(b)
    BY <1>7, <2>1 DEF Barrier!HasTurn, Barrier!InLine, Line, Closed
  <2>2. ASSUME NEW i \in Unfinished, Turn = queue[i],
               \A j \in 1..(i - 1) : queue[j] \in Line /\ Finished(queue[j])
        PROVE  Barrier!HasTurn(Turn)
    <3>1. i \in DOMAIN queue /\ \A j \in 1..(i - 1) : queue[j] \in Closed
      BY <1>7, <2>2 DEF Unfinished
    <3>. QED
      BY <2>2, <3>1 DEF Barrier!HasTurn, Closed
  <2>. QED
    BY <1>0, <2>1, <2>2, TurnEffect
<1>9. Places[d] = Nowhere /\ queue' = queue
  BY <1>0, <1>1, PlaceOf DEF Places, Advance
<1>. QED
  BY <1>1, <1>5, <1>6, <1>8, <1>9 DEF Barrier!Start, Closed, Places, Campaign

\* The submission of a batch, which may be closed at once.
LEMMA CreateSubmits ==
  ASSUME IInv, NEW b \in Batches, CreateBatch(b)
  PROVE  Barrier!Submit(b)
<1>0. TypeOK /\ AbsentAreUnbegun /\ QueuedAreKnown
  BY DEF IInv
<1>1. /\ batchState[b] = "absent" /\ roundState[Parent] # "completed"
      /\ roundState[b] = "absent"
      /\ queue' = Append(queue, b)
      /\ \A y \in Assignments : status'[y] # status[y] =>
           status[y] = "pending" /\ status'[y] = "completed"
      /\ \A r \in Campaign : r # b => roundState'[r] = roundState[r]
  BY <1>0, CreateEffect DEF Active
<1>2. Places' = Places
  BY <1>1, PlacesStay
<1>3. b \notin Barrier!InLine /\ Parent \notin Closed
  BY <1>0, <1>1 DEF QueuedAreKnown, Line, Barrier!InLine, Closed
<1>4. Closed' = Closed \/ Closed' = Closed \cup {b}
  <2>1. b \in Campaign /\ b \notin Closed
    BY <1>1 DEF Campaign, Closed
  <2>. QED
    BY <1>1, <2>1 DEF Closed
<1>. QED
  BY <1>1, <1>2, <1>3, <1>4 DEF Barrier!Submit, Closed, Places

\* Rounds and rows that change without anybody coming or going.
LEMMA FinishingStep ==
  ASSUME IInv', queue' = queue, Closed \subseteq Closed',
         \A x \in Assignments : status'[x] = "held" <=> status[x] = "held"
  PROVE  Barrier!Finish
BY ClosingIsFinishing, PlacesStay DEF Barrier!Finish, Places

LEMMA StepBarrier ==
  ASSUME IInv, IInv', [Next]_vars
  PROVE  [Barrier!BarrierNext]_(Barrier!barrierVars)
<1>0. TypeOK
  BY DEF IInv
<1>1. CASE UNCHANGED vars
  BY <1>1, FinishingStep DEF vars, rows, schedule, Closed, Barrier!BarrierNext
<1>2. ASSUME NEW b \in Batches, CreateBatch(b) PROVE Barrier!BarrierNext
  BY <1>2, CreateSubmits DEF Barrier!BarrierNext
<1>3. ASSUME NEW d \in Devices, Claim(d) PROVE Barrier!BarrierNext
  BY <1>3, ClaimStarts DEF Barrier!BarrierNext
<1>4. ASSUME NEW d \in Devices, ClaimNothing(d) PROVE Barrier!BarrierNext
  <2>1. status' = Recovered(d) /\ roundState' = AfterClaim /\ queue' = queue
    BY <1>4 DEF ClaimNothing, Advance
  <2>2. \A x \in Assignments : status'[x] = "held" <=> status[x] = "held"
    BY <1>0, <2>1, RecoveredEffect
  <2>3. Closed \subseteq Closed'
    BY <2>1, AfterClaimEffect DEF IInv, Closed
  <2>. QED
    BY <2>1, <2>2, <2>3, FinishingStep DEF Barrier!BarrierNext
<1>5. ASSUME NEW x \in Assignments, Complete(x) \/ Skip(x) PROVE Barrier!BarrierNext
  <2>1. /\ status[x] = "held" /\ status'[x] # "held"
        /\ \A y \in Assignments : y # x => (status'[y] = "held" <=> status[y] = "held")
        /\ \A r \in Campaign : roundState'[r] # roundState[r] => roundState'[r] = "completed"
    BY <1>0, <1>5, CompleteEffect, SkipEffect
  <2>2. queue' = queue /\ Closed \subseteq Closed'
    BY <1>5, <2>1 DEF Complete, Skip, Closed
  <2>. QED
    BY <2>1, <2>2, LeavingStep, RoundTypes DEF Barrier!BarrierNext
<1>6. ASSUME NEW x \in Assignments, Defer(x) \/ LoseWorker(x) PROVE Barrier!BarrierNext
  <2>1. /\ status[x] = "held" /\ status'[x] # "held"
        /\ \A y \in Assignments : y # x => status'[y] = status[y]
        /\ UNCHANGED schedule
    BY <1>0, <1>6 DEF Defer, LoseWorker, TypeOK
  <2>2. queue' = queue /\ Closed \subseteq Closed'
    BY <2>1 DEF schedule, Closed
  <2>. QED
    BY <2>1, <2>2, LeavingStep, RoundTypes DEF Barrier!BarrierNext
<1>7. ASSUME NEW x \in Assignments, Visit(x) \/ Lapse(x) PROVE Barrier!BarrierNext
  BY <1>0, <1>7, FinishingStep
     DEF Visit, Lapse, TypeOK, schedule, Closed, Barrier!BarrierNext
<1>8. CASE RecoverExpired
  BY <1>0, <1>8, ResumedEffect, FinishingStep
     DEF RecoverExpired, TypeOK, schedule, Closed, Barrier!BarrierNext
<1>9. CASE CheckDone \/ Operate
  <2>1. UNCHANGED <<status, queue>>
    BY <1>9 DEF CheckDone, Operate, SetRound, SetFleet, rows
  <2>2. \A r \in Campaign : roundState[r] = "completed" => roundState'[r] = "completed"
    BY <1>0, <1>9 DEF CheckDone, Marked, Operate, SetRound, SetFleet, TypeOK
  <2>. QED
    BY <2>1, <2>2, FinishingStep DEF Closed, Barrier!BarrierNext
<1>. QED
  BY <1>1, <1>2, <1>3, <1>4, <1>5, <1>6, <1>7, <1>8, <1>9 DEF Next, Work

\* The queue implements the barrier: devices begin work only in the round whose
\* turn it is, and no round is closed out of turn (claim_scheduled_assignment).
THEOREM BarrierKept == Spec => ImplementsBarrier
<1>1. IInv /\ IInv' /\ [Next]_vars => [Barrier!BarrierNext]_(Barrier!barrierVars)
  BY StepBarrier
<1>. QED
  BY <1>1, InitBarrier, Invariance, PTL DEF Spec, ImplementsBarrier, Barrier!BarrierSpec

-----------------------------------------------------------------------------
(* Coverage.                                                               *)

\* People are matched either way round.
LEMMA MatchBothWays ==
  ASSUME NEW t \in Rows, NEW u \in Rows, Match(t, u)
  PROVE  Match(u, t)
BY DEF Match, Shared, Conflict

\* A visit is lent to rows of the device for the same person.
LEMMA SatisfiedMatch ==
  ASSUME NEW S \in SUBSET Assignments, NEW r, NEW y \in Satisfied(S, r)
  PROVE  \E x \in S : Device(x) = Device(y) /\ Match(Target(x), Target(y)) /\ y \in Assignments
<1>1. PICK l \in Links(S, r) : y = l[2]
  BY DEF Satisfied
<1>2. l[1] \in S /\ SameAccount(l[1], l[2]) /\ Match(Target(l[1]), Target(l[2]))
      /\ l[2] \in Assignments
  BY <1>1 DEF Links, Open
<1>. QED
  BY <1>1, <1>2 DEF SameAccount

\* TracedTo, of visits v on record and w made in person, whatever they are.
Follows(v, w, t, d) ==
  \A S \in SUBSET Rows :
    t \in S /\ (\A a \in S, u \in Rows : v[<<u, d>>] /\ Match(a, u) => u \in S)
      => \E a \in S : w[<<a, d>>]

AllFollow(v, w) == \A x \in Assignments : v[x] => Follows(v, w, Target(x), Device(x))

LEMMA TracedIsFollows ==
  /\ VisitTraced <=> AllFollow(visited, went)
  /\ VisitTraced' <=> AllFollow(visited', went')
  /\ CoverageTraced <=>
       \A x \in Assignments :
         status[x] = "completed" => Follows(visited, went, Target(x), Device(x))
<1>1. \A t \in Rows, d \in Devices : TracedTo(t, d) <=> Follows(visited, went, t, d)
  BY DEF TracedTo, Gone, LoansWithin, Follows
<1>2. VisitTraced' <=> AllFollow(visited', went')
  BY DEF VisitTraced, TracedTo, Gone, LoansWithin, AllFollow, Follows
<1>. QED
  BY <1>1, <1>2 DEF VisitTraced, CoverageTraced, AllFollow, Assignments, Target, Device

\* Visits are recorded and made, never taken back.
VisitsKept(v, w, v2, w2) == \A x \in Assignments : (v[x] => v2[x]) /\ (w[x] => w2[x])

\* What was traced stays traced: more loans only make fewer sets closed.
LEMMA TracedStays ==
  ASSUME NEW v, NEW w, NEW v2, NEW w2, VisitsKept(v, w, v2, w2),
         NEW x \in Assignments, Follows(v, w, Target(x), Device(x))
  PROVE  Follows(v2, w2, Target(x), Device(x))
<1>1. Device(x) \in Devices /\ \A t \in Rows : <<t, Device(x)>> \in Assignments
  BY DEF Assignments, Device
<1>. QED
  BY <1>1 DEF Follows, VisitsKept

\* What is lent on by a traced row is traced.
LEMMA LentIsTraced ==
  ASSUME NEW v, NEW w, NEW v2, NEW w2, VisitsKept(v, w, v2, w2),
         NEW x \in Assignments, NEW y \in Assignments, v[x],
         Device(x) = Device(y), Match(Target(x), Target(y)),
         Follows(v, w, Target(x), Device(x))
  PROVE  Follows(v2, w2, Target(y), Device(y))
<1>1. /\ Target(x) \in Rows /\ Target(y) \in Rows
      /\ x = <<Target(x), Device(x)>>
  BY DEF Assignments, Target, Device
<1>2. Match(Target(y), Target(x)) /\ v2[<<Target(x), Device(y)>>]
  BY <1>1, MatchBothWays DEF VisitsKept
<1>3. Follows(v2, w2, Target(x), Device(y))
  BY TracedStays
<1>. QED
  BY <1>1, <1>2, <1>3 DEF Follows

CInv == TypeOK /\ VisitTraced /\ CompletedAreVisited

LEMMA StepCoverage ==
  ASSUME IInv, CInv, [Next]_vars
  PROVE  VisitTraced' /\ CompletedAreVisited'
<1>0. TypeOK /\ VisitTraced /\ CompletedAreVisited
  BY DEF CInv
<1>1. ASSUME UNCHANGED <<visited, went>>,
             \A x \in Assignments : status'[x] = "completed" => status[x] = "completed"
      PROVE  VisitTraced' /\ CompletedAreVisited'
  <2>1. AllFollow(visited', went')
    BY <1>0, <1>1, TracedIsFollows
  <2>. QED
    BY <1>0, <1>1, <2>1, TracedIsFollows DEF CompletedAreVisited
<1>2. ASSUME NEW S \in SUBSET Assignments, \A x \in S : visited[x],
             UNCHANGED went, \A x \in Assignments : visited[x] => visited'[x],
             \A y \in Assignments : visited'[y] =>
               \/ visited[y]
               \/ \E x \in S : Device(x) = Device(y) /\ Match(Target(x), Target(y))
      PROVE  VisitTraced'
  <2>1. VisitsKept(visited, went, visited', went')
    BY <1>2 DEF VisitsKept
  <2>2. \A x \in Assignments : visited[x] => Follows(visited, went, Target(x), Device(x))
    BY <1>0, TracedIsFollows DEF AllFollow
  <2>3. ASSUME NEW y \in Assignments, visited'[y]
        PROVE  Follows(visited', went', Target(y), Device(y))
    <3>1. CASE visited[y]
      BY <2>1, <2>2, <3>1, TracedStays
    <3>2. CASE ~visited[y]
      <4>1. PICK x \in S : Device(x) = Device(y) /\ Match(Target(x), Target(y))
        BY <1>2, <2>3, <3>2
      <4>2. x \in Assignments /\ visited[x]
        BY <1>2
      <4>. QED
        BY <2>1, <2>2, <4>1, <4>2, LentIsTraced
    <3>. QED
      BY <3>1, <3>2
  <2>. QED
    BY <2>3, TracedIsFollows DEF AllFollow
<1>3. ASSUME NEW b \in Batches, CreateBatch(b)
      PROVE  VisitTraced' /\ CompletedAreVisited'
  <2> DEFINE S == {x \in Assignments : /\ Round(x) = Parent
                                       /\ status[x] = "completed"
                                       /\ visited[x]}
             T == Satisfied(S, b)
  <2>1. /\ status' = [x \in Assignments |-> IF x \in T THEN "completed" ELSE status[x]]
        /\ visited' = [x \in Assignments |-> visited[x] \/ x \in T]
        /\ went' = went
    BY <1>3 DEF CreateBatch
  <2>2. \A y \in T : \E x \in S : Device(x) = Device(y) /\ Match(Target(x), Target(y))
    BY SatisfiedMatch
  <2> HIDE DEF T
  <2>3. VisitTraced'
    BY <1>2, <2>1, <2>2
  <2>4. CompletedAreVisited'
    BY <1>0, <2>1 DEF CompletedAreVisited
  <2>. QED
    BY <2>3, <2>4
<1>4. ASSUME NEW x \in Assignments, Complete(x)
      PROVE  VisitTraced' /\ CompletedAreVisited'
  <2> DEFINE S == [r \in Destinations(Round(x)) |-> Satisfied({x}, r)]
             T == UNION {S[r] : r \in DOMAIN S}
  <2>1. /\ status' = [y \in Assignments |->
                        IF y = x \/ y \in T THEN "completed" ELSE status[y]]
        /\ visited' = [y \in Assignments |-> visited[y] \/ y \in T]
        /\ visited[x] /\ went' = went
    BY <1>4 DEF Complete
  <2>2. \A y \in T : \E z \in {x} : Device(z) = Device(y) /\ Match(Target(z), Target(y))
    BY SatisfiedMatch
  <2> HIDE DEF T
  <2>3. VisitTraced'
    BY <1>2, <2>1, <2>2
  <2>4. CompletedAreVisited'
    BY <1>0, <2>1 DEF CompletedAreVisited
  <2>. QED
    BY <2>3, <2>4
<1>5. ASSUME NEW x \in Assignments, Visit(x)
      PROVE  VisitTraced' /\ CompletedAreVisited'
  <2>1. /\ visited' = [visited EXCEPT ![x] = TRUE] /\ went' = [went EXCEPT ![x] = TRUE]
        /\ status' = status
    BY <1>5 DEF Visit
  <2>2. VisitsKept(visited, went, visited', went')
    BY <1>0, <2>1 DEF TypeOK, VisitsKept
  <2>3. went'[x] /\ \A y \in Assignments : y # x => visited'[y] = visited[y]
    BY <1>0, <2>1 DEF TypeOK
  <2>4. Follows(visited', went', Target(x), Device(x))
    <3>1. x = <<Target(x), Device(x)>>
      BY DEF Assignments, Target, Device
    <3>. QED
      BY <2>3, <3>1 DEF Follows
  <2>6. VisitTraced'
    <3>1. AllFollow(visited, went)
      BY <1>0, TracedIsFollows
    <3>2. \A y \in Assignments \ {x} :
            visited'[y] => Follows(visited', went', Target(y), Device(y))
      BY <2>2, <2>3, <3>1, TracedStays DEF AllFollow
    <3>. QED
      BY <2>4, <3>2, TracedIsFollows DEF AllFollow
  <2>5. CompletedAreVisited'
    BY <1>0, <2>1 DEF CompletedAreVisited, TypeOK
  <2>. QED
    BY <2>5, <2>6
<1>6. CASE UNCHANGED vars
  BY <1>1, <1>6 DEF vars, rows
<1>7. ASSUME NEW d \in Devices, Claim(d)
      PROVE  VisitTraced' /\ CompletedAreVisited'
  BY <1>0, <1>1, <1>7, ClaimEffect
<1>8. ASSUME NEW d \in Devices, ClaimNothing(d)
      PROVE  VisitTraced' /\ CompletedAreVisited'
  BY <1>0, <1>1, <1>8, RecoveredEffect DEF ClaimNothing
<1>9. ASSUME NEW x \in Assignments, Skip(x) \/ Defer(x) \/ LoseWorker(x) \/ Lapse(x)
      PROVE  VisitTraced' /\ CompletedAreVisited'
  BY <1>0, <1>1, <1>9 DEF Skip, Defer, LoseWorker, Lapse, TypeOK
<1>10. CASE RecoverExpired
  BY <1>0, <1>1, <1>10, ResumedEffect DEF RecoverExpired
<1>11. CASE CheckDone \/ Operate
  BY <1>1, <1>11 DEF CheckDone, Operate, SetRound, SetFleet, rows
<1>. QED
  BY <1>3, <1>4, <1>5, <1>6, <1>7, <1>8, <1>9, <1>10, <1>11 DEF Next, Work

\* A completed row stands for a visit its device made in person, to that row or
\* to one its visit was lent on from, whatever people the rows name and whatever
\* is lent, retried or lost on the way (_propagate_confirmed_coverage).
THEOREM CoverageIsTraced == Spec => []CoverageTraced
<1>1. Init => CInv
  BY InitIInv DEF Init, CInv, IInv, VisitTraced, CompletedAreVisited
<1>2. CInv /\ IInv /\ IInv' /\ [Next]_vars => CInv'
  BY StepCoverage DEF CInv, IInv
<1>3. CInv => CoverageTraced
  BY TracedIsFollows DEF CInv, AllFollow, CompletedAreVisited
<1>. QED
  BY <1>1, <1>2, <1>3, Invariance, PTL DEF Spec
=============================================================================
