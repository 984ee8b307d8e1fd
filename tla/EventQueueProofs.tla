------------------------- MODULE EventQueueProofs -------------------------
(***************************************************************************)
(* Theorems about EventQueue, for every set of workers, every number of    *)
(* messages and attempts, every limit and any number of faults.            *)
(***************************************************************************)
EXTENDS EventQueue, FiniteSetTheorems, TLAPS

-----------------------------------------------------------------------------
(* What the steps do.                                                      *)

Rows == [pc : WorkerPcs, e : {0} \cup Events, end : Endings]

\* Events are positive numbers.
LEMMA EventNumbers == Events \subseteq Nat /\ 0 \notin Events
<1>1. Cardinality(Events) \in Nat
  BY QueueAssumption, FS_CardinalityType
<1>. QED
  BY <1>1, QueueAssumption

\* A worker that goes to the end of its step keeps its event; the others do not
\* move.
LEMMA EndingEffect ==
  ASSUME TypeOK, NEW w \in Workers, NEW end \in Endings, worker' = Ending(w, end)
  PROVE  /\ worker' \in [Workers -> Rows]
         /\ worker'[w] = [pc |-> "finishing", e |-> worker[w].e, end |-> end]
         /\ \A v \in Workers : v # w => worker'[v] = worker[v]
BY DEF TypeOK, Ending, Rows, WorkerPcs

\* So does one that goes on with its answer.
LEMMA MoveEffect ==
  ASSUME TypeOK, NEW w \in Workers, NEW pc \in WorkerPcs,
         worker' = [worker EXCEPT ![w].pc = pc]
  PROVE  /\ worker' \in [Workers -> Rows]
         /\ worker'[w] = [pc |-> pc, e |-> worker[w].e, end |-> worker[w].end]
         /\ \A v \in Workers : v # w => worker'[v] = worker[v]
BY DEF TypeOK, Rows, WorkerPcs

\* One that begins or ends has the row it is given.
LEMMA PutEffect ==
  ASSUME TypeOK, NEW w \in Workers, NEW r \in Rows, worker' = [worker EXCEPT ![w] = r]
  PROVE  /\ worker' \in [Workers -> Rows]
         /\ worker'[w] = r
         /\ \A v \in Workers : v # w => worker'[v] = worker[v]
BY DEF TypeOK, Rows

LEMMA Rests == Idle \in Rows /\ Down \in Rows
BY DEF Idle, Down, Rows, WorkerPcs, Endings

\* A claim takes an event that waits, and makes it the worker's.
LEMMA ClaimEffect ==
  ASSUME TypeOK, NEW w \in Workers, Claim(w)
  PROVE  \E e \in Events :
           /\ state[e] \in {"pending", "retry_wait"} /\ e \notin resting
           /\ state' = [state EXCEPT ![e] = "running"]
           /\ attempts' = [attempts EXCEPT ![e] = @ + 1]
           /\ worker' \in [Workers -> Rows]
           /\ worker[w].pc = "idle"
           /\ worker'[w] = [pc |-> "taken", e |-> e, end |-> "done"]
           /\ \A v \in Workers : v # w => worker'[v] = worker[v]
           /\ UNCHANGED <<resting, logVars, faults, histVars>>
<1>1. PICK e \in Waiting :
        /\ worker[w].pc = "idle"
        /\ state' = [state EXCEPT ![e] = "running"]
        /\ attempts' = [attempts EXCEPT ![e] = @ + 1]
        /\ worker' = [worker EXCEPT ![w] = [pc |-> "taken", e |-> e, end |-> "done"]]
        /\ UNCHANGED <<resting, logVars, faults, histVars>>
  BY DEF Claim
<1>2. e \in Events /\ state[e] \in {"pending", "retry_wait"} /\ e \notin resting
  BY DEF Waiting
<1>3. [pc |-> "taken", e |-> e, end |-> "done"] \in Rows
  BY <1>2 DEF Rows, WorkerPcs, Endings
<1>4. /\ worker' \in [Workers -> Rows]
      /\ worker'[w] = [pc |-> "taken", e |-> e, end |-> "done"]
      /\ \A v \in Workers : v # w => worker'[v] = worker[v]
  BY <1>1, <1>3, PutEffect
<1>. QED
  BY <1>1, <1>2, <1>4

\* A look ends with an answered message, with a full conversation, or writes.
LEMMA LookEffect ==
  ASSUME TypeOK, NEW w \in Workers, Look(w)
  PROVE  /\ worker[w].pc = "taken"
         /\ worker' \in [Workers -> Rows]
         /\ worker'[w].e = worker[w].e
         /\ \A v \in Workers : v # w => worker'[v] = worker[v]
         /\ \/ worker'[w].pc = "finishing" /\ worker'[w].end = "done"
            \/ worker'[w].pc = "finishing" /\ worker'[w].end = "final"
            \/ /\ worker'[w].pc = "writing"
               /\ worker[w].e \notin replied /\ ~Full(worker[w].e)
         /\ UNCHANGED <<queueVars, logVars, faults, histVars>>
<1>0. /\ worker[w].pc = "taken"
      /\ worker' = CASE Answered(worker[w].e) -> Ending(w, "done")
                     [] ~Answered(worker[w].e) /\ Full(worker[w].e) -> Ending(w, "final")
                     [] OTHER -> [worker EXCEPT ![w].pc = "writing"]
      /\ UNCHANGED <<queueVars, logVars, faults, histVars>>
  BY Zenon DEF Look
<1>. "done" \in Endings /\ "final" \in Endings /\ "writing" \in WorkerPcs
  BY DEF Endings, WorkerPcs
<1>1. CASE Answered(worker[w].e)
  <2>1. worker' = Ending(w, "done")
    BY <1>0, <1>1
  <2>2. /\ worker' \in [Workers -> Rows] /\ \A v \in Workers : v # w => worker'[v] = worker[v]
        /\ worker'[w] = [pc |-> "finishing", e |-> worker[w].e, end |-> "done"]
    BY <2>1, EndingEffect
  <2>. QED
    BY <1>0, <2>2
<1>2. CASE ~Answered(worker[w].e) /\ Full(worker[w].e)
  <2>1. worker' = Ending(w, "final")
    BY <1>0, <1>2
  <2>2. /\ worker' \in [Workers -> Rows] /\ \A v \in Workers : v # w => worker'[v] = worker[v]
        /\ worker'[w] = [pc |-> "finishing", e |-> worker[w].e, end |-> "final"]
    BY <2>1, EndingEffect
  <2>. QED
    BY <1>0, <2>2
<1>3. CASE ~Answered(worker[w].e) /\ ~Full(worker[w].e)
  <2>1. worker' = [worker EXCEPT ![w].pc = "writing"]
    BY <1>0, <1>3
  <2>2. worker[w].e \notin replied
    BY <1>3 DEF Answered
  <2>. QED
    BY <1>0, <1>3, <2>1, <2>2, MoveEffect
<1>. QED
  BY <1>1, <1>2, <1>3

\* A worker that has written is told, or goes to finish for good or again; an
\* answer that goes out with an error is misjudged.
LEMMA SendEffect ==
  ASSUME TypeOK, NEW w \in Workers, Send(w)
  PROVE  /\ worker[w].pc = "writing"
         /\ worker' \in [Workers -> Rows]
         /\ worker'[w].e = worker[w].e
         /\ \A v \in Workers : v # w => worker'[v] = worker[v]
         /\ \/ worker'[w].pc = "told" /\ misjudged' = misjudged
            \/ /\ worker'[w].pc = "finishing" /\ worker'[w].end = "final"
               /\ misjudged' = misjudged
            \/ /\ worker'[w].pc = "finishing" /\ worker'[w].end = "again"
               /\ \/ out' = out /\ misjudged' = misjudged
                  \/ misjudged' = misjudged \cup {worker[w].e}
         /\ out' = out \/ out' = [out EXCEPT ![worker[w].e] = @ + 1]
         /\ UNCHANGED <<queueVars, logVars, faults, orphaned, shared>>
<1>0. /\ worker[w].pc = "writing"
      /\ out' = out \/ out' = [out EXCEPT ![worker[w].e] = @ + 1]
      /\ UNCHANGED <<queueVars, logVars, faults, orphaned, shared>>
  <2>1. out' = out \/ out' = [out EXCEPT ![worker[w].e] = @ + 1]
    BY Zenon DEF Send
  <2>. QED
    BY <2>1, Zenon DEF Send
<1>. "again" \in Endings /\ "final" \in Endings /\ "told" \in WorkerPcs
  BY DEF Endings, WorkerPcs
<1>1. CASE worker' = [worker EXCEPT ![w].pc = "told"] /\ misjudged' = misjudged
  <2>1. /\ worker' \in [Workers -> Rows] /\ \A v \in Workers : v # w => worker'[v] = worker[v]
        /\ worker'[w] = [pc |-> "told", e |-> worker[w].e, end |-> worker[w].end]
    BY <1>1, MoveEffect
  <2>. QED
    BY <1>0, <1>1, <2>1
<1>2. CASE worker' = Ending(w, "final") /\ misjudged' = misjudged
  <2>1. /\ worker' \in [Workers -> Rows] /\ \A v \in Workers : v # w => worker'[v] = worker[v]
        /\ worker'[w] = [pc |-> "finishing", e |-> worker[w].e, end |-> "final"]
    BY <1>2, EndingEffect
  <2>. QED
    BY <1>0, <1>2, <2>1
<1>3. CASE /\ worker' = Ending(w, "again")
           /\ \/ out' = out /\ misjudged' = misjudged
              \/ misjudged' = misjudged \cup {worker[w].e}
  <2>1. /\ worker' \in [Workers -> Rows] /\ \A v \in Workers : v # w => worker'[v] = worker[v]
        /\ worker'[w] = [pc |-> "finishing", e |-> worker[w].e, end |-> "again"]
    BY <1>3, EndingEffect
  <2>. QED
    BY <1>0, <1>3, <2>1
<1>. QED
  BY <1>1, <1>2, <1>3, Zenon DEF Send, AfterUnclear

\* A record ends with one more answer in the conversation.
LEMMA RecordEffect ==
  ASSUME TypeOK, NEW w \in Workers, Record(w)
  PROVE  /\ worker[w].pc = "told"
         /\ worker' \in [Workers -> Rows]
         /\ worker'[w].pc = "finishing" /\ worker'[w].e = worker[w].e
         /\ \A v \in Workers : v # w => worker'[v] = worker[v]
         /\ rows' = rows + 1 /\ replied' = replied \cup {worker[w].e}
         /\ UNCHANGED <<queueVars, since, faults, histVars>>
<1>1. PICK end \in {"done", "again"} : worker' = Ending(w, end)
  BY DEF Record
<1>a. end \in Endings
  BY DEF Endings
<1>2. /\ worker' \in [Workers -> Rows] /\ \A v \in Workers : v # w => worker'[v] = worker[v]
      /\ worker'[w] = [pc |-> "finishing", e |-> worker[w].e, end |-> end]
  BY <1>1, <1>a, EndingEffect
<1>3. worker'[w].pc = "finishing" /\ worker'[w].e = worker[w].e
  BY <1>2
<1>4. worker[w].pc = "told"
  BY DEF Record
<1>. QED
  BY <1>2, <1>3, <1>4 DEF Record

\* An end settles a running event or puts it back, and changes no other.
LEMMA FinishEffect ==
  ASSUME TypeOK, HandsKnown, NEW w \in Workers, Finish(w)
  PROVE  /\ worker[w].pc = "finishing" /\ worker[w].e \in Events
         /\ worker' \in [Workers -> Rows]
         /\ worker'[w] = Idle
         /\ \A v \in Workers : v # w => worker'[v] = worker[v]
         /\ state' \in [Events -> States]
         /\ \A e \in Events : state'[e] # state[e] => e = worker[w].e /\ state[e] = "running"
         /\ state[worker[w].e] = "running" =>
              state'[worker[w].e] \in {"completed", "failed", "retry_wait"}
         /\ state[worker[w].e] = "running" /\ worker[w].end \in {"done", "final"} =>
              state'[worker[w].e] \in Settled
         /\ resting' \subseteq {e \in Events : state'[e] = "retry_wait"}
         /\ UNCHANGED <<attempts, logVars, faults, histVars>>
<1> DEFINE e == worker[w].e
           next == CASE worker[w].end = "done" -> "completed"
                     [] worker[w].end = "final" \/ attempts[e] >= MaxAttempts -> "failed"
                     [] OTHER -> "retry_wait"
<1>1. e \in Events /\ worker[w].pc = "finishing" /\ worker[w].end \in Endings
  BY DEF HandsKnown, Finish, TypeOK, Rows
<1>2. next \in {"completed", "failed", "retry_wait"}
  BY <1>1 DEF Endings
<1>3. worker[w].end \in {"done", "final"} => next \in Settled
  BY DEF Settled
<1>4. worker' = [worker EXCEPT ![w] = Idle]
  BY DEF Finish
<1>5. CASE state[e] = "running"
  <2>1. /\ state' = [state EXCEPT ![e] = next]
        /\ resting' = IF next = "retry_wait" THEN resting \cup {e} ELSE resting
    BY <1>5, Zenon DEF Finish, Mine
  <2>. HIDE DEF next, e
  <2>2. /\ state' \in [Events -> States] /\ state'[e] = next
        /\ \A f \in Events : f # e => state'[f] = state[f]
    BY <1>1, <1>2, <2>1 DEF TypeOK, States
  <2>3. resting' \subseteq {f \in Events : state'[f] = "retry_wait"}
    BY <1>1, <1>5, <2>1, <2>2 DEF TypeOK
  <2>. QED
    BY <1>1, <1>2, <1>3, <1>4, <1>5, <2>2, <2>3, Rests, PutEffect DEF Finish, e
<1>6. CASE state[e] # "running"
  <2>1. state' = state /\ resting' = resting
    BY <1>6, Zenon DEF Finish, Mine
  <2>. QED
    BY <1>1, <1>4, <1>6, <2>1, Rests, PutEffect DEF Finish, TypeOK
<1>. QED
  BY <1>5, <1>6

\* A worker that drops its event has none; if it may have answered and there is
\* no record of it, the event is orphaned.
LEMMA DropEffect ==
  ASSUME TypeOK, NEW w \in Workers, Locked(w) \/ Die(w)
  PROVE  /\ worker' \in [Workers -> Rows]
         /\ worker'[w] \in {Idle, Down}
         /\ \A v \in Workers : v # w => worker'[v] = worker[v]
         /\ faults' \in 0..MaxFaults
         /\ orphaned' = IF Unrecorded(w) THEN orphaned \cup {worker[w].e} ELSE orphaned
         /\ UNCHANGED <<queueVars, logVars, out, shared, misjudged>>
<1>1. PICK next \in {Idle, Down} : Drop(w, next)
  BY DEF Locked, Die
<1>2. faults' \in 0..MaxFaults
  BY <1>1, QueueAssumption DEF Drop, TypeOK
<1>3. next \in Rows /\ worker' = [worker EXCEPT ![w] = next]
  BY <1>1, Rests DEF Drop
<1>4. /\ worker' \in [Workers -> Rows] /\ worker'[w] = next
      /\ \A v \in Workers : v # w => worker'[v] = worker[v]
  BY <1>3, PutEffect
<1>. QED
  BY <1>1, <1>2, <1>4 DEF Drop

\* A start puts back what runs; what another worker has is shared from then on.
LEMMA StartEffect ==
  ASSUME TypeOK, NEW w \in Workers, Start(w)
  PROVE  /\ worker[w].pc = "down"
         /\ worker' \in [Workers -> Rows]
         /\ worker'[w] = Idle
         /\ \A v \in Workers : v # w => worker'[v] = worker[v]
         /\ state' = [e \in Events |-> IF state[e] = "running" THEN "retry_wait" ELSE state[e]]
         /\ shared' = shared \cup {e \in Events : state[e] = "running" /\ e \in Held}
         /\ UNCHANGED <<attempts, resting, logVars, faults, out, orphaned, misjudged>>
<1>1. worker' = [worker EXCEPT ![w] = Idle]
  BY DEF Start
<1>2. state' = [e \in Events |-> IF state[e] = "running" THEN "retry_wait" ELSE state[e]]
  BY DEF Start
<1>3. shared' = shared \cup {e \in Events : state[e] = "running" /\ e \in Held}
  BY DEF Start
<1>. QED
  BY <1>1, <1>2, <1>3, Rests, PutEffect DEF Start

-----------------------------------------------------------------------------
(* The parts of the invariant, step by step.                               *)


\* Types.
LEMMA StepTypeOK == TypeOK /\ HandsKnown /\ [Next]_vars => TypeOK'
<1> SUFFICES ASSUME TypeOK, HandsKnown, [Next]_vars
             PROVE  TypeOK'
  OBVIOUS
<1> USE DEF queueVars, logVars, histVars, Rows
<1>1. CASE UNCHANGED vars
  BY <1>1 DEF vars, TypeOK
<1>2. ASSUME NEW e \in Events, Receive(e) PROVE TypeOK'
  <2>1. /\ state' \in [Events -> States]
        /\ \A f \in Events : state[f] = "retry_wait" => state'[f] = "retry_wait"
    BY <1>2 DEF Receive, TypeOK, States
  <2>2. since' \in [Events -> Nat]
    BY <1>2 DEF Receive, TypeOK
  <2>3. resting' \subseteq {f \in Events : state'[f] = "retry_wait"}
    BY <1>2, <2>1 DEF Receive, TypeOK
  <2>. QED
    BY <1>2, <2>1, <2>2, <2>3 DEF Receive, TypeOK
<1>3. ASSUME NEW e \in Events, Due(e) PROVE TypeOK'
  BY <1>3 DEF Due, TypeOK
<1>4. ASSUME NEW w \in Workers, Claim(w) PROVE TypeOK'
  <2>1. PICK e \in Events :
           /\ state[e] \in {"pending", "retry_wait"} /\ e \notin resting
           /\ state' = [state EXCEPT ![e] = "running"]
           /\ attempts' = [attempts EXCEPT ![e] = @ + 1]
           /\ worker' \in [Workers -> Rows]
           /\ UNCHANGED <<resting, logVars, faults, histVars>>
    BY <1>4, ClaimEffect
  <2>2. /\ state' \in [Events -> States] /\ attempts' \in [Events -> Nat]
        /\ resting' \subseteq {f \in Events : state'[f] = "retry_wait"}
    BY <2>1 DEF TypeOK, States
  <2>. QED
    BY <2>1, <2>2 DEF TypeOK
<1>5. ASSUME NEW w \in Workers, Look(w) PROVE TypeOK'
  BY <1>5, LookEffect DEF TypeOK
<1>6. ASSUME NEW w \in Workers, Send(w) PROVE TypeOK'
  <2>0. worker[w].e \in Events /\ out \in [Events -> Nat] /\ misjudged \subseteq Events
    BY <1>6, SendEffect DEF HandsKnown, TypeOK
  <2>1. out' = out \/ out' = [out EXCEPT ![worker[w].e] = @ + 1]
    BY <1>6, SendEffect
  <2>2. out' \in [Events -> Nat]
    BY <2>0, <2>1
  <2>3. misjudged' = misjudged \/ misjudged' = misjudged \cup {worker[w].e}
    BY <1>6, SendEffect
  <2>4. misjudged' \subseteq Events
    BY <2>0, <2>3
  <2>5. /\ worker' \in [Workers -> Rows]
        /\ UNCHANGED <<queueVars, logVars, faults, orphaned, shared>>
    BY <1>6, SendEffect
  <2>. QED
    BY <2>2, <2>4, <2>5 DEF TypeOK
<1>7. ASSUME NEW w \in Workers, Record(w) PROVE TypeOK'
  <2>1. worker[w].e \in Events
    BY <1>7, RecordEffect DEF HandsKnown
  <2>2. rows' \in Nat /\ replied' \subseteq Events
    BY <1>7, <2>1, RecordEffect DEF TypeOK
  <2>3. worker' \in [Workers -> Rows] /\ UNCHANGED <<queueVars, since, faults, histVars>>
    BY <1>7, RecordEffect
  <2>. QED
    BY <2>2, <2>3 DEF TypeOK
<1>8. ASSUME NEW w \in Workers, Finish(w) PROVE TypeOK'
  BY <1>8, FinishEffect DEF TypeOK
<1>9. ASSUME NEW w \in Workers, Locked(w) \/ Die(w) PROVE TypeOK'
  <2>1. worker[w].pc \in {"told", "finishing"} => worker[w].e \in Events
    BY DEF HandsKnown
  <2>2. orphaned' \subseteq Events
    BY <1>9, <2>1, DropEffect DEF TypeOK, Unrecorded
  <2>. QED
    BY <1>9, <2>2, DropEffect DEF TypeOK
<1>10. ASSUME NEW w \in Workers, Start(w) PROVE TypeOK'
  <2>1. state' = [e \in Events |-> IF state[e] = "running" THEN "retry_wait" ELSE state[e]]
    BY <1>10, StartEffect
  <2>2. /\ state' \in [Events -> States]
        /\ \A f \in Events : state[f] = "retry_wait" => state'[f] = "retry_wait"
    BY <2>1 DEF TypeOK, States
  <2>3. shared' \subseteq Events
    BY <1>10, StartEffect DEF TypeOK
  <2>. QED
    BY <1>10, <2>2, <2>3, StartEffect DEF TypeOK
<1>. QED
  BY <1>1, <1>2, <1>3, <1>4, <1>5, <1>6, <1>7, <1>8, <1>9, <1>10 DEF Next, WorkerStep

\* Every worker has an event while it is busy with one.
LEMMA StepHands == TypeOK /\ HandsKnown /\ [Next]_vars => HandsKnown'
<1> SUFFICES ASSUME TypeOK, HandsKnown, [Next]_vars
             PROVE  HandsKnown'
  OBVIOUS
<1>1. CASE UNCHANGED vars
  BY <1>1 DEF vars, HandsKnown
<1>2. ASSUME NEW e \in Events, Receive(e) \/ Due(e) PROVE HandsKnown'
  BY <1>2 DEF Receive, Due, HandsKnown
<1>3. ASSUME NEW w \in Workers, NEW e \in Events,
             worker'[w].e = e /\ worker'[w].pc \notin {"down", "idle"},
             \A v \in Workers : v # w => worker'[v] = worker[v]
      PROVE  HandsKnown'
  BY <1>3 DEF HandsKnown
<1>4. ASSUME NEW w \in Workers, worker'[w] \in {Idle, Down},
             \A v \in Workers : v # w => worker'[v] = worker[v]
      PROVE  HandsKnown'
  <2>1. worker'[w].e = 0 /\ worker'[w].pc \in {"down", "idle"}
    BY <1>4 DEF Idle, Down
  <2>. QED
    BY <1>4, <2>1 DEF HandsKnown
<1>5. ASSUME NEW w \in Workers, Claim(w) PROVE HandsKnown'
  <2>1. PICK e \in Events : worker'[w] = [pc |-> "taken", e |-> e, end |-> "done"]
    BY <1>5, ClaimEffect
  <2>2. \A v \in Workers : v # w => worker'[v] = worker[v]
    BY <1>5, ClaimEffect
  <2>3. worker'[w].e = e /\ worker'[w].pc \notin {"down", "idle"}
    BY <2>1
  <2>. QED
    BY <1>3, <2>2, <2>3
<1>6. ASSUME NEW w \in Workers, Look(w) \/ Send(w) \/ Record(w) PROVE HandsKnown'
  <2>1. worker[w].e \in Events
    BY <1>6, LookEffect, SendEffect, RecordEffect DEF HandsKnown
  <2>2. CASE Look(w)
    BY <1>3, <2>1, <2>2, LookEffect
  <2>3. CASE Send(w)
    BY <1>3, <2>1, <2>3, SendEffect
  <2>4. CASE Record(w)
    <3>1. worker'[w].e = worker[w].e /\ worker'[w].pc = "finishing"
      BY <2>4, RecordEffect
    <3>2. \A v \in Workers : v # w => worker'[v] = worker[v]
      BY <2>4, RecordEffect
    <3>. QED
      BY <1>3, <2>1, <3>1, <3>2
  <2>. QED
    BY <1>6, <2>2, <2>3, <2>4
<1>7. ASSUME NEW w \in Workers, Finish(w) \/ Locked(w) \/ Die(w) \/ Start(w) PROVE HandsKnown'
  <2>1. CASE Finish(w)
    BY <1>4, <2>1, FinishEffect
  <2>2. CASE Locked(w) \/ Die(w)
    BY <1>4, <2>2, DropEffect
  <2>3. CASE Start(w)
    BY <1>4, <2>3, StartEffect
  <2>. QED
    BY <1>7, <2>1, <2>2, <2>3
<1>. QED
  BY <1>1, <1>2, <1>5, <1>6, <1>7 DEF Next, WorkerStep

\* What no start has taken from its worker is running and in one hand: a start
\* marks what it takes, and an end leaves no other hand on the event.
LEMMA StepHeld == TypeOK /\ HandsKnown /\ HeldAlone /\ [Next]_vars => HeldAlone'
<1> SUFFICES ASSUME TypeOK, HandsKnown, HeldAlone, [Next]_vars
             PROVE  HeldAlone'
  OBVIOUS
<1>0. 0 \notin Events
  BY EventNumbers
<1>1. CASE UNCHANGED vars
  BY <1>1 DEF vars, queueVars, histVars, HeldAlone
<1>2. ASSUME worker' = worker, shared' = shared,
             \A e \in Events : state[e] = "running" => state'[e] = "running"
      PROVE  HeldAlone'
  BY <1>2 DEF HeldAlone
<1>3. ASSUME NEW w \in Workers, worker'[w].e \in {0, worker[w].e}, shared' = shared,
             \A v \in Workers : v # w => worker'[v] = worker[v],
             \A e \in Events : state[e] = "running" => state'[e] = "running"
      PROVE  HeldAlone'
  <2>1. \A v \in Workers, e \in Events : worker'[v].e = e => worker[v].e = e
    BY <1>0, <1>3
  <2>. QED
    BY <1>3, <2>1 DEF HeldAlone
<1>4. ASSUME NEW e \in Events, Receive(e) \/ Due(e) PROVE HeldAlone'
  <2>1. \A f \in Events : state[f] = "running" => state'[f] = "running"
    BY <1>4 DEF Receive, Due, TypeOK
  <2>. QED
    BY <1>2, <1>4, <2>1 DEF Receive, Due, histVars
<1>5. ASSUME NEW w \in Workers, Claim(w) PROVE HeldAlone'
  <2>1. PICK e \in Events :
           /\ state[e] \in {"pending", "retry_wait"}
           /\ state' = [state EXCEPT ![e] = "running"]
           /\ worker[w].pc = "idle"
           /\ worker'[w] = [pc |-> "taken", e |-> e, end |-> "done"]
           /\ \A v \in Workers : v # w => worker'[v] = worker[v]
           /\ UNCHANGED histVars
    BY <1>5, ClaimEffect
  <2>2. worker'[w].e = e /\ worker[w].e = 0
    BY <2>1 DEF HandsKnown
  <2>3. /\ state'[e] = "running" /\ shared' = shared
        /\ \A f \in Events : state[f] = "running" => state'[f] = "running"
    BY <2>1 DEF TypeOK, histVars
  <2>4. e \notin shared => \A v \in Workers : worker[v].e # e
    BY <2>1 DEF HeldAlone
  <2>. QED
    BY <1>0, <2>1, <2>2, <2>3, <2>4 DEF HeldAlone
<1>6. ASSUME NEW w \in Workers, Look(w) PROVE HeldAlone'
  <2>1. /\ worker'[w].e = worker[w].e
        /\ \A v \in Workers : v # w => worker'[v] = worker[v]
        /\ UNCHANGED <<queueVars, histVars>>
    BY <1>6, LookEffect
  <2>. QED
    BY <1>3, <2>1 DEF queueVars, histVars
<1>7. ASSUME NEW w \in Workers, Send(w) PROVE HeldAlone'
  <2>1. /\ worker'[w].e = worker[w].e
        /\ \A v \in Workers : v # w => worker'[v] = worker[v]
        /\ UNCHANGED <<queueVars, shared>>
    BY <1>7, SendEffect
  <2>. QED
    BY <1>3, <2>1 DEF queueVars
<1>8. ASSUME NEW w \in Workers, Record(w) PROVE HeldAlone'
  <2>1. /\ worker'[w].e = worker[w].e
        /\ \A v \in Workers : v # w => worker'[v] = worker[v]
        /\ UNCHANGED <<queueVars, histVars>>
    BY <1>8, RecordEffect
  <2>. QED
    BY <1>3, <2>1 DEF queueVars, histVars
<1>9. ASSUME NEW w \in Workers, Locked(w) \/ Die(w) PROVE HeldAlone'
  <2>1. /\ worker'[w] \in {Idle, Down}
        /\ \A v \in Workers : v # w => worker'[v] = worker[v]
        /\ UNCHANGED <<queueVars, shared>>
    BY <1>9, DropEffect
  <2>2. worker'[w].e = 0
    BY <2>1 DEF Idle, Down
  <2>. QED
    BY <1>3, <2>1, <2>2 DEF queueVars
<1>10. ASSUME NEW w \in Workers, Finish(w) PROVE HeldAlone'
  <2>1. /\ worker'[w] = Idle
        /\ \A v \in Workers : v # w => worker'[v] = worker[v]
        /\ \A e \in Events : state'[e] # state[e] => e = worker[w].e
        /\ UNCHANGED histVars
    BY <1>10, FinishEffect
  <2>2. worker'[w].e = 0 /\ shared' = shared
    BY <2>1 DEF Idle, histVars
  <2>. QED
    BY <1>0, <2>1, <2>2 DEF HeldAlone
<1>11. ASSUME NEW w \in Workers, Start(w) PROVE HeldAlone'
  <2>1. /\ worker'[w] = Idle
        /\ \A v \in Workers : v # w => worker'[v] = worker[v]
        /\ shared' = shared \cup {e \in Events : state[e] = "running" /\ e \in Held}
    BY <1>11, StartEffect
  <2>2. worker'[w].e = 0
    BY <2>1 DEF Idle
  <2>3. ASSUME NEW e \in Events \ shared', NEW v \in Workers, worker'[v].e = e
        PROVE  FALSE
    <3>1. v # w /\ worker[v].e = e
      BY <1>0, <2>1, <2>2, <2>3
    <3>2. e \notin shared /\ state[e] = "running"
      BY <2>1, <3>1 DEF HeldAlone
    <3>3. e \in Held
      BY <3>1 DEF Held
    <3>. QED
      BY <2>1, <3>2, <3>3
  <2>. QED
    BY <2>3 DEF HeldAlone
<1>. QED
  BY <1>1, <1>4, <1>5, <1>6, <1>7, <1>8, <1>9, <1>10, <1>11 DEF Next, WorkerStep

\* What AnswerKept says of one message.
Kept(e) ==
    /\ out[e] \in {0, 1}
    /\ out[e] = 1 => \/ e \in replied \/ state[e] \in Settled
                     \/ \E w \in Workers : worker[w].e = e /\ Vouches(w)
    /\ \A w \in Workers : worker[w].e = e /\ worker[w].pc = "writing" => out[e] = 0

\* A step that takes away no answer on record, no settlement and no hand that
\* vouches, and lets no one write, keeps what is said of a message.
LEMMA KeptOn ==
  ASSUME NEW e \in Events, Kept(e), out'[e] = out[e],
         e \in replied => e \in replied',
         state[e] \in Settled => state'[e] \in Settled,
         \A w \in Workers : worker[w].e = e /\ Vouches(w) =>
           \/ worker'[w].e = e /\ Vouches(w)'
           \/ e \in replied' \/ state'[e] \in Settled,
         \A w \in Workers : worker'[w].e = e /\ worker'[w].pc = "writing" =>
           out[e] = 0 \/ (worker[w].e = e /\ worker[w].pc = "writing")
  PROVE  Kept(e)'
BY DEF Kept

\* Only a worker that has looked writes, and what it looked at is without an
\* answer; a drop of a hand that vouches leaves the event answered or orphaned.
LEMMA StepKept ==
  TypeOK /\ HandsKnown /\ HeldAlone /\ AnswerKept /\ [Next]_vars => AnswerKept'
<1> SUFFICES ASSUME TypeOK, HandsKnown, HeldAlone, AnswerKept, [Next]_vars,
                    NEW e \in Events, e \notin orphaned', e \notin shared', e \notin misjudged'
             PROVE  Kept(e)'
  BY DEF AnswerKept, Kept
<1>0. 0 \notin Events
  BY EventNumbers
<1>k. ASSUME e \notin orphaned, e \notin shared, e \notin misjudged
      PROVE  Kept(e) /\ \A v \in Workers : worker[v].e = e =>
                          state[e] = "running" /\ \A u \in Workers : worker[u].e = e => u = v
  BY <1>k DEF AnswerKept, Kept, HeldAlone
<1>1. CASE UNCHANGED vars
  BY <1>1, <1>k DEF vars, queueVars, logVars, histVars, Kept, Vouches
<1>2. ASSUME NEW f \in Events, Receive(f) \/ Due(f) PROVE Kept(e)'
  <2>1. state[e] \in Settled => state'[e] \in Settled
    BY <1>2 DEF Receive, Due, TypeOK, Settled
  <2>2. UNCHANGED <<worker, replied, histVars>>
    BY <1>2 DEF Receive, Due, logVars
  <2>. QED
    BY <1>k, <2>1, <2>2, KeptOn DEF histVars, Vouches
<1>3. ASSUME NEW w \in Workers, Claim(w) PROVE Kept(e)'
  <2>1. PICK f \in Events :
           /\ state[f] \in {"pending", "retry_wait"}
           /\ state' = [state EXCEPT ![f] = "running"]
           /\ worker[w].pc = "idle"
           /\ worker'[w] = [pc |-> "taken", e |-> f, end |-> "done"]
           /\ \A v \in Workers : v # w => worker'[v] = worker[v]
           /\ UNCHANGED <<logVars, histVars>>
    BY <1>3, ClaimEffect
  <2>2. state[e] \in Settled => state'[e] \in Settled
    BY <2>1 DEF TypeOK, Settled
  <2>3. \A v \in Workers : worker[v].e = e /\ Vouches(v) => worker'[v].e = e /\ Vouches(v)'
    BY <2>1 DEF Vouches
  <2>4. worker'[w].pc # "writing"
    BY <2>1
  <2>5. \A v \in Workers : worker'[v].e = e /\ worker'[v].pc = "writing" =>
           worker[v].e = e /\ worker[v].pc = "writing"
    BY <2>1, <2>4
  <2>. QED
    BY <1>k, <2>1, <2>2, <2>3, <2>5, KeptOn DEF logVars, histVars
<1>4. ASSUME NEW w \in Workers, Look(w) PROVE Kept(e)'
  <2>1. /\ worker[w].pc = "taken" /\ worker'[w].e = worker[w].e
        /\ \A v \in Workers : v # w => worker'[v] = worker[v]
        /\ worker'[w].pc = "writing" => worker[w].e \notin replied
        /\ UNCHANGED <<queueVars, logVars, histVars>>
    BY <1>4, LookEffect
  <2>2. \A v \in Workers : worker[v].e = e /\ Vouches(v) => worker'[v].e = e /\ Vouches(v)'
    BY <2>1 DEF Vouches
  <2>3. Kept(e) /\ \A v \in Workers : worker[v].e = e =>
                     state[e] = "running" /\ \A u \in Workers : worker[u].e = e => u = v
    BY <1>k, <2>1 DEF histVars
  <2>4. worker'[w].e = e /\ worker'[w].pc = "writing" => out[e] = 0
    <3>1. SUFFICES ASSUME worker[w].e = e, e \notin replied
                   PROVE  out[e] = 0
      BY <2>1
    <3>2. state[e] \notin Settled /\ ~ \E v \in Workers : worker[v].e = e /\ Vouches(v)
      BY <2>1, <2>3, <3>1 DEF Settled, Vouches
    <3>. QED
      BY <2>3, <3>1, <3>2 DEF Kept
  <2>5. \A v \in Workers : worker'[v].e = e /\ worker'[v].pc = "writing" =>
           out[e] = 0 \/ (worker[v].e = e /\ worker[v].pc = "writing")
    BY <2>1, <2>4
  <2>6. out' = out /\ replied' = replied /\ state' = state
    BY <2>1 DEF queueVars, logVars, histVars
  <2>. QED
    BY <2>2, <2>3, <2>5, <2>6, KeptOn
<1>5. ASSUME NEW w \in Workers, Send(w) PROVE Kept(e)'
  <2>1. /\ worker[w].pc = "writing" /\ worker'[w].e = worker[w].e
        /\ \A v \in Workers : v # w => worker'[v] = worker[v]
        /\ UNCHANGED <<queueVars, logVars, orphaned, shared>>
        /\ worker'[w].pc # "writing"
    BY <1>5, SendEffect
  <2>2. \A v \in Workers : worker[v].e = e /\ Vouches(v) => worker'[v].e = e /\ Vouches(v)'
    BY <2>1 DEF Vouches
  <2>3. e \notin misjudged
    BY <1>5, SendEffect
  <2>4. Kept(e) /\ \A v \in Workers : worker[v].e = e => \A u \in Workers : worker[u].e = e => u = v
    BY <1>k, <2>1, <2>3
  <2>5. out' = out \/ out' = [out EXCEPT ![worker[w].e] = @ + 1]
    BY <1>5, SendEffect
  <2>6. \A v \in Workers : worker'[v].e = e /\ worker'[v].pc = "writing" =>
           worker[v].e = e /\ worker[v].pc = "writing"
    BY <2>1
  <2>7. CASE out'[e] = out[e]
    BY <2>1, <2>2, <2>4, <2>6, <2>7, KeptOn DEF queueVars, logVars
  <2>8. CASE out'[e] # out[e]
    <3>1. worker[w].e = e /\ out' = [out EXCEPT ![e] = @ + 1]
      BY <2>5, <2>8 DEF TypeOK
    <3>2. out[e] = 0
      BY <2>1, <2>4, <3>1 DEF Kept
    <3>3. out'[e] = 1
      BY <3>1, <3>2 DEF TypeOK
    <3>4. Vouches(w)'
      BY <1>5, <2>8, <3>1, SendEffect DEF Vouches
    <3>5. \A v \in Workers : worker'[v].e = e => worker'[v].pc # "writing"
      BY <2>1, <2>4, <3>1
    <3>. QED
      BY <2>1, <3>1, <3>3, <3>4, <3>5 DEF Kept
  <2>. QED
    BY <2>7, <2>8
<1>6. ASSUME NEW w \in Workers, Record(w) PROVE Kept(e)'
  <2>1. /\ worker'[w].e = worker[w].e /\ worker'[w].pc = "finishing"
        /\ \A v \in Workers : v # w => worker'[v] = worker[v]
        /\ replied' = replied \cup {worker[w].e}
        /\ UNCHANGED <<queueVars, histVars>>
    BY <1>6, RecordEffect
  <2>2. \A v \in Workers : worker[v].e = e /\ Vouches(v) =>
           (worker'[v].e = e /\ Vouches(v)') \/ e \in replied'
    BY <2>1 DEF Vouches
  <2>3. \A v \in Workers : worker'[v].e = e /\ worker'[v].pc = "writing" =>
           worker[v].e = e /\ worker[v].pc = "writing"
    BY <2>1
  <2>4. /\ Kept(e) /\ out'[e] = out[e] /\ state'[e] = state[e]
        /\ e \in replied => e \in replied'
    BY <1>k, <2>1 DEF queueVars, histVars
  <2>. QED
    BY <2>2, <2>3, <2>4, KeptOn
<1>7. ASSUME NEW w \in Workers, Finish(w) PROVE Kept(e)'
  <2>1. /\ worker[w].pc = "finishing" /\ worker[w].e \in Events
        /\ worker'[w] = Idle
        /\ \A v \in Workers : v # w => worker'[v] = worker[v]
        /\ \A f \in Events : state'[f] # state[f] => f = worker[w].e /\ state[f] = "running"
        /\ state[worker[w].e] = "running" /\ worker[w].end \in {"done", "final"} =>
             state'[worker[w].e] \in Settled
        /\ UNCHANGED <<logVars, histVars>>
    BY <1>7, FinishEffect
  <2>2. Kept(e) /\ \A v \in Workers : worker[v].e = e => state[e] = "running"
    BY <1>k, <2>1 DEF histVars
  <2>3. state[e] \in Settled => state'[e] \in Settled
    BY <2>1 DEF Settled
  <2>4. \A v \in Workers : worker[v].e = e /\ Vouches(v) =>
           (worker'[v].e = e /\ Vouches(v)') \/ state'[e] \in Settled
    BY <2>1, <2>2 DEF Vouches
  <2>5. worker'[w].e = 0
    BY <2>1 DEF Idle
  <2>6. \A v \in Workers : worker'[v].e = e /\ worker'[v].pc = "writing" =>
           worker[v].e = e /\ worker[v].pc = "writing"
    BY <1>0, <2>1, <2>5
  <2>. QED
    BY <2>1, <2>2, <2>3, <2>4, <2>6, KeptOn DEF logVars, histVars
<1>8. ASSUME NEW w \in Workers, Locked(w) \/ Die(w) PROVE Kept(e)'
  <2>1. /\ worker'[w] \in {Idle, Down}
        /\ \A v \in Workers : v # w => worker'[v] = worker[v]
        /\ orphaned' = IF Unrecorded(w) THEN orphaned \cup {worker[w].e} ELSE orphaned
        /\ UNCHANGED <<queueVars, logVars, out, shared, misjudged>>
    BY <1>8, DropEffect
  <2>2. worker'[w].e = 0
    BY <2>1 DEF Idle, Down
  <2>3. \A v \in Workers : worker[v].e = e /\ Vouches(v) =>
           (worker'[v].e = e /\ Vouches(v)') \/ e \in replied'
    BY <2>1 DEF Vouches, Unrecorded, Answered, logVars
  <2>4. \A v \in Workers : worker'[v].e = e /\ worker'[v].pc = "writing" =>
           worker[v].e = e /\ worker[v].pc = "writing"
    BY <1>0, <2>1, <2>2
  <2>5. e \notin orphaned
    BY <2>1
  <2>. QED
    BY <1>k, <2>1, <2>3, <2>4, <2>5, KeptOn DEF queueVars, logVars
<1>9. ASSUME NEW w \in Workers, Start(w) PROVE Kept(e)'
  <2>1. /\ worker[w].pc = "down" /\ worker'[w] = Idle
        /\ \A v \in Workers : v # w => worker'[v] = worker[v]
        /\ state' = [f \in Events |-> IF state[f] = "running" THEN "retry_wait" ELSE state[f]]
        /\ shared' = shared \cup {f \in Events : state[f] = "running" /\ f \in Held}
        /\ UNCHANGED <<logVars, out, orphaned, misjudged>>
    BY <1>9, StartEffect
  <2>2. worker'[w].e = 0
    BY <2>1 DEF Idle
  <2>3. state[e] \in Settled => state'[e] \in Settled
    BY <2>1 DEF Settled
  <2>4. \A v \in Workers : worker[v].e = e /\ Vouches(v) => worker'[v].e = e /\ Vouches(v)'
    BY <2>1 DEF Vouches
  <2>5. \A v \in Workers : worker'[v].e = e /\ worker'[v].pc = "writing" =>
           worker[v].e = e /\ worker[v].pc = "writing"
    BY <1>0, <2>1, <2>2
  <2>6. e \notin shared
    BY <2>1
  <2>. QED
    BY <1>k, <2>1, <2>3, <2>4, <2>5, <2>6, KeptOn DEF logVars
<1>. QED
  BY <1>1, <1>2, <1>3, <1>4, <1>5, <1>6, <1>7, <1>8, <1>9 DEF Next, WorkerStep

\* No step of a worker stores a message or forgets one; only a record adds to the
\* answers.
LEMMA Standing ==
  ASSUME TypeOK, HandsKnown, NEW w \in Workers,
         WorkerStep(w) \/ Locked(w) \/ Die(w) \/ Start(w)
  PROVE  /\ \A e \in Events : state'[e] = "none" <=> state[e] = "none"
         /\ since' = since
         /\ rows' = IF Record(w) THEN rows + 1 ELSE rows
<1>0. state \in [Events -> States]
  BY DEF TypeOK
<1>1. CASE Claim(w)
  <2>1. PICK e \in Events : /\ state[e] \in {"pending", "retry_wait"}
                            /\ state' = [state EXCEPT ![e] = "running"]
                            /\ worker[w].pc = "idle" /\ UNCHANGED logVars
    BY <1>1, ClaimEffect
  <2>2. ~Record(w)
    BY <2>1 DEF Record
  <2>. QED
    BY <1>0, <2>1, <2>2 DEF logVars
<1>2. CASE Look(w)
  BY <1>2, LookEffect DEF queueVars, logVars, Record
<1>3. CASE Send(w)
  BY <1>3, SendEffect DEF queueVars, logVars, Record
<1>4. CASE Record(w)
  BY <1>4, RecordEffect DEF queueVars
<1>5. CASE Finish(w)
  <2>1. /\ worker[w].pc = "finishing" /\ worker[w].e \in Events
        /\ \A e \in Events : state'[e] # state[e] => e = worker[w].e /\ state[e] = "running"
        /\ state[worker[w].e] = "running" =>
             state'[worker[w].e] \in {"completed", "failed", "retry_wait"}
        /\ UNCHANGED logVars
    BY <1>5, FinishEffect
  <2>2. ~Record(w)
    BY <2>1 DEF Record
  <2>3. \A e \in Events : state'[e] = "none" <=> state[e] = "none"
    BY <2>1
  <2>. QED
    BY <2>1, <2>2, <2>3 DEF logVars
<1>6. CASE Locked(w) \/ Die(w)
  <2>1. /\ UNCHANGED <<queueVars, logVars>> /\ worker'[w] \in {Idle, Down}
    BY <1>6, DropEffect
  <2>2. ~Record(w)
    <3>1. SUFFICES ASSUME Record(w) PROVE FALSE
      OBVIOUS
    <3>2. rows' = rows + 1 /\ rows \in Nat
      BY <3>1 DEF Record, TypeOK
    <3>. QED
      BY <2>1, <3>2 DEF logVars
  <2>. QED
    BY <2>1, <2>2 DEF queueVars, logVars
<1>7. CASE Start(w)
  <2>1. /\ state' = [e \in Events |-> IF state[e] = "running" THEN "retry_wait" ELSE state[e]]
        /\ worker[w].pc = "down" /\ UNCHANGED logVars
    BY <1>7, StartEffect
  <2>2. ~Record(w)
    BY <2>1 DEF Record
  <2>. QED
    BY <2>1, <2>2 DEF logVars
<1>. QED
  BY <1>1, <1>2, <1>3, <1>4, <1>5, <1>6, <1>7 DEF WorkerStep

\* A message that comes is the newest; the answers on record are its mark.
LEMMA ReceiveEffect ==
  ASSUME TypeOK, StoredInOrder, NEW e \in Events, Receive(e)
  PROVE  /\ state[e] = "none" /\ state'[e] = "pending" /\ since'[e] = rows
         /\ \A f \in Events : f # e => state'[f] = state[f] /\ since'[f] = since[f]
         /\ \A f \in Events : f < e => state[f] # "none"
         /\ \A f \in Events : f > e => state[f] = "none"
         /\ UNCHANGED <<rows, worker>>
<1>1. /\ state[e] = "none" /\ state'[e] = "pending" /\ since'[e] = rows
      /\ \A f \in Events : f # e => state'[f] = state[f] /\ since'[f] = since[f]
      /\ UNCHANGED <<rows, worker>>
  BY DEF Receive, TypeOK
<1>2. \A f \in Events : f < e => state[f] # "none"
  <2>1. \A f \in Events : f \in Nat \ {0} /\ e \in Nat \ {0}
    BY EventNumbers
  <2>2. \A f \in 1..e - 1 : state[f] # "none"
    BY DEF Receive
  <2>. QED
    BY <2>1, <2>2
<1>3. \A f \in Events : f > e => state[f] = "none"
  BY <1>1, EventNumbers DEF StoredInOrder
<1>. QED
  BY <1>1, <1>2, <1>3

\* The marks are in the order of the messages.
LEMMA StepOrder == TypeOK /\ HandsKnown /\ StoredInOrder /\ [Next]_vars => StoredInOrder'
<1> SUFFICES ASSUME TypeOK, HandsKnown, StoredInOrder, [Next]_vars
             PROVE  StoredInOrder'
  OBVIOUS
<1>0. Events \subseteq Nat /\ rows \in Nat /\ \A e \in Events : since[e] \in Nat
  BY EventNumbers DEF TypeOK
<1>1. ASSUME \A e \in Events : state'[e] = "none" <=> state[e] = "none",
             since' = since, rows' \in {rows, rows + 1}
      PROVE  StoredInOrder'
  BY <1>0, <1>1 DEF StoredInOrder
<1>2. CASE UNCHANGED vars
  BY <1>1, <1>2 DEF vars, queueVars, logVars
<1>3. ASSUME NEW e \in Events, Receive(e) PROVE StoredInOrder'
  <2>1. SUFFICES ASSUME NEW f \in Events, NEW g \in Events, f <= g, state'[g] # "none"
                 PROVE  state'[f] # "none" /\ since'[f] <= since'[g] /\ since'[g] <= rows'
    BY DEF StoredInOrder
  <2>2. CASE g = e
    <3>1. since'[g] = rows /\ rows' = rows
      BY <1>3, <2>2, ReceiveEffect
    <3>2. CASE f = e
      BY <1>0, <1>3, <2>2, <3>1, <3>2, ReceiveEffect
    <3>3. CASE f # e
      <4>1. f < e
        BY <1>0, <2>1, <2>2, <3>3
      <4>2. state[f] # "none" /\ state'[f] = state[f] /\ since'[f] = since[f]
        BY <1>3, <3>3, <4>1, ReceiveEffect
      <4>3. since[f] <= rows
        BY <1>0, <4>2 DEF StoredInOrder
      <4>. QED
        BY <1>0, <3>1, <4>2, <4>3
    <3>. QED
      BY <3>2, <3>3
  <2>3. CASE g # e
    <3>1. state[g] # "none" /\ since'[g] = since[g] /\ rows' = rows
      BY <1>3, <2>1, <2>3, ReceiveEffect
    <3>2. state[f] # "none" /\ since[f] <= since[g] /\ since[g] <= rows
      BY <2>1, <3>1 DEF StoredInOrder
    <3>3. f # e
      BY <1>3, <3>2, ReceiveEffect
    <3>. QED
      BY <1>3, <3>1, <3>2, <3>3, ReceiveEffect
  <2>. QED
    BY <2>2, <2>3
<1>4. ASSUME NEW e \in Events, Due(e) PROVE StoredInOrder'
  BY <1>1, <1>4 DEF Due, logVars
<1>5. ASSUME NEW w \in Workers, WorkerStep(w) \/ Locked(w) \/ Die(w) \/ Start(w)
      PROVE  StoredInOrder'
  <2>1. /\ \A e \in Events : state'[e] = "none" <=> state[e] = "none"
        /\ since' = since /\ rows' = IF Record(w) THEN rows + 1 ELSE rows
    BY <1>5, Standing
  <2>2. rows' \in {rows, rows + 1}
    BY <2>1
  <2>. QED
    BY <1>1, <2>1, <2>2
<1>. QED
  BY <1>2, <1>3, <1>4, <1>5 DEF Next

\* A message that a worker has stays stored.
LEMMA StepStored == TypeOK /\ HandsKnown /\ HeldStored /\ [Next]_vars => HeldStored'
<1> SUFFICES ASSUME TypeOK, HandsKnown, HeldStored, [Next]_vars
             PROVE  HeldStored'
  OBVIOUS
<1>0. \A w \in Workers : worker[w].e \in {0} \cup Events /\ worker'[w].e \in {0} \cup Events
  BY StepTypeOK DEF TypeOK
<1>1. ASSUME \A e \in Events : state'[e] = "none" => state[e] = "none", worker' = worker
      PROVE  HeldStored'
  BY <1>0, <1>1 DEF HeldStored
<1>2. ASSUME NEW w \in Workers, worker'[w].e \in {0, worker[w].e},
             \A v \in Workers : v # w => worker'[v] = worker[v],
             \A e \in Events : state'[e] = "none" <=> state[e] = "none"
      PROVE  HeldStored'
  <2>1. \A v \in Workers : worker'[v].e \in {0, worker[v].e}
    BY <1>2
  <2>. QED
    BY <1>0, <1>2, <2>1 DEF HeldStored
<1>3. CASE UNCHANGED vars
  BY <1>1, <1>3 DEF vars, queueVars
<1>4. ASSUME NEW e \in Events, Receive(e) \/ Due(e) PROVE HeldStored'
  <2>1. \A f \in Events : state'[f] = "none" => state[f] = "none"
    BY <1>4 DEF Receive, Due, TypeOK
  <2>. QED
    BY <1>1, <1>4, <2>1 DEF Receive, Due
<1>5. ASSUME NEW w \in Workers, WorkerStep(w) \/ Locked(w) \/ Die(w) \/ Start(w)
      PROVE  HeldStored'
  <2>1. \A e \in Events : state'[e] = "none" <=> state[e] = "none"
    BY <1>5, Standing
  <2>2. CASE Claim(w)
    <3>1. PICK e \in Events :
             /\ state' = [state EXCEPT ![e] = "running"]
             /\ worker'[w] = [pc |-> "taken", e |-> e, end |-> "done"]
             /\ \A v \in Workers : v # w => worker'[v] = worker[v]
      BY <2>2, ClaimEffect
    <3>2. state'[e] = "running" /\ worker'[w].e = e
      BY <3>1 DEF TypeOK
    <3>. QED
      BY <1>0, <2>1, <3>1, <3>2 DEF HeldStored
  <2>3. CASE Look(w)
    BY <1>2, <2>1, <2>3, LookEffect
  <2>4. CASE Send(w)
    BY <1>2, <2>1, <2>4, SendEffect
  <2>5. CASE Record(w)
    BY <1>2, <2>1, <2>5, RecordEffect
  <2>6. CASE Finish(w) \/ Locked(w) \/ Die(w) \/ Start(w)
    <3>1. /\ worker'[w] \in {Idle, Down}
          /\ \A v \in Workers : v # w => worker'[v] = worker[v]
      BY <2>6, FinishEffect, DropEffect, StartEffect
    <3>2. worker'[w].e = 0
      BY <3>1 DEF Idle, Down
    <3>. QED
      BY <1>2, <2>1, <3>1, <3>2
  <2>. QED
    BY <1>5, <2>2, <2>3, <2>4, <2>5, <2>6 DEF WorkerStep
<1>. QED
  BY <1>3, <1>4, <1>5 DEF Next

\* The workers that have counted are finitely many.
LEMMA CountedFinite ==
  /\ IsFiniteSet(Counted) /\ Cardinality(Counted) \in Nat
  /\ Cardinality(Counted) <= Cardinality(Workers)
  /\ Cardinality(Workers) \in Nat
<1>1. Counted \in SUBSET Workers
  BY DEF Counted
<1>. QED
  BY <1>1, QueueAssumption, FS_Subset, FS_CardinalityType

LEMMA CountedFiniteNext ==
  /\ IsFiniteSet(Counted') /\ Cardinality(Counted)' \in Nat
  /\ Cardinality(Counted)' <= Cardinality(Workers)
<1>1. Counted' \in SUBSET Workers
  BY DEF Counted
<1>. QED
  BY <1>1, QueueAssumption, FS_Subset, FS_CardinalityType

\* The window: a worker that counts adds one to those on their way where there is
\* room, and a record turns one of them into an answer.
LEMMA StepWindow ==
  TypeOK /\ HandsKnown /\ StoredInOrder /\ HeldStored /\ WindowCounted /\ [Next]_vars
    => WindowCounted'
<1> SUFFICES ASSUME TypeOK, HandsKnown, StoredInOrder, HeldStored, WindowCounted, [Next]_vars
             PROVE  WindowCounted'
  OBVIOUS
<1>0. /\ Events \subseteq Nat /\ rows \in Nat /\ \A e \in Events : since[e] \in Nat
      /\ Limit \in Nat \ {0}
  BY EventNumbers, QueueAssumption DEF TypeOK
<1>1. ASSUME \A e \in Events : state'[e] = "none" <=> state[e] = "none",
             since' = since, rows' = rows, Counted' \subseteq Counted
      PROVE  WindowCounted'
  <2>1. Cardinality(Counted)' <= Cardinality(Counted)
    BY <1>1, CountedFinite, FS_Subset
  <2>2. \A e \in Events : Newest(e)' => Newest(e)
    BY <1>1 DEF Newest
  <2>. QED
    BY <1>0, <1>1, <2>1, <2>2, CountedFinite, CountedFiniteNext DEF WindowCounted
<1>2. CASE UNCHANGED vars
  BY <1>1, <1>2 DEF vars, queueVars, logVars, Counted
<1>3. ASSUME NEW e \in Events, Receive(e) PROVE WindowCounted'
  <2>1. ASSUME NEW f \in Events, Newest(f)' PROVE f = e
    BY <1>0, <1>3, <2>1, ReceiveEffect DEF Newest
  <2>2. since'[e] = rows /\ rows' = rows
    BY <1>3, ReceiveEffect
  <2>. QED
    BY <1>0, <2>1, <2>2, CountedFinite, CountedFiniteNext DEF WindowCounted
<1>4. ASSUME NEW e \in Events, Due(e) PROVE WindowCounted'
  BY <1>1, <1>4 DEF Due, logVars, Counted
<1>5. ASSUME NEW w \in Workers, Look(w) PROVE WindowCounted'
  <2>1. /\ worker[w].pc = "taken" /\ worker'[w].e = worker[w].e
        /\ \A v \in Workers : v # w => worker'[v] = worker[v]
        /\ \/ worker'[w].pc = "finishing"
           \/ worker'[w].pc = "writing" /\ ~Full(worker[w].e)
        /\ UNCHANGED <<queueVars, logVars>>
    BY <1>5, LookEffect
  <2>2. CASE worker'[w].pc = "finishing"
    <3>1. Counted' \subseteq Counted
      BY <2>1, <2>2 DEF Counted
    <3>. QED
      BY <1>1, <2>1, <3>1 DEF queueVars, logVars
  <2>3. CASE ~Full(worker[w].e)
    <3>1. PICK m \in Events : m = worker[w].e
      BY <2>1 DEF HandsKnown
    <3>2. rows - since[m] < Limit /\ state[m] # "none"
      <4>1. rows - since[m] \in Int /\ Limit \in Int /\ ~(rows - since[m] >= Limit)
        BY <1>0, <2>3, <3>1 DEF Full
      <4>2. m # 0
        BY EventNumbers
      <4>. QED
        BY <3>1, <4>1, <4>2 DEF HeldStored
    <3>3. ASSUME NEW e \in Events, Newest(e) PROVE rows - since[e] < Limit
      <4>1. m <= e
        BY <1>0, <3>2, <3>3 DEF Newest
      <4>2. since[m] <= since[e]
        BY <3>3, <4>1 DEF StoredInOrder, Newest
      <4>. QED
        BY <1>0, <3>2, <4>2
    <3>4. since' = since /\ rows' = rows /\ state' = state
      BY <2>1 DEF queueVars, logVars
    <3>. QED
      BY <1>0, <3>3, <3>4, CountedFiniteNext, CountedFinite DEF WindowCounted, Newest
  <2>. QED
    BY <2>1, <2>2, <2>3
<1>6. ASSUME NEW w \in Workers, Record(w) PROVE WindowCounted'
  <2>1. /\ worker[w].pc = "told" /\ worker'[w].pc = "finishing"
        /\ \A v \in Workers : v # w => worker'[v] = worker[v]
        /\ rows' = rows + 1 /\ since' = since /\ UNCHANGED queueVars
    BY <1>6, RecordEffect
  <2>2. Counted' = Counted \ {w} /\ w \in Counted
    BY <2>1 DEF Counted
  <2>3. Cardinality(Counted)' = Cardinality(Counted) - 1
    BY <2>2, CountedFinite, FS_RemoveElement
  <2>4. ASSUME NEW e \in Events, Newest(e)'
        PROVE  rows' - since'[e] + Cardinality(Counted)' <= Limit + Cardinality(Workers) - 1
    <3>1. Newest(e)
      BY <2>1, <2>4 DEF Newest, queueVars
    <3>2. rows - since[e] + Cardinality(Counted) <= Limit + Cardinality(Workers) - 1
      BY <3>1 DEF WindowCounted
    <3>3. rows \in Nat /\ since[e] \in Nat /\ Cardinality(Counted) \in Nat
      BY <1>0, CountedFinite
    <3>4. rows' - since'[e] + Cardinality(Counted)' = rows - since[e] + Cardinality(Counted)
      BY <2>1, <2>3, <3>3
    <3>. QED
      BY <3>2, <3>4
  <2>. QED
    BY <2>4 DEF WindowCounted
<1>7. ASSUME NEW w \in Workers, Claim(w) \/ Send(w) \/ Finish(w) \/ Locked(w) \/ Die(w) \/ Start(w)
      PROVE  WindowCounted'
  <2>1. /\ \A v \in Workers : v # w => worker'[v] = worker[v]
        /\ worker'[w].pc \in {"writing", "told"} => worker[w].pc \in {"writing", "told"}
        /\ ~Record(w)
    <3>1. CASE Claim(w)
      <4>1. PICK e \in Events : /\ worker[w].pc = "idle"
                                /\ worker'[w] = [pc |-> "taken", e |-> e, end |-> "done"]
        BY <3>1, ClaimEffect
      <4>2. worker'[w].pc = "taken"
        BY <4>1
      <4>. QED
        BY <3>1, <4>1, <4>2, ClaimEffect DEF Record
    <3>2. CASE Send(w)
      BY <3>2, SendEffect DEF Record
    <3>3. CASE Finish(w)
      BY <3>3, FinishEffect DEF Idle, Record
    <3>4. CASE Locked(w) \/ Die(w)
      <4>1. /\ \A v \in Workers : v # w => worker'[v] = worker[v]
            /\ worker'[w] \in {Idle, Down} /\ rows' = rows
        BY <3>4, DropEffect DEF logVars
      <4>2. ~Record(w)
        BY <1>0, <4>1 DEF Record
      <4>. QED
        BY <4>1, <4>2 DEF Idle, Down
    <3>5. CASE Start(w)
      BY <3>5, StartEffect DEF Idle, Record
    <3>. QED
      BY <1>7, <3>1, <3>2, <3>3, <3>4, <3>5
  <2>2. Counted' \subseteq Counted
    BY <2>1 DEF Counted
  <2>3. /\ \A e \in Events : state'[e] = "none" <=> state[e] = "none"
        /\ since' = since /\ rows' = rows
    BY <1>7, <2>1, Standing DEF WorkerStep
  <2>. QED
    BY <1>1, <2>2, <2>3
<1>. QED
  BY <1>2, <1>3, <1>4, <1>5, <1>6, <1>7 DEF Next, WorkerStep

\* The invariant holds at first.
LEMMA InitIInv == Init => IInv
<1> SUFFICES ASSUME Init
             PROVE  IInv
  OBVIOUS
<1>0. /\ \A w \in Workers : worker[w] = Down
      /\ \A e \in Events : state[e] = "none" /\ out[e] = 0
  BY DEF Init
<1>1. TypeOK
  <2>1. worker \in [Workers -> Rows]
    BY Rests DEF Init
  <2>2. /\ state \in [Events -> States] /\ attempts \in [Events -> Nat]
        /\ since \in [Events -> Nat] /\ out \in [Events -> Nat]
    BY DEF Init, States
  <2>3. rows \in Nat /\ faults \in 0..MaxFaults
    BY QueueAssumption DEF Init
  <2>4. /\ resting \subseteq {e \in Events : state[e] = "retry_wait"} /\ replied \subseteq Events
        /\ orphaned \subseteq Events /\ shared \subseteq Events /\ misjudged \subseteq Events
    BY DEF Init
  <2>. QED
    BY <2>1, <2>2, <2>3, <2>4 DEF TypeOK, Rows
<1>2. HandsKnown /\ HeldStored
  BY <1>0 DEF Down, HandsKnown, HeldStored
<1>3. HeldAlone /\ AnswerKept
  BY <1>0, EventNumbers DEF Down, HeldAlone, AnswerKept
<1>4. StoredInOrder /\ WindowCounted
  BY <1>0 DEF StoredInOrder, WindowCounted, Newest
<1>. QED
  BY <1>1, <1>2, <1>3, <1>4 DEF IInv

-----------------------------------------------------------------------------
(* The theorems.                                                           *)

\* The parts of the invariant hold in every reachable state, whatever workers
\* die, start and meet a locked database (claim_web_event, finish_web_event,
\* recover_stale_web_events).
THEOREM Invariance == Spec => []IInv
<1>1. IInv /\ [Next]_vars => IInv'
  BY StepTypeOK, StepHands, StepHeld, StepKept, StepOrder, StepStored, StepWindow DEF IInv
<1>. QED
  BY <1>1, InitIInv, PTL DEF Spec

\* Every reachable state is well typed.
THEOREM TypeCorrect == Spec => []TypeOK
<1>1. IInv => TypeOK
  BY DEF IInv
<1>. QED
  BY <1>1, Invariance, PTL

\* A second answer is explained by a drop between the answer and its record, by a
\* start while another worker had the event, or by an error that came after the
\* answer had left: the hand that vouches for the first answer is the only one
\* (recover_stale_web_events, _handle_dm).
THEOREM SecondAnswerExplained == Spec => []AnsweredTwiceExplained
<1>1. IInv => AnsweredTwiceExplained
  <2>1. ASSUME AnswerKept, NEW e \in Events, out[e] > 1,
               e \notin orphaned \cup shared \cup misjudged
        PROVE  FALSE
    <3>1. out[e] \in {0, 1}
      BY <2>1 DEF AnswerKept
    <3>. QED
      BY <2>1, <3>1
  <2>. QED
    BY <2>1 DEF IInv, AnsweredTwiceExplained
<1>. QED
  BY <1>1, Invariance, PTL

\* Workers that count before others have recorded exceed the limit of a
\* conversation by one answer for each further worker and no more, however many
\* messages come in (outbound_web_message_count_since).
THEOREM WindowBounded == Spec => []WindowKept
<1>1. IInv => WindowKept
  <2>1. SUFFICES ASSUME IInv, NEW e \in Events, Newest(e)
                 PROVE  rows - since[e] <= Limit + Cardinality(Workers) - 1
    BY DEF WindowKept
  <2>2. rows - since[e] + Cardinality(Counted) <= Limit + Cardinality(Workers) - 1
    BY <2>1 DEF IInv, WindowCounted
  <2>3. rows \in Nat /\ since[e] \in Nat /\ Limit \in Nat
    BY <2>1, QueueAssumption DEF IInv, TypeOK
  <2>. QED
    BY <2>2, <2>3, CountedFinite
<1>. QED
  BY <1>1, Invariance, PTL

\* An event that is completed or failed stays so: late ends by workers that lost
\* it, starts and claims pass it by (finish_web_event, recover_stale_web_events).
THEOREM SettledForGood == Spec => SettledStays
<1>1. IInv /\ [Next]_vars => [\A e \in Events : state[e] \in Settled => state'[e] = state[e]]_vars
  <2> SUFFICES ASSUME IInv, [Next]_vars, NEW e \in Events, state[e] \in Settled
               PROVE  state'[e] = state[e]
    OBVIOUS
  <2>0. TypeOK /\ HandsKnown
    BY DEF IInv
  <2>1. CASE UNCHANGED vars
    BY <2>1 DEF vars, queueVars
  <2>2. ASSUME NEW f \in Events, Receive(f) \/ Due(f) PROVE state'[e] = state[e]
    BY <2>0, <2>2 DEF Receive, Due, TypeOK, Settled
  <2>3. ASSUME NEW w \in Workers, Claim(w) PROVE state'[e] = state[e]
    <3>1. PICK f \in Events : /\ state[f] \in {"pending", "retry_wait"}
                              /\ state' = [state EXCEPT ![f] = "running"]
      BY <2>0, <2>3, ClaimEffect
    <3>. QED
      BY <2>0, <3>1 DEF TypeOK, Settled
  <2>4. ASSUME NEW w \in Workers, Look(w) \/ Send(w) \/ Record(w) \/ Locked(w) \/ Die(w)
        PROVE  state'[e] = state[e]
    BY <2>0, <2>4, LookEffect, SendEffect, RecordEffect, DropEffect DEF queueVars
  <2>5. ASSUME NEW w \in Workers, Finish(w) PROVE state'[e] = state[e]
    <3>1. \A f \in Events : state'[f] # state[f] => state[f] = "running"
      BY <2>0, <2>5, FinishEffect
    <3>. QED
      BY <3>1 DEF Settled
  <2>6. ASSUME NEW w \in Workers, Start(w) PROVE state'[e] = state[e]
    BY <2>6 DEF Start, Settled
  <2>. QED
    BY <2>1, <2>2, <2>3, <2>4, <2>5, <2>6 DEF Next, WorkerStep
<1>. QED
  BY <1>1, Invariance, PTL DEF Spec, SettledStays
=============================================================================
