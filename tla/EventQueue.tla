----------------------------- MODULE EventQueue -----------------------------
(***************************************************************************)
(* The queue of inbound messages of business accounts and its workers.     *)
(*                                                                         *)
(* The webhook stores a message as an event (api.py, db.py).  A worker     *)
(* claims the oldest event that is due, answers it through the business    *)
(* messaging service, records the answer and finishes the event            *)
(* (web_worker.py).  A worker that starts puts every running event back,   *)
(* those of workers still alive included; events carry no owner and no     *)
(* lease, and a worker finishes its event by the event's id.               *)
(*                                                                         *)
(* The events are the messages of one conversation, in the order of their  *)
(* timestamps.                                                             *)
(***************************************************************************)
EXTENDS Integers, FiniteSets

CONSTANTS Workers,     \* worker threads and processes on the database
          Events,      \* messages, 1..N
          MaxAttempts, \* max_attempts of finish_web_event
          Limit,       \* answers allowed since an inbound message
          MaxFaults    \* bound: times a worker dies or meets a locked database

ASSUME QueueAssumption ==
    /\ IsFiniteSet(Events) /\ Events = 1..Cardinality(Events)
    /\ IsFiniteSet(Workers)
    /\ MaxAttempts \in Nat \ {0}
    /\ Limit \in Nat \ {0}
    /\ MaxFaults \in Nat

VARIABLES state,    \* web_events.state, "none" before the event is stored
          attempts, \* web_events.attempts
          resting,  \* events whose next_attempt_at is still to come
          since,    \* answers on record when each message came
          rows,     \* outbound web_messages of the conversation
          replied,  \* messages with an outbound web_message in reply to them
          worker,   \* what each worker is doing
          faults,   \* bound: faults so far
          out,      \* history: answers the participant received to each message
          orphaned, \* history: events dropped between an answer and its record
          shared,   \* history: events put back while a live worker had them
          misjudged \* history: messages whose answer arrived though it was refused

queueVars == <<state, attempts, resting>>
logVars   == <<since, rows, replied>>
histVars  == <<out, orphaned, shared, misjudged>>
vars == <<queueVars, logVars, worker, faults, histVars>>

-----------------------------------------------------------------------------
States == {"none", "pending", "running", "retry_wait", "completed", "failed"}
Settled == {"completed", "failed"}
WorkerPcs == {"down", "idle", "taken", "writing", "told", "finishing"}

\* How the worker will finish its event: done, for another attempt, or for good.
Endings == {"done", "again", "final"}

Down == [pc |-> "down", e |-> 0, end |-> "done"]
Idle == [pc |-> "idle", e |-> 0, end |-> "done"]

TypeOK ==
    /\ state \in [Events -> States]
    /\ attempts \in [Events -> Nat]
    /\ resting \subseteq {e \in Events : state[e] = "retry_wait"}
    /\ since \in [Events -> Nat]
    /\ rows \in Nat
    /\ replied \subseteq Events
    /\ worker \in [Workers -> [pc: WorkerPcs, e: {0} \cup Events, end: Endings]]
    /\ faults \in 0..MaxFaults
    /\ out \in [Events -> Nat]
    /\ orphaned \subseteq Events
    /\ shared \subseteq Events
    /\ misjudged \subseteq Events

Init ==
    /\ state = [e \in Events |-> "none"]
    /\ attempts = [e \in Events |-> 0]
    /\ resting = {}
    /\ since = [e \in Events |-> 0] /\ rows = 0 /\ replied = {}
    /\ worker = [w \in Workers |-> Down]
    /\ faults = 0
    /\ out = [e \in Events |-> 0]
    /\ orphaned = {} /\ shared = {} /\ misjudged = {}

-----------------------------------------------------------------------------
\* The webhook stores the next message; one that is delivered again is ignored.
Receive(e) ==
    /\ state[e] = "none"
    /\ \A f \in 1..e - 1 : state[f] # "none"
    /\ state' = [state EXCEPT ![e] = "pending"]
    /\ since' = [since EXCEPT ![e] = rows]
    /\ UNCHANGED <<attempts, resting, rows, replied, worker, faults, histVars>>

\* MUTANT: an event is tried once only.
WaitingNew == {e \in Events : state[e] = "pending"}
\* MUTANT: the next attempt does not wait.
WaitingHasty == {e \in Events : state[e] \in {"pending", "retry_wait"}}

Waiting == {e \in Events : state[e] \in {"pending", "retry_wait"}} \ resting

\* claim_web_event: the oldest event that is due.
Claim(w) ==
    /\ worker[w].pc = "idle"
    /\ \E e \in Waiting :
         /\ \A f \in Waiting : e <= f
         /\ state' = [state EXCEPT ![e] = "running"]
         /\ attempts' = [attempts EXCEPT ![e] = @ + 1]
         /\ worker' = [worker EXCEPT ![w] = [pc |-> "taken", e |-> e, end |-> "done"]]
    /\ UNCHANGED <<resting, logVars, faults, histVars>>

\* The next attempt comes due.
Due(e) ==
    /\ e \in resting
    /\ resting' = resting \ {e}
    /\ UNCHANGED <<state, attempts, logVars, worker, faults, histVars>>

Ending(w, end) == [worker EXCEPT ![w].pc = "finishing", ![w].end = end]

Answered(e) == e \in replied

\* MUTANT: off by one.
FullLate(e) == rows - since[e] > Limit
Full(e) == rows - since[e] >= Limit

\* _handle_dm up to the draft: an answered message is done; a conversation with
\* too many answers since the message is given up.
Look(w) ==
    LET e == worker[w].e IN
    /\ worker[w].pc = "taken"
    /\ worker' = CASE Answered(e) -> Ending(w, "done")
                   [] ~Answered(e) /\ Full(e) -> Ending(w, "final")
                   [] OTHER -> [worker EXCEPT ![w].pc = "writing"]
    /\ UNCHANGED <<queueVars, logVars, faults, histVars>>

\* An answer the service may or may not have delivered is not tried again.
\* MUTANT: it is treated like a refusal.
AfterUnclearRetried == "again"

AfterUnclear == "final"

\* BusinessMessagingClient.send_text, the draft before it included: the service
\* names the message it sent, or it is not known whether it sent one, or it
\* reports an error (a gateway's error may come after the answer has left).
Send(w) ==
    LET e == worker[w].e
        delivered == out' = [out EXCEPT ![e] = @ + 1]
    IN  /\ worker[w].pc = "writing"
        /\ \/ /\ delivered
              /\ worker' = [worker EXCEPT ![w].pc = "told"]
              /\ UNCHANGED misjudged
           \/ /\ delivered \/ UNCHANGED out
              /\ worker' = Ending(w, AfterUnclear)
              /\ UNCHANGED misjudged
           \/ /\ worker' = Ending(w, "again")
              /\ \/ UNCHANGED <<out, misjudged>>
                 \/ delivered /\ misjudged' = misjudged \cup {e}
        /\ UNCHANGED <<queueVars, logVars, faults, orphaned, shared>>

\* append_web_message of the answer, with the id the service gave it. The message
\* is marked as read then: the service's errors are passed over, any other error
\* asks for another attempt, with the answer on record.
Record(w) ==
    LET e == worker[w].e IN
    /\ worker[w].pc = "told"
    /\ rows' = rows + 1
    /\ replied' = replied \cup {e}
    /\ \E end \in {"done", "again"} : worker' = Ending(w, end)
    /\ UNCHANGED <<queueVars, since, faults, histVars>>

\* MUTANT: whatever state the event is in.
MineAlways(e) == TRUE
Mine(e) == state[e] = "running"

\* finish_web_event, by id: only a running event changes.
Finish(w) ==
    LET e   == worker[w].e
        end == worker[w].end
        next == CASE end = "done" -> "completed"
                  [] end = "final" \/ attempts[e] >= MaxAttempts -> "failed"
                  [] OTHER -> "retry_wait"
    IN  /\ worker[w].pc = "finishing"
        /\ IF Mine(e)
           THEN /\ state' = [state EXCEPT ![e] = next]
                /\ resting' = IF next = "retry_wait" THEN resting \cup {e} ELSE resting
           ELSE UNCHANGED <<state, resting>>
        /\ worker' = [worker EXCEPT ![w] = Idle]
        /\ UNCHANGED <<attempts, logVars, faults, histVars>>

-----------------------------------------------------------------------------
(* Faults                                                                  *)

\* Its answer may have left and is not on record.
Unrecorded(w) ==
    \/ worker[w].pc = "told"
    \/ /\ worker[w].pc = "finishing" /\ worker[w].end # "done"
       /\ ~Answered(worker[w].e)

\* The event a worker drops stays running.
Drop(w, next) ==
    /\ faults < MaxFaults
    /\ faults' = faults + 1
    /\ worker' = [worker EXCEPT ![w] = next]
    /\ orphaned' = IF Unrecorded(w) THEN orphaned \cup {worker[w].e} ELSE orphaned
    /\ UNCHANGED <<queueVars, logVars, out, shared, misjudged>>

\* The database is locked for longer than a step waits: run_web_queue goes on
\* with the next event.
Locked(w) == worker[w].pc \in {"taken", "told", "finishing"} /\ Drop(w, Idle)

Die(w) == worker[w].pc # "down" /\ Drop(w, Down)

Held == {worker[w].e : w \in Workers}

\* run_web_queue starts with recover_stale_web_events.
Start(w) ==
    LET running == {e \in Events : state[e] = "running"} IN
    /\ worker[w].pc = "down"
    /\ state' = [e \in Events |-> IF e \in running THEN "retry_wait" ELSE state[e]]
    /\ worker' = [worker EXCEPT ![w] = Idle]
    /\ shared' = shared \cup (running \cap Held)
    /\ UNCHANGED <<attempts, resting, logVars, faults, out, orphaned, misjudged>>

WorkerStep(w) == Claim(w) \/ Look(w) \/ Send(w) \/ Record(w) \/ Finish(w)

Next ==
    \/ \E e \in Events : Receive(e) \/ Due(e)
    \/ \E w \in Workers : WorkerStep(w) \/ Locked(w) \/ Die(w) \/ Start(w)

Spec == Init /\ [][Next]_vars

FairSpec ==
    /\ Spec
    /\ \A w \in Workers : WF_vars(WorkerStep(w)) /\ WF_vars(Start(w))
    /\ \A e \in Events : WF_vars(Due(e))

-----------------------------------------------------------------------------
(* Properties                                                              *)

\* A message is answered twice only if its worker dropped it between the answer
\* and the record of it, or another worker started meanwhile, or the answer
\* arrived although the service reported an error (recover_stale_web_events,
\* _handle_dm).
AnsweredTwiceExplained ==
    \A e \in Events : out[e] > 1 => e \in orphaned \cup shared \cup misjudged

Newest(e) == state[e] # "none" /\ \A f \in Events : f > e => state[f] = "none"

\* The conversation exceeds the limit since its newest message by no more than
\* one answer for each further worker: each has counted before the others
\* recorded (outbound_web_message_count_since).
WindowKept ==
    \A e \in Events : Newest(e) => rows - since[e] <= Limit + Cardinality(Workers) - 1

\* A settled event stays as it is, whatever a worker that lost it does later
\* (finish_web_event by id, recover_stale_web_events).
SettledStays ==
    [][\A e \in Events : state[e] \in Settled => state'[e] = state[e]]_vars

\* Every message is settled at last, unless a worker has dropped it and goes on:
\* then it waits for a worker to start (run_web_queue).
SettledAtLast ==
    \A e \in Events :
        state[e] = "pending" ~>
            (state[e] \in Settled \/ (state[e] = "running" /\ e \notin Held))

-----------------------------------------------------------------------------
(* The inductive invariant of the safety properties.                       *)

\* A worker that is down or idle has no event, any other has one.
HandsKnown ==
    \A w \in Workers : IF worker[w].pc \in {"down", "idle"}
                       THEN worker[w].e = 0 ELSE worker[w].e \in Events

\* An event that no start has put back under a worker is running as long as a
\* worker has it, and one worker has it.
HeldAlone ==
    \A e \in Events \ shared : \A w \in Workers : worker[w].e = e =>
        /\ state[e] = "running"
        /\ \A v \in Workers : worker[v].e = e => v = w

\* A worker whose step after the answer keeps a second one away.
Vouches(w) == \/ worker[w].pc = "told"
              \/ worker[w].pc = "finishing" /\ worker[w].end = "final"

\* Apart from the three exceptions a message has one answer, which is on record,
\* or its event is settled, or its worker is about to do either.
AnswerKept ==
    \A e \in Events \ (orphaned \cup shared \cup misjudged) :
        /\ out[e] \in {0, 1}
        /\ out[e] = 1 => \/ e \in replied \/ state[e] \in Settled
                         \/ \E w \in Workers : worker[w].e = e /\ Vouches(w)
        /\ \A w \in Workers : worker[w].e = e /\ worker[w].pc = "writing" => out[e] = 0

\* Messages are stored in their order, and the answers on record only grow.
StoredInOrder ==
    \A e, f \in Events : e <= f /\ state[f] # "none" =>
        state[e] # "none" /\ since[e] <= since[f] /\ since[f] <= rows

\* What a worker has is stored.
HeldStored == \A w \in Workers : worker[w].e # 0 => state[worker[w].e] # "none"

\* Workers that have counted the answers and not yet recorded their own.
Counted == {w \in Workers : worker[w].pc \in {"writing", "told"}}

\* The answers on record since the newest message, with those to come.
WindowCounted ==
    \A e \in Events : Newest(e) =>
        rows - since[e] + Cardinality(Counted) <= Limit + Cardinality(Workers) - 1

IInv ==
    /\ TypeOK
    /\ HandsKnown
    /\ HeldAlone
    /\ AnswerKept
    /\ StoredInOrder
    /\ HeldStored
    /\ WindowCounted
=============================================================================
