----------------------------- MODULE BatchBarrier -----------------------------
(***************************************************************************)
(* What the priority queue promises, without rows, leases or identities:   *)
(* batches stand in a line, a device takes up work only in the round whose *)
(* turn it is, and the parent round is both the last one to get a turn and *)
(* the last one to be done.                                                *)
(***************************************************************************)
EXTENDS Sequences, Naturals

CONSTANTS
  Devices,   \* phones
  Batches,   \* priority batches
  Parent,    \* the ordinary round they interrupt
  Idle       \* a device without an assignment

VARIABLES
  line,      \* the batches in the order of their submission
  done,      \* rounds that are over
  at         \* the round of the assignment a device works on, or Idle

barrierVars == <<line, done, at>>

BarrierInit ==
  /\ line = <<>>
  /\ done = {}
  /\ at = [d \in Devices |-> Idle]

InLine == {line[i] : i \in DOMAIN line}

\* Every batch submitted before r is done; the parent waits for all of them.
HasTurn(r) ==
  \/ r = Parent /\ InLine \subseteq done
  \/ \E i \in DOMAIN line : r = line[i] /\ \A j \in 1..(i - 1) : line[j] \in done

\* Rounds that are done stay done; the parent is done after the batches.
MayFinish ==
  /\ done \subseteq done'
  /\ done' \subseteq InLine \cup {Parent}
  /\ Parent \in done' => InLine \subseteq done'

Submit(b) ==
  /\ b \notin InLine /\ Parent \notin done
  /\ line' = Append(line, b)
  /\ done' \in {done, done \cup {b}}
  /\ UNCHANGED at

Start(d, r) ==
  /\ at[d] = Idle
  /\ r \notin done /\ HasTurn(r)
  /\ at' = [at EXCEPT ![d] = r]
  /\ UNCHANGED <<line, done>>

Leave(d) ==
  /\ at[d] # Idle
  /\ at' = [at EXCEPT ![d] = Idle]
  /\ MayFinish
  /\ UNCHANGED line

Finish ==
  /\ MayFinish
  /\ UNCHANGED <<line, at>>

BarrierNext ==
  \/ \E b \in Batches : Submit(b)
  \/ \E d \in Devices : Leave(d) \/ \E r \in Batches \cup {Parent} : Start(d, r)
  \/ Finish

BarrierSpec == BarrierInit /\ [][BarrierNext]_barrierVars

=============================================================================
