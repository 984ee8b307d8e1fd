----------------------------- MODULE LaunchFence -----------------------------
(***************************************************************************)
(* What the ledger of assignments knows of the worker leases: whether the  *)
(* fence of a launch is up. A launch waits for its device, has it, may     *)
(* have it back after its lease ran out as long as nobody else took it,    *)
(* and is out for good once it was replaced or its process has ended.      *)
(*                                                                         *)
(* AssignmentLedger takes its fences from here, and WorkerLease, with its  *)
(* rows, tokens and clock values, implements them.                         *)
(***************************************************************************)
CONSTANTS
  Launches,   \* started workers, each one with a claim of its own
  HostOf      \* the device of a launch, a function

VARIABLE fence

Fences == {"waiting", "active", "lapsed", "out"}

FenceInit == fence = [l \in Launches |-> "waiting"]

\* A launch is given its device when no lease of the device is live; who had
\* it before is out. The claim may have come so late that the lease it is
\* given has run out already.
Grant(l) ==
  /\ fence[l] = "waiting"
  /\ \A m \in Launches : HostOf[m] = HostOf[l] => fence[m] # "active"
  /\ \E s \in {"active", "lapsed"} :
       fence' = [m \in Launches |->
                   IF m = l THEN s
                   ELSE IF HostOf[m] = HostOf[l] /\ fence[m] = "lapsed" THEN "out"
                   ELSE fence[m]]

\* Leases run out, those of several devices at one moment.
Lapse(S) ==
  /\ \A l \in S : fence[l] = "active"
  /\ fence' = [l \in Launches |-> IF l \in S THEN "lapsed" ELSE fence[l]]

\* A heartbeat that was late in the queue for the database renews what ran
\* out meanwhile.
Revive(l) ==
  /\ fence[l] = "lapsed"
  /\ fence' = [fence EXCEPT ![l] = "active"]

\* The worker process is over.
End(l) ==
  /\ fence[l] \in {"active", "lapsed"}
  /\ fence' = [fence EXCEPT ![l] = "out"]

FenceNext ==
  \/ \E l \in Launches : Grant(l) \/ Revive(l) \/ End(l)
  \/ \E S \in SUBSET Launches : Lapse(S)

FenceSpec == FenceInit /\ [][FenceNext]_fence

\* Of the launches of a device at most one can ever act on it again.
OneInForce ==
  \A l, m \in Launches :
    l # m /\ HostOf[l] = HostOf[m]
      => {fence[l], fence[m]} \cap {"waiting", "out"} # {}

=============================================================================
