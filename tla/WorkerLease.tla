----------------------------- MODULE WorkerLease -----------------------------
(***************************************************************************)
(* The worker leases of the mobile fleet: table device_worker_leases, the  *)
(* per-device counters device_worker_fence_counters, the supervisor's      *)
(* lease guard thread that renews a lease, and the worker process that     *)
(* checks its fence before and after every operation on the phone.         *)
(*                                                                         *)
(* Every repository call is one SQLite transaction and one action here.    *)
(* Its argument now_ms was read earlier: the supervisor's reading is       *)
(* beat[l], the worker's is check[l], and any number of other steps, of    *)
(* the clock too, may come between the reading and the transaction.        *)
(***************************************************************************)
EXTENDS Naturals

CONSTANTS
  Devices,    \* phones
  Accounts,   \* TikTok accounts
  Owners,     \* values of owner_id; owner_factory may repeat one
  Launches,   \* worker launches, each of them claims a lease of its own
  DeviceOf,   \* [Launches -> Devices]
  AccountOf,  \* [Launches -> Accounts]
  OwnerOf,    \* [Launches -> Owners]
  LeaseTTL,   \* ttl_ms
  MaxTime,    \* bound on the clock
  NoRow       \* a device without a row in device_worker_leases

ASSUME LaunchAssumption ==
  /\ DeviceOf \in [Launches -> Devices]
  /\ AccountOf \in [Launches -> Accounts]
  /\ OwnerOf \in [Launches -> Owners]

ASSUME TimeAssumption ==
  /\ LeaseTTL \in Nat \ {0}
  /\ MaxTime \in Nat \ {0}

Unread == 0   \* no clock value is held; the clock starts at 1

\* The schema's UNIQUE(account_id) is left out: that no two rows have an account
\* is shown of the claim query alone.
Row == [account : Accounts, owner : Owners, token : Nat, expires : Nat]

ASSUME NoRowAssumption == NoRow \notin Row /\ NoRow \notin Accounts

VARIABLES
  now,        \* the clock all processes of the host share
  lease,      \* device_worker_leases, by device_id
  lastToken,  \* device_worker_fence_counters.last_token
  token,      \* the fence token a launch was given, 0 before its claim
  life,       \* the supervisor's side of a launch
  child,      \* the worker process of a launch
  beat,       \* clock value read by the supervisor for its next call
  check       \* clock value read by the worker for its next fence check

vars == <<now, lease, lastToken, token, life, child, beat, check>>

Lives == {"new", "held", "lost", "closed"}
Children == {"none", "idle", "busy", "dead"}

TypeOK ==
  /\ now \in Nat \ {0}
  /\ lease \in [Devices -> Row \cup {NoRow}]
  /\ lastToken \in [Devices -> Nat]
  /\ token \in [Launches -> Nat]
  /\ life \in [Launches -> Lives]
  /\ child \in [Launches -> Children]
  /\ beat \in [Launches -> Nat]
  /\ check \in [Launches -> Nat]

Init ==
  /\ now = 1
  /\ lease = [d \in Devices |-> NoRow]
  /\ lastToken = [d \in Devices |-> 0]
  /\ token = [l \in Launches |-> 0]
  /\ life = [l \in Launches |-> "new"]
  /\ child = [l \in Launches |-> "none"]
  /\ beat = [l \in Launches |-> Unread]
  /\ check = [l \in Launches |-> Unread]

-----------------------------------------------------------------------------
(* The clauses of the SQL statements. *)

RowOf(l) == lease[DeviceOf[l]]

\* MUTANT: the token column is not compared.
MatchesAnyToken(l) ==
  /\ RowOf(l) # NoRow
  /\ RowOf(l).account = AccountOf[l]
  /\ RowOf(l).owner = OwnerOf[l]

\* The row a launch's credentials name: device, account, owner and token.
Matches(l) ==
  /\ RowOf(l) # NoRow
  /\ RowOf(l).account = AccountOf[l]
  /\ RowOf(l).owner = OwnerOf[l]
  /\ RowOf(l).token = token[l]

Live(d, t) == lease[d] # NoRow /\ lease[d].expires > t

\* MUTANT: only the device's own row is looked at.
RivalsOnDevice(l) == {d \in Devices : lease[d] # NoRow /\ d = DeviceOf[l]}

\* The rows a claim looks at: those of its device and of its account.
Rivals(l) ==
  {d \in Devices : /\ lease[d] # NoRow
                   /\ d = DeviceOf[l] \/ lease[d].account = AccountOf[l]}

\* The rows among them the DELETE leaves, at the clock value the claim holds.
Conflicts(l) == {d \in Rivals(l) : Live(d, beat[l])}

Purged(l) ==
  [d \in Devices |-> IF d \in Rivals(l) \ Conflicts(l) THEN NoRow ELSE lease[d]]

-----------------------------------------------------------------------------
(* The supervisor: claim, launch, heartbeat, termination, release. *)

Tick ==
  /\ now < MaxTime
  /\ now' = now + 1
  /\ UNCHANGED <<lease, lastToken, token, life, child, beat, check>>

ReadBeat(l) ==
  /\ life[l] \in {"new", "held"}
  /\ beat[l] = Unread
  /\ beat' = [beat EXCEPT ![l] = now]
  /\ UNCHANGED <<now, lease, lastToken, token, life, child, check>>

\* MUTANT: the counter runs backwards.
NextTokenDown(l) == lastToken[DeviceOf[l]] - 1

NextToken(l) == lastToken[DeviceOf[l]] + 1

ClaimGranted(l) ==
  /\ life[l] = "new" /\ beat[l] # Unread
  /\ Conflicts(l) = {}
  /\ lastToken' = [lastToken EXCEPT ![DeviceOf[l]] = NextToken(l)]
  /\ token' = [token EXCEPT ![l] = NextToken(l)]
  /\ lease' = [Purged(l) EXCEPT ![DeviceOf[l]] =
                 [account |-> AccountOf[l], owner |-> OwnerOf[l],
                  token |-> NextToken(l), expires |-> beat[l] + LeaseTTL]]
  /\ life' = [life EXCEPT ![l] = "held"]
  /\ beat' = [beat EXCEPT ![l] = Unread]
  /\ UNCHANGED <<now, child, check>>

\* A refused claim still deletes the expired rows it met. The supervisor
\* records the device unhealthy and the fleet loop starts it again later.
ClaimRefused(l) ==
  /\ life[l] = "new" /\ beat[l] # Unread
  /\ Conflicts(l) # {}
  /\ lease' = Purged(l)
  /\ beat' = [beat EXCEPT ![l] = Unread]
  /\ UNCHANGED <<now, lastToken, token, life, child, check>>

Renew(l) ==
  /\ life[l] = "held" /\ beat[l] # Unread
  /\ Matches(l) /\ Live(DeviceOf[l], beat[l])
  /\ lease' = [lease EXCEPT ![DeviceOf[l]].expires = beat[l] + LeaseTTL]
  /\ beat' = [beat EXCEPT ![l] = Unread]
  /\ UNCHANGED <<now, lastToken, token, life, child, check>>

\* The guard thread marks the lease lost and stops renewing. The process is
\* terminated afterwards and may go on for a while.
RenewFails(l) ==
  /\ life[l] = "held" /\ beat[l] # Unread
  /\ ~(Matches(l) /\ Live(DeviceOf[l], beat[l]))
  /\ life' = [life EXCEPT ![l] = "lost"]
  /\ beat' = [beat EXCEPT ![l] = Unread]
  /\ UNCHANGED <<now, lease, lastToken, token, child, check>>

Launch(l) ==
  /\ life[l] \in {"held", "lost"} /\ child[l] = "none"
  /\ child' = [child EXCEPT ![l] = "idle"]
  /\ UNCHANGED <<now, lease, lastToken, token, life, beat, check>>

\* stop(), a lost lease or the child's own exit end the process.
EndChild(l) ==
  /\ life[l] \in {"held", "lost"} /\ child[l] \in {"idle", "busy"}
  /\ child' = [child EXCEPT ![l] = "dead"]
  /\ check' = [check EXCEPT ![l] = Unread]
  /\ UNCHANGED <<now, lease, lastToken, token, life, beat>>

\* The guard thread is stopped first; a row that is no longer this launch's
\* is left alone.
Release(l) ==
  /\ life[l] \in {"held", "lost"} /\ child[l] \in {"none", "dead"}
  /\ lease' = IF Matches(l) THEN [lease EXCEPT ![DeviceOf[l]] = NoRow]
              ELSE lease
  /\ life' = [life EXCEPT ![l] = "closed"]
  /\ beat' = [beat EXCEPT ![l] = Unread]
  /\ UNCHANGED <<now, lastToken, token, child, check>>

\* The supervisor is killed: nobody renews or releases, the child lives on.
Crash(l) ==
  /\ life[l] \in {"held", "lost"}
  /\ life' = [life EXCEPT ![l] = "closed"]
  /\ beat' = [beat EXCEPT ![l] = Unread]
  /\ UNCHANGED <<now, lease, lastToken, token, child, check>>

-----------------------------------------------------------------------------
(* The worker process: DeviceWorkerFence around every device operation. *)

\* MUTANT: the fence is the owner's, whatever token it holds.
FenceActiveByOwner(l) == MatchesAnyToken(l) /\ Live(DeviceOf[l], check[l])

FenceActive(l) == Matches(l) /\ Live(DeviceOf[l], check[l])

ReadCheck(l) ==
  /\ child[l] \in {"idle", "busy"} /\ check[l] = Unread
  /\ check' = [check EXCEPT ![l] = now]
  /\ UNCHANGED <<now, lease, lastToken, token, life, child, beat>>

BeginOp(l) ==
  /\ child[l] = "idle" /\ check[l] # Unread
  /\ FenceActive(l)
  /\ child' = [child EXCEPT ![l] = "busy"]
  /\ check' = [check EXCEPT ![l] = Unread]
  /\ UNCHANGED <<now, lease, lastToken, token, life, beat>>

AcceptOp(l) ==
  /\ child[l] = "busy" /\ check[l] # Unread
  /\ FenceActive(l)
  /\ child' = [child EXCEPT ![l] = "idle"]
  /\ check' = [check EXCEPT ![l] = Unread]
  /\ UNCHANGED <<now, lease, lastToken, token, life, beat>>

\* DeviceWorkerLeaseLost leaves the worker loop, before or after the
\* operation: the process ends and the operation's result is dropped.
FenceLost(l) ==
  /\ child[l] \in {"idle", "busy"} /\ check[l] # Unread
  /\ ~FenceActive(l)
  /\ child' = [child EXCEPT ![l] = "dead"]
  /\ check' = [check EXCEPT ![l] = Unread]
  /\ UNCHANGED <<now, lease, lastToken, token, life, beat>>

Supervise(l) ==
  \/ ReadBeat(l) \/ ClaimGranted(l) \/ ClaimRefused(l)
  \/ Renew(l) \/ RenewFails(l) \/ Launch(l) \/ EndChild(l) \/ Release(l)

Work(l) == ReadCheck(l) \/ BeginOp(l) \/ AcceptOp(l) \/ FenceLost(l)

Next == Tick \/ \E l \in Launches : Supervise(l) \/ Crash(l) \/ Work(l)

Spec == Init /\ [][Next]_vars

-----------------------------------------------------------------------------
(* Properties. *)

\* An account is held through one device at a time: two rows never carry the
\* same account, whatever stale clock values their claims arrived with and
\* without the help of the schema's constraint.
AccountExclusive ==
  \A d, e \in Devices :
    d # e /\ lease[d] # NoRow /\ lease[e] # NoRow
      => lease[d].account # lease[e].account

\* A fence token names one launch of a device for ever, although rows are
\* deleted by releases and by later claims and owner ids may repeat.
TokensNameLaunches ==
  \A l, m \in Launches :
    l # m /\ DeviceOf[l] = DeviceOf[m] /\ token[l] # 0 => token[l] # token[m]

\* A lease that has not expired is never given to another launch: as long as
\* the clock has not reached its expiry the row keeps its token, unless the
\* launch that holds that token closes in this very step.
NoSteal ==
  [][\A d \in Devices :
       Live(d, now) /\ (lease'[d] = NoRow \/ lease'[d].token # lease[d].token)
         => \E l \in Launches :
              /\ DeviceOf[l] = d /\ token[l] = lease[d].token
              /\ life'[l] = "closed" /\ life[l] # "closed"]_vars

\* A device operation whose result the worker accepts was exclusive: between
\* its first and its second fence check no other launch was given the device.
AcceptedOpExclusive ==
  [][\A l \in Launches :
       child[l] = "busy" /\ child'[l] = "idle"
         => lastToken[DeviceOf[l]] = token[l]]_vars

\* The leases implement the seats and tickets of FencedTenancy.
Tenancy == INSTANCE FencedTenancy WITH
  Vacant <- NoRow,
  seat <- [d \in Devices |-> IF lease[d] = NoRow THEN NoRow ELSE lease[d].account],
  epoch <- lastToken,
  ticket <- token,
  working <- {l \in Launches : child[l] = "busy"}

ImplementsTenancy == Tenancy!TenancySpec

\* The fence of a launch: a later claim or the end of its process puts it out,
\* and between them its row, which names it, is live or is not.
FenceOf(l) ==
  IF life[l] = "new" THEN "waiting"
  ELSE IF child[l] = "dead" \/ token[l] # lastToken[DeviceOf[l]] THEN "out"
  ELSE IF Matches(l) /\ Live(DeviceOf[l], now) THEN "active" ELSE "lapsed"

FenceTable == [l \in Launches |-> FenceOf(l)]

\* The leases implement the fences AssignmentLedger takes from LaunchFence.
Fencing == INSTANCE LaunchFence WITH HostOf <- DeviceOf, fence <- FenceTable

ImplementsFence == Fencing!FenceSpec

-----------------------------------------------------------------------------
(* The inductive invariant of the proofs. *)

\* A launch without a claim has no token, and no token exceeds its counter.
TokensIssued ==
  \A l \in Launches :
    /\ token[l] <= lastToken[DeviceOf[l]]
    /\ life[l] = "new" => token[l] = 0

\* A row carries the last token of its device.
RowIsLatest ==
  \A d \in Devices : lease[d] # NoRow => lease[d].token = lastToken[d]

\* A clock value that is held was read in the past.
BeatIsPast == \A l \in Launches : beat[l] <= now

\* A launch has a token from its claim on, and no process before it.
ClaimedFirst ==
  \A l \in Launches :
    /\ life[l] = "new" => child[l] = "none"
    /\ life[l] # "new" => token[l] # 0

IInv ==
  /\ TypeOK /\ ClaimedFirst /\ TokensIssued /\ RowIsLatest /\ BeatIsPast
  /\ AccountExclusive /\ TokensNameLaunches

=============================================================================
