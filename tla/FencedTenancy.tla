---------------------------- MODULE FencedTenancy ----------------------------
(***************************************************************************)
(* What the fleet's worker leases promise, without clocks, owners or rows: *)
(* a device is a room with one seat, every new tenant gets a ticket with   *)
(* the next number, and a piece of work counts only when the ticket that   *)
(* was current when it began is still current when it ends.                *)
(***************************************************************************)
EXTENDS Naturals

CONSTANTS
  Devices,    \* phones
  Accounts,   \* TikTok accounts logged in on them
  Launches,   \* started worker processes, each one with a fresh claim
  DeviceOf,   \* [Launches -> Devices]
  AccountOf,  \* [Launches -> Accounts]
  Vacant      \* the seat of a device nobody holds, no account

VARIABLES
  seat,       \* the account a device is held for, or Vacant
  epoch,      \* the number of the last ticket issued for a device
  ticket,     \* the ticket of a launch, 0 before it has one
  working     \* launches with a device operation in flight

tenancyVars == <<seat, epoch, ticket, working>>

TenancyInit ==
  /\ seat = [d \in Devices |-> Vacant]
  /\ epoch = [d \in Devices |-> 0]
  /\ ticket = [l \in Launches |-> 0]
  /\ working = {}

\* The launch whose ticket is the last one its device has issued.
Current(l) ==
  /\ seat[DeviceOf[l]] # Vacant
  /\ ticket[l] = epoch[DeviceOf[l]]

\* A launch takes the seat of its device; whoever held the device or the
\* account before has lost both.
Grant(l) ==
  /\ ticket[l] = 0
  /\ epoch' = [epoch EXCEPT ![DeviceOf[l]] = @ + 1]
  /\ ticket' = [ticket EXCEPT ![l] = epoch[DeviceOf[l]] + 1]
  /\ seat' = [d \in Devices |->
                IF d = DeviceOf[l] THEN AccountOf[l]
                ELSE IF seat[d] = AccountOf[l] THEN Vacant
                ELSE seat[d]]
  /\ UNCHANGED working

Vacate(d) ==
  /\ seat' = [seat EXCEPT ![d] = Vacant]
  /\ UNCHANGED <<epoch, ticket, working>>

Begin(l) ==
  /\ Current(l)
  /\ working' = working \cup {l}
  /\ UNCHANGED <<seat, epoch, ticket>>

\* A result is accepted only from the tenant the device has now.
Accept(l) ==
  /\ l \in working
  /\ Current(l)
  /\ working' = working \ {l}
  /\ UNCHANGED <<seat, epoch, ticket>>

Discard(l) ==
  /\ working' = working \ {l}
  /\ UNCHANGED <<seat, epoch, ticket>>

TenancyNext ==
  \/ \E l \in Launches : Grant(l) \/ Begin(l) \/ Accept(l) \/ Discard(l)
  \/ \E d \in Devices : Vacate(d)

TenancySpec == TenancyInit /\ [][TenancyNext]_tenancyVars

=============================================================================
