-------------------------- MODULE WorkerLeaseProofs --------------------------
(***************************************************************************)
(* Theorems about WorkerLease, for every set of devices, accounts, owners  *)
(* and launches, every binding of launches and every lease duration.       *)
(***************************************************************************)
EXTENDS WorkerLease, TLAPS

-----------------------------------------------------------------------------
(* Type correctness. *)

\* The initial state is well typed.
LEMMA InitTypeOK == Init => TypeOK
BY TimeAssumption DEF Init, TypeOK, Lives, Children, Unread

\* The rows a claim leaves behind are rows.
LEMMA PurgedType ==
  ASSUME TypeOK, NEW l \in Launches
  PROVE  Purged(l) \in [Devices -> Row \cup {NoRow}]
BY DEF TypeOK, Purged

\* No call of the supervisor or of a worker leaves the types of its columns.
LEMMA StepTypeOK == TypeOK /\ [Next]_vars => TypeOK'
<1> SUFFICES ASSUME TypeOK, [Next]_vars
             PROVE  TypeOK'
  OBVIOUS
<1> USE LaunchAssumption, TimeAssumption DEF TypeOK
<1>1. CASE UNCHANGED vars
  BY <1>1 DEF vars
<1>2. CASE Tick
  BY <1>2 DEF Tick
<1>3. ASSUME NEW l \in Launches, Supervise(l)
      PROVE  TypeOK'
  <2>1. CASE ReadBeat(l)
    BY <2>1 DEF ReadBeat
  <2>2. CASE ClaimGranted(l)
    <3>1. NextToken(l) \in Nat
      BY DEF NextToken
    <3>2. [account |-> AccountOf[l], owner |-> OwnerOf[l],
           token |-> NextToken(l), expires |-> beat[l] + LeaseTTL] \in Row
      BY <3>1 DEF Row
    <3>3. lease' \in [Devices -> Row \cup {NoRow}]
      BY <2>2, <3>2, PurgedType DEF ClaimGranted
    <3>. QED
      BY <2>2, <3>1, <3>3 DEF ClaimGranted, Lives, Unread
  <2>3. CASE ClaimRefused(l)
    BY <2>3, PurgedType DEF ClaimRefused, Unread
  <2>4. CASE Renew(l)
    <3>1. lease[DeviceOf[l]] \in Row
      BY <2>4 DEF Renew, Matches, RowOf
    <3>2. [lease[DeviceOf[l]] EXCEPT !.expires = beat[l] + LeaseTTL] \in Row
      BY <3>1 DEF Row
    <3>3. lease' \in [Devices -> Row \cup {NoRow}]
      BY <2>4, <3>2 DEF Renew
    <3>. QED
      BY <2>4, <3>3 DEF Renew, Unread
  <2>5. CASE RenewFails(l)
    BY <2>5 DEF RenewFails, Lives, Unread
  <2>6. CASE Launch(l)
    BY <2>6 DEF Launch, Children
  <2>7. CASE EndChild(l)
    BY <2>7 DEF EndChild, Children, Unread
  <2>8. CASE Release(l)
    BY <2>8 DEF Release, Lives, Unread
  <2>. QED
    BY <1>3, <2>1, <2>2, <2>3, <2>4, <2>5, <2>6, <2>7, <2>8 DEF Supervise
<1>4. ASSUME NEW l \in Launches, Crash(l)
      PROVE  TypeOK'
  BY <1>4 DEF Crash, Lives, Unread
<1>5. ASSUME NEW l \in Launches, Work(l)
      PROVE  TypeOK'
  <2>1. CASE ReadCheck(l)
    BY <2>1 DEF ReadCheck
  <2>2. CASE BeginOp(l)
    BY <2>2 DEF BeginOp, Children, Unread
  <2>3. CASE AcceptOp(l)
    BY <2>3 DEF AcceptOp, Children, Unread
  <2>4. CASE FenceLost(l)
    BY <2>4 DEF FenceLost, Children, Unread
  <2>. QED
    BY <1>5, <2>1, <2>2, <2>3, <2>4 DEF Work
<1>. QED
  BY <1>1, <1>2, <1>3, <1>4, <1>5 DEF Next

\* Every reachable state is well typed.
THEOREM TypeCorrect == Spec => []TypeOK
BY InitTypeOK, StepTypeOK, PTL DEF Spec

-----------------------------------------------------------------------------
(* The inductive invariant. *)

\* Without a row and without a token the invariant holds.
LEMMA InitIInv == Init => IInv
<1> SUFFICES ASSUME Init
             PROVE  IInv
  OBVIOUS
<1>1. TypeOK
  BY InitTypeOK
<1>2. ClaimedFirst /\ TokensIssued /\ RowIsLatest /\ BeatIsPast
  BY LaunchAssumption
  DEF Init, ClaimedFirst, TokensIssued, RowIsLatest, BeatIsPast, Unread
<1>3. AccountExclusive /\ TokensNameLaunches
  BY DEF Init, AccountExclusive, TokensNameLaunches
<1>. QED
  BY <1>1, <1>2, <1>3 DEF IInv

\* What a claim leaves behind: no row that is not there, and nothing live.
LEMMA PurgedRows ==
  ASSUME TypeOK, NEW l \in Launches, NEW d \in Devices
  PROVE  /\ Purged(l)[d] \in {NoRow, lease[d]}
         /\ Conflicts(l) = {} /\ lease[d] # NoRow
              /\ (d = DeviceOf[l] \/ lease[d].account = AccountOf[l])
            => Purged(l)[d] = NoRow
         /\ lease[d] # NoRow /\ Purged(l)[d] = NoRow
            => /\ d = DeviceOf[l] \/ lease[d].account = AccountOf[l]
               /\ ~ Live(d, beat[l])
BY DEF Purged, Rivals, Conflicts

\* The state after a granted claim.
LEMMA Granted ==
  ASSUME IInv, NEW l \in Launches, ClaimGranted(l), NEW d \in Devices
  PROVE  /\ DeviceOf[l] \in Devices
         /\ NextToken(l) \in Nat /\ NextToken(l) = lastToken[DeviceOf[l]] + 1
         /\ d # DeviceOf[l] =>
              /\ lease'[d] \in {NoRow, lease[d]}
              /\ lastToken'[d] = lastToken[d]
              /\ lease'[d] # NoRow => lease'[d].account # AccountOf[l]
         /\ d = DeviceOf[l] =>
              /\ lease'[d] # NoRow
              /\ lease'[d].account = AccountOf[l]
              /\ lease'[d].token = NextToken(l)
              /\ lastToken'[d] = NextToken(l)
<1> DEFINE row == [account |-> AccountOf[l], owner |-> OwnerOf[l],
                   token |-> NextToken(l), expires |-> beat[l] + LeaseTTL]
<1> USE LaunchAssumption, TimeAssumption
<1>1. TypeOK /\ Conflicts(l) = {}
  BY DEF IInv, ClaimGranted
<1>2. DeviceOf[l] \in Devices /\ NextToken(l) \in Nat
  BY <1>1 DEF TypeOK, NextToken
<1>3. row \in Row
  BY <1>1, <1>2 DEF Row, TypeOK
<1>4. row # NoRow
  BY <1>3, NoRowAssumption
<1>5. lastToken'[d] = IF d = DeviceOf[l] THEN NextToken(l) ELSE lastToken[d]
  BY <1>1 DEF ClaimGranted, TypeOK
<1>6. lease'[d] = IF d = DeviceOf[l] THEN row ELSE Purged(l)[d]
  BY <1>1, PurgedType DEF ClaimGranted
<1>7. CASE d = DeviceOf[l]
  BY <1>2, <1>4, <1>5, <1>6, <1>7 DEF NextToken
<1>8. CASE d # DeviceOf[l]
  <2>1. Purged(l)[d] \in {NoRow, lease[d]}
    BY <1>1, PurgedRows
  <2>2. lease[d] # NoRow /\ lease[d].account = AccountOf[l]
          => Purged(l)[d] = NoRow
    BY <1>1, PurgedRows
  <2>. QED
    BY <1>2, <1>5, <1>6, <1>8, <2>1, <2>2 DEF NextToken
<1>. QED
  BY <1>7, <1>8

\* Processes are started after the claim, and the claim brings a token.
LEMMA ClaimedStep ==
  ASSUME TypeOK, ClaimedFirst, [Next]_vars
  PROVE  ClaimedFirst'
<1> USE LaunchAssumption DEF TypeOK, ClaimedFirst
<1>1. CASE UNCHANGED vars
  BY <1>1 DEF vars
<1>2. CASE Tick
  BY <1>2 DEF Tick
<1>3. ASSUME NEW l \in Launches, ClaimGranted(l)
      PROVE  ClaimedFirst'
  <2>1. NextToken(l) # 0
    BY DEF NextToken
  <2>. QED
    BY <1>3, <2>1 DEF ClaimGranted
<1>4. ASSUME NEW l \in Launches, ReadBeat(l) \/ ClaimRefused(l) \/ Renew(l)
      PROVE  ClaimedFirst'
  BY <1>4 DEF ReadBeat, ClaimRefused, Renew
<1>5. ASSUME NEW l \in Launches, RenewFails(l) \/ Release(l) \/ Crash(l)
      PROVE  ClaimedFirst'
  BY <1>5 DEF RenewFails, Release, Crash
<1>6. ASSUME NEW l \in Launches, Launch(l) \/ EndChild(l) \/ Work(l)
      PROVE  ClaimedFirst'
  BY <1>6 DEF Launch, EndChild, Work, ReadCheck, BeginOp, AcceptOp, FenceLost
<1>. QED
  BY <1>1, <1>2, <1>3, <1>4, <1>5, <1>6 DEF Next, Supervise

\* The transaction of claim_device_worker_lease keeps the invariant: the new
\* token exceeds all of the device, and no other row has the account.
LEMMA GrantedIInv ==
  ASSUME IInv, TypeOK', ClaimedFirst', NEW l \in Launches, ClaimGranted(l)
  PROVE  IInv'
<1> USE LaunchAssumption
<1>0. TypeOK /\ TypeOK'
  BY DEF IInv
<1>1. /\ DeviceOf[l] \in Devices
      /\ NextToken(l) \in Nat /\ NextToken(l) = lastToken[DeviceOf[l]] + 1
  BY Granted, LaunchAssumption
<1>2. \A m \in Launches : token'[m] = IF m = l THEN NextToken(l) ELSE token[m]
  BY <1>0 DEF ClaimGranted, TypeOK
<1>3. TokensIssued'
  <2> SUFFICES ASSUME NEW m \in Launches
               PROVE  /\ token'[m] <= lastToken'[DeviceOf[m]]
                      /\ life'[m] = "new" => token'[m] = 0
    BY DEF TokensIssued
  <2>1. token[m] <= lastToken[DeviceOf[m]] /\ (life[m] = "new" => token[m] = 0)
    BY DEF IInv, TokensIssued
  <2>2. lastToken'[DeviceOf[m]] =
          IF DeviceOf[m] = DeviceOf[l] THEN NextToken(l) ELSE lastToken[DeviceOf[m]]
    BY Granted
  <2>3. life'[m] = IF m = l THEN "held" ELSE life[m]
    BY <1>0 DEF ClaimGranted, TypeOK
  <2>. QED
    BY <1>0, <1>1, <1>2, <2>1, <2>2, <2>3 DEF TypeOK
<1>4. RowIsLatest'
  <2> SUFFICES ASSUME NEW d \in Devices, lease'[d] # NoRow
               PROVE  lease'[d].token = lastToken'[d]
    BY DEF RowIsLatest
  <2>. QED
    BY Granted DEF IInv, RowIsLatest
<1>5. BeatIsPast'
  <2> SUFFICES ASSUME NEW m \in Launches
               PROVE  beat'[m] <= now'
    BY DEF BeatIsPast
  <2>. QED
    BY <1>0 DEF IInv, BeatIsPast, ClaimGranted, TypeOK, Unread
<1>6. AccountExclusive'
  <2> SUFFICES ASSUME NEW d \in Devices, NEW e \in Devices, d # e,
                      lease'[d] # NoRow, lease'[e] # NoRow
               PROVE  lease'[d].account # lease'[e].account
    BY DEF AccountExclusive
  <2>. QED
    BY Granted DEF IInv, AccountExclusive
<1>7. TokensNameLaunches'
  <2> SUFFICES ASSUME NEW m \in Launches, NEW n \in Launches, m # n,
                      DeviceOf[m] = DeviceOf[n], token'[m] # 0
               PROVE  token'[m] # token'[n]
    BY DEF TokensNameLaunches
  <2>1. token[m] <= lastToken[DeviceOf[m]] /\ token[n] <= lastToken[DeviceOf[n]]
    BY DEF IInv, TokensIssued
  <2>2. token[m] # 0 => token[m] # token[n]
    BY DEF IInv, TokensNameLaunches
  <2>. QED
    BY <1>0, <1>1, <1>2, <2>1, <2>2 DEF TypeOK
<1>. QED
  BY <1>0, <1>3, <1>4, <1>5, <1>6, <1>7 DEF IInv

\* Rows that only disappear, with no token, life or counter touched but for a
\* launch that leaves "new", keep the invariant.
LEMMA ShrinkIInv ==
  ASSUME IInv, TypeOK', ClaimedFirst',
         \A d \in Devices : lease'[d] \in {NoRow, lease[d]},
         UNCHANGED <<now, lastToken, token>>,
         \A l \in Launches : life'[l] = "new" => life[l] = "new",
         \A l \in Launches : beat'[l] \in {0, now, beat[l]}
  PROVE  IInv'
<1>1. TypeOK
  BY DEF IInv
<1>2. TokensIssued'
  BY DEF IInv, TokensIssued
<1>3. RowIsLatest'
  BY DEF IInv, RowIsLatest
<1>4. BeatIsPast'
  BY <1>1 DEF IInv, BeatIsPast, TypeOK
<1>5. AccountExclusive' /\ TokensNameLaunches'
  BY DEF IInv, AccountExclusive, TokensNameLaunches
<1>. QED
  BY <1>2, <1>3, <1>4, <1>5 DEF IInv

\* A renewal changes nothing of a row but its expiry.
LEMMA RenewedRow ==
  ASSUME TypeOK, NEW l \in Launches, Renew(l), NEW d \in Devices
  PROVE  /\ lease'[d] = NoRow <=> lease[d] = NoRow
         /\ lease[d] # NoRow => /\ lease'[d].account = lease[d].account
                                /\ lease'[d].token = lease[d].token
<1> USE LaunchAssumption, TimeAssumption
<1>1. lease[DeviceOf[l]] \in Row
  BY DEF Renew, Matches, RowOf, TypeOK
<1>2. CASE d = DeviceOf[l]
  <2>1. lease'[d] = [lease[d] EXCEPT !.expires = beat[l] + LeaseTTL]
    BY <1>2 DEF Renew, TypeOK
  <2>2. lease'[d] \in Row
    BY <1>1, <1>2, <2>1 DEF Row, TypeOK
  <2>. QED
    BY <1>1, <1>2, <2>1, <2>2, NoRowAssumption DEF Row
<1>3. CASE d # DeviceOf[l]
  BY <1>3 DEF Renew, TypeOK
<1>. QED
  BY <1>2, <1>3

\* Every step of a supervisor, of a worker and of the clock keeps the invariant.
LEMMA StepIInv == IInv /\ [Next]_vars => IInv'
<1> SUFFICES ASSUME IInv, [Next]_vars
             PROVE  IInv'
  OBVIOUS
<1>0. TypeOK /\ TypeOK' /\ ClaimedFirst'
  BY StepTypeOK, ClaimedStep DEF IInv
<1>1. CASE UNCHANGED vars
  BY <1>0, <1>1, ShrinkIInv DEF vars
<1>2. CASE Tick
  <2>1. BeatIsPast'
    BY <1>0, <1>2 DEF Tick, IInv, BeatIsPast, TypeOK
  <2>2. TokensIssued' /\ RowIsLatest'
    BY <1>2 DEF Tick, IInv, TokensIssued, RowIsLatest
  <2>3. AccountExclusive' /\ TokensNameLaunches'
    BY <1>2 DEF Tick, IInv, AccountExclusive, TokensNameLaunches
  <2>. QED
    BY <1>0, <2>1, <2>2, <2>3 DEF IInv
<1>3. ASSUME NEW l \in Launches, Supervise(l)
      PROVE  IInv'
  <2>1. CASE ReadBeat(l)
    BY <1>0, <2>1, ShrinkIInv DEF ReadBeat, TypeOK
  <2>2. CASE ClaimGranted(l)
    BY <1>0, <2>2, GrantedIInv
  <2>3. CASE ClaimRefused(l)
    <3>1. \A d \in Devices : lease'[d] \in {NoRow, lease[d]}
      BY <1>0, <2>3, PurgedRows DEF ClaimRefused
    <3>. QED
      BY <1>0, <2>3, <3>1, ShrinkIInv DEF ClaimRefused, TypeOK, Unread
  <2>4. CASE Renew(l)
    <3>0. \A d \in Devices :
             /\ lease'[d] = NoRow <=> lease[d] = NoRow
             /\ lease[d] # NoRow => /\ lease'[d].account = lease[d].account
                                    /\ lease'[d].token = lease[d].token
      BY <1>0, <2>4, RenewedRow
    <3>a. lastToken' = lastToken
      BY <2>4 DEF Renew
    <3>1. RowIsLatest' /\ AccountExclusive'
      BY <3>0, <3>a DEF IInv, RowIsLatest, AccountExclusive
    <3>2. TokensIssued' /\ TokensNameLaunches'
      BY <2>4 DEF Renew, IInv, TokensIssued, TokensNameLaunches
    <3>3. BeatIsPast'
      BY <1>0, <2>4 DEF Renew, IInv, BeatIsPast, TypeOK, Unread
    <3>. QED
      BY <1>0, <3>1, <3>2, <3>3 DEF IInv
  <2>5. CASE RenewFails(l)
    BY <1>0, <2>5, ShrinkIInv DEF RenewFails, TypeOK, Unread
  <2>6. CASE Launch(l)
    BY <1>0, <2>6, ShrinkIInv DEF Launch
  <2>7. CASE EndChild(l)
    BY <1>0, <2>7, ShrinkIInv DEF EndChild
  <2>8. CASE Release(l)
    <3>1. \A d \in Devices : lease'[d] \in {NoRow, lease[d]}
      BY <1>0, <2>8 DEF Release, TypeOK
    <3>. QED
      BY <1>0, <2>8, <3>1, ShrinkIInv DEF Release, TypeOK, Unread
  <2>. QED
    BY <1>3, <2>1, <2>2, <2>3, <2>4, <2>5, <2>6, <2>7, <2>8 DEF Supervise
<1>4. ASSUME NEW l \in Launches, Crash(l)
      PROVE  IInv'
  BY <1>0, <1>4, ShrinkIInv DEF Crash, TypeOK, Unread
<1>5. ASSUME NEW l \in Launches, Work(l)
      PROVE  IInv'
  BY <1>0, <1>5, ShrinkIInv
     DEF Work, ReadCheck, BeginOp, AcceptOp, FenceLost
<1>. QED
  BY <1>1, <1>2, <1>3, <1>4, <1>5 DEF Next

\* In every reachable state tokens are issued once and in order, a row carries
\* the last token of its device, and no two rows carry one account.
THEOREM Invariance == Spec => []IInv
BY InitIInv, StepIInv, PTL DEF Spec

\* No two devices are ever leased for one account.
THEOREM AccountsExclusive == Spec => []AccountExclusive
<1>1. IInv => AccountExclusive
  BY DEF IInv
<1>. QED
  BY <1>1, Invariance, PTL

\* A fence token is never issued twice for a device.
THEOREM TokensUnique == Spec => []TokensNameLaunches
<1>1. IInv => TokensNameLaunches
  BY DEF IInv
<1>. QED
  BY <1>1, Invariance, PTL

-----------------------------------------------------------------------------
(* Action properties. *)

\* A live lease changes hands only through the end of the launch it names.
LEMMA StepNoSteal ==
  ASSUME IInv, [Next]_vars, NEW d \in Devices, Live(d, now),
         lease'[d] = NoRow \/ lease'[d].token # lease[d].token
  PROVE  \E l \in Launches :
           /\ DeviceOf[l] = d /\ token[l] = lease[d].token
           /\ life'[l] = "closed" /\ life[l] # "closed"
<1>0. TypeOK /\ BeatIsPast
  BY DEF IInv
<1>1. lease[d] # NoRow /\ lease[d] \in Row /\ lease[d].expires > now /\ now \in Nat
      /\ lease[d].expires \in Nat
  BY <1>0 DEF Live, TypeOK, Row
<1>2. lease' # lease
  BY <1>1
<1>3. ASSUME NEW l \in Launches
      PROVE  Live(d, beat[l])
  BY <1>0, <1>1 DEF Live, BeatIsPast, TypeOK
<1>4. ASSUME NEW l \in Launches
      PROVE  /\ Purged(l)[d] = lease[d]
             /\ d = DeviceOf[l] => Conflicts(l) # {}
  BY <1>0, <1>1, <1>3, PurgedRows DEF Conflicts, Rivals
<1>5. PICK l \in Launches : ClaimGranted(l) \/ ClaimRefused(l) \/ Renew(l) \/ Release(l)
  BY <1>2 DEF Next, vars, Supervise, Work, Tick, ReadBeat, RenewFails, Launch,
              EndChild, Crash, ReadCheck, BeginOp, AcceptOp, FenceLost
<1>6. CASE ClaimGranted(l)
  <2>1. d # DeviceOf[l]
    BY <1>4, <1>6 DEF ClaimGranted
  <2>2. lease'[d] = Purged(l)[d]
    BY <1>0, <1>6, <2>1, PurgedType DEF ClaimGranted
  <2>. QED
    BY <1>1, <1>4, <2>2
<1>7. CASE ClaimRefused(l)
  BY <1>1, <1>4, <1>7 DEF ClaimRefused
<1>8. CASE Renew(l)
  BY <1>0, <1>1, <1>8, RenewedRow
<1>9. CASE Release(l)
  <2>1. Matches(l) /\ d = DeviceOf[l]
    BY <1>0, <1>1, <1>9 DEF Release, TypeOK
  <2>2. life'[l] = "closed" /\ life[l] # "closed"
    BY <1>0, <1>9 DEF Release, TypeOK
  <2>. QED
    BY <2>1, <2>2 DEF Matches, RowOf
<1>. QED
  BY <1>5, <1>6, <1>7, <1>8, <1>9

\* A lease that has not expired is never taken from its launch.
THEOREM LeasesNotStolen == Spec => NoSteal
<1>1. IInv /\ [Next]_vars =>
        [\A d \in Devices :
           Live(d, now) /\ (lease'[d] = NoRow \/ lease'[d].token # lease[d].token)
             => \E l \in Launches :
                  /\ DeviceOf[l] = d /\ token[l] = lease[d].token
                  /\ life'[l] = "closed" /\ life[l] # "closed"]_vars
  BY StepNoSteal
<1>. QED
  BY <1>1, Invariance, PTL DEF Spec, NoSteal

\* Whoever matches a row holds the last token of its device.
LEMMA MatchIsLatest ==
  ASSUME IInv, NEW l \in Launches, Matches(l)
  PROVE  token[l] = lastToken[DeviceOf[l]]
BY LaunchAssumption DEF IInv, RowIsLatest, Matches, RowOf

\* The result of a device operation is accepted only if no other launch was
\* given the device since the operation began.
THEOREM AcceptedOpsExclusive == Spec => AcceptedOpExclusive
<1>1. ASSUME IInv, [Next]_vars, NEW l \in Launches,
             child[l] = "busy", child'[l] = "idle"
      PROVE  lastToken[DeviceOf[l]] = token[l]
  <2>0. TypeOK
    BY <1>1 DEF IInv
  <2>1. child' # child
    BY <1>1
  <2>2. PICK m \in Launches : \/ Launch(m) \/ EndChild(m) \/ BeginOp(m)
                              \/ AcceptOp(m) \/ FenceLost(m)
    BY <1>1, <2>1 DEF Next, vars, Supervise, Work, Tick, ReadBeat, ClaimGranted,
         ClaimRefused, Renew, RenewFails, Release, Crash, ReadCheck
  <2>3. m = l /\ AcceptOp(m)
    BY <1>1, <2>0, <2>2 DEF TypeOK, Launch, EndChild, BeginOp, AcceptOp, FenceLost
  <2>. QED
    BY <1>1, <2>3, MatchIsLatest DEF AcceptOp, FenceActive
<1>2. IInv /\ [Next]_vars =>
        [\A l \in Launches :
           child[l] = "busy" /\ child'[l] = "idle"
             => lastToken[DeviceOf[l]] = token[l]]_vars
  BY <1>1
<1>. QED
  BY <1>2, Invariance, PTL DEF Spec, AcceptedOpExclusive

-----------------------------------------------------------------------------
(* Refinement. *)

\* The seat of FencedTenancy as a function of the rows.
SeatOf(rows) == [d \in Devices |-> IF rows[d] = NoRow THEN NoRow ELSE rows[d].account]

BusyIn(c) == {l \in Launches : c[l] = "busy"}

\* Empty lease tables are vacant seats.
LEMMA InitTenancy == Init => Tenancy!TenancyInit
BY DEF Init, Tenancy!TenancyInit

\* Only these four change what a tenancy sees.
LEMMA TenancyStutter ==
  ASSUME SeatOf(lease') = SeatOf(lease), BusyIn(child') = BusyIn(child),
         UNCHANGED <<lastToken, token>>
  PROVE  UNCHANGED Tenancy!tenancyVars
BY DEF SeatOf, BusyIn, Tenancy!tenancyVars

\* A granted claim takes the seat of its device, and the one its account had.
LEMMA GrantRefines ==
  ASSUME IInv, NEW l \in Launches, ClaimGranted(l)
  PROVE  Tenancy!Grant(l)
<1> USE LaunchAssumption
<1>0. TypeOK
  BY DEF IInv
<1>1. token[l] = 0
  BY DEF IInv, TokensIssued, ClaimGranted
<1>2. /\ lastToken' = [lastToken EXCEPT ![DeviceOf[l]] = lastToken[DeviceOf[l]] + 1]
      /\ token' = [token EXCEPT ![l] = lastToken[DeviceOf[l]] + 1]
  BY DEF ClaimGranted, NextToken
<1>3. ASSUME NEW d \in Devices
      PROVE  (IF lease'[d] = NoRow THEN NoRow ELSE lease'[d].account)
             = IF d = DeviceOf[l] THEN AccountOf[l]
               ELSE IF SeatOf(lease)[d] = AccountOf[l] THEN NoRow
               ELSE SeatOf(lease)[d]
  <2>1. CASE d = DeviceOf[l]
    BY <2>1, Granted
  <2>2. CASE d # DeviceOf[l]
    <3>1. lease'[d] = Purged(l)[d]
      BY <1>0, <2>2, PurgedType DEF ClaimGranted
    <3>2. Conflicts(l) = {}
      BY DEF ClaimGranted
    <3>3. SeatOf(lease)[d] = IF lease[d] = NoRow THEN NoRow ELSE lease[d].account
      BY DEF SeatOf
    <3>4. AccountOf[l] # NoRow
      BY NoRowAssumption
    <3>5. CASE lease[d] = NoRow
      BY <1>0, <2>2, <3>1, <3>3, <3>4, <3>5, PurgedRows
    <3>6. CASE lease[d] # NoRow /\ lease[d].account = AccountOf[l]
      BY <1>0, <2>2, <3>1, <3>2, <3>3, <3>6, PurgedRows
    <3>7. CASE lease[d] # NoRow /\ lease[d].account # AccountOf[l]
      <4>1. lease'[d] = lease[d]
        BY <1>0, <2>2, <3>1, <3>7, PurgedRows
      <4>. QED
        BY <2>2, <3>3, <3>7, <4>1
    <3>. QED
      BY <3>5, <3>6, <3>7
  <2>. QED
    BY <2>1, <2>2
<1>4. SeatOf(lease') = [d \in Devices |->
                          IF d = DeviceOf[l] THEN AccountOf[l]
                          ELSE IF SeatOf(lease)[d] = AccountOf[l] THEN NoRow
                          ELSE SeatOf(lease)[d]]
  BY <1>3 DEF SeatOf
<1>5. child' = child
  BY DEF ClaimGranted
<1>. QED
  BY <1>1, <1>2, <1>4, <1>5 DEF Tenancy!Grant, SeatOf

\* A step that deletes the row of one device vacates its seat.
LEMMA RemovalRefines ==
  ASSUME TypeOK, NEW e \in Devices,
         \A d \in Devices : lease'[d] = IF d = e THEN NoRow ELSE lease[d],
         UNCHANGED <<lastToken, token, child>>
  PROVE  Tenancy!Vacate(e)
<1>1. SeatOf(lease') = [SeatOf(lease) EXCEPT ![e] = NoRow]
  BY DEF SeatOf
<1>. QED
  BY <1>1 DEF Tenancy!Vacate, SeatOf

\* A refused claim deletes at most one row: one of the two rivals there can
\* be is live.
LEMMA RefusalRefines ==
  ASSUME IInv, NEW l \in Launches, ClaimRefused(l)
  PROVE  (\E d \in Devices : Tenancy!Vacate(d)) \/ UNCHANGED Tenancy!tenancyVars
<1> USE LaunchAssumption
<1>0. TypeOK /\ AccountExclusive
  BY DEF IInv
<1>1. UNCHANGED <<lastToken, token, child>> /\ lease' = Purged(l)
  BY DEF ClaimRefused
<1>2. \A d \in Devices : lease'[d] \in {NoRow, lease[d]}
  BY <1>0, <1>1, PurgedRows
<1>3. ASSUME NEW d \in Devices, NEW e \in Devices,
             lease'[d] # lease[d], lease'[e] # lease[e]
      PROVE  d = e
  <2>1. PICK c \in Devices : c \in Conflicts(l)
    BY DEF ClaimRefused, Conflicts, Rivals
  <2>2. /\ lease[c] # NoRow /\ Live(c, beat[l])
        /\ c = DeviceOf[l] \/ lease[c].account = AccountOf[l]
    BY <2>1 DEF Conflicts, Rivals
  <2>3. /\ lease[d] # NoRow /\ ~Live(d, beat[l])
        /\ d = DeviceOf[l] \/ lease[d].account = AccountOf[l]
    BY <1>0, <1>1, <1>2, <1>3, PurgedRows
  <2>4. /\ lease[e] # NoRow /\ ~Live(e, beat[l])
        /\ e = DeviceOf[l] \/ lease[e].account = AccountOf[l]
    BY <1>0, <1>1, <1>2, <1>3, PurgedRows
  <2>5. c # d /\ c # e
    BY <2>2, <2>3, <2>4
  <2>. QED
    BY <1>0, <2>2, <2>3, <2>4, <2>5 DEF AccountExclusive
<1>4. CASE \E e \in Devices : lease'[e] # lease[e]
  <2>1. PICK e \in Devices : lease'[e] # lease[e]
    BY <1>4
  <2>2. \A d \in Devices : lease'[d] = IF d = e THEN NoRow ELSE lease[d]
    BY <1>2, <1>3, <2>1
  <2>. QED
    BY <1>0, <1>1, <2>2, RemovalRefines
<1>5. CASE \A e \in Devices : lease'[e] = lease[e]
  <2>1. SeatOf(lease') = SeatOf(lease)
    BY <1>5 DEF SeatOf
  <2>. QED
    BY <1>1, <2>1, TenancyStutter
<1>. QED
  BY <1>4, <1>5

\* Every step of WorkerLease is a step of FencedTenancy or leaves it alone.
LEMMA StepRefines ==
  ASSUME IInv, [Next]_vars
  PROVE  Tenancy!TenancyNext \/ UNCHANGED Tenancy!tenancyVars
<1> USE LaunchAssumption
<1>0. TypeOK
  BY DEF IInv
<1>1. CASE UNCHANGED vars
  BY <1>1, TenancyStutter DEF vars
<1>2. CASE Tick
  BY <1>2, TenancyStutter DEF Tick
<1>3. ASSUME NEW l \in Launches, Supervise(l)
      PROVE  Tenancy!TenancyNext \/ UNCHANGED Tenancy!tenancyVars
  <2>1. CASE ReadBeat(l)
    BY <2>1, TenancyStutter DEF ReadBeat
  <2>2. CASE ClaimGranted(l)
    BY <2>2, GrantRefines DEF Tenancy!TenancyNext
  <2>3. CASE ClaimRefused(l)
    BY <2>3, RefusalRefines DEF Tenancy!TenancyNext
  <2>4. CASE Renew(l)
    <3>1. SeatOf(lease') = SeatOf(lease)
      BY <1>0, <2>4, RenewedRow DEF SeatOf
    <3>. QED
      BY <2>4, <3>1, TenancyStutter DEF Renew
  <2>5. CASE RenewFails(l)
    BY <2>5, TenancyStutter DEF RenewFails
  <2>6. CASE Launch(l)
    <3>1. BusyIn(child') = BusyIn(child)
      BY <1>0, <2>6 DEF Launch, BusyIn, TypeOK
    <3>. QED
      BY <2>6, <3>1, TenancyStutter DEF Launch
  <2>7. CASE EndChild(l)
    <3>1. BusyIn(child') = BusyIn(child) \ {l}
      BY <1>0, <2>7 DEF EndChild, BusyIn, TypeOK
    <3>2. Tenancy!Discard(l)
      BY <2>7, <3>1 DEF EndChild, Tenancy!Discard, BusyIn
    <3>. QED
      BY <3>2 DEF Tenancy!TenancyNext
  <2>8. CASE Release(l)
    <3>1. CASE Matches(l)
      <4>1. \A d \in Devices :
              lease'[d] = IF d = DeviceOf[l] THEN NoRow ELSE lease[d]
        BY <1>0, <2>8, <3>1 DEF Release, TypeOK
      <4>2. Tenancy!Vacate(DeviceOf[l])
        BY <1>0, <2>8, <4>1, RemovalRefines DEF Release
      <4>. QED
        BY <4>2 DEF Tenancy!TenancyNext
    <3>2. CASE ~Matches(l)
      BY <2>8, <3>2, TenancyStutter DEF Release
    <3>. QED
      BY <3>1, <3>2
  <2>. QED
    BY <1>3, <2>1, <2>2, <2>3, <2>4, <2>5, <2>6, <2>7, <2>8 DEF Supervise
<1>4. ASSUME NEW l \in Launches, Crash(l)
      PROVE  UNCHANGED Tenancy!tenancyVars
  BY <1>4, TenancyStutter DEF Crash
<1>5. ASSUME NEW l \in Launches, Work(l)
      PROVE  Tenancy!TenancyNext \/ UNCHANGED Tenancy!tenancyVars
  <2>1. CASE ReadCheck(l)
    BY <2>1, TenancyStutter DEF ReadCheck
  <2>2. ASSUME Matches(l)
        PROVE  Tenancy!Current(l)
    <3>1. lease[DeviceOf[l]] \in Row /\ lease[DeviceOf[l]] # NoRow
      BY <1>0, <2>2 DEF Matches, RowOf, TypeOK
    <3>2. lease[DeviceOf[l]].account # NoRow
      BY <3>1, NoRowAssumption DEF Row
    <3>. QED
      BY <2>2, <3>1, <3>2, MatchIsLatest DEF Tenancy!Current
  <2>3. CASE BeginOp(l)
    <3>1. BusyIn(child') = BusyIn(child) \cup {l}
      BY <1>0, <2>3 DEF BeginOp, BusyIn, TypeOK
    <3>2. Tenancy!Begin(l)
      BY <2>2, <2>3, <3>1 DEF BeginOp, FenceActive, Tenancy!Begin, BusyIn
    <3>. QED
      BY <3>2 DEF Tenancy!TenancyNext
  <2>4. CASE AcceptOp(l)
    <3>1. BusyIn(child') = BusyIn(child) \ {l} /\ l \in BusyIn(child)
      BY <1>0, <2>4 DEF AcceptOp, BusyIn, TypeOK
    <3>2. Tenancy!Accept(l)
      BY <2>2, <2>4, <3>1 DEF AcceptOp, FenceActive, Tenancy!Accept, BusyIn
    <3>. QED
      BY <3>2 DEF Tenancy!TenancyNext
  <2>5. CASE FenceLost(l)
    <3>1. BusyIn(child') = BusyIn(child) \ {l}
      BY <1>0, <2>5 DEF FenceLost, BusyIn, TypeOK
    <3>2. Tenancy!Discard(l)
      BY <2>5, <3>1 DEF FenceLost, Tenancy!Discard, BusyIn
    <3>. QED
      BY <3>2 DEF Tenancy!TenancyNext
  <2>. QED
    BY <1>5, <2>1, <2>3, <2>4, <2>5 DEF Work
<1>. QED
  BY <1>1, <1>2, <1>3, <1>4, <1>5 DEF Next

\* The leases of the fleet implement one seat per device and numbered tickets.
THEOREM Refinement == Spec => ImplementsTenancy
<1>1. IInv /\ [Next]_vars => [Tenancy!TenancyNext]_(Tenancy!tenancyVars)
  BY StepRefines
<1>. QED
  BY <1>1, InitTenancy, Invariance, PTL DEF Spec, ImplementsTenancy, Tenancy!TenancySpec

-----------------------------------------------------------------------------
(* The fences of AssignmentLedger.                                         *)

\* The fence of a launch, before and after a step.
LEMMA FenceAt ==
  ASSUME NEW l \in Launches
  PROVE  FenceTable[l] = FenceOf(l) /\ FenceTable'[l] = FenceOf(l)'
BY DEF FenceTable

\* Two tables are the same when they agree on every launch.
LEMMA SameTable ==
  ASSUME \A l \in Launches : FenceOf(l)' = FenceOf(l)
  PROVE  FenceTable' = FenceTable
BY DEF FenceTable

\* A step that leaves clock, rows and tokens alone, claims nothing and ends no
\* process shows no fence anything.
LEMMA FenceStutter ==
  ASSUME UNCHANGED <<now, lease, lastToken, token>>,
         \A l \in Launches : life'[l] = "new" <=> life[l] = "new",
         \A l \in Launches : child'[l] = "dead" <=> child[l] = "dead"
  PROVE  FenceTable' = FenceTable
<1>1. \A l \in Launches : FenceOf(l)' = FenceOf(l)
  BY DEF FenceOf, Matches, RowOf, Live
<1>. QED
  BY <1>1, SameTable

\* The end of a process is the end of its fence, if it was not out before.
LEMMA FenceEnds ==
  ASSUME TypeOK, ClaimedFirst, NEW l \in Launches, child[l] \in {"idle", "busy"},
         child' = [child EXCEPT ![l] = "dead"],
         UNCHANGED <<now, lease, lastToken, token, life>>
  PROVE  Fencing!End(l) \/ FenceTable' = FenceTable
<1>1. ASSUME NEW m \in Launches, m # l
      PROVE  FenceOf(m)' = FenceOf(m)
  BY <1>1 DEF FenceOf, Matches, RowOf, Live, TypeOK
<1>2. FenceOf(l)' = "out" /\ FenceOf(l) \in {"active", "lapsed", "out"}
  BY DEF FenceOf, TypeOK, ClaimedFirst
<1>3. CASE FenceOf(l) = "out"
  BY <1>1, <1>2, <1>3, SameTable
<1>4. CASE FenceOf(l) # "out"
  <2>1. FenceTable' = [FenceTable EXCEPT ![l] = "out"]
    BY <1>1, <1>2 DEF FenceTable
  <2>. QED
    BY <1>2, <1>4, <2>1, FenceAt DEF Fencing!End
<1>. QED
  BY <1>3, <1>4

\* Fences that only lapse do so in one step.
LEMMA FencesLapse ==
  ASSUME \A l \in Launches :
           FenceOf(l)' = FenceOf(l) \/ (FenceOf(l) = "active" /\ FenceOf(l)' = "lapsed")
  PROVE  \E S \in SUBSET Launches : Fencing!Lapse(S)
<1> DEFINE S == {l \in Launches : FenceOf(l) = "active" /\ FenceOf(l)' = "lapsed"}
<1>1. \A l \in S : FenceTable[l] = "active"
  BY DEF FenceTable
<1>2. FenceTable' = [l \in Launches |-> IF l \in S THEN "lapsed" ELSE FenceTable[l]]
  BY DEF FenceTable
<1>3. Fencing!Lapse(S)
  BY <1>1, <1>2 DEF Fencing!Lapse
<1>. QED
  BY <1>3

\* Rows that are deleted when they have run out show no fence anything.
LEMMA FencesPurged ==
  ASSUME UNCHANGED <<now, lastToken, token, life, child>>,
         \A d \in Devices : lease'[d] = lease[d] \/ (lease'[d] = NoRow /\ ~Live(d, now))
  PROVE  FenceTable' = FenceTable
<1>1. ASSUME NEW l \in Launches
      PROVE  FenceOf(l)' = FenceOf(l)
  <2>1. DeviceOf[l] \in Devices
    BY LaunchAssumption
  <2>2. (Matches(l) /\ Live(DeviceOf[l], now))' <=> Matches(l) /\ Live(DeviceOf[l], now)
    BY <2>1 DEF Matches, RowOf, Live
  <2>. QED
    BY <2>2 DEF FenceOf
<1>. QED
  BY <1>1, SameTable

\* What a claim deletes has run out by now, since its clock value is older.
LEMMA PurgedAreOver ==
  ASSUME IInv, NEW l \in Launches, NEW d \in Devices
  PROVE  Purged(l)[d] = lease[d] \/ (Purged(l)[d] = NoRow /\ ~Live(d, now))
<1>1. TypeOK /\ beat[l] <= now
  BY DEF IInv, BeatIsPast
<1>2. CASE lease[d] = NoRow
  BY <1>1, <1>2, PurgedRows
<1>3. CASE lease[d] # NoRow
  <2>1. lease[d].expires \in Nat /\ beat[l] \in Nat /\ now \in Nat
    BY <1>1, <1>3 DEF TypeOK, Row
  <2>2. ~Live(d, beat[l]) => ~Live(d, now)
    BY <1>1, <2>1 DEF Live
  <2>. QED
    BY <1>1, <2>2, PurgedRows
<1>. QED
  BY <1>2, <1>3

\* The launch a row names is the only one it names.
LEMMA RowNamesOne ==
  ASSUME IInv, NEW l \in Launches, NEW m \in Launches, l # m,
         life[l] # "new", token[l] = token[m]
  PROVE  DeviceOf[l] # DeviceOf[m]
BY DEF IInv, ClaimedFirst, TokensNameLaunches

\* A grant finds no fence of the device up, and puts out what had lapsed.
LEMMA FenceGranted ==
  ASSUME IInv, NEW l \in Launches, ClaimGranted(l)
  PROVE  Fencing!Grant(l)
<1> USE LaunchAssumption
<1> DEFINE d == DeviceOf[l]
<1>0. TypeOK /\ d \in Devices
  BY DEF IInv
<1>1. /\ NextToken(l) \in Nat /\ NextToken(l) = lastToken[d] + 1
      /\ lastToken'[d] = NextToken(l) /\ token'[l] = NextToken(l)
      /\ life[l] = "new" /\ life'[l] = "held" /\ child'[l] = "none"
  <2>1. /\ NextToken(l) \in Nat /\ NextToken(l) = lastToken[d] + 1
        /\ lastToken'[d] = NextToken(l)
    BY <1>0, Granted
  <2>2. /\ token'[l] = NextToken(l) /\ life[l] = "new" /\ life'[l] = "held"
        /\ child' = child
    BY <1>0 DEF ClaimGranted, TypeOK
  <2>3. child[l] = "none"
    BY <2>2 DEF IInv, ClaimedFirst
  <2>. QED
    BY <2>1, <2>2, <2>3
<1>2. UNCHANGED <<now, child>>
  BY DEF ClaimGranted
<1>3. FenceOf(l) = "waiting" /\ FenceOf(l)' \in {"active", "lapsed"}
  BY <1>1 DEF FenceOf
<1>4. ASSUME NEW m \in Launches, DeviceOf[m] = d
      PROVE  FenceOf(m) # "active"
  <2>1. SUFFICES ASSUME Live(d, now)
                 PROVE  FALSE
    BY <1>4 DEF FenceOf
  <2>2. Purged(l)[d] = NoRow
    BY <1>0, <2>1, PurgedRows DEF ClaimGranted, Live
  <2>. QED
    BY <1>0, <2>1, <2>2, PurgedAreOver DEF Live
<1>5. ASSUME NEW m \in Launches, m # l
      PROVE  token'[m] = token[m] /\ life'[m] = life[m] /\ child'[m] = child[m]
  BY <1>0, <1>5 DEF ClaimGranted, TypeOK
<1>6. ASSUME NEW m \in Launches, m # l, DeviceOf[m] = d
      PROVE  FenceOf(m)' = IF FenceOf(m) = "lapsed" THEN "out" ELSE FenceOf(m)
  <2>1. token[m] \in Nat /\ token[m] <= lastToken[d] /\ lastToken[d] \in Nat
    BY <1>0, <1>6 DEF TypeOK, IInv, TokensIssued
  <2>2. token'[m] # lastToken'[d]
    BY <1>1, <1>5, <1>6, <2>1
  <2>. QED
    BY <1>4, <1>5, <1>6, <2>2 DEF FenceOf
<1>7. ASSUME NEW m \in Launches, DeviceOf[m] # d
      PROVE  FenceOf(m)' = FenceOf(m)
  <2> DEFINE e == DeviceOf[m]
  <2>1. e \in Devices
    OBVIOUS
  <2>2. lastToken'[e] = lastToken[e]
    BY <1>7, <2>1, Granted
  <2>3. lease'[e] = Purged(l)[e]
    BY <1>0, <1>7, <2>1, PurgedType DEF ClaimGranted
  <2>4. lease'[e] = lease[e] \/ (lease'[e] = NoRow /\ ~Live(e, now))
    BY <2>1, <2>3, PurgedAreOver
  <2>5. token'[m] = token[m] /\ life'[m] = life[m] /\ child'[m] = child[m]
    BY <1>5, <1>7
  <2>6. (Matches(m) /\ Live(e, now))' <=> Matches(m) /\ Live(e, now)
    BY <1>2, <2>4, <2>5 DEF Matches, RowOf, Live
  <2>. QED
    BY <2>2, <2>5, <2>6 DEF FenceOf
<1>8. FenceTable' = [m \in Launches |->
                       IF m = l THEN FenceOf(l)'
                       ELSE IF DeviceOf[m] = DeviceOf[l] /\ FenceTable[m] = "lapsed"
                       THEN "out" ELSE FenceTable[m]]
  BY <1>6, <1>7 DEF FenceTable
<1>9. FenceTable[l] = "waiting"
  BY <1>3, FenceAt
<1>10. \A m \in Launches : DeviceOf[m] = DeviceOf[l] => FenceTable[m] # "active"
  BY <1>4, FenceAt
<1>. QED
  BY <1>3, <1>8, <1>9, <1>10 DEF Fencing!Grant

\* The launches a step of launch l does not touch, when the row it touches is
\* its own.
LEMMA OthersKeepFence ==
  ASSUME IInv, NEW l \in Launches, Matches(l), life[l] # "new",
         UNCHANGED <<now, lastToken, token>>,
         \A d \in Devices : d # DeviceOf[l] => lease'[d] = lease[d],
         \/ lease'[DeviceOf[l]] = NoRow
         \/ lease'[DeviceOf[l]].token = lease[DeviceOf[l]].token,
         NEW m \in Launches, m # l, life'[m] = life[m], child'[m] = child[m]
  PROVE  FenceOf(m)' = FenceOf(m)
<1>1. DeviceOf[m] \in Devices
  BY LaunchAssumption
<1>2. CASE DeviceOf[m] # DeviceOf[l]
  BY <1>1, <1>2 DEF FenceOf, Matches, RowOf, Live
<1>3. CASE DeviceOf[m] = DeviceOf[l]
  <2>1. token[m] # token[l]
    BY <1>3, RowNamesOne
  <2>2. ~Matches(m) /\ ~Matches(m)'
    BY <1>3, <2>1 DEF Matches, RowOf
  <2>. QED
    BY <2>2 DEF FenceOf
<1>. QED
  BY <1>2, <1>3

\* A renewal brings a lapsed fence back, or leaves it, or comes too late.
LEMMA FenceRenewed ==
  ASSUME IInv, NEW l \in Launches, Renew(l)
  PROVE  \/ Fencing!Revive(l)
         \/ \E S \in SUBSET Launches : Fencing!Lapse(S)
<1> USE LaunchAssumption
<1>0. TypeOK /\ DeviceOf[l] \in Devices
  BY DEF IInv
<1>1. UNCHANGED <<now, lastToken, token, life, child>>
  BY DEF Renew
<1>2. Matches(l) /\ life[l] = "held"
  BY DEF Renew
<1>3. /\ lease[DeviceOf[l]] \in Row
      /\ lease' = [lease EXCEPT ![DeviceOf[l]].expires = beat[l] + LeaseTTL]
  BY <1>0, <1>2 DEF Renew, Matches, RowOf, TypeOK
<1>4. lease'[DeviceOf[l]].token = lease[DeviceOf[l]].token
  BY <1>0, <1>2, RenewedRow DEF Matches, RowOf
<1>5. \A d \in Devices : d # DeviceOf[l] => lease'[d] = lease[d]
  BY <1>0, <1>3 DEF TypeOK
<1>6. ASSUME NEW m \in Launches, m # l
      PROVE  FenceOf(m)' = FenceOf(m)
  BY <1>1, <1>2, <1>4, <1>5, <1>6, OthersKeepFence
<1>7. token[l] = lastToken[DeviceOf[l]]
  BY <1>2, MatchIsLatest
<1>8. \/ FenceOf(l)' = FenceOf(l)
      \/ FenceOf(l) = "active" /\ FenceOf(l)' = "lapsed"
      \/ FenceOf(l) = "lapsed" /\ FenceOf(l)' = "active"
  BY <1>1, <1>2, <1>7 DEF FenceOf
<1>9. CASE FenceOf(l) = "lapsed" /\ FenceOf(l)' = "active"
  <2>1. FenceTable' = [FenceTable EXCEPT ![l] = "active"]
    BY <1>6, <1>9 DEF FenceTable
  <2>. QED
    BY <1>9, <2>1, FenceAt DEF Fencing!Revive
<1>10. CASE FenceOf(l)' = FenceOf(l) \/ (FenceOf(l) = "active" /\ FenceOf(l)' = "lapsed")
  BY <1>6, <1>10, FencesLapse
<1>. QED
  BY <1>8, <1>9, <1>10

\* A release lets the fence of a launch lapse that never had a process.
LEMMA FenceReleased ==
  ASSUME IInv, NEW l \in Launches, Release(l)
  PROVE  \E S \in SUBSET Launches : Fencing!Lapse(S)
<1> USE LaunchAssumption
<1>0. TypeOK /\ DeviceOf[l] \in Devices
  BY DEF IInv
<1>1. /\ UNCHANGED <<now, lastToken, token, child>>
      /\ life[l] # "new" /\ life'[l] # "new"
      /\ \A m \in Launches \ {l} : life'[m] = life[m]
  BY <1>0 DEF Release, TypeOK
<1>2. ASSUME ~Matches(l)
      PROVE  FenceTable' = FenceTable
  <2>1. lease' = lease
    BY <1>2 DEF Release
  <2>2. \A m \in Launches : life'[m] = "new" <=> life[m] = "new"
    BY <1>1
  <2>. QED
    BY <1>1, <2>1, <2>2, FenceStutter
<1>3. ASSUME Matches(l)
      PROVE  \A m \in Launches :
               \/ FenceOf(m)' = FenceOf(m)
               \/ FenceOf(m) = "active" /\ FenceOf(m)' = "lapsed"
  <2>1. \A d \in Devices : lease'[d] = IF d = DeviceOf[l] THEN NoRow ELSE lease[d]
    BY <1>0, <1>3 DEF Release, TypeOK
  <2>2. ASSUME NEW m \in Launches, m # l
        PROVE  FenceOf(m)' = FenceOf(m)
    BY <1>0, <1>1, <1>3, <2>1, <2>2, OthersKeepFence
  <2>3. ~Matches(l)'
    BY <1>0, <2>1 DEF Matches, RowOf
  <2>4. \/ FenceOf(l)' = FenceOf(l)
        \/ FenceOf(l) = "active" /\ FenceOf(l)' = "lapsed"
    BY <1>1, <2>3 DEF FenceOf
  <2>. QED
    BY <2>2, <2>4
<1>4. CASE Matches(l)
  BY <1>3, <1>4, FencesLapse
<1>5. CASE ~Matches(l)
  <2>1. \A m \in Launches : FenceOf(m)' = FenceOf(m)
    BY <1>2, <1>5, FenceAt
  <2>. QED
    BY <2>1, FencesLapse
<1>. QED
  BY <1>4, <1>5

\* At first every launch waits.
LEMMA InitFence == Init => Fencing!FenceInit
BY DEF Init, Fencing!FenceInit, FenceTable, FenceOf

\* Every step of WorkerLease is a step of LaunchFence or leaves it alone.
LEMMA StepFences ==
  ASSUME IInv, [Next]_vars
  PROVE  Fencing!FenceNext \/ FenceTable' = FenceTable
<1> USE LaunchAssumption
<1>0. TypeOK /\ ClaimedFirst
  BY DEF IInv
<1>1. CASE UNCHANGED vars
  BY <1>1, FenceStutter DEF vars
<1>2. CASE Tick
  <2>1. UNCHANGED <<lease, lastToken, token, life, child>> /\ now' = now + 1
    BY <1>2 DEF Tick
  <2>2. ASSUME NEW d \in Devices
        PROVE  Live(d, now)' => Live(d, now)
    BY <1>0, <2>1 DEF Live, TypeOK, Row
  <2>3. ASSUME NEW l \in Launches
        PROVE  \/ FenceOf(l)' = FenceOf(l)
               \/ FenceOf(l) = "active" /\ FenceOf(l)' = "lapsed"
    <3>1. DeviceOf[l] \in Devices
      OBVIOUS
    <3>2. Matches(l)' <=> Matches(l)
      BY <2>1 DEF Matches, RowOf
    <3>. QED
      BY <2>1, <2>2, <3>1, <3>2 DEF FenceOf
  <2>. QED
    BY <2>3, FencesLapse DEF Fencing!FenceNext
<1>3. ASSUME NEW l \in Launches, Supervise(l)
      PROVE  Fencing!FenceNext \/ FenceTable' = FenceTable
  <2>1. CASE ReadBeat(l)
    BY <2>1, FenceStutter DEF ReadBeat
  <2>2. CASE ClaimGranted(l)
    BY <2>2, FenceGranted DEF Fencing!FenceNext
  <2>3. CASE ClaimRefused(l)
    <3>1. /\ UNCHANGED <<now, lastToken, token, life, child>>
          /\ lease' = Purged(l)
      BY <2>3 DEF ClaimRefused
    <3>. QED
      BY <3>1, PurgedAreOver, FencesPurged
  <2>4. CASE Renew(l)
    BY <2>4, FenceRenewed DEF Fencing!FenceNext
  <2>5. CASE RenewFails(l)
    BY <1>0, <2>5, FenceStutter DEF RenewFails, TypeOK
  <2>6. CASE Launch(l)
    BY <1>0, <2>6, FenceStutter DEF Launch, TypeOK
  <2>7. CASE EndChild(l)
    BY <1>0, <2>7, FenceEnds DEF EndChild, Fencing!FenceNext
  <2>8. CASE Release(l)
    BY <2>8, FenceReleased DEF Fencing!FenceNext
  <2>. QED
    BY <1>3, <2>1, <2>2, <2>3, <2>4, <2>5, <2>6, <2>7, <2>8 DEF Supervise
<1>4. ASSUME NEW l \in Launches, Crash(l)
      PROVE  FenceTable' = FenceTable
  BY <1>0, <1>4, FenceStutter DEF Crash, TypeOK
<1>5. ASSUME NEW l \in Launches, Work(l)
      PROVE  Fencing!FenceNext \/ FenceTable' = FenceTable
  <2>1. CASE ReadCheck(l)
    BY <2>1, FenceStutter DEF ReadCheck
  <2>2. CASE BeginOp(l) \/ AcceptOp(l)
    BY <1>0, <2>2, FenceStutter DEF BeginOp, AcceptOp, TypeOK
  <2>3. CASE FenceLost(l)
    BY <1>0, <2>3, FenceEnds DEF FenceLost, Fencing!FenceNext
  <2>. QED
    BY <1>5, <2>1, <2>2, <2>3 DEF Work
<1>. QED
  BY <1>1, <1>2, <1>3, <1>4, <1>5 DEF Next

\* Rows, tokens and stale clock values implement the fences the ledger of
\* assignments relies on: a launch that was replaced never acts again, one
\* whose lease ran out only if nobody took its device.
THEOREM FencesImplemented == Spec => ImplementsFence
<1>1. IInv /\ [Next]_vars => [Fencing!FenceNext]_FenceTable
  BY StepFences
<1>. QED
  BY <1>1, InitFence, Invariance, PTL DEF Spec, ImplementsFence, Fencing!FenceSpec

=============================================================================
