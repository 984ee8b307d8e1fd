----------------------- MODULE FollowbackCircuitProofs -----------------------
(***************************************************************************)
(* Theorems about FollowbackCircuit, for every set of tabs and followers   *)
(* and every lease and cooldown.                                           *)
(***************************************************************************)
EXTENDS FollowbackCircuit, TLAPS

-----------------------------------------------------------------------------
(* Type correctness. *)

\* The initial state is well typed.
LEMMA InitTypeOK == Init => TypeOK
BY FollowbackAssumption
   DEF Init, TypeOK, CircuitRows, CircuitStates, LeaseStates, WelcomeStates, TabPcs,
       TabRows, LeaseRows, NoLease, Idle

\* What a busy tab holds, and its row when it goes on.
LEMMA Busy ==
  ASSUME TypeOK, NEW t \in Tabs, tab[t].pc \notin {"idle", "replying"}
  PROVE  /\ tab[t].who \in Followers
         /\ tab[t].seen \subseteq Followers
         /\ tab[t].at \in 0..MaxClock
         /\ tab[t].ok \in BOOLEAN
         /\ \A pc \in TabPcs : [tab[t] EXCEPT !.pc = pc] \in TabRows
         /\ \A pc \in TabPcs, ok \in BOOLEAN :
              [tab[t] EXCEPT !.pc = pc, !.ok = ok] \in TabRows
BY DEF TypeOK, TabRows

\* The row of a tab that takes up a follower, and of one that gives up.
LEMMA NewRows ==
  ASSUME TypeOK
  PROVE  /\ Idle \in TabRows
         /\ \A pc \in TabPcs, f \in Followers :
              /\ [pc |-> pc, who |-> f, at |-> clock, ok |-> FALSE, seen |-> marked] \in TabRows
              /\ [pc |-> pc, who |-> f, at |-> clock, ok |-> FALSE, seen |-> {}] \in TabRows
         /\ [pc |-> "replying", who |-> NoOne, at |-> 0, ok |-> FALSE, seen |-> marked] \in TabRows
BY FollowbackAssumption DEF Idle, TabPcs, TabRows, TypeOK

\* Leases that are claimed and finished are leases.
LEMMA LeaseMoves ==
  ASSUME NEW table \in [Followers -> LeaseRows], NEW f \in Followers
  PROVE  /\ \A t \in Tabs, at \in 0..MaxClock :
              [table EXCEPT ![f] = Claimed(t, at)] \in [Followers -> LeaseRows]
         /\ \A s \in LeaseStates :
              [table EXCEPT ![f].state = s] \in [Followers -> LeaseRows]
<1>1. ASSUME NEW t \in Tabs, NEW at \in 0..MaxClock
      PROVE  Claimed(t, at) \in LeaseRows
  BY FollowbackAssumption DEF Claimed, LeaseRows, LeaseStates
<1>2. ASSUME NEW s \in LeaseStates
      PROVE  [table[f] EXCEPT !.state = s] \in LeaseRows
  <2>1. table[f] \in LeaseRows
    OBVIOUS
  <2>. QED
    BY <2>1 DEF LeaseRows
<1>. QED
  BY <1>1, <1>2

\* So is a welcome lease that is finished by whoever says so.
LEMMA FinishMoves ==
  ASSUME TypeOK, NEW t, NEW f \in Followers, NEW s \in LeaseStates
  PROVE  Finished(t, f, s) \in [Followers -> LeaseRows]
BY LeaseMoves DEF Finished, TypeOK

\* A welcome that is given a result is a welcome.
LEMMA WelcomeMoves ==
  ASSUME TypeOK, NEW f \in Followers, NEW s \in WelcomeStates
  PROVE  Recorded(f, s) \in [Followers -> WelcomeStates]
BY DEF TypeOK, Recorded

\* The states the circuit is brought into.
LEMMA CircuitMoves ==
  ASSUME TypeOK
  PROVE  /\ \A u \in 0..MaxClock + Cooldown : Opened(u) \in CircuitRows
         /\ [state |-> "closed", until |-> 0, canary |-> NoOne] \in CircuitRows
         /\ \A at \in 0..MaxClock :
              /\ Seen(at) \in CircuitRows
              /\ \A f \in Followers : [Seen(at) EXCEPT !.canary = f] \in CircuitRows
<1>1. circuit \in CircuitRows /\ MaxClock \in Nat /\ Cooldown \in Nat
  BY FollowbackAssumption DEF TypeOK
<1>2. \A u \in 0..MaxClock + Cooldown : Opened(u) \in CircuitRows
  BY DEF Opened, CircuitRows, CircuitStates
<1>3. [state |-> "closed", until |-> 0, canary |-> NoOne] \in CircuitRows
  BY <1>1 DEF CircuitRows, CircuitStates
<1>4. \A at \in 0..MaxClock : Seen(at) \in CircuitRows
  BY <1>1 DEF Seen, CircuitRows, CircuitStates
<1>5. \A at \in 0..MaxClock, f \in Followers : [Seen(at) EXCEPT !.canary = f] \in CircuitRows
  BY <1>4 DEF CircuitRows
<1>. QED
  BY <1>2, <1>3, <1>4, <1>5

\* A copy of the tries, however old, with some attempts added to it.
LEMMA TriesMoves ==
  ASSUME TypeOK, NEW f \in Followers, NEW tries \in Copies
  PROVE  /\ [tries EXCEPT ![f] = MaxAttempts] \in [Followers -> 0..MaxAttempts]
         /\ \A n \in Nat : Tried(tries, f, n) \in [Followers -> 0..MaxAttempts]
BY FollowbackAssumption DEF Copies, Tried

\* A copy of the marks that is saved is a set of followers.
LEMMA MarkMoves ==
  ASSUME TypeOK, NEW map \in SUBSET Followers, SaveMarks(map)
  PROVE  marked' \subseteq Followers /\ erased' \subseteq Followers
BY DEF SaveMarks, TypeOK

\* No step of a follow-back leaves the types.
LEMMA FollowTypeOK ==
  ASSUME TypeOK, NEW t \in Tabs, FollowStep(t)
  PROVE  TypeOK'
<1> DEFINE f == tab[t].who
<1> USE DEF circuitVars, welcomeVars
<1>1. ASSUME NEW g \in Followers, Ask(t, g)
      PROVE  TypeOK'
  <2>1. tab' \in [Tabs -> TabRows]
    BY <1>1, NewRows DEF Ask, TypeOK, TabPcs
  <2>. QED
    BY <1>1, <2>1 DEF Ask, TypeOK, followVars
<1>2. ASSUME NEW g \in Followers, ReportFollowed(t, g)
      PROVE  TypeOK'
  <2>1. completed' \subseteq Followers /\ attempts' \in [Followers -> 0..MaxAttempts]
    BY <1>2, TriesMoves DEF ReportFollowed, TypeOK
  <2>. QED
    BY <1>2, <2>1 DEF ReportFollowed, TypeOK
<1>3. CASE Claim(t)
  <2>1. f \in Followers /\ tab[t].at \in 0..MaxClock
    BY <1>3, Busy DEF Claim
  <2>2. circuit' \in CircuitRows
    BY <1>3, <2>1, CircuitMoves DEF Claim, TypeOK
  <2>3. canaryTabs' \subseteq Tabs
    BY <1>3 DEF Claim, CanaryTabs, TypeOK
  <2>4. lease' \in [Followers -> LeaseRows]
    BY <1>3, <2>1, LeaseMoves DEF Claim, TypeOK
  <2>5. tab' \in [Tabs -> TabRows]
    BY <1>3, Busy, NewRows DEF Claim, TabPcs, TypeOK
  <2>. QED
    BY <1>3, <2>2, <2>3, <2>4, <2>5 DEF Claim, TypeOK
<1>4. CASE Click(t)
  <2>1. f \in Followers
    BY <1>4, Busy DEF Click
  <2>4. tab' \in [Tabs -> TabRows]
    <3>1. PICK ok \in BOOLEAN : tab' = [tab EXCEPT ![t] = [@ EXCEPT !.pc = "answering", !.ok = ok]]
      BY <1>4, Zenon DEF Click
    <3>2. [tab[t] EXCEPT !.pc = "answering", !.ok = ok] \in TabRows
      BY <1>4, Busy DEF Click, TabPcs
    <3>. QED
      BY <3>1, <3>2 DEF TypeOK
  <2>5. completed' \subseteq Followers
    BY <1>4, <2>1 DEF Click, TypeOK
  <2>6. attempts' \in [Followers -> 0..MaxAttempts]
    <3>1. PICK tries \in Copies : \/ attempts' = [tries EXCEPT ![f] = MaxAttempts]
                                   \/ attempts' = Tried(tries, f, 1)
                                   \/ attempts' = Tried(tries, f, 2)
      BY <1>4 DEF Click
    <3>. HIDE DEF f
    <3>2. /\ [tries EXCEPT ![f] = MaxAttempts] \in [Followers -> 0..MaxAttempts]
          /\ \A n \in Nat : Tried(tries, f, n) \in [Followers -> 0..MaxAttempts]
      BY <2>1, TriesMoves
    <3>. QED
      BY <3>1, <3>2
  <2>. QED
    BY <1>4, <2>4, <2>5, <2>6 DEF Click, TypeOK
<1>5. CASE Answer(t)
  <2>1. f \in Followers
    BY <1>5, Busy DEF Answer
  <2>2. lease' \in [Followers -> LeaseRows]
    BY <1>5, <2>1, LeaseMoves DEF Answer, TypeOK, LeaseStates
  <2>3. circuit' \in CircuitRows
    <3>1. clock + Cooldown \in 0..MaxClock + Cooldown
      BY FollowbackAssumption DEF TypeOK
    <3>. QED
      BY <1>5, <3>1, CircuitMoves DEF Answer, TypeOK
  <2>4. canaryTabs' \subseteq Tabs /\ due' \subseteq Followers
    BY <1>5, <2>1 DEF Answer, TypeOK
  <2>5. tab' \in [Tabs -> TabRows]
    BY <1>5, NewRows DEF Answer, TypeOK
  <2>. QED
    BY <1>5, <2>2, <2>3, <2>4, <2>5 DEF Answer, TypeOK
<1>. QED
  BY <1>1, <1>2, <1>3, <1>4, <1>5 DEF FollowStep

\* No step of a welcome leaves the types.
LEMMA WelcomeTypeOK ==
  ASSUME TypeOK, NEW t \in Tabs, WelcomeStep(t) \/ ReplyStep(t) \/ Crash(t)
  PROVE  TypeOK'
<1> DEFINE f == tab[t].who
<1> USE DEF circuitVars, followVars
<1>1. ASSUME NEW g \in Followers, Look(t, g)
      PROVE  TypeOK'
  <2>1. tab' \in [Tabs -> TabRows]
    BY <1>1, NewRows DEF Look, TypeOK, TabPcs
  <2>2. welcome' \in [Followers -> WelcomeStates]
    BY <1>1, WelcomeMoves DEF Look, TypeOK, WelcomeStates
  <2>. QED
    BY <1>1, <2>1, <2>2 DEF Look, TypeOK
<1>2. CASE ClaimWelcome(t)
  <2>1. wlease' \in [Followers -> LeaseRows]
    BY <1>2, Busy, LeaseMoves DEF ClaimWelcome, TypeOK
  <2>2. tab' \in [Tabs -> TabRows]
    BY <1>2, Busy, NewRows DEF ClaimWelcome, TabPcs, TypeOK
  <2>. QED
    BY <1>2, <2>1, <2>2 DEF ClaimWelcome, TypeOK
<1>3. CASE OpenChat(t)
  <2>1. f \in Followers
    BY <1>3, Busy DEF OpenChat
  <2>2. tab' \in [Tabs -> TabRows]
    <3>1. [tab[t] EXCEPT !.pc = "marked"] \in TabRows /\ Idle \in TabRows
      BY <1>3, Busy, NewRows DEF OpenChat, TabPcs
    <3>2. \/ tab' = [tab EXCEPT ![t] = [@ EXCEPT !.pc = "marked"]]
          \/ tab' = [tab EXCEPT ![t] = Idle]
      BY <1>3 DEF OpenChat
    <3>. QED
      BY <3>1, <3>2 DEF TypeOK
  <2>3. welcome' \in [Followers -> WelcomeStates]
    BY <1>3, <2>1, WelcomeMoves DEF OpenChat, TypeOK, WelcomeStates
  <2>4. wlease' \in [Followers -> LeaseRows]
    BY <1>3, <2>1, FinishMoves DEF OpenChat, TypeOK, LeaseStates
  <2>5. marked' \subseteq Followers /\ erased' \subseteq Followers
    <3>1. tab[t].seen \cup {f} \in SUBSET Followers
      BY <1>3, Busy DEF OpenChat
    <3>. QED
      BY <1>3, <3>1, MarkMoves DEF OpenChat, TypeOK
  <2>. QED
    BY <1>3, <2>2, <2>3, <2>4, <2>5 DEF OpenChat, TypeOK
<1>4. CASE SendWelcome(t)
  <2>1. f \in Followers
    BY <1>4, Busy DEF SendWelcome
  <2>2. tab' \in [Tabs -> TabRows]
    <3>1. PICK ok \in BOOLEAN : tab' = [tab EXCEPT ![t] = [@ EXCEPT !.pc = "answered", !.ok = ok]]
      BY <1>4, Zenon DEF SendWelcome
    <3>2. [tab[t] EXCEPT !.pc = "answered", !.ok = ok] \in TabRows
      BY <1>4, Busy DEF SendWelcome, TabPcs
    <3>. QED
      BY <3>1, <3>2 DEF TypeOK
  <2>3. sent' \in [Followers -> Nat] /\ late' \subseteq Followers
    <3>1. sent' = [sent EXCEPT ![f] = @ + 1] \/ sent' = sent
      BY <1>4 DEF SendWelcome
    <3>2. late' \in {late, late \cup {f}}
      BY <1>4 DEF SendWelcome
    <3>. QED
      BY <2>1, <3>1, <3>2 DEF TypeOK
  <2>. QED
    BY <1>4, <2>2, <2>3 DEF SendWelcome, TypeOK
<1>5. CASE AnswerWelcome(t)
  <2>1. f \in Followers
    BY <1>5, Busy DEF AnswerWelcome
  <2>2. welcome' \in [Followers -> WelcomeStates]
    BY <1>5, <2>1, WelcomeMoves DEF AnswerWelcome, WelcomeStates
  <2>3. wlease' \in [Followers -> LeaseRows]
    BY <1>5, <2>1, FinishMoves DEF AnswerWelcome, TypeOK, LeaseStates
  <2>4. tab' \in [Tabs -> TabRows]
    <3>1. [tab[t] EXCEPT !.pc = "closing"] \in TabRows /\ Idle \in TabRows
      BY <1>5, Busy, NewRows DEF AnswerWelcome, TabPcs
    <3>. QED
      BY <1>5, <3>1 DEF AnswerWelcome, TypeOK
  <2>. QED
    BY <1>5, <2>2, <2>3, <2>4 DEF AnswerWelcome, TypeOK
<1>6. CASE Crash(t)
  <2>1. tab' \in [Tabs -> TabRows]
    BY <1>6, NewRows DEF Crash, TypeOK
  <2>2. attempts' \in [Followers -> 0..MaxAttempts]
    <3>1. CASE tab[t].pc = "checked"
      <4>1. attempts' = attempts \/ \E tries \in Copies : attempts' = Tried(tries, f, 1)
        BY <1>6 DEF Crash
      <4>2. f \in Followers
        BY <3>1, Busy
      <4>3. attempts \in [Followers -> 0..MaxAttempts]
        BY DEF TypeOK
      <4>. QED
        BY <4>1, <4>2, <4>3, TriesMoves
    <3>2. CASE tab[t].pc # "checked"
      BY <1>6, <3>2 DEF Crash, TypeOK
    <3>. QED
      BY <3>1, <3>2
  <2>. QED
    BY <1>6, <2>1, <2>2 DEF Crash, TypeOK, welcomeVars
<1>7. CASE NoteWelcome(t)
  <2>1. tab[t].seen \cup {f} \in SUBSET Followers
    BY <1>7, Busy DEF NoteWelcome
  <2>2. marked' \subseteq Followers /\ erased' \subseteq Followers
    BY <1>7, <2>1, MarkMoves DEF NoteWelcome
  <2>3. tab' \in [Tabs -> TabRows]
    BY <1>7, NewRows DEF NoteWelcome, TypeOK
  <2>. QED
    BY <1>7, <2>2, <2>3 DEF NoteWelcome, TypeOK
<1>8. CASE BeginReply(t)
  <2>1. tab' \in [Tabs -> TabRows]
    BY <1>8, NewRows DEF BeginReply, TypeOK
  <2>. QED
    BY <1>8, <2>1 DEF BeginReply, TypeOK, welcomeVars
<1>9. CASE NoteReply(t)
  <2>1. tab[t].seen \in SUBSET Followers
    BY DEF TypeOK, TabRows
  <2>2. marked' \subseteq Followers /\ erased' \subseteq Followers
    BY <1>9, <2>1, MarkMoves DEF NoteReply
  <2>3. tab' \in [Tabs -> TabRows]
    BY <1>9, NewRows DEF NoteReply, TypeOK
  <2>. QED
    BY <1>9, <2>2, <2>3 DEF NoteReply, TypeOK
<1>. QED
  BY <1>1, <1>2, <1>3, <1>4, <1>5, <1>6, <1>7, <1>8, <1>9 DEF WelcomeStep, ReplyStep

\* Nor does a step of the server, the operator, the contact or the clock.
LEMMA StepTypeOK == TypeOK /\ [Next]_vars => TypeOK'
<1> SUFFICES ASSUME TypeOK, [Next]_vars
             PROVE  TypeOK'
  OBVIOUS
<1> USE DEF circuitVars, followVars, welcomeVars
<1>1. ASSUME NEW f \in Followers, BeginWelcome(f)
      PROVE  TypeOK'
  BY <1>1 DEF BeginWelcome, TypeOK
<1>2. ASSUME NEW f \in Followers, StopContact(f)
      PROVE  TypeOK'
  <2>1. welcome' \in [Followers -> WelcomeStates]
    BY <1>2, WelcomeMoves DEF StopContact, WithoutWelcome, WelcomeStates
  <2>. QED
    BY <1>2, <2>1 DEF StopContact, TypeOK
<1>3. CASE CreateWelcome
  <2>1. welcome' \in [Followers -> WelcomeStates]
    BY <1>3 DEF CreateWelcome, TypeOK, WelcomeStates
  <2>. QED
    BY <1>3, <2>1 DEF CreateWelcome, TypeOK
<1>4. CASE OrderCooldown
  <2>1. circuit' \in CircuitRows
    <3>1. \A d \in 1..Cooldown : clock + d \in 0..MaxClock + Cooldown
      BY FollowbackAssumption DEF TypeOK
    <3>. QED
      BY <1>4, <3>1, CircuitMoves DEF OrderCooldown
  <2>2. orders' \in 0..MaxOrders
    BY <1>4, FollowbackAssumption DEF OrderCooldown, TypeOK
  <2>. QED
    BY <1>4, <2>1, <2>2 DEF OrderCooldown, TypeOK
<1>5. CASE Switch
  BY <1>5 DEF Switch, TypeOK
<1>6. CASE ReadCircuit
  <2>1. circuit' \in CircuitRows
    BY <1>6, CircuitMoves DEF ReadCircuit, TypeOK
  <2>. QED
    BY <1>6, <2>1 DEF ReadCircuit, TypeOK
<1>7. CASE Restart
  BY <1>7 DEF Restart, TypeOK
<1>8. CASE Tick
  <2>1. clock' \in 0..MaxClock
    BY <1>8, FollowbackAssumption DEF Tick, TypeOK
  <2>. QED
    BY <1>8, <2>1 DEF Tick, TypeOK
<1>9. CASE UNCHANGED vars
  BY <1>9 DEF vars, TypeOK
<1>. QED
  BY <1>1, <1>2, <1>3, <1>4, <1>5, <1>6, <1>7, <1>8, <1>9, FollowTypeOK, WelcomeTypeOK
     DEF Next

-----------------------------------------------------------------------------
(* The steps that bear on a part of the invariant, and those that do not.  *)

\* The circuit, the tabs let through and the leases are moved by few steps.
LEMMA CircuitFrame ==
  ASSUME [Next]_vars
  PROVE  \/ UNCHANGED <<circuit, canaryTabs, lease>>
         \/ \E t \in Tabs : Claim(t) \/ Answer(t)
         \/ OrderCooldown
         \/ ReadCircuit
BY DEF Next, vars, FollowStep, WelcomeStep, circuitVars, followVars, welcomeVars,
       Ask, Click, ReportFollowed, BeginWelcome, CreateWelcome, Look, ClaimWelcome,
       OpenChat, SendWelcome, AnswerWelcome, NoteWelcome, ReplyStep, BeginReply, NoteReply,
       StopContact, Switch, Crash, Restart, Tick

\* A step either leaves all tabs alone or moves one of them.
LEMMA TabFrame ==
  ASSUME TypeOK, [Next]_vars
  PROVE  \/ tab' = tab
         \/ \E t \in Tabs :
              /\ \A u \in Tabs : u # t => tab'[u] = tab[u]
              /\ \/ FollowStep(t) /\ tab'[t].pc \notin {"looked", "opening", "marked"}
                 \/ WelcomeStep(t)
                 \/ ReplyStep(t) /\ tab'[t].pc \in {"idle", "replying"}
                 \/ Crash(t) /\ tab'[t].pc = "idle"
<1>1. SUFFICES ASSUME NEW t \in Tabs, tab' # tab,
                      FollowStep(t) \/ WelcomeStep(t) \/ ReplyStep(t) \/ Crash(t)
               PROVE  /\ \A u \in Tabs : u # t => tab'[u] = tab[u]
                      /\ \/ FollowStep(t) /\ tab'[t].pc \notin {"looked", "opening", "marked"}
                         \/ WelcomeStep(t)
                         \/ ReplyStep(t) /\ tab'[t].pc \in {"idle", "replying"}
                         \/ Crash(t) /\ tab'[t].pc = "idle"
  BY DEF Next, vars, BeginWelcome, StopContact, CreateWelcome, OrderCooldown, Switch,
         ReadCircuit, Restart, Tick
<1>2. tab \in [Tabs -> TabRows]
  BY DEF TypeOK
<1>3. PICK row : tab' = [tab EXCEPT ![t] = row]
  BY <1>1 DEF FollowStep, WelcomeStep, ReplyStep, Ask, Claim, Click, ReportFollowed, Answer,
              Look, ClaimWelcome, OpenChat, SendWelcome, AnswerWelcome, NoteWelcome,
              BeginReply, NoteReply, Crash
<1>4. \A u \in Tabs : u # t => tab'[u] = tab[u]
  BY <1>2, <1>3
<1>5. Crash(t) => tab'[t].pc = "idle"
  BY <1>2 DEF Crash, Idle
<1>6. FollowStep(t) => tab'[t].pc \notin {"looked", "opening", "marked"}
  <2>1. \A f \in Followers : Ask(t, f) => tab'[t].pc = "checked"
    BY <1>2 DEF Ask
  <2>2. \A f \in Followers : ~ReportFollowed(t, f)
    BY <1>1 DEF ReportFollowed
  <2>3. Claim(t) => tab'[t].pc \in {"granted", "idle"}
    BY <1>2 DEF Claim, Idle, TabRows
  <2>4. Click(t) => tab'[t].pc = "answering"
    BY <1>2 DEF Click, TabRows
  <2>5. Answer(t) => tab'[t].pc = "idle"
    BY <1>2 DEF Answer, Idle
  <2>. QED
    BY <2>1, <2>2, <2>3, <2>4, <2>5 DEF FollowStep
<1>7. ReplyStep(t) => tab'[t].pc \in {"idle", "replying"}
  BY <1>1, <1>2 DEF ReplyStep, BeginReply, NoteReply, Idle
<1>. QED
  BY <1>1, <1>4, <1>5, <1>6, <1>7

-----------------------------------------------------------------------------
(* The probation of the circuit.                                           *)

\* No step lets a second tab through, or lets the lease of the canary go to a
\* tab that was not let through.
LEMMA CanaryStep ==
  ASSUME TypeOK, OneCanary, CanaryIsLeased, [Next]_vars
  PROVE  OneCanary' /\ CanaryIsLeased'
<1>1. CASE UNCHANGED <<circuit, canaryTabs, lease>>
  BY <1>1 DEF OneCanary, CanaryIsLeased
<1>2. ASSUME NEW t \in Tabs, Claim(t)
      PROVE  OneCanary' /\ CanaryIsLeased'
  <2> DEFINE f == tab[t].who
             at == tab[t].at
             c == Seen(at)
             granted == Permits(c) /\ Free(lease[f], at)
  <2>1. f \in Followers /\ f # NoOne
    BY <1>2, Busy, FollowbackAssumption DEF Claim
  <2>2. CASE c.state # "canary"
    <3>1. circuit' = c /\ canaryTabs' = {}
      BY <1>2, <2>2 DEF Claim, CanaryTabs
    <3>. QED
      BY <2>2, <3>1 DEF OneCanary, CanaryIsLeased
  <2>3. CASE c.state = "canary" /\ granted
    <3>1. c.canary = NoOne
      BY <2>3 DEF Permits
    <3>2. Ripe(at) \/ canaryTabs = {}
      BY <2>3, <3>1 DEF Seen, CanaryIsLeased
    <3>3. canaryTabs' = {t}
      BY <1>2, <2>3, <3>2 DEF Claim, CanaryTabs
    <3>4. circuit' = [c EXCEPT !.canary = f] /\ lease' = [lease EXCEPT ![f] = Claimed(t, at)]
      BY <1>2, <2>3 DEF Claim
    <3>5. circuit'.state = "canary" /\ circuit'.canary = f
      <4>1. c \in CircuitRows
        BY <1>2, Busy, CircuitMoves DEF Claim
      <4>. QED
        BY <2>3, <3>4, <4>1 DEF CircuitRows
    <3>6. lease'[f].owner = t
      BY <2>1, <3>4 DEF Claimed, TypeOK
    <3>. QED
      BY <2>1, <3>3, <3>5, <3>6 DEF OneCanary, CanaryIsLeased
  <2>4. CASE c.state = "canary" /\ ~granted
    <3>1. circuit' = c /\ lease' = lease
      BY <1>2, <2>4 DEF Claim
    <3>2. canaryTabs' = IF Ripe(at) THEN {} ELSE canaryTabs
      BY <1>2, <2>4 DEF Claim, CanaryTabs
    <3>3. CASE Ripe(at)
      <4>1. c.canary = NoOne
        BY <3>3 DEF Seen, TypeOK, CircuitRows
      <4>. QED
        BY <2>4, <3>1, <3>2, <3>3, <4>1 DEF OneCanary, CanaryIsLeased
    <3>4. CASE ~Ripe(at)
      <4>1. c = circuit
        BY <3>4 DEF Seen
      <4>. QED
        BY <3>1, <3>2, <3>4, <4>1 DEF OneCanary, CanaryIsLeased
    <3>. QED
      BY <3>3, <3>4
  <2>. QED
    BY <2>2, <2>3, <2>4
<1>3. ASSUME NEW t \in Tabs, Answer(t)
      PROVE  OneCanary' /\ CanaryIsLeased'
  <2>1. \/ circuit' = circuit
        \/ circuit'.state # "canary"
    BY <1>3 DEF Answer, Opened
  <2>2. canaryTabs' = IF circuit'.state = "canary" THEN canaryTabs ELSE {}
    BY <1>3 DEF Answer
  <2>3. \A f \in Followers : lease'[f].owner = lease[f].owner
    BY <1>3 DEF Answer, TypeOK, LeaseRows
  <2>4. circuit.canary \in Followers \cup {NoOne}
    BY DEF TypeOK, CircuitRows
  <2>. QED
    BY <2>1, <2>2, <2>3, <2>4 DEF OneCanary, CanaryIsLeased
<1>4. CASE OrderCooldown
  BY <1>4 DEF OrderCooldown, Opened, OneCanary, CanaryIsLeased
<1>5. CASE ReadCircuit
  <2>1. circuit'.canary = NoOne /\ canaryTabs' = {}
    BY <1>5 DEF ReadCircuit, Seen, TypeOK, CircuitRows
  <2>. QED
    BY <2>1 DEF OneCanary, CanaryIsLeased
<1>. QED
  BY <1>1, <1>2, <1>3, <1>4, <1>5, CircuitFrame

\* A circuit that closes closes on the answer of the tab let through.
LEMMA CloseStep ==
  ASSUME TypeOK, OneCanary, CanaryIsLeased, [Next]_vars,
         circuit.state # "closed", circuit'.state = "closed"
  PROVE  \E t \in canaryTabs : /\ tab[t].pc = "answering" /\ tab[t].ok
                               /\ tab[t].who = circuit.canary
                               /\ lease[circuit.canary].owner = t
<1>1. \A at : Seen(at).state # "closed"
  BY DEF Seen, TypeOK, CircuitRows
<1>2. \A t \in Tabs : ~Claim(t)
  <2>1. ASSUME NEW t \in Tabs, Claim(t)
        PROVE  circuit'.state = Seen(tab[t].at).state
    <3>1. Seen(tab[t].at) \in CircuitRows
      BY <2>1, Busy, CircuitMoves DEF Claim
    <3>2. \/ circuit' = [Seen(tab[t].at) EXCEPT !.canary = tab[t].who]
          \/ circuit' = Seen(tab[t].at)
      BY <2>1 DEF Claim
    <3>. QED
      BY <3>1, <3>2 DEF CircuitRows
  <2>. QED
    BY <1>1, <2>1
<1>3. ~OrderCooldown /\ ~ReadCircuit
  BY <1>1 DEF OrderCooldown, Opened, ReadCircuit
<1>4. PICK t \in Tabs : Answer(t)
  BY <1>2, <1>3, CircuitFrame
<1> DEFINE f == tab[t].who
<1>5. IsCanary(f) /\ tab[t].ok /\ Answerable(lease[f], t, "completed")
  BY <1>4 DEF Answer, Opened
<1>6. f \in Followers /\ f # NoOne
  BY <1>4, Busy, FollowbackAssumption DEF Answer
<1>7. canaryTabs = {t}
  BY <1>5, <1>6 DEF IsCanary, Answerable, CanaryIsLeased
<1>. QED
  BY <1>4, <1>5, <1>7 DEF Answer, IsCanary, Answerable

-----------------------------------------------------------------------------
(* Stopped contacts.                                                       *)

\* A plan is made of nothing and given one result, which is never "planned".
LEMMA WelcomeFrame ==
  ASSUME TypeOK, [Next]_vars, NEW f \in Followers
  PROVE  \/ welcome'[f] = welcome[f]
         \/ welcome[f] = "none" /\ welcome'[f] = "planned"
         \/ welcome[f] = "planned" /\ welcome'[f] \notin {"none", "planned"}
<1>1. CASE welcome' = welcome
  BY <1>1
<1>2. CASE CreateWelcome
  BY <1>2 DEF CreateWelcome, TypeOK
<1>3. ASSUME NEW g, NEW s \in {"sent", "uncertain", "superseded"}, welcome' = Recorded(g, s)
      PROVE  welcome'[f] = welcome[f] \/ (welcome[f] = "planned" /\ welcome'[f] \notin {"none", "planned"})
  BY <1>3 DEF Recorded, TypeOK
<1>4. \/ welcome' = welcome
      \/ CreateWelcome
      \/ \E g, s : s \in {"sent", "uncertain", "superseded"} /\ welcome' = Recorded(g, s)
  <2>1. ASSUME NEW t \in Tabs, OpenChat(t)
        PROVE  \/ welcome' = welcome
               \/ \E g, s : s \in {"sent", "uncertain", "superseded"} /\ welcome' = Recorded(g, s)
    BY <2>1 DEF OpenChat
  <2>2. ASSUME NEW t \in Tabs, AnswerWelcome(t)
        PROVE  \E g, s : s \in {"sent", "uncertain", "superseded"} /\ welcome' = Recorded(g, s)
    BY <2>2 DEF AnswerWelcome
  <2>3. ASSUME NEW t \in Tabs, NEW g \in Followers, Look(t, g)
        PROVE  welcome' = welcome \/ welcome' = Recorded(g, "uncertain")
    BY <2>3 DEF Look
  <2>. QED
    BY <2>1, <2>2, <2>3
    DEF Next, vars, FollowStep, WelcomeStep, circuitVars, followVars, welcomeVars,
        Ask, Claim, Click, Answer, ReportFollowed, BeginWelcome, ClaimWelcome,
        SendWelcome, NoteWelcome, ReplyStep, BeginReply, NoteReply,
        StopContact, WithoutWelcome, OrderCooldown, ReadCircuit, Switch,
        Crash, Restart, Tick
<1>. QED
  BY <1>1, <1>2, <1>3, <1>4

\* A contact is stopped by its own word only, which ends its plan.
LEMMA StopFrame ==
  ASSUME TypeOK, [Next]_vars
  PROVE  \/ stopped' = stopped
         \/ \E f \in Followers : StopContact(f)
BY DEF Next, vars, FollowStep, WelcomeStep, Ask, Claim, Click, Answer, ReportFollowed,
       BeginWelcome, CreateWelcome, Look, ClaimWelcome, OpenChat, SendWelcome,
       AnswerWelcome, NoteWelcome, ReplyStep, BeginReply, NoteReply, welcomeVars,
       OrderCooldown, ReadCircuit, Switch, Crash, Restart, Tick

\* What the steps of a welcome do to the tab's own row.
LEMMA WelcomeRows ==
  ASSUME TypeOK, NEW t \in Tabs
  PROVE  /\ ClaimWelcome(t) => tab'[t].pc \in {"opening", "idle"}
         /\ OpenChat(t) => \/ tab'[t].pc = "idle"
                           \/ /\ tab'[t].pc = "marked" /\ tab'[t].who = tab[t].who
                              /\ wlease' = wlease
         /\ SendWelcome(t) => tab'[t].pc = "answered"
         /\ AnswerWelcome(t) => tab'[t].pc \in {"closing", "idle"}
         /\ NoteWelcome(t) => tab'[t].pc = "idle"
<1>1. tab \in [Tabs -> TabRows]
  BY DEF TypeOK
<1>2. ClaimWelcome(t) => tab'[t].pc \in {"opening", "idle"}
  BY <1>1 DEF ClaimWelcome, Idle, TabRows
<1>3. OpenChat(t) => \/ tab'[t].pc = "idle"
                     \/ /\ tab'[t].pc = "marked" /\ tab'[t].who = tab[t].who
                        /\ wlease' = wlease
  BY <1>1 DEF OpenChat, Idle, TabRows
<1>4. ASSUME SendWelcome(t)
      PROVE  tab'[t].pc = "answered"
  <2>1. PICK ok \in BOOLEAN : tab' = [tab EXCEPT ![t] = [@ EXCEPT !.pc = "answered", !.ok = ok]]
    BY <1>4, Zenon DEF SendWelcome
  <2>. QED
    BY <1>1, <2>1 DEF TabRows
<1>5. AnswerWelcome(t) => tab'[t].pc \in {"closing", "idle"}
  BY <1>1 DEF AnswerWelcome, Idle, TabRows
<1>6. NoteWelcome(t) => tab'[t].pc = "idle"
  BY <1>1 DEF NoteWelcome, Idle
<1>. QED
  BY <1>2, <1>3, <1>4, <1>5, <1>6

\* Who looks has looked already, or is given a plan of a contact not stopped.
LEMMA LookedFrame ==
  ASSUME TypeOK, [Next]_vars, NEW t \in Tabs, tab'[t].pc = "looked"
  PROVE  \/ tab'[t] = tab[t]
         \/ \E f \in Followers :
              /\ tab'[t] = [pc |-> "looked", who |-> f, at |-> clock, ok |-> FALSE,
                           seen |-> marked]
              /\ welcome[f] = "planned" /\ f \notin stopped /\ f \notin marked
              /\ UNCHANGED <<clock, welcome, stopped, wlease, marked, sent, late>>
<1>1. CASE tab' = tab
  BY <1>1
<1>2. ASSUME NEW u \in Tabs, u # t, \A v \in Tabs : v # u => tab'[v] = tab[v]
      PROVE  tab'[t] = tab[t]
  BY <1>2
<1>3. ASSUME WelcomeStep(t), tab' # tab
      PROVE  \E f \in Followers : Look(t, f)
  <2>1. /\ ~ClaimWelcome(t) /\ ~OpenChat(t) /\ ~SendWelcome(t) /\ ~AnswerWelcome(t)
        /\ ~NoteWelcome(t)
    BY WelcomeRows
  <2>. QED
    BY <1>3, <2>1 DEF WelcomeStep
<1>4. ASSUME NEW f \in Followers, Look(t, f), tab' # tab
      PROVE  /\ tab'[t] = [pc |-> "looked", who |-> f, at |-> clock, ok |-> FALSE,
                          seen |-> marked]
             /\ welcome[f] = "planned" /\ f \notin stopped /\ f \notin marked
             /\ UNCHANGED <<clock, welcome, stopped, wlease, marked, sent, late>>
  BY <1>4 DEF Look, SeenBefore, MayContact, TypeOK
<1>. QED
  BY <1>1, <1>2, <1>3, <1>4, TabFrame

\* What a tab looks at has a plan, and none that is alive once it is stopped.
LEMMA StopStep ==
  ASSUME TypeOK, StopEndsPlans, [Next]_vars
  PROVE  StopEndsPlans'
<1> SUFFICES ASSUME NEW t \in Tabs, tab'[t].pc = "looked"
             PROVE  /\ welcome'[tab'[t].who] # "none"
                    /\ tab'[t].who \in stopped' => welcome'[tab'[t].who] # "planned"
  BY DEF StopEndsPlans
<1>1. CASE tab'[t] = tab[t]
  <2> DEFINE f == tab[t].who
  <2>1. f \in Followers
    BY <1>1, Busy
  <2>2. /\ welcome[f] # "none"
        /\ f \in stopped => welcome[f] # "planned"
    BY <1>1 DEF StopEndsPlans
  <2>3. welcome'[f] # "none" /\ (f \in stopped => welcome'[f] # "planned")
    BY <2>1, <2>2, WelcomeFrame
  <2>4. ASSUME NEW g \in Followers, StopContact(g)
        PROVE  f \in stopped' => f \in stopped \/ welcome'[f] # "planned"
    BY <2>1, <2>4 DEF StopContact, WithoutWelcome, Recorded, TypeOK
  <2>. QED
    BY <1>1, <2>3, <2>4, StopFrame
<1>2. ASSUME NEW f \in Followers,
             tab'[t] = [pc |-> "looked", who |-> f, at |-> clock, ok |-> FALSE,
                        seen |-> marked],
             welcome[f] = "planned", f \notin stopped, UNCHANGED <<welcome, stopped>>
      PROVE  /\ welcome'[tab'[t].who] # "none"
             /\ tab'[t].who \in stopped' => welcome'[tab'[t].who] # "planned"
  BY <1>2
<1>. QED
  BY <1>1, <1>2, LookedFrame

\* A tab that is granted a welcome is granted one that is planned.
LEMMA GrantStep ==
  ASSUME TypeOK, StopEndsPlans, [Next]_vars,
         NEW t \in Tabs, tab[t].pc = "looked", tab'[t].pc = "opening"
  PROVE  tab[t].who \notin stopped
<1>1. WelcomeStep(t)
  BY TabFrame
<1>2. /\ ~OpenChat(t) /\ ~SendWelcome(t) /\ ~AnswerWelcome(t) /\ ~NoteWelcome(t)
      /\ \A f \in Followers : ~Look(t, f)
  BY DEF OpenChat, SendWelcome, AnswerWelcome, NoteWelcome, Look
<1>3. ClaimWelcome(t)
  BY <1>1, <1>2 DEF WelcomeStep
<1>4. welcome[tab[t].who] = "planned"
  BY <1>3 DEF ClaimWelcome, Idle, TypeOK
<1>. QED
  BY <1>4 DEF StopEndsPlans

-----------------------------------------------------------------------------
(* A welcome is not repeated in time while its mark is kept.               *)

\* What SentOnce says of one follower.
SentOnceTo(f) ==
    f \notin late \cup erased =>
        /\ sent[f] <= 1
        /\ sent[f] = 1 =>
             /\ f \in marked
             /\ \A t \in Tabs : tab[t].who = f =>
                  /\ tab[t].pc = "looked" => tab[t].at < wlease[f].until
                  /\ tab[t].pc \in {"opening", "marked"} =>
                       wlease[f].owner # t \/ wlease[f].until <= clock

\* It is kept by a step that sends nothing to the follower, moves neither its
\* lease nor a tab of it closer to sending, and turns no clock back.
LEMMA SentFrame ==
  ASSUME TypeOK, TypeOK', NEW f \in Followers, SentOnceTo(f),
         UNCHANGED <<sent, late>>, clock <= clock',
         marked \subseteq marked' \cup erased', erased \subseteq erased',
         wlease'[f].owner = wlease[f].owner, wlease'[f].until = wlease[f].until,
         \A t \in Tabs :
           \/ tab'[t] = tab[t]
           \/ tab'[t].pc \notin {"looked", "opening", "marked"}
           \/ tab'[t].who = tab[t].who /\ tab[t].pc = "opening" /\ tab'[t].pc = "marked"
  PROVE  SentOnceTo(f)'
<1> SUFFICES ASSUME f \notin late \cup erased, sent[f] = 1, NEW t \in Tabs, tab'[t].who = f
             PROVE  /\ tab'[t].pc = "looked" => tab'[t].at < wlease'[f].until
                    /\ tab'[t].pc \in {"opening", "marked"} =>
                         wlease'[f].owner # t \/ wlease'[f].until <= clock'
  BY DEF SentOnceTo
<1>1. clock \in Nat /\ clock' \in Nat /\ wlease[f].until \in Nat
  BY FollowbackAssumption DEF TypeOK, LeaseRows
<1>2. CASE tab'[t] = tab[t]
  BY <1>1, <1>2 DEF SentOnceTo
<1>3. CASE tab'[t].pc \notin {"looked", "opening", "marked"}
  BY <1>3
<1>4. CASE tab'[t].who = tab[t].who /\ tab[t].pc = "opening" /\ tab'[t].pc = "marked"
  BY <1>1, <1>4 DEF SentOnceTo
<1>. QED
  BY <1>2, <1>3, <1>4

\* A result that a tab reports leaves the lease with its owner and its end.
LEMMA FinishKeeps ==
  ASSUME TypeOK, NEW t, NEW g \in Followers, NEW s, NEW f \in Followers,
         wlease' = Finished(t, g, s)
  PROVE  wlease'[f].owner = wlease[f].owner /\ wlease'[f].until = wlease[f].until
BY DEF Finished, TypeOK, LeaseRows

\* The tab that sends is the last that can send in time.
LEMMA SendOnce ==
  ASSUME TypeOK, TypeOK', TabsAreSane, NEW t \in Tabs, SendWelcome(t),
         \A u \in Tabs : u # t => tab'[u] = tab[u],
         NEW f \in Followers, SentOnceTo(f)
  PROVE  SentOnceTo(f)'
<1>1. /\ UNCHANGED <<wlease, marked, erased, clock>>
      /\ tab'[t].pc = "answered"
      /\ tab[t].pc = "marked"
  BY WelcomeRows DEF SendWelcome
<1>2. /\ clock \in Nat /\ wlease[f].until \in Nat /\ sent[f] \in Nat
      /\ \A u \in Tabs : tab[u].at \in Nat
  BY FollowbackAssumption DEF TypeOK, LeaseRows, TabRows
<1>3. CASE UNCHANGED <<sent, late>> \/ tab[t].who # f
  <2>1. sent'[f] = sent[f] /\ (f \in late' <=> f \in late)
    BY <1>3 DEF SendWelcome, TypeOK
  <2>. QED
    BY <1>1, <1>2, <2>1 DEF SentOnceTo
<1>4. CASE tab[t].who = f /\ sent' = [sent EXCEPT ![f] = @ + 1]
  <2>1. SUFFICES ASSUME f \notin late' \cup erased'
                 PROVE  SentOnceTo(f)'
    BY DEF SentOnceTo
  <2>2. wlease[f].owner = t /\ clock < wlease[f].until /\ f \notin late
    <3>1. sent' # sent
      BY <1>2, <1>4 DEF TypeOK
    <3>2. late' = IF wlease[f].owner = t /\ clock < wlease[f].until
                  THEN late ELSE late \cup {f}
      BY <1>4, <3>1 DEF SendWelcome
    <3>. QED
      BY <2>1, <3>2
  <2>3. sent[f] = 0
    BY <1>1, <1>2, <1>4, <2>1, <2>2 DEF SentOnceTo
  <2>4. sent'[f] = 1
    BY <1>4, <2>3 DEF TypeOK
  <2>5. f \in marked
    BY <1>1, <1>4, <2>1 DEF TabsAreSane
  <2>6. ASSUME NEW u \in Tabs, tab'[u].who = f
        PROVE  /\ tab'[u].pc = "looked" => tab'[u].at < wlease'[f].until
               /\ tab'[u].pc \in {"opening", "marked"} =>
                    wlease'[f].owner # u \/ wlease'[f].until <= clock'
    <3>1. CASE u = t
      BY <1>1, <3>1
    <3>2. CASE u # t
      BY <1>1, <1>2, <2>2, <3>2 DEF TabsAreSane
    <3>. QED
      BY <3>1, <3>2
  <2>. QED
    BY <1>1, <2>4, <2>5, <2>6 DEF SentOnceTo
<1>. QED
  BY <1>3, <1>4 DEF SendWelcome

\* A tab is granted the lease of a welcome already sent in time only if it
\* looked after the lease had run out, which the mark prevents.
LEMMA ClaimOnce ==
  ASSUME TypeOK, TypeOK', NEW t \in Tabs, ClaimWelcome(t),
         \A u \in Tabs : u # t => tab'[u] = tab[u],
         NEW f \in Followers, SentOnceTo(f)
  PROVE  SentOnceTo(f)'
<1>1. /\ UNCHANGED <<sent, late, erased, marked, clock>>
      /\ tab[t].pc = "looked"
      /\ tab'[t].pc \in {"opening", "idle"}
      /\ clock \in Nat
  <2>1. UNCHANGED <<sent, late, erased, marked, clock>> /\ tab[t].pc = "looked"
    BY DEF ClaimWelcome
  <2>2. tab'[t].pc \in {"opening", "idle"}
    BY WelcomeRows
  <2>3. clock \in Nat
    BY FollowbackAssumption DEF TypeOK
  <2>. QED
    BY <2>1, <2>2, <2>3
<1>2. CASE tab'[t] = Idle /\ wlease' = wlease
  BY <1>1, <1>2, SentFrame DEF Idle
<1>3. CASE tab[t].who = f /\ Free(wlease[f], tab[t].at)
  <2>1. f \in late \cup erased \/ sent[f] # 1
    <3>1. wlease[f].until \in Nat /\ tab[t].at \in Nat
      BY FollowbackAssumption DEF TypeOK, LeaseRows, TabRows
    <3>. QED
      BY <1>1, <1>3, <3>1 DEF SentOnceTo, Free
  <2>. QED
    BY <1>1, <2>1 DEF SentOnceTo
<1>4. CASE tab[t].who # f
  <2>1. wlease'[f] = wlease[f]
    BY <1>4, Busy DEF ClaimWelcome, TypeOK
  <2>2. tab'[t].who # f
    <3>1. \/ tab' = [tab EXCEPT ![t] = [@ EXCEPT !.pc = "opening"]]
          \/ tab' = [tab EXCEPT ![t] = Idle]
      BY DEF ClaimWelcome
    <3>. QED
      BY <1>4, <3>1, FollowbackAssumption DEF TypeOK, Idle, TabRows
  <2>. QED
    BY <1>1, <2>1, <2>2 DEF SentOnceTo
<1>5. \/ Free(wlease[tab[t].who], tab[t].at)
      \/ tab'[t] = Idle /\ wlease' = wlease
  BY DEF ClaimWelcome, TypeOK
<1>. QED
  BY <1>2, <1>3, <1>4, <1>5

\* A tab that looks at a welcome does not look at one that was sent.
LEMMA LookOnce ==
  ASSUME TypeOK, TypeOK', NEW t \in Tabs, NEW g \in Followers, Look(t, g),
         \A u \in Tabs : u # t => tab'[u] = tab[u],
         NEW f \in Followers, SentOnceTo(f)
  PROVE  SentOnceTo(f)'
<1>1. UNCHANGED <<sent, late, erased, marked, clock, wlease>> /\ tab[t].pc = "idle"
  BY DEF Look
<1>2. CASE tab' = tab
  BY <1>1, <1>2 DEF SentOnceTo
<1>3. CASE tab' # tab
  <2>1. tab'[t].who = g /\ g \notin marked
    BY <1>3 DEF Look, SeenBefore, TypeOK
  <2>. QED
    BY <1>1, <2>1 DEF SentOnceTo
<1>. QED
  BY <1>2, <1>3

\* A mark stays or is known to have been taken away.
MarkKept == marked \subseteq marked' \cup erased' /\ erased \subseteq erased'

\* Time does not go back, and a mark that goes is known to have been taken away.
LEMMA ClockFrame ==
  ASSUME TypeOK, [Next]_vars
  PROVE  clock <= clock' /\ MarkKept
<1>1. clock \in Nat
  BY FollowbackAssumption DEF TypeOK
<1>2. CASE Tick
  BY <1>1, <1>2 DEF Tick, welcomeVars, MarkKept
<1>3. ASSUME NEW t \in Tabs, WelcomeStep(t) \/ ReplyStep(t)
      PROVE  clock' = clock /\ MarkKept
  BY <1>3 DEF WelcomeStep, ReplyStep, Look, ClaimWelcome, OpenChat, SendWelcome,
              AnswerWelcome, NoteWelcome, BeginReply, NoteReply, SaveMarks, MarkKept,
              welcomeVars
<1>4. ASSUME NEW t \in Tabs, FollowStep(t) \/ Crash(t)
      PROVE  UNCHANGED <<clock, marked, erased>>
  BY <1>4 DEF FollowStep, Ask, Claim, Click, Answer, ReportFollowed, Crash, welcomeVars
<1>5. ASSUME NEW f \in Followers, BeginWelcome(f) \/ StopContact(f)
      PROVE  UNCHANGED <<clock, marked, erased>>
  BY <1>5 DEF BeginWelcome, StopContact
<1>6. CASE CreateWelcome \/ OrderCooldown \/ Switch \/ ReadCircuit \/ Restart
  BY <1>1, <1>6 DEF CreateWelcome, OrderCooldown, Switch, ReadCircuit, Restart, welcomeVars,
                    MarkKept
<1>7. CASE UNCHANGED vars
  BY <1>1, <1>7 DEF vars, welcomeVars, MarkKept
<1>8. UNCHANGED <<clock, marked, erased>> => clock <= clock' /\ MarkKept
  BY <1>1 DEF MarkKept
<1>9. clock' = clock => clock <= clock'
  BY <1>1
<1>. QED
  BY <1>2, <1>3, <1>4, <1>5, <1>6, <1>7, <1>8, <1>9 DEF Next

\* Apart from the tabs' welcome steps, welcomes are not sent and not leased.
LEMMA QuietFrame ==
  ASSUME TypeOK, [Next]_vars,
         \A t \in Tabs : ~ClaimWelcome(t) /\ ~SendWelcome(t),
         NEW f \in Followers
  PROVE  /\ UNCHANGED <<sent, late>>
         /\ wlease'[f].owner = wlease[f].owner /\ wlease'[f].until = wlease[f].until
<1>1. ASSUME NEW t \in Tabs, OpenChat(t) \/ AnswerWelcome(t)
      PROVE  /\ wlease'[f].owner = wlease[f].owner /\ wlease'[f].until = wlease[f].until
             /\ UNCHANGED <<sent, late>>
  <2>1. tab[t].who \in Followers
    BY <1>1, Busy DEF OpenChat, AnswerWelcome
  <2>2. wlease' = wlease \/ \E s : wlease' = Finished(t, tab[t].who, s)
    BY <1>1 DEF OpenChat, AnswerWelcome
  <2>3. wlease'[f].owner = wlease[f].owner /\ wlease'[f].until = wlease[f].until
    BY <2>1, <2>2, FinishKeeps
  <2>. QED
    BY <1>1, <2>3 DEF OpenChat, AnswerWelcome
<1>2. ASSUME NEW t \in Tabs, NEW g \in Followers, Look(t, g)
      PROVE  UNCHANGED <<sent, late, wlease>>
  BY <1>2 DEF Look
<1>3. \/ UNCHANGED <<sent, late, wlease>>
      \/ \E t \in Tabs : OpenChat(t) \/ AnswerWelcome(t)
  BY <1>2
  DEF Next, vars, FollowStep, WelcomeStep, circuitVars, followVars, welcomeVars,
      Ask, Claim, Click, Answer, ReportFollowed, BeginWelcome, CreateWelcome, StopContact,
      NoteWelcome, ReplyStep, BeginReply, NoteReply, OrderCooldown, ReadCircuit, Switch, Crash, Restart, Tick
<1>. QED
  BY <1>1, <1>3

\* No step repeats a welcome in time.
LEMMA SentStep ==
  ASSUME TypeOK, TypeOK', TabsAreSane, SentOnce, [Next]_vars
  PROVE  SentOnce'
<1> SUFFICES ASSUME NEW f \in Followers
             PROVE  SentOnceTo(f)'
  BY DEF SentOnce, SentOnceTo
<1>1. SentOnceTo(f)
  BY DEF SentOnce, SentOnceTo
<1>2. ASSUME NEW t \in Tabs, WelcomeStep(t)
      PROVE  \A u \in Tabs : u # t => tab'[u] = tab[u]
  BY <1>2 DEF WelcomeStep, Look, ClaimWelcome, OpenChat, SendWelcome, AnswerWelcome,
              NoteWelcome, TypeOK
<1>3. ASSUME NEW t \in Tabs, SendWelcome(t)
      PROVE  SentOnceTo(f)'
  BY <1>1, <1>2, <1>3, SendOnce DEF WelcomeStep
<1>4. ASSUME NEW t \in Tabs, ClaimWelcome(t)
      PROVE  SentOnceTo(f)'
  BY <1>1, <1>2, <1>4, ClaimOnce DEF WelcomeStep
<1>5. ASSUME NEW t \in Tabs, NEW g \in Followers, Look(t, g)
      PROVE  SentOnceTo(f)'
  BY <1>1, <1>2, <1>5, LookOnce DEF WelcomeStep
<1>6. ASSUME \A t \in Tabs : ~ClaimWelcome(t) /\ ~SendWelcome(t) /\ \A g \in Followers : ~Look(t, g)
      PROVE  SentOnceTo(f)'
  <2>1. ASSUME NEW t \in Tabs
        PROVE  \/ tab'[t] = tab[t]
               \/ tab'[t].pc \notin {"looked", "opening", "marked"}
               \/ tab'[t].who = tab[t].who /\ tab[t].pc = "opening" /\ tab'[t].pc = "marked"
    <3>1. WelcomeStep(t) => OpenChat(t) \/ AnswerWelcome(t) \/ NoteWelcome(t)
      BY <1>6 DEF WelcomeStep
    <3>2. OpenChat(t) => tab[t].pc = "opening"
      BY DEF OpenChat
    <3>3. WelcomeStep(t) =>
            \/ tab'[t].pc \notin {"looked", "opening", "marked"}
            \/ tab'[t].who = tab[t].who /\ tab[t].pc = "opening" /\ tab'[t].pc = "marked"
      BY <3>1, <3>2, WelcomeRows
    <3>. QED
      BY <3>3, TabFrame
  <2>. QED
    BY <1>1, <1>6, <2>1, ClockFrame, QuietFrame, SentFrame DEF MarkKept
<1>. QED
  BY <1>3, <1>4, <1>5, <1>6

\* A tab that moves keeps its stamp, takes the present one or gives up, and
\* reaches "marked" by marking.
LEMMA StampFrame ==
  ASSUME TypeOK, NEW t \in Tabs,
         FollowStep(t) \/ WelcomeStep(t) \/ ReplyStep(t) \/ Crash(t)
  PROVE  \/ tab'[t] = tab[t]
         \/ tab'[t].at = 0 /\ tab'[t].pc # "marked"
         \/ tab'[t].at = tab[t].at /\ tab'[t].pc # "marked"
         \/ tab'[t].at = clock /\ clock' = clock /\ tab'[t].pc # "marked"
         \/ tab'[t].at = tab[t].at /\ tab'[t].who \in marked'
<1>1. tab \in [Tabs -> TabRows]
  BY DEF TypeOK
<1>2. ASSUME NEW f \in Followers, Ask(t, f)
      PROVE  tab'[t].at = clock /\ clock' = clock /\ tab'[t].pc # "marked"
  BY <1>1, <1>2 DEF Ask
<1>3. ASSUME NEW f \in Followers, Look(t, f)
      PROVE  \/ tab'[t] = tab[t]
             \/ tab'[t].at = clock /\ clock' = clock /\ tab'[t].pc # "marked"
  BY <1>1, <1>3 DEF Look
<1>4. ASSUME NEW f \in Followers, ReportFollowed(t, f)
      PROVE  tab'[t] = tab[t]
  BY <1>4 DEF ReportFollowed
<1>5. CASE Claim(t) \/ ClaimWelcome(t) \/ AnswerWelcome(t)
  <2>1. \/ tab'[t] = Idle
        \/ tab'[t] = [tab[t] EXCEPT !.pc = "granted"]
        \/ tab'[t] = [tab[t] EXCEPT !.pc = "opening"]
        \/ tab'[t] = [tab[t] EXCEPT !.pc = "closing"]
    BY <1>1, <1>5 DEF Claim, ClaimWelcome, AnswerWelcome
  <2>. QED
    BY <1>1, <2>1 DEF TabRows, Idle
<1>6. CASE Click(t) \/ SendWelcome(t)
  <2>1. PICK ok \in BOOLEAN :
          \/ tab' = [tab EXCEPT ![t] = [@ EXCEPT !.pc = "answering", !.ok = ok]]
          \/ tab' = [tab EXCEPT ![t] = [@ EXCEPT !.pc = "answered", !.ok = ok]]
    BY <1>6, Zenon DEF Click, SendWelcome
  <2>. QED
    BY <1>1, <2>1 DEF TabRows
<1>7. CASE Answer(t) \/ NoteWelcome(t) \/ ReplyStep(t) \/ Crash(t)
  BY <1>1, <1>7 DEF Answer, NoteWelcome, ReplyStep, BeginReply, NoteReply, Crash, Idle
<1>8. CASE OpenChat(t)
  <2>1. \/ tab'[t] = Idle
        \/ /\ tab'[t] = [tab[t] EXCEPT !.pc = "marked"]
           /\ tab[t].who \in marked'
    BY <1>1, <1>8 DEF OpenChat, SaveMarks
  <2>. QED
    BY <1>1, <2>1 DEF TabRows, Idle
<1>. QED
  BY <1>2, <1>3, <1>4, <1>5, <1>6, <1>7, <1>8 DEF FollowStep, WelcomeStep

\* A stamp never lies ahead of the clock, and only what is marked is sent.
LEMMA SaneStep ==
  ASSUME TypeOK, TypeOK', TabsAreSane, [Next]_vars
  PROVE  TabsAreSane'
<1> SUFFICES ASSUME NEW t \in Tabs
             PROVE  /\ tab'[t].at <= clock'
                    /\ tab'[t].pc = "marked" => tab'[t].who \in marked' \cup erased'
  BY DEF TabsAreSane
<1>1. /\ clock \in Nat /\ clock' \in Nat /\ tab[t].at \in Nat /\ tab[t].at <= clock
      /\ tab[t].pc = "marked" => tab[t].who \in marked \cup erased
  BY FollowbackAssumption DEF TypeOK, TabRows, TabsAreSane
<1>2. clock <= clock' /\ marked \subseteq marked' \cup erased' /\ erased \subseteq erased'
  BY ClockFrame DEF MarkKept
<1>3. CASE tab'[t] = tab[t]
  BY <1>1, <1>2, <1>3
<1>4. CASE tab'[t] # tab[t]
  <2>1. FollowStep(t) \/ WelcomeStep(t) \/ ReplyStep(t) \/ Crash(t)
    BY <1>4, TabFrame
  <2>2. \/ tab'[t].at = 0 /\ tab'[t].pc # "marked"
        \/ tab'[t].at = tab[t].at /\ tab'[t].pc # "marked"
        \/ tab'[t].at = clock /\ clock' = clock /\ tab'[t].pc # "marked"
        \/ tab'[t].at = tab[t].at /\ tab'[t].who \in marked'
    BY <1>4, <2>1, StampFrame
  <2>. QED
    BY <1>1, <1>2, <2>2
<1>. QED
  BY <1>3, <1>4

-----------------------------------------------------------------------------
(* The theorems.                                                           *)

\* The invariant holds at first and is kept by every step.
LEMMA InitIInv == Init => IInv
<1> SUFFICES ASSUME Init
             PROVE  IInv
  OBVIOUS
<1>1. TypeOK
  BY InitTypeOK
<1>2. OneCanary /\ CanaryIsLeased /\ StopEndsPlans /\ TabsAreSane
  BY DEF Init, Idle, OneCanary, CanaryIsLeased, StopEndsPlans, TabsAreSane
<1>3. SentOnce
  BY DEF Init, SentOnce
<1>. QED
  BY <1>1, <1>2, <1>3 DEF IInv

LEMMA StepIInv == IInv /\ [Next]_vars => IInv'
<1> SUFFICES ASSUME IInv, [Next]_vars
             PROVE  IInv'
  OBVIOUS
<1>1. TypeOK /\ OneCanary /\ CanaryIsLeased /\ StopEndsPlans /\ TabsAreSane /\ SentOnce
  BY DEF IInv
<1>2. TypeOK'
  BY <1>1, StepTypeOK
<1>3. OneCanary' /\ CanaryIsLeased'
  BY <1>1, CanaryStep
<1>4. StopEndsPlans'
  BY <1>1, StopStep
<1>5. TabsAreSane'
  BY <1>1, <1>2, SaneStep
<1>6. SentOnce'
  BY <1>1, <1>2, SentStep
<1>. QED
  BY <1>2, <1>3, <1>4, <1>5, <1>6 DEF IInv

\* Every reachable state satisfies the invariant, whatever the tabs do.
THEOREM Invariance == Spec => []IInv
BY InitIInv, StepIInv, PTL DEF Spec

\* The types of the model are never left.
THEOREM TypeCorrect == Spec => []TypeOK
<1>1. IInv => TypeOK
  BY DEF IInv
<1>. QED
  BY <1>1, Invariance, PTL

\* During a probation at most one tab has been let through, for any number of
\* tabs, followers and commands of the operator.
THEOREM OneCanaryAlways == Spec => []OneCanary
<1>1. IInv => OneCanary
  BY DEF IInv
<1>. QED
  BY <1>1, Invariance, PTL

\* Only the answer of the tab let through closes the circuit.
THEOREM CanaryCloses == Spec => ClosedByItsCanary
<1>1. IInv /\ [Next]_vars =>
        [circuit.state # "closed" /\ circuit'.state = "closed" =>
           \E t \in canaryTabs : /\ tab[t].pc = "answering" /\ tab[t].ok
                                 /\ tab[t].who = circuit.canary
                                 /\ lease[circuit.canary].owner = t]_vars
  BY CloseStep DEF IInv
<1>. QED
  BY <1>1, Invariance, PTL DEF Spec, ClosedByItsCanary

\* Nobody is granted the welcome of a contact that asked to be left alone.
THEOREM StopHeeded == Spec => StoppedNotWelcomed
<1>1. IInv /\ [Next]_vars =>
        [\A t \in Tabs :
           tab[t].pc = "looked" /\ tab'[t].pc = "opening" => tab[t].who \notin stopped]_vars
  BY GrantStep DEF IInv
<1>. QED
  BY <1>1, Invariance, PTL DEF Spec, StoppedNotWelcomed

\* A second welcome to a follower means that one was sent under an expired lease,
\* or that a tab's older copy of the marks was saved over the mark of the first.
THEOREM SecondWelcomeExplained == Spec => []WelcomedTwiceExplained
<1>1. IInv => WelcomedTwiceExplained
  BY DEF IInv, SentOnce, WelcomedTwiceExplained, TypeOK
<1>. QED
  BY <1>1, Invariance, PTL

-----------------------------------------------------------------------------
(* The account implements CircuitBreaker.                                  *)

\* A step leaves the clock alone or lets one unit pass.
LEMMA ClockMoves ==
  ASSUME [Next]_vars
  PROVE  clock' = clock \/ clock' = clock + 1
<1>1. CASE Tick
  BY <1>1 DEF Tick
<1>2. ASSUME NEW t \in Tabs, WelcomeStep(t) \/ ReplyStep(t)
      PROVE  clock' = clock
  BY <1>2 DEF WelcomeStep, ReplyStep, Look, ClaimWelcome, OpenChat, SendWelcome,
              AnswerWelcome, NoteWelcome, BeginReply, NoteReply
<1>3. ASSUME NEW t \in Tabs, FollowStep(t) \/ Crash(t)
      PROVE  clock' = clock
  BY <1>3 DEF FollowStep, Ask, Claim, Click, Answer, ReportFollowed, Crash
<1>4. ASSUME NEW f \in Followers, BeginWelcome(f) \/ StopContact(f)
      PROVE  clock' = clock
  BY <1>4 DEF BeginWelcome, StopContact
<1>5. CASE CreateWelcome \/ OrderCooldown \/ Switch \/ ReadCircuit \/ Restart
  BY <1>5 DEF CreateWelcome, OrderCooldown, Switch, ReadCircuit, Restart
<1>6. CASE UNCHANGED vars
  BY <1>6 DEF vars
<1>. QED
  BY <1>1, <1>2, <1>3, <1>4, <1>5, <1>6 DEF Next

\* What the clock, the circuit and the leases are.
LEMMA BreakerTypes ==
  ASSUME TypeOK
  PROVE  /\ clock \in Nat
         /\ circuit \in [state: CircuitStates, until: Nat, canary: Followers \cup {NoOne}]
         /\ lease \in [Followers -> LeaseRows]
         /\ \A f \in Followers : lease[f].until \in Nat
         /\ tab \in [Tabs -> TabRows]
BY FollowbackAssumption DEF TypeOK, CircuitRows, LeaseRows

\* Nobody has a claim at first.
LEMMA BreakerStarts == Init => Breaker!BreakerInit
BY DEF Init, NoLease, Claims, Breaker!BreakerInit

\* A granted claim is given out by the breaker too: the stamp is of the past, and
\* the lease before had run out by then.
LEMMA ClaimGivenOut ==
  ASSUME TypeOK, TabsAreSane, NEW t \in Tabs, tab[t].pc = "checked",
         Free(lease[tab[t].who], tab[t].at),
         lease' = [lease EXCEPT ![tab[t].who] = Claimed(t, tab[t].at)]
  PROVE  tab[t].who \in Followers /\ Breaker!GivenOut(tab[t].who)
<1> DEFINE f == tab[t].who
           at == tab[t].at
<1>1. /\ f \in Followers /\ at \in Nat /\ at <= clock
      /\ Lease \in Nat \ {0} /\ clock \in Nat
      /\ lease \in [Followers -> LeaseRows]
      /\ \A g \in Followers : lease[g].until \in Nat
  <2>1. f \in Followers /\ at \in 0..MaxClock
    BY Busy
  <2>2. at <= clock
    BY DEF TabsAreSane
  <2>. HIDE DEF f, at
  <2>3. at \in Nat
    BY <2>1, FollowbackAssumption
  <2>4. Lease \in Nat \ {0}
    BY FollowbackAssumption
  <2>. QED
    BY <2>1, <2>2, <2>3, <2>4, BreakerTypes
<1>2. lease[f].until <= at
  BY DEF Free
<1>3. lease' = [lease EXCEPT ![f] = [state |-> "claimed", owner |-> t, until |-> at + Lease]]
  BY DEF Claimed
<1>. HIDE DEF f, at
<1>4. Claims[f].until = lease[f].until
  BY <1>1 DEF Claims
<1>5. at + Lease \in Claims[f].until + 1 .. clock + Lease /\ Claims[f].until <= clock
  BY <1>1, <1>2, <1>4
<1>6. Claims' = [Claims EXCEPT ![f] = [owner |-> t, until |-> at + Lease]]
  <2>1. lease'[f] = [state |-> "claimed", owner |-> t, until |-> at + Lease]
    BY <1>1, <1>3
  <2>2. \A g \in Followers : g # f => lease'[g] = lease[g]
    BY <1>1, <1>3
  <2>3. Claims' = [g \in Followers |-> [owner |-> lease'[g].owner, until |-> lease'[g].until]]
    BY DEF Claims
  <2>4. \A g \in Followers :
          [owner |-> lease'[g].owner, until |-> lease'[g].until] =
            IF g = f THEN [owner |-> t, until |-> at + Lease] ELSE Claims[g]
    BY <2>1, <2>2 DEF Claims
  <2>5. Claims \in [Followers -> {Claims[g] : g \in Followers}]
    BY DEF Claims
  <2>. QED
    BY <1>1, <2>3, <2>4, <2>5
<1>7. Breaker!GivenOut(f)
  BY <1>5, <1>6 DEF Breaker!GivenOut
<1>. QED
  BY <1>1, <1>7 DEF f

\* A cooldown that was over at a stamp of the past is over now.
LEMMA RipeIsOver ==
  ASSUME TypeOK, NEW at \in Nat, at <= clock, Ripe(at)
  PROVE  Breaker!Over
BY BreakerTypes DEF Ripe, Breaker!Over

\* What a claim does to the circuit, to whoever it is granted.
LEMMA ClaimImplements ==
  ASSUME TypeOK, TabsAreSane, NEW t \in Tabs, Claim(t)
  PROVE  [Breaker!BreakerNext]_Breaker!breakerVars
<1> DEFINE f == tab[t].who
           at == tab[t].at
           c == Seen(at)
           granted == Permits(c) /\ Free(lease[f], at)
<1>1. /\ at \in Nat /\ at <= clock
      /\ circuit \in [state: CircuitStates, until: Nat, canary: Followers \cup {NoOne}]
      /\ tab[t].pc = "checked" /\ clock' = clock
  <2>1. tab[t].pc = "checked" /\ clock' = clock
    BY DEF Claim
  <2>2. at \in 0..MaxClock
    BY <2>1, Busy
  <2>3. at <= clock
    BY DEF TabsAreSane
  <2>. HIDE DEF at
  <2>4. at \in Nat
    BY <2>2, FollowbackAssumption
  <2>. QED
    BY <2>1, <2>3, <2>4, BreakerTypes
<1>2. /\ circuit' = IF granted /\ c.state = "canary" THEN [c EXCEPT !.canary = f] ELSE c
      /\ lease' = IF granted THEN [lease EXCEPT ![f] = Claimed(t, at)] ELSE lease
  BY DEF Claim
<1>3. Ripe(at) => Breaker!Over
  BY <1>1, RipeIsOver
<1>4. CASE ~granted
  <2>1. circuit' = c /\ Claims' = Claims
    BY <1>2, <1>4 DEF Claims
  <2>2. CASE Ripe(at)
    <3>1. circuit' = [circuit EXCEPT !.state = "canary", !.canary = NoOne]
      BY <2>1, <2>2 DEF Seen
    <3>2. Breaker!Probe
      BY <1>1, <1>3, <2>1, <2>2, <3>1 DEF Breaker!Probe
    <3>. QED
      BY <3>2 DEF Breaker!BreakerNext
  <2>3. CASE ~Ripe(at)
    BY <1>1, <2>1, <2>3 DEF Seen, Breaker!breakerVars
  <2>. QED
    BY <2>2, <2>3
<1>5. CASE granted
  <2>1. f \in Followers /\ Breaker!GivenOut(f)
    BY <1>1, <1>2, <1>5, ClaimGivenOut
  <2>2. CASE c.state = "closed"
    <3>1. circuit' = c /\ ~Ripe(at)
      BY <1>1, <1>2, <1>5, <2>2 DEF Seen
    <3>2. circuit' = circuit /\ circuit.state = "closed"
      BY <2>2, <3>1 DEF Seen
    <3>. HIDE DEF f
    <3>3. Breaker!Pass(f)
      BY <1>1, <2>1, <3>2 DEF Breaker!Pass
    <3>. QED
      BY <2>1, <3>3 DEF Breaker!BreakerNext
  <2>3. CASE c.state # "closed"
    <3>1. /\ c.state = "canary" /\ c.canary = NoOne
          /\ circuit' = [c EXCEPT !.canary = f]
      BY <1>2, <1>5, <2>3 DEF Permits
    <3>. HIDE DEF f
    <3>2. /\ Breaker!Untried
          /\ circuit' = [circuit EXCEPT !.state = "canary", !.canary = f]
      <4>1. CASE Ripe(at)
        <5>1. c = [circuit EXCEPT !.state = "canary", !.canary = NoOne]
          BY <4>1 DEF Seen
        <5>. QED
          BY <1>1, <1>3, <3>1, <4>1, <5>1 DEF Breaker!Untried
      <4>2. CASE ~Ripe(at)
        <5>1. c = circuit
          BY <4>2 DEF Seen
        <5>. QED
          BY <1>1, <3>1, <5>1 DEF Breaker!Untried
      <4>. QED
        BY <4>1, <4>2
    <3>3. Breaker!Try(f)
      BY <1>1, <2>1, <3>2 DEF Breaker!Try
    <3>. QED
      BY <2>1, <3>3 DEF Breaker!BreakerNext
  <2>. QED
    BY <2>2, <2>3
<1>. QED
  BY <1>4, <1>5

\* A result closes the circuit under a trial only, or opens it, and leaves the
\* claims as they are.
LEMMA AnswerImplements ==
  ASSUME TypeOK, NEW t \in Tabs, Answer(t)
  PROVE  [Breaker!BreakerNext]_Breaker!breakerVars
<1> DEFINE f == tab[t].who
<1>1. /\ f \in Followers /\ f # NoOne /\ lease \in [Followers -> LeaseRows]
      /\ clock' = clock
  <2>1. tab[t].pc = "answering" /\ clock' = clock
    BY DEF Answer
  <2>2. f \in Followers
    BY <2>1, Busy
  <2>. HIDE DEF f
  <2>3. f # NoOne
    BY <2>2, FollowbackAssumption
  <2>. QED
    BY <2>1, <2>2, <2>3, BreakerTypes
<1>2. Claims' = Claims
  <2>1. PICK state : lease' = lease \/ lease' = [lease EXCEPT ![f].state = state]
    BY DEF Answer
  <2>2. \A g \in Followers : lease'[g].owner = lease[g].owner /\ lease'[g].until = lease[g].until
    BY <1>1, <2>1 DEF LeaseRows
  <2>. QED
    BY <2>2 DEF Claims
<1>3. \/ /\ IsCanary(f)
         /\ circuit' = [state |-> "closed", until |-> 0, canary |-> NoOne]
      \/ circuit' = Opened(clock + Cooldown)
      \/ circuit' = circuit
  BY DEF Answer
<1>4. CASE IsCanary(f) /\ circuit' = [state |-> "closed", until |-> 0, canary |-> NoOne]
  <2>1. Breaker!Close
    BY <1>1, <1>2, <1>4 DEF IsCanary, Breaker!Close
  <2>. QED
    BY <2>1 DEF Breaker!BreakerNext
<1>5. CASE circuit' = Opened(clock + Cooldown)
  <2>1. Cooldown \in 1..Cooldown
    BY FollowbackAssumption
  <2>2. Breaker!Open
    BY <1>1, <1>2, <1>5, <2>1 DEF Opened, Breaker!Open
  <2>. QED
    BY <2>2 DEF Breaker!BreakerNext
<1>6. CASE circuit' = circuit
  BY <1>1, <1>2, <1>6 DEF Breaker!breakerVars
<1>. QED
  BY <1>3, <1>4, <1>5, <1>6

\* Every step of the account is one of the breaker or leaves it alone.
LEMMA BreakerStep ==
  ASSUME TypeOK, TabsAreSane, [Next]_vars
  PROVE  [Breaker!BreakerNext]_Breaker!breakerVars
<1>1. CASE UNCHANGED <<circuit, canaryTabs, lease>> /\ clock' = clock
  BY <1>1 DEF Breaker!breakerVars, Claims
<1>2. CASE UNCHANGED <<circuit, canaryTabs, lease>> /\ clock' = clock + 1
  <2>1. Breaker!Pause
    BY <1>2 DEF Breaker!Pause, Claims
  <2>. QED
    BY <2>1 DEF Breaker!BreakerNext
<1>3. ASSUME NEW t \in Tabs, Claim(t) \/ Answer(t)
      PROVE  [Breaker!BreakerNext]_Breaker!breakerVars
  BY <1>3, ClaimImplements, AnswerImplements
<1>4. CASE OrderCooldown
  <2>1. Breaker!Open
    BY <1>4 DEF OrderCooldown, Opened, followVars, Breaker!Open, Claims
  <2>. QED
    BY <2>1 DEF Breaker!BreakerNext
<1>5. CASE ReadCircuit
  <2>1. Breaker!Probe
    BY <1>5 DEF ReadCircuit, Ripe, Seen, followVars, Breaker!Probe, Breaker!Over, Claims
  <2>. QED
    BY <2>1 DEF Breaker!BreakerNext
<1>. QED
  BY <1>1, <1>2, <1>3, <1>4, <1>5, CircuitFrame, ClockMoves

\* The account implements the circuit breaker: for any tabs, followers, lease and
\* cooldown, no claim is given out in a cooldown, one in a probation, and none
\* over a claim that has not run out.
THEOREM BreakerImplemented == Spec => ImplementsBreaker
<1>1. IInv /\ [Next]_vars => [Breaker!BreakerNext]_Breaker!breakerVars
  BY BreakerStep DEF IInv
<1>. QED
  BY <1>1, BreakerStarts, Invariance, PTL DEF Spec, ImplementsBreaker, Breaker!BreakerSpec

==============================================================================
