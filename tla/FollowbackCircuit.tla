-------------------------- MODULE FollowbackCircuit --------------------------
(***************************************************************************)
(* The follow-backs and welcome messages of one browser account.           *)
(*                                                                         *)
(* Chrome tabs find new followers (chrome-event-bridge/content.js), ask    *)
(* the server for a lease on each, click, and report what they saw.  The   *)
(* server (db.py, api.py) keeps the leases and a circuit breaker: one      *)
(* unresolved click opens it for a cooldown, after which one single        *)
(* "canary" action is let through.  A completed follow-back earns the      *)
(* follower one welcome message, drafted by a language model, fetched and  *)
(* sent by a tab of the messages page (dm-content.js), unless the follower *)
(* has asked not to be contacted.                                          *)
(*                                                                         *)
(* What the tabs remember lies in two maps of the browser's storage: the   *)
(* tries made with each follower and the welcomes marked as being sent.  A *)
(* tab reads a map whole and writes its own copy back whole, so that what  *)
(* another tab has saved in between is lost.                               *)
(*                                                                         *)
(* Every request is a transaction of its own; tabs may stall between any   *)
(* two of their steps, lose an answer, or be closed.  The server and the   *)
(* browser run on one host, so there is one clock.                         *)
(***************************************************************************)
EXTENDS Naturals

CONSTANTS Tabs,         \* content scripts; each is an owner_id
          Followers,    \* followers: action_key, username and plan id in one
          NoOne,        \* the empty canary_action_key, owner and follower
          Lease,        \* lease_seconds
          Cooldown,     \* FOLLOWBACK_COOLDOWN_MS
          MaxAttempts,  \* MAX_ATTEMPTS of content.js
          MaxClock,     \* bound: the last instant explored
          MaxOrders     \* bound: how many cooldown commands the operator gives

ASSUME FollowbackAssumption ==
    /\ NoOne \notin Tabs \cup Followers
    /\ Lease \in Nat \ {0}
    /\ Cooldown \in Nat \ {0}
    /\ {MaxAttempts, MaxClock, MaxOrders} \subseteq Nat

VARIABLES clock,
          welcoming,  \* the account's welcome_after_followback; does not change
          enabled,    \* web_account_settings.followback_enabled
          circuit,    \* browser_action_circuits: state, until, canary key
          lease,      \* browser_action_leases, action_type followback
          completed,  \* web_events of type followback_completed
          stopped,    \* browser_contact_suppressions
          baseline,   \* followers noted before the tabs began to watch
          attempts,   \* tikpocProcessedFollowers: tries made, all when done
          tab,        \* what each tab is doing, and its copy of the marks
          due,        \* completed actions whose welcome is to be planned
          drafting,   \* the one whose welcome the model is writing, or NoOne
          welcome,    \* browser_welcome_plans.state
          wlease,     \* browser_action_leases, action_type welcome_send
          marked,     \* tikpocDmProcessed: the welcomes that have an entry
          orders,     \* cooldown commands given so far
          sent,       \* history: welcomes really sent to each follower
          late,       \* history: one of them left under an expired lease
          erased,     \* history: a tab's older copy took away the mark
          canaryTabs  \* history: tabs granted the current canary

circuitVars == <<welcoming, enabled, circuit, canaryTabs, orders>>
followVars  == <<lease, completed, baseline, attempts>>
welcomeVars == <<due, drafting, welcome, wlease, marked, sent, late, erased>>
vars == <<clock, circuitVars, followVars, welcomeVars, stopped, tab>>

CircuitStates == {"closed", "cooldown", "canary"}
LeaseStates   == {"none", "claimed", "completed", "uncertain", "superseded"}
WelcomeStates == {"none", "planned", "sent", "uncertain", "superseded"}
TabPcs == {"idle", "checked", "granted", "answering",
           "looked", "opening", "marked", "answered", "closing", "replying"}

\* A tab that is busy is busy with a follower, unless it replies to a message;
\* seen is its copy of marked.
TabRows == {r \in [pc: TabPcs, who: Followers \cup {NoOne}, at: 0..MaxClock, ok: BOOLEAN,
                   seen: SUBSET Followers] :
              r.pc \notin {"idle", "replying"} => r.who \in Followers}

CircuitRows == [state: CircuitStates, until: 0..MaxClock + Cooldown,
                canary: Followers \cup {NoOne}]

LeaseRows == [state: LeaseStates, owner: Tabs \cup {NoOne}, until: 0..MaxClock + Lease]
Idle      == [pc |-> "idle", who |-> NoOne, at |-> 0, ok |-> FALSE, seen |-> {}]
NoLease   == [state |-> "none", owner |-> NoOne, until |-> 0]

TypeOK ==
    /\ clock \in 0..MaxClock
    /\ welcoming \in BOOLEAN
    /\ enabled \in BOOLEAN
    /\ circuit \in CircuitRows
    /\ lease \in [Followers -> LeaseRows]
    /\ wlease \in [Followers -> LeaseRows]
    /\ completed \subseteq Followers
    /\ stopped \subseteq Followers
    /\ due \subseteq Followers
    /\ drafting \in Followers \cup {NoOne}
    /\ marked \subseteq Followers
    /\ baseline \subseteq Followers
    /\ attempts \in [Followers -> 0..MaxAttempts]
    /\ tab \in [Tabs -> TabRows]
    /\ welcome \in [Followers -> WelcomeStates]
    /\ orders \in 0..MaxOrders
    /\ sent \in [Followers -> Nat]
    /\ late \subseteq Followers
    /\ erased \subseteq Followers
    /\ canaryTabs \subseteq Tabs

Init ==
    /\ clock = 0
    /\ welcoming \in BOOLEAN
    /\ enabled = TRUE
    /\ circuit = [state |-> "closed", until |-> 0, canary |-> NoOne]
    /\ lease = [f \in Followers |-> NoLease]
    /\ wlease = [f \in Followers |-> NoLease]
    /\ completed = {} /\ stopped = {} /\ due = {} /\ marked = {}
    /\ drafting = NoOne
    /\ baseline \in SUBSET Followers
    /\ attempts = [f \in Followers |-> IF f \in baseline THEN MaxAttempts ELSE 0]
    /\ tab = [t \in Tabs |-> Idle]
    /\ welcome = [f \in Followers |-> "none"]
    /\ orders = 0
    /\ sent = [f \in Followers |-> 0]
    /\ late = {} /\ erased = {}
    /\ canaryTabs = {}

-----------------------------------------------------------------------------
(* Leases and the circuit                                                  *)

\* Whether a claim stamped `at` may take the lease: never once the action is
\* completed, and not before the lease of another claim has run out.
Free(row, at) == row.state # "completed" /\ row.until <= at

Claimed(t, at) == [state |-> "claimed", owner |-> t, until |-> at + Lease]

\* A result is taken from the owner of the lease only, and a completed action
\* stays completed.
Answerable(row, t, state) ==
    /\ row.owner = t
    /\ state = "completed" \/ row.state # "completed"

\* A cooldown that is over has become a canary without a follower by the time
\* a claim or a reader looks at it.
Ripe(at) == circuit.state = "cooldown" /\ circuit.until <= at
Seen(at) == IF Ripe(at) THEN [circuit EXCEPT !.state = "canary", !.canary = NoOne]
                        ELSE circuit

\* MUTANT: a state the readers do not know.
OpenedMisnamed(until) == [state |-> "open", until |-> until, canary |-> NoOne]
Opened(until) == [state |-> "cooldown", until |-> until, canary |-> NoOne]

\* The tabs granted the canary that `c` is in, given those before this step.
CanaryTabs(c, at, granted) ==
    IF c.state # "canary" THEN {} ELSE (IF Ripe(at) THEN {} ELSE canaryTabs) \cup granted

\* A claim is let through by a closed circuit, or as the one canary.
\* MUTANT: every claim passes once the cooldown is over.
PermitsAll(c) == c.state # "cooldown"
Permits(c) == c.state = "closed" \/ (c.state = "canary" /\ c.canary = NoOne)

\* MUTANT: any completed action ends the probation.
IsCanaryOfAny(f) == circuit.state = "canary"
IsCanary(f) == circuit.state = "canary" /\ circuit.canary = f

MayContact(f) == f \notin stopped

-----------------------------------------------------------------------------
(* Follow-backs: content.js against the server                             *)

\* The map of tries as a tab has it in memory: read when its scan began, however
\* long ago, so that what other tabs have noted of some followers since is not in
\* it.  The entries of the baseline are in every copy.
Copies == {tries \in [Followers -> 0..MaxAttempts] : \A f \in Followers :
             tries[f] <= attempts[f] /\ (f \in baseline => tries[f] = attempts[f])}

\* A tab finds a follower it may still try, records the notification, and stamps
\* a claim; the server reads the operator's switch and the list of contacts to
\* leave alone before it turns to the lease.
Ask(t, f) ==
    /\ tab[t].pc = "idle"
    /\ \E tries \in Copies : tries[f] < MaxAttempts
    /\ enabled /\ MayContact(f)
    /\ tab' = [tab EXCEPT ![t] = [pc |-> "checked", who |-> f, at |-> clock,
                                  ok |-> FALSE, seen |-> {}]]
    /\ UNCHANGED <<clock, circuitVars, followVars, welcomeVars, stopped>>

\* claim_browser_followback_action: the circuit, then the lease.  A canary is
\* reserved for this follower first, and given back if the lease is taken.
Claim(t) ==
    LET f == tab[t].who  at == tab[t].at  c == Seen(at)
        granted == Permits(c) /\ Free(lease[f], at)
    IN  /\ tab[t].pc = "checked"
        /\ circuit' = IF granted /\ c.state = "canary" THEN [c EXCEPT !.canary = f] ELSE c
        /\ canaryTabs' = CanaryTabs(c, at, IF granted THEN {t} ELSE {})
        /\ lease' = IF granted THEN [lease EXCEPT ![f] = Claimed(t, at)] ELSE lease
        /\ tab' = [tab EXCEPT ![t] = IF granted THEN [@ EXCEPT !.pc = "granted"] ELSE Idle]
        /\ UNCHANGED <<clock, welcoming, enabled, orders, completed, baseline, attempts,
                       stopped, welcomeVars>>

\* A copy of the map with n more attempts of f; MaxAttempts ends them.
Tried(tries, f, n) ==
    [tries EXCEPT ![f] = IF @ + n > MaxAttempts THEN MaxAttempts ELSE @ + n]

\* The tab notes the attempt in its copy and saves that, clicks, reads the button
\* again 1.8 s later, reports what it saw as an event and saves its copy again.
\* A report without an answer, stored or not, makes the result uncertain and
\* counts as another attempt.
Click(t) ==
    LET f == tab[t].who IN
    /\ tab[t].pc = "granted"
    /\ \E followed, stored, told \in BOOLEAN, tries \in Copies :
         LET ok == followed /\ told IN
         /\ told => stored
         /\ attempts' = IF ok THEN [tries EXCEPT ![f] = MaxAttempts]
                        ELSE Tried(tries, f, IF told THEN 1 ELSE 2)
         /\ tab' = [tab EXCEPT ![t] = [@ EXCEPT !.pc = "answering", !.ok = ok]]
         /\ completed' = IF followed /\ stored THEN completed \cup {f} ELSE completed
    /\ UNCHANGED <<clock, circuitVars, lease, baseline, welcomeVars, stopped>>

\* A follower found already followed is reported without any claim.
ReportFollowed(t, f) ==
    /\ tab[t].pc = "idle"
    /\ \E tries \in Copies :
         /\ tries[f] < MaxAttempts
         /\ attempts' = [tries EXCEPT ![f] = MaxAttempts]
    /\ completed' = completed \cup {f}
    /\ UNCHANGED <<clock, circuitVars, lease, baseline, welcomeVars, stopped, tab>>

\* finish_browser_followback_action.  A completed canary closes the circuit, an
\* uncertain result opens it for a whole cooldown, whichever action it is of.
Answer(t) ==
    LET f == tab[t].who
        state == IF tab[t].ok THEN "completed" ELSE "uncertain"
        recorded == Answerable(lease[f], t, state)
    IN  /\ tab[t].pc = "answering"
        /\ lease' = IF recorded THEN [lease EXCEPT ![f].state = state] ELSE lease
        /\ circuit' = CASE recorded /\ tab[t].ok /\ IsCanary(f) ->
                             [state |-> "closed", until |-> 0, canary |-> NoOne]
                        [] recorded /\ ~tab[t].ok -> Opened(clock + Cooldown)
                        [] OTHER -> circuit
        /\ canaryTabs' = IF circuit'.state = "canary" THEN canaryTabs ELSE {}
        /\ due' = IF recorded /\ tab[t].ok /\ welcoming THEN due \cup {f} ELSE due
        /\ tab' = [tab EXCEPT ![t] = Idle]
        /\ UNCHANGED <<clock, welcoming, enabled, orders, completed, baseline, attempts,
                       stopped,
                       drafting, welcome, wlease, marked, sent, late, erased>>

-----------------------------------------------------------------------------
(* Welcome messages: browser_welcome.py, db.py and scanWelcome             *)


\* completed_followback_username: the event names the follower of a completed
\* action.
Earned(f) == lease[f].state = "completed" /\ f \in completed

\* plan_after_followback up to the call of the language model, under the
\* account's lock: only for a completed action with a completed event, for a
\* contact that may be written to and has no plan yet.
BeginWelcome(f) ==
    /\ f \in due
    /\ drafting = NoOne
    /\ due' = due \ {f}
    /\ drafting' = IF Earned(f) /\ MayContact(f) /\ welcome[f] = "none"
                   THEN f ELSE NoOne
    /\ UNCHANGED <<clock, circuitVars, followVars, stopped, tab,
                   welcome, wlease, marked, sent, late, erased>>

\* The reply has arrived: create_browser_welcome_plan, INSERT OR IGNORE.
CreateWelcome ==
    /\ drafting # NoOne
    /\ welcome' = [welcome EXCEPT ![drafting] = IF @ = "none" THEN "planned" ELSE @]
    /\ drafting' = NoOne
    /\ UNCHANGED <<clock, circuitVars, followVars, stopped, tab,
                   due, wlease, marked, sent, late, erased>>

\* record_browser_welcome_result: only a planned welcome takes a result.
Recorded(f, state) == [welcome EXCEPT ![f] = IF @ = "planned" THEN state ELSE @]

\* A tab saves its whole copy of the map of marks over what is there.
SaveMarks(map) == marked' = map /\ erased' = erased \cup (marked \ map)

\* MUTANT: the tab does not look in its storage.
SeenNever(f) == FALSE
SeenBefore(f) == f \in marked

\* The tab is given a planned welcome of a contact that is not stopped
\* (next_browser_welcome_plan) and reads the map of marks: a welcome marked before
\* is given up as uncertain, any other is claimed with a stamp taken now.
Look(t, f) ==
    /\ tab[t].pc = "idle"
    /\ welcome[f] = "planned"
    /\ MayContact(f)
    /\ IF SeenBefore(f)
       THEN welcome' = Recorded(f, "uncertain") /\ tab' = tab
       ELSE /\ tab' = [tab EXCEPT ![t] =
                         [pc |-> "looked", who |-> f, at |-> clock,
                          ok |-> FALSE, seen |-> marked]]
            /\ welcome' = welcome
    /\ UNCHANGED <<clock, circuitVars, followVars, stopped, due, drafting,
                   wlease, marked, sent, late, erased>>

\* claim_browser_welcome_action
ClaimWelcome(t) ==
    LET f == tab[t].who
        granted == welcome[f] = "planned" /\ Free(wlease[f], tab[t].at)
    IN  /\ tab[t].pc = "looked"
        /\ wlease' = IF granted THEN [wlease EXCEPT ![f] = Claimed(t, tab[t].at)] ELSE wlease
        /\ tab' = [tab EXCEPT ![t] = IF granted THEN [@ EXCEPT !.pc = "opening"] ELSE Idle]
        /\ UNCHANGED <<clock, circuitVars, followVars, stopped, due, drafting,
                       welcome, marked, sent, late, erased>>

\* finish_browser_action
Finished(t, f, state) ==
    IF Answerable(wlease[f], t, state) THEN [wlease EXCEPT ![f].state = state] ELSE wlease

\* The tab opens the conversation.  A profile that does not match ends the
\* attempt as uncertain, messages already there end it as superseded; otherwise
\* the welcome is marked in the tab's copy, and that saved, before it is typed.
OpenChat(t) ==
    /\ tab[t].pc = "opening"
    /\ \/ /\ SaveMarks(tab[t].seen \cup {tab[t].who})
          /\ tab' = [tab EXCEPT ![t] = [@ EXCEPT !.pc = "marked"]]
          /\ UNCHANGED <<welcome, wlease>>
       \/ \E state \in {"uncertain", "superseded"} :
            /\ welcome' = Recorded(tab[t].who, state)
            /\ wlease' = Finished(t, tab[t].who, state)
            /\ tab' = [tab EXCEPT ![t] = Idle]
            /\ UNCHANGED <<marked, erased>>
    /\ UNCHANGED <<clock, circuitVars, followVars, stopped, due, drafting, sent, late>>

\* sendTrusted and waitForOutbound: the message leaves or not; one that left
\* may still not be seen in the page within its five seconds.
SendWelcome(t) ==
    LET f == tab[t].who IN
    /\ tab[t].pc = "marked"
    /\ \/ /\ sent' = [sent EXCEPT ![f] = @ + 1]
          /\ late' = IF wlease[f].owner = t /\ clock < wlease[f].until
                     THEN late ELSE late \cup {f}
          /\ \E ok \in BOOLEAN :
               tab' = [tab EXCEPT ![t] = [@ EXCEPT !.pc = "answered", !.ok = ok]]
       \/ /\ tab' = [tab EXCEPT ![t] = [@ EXCEPT !.pc = "answered", !.ok = FALSE]]
          /\ UNCHANGED <<sent, late>>
    /\ UNCHANGED <<clock, circuitVars, followVars, stopped, due, drafting,
                   welcome, wlease, marked, erased>>

\* The two results, in the order the tab sends them; when the answer to one is
\* lost the scan ends there.
AnswerWelcome(t) ==
    LET f == tab[t].who IN
    /\ tab[t].pc = "answered"
    /\ welcome' = Recorded(f, IF tab[t].ok THEN "sent" ELSE "uncertain")
    /\ \/ /\ wlease' = Finished(t, f, IF tab[t].ok THEN "completed" ELSE "uncertain")
          /\ tab' = [tab EXCEPT ![t] = [@ EXCEPT !.pc = "closing"]]
       \/ wlease' = wlease /\ tab' = [tab EXCEPT ![t] = Idle]
    /\ UNCHANGED <<clock, circuitVars, followVars, stopped, due, drafting,
                   marked, sent, late, erased>>

\* With both answers in, the tab notes the result in its copy and saves it again.
NoteWelcome(t) ==
    /\ tab[t].pc = "closing"
    /\ SaveMarks(tab[t].seen \cup {tab[t].who})
    /\ tab' = [tab EXCEPT ![t] = Idle]
    /\ UNCHANGED <<clock, circuitVars, followVars, stopped, due, drafting,
                   welcome, wlease, sent, late>>

\* scanOnce: a tab that finds a message to reply to reads the same map, then
\* waits for the language model, the claim and the results.
BeginReply(t) ==
    /\ tab[t].pc = "idle"
    /\ tab' = [tab EXCEPT ![t] = [pc |-> "replying", who |-> NoOne, at |-> 0,
                                  ok |-> FALSE, seen |-> marked]]
    /\ UNCHANGED <<clock, circuitVars, followVars, welcomeVars, stopped>>

\* It saves its copy when it marks the reply and again after the results; the
\* reply's own entry is of no concern here.
NoteReply(t) ==
    /\ tab[t].pc = "replying"
    /\ SaveMarks(tab[t].seen)
    /\ \E again \in BOOLEAN : tab' = IF again THEN tab ELSE [tab EXCEPT ![t] = Idle]
    /\ UNCHANGED <<clock, circuitVars, followVars, stopped, due, drafting,
                   welcome, wlease, sent, late>>

-----------------------------------------------------------------------------
(* The operator, the contact, failures and time                            *)

\* MUTANT: the planned welcome of the contact stays planned.
WelcomeKept(f) == welcome
WithoutWelcome(f) == Recorded(f, "superseded")

\* A contact asks to be left alone: suppress_browser_contact.
StopContact(f) ==
    /\ f \notin stopped
    /\ stopped' = stopped \cup {f}
    /\ welcome' = WithoutWelcome(f)
    /\ UNCHANGED <<clock, circuitVars, followVars, tab, due, drafting,
                   wlease, marked, sent, late, erased>>

\* record_followback_cooldown_command: opens the circuit whatever its state,
\* for as long as the operator says.
OrderCooldown ==
    /\ orders < MaxOrders
    /\ \E d \in 1..Cooldown : circuit' = Opened(clock + d)
    /\ canaryTabs' = {}
    /\ orders' = orders + 1
    /\ UNCHANGED <<clock, welcoming, enabled, followVars, welcomeVars, stopped, tab>>

\* set_account_operator_setting for follow-backs
Switch ==
    /\ enabled' = ~enabled
    /\ UNCHANGED <<clock, welcoming, circuit, canaryTabs, orders, followVars, welcomeVars,
                   stopped, tab>>

\* browser_action_circuit: a page that shows the state of the circuit turns a
\* cooldown that is over into a canary.
ReadCircuit ==
    /\ Ripe(clock)
    /\ circuit' = Seen(clock)
    /\ canaryTabs' = {}
    /\ UNCHANGED <<clock, welcoming, enabled, orders, followVars, welcomeVars, stopped, tab>>

\* A tab is closed or reloaded, or loses the answer to a request and gives up:
\* a follow-back it gives up counts as an attempt.
Crash(t) ==
    LET f == tab[t].who IN
    /\ tab[t].pc # "idle"
    /\ tab' = [tab EXCEPT ![t] = Idle]
    /\ \/ UNCHANGED attempts
       \/ /\ tab[t].pc = "checked"
          /\ \E tries \in Copies : attempts' = Tried(tries, f, 1)
    /\ UNCHANGED <<clock, circuitVars, lease, completed, baseline, welcomeVars, stopped>>

\* The server restarts: welcomes it was about to plan are forgotten.
Restart ==
    /\ due # {} \/ drafting # NoOne
    /\ due' = {} /\ drafting' = NoOne
    /\ UNCHANGED <<clock, circuitVars, followVars, stopped, tab,
                   welcome, wlease, marked, sent, late, erased>>

Tick ==
    /\ clock < MaxClock
    /\ clock' = clock + 1
    /\ UNCHANGED <<circuitVars, followVars, welcomeVars, stopped, tab>>

FollowStep(t) ==
    \/ \E f \in Followers : Ask(t, f) \/ ReportFollowed(t, f)
    \/ Claim(t) \/ Click(t) \/ Answer(t)

WelcomeStep(t) ==
    \/ \E f \in Followers : Look(t, f)
    \/ ClaimWelcome(t) \/ OpenChat(t) \/ SendWelcome(t) \/ AnswerWelcome(t)
    \/ NoteWelcome(t)

ReplyStep(t) == BeginReply(t) \/ NoteReply(t)

Next ==
    \/ \E t \in Tabs : FollowStep(t) \/ WelcomeStep(t) \/ ReplyStep(t) \/ Crash(t)
    \/ \E f \in Followers : BeginWelcome(f) \/ StopContact(f)
    \/ CreateWelcome \/ OrderCooldown \/ Switch \/ ReadCircuit \/ Restart \/ Tick

Spec == Init /\ [][Next]_vars

-----------------------------------------------------------------------------
(* Properties                                                              *)

\* However the tabs' claims, stalls and crashes fall, no more than one tab is
\* let through while the circuit is on probation after a cooldown.
OneCanary ==
    /\ \A t, u \in canaryTabs : t = u
    /\ circuit.state # "canary" => canaryTabs = {}

\* The circuit closes only on the word of the tab that was let through: a
\* follow-back claimed before the cooldown that completes during the probation,
\* or an older lease on the same follower, does not end it.
ClosedByItsCanary ==
    [][circuit.state # "closed" /\ circuit'.state = "closed" =>
         \E t \in canaryTabs : /\ tab[t].pc = "answering" /\ tab[t].ok
                               /\ tab[t].who = circuit.canary
                               /\ lease[circuit.canary].owner = t]_vars

\* Once a contact has asked to be left alone no tab is granted its welcome:
\* not from a plan fetched before, nor from a draft the language model was
\* still writing when the contact spoke.
StoppedNotWelcomed ==
    [][\A t \in Tabs :
         tab[t].pc = "looked" /\ tab'[t].pc = "opening" => tab[t].who \notin stopped]_vars

\* A follower receives a second welcome only if some tab stalled and sent under
\* a lease that had run out, or if a tab that had read the map of marks before
\* the first welcome was marked saved its copy after.  Closed tabs, lost results
\* and two tabs claiming at once never repeat it by themselves.
WelcomedTwiceExplained == \A f \in Followers : sent[f] > 1 => f \in late \cup erased

-----------------------------------------------------------------------------
(* What the properties rest on: the inductive invariant.                   *)

\* While the circuit is on probation, the follower it is reserved for is leased
\* to the one tab let through; without a follower nobody has been let through.
CanaryIsLeased ==
    circuit.state = "canary" =>
        IF circuit.canary = NoOne THEN canaryTabs = {}
        ELSE canaryTabs = {lease[circuit.canary].owner}

\* What a tab looks at was planned when it looked, and a stop has ended it.
StopEndsPlans ==
    \A t \in Tabs : tab[t].pc = "looked" =>
        /\ welcome[tab[t].who] # "none"
        /\ tab[t].who \in stopped => welcome[tab[t].who] # "planned"

\* A tab's stamp lies in the past, and it has marked what it sends.
TabsAreSane ==
    \A t \in Tabs :
        /\ tab[t].at <= clock
        /\ tab[t].pc = "marked" => tab[t].who \in marked \cup erased

\* After a welcome that left in time no tab can send another in time, as long as
\* its mark is there: the mark keeps tabs from looking, those that looked before
\* came before the lease ran out, and those beyond their claim do not hold it.
SentOnce ==
    \A f \in Followers : f \notin late \cup erased =>
        /\ sent[f] <= 1
        /\ sent[f] = 1 =>
             /\ f \in marked
             /\ \A t \in Tabs : tab[t].who = f =>
                  /\ tab[t].pc = "looked" => tab[t].at < wlease[f].until
                  /\ tab[t].pc \in {"opening", "marked"} =>
                       wlease[f].owner # t \/ wlease[f].until <= clock

IInv ==
    TypeOK /\ OneCanary /\ CanaryIsLeased /\ StopEndsPlans /\ TabsAreSane /\ SentOnce

-----------------------------------------------------------------------------
(* The promise of the circuit.                                             *)

\* The claims on record: of each follower the last lease, whatever came of it.
Claims == [f \in Followers |-> [owner |-> lease[f].owner, until |-> lease[f].until]]

Breaker == INSTANCE CircuitBreaker WITH
             Actions <- Followers, Owners <- Tabs, Term <- Lease, Longest <- Cooldown,
             breaker <- circuit, claims <- Claims

\* To whoever looks at circuit and leases only, the account is a CircuitBreaker:
\* stalled tabs with old stamps, results that come late or under the lease of
\* another, crashes and commands of the operator let nobody through that it stops.
ImplementsBreaker == Breaker!BreakerSpec

=============================================================================
