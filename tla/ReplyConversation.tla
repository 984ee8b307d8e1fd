-------------------------- MODULE ReplyConversation --------------------------
(***************************************************************************)
(* One direct-message conversation of a browser account.                   *)
(*                                                                         *)
(* A tab of the messages page sees the newest inbound message, asks the    *)
(* server for a reply plan (browser_dm.py: assess, draft with a language   *)
(* model, finalize), takes a lease on the plan, types the reply, and       *)
(* reports what it saw.  The server keeps one plan per inbound message,    *)
(* a budget of replies, and the stage of the conversation; the operator    *)
(* may take the conversation over, write a reply plan of their own, or     *)
(* switch the AI off (db.py, api.py).                                      *)
(*                                                                         *)
(* plan() and record_result hold a lock per account, the language model's  *)
(* call included; takeovers, claims and switches do not.                   *)
(***************************************************************************)
EXTENDS Integers, FiniteSets

CONSTANTS Tabs,        \* content scripts of the messages page
          Inbounds,    \* inbound messages, 1..N in the order they arrive
          NoTab,       \* nobody waits for the draft
          Kinds,       \* what an inbound message says, as assess_inbound tells it
          MaxReplies,  \* account.max_auto_replies
          InviteAfter, \* account.invite_after_meaningful_turns
          Lease,       \* lease_seconds
          MaxClock     \* bound: the last instant explored

ASSUME ReplyAssumption ==
    /\ NoTab \notin Tabs
    /\ IsFiniteSet(Inbounds) /\ Inbounds = 1..Cardinality(Inbounds)
    /\ Kinds \subseteq {"stop", "person", "contact", "buying", "plain", "noise"}
    /\ MaxReplies \in Nat \ {0}
    /\ InviteAfter \in Nat \ {0}
    /\ Lease \in Nat \ {0}
    /\ MaxClock \in Nat

VARIABLES clock,
          newest,     \* the newest inbound message of the page; 0 before any
          stage,      \* web_conversations.stage
          human,      \* web_conversations.human_required
          turns,      \* web_conversations.meaningful_turns, up to InviteAfter
          invited,    \* web_conversations.last_invited_at_ms is recent
          replies,    \* web_conversations.auto_reply_count
          plan,       \* browser_reply_plans of origin ai
          manual,     \* browser_reply_plans of origin manual
          lease,      \* browser_action_leases of the plans
          ai,         \* web_account_settings.ai_enabled
          drafting,   \* the call that holds the account's lock, or NoDraft
          tab,        \* what each tab is doing
          processed,  \* the tabs' shared storage: inbounds dealt with
          out,        \* history: replies really sent to each inbound
          late,       \* history: inbounds claimed again when a lease had run out
          withdrawn,  \* history: plans given up while a tab was sending them
          taken,      \* history: who was already sending when the operator took over
          loose       \* history: inbounds whose mark in processed does not stop every tab

convVars  == <<stage, human, turns, invited, replies>>
planVars  == <<plan, manual, lease>>
tabVars   == <<tab, processed>>
histVars  == <<out, late, withdrawn, taken, loose>>
vars == <<clock, newest, convVars, planVars, ai, drafting, tabVars, histVars>>

-----------------------------------------------------------------------------
(* The stage of a conversation                                             *)

Rank == [new |-> 0, engaged |-> 1, qualified |-> 2, invited |-> 3,
         contact_captured |-> 4, human_required |-> 5, closed |-> 6]
Stages == DOMAIN Rank

\* _later_conversation_stage: a stage is never lowered.
\* MUTANT: the proposed stage is taken as it is.
LaterProposed(current, proposed) == proposed
Later(current, proposed) == IF Rank[proposed] < Rank[current] THEN current ELSE proposed

\* conversation_ai_available
AiMayTalk == ~human /\ stage \notin {"contact_captured", "human_required", "closed"}

\* assess_inbound: the stage a message moves the conversation to, whether it is
\* a meaningful turn, and whether the reply is to invite to another channel.
Assess(kind) ==
    LET prev == IF stage = "human_required" THEN "qualified" ELSE stage
        turn == kind # "noise"
        many == turns + (IF turn THEN 1 ELSE 0) >= InviteAfter
        due  == kind = "buying" \/ many
        to(s, invite) == [stage |-> s, turn |-> turn, invite |-> invite]
    IN  CASE prev = "closed" \/ kind = "stop" -> to("closed", FALSE)
          [] OTHER -> CASE kind = "person" -> to("qualified", TRUE)
               [] kind = "contact" \/ prev = "contact_captured" ->
                    to("contact_captured", FALSE)
               [] prev = "invited" -> to("invited", due /\ ~invited)
               [] due \/ prev = "qualified" -> to("qualified", due /\ ~invited)
               [] prev = "new" /\ turn -> to("engaged", FALSE)
               [] OTHER -> to(prev, FALSE)

-----------------------------------------------------------------------------
PlanStates  == {"none", "planning", "planned", "sent", "uncertain", "superseded"}
LeaseStates == {"none", "claimed", "completed", "uncertain"}
TabPcs      == {"idle", "asking", "waiting", "planned", "claiming", "granted",
                "marked", "answering", "closing", "elsewhere"}

NoPlan  == [state |-> "none", text |-> FALSE, stage |-> "new", invite |-> FALSE]
NoLease == [state |-> "none", owner |-> NoTab, until |-> 0]
Idle    == [pc |-> "idle", m |-> 0, at |-> 0, ok |-> FALSE, seen |-> {}]
NoDraft == [m |-> 0, by |-> NoTab, text |-> FALSE, pstage |-> "new",
            cstage |-> "new", turn |-> FALSE, invite |-> FALSE]

TypeOK ==
    /\ clock \in 0..MaxClock
    /\ newest \in {0} \cup Inbounds
    /\ stage \in Stages
    /\ human \in BOOLEAN
    /\ turns \in 0..InviteAfter
    /\ invited \in BOOLEAN
    /\ replies \in Nat
    /\ plan \in [Inbounds -> [state: PlanStates, text: BOOLEAN, stage: Stages, invite: BOOLEAN]]
    /\ manual \in [Inbounds -> {"none", "planned", "superseded"}]
    /\ lease \in [Inbounds -> [state: LeaseStates, owner: Tabs \cup {NoTab},
                               until: 0..MaxClock + Lease]]
    /\ ai \in BOOLEAN
    /\ drafting \in [m: {0} \cup Inbounds, by: Tabs \cup {NoTab}, text: BOOLEAN,
                     pstage: Stages, cstage: Stages, turn: BOOLEAN, invite: BOOLEAN]
    /\ tab \in [Tabs -> [pc: TabPcs, m: {0} \cup Inbounds, at: 0..MaxClock,
                      ok: BOOLEAN, seen: SUBSET Inbounds]]
    /\ processed \subseteq Inbounds
    /\ out \in [Inbounds -> Nat]
    /\ late \subseteq Inbounds
    /\ withdrawn \subseteq Inbounds
    /\ taken \subseteq Tabs
    /\ loose \subseteq Inbounds

Init ==
    /\ clock = 0 /\ newest = 0
    /\ stage = "new" /\ human = FALSE /\ turns = 0 /\ invited = FALSE /\ replies = 0
    /\ plan = [m \in Inbounds |-> NoPlan]
    /\ manual = [m \in Inbounds |-> "none"]
    /\ lease = [m \in Inbounds |-> NoLease]
    /\ ai = TRUE
    /\ drafting = NoDraft
    /\ tab = [t \in Tabs |-> Idle]
    /\ processed = {}
    /\ out = [m \in Inbounds |-> 0]
    /\ late = {} /\ withdrawn = {} /\ taken = {} /\ loose = {}

-----------------------------------------------------------------------------
(* Planning a reply                                                        *)

Arrive ==
    /\ newest + 1 \in Inbounds
    /\ newest' = newest + 1
    /\ UNCHANGED <<clock, convVars, planVars, ai, drafting, tabVars, histVars>>

\* A tab finds the newest message unprocessed and asks for a plan; the route
\* looks at the switch and the conversation before it calls the service.  What
\* the tab later saves is what it has read here, with this message added.
Ask(t) ==
    /\ tab[t].pc = "idle"
    /\ newest \in Inbounds \ processed
    /\ ai /\ AiMayTalk
    /\ tab' = [tab EXCEPT ![t] = [Idle EXCEPT !.pc = "asking", !.m = newest,
                                                      !.seen = processed]]
    /\ UNCHANGED <<clock, newest, convVars, planVars, ai, drafting, processed, histVars>>

Manual == Cardinality({m \in Inbounds : manual[m] = "planned"})

\* Replies that may have gone out and are not confirmed yet: those of the other
\* plans of the conversation, the operator's included.
\* MUTANT: a reply whose fate is not known does not count.
ReservedKnown(m) ==
    Manual + Cardinality({p \in Inbounds \ {m} : plan[p].text /\ plan[p].state = "planned"})
Reserved(m) ==
    Manual + Cardinality({p \in Inbounds \ {m} :
        plan[p].text /\ plan[p].state \in {"planned", "uncertain"}})

Uncertain == \E p \in Inbounds : plan[p].state = "uncertain" /\ plan[p].text

\* plan() up to the call of the language model: what finalize will be given.
\* A closed conversation, and one whose budget is used up, get no text.
Draft(t, m, kind) ==
    LET a == Assess(kind)
        full == replies + Reserved(m) >= MaxReplies
    IN  [m |-> m, by |-> t, turn |-> a.turn,
         text |-> a.stage # "closed" /\ ~full,
         invite |-> a.invite /\ ~full,
         cstage |-> IF full /\ replies >= MaxReplies THEN "closed" ELSE a.stage,
         pstage |-> IF a.stage = "closed" \/ full THEN "closed"
                    ELSE IF a.invite THEN "invited" ELSE a.stage]

\* plan() under the account's lock: a plan already made is returned as it is; a
\* new message waits while a reply is uncertain; otherwise the message and its
\* plan are recorded and the reply is drafted.  (A second attempt at the same
\* message may assess it differently here; the code assesses the same text.)
Begin(t) ==
    LET m == tab[t].m IN
    /\ tab[t].pc = "asking"
    /\ drafting = NoDraft
    /\ CASE plan[m].state \notin {"none", "planning"} ->
              /\ tab' = [tab EXCEPT ![t].pc = "planned"]
              /\ UNCHANGED <<plan, drafting>>
         [] plan[m].state = "none" /\ Uncertain ->
              /\ tab' = [tab EXCEPT ![t] = Idle]
              /\ UNCHANGED <<plan, drafting>>
         [] OTHER ->
              /\ tab' = [tab EXCEPT ![t].pc = "waiting"]
              /\ plan' = [plan EXCEPT ![m].state = "planning"]
              /\ \E kind \in Kinds : drafting' = Draft(t, m, kind)
    /\ UNCHANGED <<clock, newest, convVars, manual, lease, ai, processed, histVars>>

Returned == [t \in Tabs |-> IF tab[t].pc = "waiting" /\ drafting.by = t
                            THEN [tab[t] EXCEPT !.pc = "planned"] ELSE tab[t]]

\* finalize_browser_reply_plan: only a plan still in planning is given its
\* reply, which the budget is asked about once more.
Finalize ==
    LET d == drafting
        m == d.m
        over == d.text /\ replies + Reserved(m) >= MaxReplies
        next == Later(stage, IF over /\ replies >= MaxReplies THEN "closed" ELSE d.cstage)
    IN  /\ d # NoDraft
        /\ drafting' = NoDraft
        /\ tab' = Returned
        /\ IF plan[m].state = "planning"
           THEN /\ plan' = [plan EXCEPT ![m] =
                     [state |-> "planned", text |-> d.text /\ ~over,
                      stage |-> IF over THEN "closed" ELSE d.pstage,
                      invite |-> d.invite /\ ~over]]
                /\ stage' = next
                /\ human' = (human \/ next = "human_required")
                /\ turns' = IF d.turn /\ turns < InviteAfter THEN turns + 1 ELSE turns
           ELSE UNCHANGED <<plan, stage, human, turns>>
        /\ UNCHANGED <<clock, newest, invited, replies, manual, lease, ai,
                       processed, histVars>>

\* The request that drafts dies with the server: the plan stays in planning
\* for the next attempt.
DraftFails ==
    /\ drafting # NoDraft
    /\ drafting' = NoDraft
    /\ tab' = [t \in Tabs |-> IF tab[t].pc = "waiting" THEN Idle ELSE tab[t]]
    /\ UNCHANGED <<clock, newest, convVars, planVars, ai, processed, histVars>>

-----------------------------------------------------------------------------
(* Sending it                                                              *)

\* The tab saves the messages dealt with, its own among them if it has one, over
\* what other tabs have saved since it read them.
Save(t) ==
    LET saved == tab[t].seen \cup ({tab[t].m} \cap Inbounds)
    IN  /\ processed' = saved
        /\ loose' = loose \cup (processed \ saved) \cup
                    {m \in Inbounds : m = tab[t].m /\ \E u \in Tabs \ {t} : tab[u].m = m}

Sending(m) == {t \in Tabs : tab[t].m = m /\ tab[t].pc \in {"granted", "marked"}}

\* The states a result may replace: set_browser_reply_plan_state and
\* record_browser_reply_result.
Sources(state) ==
    CASE state = "sent"       -> {"planned", "uncertain", "sent"}
      [] state = "uncertain"  -> {"planned", "uncertain"}
      [] state = "superseded" -> {"planned", "uncertain", "superseded"}

\* A result changes the plan if it may, is new, and is not "sent" of no text.
Accepts(m, state) ==
    /\ plan[m].state \in Sources(state)
    /\ plan[m].state # state
    /\ state = "sent" => plan[m].text

\* The tab has its plan.  If the page has moved on, or there is nothing to say,
\* it withdraws the plan and is done with the message.  A reply that another
\* tab has sent shows as a page that has moved on, as soon as it is rendered.
\* The answer to the withdrawal may be lost, and then nothing is saved.
GiveUp(t) ==
    LET m == tab[t].m IN
    /\ tab[t].pc = "planned"
    /\ newest # m \/ out[m] > 0 \/ ~plan[m].text
    /\ drafting = NoDraft
    /\ plan' = IF Accepts(m, "superseded")
               THEN [plan EXCEPT ![m].state = "superseded"] ELSE plan
    /\ withdrawn' = IF Accepts(m, "superseded") /\ (Sending(m) # {} \/ out[m] > 0)
                    THEN withdrawn \cup {m} ELSE withdrawn
    /\ Save(t) \/ UNCHANGED <<processed, loose>>
    /\ tab' = [tab EXCEPT ![t] = Idle]
    /\ UNCHANGED <<clock, newest, convVars, manual, lease, ai, drafting,
                   out, late, taken>>

\* Otherwise it asks for the lease.
Proceed(t) ==
    /\ tab[t].pc = "planned"
    /\ newest = tab[t].m /\ plan[newest].text
    /\ tab' = [tab EXCEPT ![t].pc = "claiming", ![t].at = clock]
    /\ UNCHANGED <<clock, newest, convVars, planVars, ai, drafting, processed, histVars>>

\* What a claim for a reply of the AI requires besides the lease.
\* MUTANT: the conversation is not looked at again.
PermittedByPlan(m) == plan[m].state = "planned" /\ ai
Permitted(m) == plan[m].state = "planned" /\ ai /\ AiMayTalk

\* MUTANT: the lease of another tab is ignored.
FreeAlways(m, at) == lease[m].state # "completed"
Free(m, at) == lease[m].state # "completed" /\ lease[m].until <= at

\* claim_browser_dm_action
Claim(t) ==
    LET m == tab[t].m
        granted == Permitted(m) /\ Free(m, tab[t].at)
    IN  /\ tab[t].pc = "claiming"
        /\ tab' = [tab EXCEPT ![t] = IF granted THEN [@ EXCEPT !.pc = "granted", !.at = 0]
                                       ELSE Idle]
        /\ lease' = IF granted
                    THEN [lease EXCEPT ![m] = [state |-> "claimed", owner |-> t,
                                               until |-> tab[t].at + Lease]]
                    ELSE lease
        /\ late' = IF granted /\ lease[m].state # "none" /\ lease[m].until <= clock
                   THEN late \cup {m} ELSE late
        /\ UNCHANGED <<clock, newest, convVars, plan, manual, ai, drafting,
                       processed, out, withdrawn, taken, loose>>

\* The message is marked as being answered before anything is typed.
Mark(t) ==
    /\ tab[t].pc = "granted"
    /\ Save(t)
    /\ tab' = [tab EXCEPT ![t].pc = "marked"]
    /\ UNCHANGED <<clock, newest, convVars, planVars, ai, drafting,
                   out, late, withdrawn, taken>>

\* The reply leaves or not; one that left may not be seen in five seconds.
Send(t) ==
    LET m == tab[t].m IN
    /\ tab[t].pc = "marked"
    /\ \/ /\ out' = [out EXCEPT ![m] = @ + 1]
          /\ \E ok \in BOOLEAN :
               tab' = [tab EXCEPT ![t].pc = "answering", ![t].ok = ok]
       \/ /\ tab' = [tab EXCEPT ![t].pc = "answering", ![t].ok = FALSE]
          /\ UNCHANGED out
    /\ taken' = taken \ {t}
    /\ UNCHANGED <<clock, newest, convVars, planVars, ai, drafting, processed,
                   late, withdrawn, loose>>

\* What the lease of a reply ends as.
\* MUTANT: it is given the state of the plan.
EndedAsPlan(ok) == IF ok THEN "sent" ELSE "uncertain"
Ended(ok) == IF ok THEN "completed" ELSE "uncertain"

\* finish_browser_action: a result of the lease's owner, for as long as the lease
\* is not completed.
Finished(t) ==
    LET m == tab[t].m
    IN  IF lease[m].owner = t /\ (tab[t].ok \/ lease[m].state # "completed")
        THEN [lease EXCEPT ![m].state = Ended(tab[t].ok)] ELSE lease

\* record_result under the account's lock, then the result of the lease.  If that
\* one is lost the tab stops here; otherwise it still has its mark to save.  A
\* reply confirmed for the first time counts as one more.
Answer(t) ==
    LET m == tab[t].m
        state == IF tab[t].ok THEN "sent" ELSE "uncertain"
        new == Accepts(m, state)
    IN  /\ tab[t].pc = "answering"
        /\ drafting = NoDraft
        /\ plan' = IF new THEN [plan EXCEPT ![m].state = state] ELSE plan
        /\ IF new /\ tab[t].ok
           THEN /\ stage' = Later(stage, plan[m].stage)
                /\ replies' = replies + 1
                /\ invited' = (invited \/ plan[m].invite)
           ELSE UNCHANGED <<stage, replies, invited>>
        /\ \/ lease' = lease /\ tab' = [tab EXCEPT ![t] = Idle]
           \/ lease' = Finished(t) /\ tab' = [tab EXCEPT ![t].pc = "closing", ![t].ok = FALSE]
        /\ UNCHANGED <<clock, newest, human, turns, manual, ai, drafting,
                       processed, histVars>>

\* The marks are saved once more, as the tab read them before the plan.
Note(t) ==
    /\ tab[t].pc = "closing"
    /\ Save(t)
    /\ tab' = [tab EXCEPT ![t] = Idle]
    /\ UNCHANGED <<clock, newest, convVars, planVars, ai, drafting,
                   out, late, withdrawn, taken>>

\* The marks of every conversation and of the welcomes are one map: a tab busy
\* with another of them reads it too, and saves it whole, twice or more.
TurnElsewhere(t) ==
    /\ tab[t].pc = "idle"
    /\ tab' = [tab EXCEPT ![t] = [Idle EXCEPT !.pc = "elsewhere", !.seen = processed]]
    /\ UNCHANGED <<clock, newest, convVars, planVars, ai, drafting, processed, histVars>>

SaveElsewhere(t) ==
    /\ tab[t].pc = "elsewhere"
    /\ Save(t)
    /\ UNCHANGED <<clock, newest, convVars, planVars, ai, drafting, tab,
                   out, late, withdrawn, taken>>

\* A tab is closed or reloaded, or is done elsewhere; a draft it asked for goes
\* on without it.
Crash(t) ==
    /\ tab[t].pc # "idle"
    /\ tab' = [tab EXCEPT ![t] = Idle]
    /\ drafting' = IF drafting.by = t THEN [drafting EXCEPT !.by = NoTab] ELSE drafting
    /\ taken' = taken \ {t}
    /\ UNCHANGED <<clock, newest, convVars, planVars, ai, processed,
                   out, late, withdrawn, loose>>

-----------------------------------------------------------------------------
(* The operator                                                            *)

Known == \E m \in Inbounds : plan[m].state # "none"

\* The plans a takeover gives up: those not yet reported on, the operator's too.
Open(m) == plan[m].state \in {"planning", "planned"}

\* takeover_lead: a closed conversation stays as it is.
Takeover ==
    /\ Known
    /\ stage # "closed"
    /\ stage' = Later(stage, "human_required")
    /\ human' = TRUE
    /\ plan' = [m \in Inbounds |-> IF Open(m) THEN [plan[m] EXCEPT !.state = "superseded"]
                                   ELSE plan[m]]
    /\ manual' = [m \in Inbounds |-> IF manual[m] = "planned" THEN "superseded"
                                     ELSE manual[m]]
    /\ withdrawn' = withdrawn \cup
                    {m \in Inbounds : Open(m) /\ (Sending(m) # {} \/ out[m] > 0)}
    /\ taken' = IF human THEN taken ELSE UNION {Sending(m) : m \in Inbounds}
    /\ UNCHANGED <<clock, newest, turns, invited, replies, lease, ai,
                   drafting, tabVars, out, late, loose>>

\* create_manual_reply_plan: one for each inbound message on record, once.  Its
\* place in the budget is all that is modelled of it: the extension fetches and
\* sends no plan of the operator's.
ManualPlan(m) ==
    /\ manual[m] = "none"
    /\ plan[m].state # "none"
    /\ ~Uncertain
    /\ stage = "human_required"
    /\ manual' = [manual EXCEPT ![m] = "planned"]
    /\ UNCHANGED <<clock, newest, convVars, plan, lease, ai, drafting, tabVars, histVars>>

\* set_account_operator_setting for the AI.
Switch ==
    /\ ai' = ~ai
    /\ UNCHANGED <<clock, newest, convVars, planVars, drafting, tabVars, histVars>>

Tick ==
    /\ clock < MaxClock
    /\ clock' = clock + 1
    /\ UNCHANGED <<newest, convVars, planVars, ai, drafting, tabVars, histVars>>

TabStep(t) ==
    \/ Ask(t) \/ Begin(t) \/ GiveUp(t) \/ Proceed(t)
    \/ Claim(t) \/ Mark(t) \/ Send(t) \/ Answer(t) \/ Note(t)
    \/ TurnElsewhere(t) \/ SaveElsewhere(t)

Operate ==
    \/ Takeover
    \/ \E m \in Inbounds : ManualPlan(m)
    \/ Switch

Next ==
    \/ Arrive \/ Finalize \/ DraftFails \/ Operate \/ Tick
    \/ \E t \in Tabs : TabStep(t) \/ Crash(t)

Spec == Init /\ [][Next]_vars

-----------------------------------------------------------------------------
(* Properties                                                              *)

\* The replies of the AI that really left, each with its place among those to
\* the same message.
Replies == UNION {{m} \X (1..out[m]) : m \in Inbounds}

\* The two kinds the account's count does not see: a reply whose plan was given
\* up while it was being sent, and a second reply to a message whose lease had
\* run out and whose mark did not stop the second tab.
Uncounted(r) == r[1] \in withdrawn \/ (r[2] > 1 /\ r[1] \in late \cap loose)

\* Replies of the AI stay within the account's budget, whatever is planned, in
\* flight or uncertain at the same time, the replies of a withdrawn plan and
\* second replies to a message excepted (_browser_reply_budget_counts).
BudgetKept == Cardinality({r \in Replies : ~Uncounted(r)}) <= MaxReplies

\* A message is answered twice only if its lease had run out and the mark on the
\* message could not stop the second tab: that tab had already read the marks,
\* or the mark was lost to another tab's save (claim_browser_dm_action, scanOnce).
RepliedTwiceExplained == \A m \in Inbounds : out[m] > 1 => m \in late \cap loose

\* While the operator has the conversation no result of a draft or a reply that
\* was under way moves it back to the AI (takeover_lead against
\* finalize_browser_reply_plan and record_browser_reply_result).
HumanHolds == human => stage \in {"human_required", "closed"}

\* After a takeover the AI sends nothing, but for the tabs that were already
\* sending at that moment (takeover_lead against a plan still being drafted).
TakenOverIsQuiet ==
    [][human /\ out' # out =>
         \E t \in taken : tab[t].pc = "marked" /\ tab'[t].pc = "answering"]_vars

-----------------------------------------------------------------------------
(* What the properties rest on: the inductive invariant.                   *)

\* A tab has a message while it is busy, and it is that message's draft or
\* reply it works on; a plan has its text once it is made and keeps it.
TabsInOrder ==
    /\ drafting # NoDraft => drafting.m \in Inbounds
    /\ \A t \in Tabs :
         /\ tab[t].m = 0 <=> tab[t].pc \in {"idle", "elsewhere"}
         /\ tab[t].at <= clock
         /\ tab[t].pc \in {"claiming", "granted", "marked", "answering"}
              => plan[tab[t].m].text
    /\ \A m \in Inbounds :
         /\ plan[m].text => plan[m].state \notin {"none", "planning"}
         /\ plan[m].state = "sent" => plan[m].text

\* No assessment and no plan asks for the operator: only a takeover does.
OnlyByTakeover ==
    /\ stage = "human_required" => human
    /\ drafting.pstage # "human_required" /\ drafting.cstage # "human_required"
    /\ \A m \in Inbounds : plan[m].stage # "human_required"

\* Whoever is sending while the operator has the conversation was so before.
TakenInOrder ==
    human => \A t \in Tabs : tab[t].pc \in {"granted", "marked"} => t \in taken

\* As long as no lease was given out a second time, there is one sender.
OneSender(m) ==
    /\ out[m] <= 1
    /\ lease[m].state = "none" => out[m] = 0 /\ Sending(m) = {}
    /\ \A t \in Sending(m) : out[m] = 0 /\ Sending(m) = {t}

OncePerLease == \A m \in Inbounds \ late : OneSender(m)

\* A mark that no tab has overlooked keeps the tabs off the message.
KeptOff(m) ==
    /\ out[m] <= 1
    /\ out[m] > 0 => /\ m \in processed
                     /\ \A t \in Tabs : tab[t].m = m => tab[t].pc \in {"answering", "closing"}
    /\ \A t \in Tabs : tab[t].m = m /\ tab[t].pc = "marked" => m \in processed
    /\ m \in processed => \A t, u \in Tabs : tab[t].m = m /\ tab[u].m = m => t = u
    /\ \A t \in Tabs : m \in tab[t].seen => m \in processed

OncePerMark == \A m \in Inbounds \ loose : KeptOff(m)

\* The replies that count: confirmed, in flight, or of unknown fate.
Sent == {m \in Inbounds : plan[m].state = "sent"}
Committed ==
    {m \in Inbounds : plan[m].text /\ plan[m].state \in {"planned", "uncertain", "sent"}}

BooksKept ==
    /\ replies = Cardinality(Sent)
    /\ Cardinality(Committed) <= MaxReplies
    /\ \A m \in Inbounds \ withdrawn : out[m] > 0 \/ Sending(m) # {} => m \in Committed

IInv ==
    /\ TypeOK /\ TabsInOrder /\ HumanHolds /\ OnlyByTakeover /\ TakenInOrder
    /\ OncePerLease /\ OncePerMark /\ BooksKept
=============================================================================
