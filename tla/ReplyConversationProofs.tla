----------------------- MODULE ReplyConversationProofs -----------------------
(***************************************************************************)
(* Theorems about ReplyConversation, for any number of tabs and messages,  *)
(* every budget and every lease, however long the clock runs.              *)
(***************************************************************************)
EXTENDS ReplyConversation, FiniteSetTheorems, TLAPS

-----------------------------------------------------------------------------
(* Types.                                                                  *)

PlanRows  == [state: PlanStates, text: BOOLEAN, stage: Stages, invite: BOOLEAN]
LeaseRows == [state: LeaseStates, owner: Tabs \cup {NoTab}, until: 0..MaxClock + Lease]
TabRows   == [pc: TabPcs, m: {0} \cup Inbounds, at: 0..MaxClock,
              ok: BOOLEAN, seen: SUBSET Inbounds]
DraftRows == [m: {0} \cup Inbounds, by: Tabs \cup {NoTab}, text: BOOLEAN,
              pstage: Stages, cstage: Stages, turn: BOOLEAN, invite: BOOLEAN]

\* The stages of a conversation and their ranks.
LEMMA StageRanks ==
    /\ Stages = {"new", "engaged", "qualified", "invited", "contact_captured",
                 "human_required", "closed"}
    /\ \A s \in Stages : Rank[s] \in 0..6
    /\ \A s \in Stages : Rank[s] >= 5 <=> s \in {"human_required", "closed"}
    /\ Rank["human_required"] = 5
BY DEF Stages, Rank

\* A stage is never lowered.
LEMMA LaterRises ==
    ASSUME NEW c \in Stages, NEW p \in Stages
    PROVE  /\ Later(c, p) \in Stages
           /\ Rank[Later(c, p)] >= Rank[c]
           /\ Rank[Later(c, p)] >= Rank[p]
BY StageRanks DEF Later

\* Rows and instants, as the lemmas below use them.
LEMMA RowTypes ==
    ASSUME TypeOK
    PROVE  /\ plan \in [Inbounds -> PlanRows] /\ lease \in [Inbounds -> LeaseRows]
           /\ tab \in [Tabs -> TabRows] /\ drafting \in DraftRows
           /\ Inbounds \subseteq Nat \ {0} /\ 0 \notin Inbounds /\ newest \in {0} \cup Inbounds
           /\ clock \in Nat /\ NoTab \notin Tabs /\ out \in [Inbounds -> Nat]
BY ReplyAssumption, FS_CardinalityType
   DEF TypeOK, PlanRows, LeaseRows, TabRows, DraftRows

-----------------------------------------------------------------------------
(* What a step does to the tabs.                                           *)

Goes(t, l, m) ==
    /\ tab'[t].pc = l /\ tab'[t].m = m
    /\ \A u \in Tabs \ {t} : tab'[u] = tab[u]

\* A tab is replaced, or moves on.
LEMMA TabReplaced ==
    ASSUME TypeOK, NEW t \in Tabs, NEW r \in TabRows, tab' = [tab EXCEPT ![t] = r]
    PROVE  tab' \in [Tabs -> TabRows] /\ tab'[t] = r /\ Goes(t, r.pc, r.m)
BY RowTypes DEF Goes

LEMMA TabMoves ==
    ASSUME TypeOK, NEW t \in Tabs, NEW l \in TabPcs, tab' = [tab EXCEPT ![t].pc = l]
    PROVE  tab' \in [Tabs -> TabRows] /\ tab'[t].at = tab[t].at /\ Goes(t, l, tab[t].m)
BY RowTypes DEF Goes, TabRows

LEMMA IdleTab == Idle \in TabRows /\ Idle.pc = "idle" /\ Idle.m = 0 /\ Idle.at = 0
BY ReplyAssumption DEF Idle, TabRows, TabPcs

\* The steps of a tab, as the tabs see them.
LEMMA TabSteps ==
    ASSUME TypeOK, NEW t \in Tabs
    PROVE  /\ Ask(t) => Goes(t, "asking", newest) /\ tab'[t].at = 0
           /\ Begin(t) => \/ Goes(t, "idle", 0) /\ tab'[t].at = 0
                          \/ Goes(t, "planned", tab[t].m) /\ tab'[t].at = tab[t].at
                          \/ Goes(t, "waiting", tab[t].m) /\ tab'[t].at = tab[t].at
           /\ GiveUp(t) \/ Note(t) \/ Crash(t) => Goes(t, "idle", 0) /\ tab'[t].at = 0
           /\ Answer(t) => \/ Goes(t, "idle", 0) /\ tab'[t].at = 0
                           \/ Goes(t, "closing", tab[t].m) /\ tab'[t].at = tab[t].at
           /\ TurnElsewhere(t) => Goes(t, "elsewhere", 0) /\ tab'[t].at = 0
           /\ SaveElsewhere(t) => tab' = tab
           /\ Proceed(t) => Goes(t, "claiming", tab[t].m) /\ tab'[t].at = clock
           /\ Mark(t) => Goes(t, "marked", tab[t].m) /\ tab'[t].at = tab[t].at
           /\ Send(t) => Goes(t, "answering", tab[t].m) /\ tab'[t].at = tab[t].at
           /\ Ask(t) \/ Begin(t) \/ GiveUp(t) \/ Answer(t) \/ Note(t) \/ Crash(t) \/ Proceed(t)
              \/ Mark(t) \/ Send(t) \/ TurnElsewhere(t) \/ SaveElsewhere(t)
                => tab' \in [Tabs -> TabRows]
<1>1. {"asking", "waiting", "planned", "claiming", "marked", "answering", "closing",
       "elsewhere"} \subseteq TabPcs
  BY DEF TabPcs
<1>2. ASSUME Ask(t)
      PROVE  Goes(t, "asking", newest) /\ tab'[t].at = 0 /\ tab' \in [Tabs -> TabRows]
  <2> DEFINE r == [Idle EXCEPT !.pc = "asking", !.m = newest, !.seen = processed]
  <2>1. r \in TabRows /\ r.pc = "asking" /\ r.m = newest /\ r.at = 0
    BY IdleTab, <1>1, RowTypes DEF TabRows, TypeOK
  <2>2. tab' = [tab EXCEPT ![t] = r]
    BY <1>2 DEF Ask
  <2> HIDE DEF r
  <2>. QED
    BY <2>1, <2>2, TabReplaced
<1>3. ASSUME Begin(t)
      PROVE  /\ \/ Goes(t, "idle", 0) /\ tab'[t].at = 0
                \/ Goes(t, "planned", tab[t].m) /\ tab'[t].at = tab[t].at
                \/ Goes(t, "waiting", tab[t].m) /\ tab'[t].at = tab[t].at
             /\ tab' \in [Tabs -> TabRows]
  <2>1. \/ tab' = [tab EXCEPT ![t].pc = "planned"] \/ tab' = [tab EXCEPT ![t] = Idle]
        \/ tab' = [tab EXCEPT ![t].pc = "waiting"]
    BY <1>3, Zenon DEF Begin
  <2>. QED
    BY <2>1, <1>1, IdleTab, TabMoves, TabReplaced
<1>4. ASSUME GiveUp(t) \/ Note(t) \/ Crash(t)
      PROVE  Goes(t, "idle", 0) /\ tab'[t].at = 0 /\ tab' \in [Tabs -> TabRows]
  <2>1. tab' = [tab EXCEPT ![t] = Idle]
    BY <1>4, Zenon DEF GiveUp, Note, Crash
  <2>. QED
    BY <2>1, <1>1, IdleTab, TabMoves, TabReplaced
<1>5. ASSUME Proceed(t)
      PROVE  Goes(t, "claiming", tab[t].m) /\ tab'[t].at = clock /\ tab' \in [Tabs -> TabRows]
  <2>1. tab' = [tab EXCEPT ![t].pc = "claiming", ![t].at = clock]
    BY <1>5, Zenon DEF Proceed
  <2>. QED
    <3>1. clock \in 0..MaxClock
      BY DEF TypeOK
    <3>. QED
      BY <2>1, <3>1, <1>1, RowTypes DEF Goes, TabRows
<1>6. ASSUME Mark(t)
      PROVE  /\ Goes(t, "marked", tab[t].m) /\ tab'[t].at = tab[t].at
             /\ tab' \in [Tabs -> TabRows]
  <2>1. tab' = [tab EXCEPT ![t].pc = "marked"]
    BY <1>6, Zenon DEF Mark
  <2>. QED
    BY <2>1, <1>1, IdleTab, TabMoves, TabReplaced
<1>7. ASSUME Send(t)
      PROVE  /\ Goes(t, "answering", tab[t].m) /\ tab'[t].at = tab[t].at
             /\ tab' \in [Tabs -> TabRows]
  <2>1. \E ok \in BOOLEAN : tab' = [tab EXCEPT ![t].pc = "answering", ![t].ok = ok]
    BY <1>7, Zenon DEF Send
  <2>2. PICK ok \in BOOLEAN : tab' = [tab EXCEPT ![t].pc = "answering", ![t].ok = ok]
    BY <2>1
  <2>. QED
    BY <2>2, <1>1, RowTypes DEF Goes, TabRows
<1>8. ASSUME Answer(t)
      PROVE  /\ \/ Goes(t, "idle", 0) /\ tab'[t].at = 0
                \/ Goes(t, "closing", tab[t].m) /\ tab'[t].at = tab[t].at
             /\ tab' \in [Tabs -> TabRows]
  <2>1. CASE tab' = [tab EXCEPT ![t] = Idle]
    <3>1. Goes(t, "idle", 0) /\ tab'[t].at = 0 /\ tab' \in [Tabs -> TabRows]
      BY <2>1, IdleTab, TabReplaced
    <3>. QED
      BY <3>1
  <2>2. CASE tab' = [tab EXCEPT ![t].pc = "closing", ![t].ok = FALSE]
    <3> DEFINE r == [tab[t] EXCEPT !.pc = "closing", !.ok = FALSE]
    <3>1. r \in TabRows /\ r.pc = "closing" /\ r.m = tab[t].m /\ r.at = tab[t].at
      BY <1>1, RowTypes DEF TabRows
    <3>2. tab' = [tab EXCEPT ![t] = r]
      BY <2>2
    <3> HIDE DEF r
    <3>. QED
      BY <3>1, <3>2, TabReplaced
  <2>. QED
    BY <1>8, <2>1, <2>2, Zenon DEF Answer
<1>9. ASSUME TurnElsewhere(t)
      PROVE  /\ Goes(t, "elsewhere", 0) /\ tab'[t].at = 0
             /\ tab' \in [Tabs -> TabRows]
  <2> DEFINE r == [Idle EXCEPT !.pc = "elsewhere", !.seen = processed]
  <2>1. r \in TabRows /\ r.pc = "elsewhere" /\ r.m = 0 /\ r.at = 0
    BY IdleTab, <1>1 DEF TabRows, TypeOK
  <2>2. tab' = [tab EXCEPT ![t] = r]
    BY <1>9 DEF TurnElsewhere
  <2> HIDE DEF r
  <2>. QED
    BY <2>1, <2>2, TabReplaced
<1>10. ASSUME SaveElsewhere(t)
       PROVE  tab' = tab /\ tab' \in [Tabs -> TabRows]
  BY <1>10, RowTypes DEF SaveElsewhere
<1>. QED
  BY <1>2, <1>3, <1>4, <1>5, <1>6, <1>7, <1>8, <1>9, <1>10

\* A claim is granted or refused.
LEMMA ClaimStep ==
    ASSUME TypeOK, NEW t \in Tabs, Claim(t), NEW m, m = tab[t].m
    PROVE  /\ tab' \in [Tabs -> TabRows]
           /\ \/ /\ Permitted(m) /\ Free(m, tab[t].at)
                 /\ Goes(t, "granted", m) /\ tab'[t].at = 0
                 /\ lease' = [lease EXCEPT ![m] = [state |-> "claimed", owner |-> t,
                                                   until |-> tab[t].at + Lease]]
                 /\ late' = IF lease[m].state # "none" /\ lease[m].until <= clock
                            THEN late \cup {m} ELSE late
              \/ Goes(t, "idle", 0) /\ tab'[t].at = 0 /\ lease' = lease /\ late' = late
<1>1. "granted" \in TabPcs
  BY DEF TabPcs
<1>2. CASE Permitted(m) /\ Free(m, tab[t].at)
  <2>1. tab' = [tab EXCEPT ![t].pc = "granted", ![t].at = 0]
    BY <1>2 DEF Claim
  <2>2. /\ lease' = [lease EXCEPT ![m] = [state |-> "claimed", owner |-> t,
                                          until |-> tab[t].at + Lease]]
        /\ late' = IF lease[m].state # "none" /\ lease[m].until <= clock
                   THEN late \cup {m} ELSE late
    BY <1>2 DEF Claim
  <2>3. tab' \in [Tabs -> TabRows] /\ Goes(t, "granted", m) /\ tab'[t].at = 0
    <3> DEFINE r == [tab[t] EXCEPT !.pc = "granted", !.at = 0]
    <3>1. r \in TabRows /\ r.pc = "granted" /\ r.m = m /\ r.at = 0
      <4>1. tab[t] \in TabRows /\ 0 \in 0..MaxClock
        BY RowTypes, ReplyAssumption
      <4>. QED
        BY <1>1, <4>1 DEF TabRows
    <3>2. tab' = [tab EXCEPT ![t] = r]
      BY <2>1
    <3> HIDE DEF r
    <3>. QED
      BY <3>1, <3>2, TabReplaced
  <2>. QED
    BY <1>2, <2>2, <2>3
<1>3. CASE ~(Permitted(m) /\ Free(m, tab[t].at))
  <2>1. tab' = [tab EXCEPT ![t] = Idle] /\ lease' = lease /\ late' = late
    BY <1>3 DEF Claim
  <2>. QED
    BY <2>1, IdleTab, TabReplaced
<1>. QED
  BY <1>2, <1>3

\* The end of a draft reaches the tab that waits for it.
LEMMA DraftSteps ==
    ASSUME TypeOK, Finalize \/ DraftFails
    PROVE  /\ tab' \in [Tabs -> TabRows]
           /\ \A u \in Tabs :
                \/ tab'[u] = tab[u]
                \/ tab'[u].pc = "planned" /\ tab'[u].m = tab[u].m /\ tab'[u].at = tab[u].at
                   /\ tab[u].pc = "waiting"
                \/ tab'[u].pc = "idle" /\ tab'[u].m = 0 /\ tab'[u].at = 0
<1>1. CASE Finalize
  <2>1. tab' = Returned
    BY <1>1, Zenon DEF Finalize
  <2>. QED
    BY <2>1, RowTypes DEF Returned, TabRows, TabPcs
<1>2. CASE DraftFails
  <2>1. tab' = [t \in Tabs |-> IF tab[t].pc = "waiting" THEN Idle ELSE tab[t]]
    BY <1>2, Zenon DEF DraftFails
  <2>. QED
    BY <2>1, RowTypes, IdleTab
<1>. QED
  BY <1>1, <1>2

-----------------------------------------------------------------------------
(* The inductive invariant, part by part.                                  *)

\* What each tab step leaves alone.
LEMMA TabFrames ==
    ASSUME NEW t \in Tabs
    PROVE  /\ TabStep(t) \/ Crash(t) => newest' = newest /\ clock' = clock /\ human' = human
           /\ Ask(t) \/ Begin(t) \/ GiveUp(t) \/ Proceed(t) \/ Claim(t) \/ Mark(t) \/ Answer(t)
              \/ Note(t) \/ TurnElsewhere(t) \/ SaveElsewhere(t) => taken' = taken
           /\ Crash(t) \/ Send(t) => taken' = taken \ {t}
           /\ Ask(t) \/ Begin(t) \/ GiveUp(t) \/ Proceed(t) \/ Claim(t) \/ Mark(t) \/ Answer(t)
              \/ Note(t) \/ TurnElsewhere(t) \/ SaveElsewhere(t) \/ Crash(t) => out' = out
           /\ Ask(t) \/ Begin(t) \/ GiveUp(t) \/ Proceed(t) \/ Mark(t) \/ Send(t) \/ Answer(t)
              \/ Note(t) \/ TurnElsewhere(t) \/ SaveElsewhere(t) \/ Crash(t) => late' = late
           /\ Ask(t) \/ Begin(t) \/ GiveUp(t) \/ Proceed(t) \/ Mark(t) \/ Send(t) \/ Note(t)
              \/ TurnElsewhere(t) \/ SaveElsewhere(t) \/ Crash(t) => lease' = lease
           /\ Ask(t) \/ Begin(t) \/ Proceed(t) \/ Claim(t) \/ Send(t) \/ Answer(t)
              \/ TurnElsewhere(t) \/ Crash(t) => processed' = processed /\ loose' = loose
BY Zenon DEF TabStep, Ask, Begin, GiveUp, Proceed, Claim, Mark, Send, Answer, Note,
   TurnElsewhere, SaveElsewhere, Crash, convVars, planVars, histVars

\* The steps of the server, the page, the operator and the clock but a takeover.
Elsewhere ==
    Arrive \/ Finalize \/ DraftFails \/ (\E m \in Inbounds : ManualPlan(m)) \/ Switch \/ Tick

\* What they leave alone.
LEMMA OtherFrames ==
    ASSUME Elsewhere
    PROVE  /\ UNCHANGED <<lease, processed, out, late, loose, taken, withdrawn>>
           /\ Finalize \/ DraftFails \/ UNCHANGED <<tab, drafting, plan>>
           /\ Finalize \/ UNCHANGED <<plan, stage, human, turns>>
           /\ UNCHANGED <<replies, invited>>
           /\ Tick \/ clock' = clock
           /\ Arrive \/ newest' = newest
BY Zenon DEF Elsewhere, Arrive, Finalize, DraftFails, ManualPlan, Switch, Tick,
   planVars, tabVars, histVars, convVars

\* What an assessment proposes is never the operator.
LEMMA AssessTypes ==
    ASSUME TypeOK, NEW kind \in Kinds
    PROVE  /\ Assess(kind).stage \in Stages \ {"human_required"}
           /\ Assess(kind).turn \in BOOLEAN /\ Assess(kind).invite \in BOOLEAN
<1>. DEFINE prev == IF stage = "human_required" THEN "qualified" ELSE stage
<1>1. prev \in Stages \ {"human_required"}
  BY StageRanks DEF TypeOK
<1>2. {"closed", "qualified", "contact_captured", "invited", "engaged"}
        \subseteq Stages \ {"human_required"}
  BY StageRanks
<1>. QED
  BY <1>1, <1>2 DEF Assess

\* The draft of a reply.
LEMMA DraftTypes ==
    ASSUME TypeOK, NEW t \in Tabs, NEW m \in Inbounds, NEW kind \in Kinds
    PROVE  /\ Draft(t, m, kind) \in DraftRows
           /\ Draft(t, m, kind).m = m
           /\ Draft(t, m, kind).pstage # "human_required"
           /\ Draft(t, m, kind).cstage # "human_required"
<1>1. {"closed", "invited"} \subseteq Stages \ {"human_required"}
  BY StageRanks
<1>. QED
  BY <1>1, AssessTypes DEF Draft, DraftRows

\* The end of a draft does not call the operator.
LEMMA FinalizeHuman ==
    ASSUME TypeOK, TabsInOrder, OnlyByTakeover, Finalize
    PROVE  /\ human' = human
           /\ stage' \in Stages /\ Rank[stage'] >= Rank[stage]
           /\ stage' = "human_required" => human
<1> DEFINE next == Later(stage, IF drafting.text /\ replies + Reserved(drafting.m) >= MaxReplies
                                  /\ replies >= MaxReplies
                                THEN "closed" ELSE drafting.cstage)
<1>1. next \in Stages /\ Rank[next] >= Rank[stage] /\ (next = "human_required" => human)
  <2>1. drafting.cstage \in Stages \ {"human_required"} /\ "closed" \in Stages /\ stage \in Stages
    BY RowTypes, StageRanks DEF OnlyByTakeover, DraftRows, TypeOK
  <2>2. \A p \in Stages \ {"human_required"} :
          Later(stage, p) = "human_required" => stage = "human_required"
    BY DEF Later
  <2>. QED
    BY <2>1, <2>2, LaterRises, StageRanks DEF OnlyByTakeover
<1>2. \/ stage' = next /\ human' = (human \/ next = "human_required")
      \/ stage' = stage /\ human' = human
  BY DEF Finalize
<1> HIDE DEF next
<1>3. human \in BOOLEAN /\ stage \in Stages
  BY DEF TypeOK
<1>4. CASE stage' = next /\ human' = (human \/ next = "human_required")
  <2>1. human' = human
    BY <1>1, <1>3, <1>4, Zenon
  <2>. QED
    BY <1>1, <1>4, <2>1
<1>5. CASE stage' = stage /\ human' = human
  <2>1. Rank[stage] \in Nat
    BY <1>3, StageRanks
  <2>. QED
    BY <1>3, <1>5, <2>1 DEF OnlyByTakeover
<1>. QED
  BY <1>2, <1>4, <1>5

\* A claim and a takeover do not miss each other: whoever is granted a lease is
\* granted it before the operator has the conversation.
LEMMA StepTaken == IInv /\ [Next]_vars => TakenInOrder'
<1> SUFFICES ASSUME IInv, [Next]_vars
             PROVE  TakenInOrder'
  OBVIOUS
<1>0. TypeOK /\ TakenInOrder /\ TabsInOrder /\ OnlyByTakeover
  BY DEF IInv
<1>1. ASSUME NEW t \in Tabs, TabStep(t) \/ Crash(t)
      PROVE  TakenInOrder'
  <2>1. human' = human
    BY <1>1, TabFrames
  <2>2. CASE Ask(t) \/ Begin(t) \/ GiveUp(t) \/ Proceed(t) \/ Answer(t) \/ Note(t)
             \/ TurnElsewhere(t) \/ SaveElsewhere(t)
    <3>1. taken' = taken
      BY <2>2, TabFrames
    <3>. QED
      BY <1>0, <2>1, <2>2, <3>1, TabSteps DEF TakenInOrder, Goes
  <2>3. CASE Mark(t)
    <3>1. tab[t].pc = "granted" /\ taken' = taken
      BY <2>3, TabFrames DEF Mark, histVars
    <3>. QED
      BY <1>0, <2>1, <2>3, <3>1, TabSteps DEF TakenInOrder, Goes
  <2>4. CASE Claim(t)
    <3>1. taken' = taken /\ (Permitted(tab[t].m) => ~human)
      BY <2>4 DEF Claim, Permitted, AiMayTalk
    <3>. QED
      BY <1>0, <2>1, <2>4, <3>1, ClaimStep DEF TakenInOrder, Goes
  <2>5. CASE Send(t) \/ Crash(t)
    <3>1. taken' = taken \ {t}
      BY <2>5, TabFrames
    <3>. QED
      BY <1>0, <2>1, <2>5, <3>1, TabSteps DEF TakenInOrder, Goes
  <2>. QED
    BY <1>1, <2>2, <2>3, <2>4, <2>5 DEF TabStep
<1>2. CASE Takeover
  <2>1. tab' = tab /\ taken' = IF human THEN taken ELSE UNION {Sending(m) : m \in Inbounds}
    BY <1>2 DEF Takeover, tabVars
  <2>2. \A t \in Tabs : tab[t].pc \in {"granted", "marked"} => tab[t].m \in Inbounds
    BY <1>0, RowTypes DEF TabsInOrder, TabRows
  <2>3. \A t \in Tabs : tab[t].pc \in {"granted", "marked"} => t \in Sending(tab[t].m)
    BY DEF Sending
  <2>. QED
    BY <1>0, <2>1, <2>2, <2>3 DEF TakenInOrder
<1>3. CASE Elsewhere
  <2>1. taken' = taken
    BY <1>3, OtherFrames
  <2>2. \A t \in Tabs : tab'[t] = tab[t] \/ tab'[t].pc \in {"planned", "idle"}
    BY <1>0, <1>3, OtherFrames, DraftSteps
  <2>3. human' = human
    BY <1>0, <1>3, OtherFrames, FinalizeHuman
  <2>. QED
    BY <1>0, <2>1, <2>2, <2>3 DEF TakenInOrder
<1>4. CASE UNCHANGED vars
  BY <1>0, <1>4 DEF vars, convVars, tabVars, histVars, TakenInOrder
<1>. QED
  BY <1>1, <1>2, <1>3, <1>4 DEF Next, Operate, Elsewhere

\* Only a claim after a lease that has run out adds a second sender.
LEMMA StepLease == IInv /\ [Next]_vars => OncePerLease'
<1> SUFFICES ASSUME IInv, [Next]_vars
             PROVE  OncePerLease'
  OBVIOUS
<1>0. TypeOK /\ OncePerLease /\ TabsInOrder
  BY DEF IInv
<1>1. ASSUME NEW t \in Tabs, TabStep(t) \/ Crash(t)
      PROVE  OncePerLease'
  <2>1. CASE Ask(t) \/ Begin(t) \/ GiveUp(t) \/ Proceed(t) \/ Note(t) \/ TurnElsewhere(t)
             \/ SaveElsewhere(t) \/ Crash(t)
    <3>1. out' = out /\ late' = late /\ lease' = lease
      BY <2>1, TabFrames
    <3>2. \A m \in Inbounds : Sending(m)' \subseteq Sending(m)
      BY <1>0, <2>1, TabSteps DEF Sending, Goes
    <3>. QED
      BY <1>0, <3>1, <3>2 DEF OncePerLease, OneSender
  <2>2. CASE Mark(t)
    <3>1. out' = out /\ late' = late /\ lease' = lease /\ tab[t].pc = "granted"
      BY <2>2, TabFrames DEF Mark
    <3>2. \A m \in Inbounds : Sending(m)' = Sending(m)
      BY <1>0, <2>2, <3>1, TabSteps DEF Sending, Goes
    <3>. QED
      BY <1>0, <3>1, <3>2 DEF OncePerLease, OneSender
  <2>3. CASE Claim(t)
    <3>1. out' = out /\ tab[t].pc = "claiming" /\ tab[t].m \in Inbounds
      BY <1>0, <2>3, TabFrames, RowTypes DEF Claim, TabsInOrder, TabRows
    <3>0. PICK m \in Inbounds : m = tab[t].m
      BY <3>1
    <3>2. CASE Goes(t, "idle", 0) /\ lease' = lease /\ late' = late
      <4>1. \A n \in Inbounds : Sending(n)' \subseteq Sending(n)
        BY <1>0, <3>0, <3>2, RowTypes DEF Sending, Goes
      <4>. QED
        BY <1>0, <3>0, <3>1, <3>2, <4>1 DEF OncePerLease, OneSender
    <3>3. CASE /\ Free(m, tab[t].at) /\ Goes(t, "granted", m)
               /\ lease' = [lease EXCEPT ![m] = [state |-> "claimed", owner |-> t,
                                                 until |-> tab[t].at + Lease]]
               /\ late' = IF lease[m].state # "none" /\ lease[m].until <= clock
                          THEN late \cup {m} ELSE late
      <4>1. \A n \in Inbounds \ {m} : Sending(n)' = Sending(n) /\ lease'[n] = lease[n]
        BY <3>0, <3>1, <3>3, RowTypes DEF Sending, Goes
      <4>2. Sending(m)' = Sending(m) \cup {t}
        BY <3>0, <3>1, <3>3 DEF Sending, Goes
      <4>3. lease'[m].state = "claimed"
        BY <1>0, <3>0, <3>1, <3>3, RowTypes
      <4>4. lease[m].until <= clock
        BY <1>0, <3>0, <3>1, <3>3, RowTypes, ReplyAssumption DEF Free, TabsInOrder, LeaseRows, TabRows
      <4>5. m \notin late' => m \notin late /\ out[m] = 0 /\ Sending(m) = {}
        BY <1>0, <3>0, <3>1, <3>3, <4>4 DEF OncePerLease, OneSender
      <4>6. late \subseteq late'
        BY <3>3
      <4>7. \A n \in (Inbounds \ late') \ {m} : OneSender(n)'
        BY <1>0, <3>1, <4>1, <4>6 DEF OncePerLease, OneSender
      <4>8. m \notin late' => OneSender(m)'
        BY <1>0, <3>1, <4>2, <4>3, <4>5 DEF OneSender
      <4>. QED
        BY <4>7, <4>8 DEF OncePerLease
    <3>. QED
      BY <1>0, <2>3, <3>0, <3>2, <3>3, ClaimStep
  <2>4. CASE Send(t)
    <3>0. PICK m \in Inbounds : m = tab[t].m
      BY <1>0, <2>4, RowTypes DEF Send, TabsInOrder, TabRows
    <3>1. /\ late' = late /\ lease' = lease /\ tab[t].pc = "marked"
          /\ out' = [out EXCEPT ![m] = @ + 1] \/ out' = out
      BY <2>4, <3>0, TabFrames DEF Send
    <3>2. t \in Sending(m) /\ Sending(m)' = Sending(m) \ {t}
      BY <1>0, <2>4, <3>0, <3>1, TabSteps DEF Sending, Goes
    <3>3. \A n \in Inbounds \ {m} : Sending(n)' = Sending(n) /\ out'[n] = out[n]
      BY <1>0, <2>4, <3>0, <3>1, TabSteps, RowTypes DEF Sending, Goes
    <3>4. out'[m] = out[m] \/ out'[m] = out[m] + 1
      BY <1>0, <3>0, <3>1, RowTypes
    <3>5. m \notin late => out[m] = 0 /\ Sending(m)' = {} /\ lease[m].state # "none"
      BY <1>0, <3>0, <3>1, <3>2 DEF OncePerLease, OneSender
    <3>6. \A n \in (Inbounds \ late') \ {m} : OneSender(n)'
      BY <1>0, <3>0, <3>1, <3>3 DEF OncePerLease, OneSender
    <3>7. m \notin late' => OneSender(m)'
      BY <3>1, <3>4, <3>5 DEF OneSender
    <3>. QED
      BY <3>6, <3>7 DEF OncePerLease
  <2>5. CASE Answer(t)
    <3>1. out' = out /\ late' = late
      BY <2>5, TabFrames
    <3>2. \A m \in Inbounds : Sending(m)' \subseteq Sending(m)
      BY <1>0, <2>5, TabSteps DEF Sending, Goes
    <3>3. \A m \in Inbounds : lease'[m].state = "none" => lease[m].state = "none"
      <4>1. lease' = lease \/ lease' = [lease EXCEPT ![tab[t].m].state = Ended(tab[t].ok)]
        BY <2>5, Zenon DEF Answer, Finished
      <4>2. Ended(tab[t].ok) # "none"
        BY DEF Ended
      <4>. QED
        BY <1>0, <4>1, <4>2, RowTypes DEF LeaseRows
    <3>. QED
      BY <1>0, <3>1, <3>2, <3>3 DEF OncePerLease, OneSender
  <2>. QED
    BY <1>1, <2>1, <2>2, <2>3, <2>4, <2>5 DEF TabStep
<1>2. CASE Takeover
  BY <1>0, <1>2 DEF Takeover, OncePerLease, OneSender, Sending, tabVars
<1>3. CASE Elsewhere
  <2>1. out' = out /\ late' = late /\ lease' = lease
    BY <1>3, OtherFrames
  <2>2. \A m \in Inbounds : Sending(m)' \subseteq Sending(m)
    BY <1>0, <1>3, OtherFrames, DraftSteps DEF Sending
  <2>. QED
    BY <1>0, <2>1, <2>2 DEF OncePerLease, OneSender
<1>4. CASE UNCHANGED vars
  BY <1>0, <1>4 DEF vars, planVars, tabVars, histVars, OncePerLease, OneSender, Sending
<1>. QED
  BY <1>1, <1>2, <1>3, <1>4 DEF Next, Operate, Elsewhere

\* What a tab has read of the marks was there at some time.
LEMMA SeenSteps ==
    ASSUME TypeOK, NEW t \in Tabs, TabStep(t) \/ Crash(t)
    PROVE  \A u \in Tabs : tab'[u].seen \subseteq tab[u].seen \cup processed
<1>1. CASE Ask(t)
  BY <1>1, RowTypes, IdleTab DEF Ask, TabRows, Idle
<1>2. CASE Begin(t)
  <2>1. \/ tab' = [tab EXCEPT ![t].pc = "planned"] \/ tab' = [tab EXCEPT ![t] = Idle]
        \/ tab' = [tab EXCEPT ![t].pc = "waiting"]
    BY <1>2, Zenon DEF Begin
  <2>. QED
    BY <2>1, RowTypes DEF TabRows, Idle
<1>3. CASE GiveUp(t) \/ Note(t) \/ Crash(t)
  <2>1. tab' = [tab EXCEPT ![t] = Idle]
    BY <1>3, Zenon DEF GiveUp, Note, Crash
  <2>. QED
    BY <2>1, RowTypes DEF TabRows, Idle
<1>4. CASE Proceed(t) \/ Mark(t)
  <2>1. \/ tab' = [tab EXCEPT ![t].pc = "claiming", ![t].at = clock]
        \/ tab' = [tab EXCEPT ![t].pc = "marked"]
    BY <1>4, Zenon DEF Proceed, Mark
  <2>. QED
    BY <2>1, RowTypes DEF TabRows
<1>5. CASE Claim(t)
  <2>1. \/ tab' = [tab EXCEPT ![t].pc = "granted", ![t].at = 0]
        \/ tab' = [tab EXCEPT ![t] = Idle]
    BY <1>5 DEF Claim
  <2>. QED
    BY <2>1, RowTypes DEF TabRows, Idle
<1>6. CASE Send(t)
  <2>1. \E ok \in BOOLEAN : tab' = [tab EXCEPT ![t].pc = "answering", ![t].ok = ok]
    BY <1>6, Zenon DEF Send
  <2>2. PICK ok \in BOOLEAN : tab' = [tab EXCEPT ![t].pc = "answering", ![t].ok = ok]
    BY <2>1
  <2>. QED
    BY <2>2, RowTypes DEF TabRows
<1>7. CASE Answer(t)
  <2>1. \/ tab' = [tab EXCEPT ![t] = Idle]
        \/ tab' = [tab EXCEPT ![t].pc = "closing", ![t].ok = FALSE]
    BY <1>7, Zenon DEF Answer
  <2>. QED
    BY <2>1, RowTypes DEF TabRows, Idle
<1>8. CASE TurnElsewhere(t)
  BY <1>8, RowTypes, IdleTab DEF TurnElsewhere, TabRows, Idle
<1>9. CASE SaveElsewhere(t)
  BY <1>9 DEF SaveElsewhere
<1>. QED
  BY <1>1, <1>2, <1>3, <1>4, <1>5, <1>6, <1>7, <1>8, <1>9 DEF TabStep

\* A save that loses no mark and surprises no tab.
LEMMA SaveMarks ==
    ASSUME NEW t \in Tabs, Save(t), NEW n \in Inbounds, n \notin loose'
    PROVE  /\ n \notin loose
           /\ n \in processed' <=> n \in tab[t].seen \/ n = tab[t].m
           /\ n \in processed => n \in processed'
           /\ n = tab[t].m => \A u \in Tabs \ {t} : tab[u].m # n
BY DEF Save

\* A message whose mark holds is left alone by every tab but the one at work.
LEMMA StepMark == IInv /\ [Next]_vars => OncePerMark'
<1> SUFFICES ASSUME IInv, [Next]_vars
             PROVE  OncePerMark'
  OBVIOUS
<1>0. TypeOK /\ OncePerMark /\ TabsInOrder /\ 0 \notin Inbounds
  BY RowTypes DEF IInv
<1>1. ASSUME NEW t \in Tabs, TabStep(t) \/ Crash(t)
      PROVE  OncePerMark'
  <2>0. \A u \in Tabs : tab'[u].seen \subseteq tab[u].seen \cup processed
    BY <1>0, <1>1, SeenSteps
  <2>1. CASE Ask(t) \/ Begin(t) \/ Proceed(t) \/ Claim(t) \/ Answer(t) \/ TurnElsewhere(t)
             \/ Crash(t)
    <3>1. out' = out /\ processed' = processed /\ loose' = loose
      BY <2>1, TabFrames
    <3>2. \A u \in Tabs \ {t} : tab'[u] = tab[u]
      BY <1>0, <2>1, TabSteps, ClaimStep DEF Goes
    <3>3. tab'[t].pc # "marked"
      BY <1>0, <2>1, TabSteps, ClaimStep DEF Goes
    <3>4. \A n \in Inbounds : tab'[t].m = n =>
            \/ n \notin processed
            \/ tab[t].m = n /\ tab[t].pc \notin {"answering", "closing"}
            \/ tab[t].m = n /\ tab'[t].pc = "closing"
      <4>1. CASE Ask(t)
        BY <1>0, <4>1, TabSteps DEF Ask, Goes
      <4>2. CASE Begin(t) \/ Proceed(t)
        BY <1>0, <4>2, TabSteps DEF Begin, Proceed, Goes
      <4>3. CASE Claim(t)
        BY <1>0, <4>3, ClaimStep DEF Claim, Goes
      <4>4. CASE Answer(t) \/ TurnElsewhere(t) \/ Crash(t)
        BY <1>0, <4>4, TabSteps DEF Goes
      <4>. QED
        BY <2>1, <4>1, <4>2, <4>3, <4>4
    <3>5. SUFFICES ASSUME NEW n \in Inbounds \ loose
                   PROVE  KeptOff(n)'
      BY <3>1 DEF OncePerMark
    <3>6. KeptOff(n)
      BY <1>0 DEF OncePerMark
    <3>. QED
      BY <2>0, <3>1, <3>2, <3>3, <3>4, <3>6 DEF KeptOff
  <2>2. CASE GiveUp(t) \/ Note(t)
    <3>1. /\ out' = out /\ Goes(t, "idle", 0)
          /\ Save(t) \/ (processed' = processed /\ loose' = loose)
      BY <1>0, <2>2, TabFrames, TabSteps DEF GiveUp, Note
    <3>2. SUFFICES ASSUME NEW n \in Inbounds \ loose'
                   PROVE  KeptOff(n)'
      BY DEF OncePerMark
    <3>3. n \notin loose
      BY <3>1, SaveMarks
    <3>4. KeptOff(n)
      BY <1>0, <3>3 DEF OncePerMark
    <3>. QED
      BY <1>0, <2>0, <3>1, <3>4, SaveMarks DEF KeptOff, Goes
  <2>3. CASE Mark(t)
    <3>1. out' = out /\ Goes(t, "marked", tab[t].m) /\ Save(t) /\ tab[t].pc = "granted"
      BY <1>0, <2>3, TabFrames, TabSteps DEF Mark
    <3>2. SUFFICES ASSUME NEW n \in Inbounds \ loose'
                   PROVE  KeptOff(n)'
      BY DEF OncePerMark
    <3>4. KeptOff(n)
      BY <1>0, <3>1, SaveMarks DEF OncePerMark
    <3>. QED
      BY <1>0, <2>0, <3>1, <3>4, SaveMarks DEF KeptOff, Goes
  <2>4. CASE Send(t)
    <3>0. PICK m \in Inbounds : m = tab[t].m
      BY <1>0, <2>4, RowTypes DEF Send, TabsInOrder, TabRows
    <3>1. /\ processed' = processed /\ loose' = loose /\ tab[t].pc = "marked"
          /\ Goes(t, "answering", m)
          /\ out' = [out EXCEPT ![m] = @ + 1] \/ out' = out
      BY <1>0, <2>4, <3>0, TabFrames, TabSteps DEF Send
    <3>2. /\ \A n \in Inbounds \ {m} : out'[n] = out[n]
          /\ out'[m] = out[m] \/ out'[m] = out[m] + 1
          /\ out[m] \in Nat
      BY <1>0, <3>1, RowTypes
    <3>3. SUFFICES ASSUME NEW n \in Inbounds \ loose
                   PROVE  KeptOff(n)'
      BY <3>1 DEF OncePerMark
    <3>4. KeptOff(n)
      BY <1>0 DEF OncePerMark
    <3>5. n = m => out[m] = 0 /\ m \in processed
      BY <3>0, <3>1, <3>2, <3>4 DEF KeptOff
    <3>. QED
      BY <2>0, <3>0, <3>1, <3>2, <3>4, <3>5 DEF KeptOff, Goes
  <2>5. CASE SaveElsewhere(t)
    <3>1. out' = out /\ tab' = tab /\ Save(t) /\ tab[t].m \notin Inbounds
      BY <1>0, <2>5, TabFrames, TabSteps DEF SaveElsewhere, TabsInOrder
    <3>2. SUFFICES ASSUME NEW n \in Inbounds \ loose'
                   PROVE  KeptOff(n)'
      BY DEF OncePerMark
    <3>3. KeptOff(n)
      BY <1>0, <3>1, SaveMarks DEF OncePerMark
    <3>. QED
      BY <1>0, <3>1, <3>3, SaveMarks DEF KeptOff
  <2>. QED
    BY <1>1, <2>1, <2>2, <2>3, <2>4, <2>5 DEF TabStep
<1>2. CASE Takeover
  <2>1. out' = out /\ tab' = tab /\ processed' = processed /\ loose' = loose
    BY <1>2 DEF Takeover, tabVars
  <2>. QED
    BY <1>0, <2>1 DEF OncePerMark, KeptOff
<1>3. CASE Elsewhere
  <2>1. out' = out /\ processed' = processed /\ loose' = loose
    BY <1>3, OtherFrames
  <2>2. \A u \in Tabs :
          \/ tab'[u].m = tab[u].m /\ tab'[u].pc = tab[u].pc
          \/ tab'[u].m = 0 /\ tab'[u].pc = "idle"
          \/ tab'[u].m = tab[u].m /\ tab[u].pc = "waiting" /\ tab'[u].pc = "planned"
    BY <1>0, <1>3, OtherFrames, DraftSteps
  <2>3. \A u \in Tabs : tab'[u].seen \subseteq tab[u].seen
    <3>1. CASE Finalize
      <4>1. tab' = Returned
        BY <3>1, Zenon DEF Finalize
      <4>. QED
        BY <1>0, <4>1, RowTypes DEF Returned, TabRows
    <3>2. CASE DraftFails
      <4>1. tab' = [u \in Tabs |-> IF tab[u].pc = "waiting" THEN Idle ELSE tab[u]]
        BY <3>2, Zenon DEF DraftFails
      <4>. QED
        BY <4>1 DEF Idle
    <3>. QED
      BY <1>3, <3>1, <3>2, OtherFrames
  <2>4. SUFFICES ASSUME NEW n \in Inbounds \ loose
                 PROVE  KeptOff(n)'
    BY <2>1 DEF OncePerMark
  <2>5. KeptOff(n)
    BY <1>0 DEF OncePerMark
  <2>. QED
    BY <1>0, <2>1, <2>2, <2>3, <2>5 DEF KeptOff
<1>4. CASE UNCHANGED vars
  BY <1>0, <1>4 DEF vars, tabVars, histVars, OncePerMark, KeptOff
<1>. QED
  BY <1>1, <1>2, <1>3, <1>4 DEF Next, Operate, Elsewhere

-----------------------------------------------------------------------------
(* Plans and the stage of the conversation.                                *)

\* A plan that gets another state and keeps the rest.
Restated(m, s) ==
    /\ plan'[m].state = s /\ plan'[m].text = plan[m].text /\ plan'[m].stage = plan[m].stage
    /\ \A n \in Inbounds \ {m} : plan'[n] = plan[n]

LEMMA PlanRestated ==
    ASSUME TypeOK, NEW m \in Inbounds, NEW s \in PlanStates,
           plan' = [plan EXCEPT ![m].state = s]
    PROVE  plan' \in [Inbounds -> PlanRows] /\ Restated(m, s)
BY RowTypes DEF Restated, PlanRows

\* The steps of a tab, as the plans see them.
LEMMA TabPlans ==
    ASSUME TypeOK, TabsInOrder, NEW t \in Tabs, NEW m, m = tab[t].m
    PROVE  /\ Begin(t) => \/ plan' = plan
                          \/ /\ m \in Inbounds /\ plan[m].state \in {"none", "planning"}
                             /\ Restated(m, "planning")
           /\ GiveUp(t) => /\ m \in Inbounds
                           /\ plan' = plan \/ (Accepts(m, "superseded") /\ Restated(m, "superseded"))
           /\ Answer(t) => \/ plan' = plan /\ UNCHANGED <<stage, replies>>
                           \/ /\ m \in Inbounds /\ plan[m].state \in {"planned", "uncertain"}
                              /\ Restated(m, "uncertain") /\ UNCHANGED <<stage, replies>>
                           \/ /\ m \in Inbounds /\ plan[m].state \in {"planned", "uncertain"}
                              /\ plan[m].text /\ Restated(m, "sent")
                              /\ stage' = Later(stage, plan[m].stage) /\ replies' = replies + 1
           /\ Begin(t) \/ GiveUp(t) \/ Answer(t) => plan' \in [Inbounds -> PlanRows]
<1>0. {"planning", "superseded", "sent", "uncertain"} \subseteq PlanStates
  BY DEF PlanStates
<1>1. ASSUME Begin(t)
      PROVE  /\ \/ plan' = plan
                \/ /\ m \in Inbounds /\ plan[m].state \in {"none", "planning"}
                   /\ Restated(m, "planning")
             /\ plan' \in [Inbounds -> PlanRows]
  <2>1. m \in Inbounds
    BY <1>1, RowTypes DEF Begin, TabsInOrder, TabRows
  <2>2. \/ plan' = plan
        \/ /\ plan[m].state \in {"none", "planning"}
           /\ plan' = [plan EXCEPT ![m].state = "planning"]
    BY <1>1, Zenon DEF Begin
  <2>. QED
    BY <1>0, <2>1, <2>2, PlanRestated, RowTypes
<1>2. ASSUME GiveUp(t)
      PROVE  /\ m \in Inbounds
             /\ plan' = plan \/ (Accepts(m, "superseded") /\ Restated(m, "superseded"))
             /\ plan' \in [Inbounds -> PlanRows]
  <2>1. m \in Inbounds
    BY <1>2, RowTypes DEF GiveUp, TabsInOrder, TabRows
  <2>2. \/ plan' = plan
        \/ Accepts(m, "superseded") /\ plan' = [plan EXCEPT ![m].state = "superseded"]
    BY <1>2, Zenon DEF GiveUp
  <2>. QED
    BY <1>0, <2>1, <2>2, PlanRestated, RowTypes
<1>3. ASSUME Answer(t)
      PROVE  /\ \/ plan' = plan /\ UNCHANGED <<stage, replies>>
                \/ /\ m \in Inbounds /\ plan[m].state \in {"planned", "uncertain"}
                   /\ Restated(m, "uncertain") /\ UNCHANGED <<stage, replies>>
                \/ /\ m \in Inbounds /\ plan[m].state \in {"planned", "uncertain"}
                   /\ plan[m].text /\ Restated(m, "sent")
                   /\ stage' = Later(stage, plan[m].stage) /\ replies' = replies + 1
             /\ plan' \in [Inbounds -> PlanRows]
  <2>1. m \in Inbounds
    BY <1>3, RowTypes DEF Answer, TabsInOrder, TabRows
  <2>2. \/ plan' = plan /\ UNCHANGED <<stage, replies>>
        \/ /\ Accepts(m, "uncertain") /\ UNCHANGED <<stage, replies>>
           /\ plan' = [plan EXCEPT ![m].state = "uncertain"]
        \/ /\ Accepts(m, "sent") /\ plan' = [plan EXCEPT ![m].state = "sent"]
           /\ stage' = Later(stage, plan[m].stage) /\ replies' = replies + 1
    BY <1>3 DEF Answer
  <2>3. /\ Accepts(m, "uncertain") => plan[m].state \in {"planned", "uncertain"}
        /\ Accepts(m, "sent") => plan[m].state \in {"planned", "uncertain"} /\ plan[m].text
    BY DEF Accepts, Sources
  <2>. QED
    BY <1>0, <2>1, <2>2, <2>3, PlanRestated, RowTypes
<1>. QED
  BY <1>1, <1>2, <1>3

\* The other tab steps leave the plans and the conversation.
LEMMA TabQuiet ==
    ASSUME NEW t \in Tabs
    PROVE  /\ Ask(t) \/ Proceed(t) \/ Claim(t) \/ Mark(t) \/ Send(t) \/ Note(t)
              \/ TurnElsewhere(t) \/ SaveElsewhere(t) \/ Crash(t) => plan' = plan
           /\ Ask(t) \/ Begin(t) \/ GiveUp(t) \/ Proceed(t) \/ Claim(t) \/ Mark(t) \/ Send(t)
              \/ Note(t) \/ TurnElsewhere(t) \/ SaveElsewhere(t) \/ Crash(t)
                => UNCHANGED <<stage, replies>>
           /\ Ask(t) \/ GiveUp(t) \/ Proceed(t) \/ Claim(t) \/ Mark(t) \/ Send(t) \/ Answer(t)
              \/ Note(t) \/ TurnElsewhere(t) \/ SaveElsewhere(t) => drafting' = drafting
           /\ Ask(t) \/ Begin(t) \/ Proceed(t) \/ Claim(t) \/ Mark(t) \/ Send(t) \/ Answer(t)
              \/ Note(t) \/ TurnElsewhere(t) \/ SaveElsewhere(t) \/ Crash(t)
                => withdrawn' = withdrawn
BY Zenon DEF Ask, Begin, GiveUp, Proceed, Claim, Mark, Send, Answer, Note, TurnElsewhere,
   SaveElsewhere, Crash, convVars,
   planVars, histVars

\* A takeover gives up what was still open, and only that.
LEMMA TakeoverPlans ==
    ASSUME TypeOK, Takeover
    PROVE  /\ plan' \in [Inbounds -> PlanRows]
           /\ \A m \in Inbounds :
                IF Open(m) THEN /\ plan'[m].state = "superseded" /\ plan'[m].text = plan[m].text
                                /\ plan'[m].stage = plan[m].stage
                ELSE plan'[m] = plan[m]
           /\ stage' = Later(stage, "human_required") /\ human' /\ stage # "closed"
           /\ UNCHANGED <<replies, drafting, tab, out, clock>>
<1>1. plan' = [m \in Inbounds |-> IF Open(m) THEN [plan[m] EXCEPT !.state = "superseded"]
                                   ELSE plan[m]]
  BY Zenon DEF Takeover
<1>2. /\ stage' = Later(stage, "human_required") /\ human' /\ stage # "closed"
      /\ UNCHANGED <<replies, drafting, tab, out, clock>>
  BY Zenon DEF Takeover, tabVars
<1>. QED
  BY <1>1, <1>2, RowTypes DEF PlanRows, PlanStates

\* The replies of other plans are finitely many.
LEMMA ReservedType ==
    ASSUME NEW m \in Inbounds
    PROVE  Manual \in Nat /\ Reserved(m) \in Nat
<1>1. IsFiniteSet(Inbounds)
  BY ReplyAssumption
<1>2. \A S \in SUBSET Inbounds : Cardinality(S) \in Nat
  BY <1>1, FS_Subset, FS_CardinalityType
<1>3. Manual \in Nat
  BY <1>2 DEF Manual
<1>4. Cardinality({p \in Inbounds \ {m} :
                    plan[p].text /\ plan[p].state \in {"planned", "uncertain"}}) \in Nat
  BY <1>2
<1>. QED
  BY <1>3, <1>4 DEF Reserved

\* The end of a draft makes its plan, if it is still waited for.
LEMMA FinalizePlan ==
    ASSUME TypeOK, TabsInOrder, Finalize
    PROVE  \E m \in Inbounds :
             /\ m = drafting.m /\ drafting' = NoDraft
             /\ \/ plan' = plan
                \/ /\ plan[m].state = "planning"
                   /\ plan' \in [Inbounds -> PlanRows]
                   /\ plan'[m].state = "planned"
                   /\ plan'[m].stage \in {"closed", drafting.pstage}
                   /\ plan'[m].text => replies + Reserved(m) < MaxReplies
                   /\ \A n \in Inbounds \ {m} : plan'[n] = plan[n]
<1>1. PICK m \in Inbounds : m = drafting.m
  BY DEF Finalize, TabsInOrder
<1> DEFINE over == drafting.text /\ replies + Reserved(m) >= MaxReplies
           r == [state |-> "planned", text |-> drafting.text /\ ~over,
                 stage |-> IF over THEN "closed" ELSE drafting.pstage,
                 invite |-> drafting.invite /\ ~over]
<1>2. drafting' = NoDraft /\ (plan' = plan \/ (plan[m].state = "planning" /\ plan' = [plan EXCEPT ![m] = r]))
  BY <1>1, Zenon DEF Finalize
<1>3. r \in PlanRows /\ r.state = "planned" /\ r.stage \in {"closed", drafting.pstage}
  BY RowTypes, StageRanks DEF PlanRows, PlanStates, DraftRows
<1>4. r.text => ~(replies + Reserved(m) >= MaxReplies)
  OBVIOUS
<1> HIDE DEF r
<1>5. replies + Reserved(m) \in Nat /\ MaxReplies \in Nat
  BY ReservedType, ReplyAssumption DEF TypeOK
<1>. QED
  BY <1>1, <1>2, <1>3, <1>4, <1>5, RowTypes

\* A draft belongs to a message, whoever waits for it.
LEMMA DraftMessage ==
    ASSUME TypeOK, TabsInOrder, OnlyByTakeover, [Next]_vars
    PROVE  /\ drafting' \in DraftRows
           /\ drafting' # NoDraft => drafting'.m \in Inbounds
           /\ drafting'.pstage # "human_required" /\ drafting'.cstage # "human_required"
<1>0. /\ NoDraft \in DraftRows /\ NoDraft.m = 0
      /\ NoDraft.pstage = "new" /\ NoDraft.cstage = "new"
      /\ drafting \in DraftRows
      /\ drafting # NoDraft => drafting.m \in Inbounds
      /\ drafting.pstage # "human_required" /\ drafting.cstage # "human_required"
  BY RowTypes, StageRanks DEF NoDraft, DraftRows, TabsInOrder, OnlyByTakeover
<1>1. ASSUME NEW t \in Tabs, Begin(t)
      PROVE  \/ drafting' = drafting
             \/ /\ drafting' \in DraftRows /\ drafting'.m \in Inbounds
                /\ drafting'.pstage # "human_required" /\ drafting'.cstage # "human_required"
  <2>1. PICK m \in Inbounds : m = tab[t].m
    BY <1>1, RowTypes DEF Begin, TabsInOrder, TabRows
  <2>2. drafting' = drafting \/ (\E kind \in Kinds : drafting' = Draft(t, m, kind))
    BY <1>1, <2>1, Zenon DEF Begin
  <2>. QED
    BY <2>2, DraftTypes
<1>2. ASSUME NEW t \in Tabs, Crash(t)
      PROVE  /\ drafting' \in DraftRows
             /\ drafting' # NoDraft => drafting'.m \in Inbounds
             /\ drafting'.pstage # "human_required" /\ drafting'.cstage # "human_required"
  <2>1. \/ drafting' = drafting
        \/ drafting.by = t /\ drafting' = [drafting EXCEPT !.by = NoTab]
    BY <1>2, Zenon DEF Crash
  <2>2. drafting.by = t => drafting # NoDraft
    BY RowTypes DEF NoDraft
  <2>. QED
    BY <1>0, <2>1, <2>2, RowTypes DEF DraftRows
<1>3. ASSUME NEW t \in Tabs, TabStep(t) \/ Crash(t)
      PROVE  \/ drafting' = drafting
             \/ /\ drafting' \in DraftRows
                /\ drafting' # NoDraft => drafting'.m \in Inbounds
                /\ drafting'.pstage # "human_required" /\ drafting'.cstage # "human_required"
  BY <1>1, <1>2, <1>3, TabQuiet DEF TabStep
<1>4. CASE Takeover
  BY <1>0, <1>4, TakeoverPlans
<1>5. CASE Elsewhere
  <2>1. drafting' = drafting \/ drafting' = NoDraft
    BY <1>5, OtherFrames, Zenon DEF Finalize, DraftFails
  <2>. QED
    BY <1>0, <2>1
<1>6. CASE UNCHANGED vars
  BY <1>0, <1>6 DEF vars
<1>. QED
  BY <1>0, <1>3, <1>4, <1>5, <1>6 DEF Next, Operate, Elsewhere

\* What a step may do to a plan.
LEMMA PlanSteps ==
    ASSUME TypeOK, TabsInOrder, [Next]_vars
    PROVE  /\ plan' \in [Inbounds -> PlanRows]
           /\ \A m \in Inbounds :
                \/ plan'[m] = plan[m]
                \/ /\ plan'[m].text = plan[m].text /\ plan'[m].stage = plan[m].stage
                   /\ \/ plan'[m].state = "planning" /\ plan[m].state \in {"none", "planning"}
                      \/ plan'[m].state = "superseded"
                      \/ plan'[m].state = "uncertain" /\ plan[m].state \in {"planned", "uncertain"}
                      \/ plan'[m].state = "sent" /\ plan[m].text
                         /\ plan[m].state \in {"planned", "uncertain"}
                \/ /\ plan[m].state = "planning" /\ plan'[m].state = "planned"
                   /\ plan'[m].stage \in {"closed", drafting.pstage}
<1>1. ASSUME NEW t \in Tabs, TabStep(t) \/ Crash(t)
      PROVE  /\ plan' \in [Inbounds -> PlanRows]
             /\ \A m \in Inbounds :
                  \/ plan'[m] = plan[m]
                  \/ /\ plan'[m].text = plan[m].text /\ plan'[m].stage = plan[m].stage
                     /\ \/ plan'[m].state = "planning" /\ plan[m].state \in {"none", "planning"}
                        \/ plan'[m].state = "superseded"
                        \/ plan'[m].state = "uncertain" /\ plan[m].state \in {"planned", "uncertain"}
                        \/ plan'[m].state = "sent" /\ plan[m].text
                           /\ plan[m].state \in {"planned", "uncertain"}
  <2>1. CASE Begin(t)
    BY <2>1, TabPlans, RowTypes DEF Restated
  <2>2. CASE GiveUp(t)
    BY <2>2, TabPlans, RowTypes DEF Restated
  <2>3. CASE Answer(t)
    BY <2>3, TabPlans, RowTypes DEF Restated
  <2>. QED
    BY <1>1, <2>1, <2>2, <2>3, TabQuiet, RowTypes DEF TabStep
<1>2. CASE Takeover
  BY <1>2, TakeoverPlans
<1>3. CASE Elsewhere
  BY <1>3, OtherFrames, FinalizePlan, RowTypes, Zenon DEF DraftFails, planVars
<1>4. CASE UNCHANGED vars
  BY <1>4, RowTypes DEF vars, planVars
<1>. QED
  BY <1>1, <1>2, <1>3, <1>4 DEF Next, Operate, Elsewhere

\* A plan with a text keeps it, and a tab that may send has one.
LEMMA StepTabs == IInv /\ [Next]_vars => TabsInOrder'
<1> SUFFICES ASSUME IInv, [Next]_vars
             PROVE  TabsInOrder'
  OBVIOUS
<1>0. TypeOK /\ OnlyByTakeover /\ TabsInOrder /\ 0 \notin Inbounds
  BY RowTypes DEF IInv
<1>1. drafting' # NoDraft => drafting'.m \in Inbounds
  BY <1>0, DraftMessage
<1>2. \A m \in Inbounds : /\ plan'[m].text => plan'[m].state \notin {"none", "planning"}
                          /\ plan'[m].state = "sent" => plan'[m].text
                          /\ plan[m].text => plan'[m].text
  <2>1. \A m \in Inbounds : /\ plan[m].text => plan[m].state \notin {"none", "planning"}
                            /\ plan[m].state = "sent" => plan[m].text
    BY <1>0 DEF TabsInOrder
  <2>. QED
    BY <1>0, <2>1, PlanSteps
<1>3. \A u \in Tabs :
        /\ tab'[u].m = 0 <=> tab'[u].pc \in {"idle", "elsewhere"}
        /\ tab'[u].at <= clock'
        /\ tab'[u].pc \in {"claiming", "granted", "marked", "answering"} =>
             /\ tab'[u].m = tab[u].m
             /\ plan[tab[u].m].text
  <2>0. \A u \in Tabs :
          /\ tab[u].m = 0 <=> tab[u].pc \in {"idle", "elsewhere"}
          /\ tab[u].at <= clock
          /\ tab[u].pc \in {"claiming", "granted", "marked", "answering"} => plan[tab[u].m].text
    BY <1>0 DEF TabsInOrder
  <2>1. ASSUME NEW t \in Tabs, TabStep(t) \/ Crash(t)
        PROVE  /\ \A u \in Tabs \ {t} : tab'[u] = tab[u]
               /\ tab'[t].m = 0 <=> tab'[t].pc \in {"idle", "elsewhere"}
               /\ tab'[t].at <= clock'
               /\ tab'[t].pc \in {"claiming", "granted", "marked", "answering"} =>
                    tab'[t].m = tab[t].m /\ plan[tab[t].m].text
    <3>0. clock' = clock /\ clock \in Nat /\ newest \in {0} \cup Inbounds
      BY <1>0, <2>1, TabFrames, RowTypes
    <3>1. CASE Ask(t)
      <4>1. newest \in Inbounds
        BY <3>1, Zenon DEF Ask
      <4>. QED
        BY <1>0, <3>0, <3>1, <4>1, TabSteps DEF Goes
    <3>2. CASE Begin(t)
      <4>1. tab[t].pc = "asking"
        BY <3>2 DEF Begin
      <4>. QED
        BY <1>0, <2>0, <3>0, <3>2, <4>1, TabSteps DEF Goes
    <3>3. CASE GiveUp(t) \/ Note(t) \/ TurnElsewhere(t) \/ Crash(t)
      BY <1>0, <3>0, <3>3, TabSteps DEF Goes
    <3>4. CASE Proceed(t)
      <4>1. tab[t].pc = "planned" /\ plan[tab[t].m].text
        BY <3>4 DEF Proceed
      <4>. QED
        BY <1>0, <2>0, <3>0, <3>4, <4>1, TabSteps DEF Goes
    <3>5. CASE Claim(t)
      <4>1. tab[t].pc = "claiming"
        BY <3>5 DEF Claim
      <4>. QED
        BY <1>0, <2>0, <3>0, <3>5, <4>1, ClaimStep DEF Goes
    <3>6. CASE Mark(t) \/ Send(t)
      <4>1. tab[t].pc \in {"granted", "marked"}
        BY <3>6 DEF Mark, Send
      <4>. QED
        BY <1>0, <2>0, <3>0, <3>6, <4>1, TabSteps DEF Goes
    <3>7. CASE Answer(t)
      <4>1. tab[t].pc = "answering"
        BY <3>7 DEF Answer
      <4>. QED
        BY <1>0, <2>0, <3>0, <3>7, <4>1, TabSteps DEF Goes
    <3>8. CASE SaveElsewhere(t)
      BY <1>0, <2>0, <3>0, <3>8, TabSteps
    <3>. QED
      BY <2>1, <3>1, <3>2, <3>3, <3>4, <3>5, <3>6, <3>7, <3>8 DEF TabStep
  <2>2. ASSUME NEW t \in Tabs, TabStep(t) \/ Crash(t)
        PROVE  clock' = clock
    BY <2>2, TabFrames
  <2>3. CASE Takeover
    BY <1>0, <2>0, <2>3, TakeoverPlans
  <2>4. CASE Elsewhere
    <3>1. clock \in Nat /\ clock' \in Nat /\ clock' >= clock
      <4>1. clock' = clock \/ clock' = clock + 1
        BY <2>4, OtherFrames, Zenon DEF Tick
      <4>. QED
        BY <1>0, <4>1, RowTypes
    <3>2. \A u \in Tabs : tab[u].at \in Nat
      BY <1>0, RowTypes, ReplyAssumption DEF TabRows
    <3>. QED
      BY <1>0, <2>0, <2>4, <3>1, <3>2, OtherFrames, DraftSteps
  <2>5. CASE UNCHANGED vars
    BY <2>0, <2>5 DEF vars, tabVars
  <2>. QED
    BY <2>0, <2>1, <2>2, <2>3, <2>4, <2>5 DEF Next, Operate, Elsewhere
<1>4. \A u \in Tabs : tab[u].m \in {0} \cup Inbounds
  BY <1>0, RowTypes DEF TabRows
<1>. QED
  BY <1>0, <1>1, <1>2, <1>3, <1>4 DEF TabsInOrder

\* Only the operator asks for the operator.
LEMMA StepOnly == IInv /\ [Next]_vars => OnlyByTakeover' /\ HumanHolds'
<1> SUFFICES ASSUME IInv, [Next]_vars
             PROVE  OnlyByTakeover' /\ HumanHolds'
  OBVIOUS
<1>0. /\ TypeOK /\ OnlyByTakeover /\ TabsInOrder /\ HumanHolds /\ stage \in Stages
      /\ human \in BOOLEAN
  BY DEF IInv, TypeOK
<1>1. drafting'.pstage # "human_required" /\ drafting'.cstage # "human_required"
  BY <1>0, DraftMessage
<1>2. \A m \in Inbounds : plan'[m].stage # "human_required"
  BY <1>0, PlanSteps DEF OnlyByTakeover
<1>3. /\ stage' = "human_required" => human'
      /\ human' => stage' \in {"human_required", "closed"}
  <2>0. /\ stage = "human_required" => human
        /\ human => stage \in {"human_required", "closed"}
    BY <1>0 DEF OnlyByTakeover, HumanHolds
  <2>1. ASSUME NEW t \in Tabs, TabStep(t) \/ Crash(t)
        PROVE  /\ human' = human
               /\ \/ stage' = stage
                  \/ \E m \in Inbounds : stage' = Later(stage, plan[m].stage)
    BY <1>0, <2>1, TabFrames, TabQuiet, TabPlans DEF TabStep
  <2>2. \A m \in Inbounds :
          /\ plan[m].stage \in Stages \ {"human_required"}
          /\ Later(stage, plan[m].stage) \in Stages
          /\ Rank[Later(stage, plan[m].stage)] >= Rank[stage]
          /\ Later(stage, plan[m].stage) = "human_required" => stage = "human_required"
    <3>1. \A m \in Inbounds : plan[m].stage \in Stages \ {"human_required"}
      BY <1>0, RowTypes DEF OnlyByTakeover, PlanRows
    <3>. QED
      BY <1>0, <3>1, LaterRises DEF Later
  <2>3. ASSUME NEW m \in Inbounds, human
        PROVE  Later(stage, plan[m].stage) \in {"human_required", "closed"}
    BY <1>0, <2>0, <2>2, <2>3, StageRanks
  <2>4. CASE Takeover
    <3>1. stage' = Later(stage, "human_required") /\ human' /\ stage # "closed"
      BY <1>0, <2>4, TakeoverPlans
    <3>2. Rank[stage'] >= 5 /\ stage' \in Stages
      BY <1>0, <3>1, LaterRises, StageRanks
    <3>. QED
      BY <3>1, <3>2, StageRanks
  <2>5. CASE Finalize
    <3>1. /\ human' = human /\ stage' \in Stages /\ Rank[stage'] >= Rank[stage]
          /\ stage' = "human_required" => human
      BY <1>0, <2>5, FinalizeHuman
    <3>2. human => Rank[stage] >= 5 /\ Rank[stage] \in Nat /\ Rank[stage'] \in Nat
      BY <1>0, <2>0, <3>1, StageRanks
    <3>. QED
      BY <3>1, <3>2, StageRanks
  <2>6. CASE Elsewhere /\ ~Finalize
    BY <2>0, <2>6, OtherFrames
  <2>7. CASE UNCHANGED vars
    BY <2>0, <2>7 DEF vars, convVars
  <2>. QED
    BY <2>0, <2>1, <2>2, <2>3, <2>4, <2>5, <2>6, <2>7 DEF Next, Operate, Elsewhere
<1>. QED
  BY <1>1, <1>2, <1>3 DEF OnlyByTakeover, HumanHolds

-----------------------------------------------------------------------------
(* The budget.                                                             *)

\* Sets of messages are finite.
LEMMA MessageSets ==
    ASSUME NEW S \in SUBSET Inbounds
    PROVE  IsFiniteSet(S) /\ Cardinality(S) \in Nat
BY ReplyAssumption, FS_Subset, FS_CardinalityType

\* Replies are counted when they are confirmed.
LEMMA StepReplies == IInv /\ [Next]_vars => replies' = Cardinality(Sent')
<1> SUFFICES ASSUME IInv, [Next]_vars
             PROVE  replies' = Cardinality(Sent')
  OBVIOUS
<1>0. TypeOK /\ TabsInOrder /\ replies = Cardinality(Sent)
  BY DEF IInv, BooksKept
<1>1. ASSUME replies' = replies, Sent' = Sent
      PROVE  replies' = Cardinality(Sent')
  BY <1>0, <1>1
<1>2. ASSUME NEW t \in Tabs, Answer(t)
      PROVE  replies' = Cardinality(Sent')
  <2>1. CASE plan' = plan /\ replies' = replies
    BY <1>1, <2>1 DEF Sent
  <2>2. ASSUME NEW m \in Inbounds, plan[m].state \in {"planned", "uncertain"},
               Restated(m, "uncertain"), replies' = replies
        PROVE  replies' = Cardinality(Sent')
    <3>1. Sent' = Sent
      BY <2>2 DEF Sent, Restated
    <3>. QED
      BY <1>1, <2>2, <3>1
  <2>3. ASSUME NEW m \in Inbounds, plan[m].state \in {"planned", "uncertain"},
               Restated(m, "sent"), replies' = replies + 1
        PROVE  replies' = Cardinality(Sent')
    <3>1. Sent' = Sent \cup {m} /\ m \notin Sent
      BY <2>3 DEF Sent, Restated
    <3>2. IsFiniteSet(Sent)
      BY MessageSets DEF Sent
    <3>. QED
      BY <1>0, <2>3, <3>1, <3>2, FS_AddElement
  <2>. QED
    BY <1>0, <1>2, <2>1, <2>2, <2>3, TabPlans
<1>3. ASSUME NEW t \in Tabs, TabStep(t) \/ Crash(t), ~Answer(t)
      PROVE  replies' = Cardinality(Sent')
  <2>1. replies' = replies
    BY <1>3, TabQuiet DEF TabStep
  <2>2. Sent' = Sent
    <3>1. CASE Begin(t)
      <4>1. PICK m : m = tab[t].m
        OBVIOUS
      <4>2. \/ plan' = plan
            \/ m \in Inbounds /\ plan[m].state \in {"none", "planning"} /\ Restated(m, "planning")
        BY <1>0, <3>1, <4>1, TabPlans
      <4>. QED
        BY <4>2 DEF Sent, Restated
    <3>2. CASE GiveUp(t)
      <4>1. PICK m \in Inbounds : m = tab[t].m
        BY <1>0, <3>2, TabPlans
      <4>2. plan' = plan \/ (Accepts(m, "superseded") /\ Restated(m, "superseded"))
        BY <1>0, <3>2, <4>1, TabPlans
      <4>3. Accepts(m, "superseded") => plan[m].state # "sent"
        BY DEF Accepts, Sources
      <4>. QED
        BY <4>2, <4>3 DEF Sent, Restated
    <3>3. CASE ~Begin(t) /\ ~GiveUp(t)
      BY <1>3, <3>3, TabQuiet DEF TabStep, Sent
    <3>. QED
      BY <3>1, <3>2, <3>3
  <2>. QED
    BY <1>1, <2>1, <2>2
<1>4. CASE Takeover
  <2>1. Sent' = Sent
    BY <1>0, <1>4, TakeoverPlans DEF Sent, Open
  <2>. QED
    BY <1>0, <1>1, <1>4, <2>1, TakeoverPlans
<1>5. CASE Finalize
  <2>1. Sent' = Sent
    BY <1>0, <1>5, FinalizePlan DEF Sent
  <2>. QED
    BY <1>1, <1>5, <2>1, OtherFrames DEF Elsewhere
<1>6. CASE Elsewhere /\ ~Finalize
  <2>1. plan' = plan /\ replies' = replies
    BY <1>6, OtherFrames
  <2>. QED
    BY <1>1, <2>1 DEF Sent
<1>7. CASE UNCHANGED vars
  BY <1>0, <1>7 DEF vars, convVars, planVars, Sent
<1>. QED
  BY <1>2, <1>3, <1>4, <1>5, <1>6, <1>7 DEF Next, Operate, Elsewhere

\* A new plan has a text only if the budget has room for it beside all the
\* replies that are confirmed, planned or uncertain.
LEMMA StepCommitted == IInv /\ [Next]_vars => Cardinality(Committed') <= MaxReplies
<1> SUFFICES ASSUME IInv, [Next]_vars
             PROVE  Cardinality(Committed') <= MaxReplies
  OBVIOUS
<1>0. /\ TypeOK /\ TabsInOrder /\ replies = Cardinality(Sent)
      /\ Cardinality(Committed) <= MaxReplies /\ MaxReplies \in Nat
      /\ \A m \in Inbounds : plan[m].text => plan[m].state \notin {"none", "planning"}
  BY ReplyAssumption DEF IInv, BooksKept, TabsInOrder
<1>1. CASE Committed' \subseteq Committed
  <2>1. IsFiniteSet(Committed) /\ Cardinality(Committed) \in Nat
    BY MessageSets DEF Committed
  <2>2. Cardinality(Committed') \in Nat /\ Cardinality(Committed') <= Cardinality(Committed)
    BY <1>1, <2>1, FS_Subset, FS_CardinalityType
  <2>. QED
    BY <1>0, <2>1, <2>2
<1>2. ASSUME NEW m \in Inbounds, plan[m].state = "planning",
             plan'[m].text, replies + Reserved(m) < MaxReplies,
             \A n \in Inbounds \ {m} : plan'[n] = plan[n]
      PROVE  Cardinality(Committed') <= MaxReplies
  <2> DEFINE R == {p \in Inbounds \ {m} :
                     plan[p].text /\ plan[p].state \in {"planned", "uncertain"}}
  <2>1. Committed' \subseteq (Sent \cup R) \cup {m}
    BY <1>2 DEF Committed, Sent
  <2>2. Sent \in SUBSET Inbounds /\ R \in SUBSET Inbounds
    BY DEF Sent
  <2>3. Reserved(m) = Manual + Cardinality(R) /\ Manual \in Nat
    BY ReservedType DEF Reserved
  <2> HIDE DEF R
  <2>4. /\ IsFiniteSet(Sent) /\ Cardinality(Sent) \in Nat
        /\ IsFiniteSet(R) /\ Cardinality(R) \in Nat
    BY <2>2, MessageSets
  <2>5. /\ IsFiniteSet(Sent \cup R) /\ Cardinality(Sent \cup R) \in Nat
        /\ Cardinality(Sent \cup R) <= Cardinality(Sent) + Cardinality(R)
    <3>1. /\ IsFiniteSet(Sent \cup R) /\ Cardinality(Sent \cap R) \in Nat
          /\ Cardinality(Sent \cup R)
               = Cardinality(Sent) + Cardinality(R) - Cardinality(Sent \cap R)
      BY <2>4, FS_Union, FS_Intersection, FS_CardinalityType
    <3>. QED
      BY <2>4, <3>1, FS_CardinalityType
  <2>6. /\ IsFiniteSet((Sent \cup R) \cup {m})
        /\ Cardinality((Sent \cup R) \cup {m}) \in Nat
        /\ Cardinality((Sent \cup R) \cup {m}) <= Cardinality(Sent \cup R) + 1
    <3> DEFINE U == Sent \cup R
    <3>1. IsFiniteSet(U) /\ Cardinality(U) \in Nat
      BY <2>5
    <3> HIDE DEF U
    <3>2. /\ IsFiniteSet(U \cup {m})
          /\ Cardinality(U \cup {m}) = Cardinality(U) \/ Cardinality(U \cup {m}) = Cardinality(U) + 1
      BY <3>1, FS_AddElement
    <3>. QED
      BY <3>1, <3>2 DEF U
  <2>7. /\ Cardinality(Committed') \in Nat
        /\ Cardinality(Committed') <= Cardinality((Sent \cup R) \cup {m})
    BY <2>1, <2>6, FS_Subset, FS_CardinalityType
  <2>. QED
    BY <1>0, <1>2, <2>3, <2>4, <2>5, <2>6, <2>7
<1>3. CASE Finalize
  <2>1. PICK m \in Inbounds :
          \/ plan' = plan
          \/ /\ plan[m].state = "planning"
             /\ plan'[m].text => replies + Reserved(m) < MaxReplies
             /\ \A n \in Inbounds \ {m} : plan'[n] = plan[n]
    BY <1>0, <1>3, FinalizePlan
  <2>2. CASE plan' = plan
    BY <1>1, <2>2 DEF Committed
  <2>3. CASE plan' # plan /\ ~plan'[m].text
    BY <1>1, <2>1, <2>3 DEF Committed
  <2>4. CASE plan' # plan /\ plan'[m].text
    BY <1>2, <2>1, <2>4
  <2>. QED
    BY <2>2, <2>3, <2>4
<1>4. CASE ~Finalize
  <2>1. \A m \in Inbounds :
          \/ plan'[m] = plan[m]
          \/ plan'[m].text = plan[m].text
    <3>1. ASSUME NEW t \in Tabs, TabStep(t) \/ Crash(t), NEW m \in Inbounds
          PROVE  plan'[m] = plan[m] \/ plan'[m].text = plan[m].text
      BY <1>0, <3>1, TabPlans, TabQuiet DEF TabStep, Restated
    <3>2. CASE Takeover
      BY <1>0, <3>2, TakeoverPlans
    <3>3. CASE Elsewhere
      BY <1>4, <3>3, OtherFrames, Zenon DEF DraftFails, planVars
    <3>4. CASE UNCHANGED vars
      BY <3>4 DEF vars, planVars
    <3>. QED
      BY <3>1, <3>2, <3>3, <3>4 DEF Next, Operate, Elsewhere
  <2>2. Committed' \subseteq Committed
    <3> SUFFICES ASSUME NEW m \in Inbounds, plan'[m].text,
                        plan'[m].state \in {"planned", "uncertain", "sent"}
                 PROVE  plan[m].text /\ plan[m].state \in {"planned", "uncertain", "sent"}
      BY DEF Committed
    <3>1. plan[m].text
      BY <2>1
    <3>. QED
      BY <1>0, <3>1, PlanSteps
  <2>. QED
    BY <1>1, <2>2
<1>. QED
  BY <1>3, <1>4

\* A reply that has left, or is leaving, is among those that count, unless its
\* plan was given up under the tab.
LEMMA StepCounts ==
    IInv /\ [Next]_vars =>
      \A m \in Inbounds \ withdrawn' : out'[m] > 0 \/ Sending(m)' # {} => m \in Committed'
<1> SUFFICES ASSUME IInv, [Next]_vars,
                    NEW m \in Inbounds \ withdrawn', out'[m] > 0 \/ Sending(m)' # {}
             PROVE  m \in Committed'
  OBVIOUS
<1>0. /\ TypeOK /\ TabsInOrder
      /\ m \notin withdrawn /\ (out[m] > 0 \/ Sending(m) # {}) => m \in Committed
      /\ plan[m].text => plan[m].state \notin {"none", "planning"}
  BY DEF IInv, BooksKept, TabsInOrder
<1>1. m \in Committed => m \in Committed' \/ plan'[m].state = "superseded"
  BY <1>0, PlanSteps DEF Committed
<1>2. ASSUME NEW t \in Tabs, TabStep(t) \/ Crash(t)
      PROVE  m \in Committed'
  <2>1. CASE GiveUp(t)
    <3>1. PICK n \in Inbounds : n = tab[t].m
      BY <1>0, <2>1, TabPlans
    <3>2. out' = out /\ Goes(t, "idle", 0) /\ 0 \notin Inbounds
      BY <1>0, <2>1, TabFrames, TabSteps, RowTypes
    <3>3. Sending(m)' \subseteq Sending(m)
      BY <3>2 DEF Sending, Goes
    <3>4. withdrawn' = IF Accepts(n, "superseded") /\ (Sending(n) # {} \/ out[n] > 0)
                       THEN withdrawn \cup {n} ELSE withdrawn
      BY <2>1, <3>1 DEF GiveUp
    <3>5. m \in Committed
      BY <1>0, <3>2, <3>3, <3>4
    <3>6. plan' = plan \/ (Accepts(n, "superseded") /\ Restated(n, "superseded"))
      BY <1>0, <2>1, <3>1, TabPlans
    <3>7. ~(m = n /\ Accepts(n, "superseded"))
      BY <3>2, <3>3, <3>4
    <3>8. plan'[m] = plan[m]
      BY <3>6, <3>7 DEF Restated
    <3>. QED
      BY <3>5, <3>8 DEF Committed
  <2>2. CASE Claim(t)
    <3>1. plan' = plan /\ withdrawn' = withdrawn /\ out' = out
      BY <2>2, TabQuiet, TabFrames
    <3>2. tab[t].pc = "claiming"
      BY <2>2 DEF Claim
    <3>3. CASE Goes(t, "idle", 0)
      <4>1. Sending(m)' \subseteq Sending(m)
        BY <3>3, RowTypes, <1>0 DEF Sending, Goes
      <4>. QED
        BY <1>0, <3>1, <4>1 DEF Committed
    <3>4. CASE Goes(t, "granted", tab[t].m) /\ Permitted(tab[t].m)
      <4>1. CASE m = tab[t].m
        BY <1>0, <3>1, <3>2, <3>4, <4>1 DEF TabsInOrder, Permitted, Committed
      <4>2. CASE m # tab[t].m
        <5>1. Sending(m)' = Sending(m)
          BY <3>4, <4>2 DEF Sending, Goes
        <5>. QED
          BY <1>0, <3>1, <5>1 DEF Committed
      <4>. QED
        BY <4>1, <4>2
    <3>. QED
      BY <1>0, <2>2, <3>3, <3>4, ClaimStep
  <2>3. CASE Send(t)
    <3>1. plan' = plan /\ withdrawn' = withdrawn /\ tab[t].pc = "marked"
      BY <2>3, TabQuiet DEF Send
    <3>2. Goes(t, "answering", tab[t].m)
      BY <1>0, <2>3, TabSteps
    <3>3. Sending(m)' \subseteq Sending(m)
      BY <3>2 DEF Sending, Goes
    <3>4. out'[m] = out[m] \/ (m = tab[t].m /\ t \in Sending(m))
      <4>1. out' = out \/ out' = [out EXCEPT ![tab[t].m] = @ + 1]
        BY <2>3, Zenon DEF Send
      <4>2. m # tab[t].m => out'[m] = out[m]
        BY <1>0, <4>1, RowTypes
      <4>. QED
        BY <3>1, <4>2 DEF Sending
    <3>. QED
      BY <1>0, <3>1, <3>3, <3>4 DEF Committed
  <2>4. CASE Ask(t) \/ Begin(t) \/ Proceed(t) \/ Mark(t) \/ Answer(t) \/ Note(t)
             \/ TurnElsewhere(t) \/ SaveElsewhere(t) \/ Crash(t)
    <3>1. withdrawn' = withdrawn /\ out' = out
      BY <2>4, TabQuiet, TabFrames
    <3>2. Sending(m)' \subseteq Sending(m)
      <4>1. CASE Mark(t)
        BY <1>0, <4>1, TabSteps DEF Mark, Sending, Goes
      <4>2. CASE Ask(t) \/ Begin(t) \/ Proceed(t) \/ Answer(t) \/ Note(t)
                 \/ TurnElsewhere(t) \/ SaveElsewhere(t) \/ Crash(t)
        BY <1>0, <4>2, TabSteps DEF Sending, Goes
      <4>. QED
        BY <2>4, <4>1, <4>2
    <3>3. m \in Committed
      BY <1>0, <3>1, <3>2
    <3>4. plan'[m].state # "superseded"
      <4>1. plan[m].state # "superseded"
        BY <3>3 DEF Committed
      <4>2. CASE Begin(t)
        BY <1>0, <4>1, <4>2, TabPlans DEF Restated
      <4>3. CASE Answer(t)
        BY <1>0, <4>1, <4>3, TabPlans DEF Restated
      <4>4. CASE Ask(t) \/ Proceed(t) \/ Mark(t) \/ Note(t) \/ TurnElsewhere(t)
                 \/ SaveElsewhere(t) \/ Crash(t)
        BY <4>1, <4>4, TabQuiet
      <4>. QED
        BY <2>4, <4>2, <4>3, <4>4
    <3>. QED
      BY <1>1, <3>3, <3>4
  <2>. QED
    BY <1>2, <2>1, <2>2, <2>3, <2>4 DEF TabStep
<1>3. CASE Takeover
  <2>1. /\ out' = out /\ tab' = tab
        /\ plan'[m].state = "superseded" => Open(m) \/ plan[m].state = "superseded"
    BY <1>0, <1>3, TakeoverPlans
  <2>2. withdrawn' = withdrawn \cup
                     {n \in Inbounds : Open(n) /\ (Sending(n) # {} \/ out[n] > 0)}
    BY <1>3 DEF Takeover
  <2>3. Sending(m)' = Sending(m)
    BY <2>1 DEF Sending
  <2>4. m \in Committed /\ ~Open(m)
    BY <1>0, <2>1, <2>2, <2>3
  <2>. QED
    BY <1>1, <2>1, <2>4 DEF Committed
<1>4. CASE Elsewhere
  <2>1. withdrawn' = withdrawn /\ out' = out
    BY <1>4, OtherFrames
  <2>2. Sending(m)' \subseteq Sending(m)
    BY <1>0, <1>4, OtherFrames, DraftSteps DEF Sending
  <2>3. m \in Committed
    BY <1>0, <2>1, <2>2
  <2>4. plan'[m] = plan[m] \/ plan'[m].state = "planned"
    <3>1. CASE Finalize
      BY <1>0, <3>1, FinalizePlan
    <3>2. CASE ~Finalize
      BY <1>4, <3>2, OtherFrames, Zenon DEF DraftFails, planVars
    <3>. QED
      BY <3>1, <3>2
  <2>. QED
    BY <1>1, <2>3, <2>4 DEF Committed
<1>5. CASE UNCHANGED vars
  <2>1. UNCHANGED <<plan, out, tab, withdrawn>>
    BY <1>5 DEF vars, planVars, tabVars, histVars
  <2>. QED
    BY <1>0, <2>1 DEF Sending, Committed
<1>. QED
  BY <1>2, <1>3, <1>4, <1>5 DEF Next, Operate, Elsewhere

-----------------------------------------------------------------------------
(* Type correctness of a step.                                             *)

\* The tabs.
LEMMA TabsTyped ==
    ASSUME TypeOK, [Next]_vars
    PROVE  tab' \in [Tabs -> TabRows]
<1>1. ASSUME NEW t \in Tabs, TabStep(t) \/ Crash(t)
      PROVE  tab' \in [Tabs -> TabRows]
  BY <1>1, TabSteps, ClaimStep DEF TabStep
<1>2. CASE Takeover
  BY <1>2, TakeoverPlans, RowTypes
<1>3. CASE Elsewhere
  BY <1>3, OtherFrames, DraftSteps, RowTypes
<1>4. CASE UNCHANGED vars
  BY <1>4, RowTypes DEF vars, tabVars
<1>. QED
  BY <1>1, <1>2, <1>3, <1>4 DEF Next, Operate, Elsewhere

\* The conversation.
LEMMA ConversationTyped ==
    ASSUME TypeOK, TabsInOrder, OnlyByTakeover, [Next]_vars
    PROVE  /\ stage' \in Stages /\ human' \in BOOLEAN /\ turns' \in 0..InviteAfter
           /\ invited' \in BOOLEAN /\ replies' \in Nat
<1>0. /\ stage \in Stages /\ human \in BOOLEAN /\ turns \in 0..InviteAfter
      /\ invited \in BOOLEAN /\ replies \in Nat /\ InviteAfter \in Nat
      /\ \A m \in Inbounds : plan[m].stage \in Stages /\ plan[m].invite \in BOOLEAN
      /\ "human_required" \in Stages
  BY RowTypes, StageRanks, ReplyAssumption DEF TypeOK, PlanRows
<1>1. ASSUME NEW t \in Tabs, TabStep(t) \/ Crash(t)
      PROVE  /\ stage' \in Stages /\ human' \in BOOLEAN /\ turns' \in 0..InviteAfter
             /\ invited' \in BOOLEAN /\ replies' \in Nat
  <2>1. turns' = turns /\ human' = human
    BY <1>1, Zenon DEF TabStep, Ask, Begin, GiveUp, Proceed, Claim, Mark, Send, Answer, Note,
       TurnElsewhere, SaveElsewhere, Crash, convVars
  <2>2. CASE Answer(t)
    <3>1. PICK m : m = tab[t].m
      OBVIOUS
    <3>2. \/ UNCHANGED <<stage, replies>>
          \/ m \in Inbounds /\ stage' = Later(stage, plan[m].stage) /\ replies' = replies + 1
      BY <2>2, <3>1, TabPlans
    <3>3. stage' \in Stages /\ replies' \in Nat
      BY <1>0, <3>2, LaterRises
    <3>4. tab[t].m \in Inbounds
      BY <2>2, RowTypes DEF Answer, TabsInOrder, TabRows
    <3>5. invited' \in BOOLEAN
      <4>1. invited' = invited \/ invited' = (invited \/ plan[tab[t].m].invite)
        BY <2>2, Zenon DEF Answer
      <4>2. plan[tab[t].m].invite \in BOOLEAN
        BY <1>0, <3>4
      <4>. QED
        BY <1>0, <4>1, <4>2, Zenon
    <3>. QED
      BY <1>0, <2>1, <3>3, <3>5
  <2>3. CASE ~Answer(t)
    <3>1. UNCHANGED <<stage, replies, invited>>
      BY <1>1, <2>3, Zenon DEF TabStep, Ask, Begin, GiveUp, Proceed, Claim, Mark, Send, Note,
         TurnElsewhere, SaveElsewhere, Crash, convVars
    <3>. QED
      BY <1>0, <2>1, <3>1
  <2>. QED
    BY <2>2, <2>3
<1>2. CASE Takeover
  <2>1. UNCHANGED <<turns, invited, replies>> /\ human' = TRUE
    BY <1>2, Zenon DEF Takeover
  <2>2. stage' \in Stages
    BY <1>0, <1>2, TakeoverPlans, LaterRises
  <2>. QED
    BY <1>0, <2>1, <2>2
<1>3. CASE Finalize
  <2>1. UNCHANGED <<invited, replies>>
    BY <1>3, OtherFrames DEF Elsewhere
  <2>2. stage' \in Stages /\ human' = human
    BY <1>3, FinalizeHuman
  <2>3. turns' = turns \/ (turns < InviteAfter /\ turns' = turns + 1)
    BY <1>3 DEF Finalize
  <2>. QED
    BY <1>0, <2>1, <2>2, <2>3
<1>4. CASE Elsewhere /\ ~Finalize
  BY <1>0, <1>4, OtherFrames
<1>5. CASE UNCHANGED vars
  BY <1>0, <1>5 DEF vars, convVars
<1>. QED
  BY <1>1, <1>2, <1>3, <1>4, <1>5 DEF Next, Operate, Elsewhere

\* The leases and the operator's own plans.
LEMMA LeasesTyped ==
    ASSUME TypeOK, TabsInOrder, [Next]_vars
    PROVE  lease' \in [Inbounds -> LeaseRows]
<1>1. ASSUME NEW t \in Tabs, Claim(t)
      PROVE  lease' \in [Inbounds -> LeaseRows]
  <2>1. PICK m \in Inbounds : m = tab[t].m
    BY <1>1, RowTypes DEF Claim, TabsInOrder, TabRows
  <2>2. tab[t].at + Lease \in 0..MaxClock + Lease
    <3>1. tab[t].at \in 0..MaxClock /\ Lease \in Nat /\ MaxClock \in Nat
      BY RowTypes, ReplyAssumption DEF TabRows
    <3>. QED
      BY <3>1
  <2>3. [state |-> "claimed", owner |-> t, until |-> tab[t].at + Lease] \in LeaseRows
    BY <2>2 DEF LeaseRows, LeaseStates
  <2>. QED
    BY <1>1, <2>1, <2>3, ClaimStep, RowTypes
<1>2. ASSUME NEW t \in Tabs, Answer(t)
      PROVE  lease' \in [Inbounds -> LeaseRows]
  <2>1. lease' = lease \/ lease' = [lease EXCEPT ![tab[t].m].state = Ended(tab[t].ok)]
    BY <1>2, Zenon DEF Answer, Finished
  <2>2. Ended(tab[t].ok) \in LeaseStates
    BY DEF Ended, LeaseStates
  <2>. QED
    BY <2>1, <2>2, RowTypes DEF LeaseRows
<1>3. ASSUME NEW t \in Tabs, TabStep(t) \/ Crash(t)
      PROVE  lease' \in [Inbounds -> LeaseRows]
  BY <1>1, <1>2, <1>3, TabFrames, RowTypes DEF TabStep
<1>4. CASE Takeover
  BY <1>4, RowTypes, Zenon DEF Takeover
<1>5. CASE Elsewhere
  BY <1>5, OtherFrames, RowTypes
<1>6. CASE UNCHANGED vars
  BY <1>6, RowTypes DEF vars, planVars
<1>. QED
  BY <1>3, <1>4, <1>5, <1>6 DEF Next, Operate, Elsewhere

\* The clock, the page, the marks and the histories.
LEMMA RestTyped ==
    ASSUME TypeOK, TabsInOrder, [Next]_vars
    PROVE  /\ clock' \in 0..MaxClock /\ newest' \in {0} \cup Inbounds /\ ai' \in BOOLEAN
           /\ manual' \in [Inbounds -> {"none", "planned", "superseded"}]
           /\ processed' \subseteq Inbounds /\ out' \in [Inbounds -> Nat]
           /\ late' \subseteq Inbounds /\ withdrawn' \subseteq Inbounds
           /\ taken' \subseteq Tabs /\ loose' \subseteq Inbounds
<1>0. /\ clock \in 0..MaxClock /\ newest \in {0} \cup Inbounds /\ ai \in BOOLEAN
      /\ manual \in [Inbounds -> {"none", "planned", "superseded"}]
      /\ processed \subseteq Inbounds /\ out \in [Inbounds -> Nat]
      /\ late \subseteq Inbounds /\ withdrawn \subseteq Inbounds
      /\ taken \subseteq Tabs /\ loose \subseteq Inbounds /\ MaxClock \in Nat
      /\ \A t \in Tabs : tab[t].pc \notin {"idle", "elsewhere"} => tab[t].m \in Inbounds
      /\ \A t \in Tabs : tab[t].seen \subseteq Inbounds
  BY RowTypes, ReplyAssumption DEF TypeOK, TabsInOrder, TabRows
<1>1. ASSUME NEW t \in Tabs, TabStep(t) \/ Crash(t)
      PROVE  /\ UNCHANGED <<clock, newest, ai, manual>>
             /\ processed' \subseteq Inbounds /\ out' \in [Inbounds -> Nat]
             /\ late' \subseteq Inbounds /\ withdrawn' \subseteq Inbounds
             /\ taken' \subseteq Tabs /\ loose' \subseteq Inbounds
  <2>1. UNCHANGED <<clock, newest, ai, manual>>
    BY <1>1, Zenon DEF TabStep, Ask, Begin, GiveUp, Proceed, Claim, Mark, Send, Answer, Note,
       TurnElsewhere, SaveElsewhere, Crash, planVars
  <2>2. taken' \subseteq Tabs
    BY <1>0, <1>1, TabFrames DEF TabStep
  <2>3. out' \in [Inbounds -> Nat]
    <3>1. Send(t) => out' = out \/ out' = [out EXCEPT ![tab[t].m] = @ + 1]
      BY Zenon DEF Send
    <3>. QED
      BY <1>0, <1>1, <3>1, TabFrames DEF TabStep
  <2>4. late' \subseteq Inbounds
    <3>1. Claim(t) => tab[t].m \in Inbounds /\ (late' = late \/ late' = late \cup {tab[t].m})
      BY <1>0 DEF Claim
    <3>. QED
      BY <1>0, <1>1, <3>1, TabFrames DEF TabStep
  <2>5. withdrawn' \subseteq Inbounds
    <3>1. GiveUp(t) => tab[t].m \in Inbounds
      BY <1>0 DEF GiveUp
    <3>2. GiveUp(t) => withdrawn' = withdrawn \/ withdrawn' = withdrawn \cup {tab[t].m}
      BY Zenon DEF GiveUp
    <3>. QED
      BY <1>0, <1>1, <3>1, <3>2, TabQuiet DEF TabStep
  <2>6. processed' \subseteq Inbounds /\ loose' \subseteq Inbounds
    <3>1. GiveUp(t) \/ Mark(t) \/ Note(t) \/ SaveElsewhere(t) =>
            Save(t) \/ (processed' = processed /\ loose' = loose)
      BY DEF GiveUp, Mark, Note, SaveElsewhere
    <3>2. Save(t) => processed' \subseteq Inbounds /\ loose' \subseteq Inbounds
      BY <1>0 DEF Save
    <3>. QED
      BY <1>0, <1>1, <3>1, <3>2, TabFrames DEF TabStep
  <2>. QED
    BY <2>1, <2>2, <2>3, <2>4, <2>5, <2>6
<1>2. CASE Takeover
  <2>1. UNCHANGED <<clock, newest, ai, processed, out, late, loose>>
    BY <1>2, Zenon DEF Takeover, tabVars
  <2>2. manual' \in [Inbounds -> {"none", "planned", "superseded"}]
    <3>1. manual' = [m \in Inbounds |-> IF manual[m] = "planned" THEN "superseded"
                                        ELSE manual[m]]
      BY <1>2, Zenon DEF Takeover
    <3>. QED
      BY <1>0, <3>1
  <2>3. withdrawn' \subseteq Inbounds /\ taken' \subseteq Tabs
    BY <1>0, <1>2 DEF Takeover, Sending
  <2>. QED
    BY <1>0, <2>1, <2>2, <2>3
<1>3. CASE Elsewhere
  <2>1. UNCHANGED <<processed, out, late, loose, taken, withdrawn>>
    BY <1>3, OtherFrames
  <2>2. clock' \in 0..MaxClock
    <3>1. clock' = clock \/ (clock < MaxClock /\ clock' = clock + 1)
      BY <1>3, OtherFrames, Zenon DEF Tick
    <3>. QED
      BY <1>0, <3>1
  <2>3. newest' \in {0} \cup Inbounds
    <3>1. newest' = newest \/ (newest + 1 \in Inbounds /\ newest' = newest + 1)
      BY <1>3, OtherFrames, Zenon DEF Arrive
    <3>. QED
      BY <1>0, <3>1
  <2>4. ai' \in BOOLEAN
    <3>1. ai' = ai \/ ai' = ~ai
      BY <1>3, Zenon DEF Elsewhere, Arrive, Finalize, DraftFails, ManualPlan, Switch, Tick
    <3>. QED
      BY <1>0, <3>1, Zenon
  <2>5. manual' \in [Inbounds -> {"none", "planned", "superseded"}]
    <3>1. manual' = manual \/ \E m \in Inbounds : manual' = [manual EXCEPT ![m] = "planned"]
      BY <1>3, Zenon DEF Elsewhere, Arrive, Finalize, DraftFails, ManualPlan, Switch, Tick, planVars
    <3>. QED
      BY <1>0, <3>1
  <2>. QED
    BY <1>0, <2>1, <2>2, <2>3, <2>4, <2>5
<1>4. CASE UNCHANGED vars
  BY <1>0, <1>4 DEF vars, planVars, tabVars, histVars
<1>. QED
  BY <1>0, <1>1, <1>2, <1>3, <1>4 DEF Next, Operate, Elsewhere

LEMMA StepTypeOK == IInv /\ [Next]_vars => TypeOK'
<1> SUFFICES ASSUME IInv, [Next]_vars
             PROVE  TypeOK'
  OBVIOUS
<1>0. TypeOK /\ TabsInOrder /\ OnlyByTakeover
  BY DEF IInv
<1>1. /\ tab' \in [Tabs -> TabRows] /\ plan' \in [Inbounds -> PlanRows]
      /\ lease' \in [Inbounds -> LeaseRows] /\ drafting' \in DraftRows
  BY <1>0, TabsTyped, PlanSteps, LeasesTyped, DraftMessage
<1>2. /\ stage' \in Stages /\ human' \in BOOLEAN /\ turns' \in 0..InviteAfter
      /\ invited' \in BOOLEAN /\ replies' \in Nat
  BY <1>0, ConversationTyped
<1>3. /\ clock' \in 0..MaxClock /\ newest' \in {0} \cup Inbounds /\ ai' \in BOOLEAN
      /\ manual' \in [Inbounds -> {"none", "planned", "superseded"}]
      /\ processed' \subseteq Inbounds /\ out' \in [Inbounds -> Nat]
      /\ late' \subseteq Inbounds /\ withdrawn' \subseteq Inbounds
      /\ taken' \subseteq Tabs /\ loose' \subseteq Inbounds
  BY <1>0, RestTyped
<1>. QED
  BY <1>1, <1>2, <1>3 DEF TypeOK, TabRows, PlanRows, LeaseRows, DraftRows

\* The invariant holds at first.
LEMMA InitIInv == Init => IInv
<1> SUFFICES ASSUME Init
             PROVE  IInv
  OBVIOUS
<1>0. /\ 0 \notin Inbounds /\ IsFiniteSet(Inbounds) /\ MaxReplies \in Nat /\ MaxClock \in Nat
      /\ InviteAfter \in Nat /\ Lease \in Nat
  BY ReplyAssumption, FS_CardinalityType
<1>1. TypeOK
  <2>1. Idle \in TabRows /\ NoPlan \in PlanRows /\ NoLease \in LeaseRows /\ NoDraft \in DraftRows
    BY <1>0, IdleTab, StageRanks DEF NoPlan, NoLease, NoDraft, PlanRows, PlanStates, LeaseRows,
       LeaseStates, DraftRows
  <2>2. /\ tab \in [Tabs -> TabRows] /\ plan \in [Inbounds -> PlanRows]
        /\ lease \in [Inbounds -> LeaseRows] /\ drafting \in DraftRows
    BY <2>1 DEF Init
  <2>3. /\ stage \in Stages /\ human \in BOOLEAN /\ turns \in 0..InviteAfter
        /\ invited \in BOOLEAN /\ replies \in Nat
    <3>1. stage = "new" /\ human = FALSE /\ turns = 0 /\ invited = FALSE /\ replies = 0
      BY DEF Init
    <3>2. stage \in Stages
      BY <3>1, StageRanks
    <3>3. turns \in 0..InviteAfter /\ replies \in Nat
      BY <1>0, <3>1
    <3>4. human \in BOOLEAN /\ invited \in BOOLEAN
      BY <3>1
    <3>. QED
      BY <3>2, <3>3, <3>4
  <2>4. /\ clock \in 0..MaxClock /\ newest \in {0} \cup Inbounds /\ ai \in BOOLEAN
    BY <1>0 DEF Init
  <2>5. /\ manual \in [Inbounds -> {"none", "planned", "superseded"}]
        /\ out \in [Inbounds -> Nat]
    BY DEF Init
  <2>6. /\ processed \subseteq Inbounds /\ late \subseteq Inbounds
        /\ withdrawn \subseteq Inbounds /\ taken \subseteq Tabs /\ loose \subseteq Inbounds
    BY DEF Init
  <2>. QED
    BY <2>2, <2>3, <2>4, <2>5, <2>6 DEF TypeOK, TabRows, PlanRows, LeaseRows, DraftRows
<1>2. \A t \in Tabs : tab[t].pc = "idle" /\ tab[t].m = 0 /\ tab[t].at = 0 /\ tab[t].seen = {}
  BY DEF Init, Idle
<1>3. \A m \in Inbounds :
        /\ plan[m].state = "none" /\ plan[m].text = FALSE /\ plan[m].stage = "new"
        /\ out[m] = 0 /\ lease[m].state = "none"
  BY DEF Init, NoPlan, NoLease
<1>4. TabsInOrder /\ HumanHolds /\ OnlyByTakeover /\ TakenInOrder
  BY <1>0, <1>2, <1>3 DEF Init, NoDraft, TabsInOrder, HumanHolds, OnlyByTakeover, TakenInOrder
<1>5. \A m \in Inbounds : Sending(m) = {}
  BY <1>2 DEF Sending
<1>6. OncePerLease /\ OncePerMark
  BY <1>2, <1>3, <1>5 DEF Init, OncePerLease, OneSender, OncePerMark, KeptOff
<1>7. BooksKept
  <2>1. Sent = {} /\ Committed = {}
    BY <1>3 DEF Sent, Committed
  <2>. QED
    BY <1>0, <1>3, <1>5, <2>1, FS_EmptySet DEF Init, BooksKept
<1>. QED
  BY <1>1, <1>4, <1>6, <1>7 DEF IInv

-----------------------------------------------------------------------------
(* The theorems.                                                           *)

\* The parts of the invariant hold in every reachable state, however many tabs
\* plan, send and report while the operator takes over.
THEOREM Invariance == Spec => []IInv
<1>1. IInv /\ [Next]_vars => IInv'
  <2>1. IInv /\ [Next]_vars => BooksKept'
    BY StepReplies, StepCommitted, StepCounts DEF BooksKept
  <2>. QED
    BY <2>1, StepTypeOK, StepTabs, StepOnly, StepTaken, StepLease, StepMark DEF IInv
<1>. QED
  BY <1>1, InitIInv, PTL DEF Spec

\* Every variable keeps to its type.
THEOREM TypeCorrect == Spec => []TypeOK
<1>1. IInv => TypeOK
  BY DEF IInv
<1>. QED
  BY <1>1, Invariance, PTL

\* A reply that counts is the first one to its message, and its message is among
\* those whose place in the budget is taken.
LEMMA CountedReplies ==
    ASSUME IInv, NEW r \in Replies, ~Uncounted(r)
    PROVE  r = <<r[1], 1>> /\ r[1] \in Committed
<1>1. PICK m \in Inbounds : r \in {m} \X (1..out[m])
  BY DEF Replies
<1>2. r = <<m, r[2]>> /\ r[1] = m /\ r[2] \in 1..out[m] /\ out[m] \in Nat
  BY <1>1 DEF IInv, TypeOK
<1>3. m \in Inbounds \ withdrawn /\ out[m] > 0 /\ r[2] \in Nat
  BY <1>2 DEF Uncounted
<1>4. r[2] > 1 => m \notin late \/ m \notin loose
  BY <1>2 DEF Uncounted
<1>5. m \notin late \/ m \notin loose => out[m] <= 1
  BY DEF IInv, OncePerLease, OneSender, OncePerMark, KeptOff
<1>6. r[2] = 1
  BY <1>2, <1>4, <1>5
<1>. QED
  BY <1>2, <1>3, <1>6 DEF IInv, BooksKept

\* The budget of an account holds for any number of messages and tabs: the
\* replies sent, planned, in flight and uncertain are counted together, and only
\* those of a withdrawn plan and late second replies to a message escape it.
THEOREM RepliesWithinBudget == Spec => []BudgetKept
<1>1. IInv => BudgetKept
  <2> SUFFICES ASSUME IInv
               PROVE  BudgetKept
    OBVIOUS
  <2> DEFINE R == {r \in Replies : ~Uncounted(r)}
             f == [r \in R |-> r[1]]
  <2>1. f \in [R -> Committed]
    BY CountedReplies
  <2>2. \A r, s \in R : f[r] = f[s] => r = s
    BY CountedReplies
  <2>3. IsFiniteSet(Committed) /\ Cardinality(Committed) \in Nat
    BY MessageSets DEF Committed
  <2> HIDE DEF R, f
  <2>4. f \in Injection(R, Committed)
    BY <2>1, <2>2 DEF Injection, IsInjective
  <2>5. IsFiniteSet(R) /\ Cardinality(R) <= Cardinality(Committed)
    BY <2>3, <2>4, FS_Injection
  <2>6. Cardinality(R) \in Nat
    BY <2>5, FS_CardinalityType
  <2>7. Cardinality(Committed) <= MaxReplies /\ MaxReplies \in Nat
    BY ReplyAssumption DEF IInv, BooksKept
  <2>. QED
    BY <2>3, <2>5, <2>6, <2>7 DEF BudgetKept, R
<1>. QED
  BY <1>1, Invariance, PTL

\* A message is answered a second time only through a lease that had run out
\* and a mark that a tab had not seen or another tab's save has lost.
THEOREM SecondReplyExplained == Spec => []RepliedTwiceExplained
<1>1. IInv => RepliedTwiceExplained
  <2> SUFFICES ASSUME IInv, NEW m \in Inbounds, out[m] > 1
               PROVE  m \in late /\ m \in loose
    BY DEF RepliedTwiceExplained
  <2>1. out[m] \in Nat
    BY DEF IInv, TypeOK
  <2>2. m \notin late => out[m] <= 1
    BY DEF IInv, OncePerLease, OneSender
  <2>3. m \notin loose => out[m] <= 1
    BY DEF IInv, OncePerMark, KeptOff
  <2>. QED
    BY <2>1, <2>2, <2>3
<1>. QED
  BY <1>1, Invariance, PTL

\* No draft and no report that was under way hands the conversation back.
THEOREM OperatorKeepsIt == Spec => []HumanHolds
<1>1. IInv => HumanHolds
  BY DEF IInv
<1>. QED
  BY <1>1, Invariance, PTL

\* After a takeover only a tab that was sending before still sends.
THEOREM QuietAfterTakeover == Spec => TakenOverIsQuiet
<1>1. IInv /\ [Next]_vars =>
        [human /\ out' # out =>
           \E t \in taken : tab[t].pc = "marked" /\ tab'[t].pc = "answering"]_vars
  <2> SUFFICES ASSUME IInv, [Next]_vars, human, out' # out
               PROVE  \E t \in taken : tab[t].pc = "marked" /\ tab'[t].pc = "answering"
    OBVIOUS
  <2>0. TypeOK /\ TakenInOrder
    BY DEF IInv
  <2>1. ASSUME NEW t \in Tabs, TabStep(t) \/ Crash(t)
        PROVE  \E u \in taken : tab[u].pc = "marked" /\ tab'[u].pc = "answering"
    <3>1. Send(t)
      BY <2>1, TabFrames DEF TabStep
    <3>2. tab[t].pc = "marked" /\ tab'[t].pc = "answering"
      BY <2>0, <3>1, TabSteps DEF Send, Goes
    <3>. QED
      BY <2>0, <3>2 DEF TakenInOrder
  <2>2. ~Takeover
    BY <2>0, TakeoverPlans
  <2>3. ~Elsewhere
    BY OtherFrames
  <2>4. ~UNCHANGED vars
    BY DEF vars, histVars
  <2>. QED
    BY <2>1, <2>2, <2>3, <2>4 DEF Next, Operate, Elsewhere
<1>. QED
  BY <1>1, Invariance, PTL DEF Spec, TakenOverIsQuiet

=============================================================================
