------------------------ MODULE MCReplyConversation ------------------------
(***************************************************************************)
(* Instances of ReplyConversation for TLC: tabs are interchangeable.  Of   *)
(* the steps that have nothing to do with the second message, two are      *)
(* taken only before it arrives: a tab turns to another conversation (what *)
(* it saves there may come later), and the AI is switched off while a tab  *)
(* is busy.                                                                *)
(***************************************************************************)
EXTENDS ReplyConversation, TLC

TabSymmetry == Permutations(Tabs)

First == newest < 2
Quiet == \A t \in Tabs : tab[t].pc = "idle"

MCNext ==
    \/ ai /\ Arrive
    \/ Finalize \/ DraftFails \/ Takeover \/ Tick
    \/ \E m \in Inbounds : ManualPlan(m)
    \/ (First \/ Quiet) /\ Switch
    \/ \E t \in Tabs :
         \/ Ask(t) \/ Begin(t) \/ GiveUp(t) \/ Proceed(t) \/ Claim(t) \/ Mark(t)
         \/ Send(t) \/ Answer(t) \/ Note(t) \/ SaveElsewhere(t) \/ Crash(t)
         \/ First /\ TurnElsewhere(t)

MCSpec == Init /\ [][MCNext]_vars
=============================================================================
