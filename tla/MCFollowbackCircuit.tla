----------------------- MODULE MCFollowbackCircuit -----------------------
(* Instances of FollowbackCircuit for TLC: tabs and followers are          *)
(* interchangeable.                                                        *)
EXTENDS FollowbackCircuit, FiniteSets, TLC

TabSymmetry == Permutations(Tabs) \cup Permutations(Followers)

\* Two new followers of an account that sends no welcomes, or one of an account
\* that does; the others were there before the tabs began to watch.
MCInit == Init /\ Cardinality(Followers \ baseline) = (IF welcoming THEN 1 ELSE 2)

\* Replies matter to the marks alone: here they run while a welcome is planned.
\* The operator leaves an account that sends welcomes alone, and the contacts of
\* one that sends none do not speak.
MCNext ==
    \/ \E t \in Tabs : FollowStep(t) \/ WelcomeStep(t) \/ Crash(t)
    \/ \E t \in Tabs : \/ (\E f \in Followers : welcome[f] = "planned") /\ BeginReply(t)
                      \/ NoteReply(t)
    \/ \E f \in Followers : BeginWelcome(f) \/ (welcoming /\ StopContact(f))
    \/ ~welcoming /\ (OrderCooldown \/ Switch)
    \/ CreateWelcome \/ ReadCircuit \/ Restart \/ Tick

MCSpec == MCInit /\ [][MCNext]_vars

==========================================================================
