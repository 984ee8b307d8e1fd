----------------------- MODULE ActionExecutionProofs -----------------------
(***************************************************************************)
(* Theorems about ActionExecution, for every number of launches, every set *)
(* of outcomes and answers and any number of failures.                     *)
(***************************************************************************)
EXTENDS ActionExecution, TLAPS

-----------------------------------------------------------------------------
(* Type correctness. *)

\* The types of the plan and of what a launch remembers.
PlanRows == [state : PlanStates, requested : OutcomeKinds, effective : OutcomeKinds,
             last : Results \cup {"none"}, video : BOOLEAN]
Memories == [state : PlanStates, attempts : Nat, checks : Nat, code : Codes]

\* What a launch starts from, and a plan that is made.
LEMMA FreshTypes ==
  /\ Fresh \in Memories
  /\ \A s \in PlanStates, o \in OutcomeKinds : NewPlan(s, o) \in PlanRows
BY DEF Fresh, Memories, NewPlan, PlanRows, PlanStates, Codes, Results, OutcomeKinds

\* The initial state is well typed.
LEMMA InitTypeOK == Init => TypeOK
<1> SUFFICES ASSUME Init
             PROVE  TypeOK
  OBVIOUS
<1>1. plan \in PlanRows /\ seen \in [Workers -> Memories]
  <2>1. plan = NewPlan("none", "trace") /\ seen = [w \in Workers |-> Fresh]
    BY DEF Init
  <2>. QED
    BY <2>1, FreshTypes DEF PlanStates, OutcomeKinds
<1>2. /\ phase \in Phases /\ code \in Codes /\ landed \in BOOLEAN
      /\ pc \in [Workers -> Locations]
      /\ answer \in [Workers -> Results \cup {"none"}]
  BY DEF Init, Phases, Working, Waiting, Terminal, Codes, Locations
<1>. QED
  BY <1>1, <1>2 DEF Init, TypeOK, PlanRows, Memories

\* A launch that goes somewhere, with or without its memory.
LEMMA GotoType ==
  ASSUME TypeOK, NEW w \in Workers, NEW l \in Locations
  PROVE  /\ Goto(w, l) => pc' \in [Workers -> Locations]
         /\ Forget(w, l) => /\ pc' \in [Workers -> Locations]
                            /\ seen' \in [Workers -> Memories]
                            /\ answer' \in [Workers -> Results \cup {"none"}]
<1>1. /\ seen \in [Workers -> Memories] /\ pc \in [Workers -> Locations]
      /\ answer \in [Workers -> Results \cup {"none"}]
  BY DEF TypeOK, Memories
<1>2. [pc EXCEPT ![w] = l] \in [Workers -> Locations]
  BY <1>1
<1>3. [seen EXCEPT ![w] = Fresh] \in [Workers -> Memories]
  BY <1>1, FreshTypes
<1>4. [answer EXCEPT ![w] = "none"] \in [Workers -> Results \cup {"none"}]
  BY <1>1
<1>. QED
  BY <1>2, <1>3, <1>4 DEF Goto, Forget

\* The device's answer, and the way to its record.
LEMMA AnswerType ==
  ASSUME TypeOK, NEW w \in Workers, NEW r \in Results, Answer(w, r)
  PROVE  /\ pc' \in [Workers -> Locations]
         /\ answer' \in [Workers -> Results \cup {"none"}]
BY DEF TypeOK, Answer, Goto, Locations

\* A plan whose state, last result, video or outcome is replaced is a plan.
LEMMA PlanMoves ==
  ASSUME TypeOK, NEW s \in PlanStates, NEW r \in Results
  PROVE  /\ [plan EXCEPT !.state = s] \in PlanRows
         /\ [plan EXCEPT !.state = s, !.last = r] \in PlanRows
         /\ [plan EXCEPT !.video = TRUE] \in PlanRows
         /\ [plan EXCEPT !.effective = "trace", !.state = s] \in PlanRows
BY DEF TypeOK, PlanRows, OutcomeKinds

\* So is a memory of a state, a code, an attempt or a reconciliation.
LEMMA MemoryMoves ==
  ASSUME TypeOK, NEW w \in Workers
  PROVE  /\ \A s \in PlanStates : [seen EXCEPT ![w].state = s] \in [Workers -> Memories]
         /\ \A c \in Codes : [seen EXCEPT ![w].code = c] \in [Workers -> Memories]
         /\ \A n \in Nat : [seen EXCEPT ![w].checks = n] \in [Workers -> Memories]
         /\ \A n \in Nat, c \in Codes :
              [seen EXCEPT ![w].attempts = n, ![w].code = c] \in [Workers -> Memories]
         /\ /\ seen[w].attempts \in Nat /\ seen[w].checks \in Nat
            /\ seen[w].code \in Codes /\ seen[w].state \in PlanStates
<1>1. seen \in [Workers -> Memories]
  BY DEF TypeOK, Memories
<1>. QED
  BY <1>1 DEF Memories

\* The launches, the leases, the other device and the account keep the types.
LEMMA EnvTypeOK ==
  ASSUME TypeOK,
         \/ LoseDevice \/ LeaseRunsOut \/ OtherReads \/ OtherPublishes \/ ReaderRunsOut
         \/ Land \/ Recover
  PROVE  TypeOK'
<1> USE DEF rowVars, profile, phone, TypeOK
<1>1. CASE LoseDevice
  BY <1>1 DEF LoseDevice
<1>2. CASE LeaseRunsOut
  <2>1. failures' \in Nat
    <3>1. failures' = failures + 1 \/ failures' = failures
      BY <1>2, Zenon DEF LeaseRunsOut
    <3>. QED
      BY <3>1
  <2>. QED
    BY <1>2, <2>1 DEF LeaseRunsOut
<1>3. CASE OtherReads \/ OtherPublishes \/ ReaderRunsOut
  BY <1>3 DEF OtherReads, OtherPublishes, ReaderRunsOut
<1>4. CASE Recover
  BY <1>4 DEF Recover, Phases, Working, Waiting, Terminal
<1>5. CASE Land
  BY <1>5, Zenon DEF Land
<1>. QED
  BY <1>1, <1>2, <1>3, <1>4, <1>5

\* So does a launch that comes, fails or goes.
LEMMA LifeTypeOK ==
  ASSUME TypeOK, NEW w \in Workers,
         TakeOver(w) \/ ExitOnLostLease(w) \/ OperationFails(w) \/ Crash(w)
  PROVE  TypeOK'
<1>1. {"idle", "gone", "defer"} \subseteq Locations
  BY DEF Locations
<1>2. CASE TakeOver(w)
  BY <1>1, <1>2, GotoType DEF TakeOver, TypeOK, rowVars, profile, phone
<1>3. CASE ExitOnLostLease(w)
  BY <1>1, <1>3, GotoType DEF ExitOnLostLease, TypeOK, rowVars, profile, phone, Memories
<1>4. CASE OperationFails(w)
  BY <1>1, <1>4, GotoType DEF OperationFails, TypeOK, rowVars, profile, phone
<1>5. CASE Crash(w)
  BY <1>1, <1>5, GotoType DEF Crash, TypeOK, rowVars, profile, phone, Memories
<1>. QED
  BY <1>2, <1>3, <1>4, <1>5

\* The worker up to its plan.
LEMMA VisitTypeOK ==
  ASSUME TypeOK, NEW w \in Workers,
         \/ Claim(w) \/ Visit(w) \/ SkipUnreachable(w) \/ ReopenFails(w) \/ ReadSnapshot(w)
         \/ ClaimReading(w) \/ Publish(w) \/ PublishRefused(w) \/ WaitForSnapshot(w)
  PROVE  TypeOK'
<1> USE DEF rowVars, profile, phone
<1>1. {"open", "metrics", "idle", "close", "lease", "plan", "read", "wait", "defer"}
        \subseteq Locations
  BY DEF Locations
<1>2. {"profile_opening", "identity_confirmed", "skipped", "waiting_snapshot"} \subseteq Phases
  BY DEF Phases, Working, Waiting, Terminal
<1>3. {"profile_unreachable", "confirmed_visit_profile_unreachable"} \subseteq Codes
  BY DEF Codes
<1>4. CASE Claim(w)
  BY <1>1, <1>2, <1>4, GotoType DEF Claim, TypeOK
<1>5. CASE Visit(w)
  BY <1>1, <1>2, <1>5, GotoType DEF Visit, TypeOK
<1>6. CASE SkipUnreachable(w)
  BY <1>1, <1>2, <1>3, <1>6, GotoType DEF SkipUnreachable, TypeOK, Memories
<1>7. CASE ReopenFails(w)
  BY <1>1, <1>2, <1>3, <1>7, GotoType, MemoryMoves DEF ReopenFails, TypeOK, Memories
<1>8. CASE ReadSnapshot(w)
  BY <1>1, <1>8, GotoType DEF ReadSnapshot, TypeOK
<1>9. CASE ClaimReading(w)
  BY <1>1, <1>2, <1>9, GotoType DEF ClaimReading, TypeOK
<1>10. CASE Publish(w)
  BY <1>1, <1>10, GotoType DEF Publish, TypeOK
<1>11. CASE PublishRefused(w) \/ WaitForSnapshot(w)
  BY <1>1, <1>11, GotoType DEF PublishRefused, WaitForSnapshot, TypeOK
<1>. QED
  BY <1>4, <1>5, <1>6, <1>7, <1>8, <1>9, <1>10, <1>11

\* The plan and its video.
LEMMA PlanTypeOK ==
  ASSUME TypeOK, NEW w \in Workers,
         NoVideo(w) \/ MakePlan(w) \/ OpenVideo(w) \/ ConfirmTrace(w) \/ FallBack(w)
  PROVE  TypeOK'
<1> USE DEF rowVars, profile, phone
<1>1. {"close", "finish", "trace", "video", "act"} \subseteq Locations
  BY DEF Locations
<1>2. CASE NoVideo(w)
  <2>1. seen' \in [Workers -> Memories]
    BY <1>2, MemoryMoves DEF NoVideo, Codes
  <2>2. pc' \in [Workers -> Locations]
    BY <1>1, <1>2, GotoType DEF NoVideo
  <2>. QED
    BY <1>2, <2>1, <2>2 DEF NoVideo, TypeOK, Memories
<1>3. CASE MakePlan(w)
  <2>1. Plans \subseteq PlanRows
    <3>1. plan \in PlanRows
      BY DEF TypeOK, PlanRows
    <3>2. \A o \in Outcomes \cup {"trace"} : NewPlan("planned", o) \in PlanRows
      BY FreshTypes, ActionAssumption DEF PlanStates, OutcomeKinds
    <3>. QED
      BY <3>1, <3>2 DEF Plans
  <2>2. PICK p \in PlanRows :
          /\ plan' = p /\ seen' = [seen EXCEPT ![w].state = p.state]
          /\ Goto(w, IF p.state = "confirmed" THEN "finish"
                     ELSE IF snapshot = "ineligible" THEN "trace" ELSE "video")
    BY <1>3, <2>1 DEF MakePlan
  <2>3. p.state \in PlanStates
    BY DEF PlanRows
  <2>4. pc' \in [Workers -> Locations] /\ seen' \in [Workers -> Memories]
    BY <1>1, <2>2, <2>3, GotoType, MemoryMoves
  <2>. QED
    BY <1>3, <2>2, <2>4 DEF MakePlan, TypeOK, PlanRows, Memories
<1>4. CASE OpenVideo(w)
  <2>1. plan' \in PlanRows
    BY <1>4, PlanMoves DEF OpenVideo, PlanStates, Results
  <2>2. pc' \in [Workers -> Locations] /\ phase' \in Phases
    BY <1>1, <1>4, GotoType DEF OpenVideo, Phases, Working, Waiting, Terminal
  <2>. QED
    BY <1>4, <2>1, <2>2 DEF OpenVideo, TypeOK, PlanRows
<1>5. CASE ConfirmTrace(w) \/ FallBack(w)
  <2>1. plan' \in PlanRows
    BY <1>5, PlanMoves DEF ConfirmTrace, FallBack, PlanStates, Results
  <2>2. pc' \in [Workers -> Locations]
    BY <1>1, <1>5, GotoType DEF ConfirmTrace, FallBack
  <2>. QED
    BY <1>5, <2>1, <2>2 DEF ConfirmTrace, FallBack, TypeOK, PlanRows
<1>. QED
  BY <1>2, <1>3, <1>4, <1>5

\* The interaction.
LEMMA ActTypeOK ==
  ASSUME TypeOK, NEW w \in Workers,
         \/ StartAction(w) \/ MarkExecuting(w) \/ BeginExecute(w) \/ LookOnly(w) \/ Tap(w)
         \/ WatchTap(w) \/ Reconcile(w) \/ RecordResult(w) \/ GoReconcile(w) \/ ExecuteAgain(w)
  PROVE  TypeOK'
<1> USE DEF rowVars, profile, phone
<1>1. {"reconcile", "mark", "execute", "armed", "tapped", "record", "again", "defer",
       "finish", "fallback", "close", "recover"} \subseteq Locations
  BY DEF Locations
<1>2. {"action_reconciling", "quota_reserved", "action_executing"} \subseteq Phases
  BY DEF Phases, Working, Waiting, Terminal
<1>3. CASE StartAction(w)
  <2>1. phase' \in Phases /\ pc' \in [Workers -> Locations]
    BY <1>1, <1>2, <1>3, GotoType DEF StartAction, TypeOK
  <2>2. seen' \in [Workers -> Memories]
    <3>1. seen \in [Workers -> Memories]
      BY DEF TypeOK, Memories
    <3>2. [seen EXCEPT ![w].checks = 1] \in [Workers -> Memories]
      BY MemoryMoves
    <3>3. seen' = seen \/ seen' = [seen EXCEPT ![w].checks = 1]
      BY <1>3 DEF StartAction
    <3>. QED
      BY <3>1, <3>2, <3>3
  <2>. QED
    BY <1>3, <2>1, <2>2 DEF StartAction, TypeOK, Memories
<1>4. CASE MarkExecuting(w)
  <2>1. plan' \in PlanRows
    BY <1>4, PlanMoves DEF MarkExecuting, PlanStates, Results
  <2>2. pc' \in [Workers -> Locations]
    BY <1>1, <1>4, GotoType DEF MarkExecuting
  <2>. QED
    BY <1>4, <2>1, <2>2 DEF MarkExecuting, TypeOK, PlanRows
<1>5. CASE BeginExecute(w) \/ Tap(w) \/ ExecuteAgain(w)
  <2>1. pc' \in [Workers -> Locations]
    BY <1>1, <1>5, GotoType DEF BeginExecute, Tap, ExecuteAgain
  <2>. QED
    BY <1>5, <2>1 DEF BeginExecute, Tap, ExecuteAgain, TypeOK
<1>6. CASE LookOnly(w)
  <2>1. PICK r \in Results : Answer(w, r)
    BY <1>6, ActionAssumption DEF LookOnly, Results
  <2>2. failures' \in Nat
    BY <1>6 DEF LookOnly, TypeOK
  <2>. QED
    BY <1>6, <2>1, <2>2, AnswerType DEF LookOnly, TypeOK
<1>7. CASE WatchTap(w)
  <2>1. PICK r \in Results : Answer(w, r)
    BY <1>7 DEF WatchTap, Results
  <2>. QED
    BY <1>7, <2>1, AnswerType DEF WatchTap, TypeOK
<1>8. CASE Reconcile(w)
  <2>1. PICK r \in Results : Answer(w, r)
    BY <1>8, ActionAssumption DEF Reconcile, Coerced, Results
  <2>. QED
    BY <1>8, <2>1, AnswerType DEF Reconcile, TypeOK
<1>9. CASE RecordResult(w)
  <2> DEFINE r == answer[w]
             s == IF plan.state = "confirmed" THEN plan.state ELSE Settled(r)
  <2>1. s \in PlanStates
    BY DEF Settled, PlanStates
  <2>2. plan' \in PlanRows
    <3>1. plan' = [plan EXCEPT !.state = s, !.last = r]
      BY <1>9 DEF RecordResult
    <3>2. r \in Results \cup {"none"}
      BY DEF TypeOK
    <3>. QED
      BY <2>1, <3>1, <3>2 DEF TypeOK, PlanRows
  <2>3. seen' \in [Workers -> Memories]
    <3> DEFINE n == seen[w].attempts + 1
               c == IF AfterResult(w, r) = "close"
                    THEN "action_uncertain_terminal" ELSE seen[w].code
    <3>1. n \in Nat /\ c \in Codes
      <4>1. seen[w].attempts \in Nat /\ seen[w].code \in Codes
        BY MemoryMoves, Zenon
      <4>. QED
        BY <4>1 DEF Codes
    <3>2. seen' = [seen EXCEPT ![w].attempts = n, ![w].code = c]
      BY <1>9 DEF RecordResult
    <3>. QED
      BY <3>1, <3>2, MemoryMoves
  <2>4. pc' \in [Workers -> Locations]
    <3>1. AfterResult(w, r) \in Locations
      BY <1>1 DEF AfterResult
    <3>. QED
      BY <1>9, <3>1, GotoType DEF RecordResult
  <2>. QED
    BY <1>9, <2>2, <2>3, <2>4 DEF RecordResult, TypeOK, PlanRows, Memories
<1>10. CASE GoReconcile(w)
  <2>1. seen' \in [Workers -> Memories]
    BY <1>10, MemoryMoves DEF GoReconcile
  <2>. QED
    BY <1>1, <1>2, <1>10, <2>1, GotoType DEF GoReconcile, TypeOK, Memories
<1>. QED
  BY <1>3, <1>4, <1>5, <1>6, <1>7, <1>8, <1>9, <1>10

\* The end of a run, and the whole.
LEMMA StepTypeOK == TypeOK /\ [Next]_vars => TypeOK'
<1> SUFFICES ASSUME TypeOK, [Next]_vars
             PROVE  TypeOK'
  OBVIOUS
<1>1. ASSUME NEW w \in Workers, Complete(w) \/ Defer(w)
      PROVE  TypeOK'
  <2>1. "idle" \in Locations /\ phase' \in Phases
    BY <1>1 DEF Locations, Complete, Defer, Phases, Working, Waiting, Terminal
  <2>2. code' \in Codes
    BY <1>1, MemoryMoves DEF Complete, Defer, Codes
  <2>3. Forget(w, "idle") /\ owner' = Nobody /\ live' = FALSE
    BY <1>1, Zenon DEF Complete, Defer
  <2>4. UNCHANGED <<visited, profile, plan, tenant, phone, failures>>
    BY <1>1, Zenon DEF Complete, Defer
  <2>. QED
    BY <2>1, <2>2, <2>3, <2>4, GotoType DEF TypeOK, Memories, profile, phone
<1>2. CASE UNCHANGED vars
  BY <1>2 DEF vars, rowVars, profile, phone, TypeOK
<1>. QED
  BY <1>1, <1>2, EnvTypeOK, LifeTypeOK, VisitTypeOK, PlanTypeOK, ActTypeOK DEF Next, Run


-----------------------------------------------------------------------------
(* The inductive invariant. *)

\* It holds at first.
LEMMA InitIInv == Init => IInv
<1> SUFFICES ASSUME Init
             PROVE  IInv
  OBVIOUS
<1>1. TypeOK
  BY InitTypeOK
<1>2. PlanInHand /\ TapsOnRecord /\ AtMostOneTap
  BY ActionAssumption DEF Init, PlanInHand, Deciding, Acting, TapsOnRecord, Spent, AtMostOneTap
<1>3. RowsInOrder /\ CompletionExplained
  BY ActionAssumption DEF Init, RowsInOrder, Unvisited, Terminal, CompletionExplained, NewPlan
<1>4. InPhase /\ LookedOnce /\ PlanInStep
  BY ActionAssumption DEF Init, InPhase, LookedOnce, PlanInStep, NewPlan, Fresh
<1>. QED
  BY <1>1, <1>2, <1>3, <1>4 DEF IInv

\* Only the launch that has the device writes the plan, and it remembers what
\* it wrote; a launch that comes next starts from nothing.
LEMMA StepPlanInHand == IInv /\ [Next]_vars => PlanInHand'
<1> SUFFICES ASSUME IInv, [Next]_vars
             PROVE  PlanInHand'
  OBVIOUS
<1> USE ActionAssumption DEF At, Holds, HasDevice, Goto, Forget, Answer, rowVars, profile,
      phone, IInv, TypeOK, PlanInHand, Deciding, Acting, Plans,
      NewPlan, Settled, AfterResult, Resumes, Coerced, Fresh, Results
<1>1. ASSUME NEW w \in Workers, Run(w)
      PROVE  PlanInHand'
  <2>1. CASE Claim(w) \/ Visit(w) \/ SkipUnreachable(w) \/ ReopenFails(w) \/ ReadSnapshot(w)
    BY <2>1 DEF Claim, Visit, SkipUnreachable, ReopenFails, ReadSnapshot
  <2>2. CASE ClaimReading(w) \/ Publish(w) \/ PublishRefused(w) \/ WaitForSnapshot(w)
    BY <2>2 DEF ClaimReading, Publish, PublishRefused, WaitForSnapshot
  <2>3. CASE NoVideo(w) \/ MakePlan(w)
    BY <2>3 DEF NoVideo, MakePlan
  <2>4. CASE OpenVideo(w) \/ ConfirmTrace(w)
    BY <2>4 DEF OpenVideo, ConfirmTrace
  <2>5. CASE StartAction(w) \/ MarkExecuting(w) \/ BeginExecute(w)
    BY <2>5 DEF StartAction, MarkExecuting, BeginExecute
  <2>6. CASE LookOnly(w)
    BY <2>6 DEF LookOnly
  <2>7. CASE Tap(w) \/ WatchTap(w)
    BY <2>7 DEF Tap, WatchTap
  <2>8. CASE Reconcile(w)
    BY <2>8 DEF Reconcile
  <2>9. CASE RecordResult(w)
    BY <2>9 DEF RecordResult
  <2>10. CASE GoReconcile(w)
    BY <2>10 DEF GoReconcile
  <2>11. CASE ExecuteAgain(w)
    BY <2>11 DEF ExecuteAgain
  <2>12. CASE FallBack(w)
    BY <2>12 DEF FallBack
  <2>13. CASE Complete(w) \/ Defer(w)
    BY <2>13 DEF Complete, Defer
  <2>. QED
    BY <1>1, <2>1, <2>2, <2>3, <2>4, <2>5, <2>6, <2>7, <2>8, <2>9, <2>10, <2>11, <2>12, <2>13 DEF Run
<1>2. ASSUME NEW w \in Workers,
             TakeOver(w) \/ ExitOnLostLease(w) \/ OperationFails(w) \/ Crash(w)
      PROVE  PlanInHand'
  BY <1>2 DEF TakeOver, ExitOnLostLease, OperationFails, Crash
<1>3. CASE LoseDevice \/ LeaseRunsOut \/ OtherReads \/ OtherPublishes \/ ReaderRunsOut
  BY <1>3 DEF LoseDevice, LeaseRunsOut, OtherReads, OtherPublishes, ReaderRunsOut
<1>4. CASE Land \/ Recover
  BY <1>4 DEF Land, Recover
<1>5. CASE UNCHANGED vars
  BY <1>5 DEF vars
<1>. QED
  BY <1>1, <1>2, <1>3, <1>4, <1>5 DEF Next

\* The plan says executing before the phone is asked to tap, and a launch that
\* reads it so only looks.
LEMMA StepTapsOnRecord == IInv /\ [Next]_vars => TapsOnRecord'
<1> SUFFICES ASSUME IInv, [Next]_vars
             PROVE  TapsOnRecord'
  OBVIOUS
<1> USE ActionAssumption DEF At, Holds, HasDevice, Goto, Forget, Answer, rowVars, profile,
      phone, IInv, TypeOK, TapsOnRecord, Spent, AtMostOneTap, PlanInHand,
      Deciding, Acting, Plans, NewPlan, Settled, AfterResult, Resumes, Coerced, Fresh, Results
<1>1. ASSUME NEW w \in Workers, Run(w)
      PROVE  TapsOnRecord'
  <2>1. CASE Claim(w) \/ Visit(w) \/ SkipUnreachable(w) \/ ReopenFails(w) \/ ReadSnapshot(w)
    BY <2>1 DEF Claim, Visit, SkipUnreachable, ReopenFails, ReadSnapshot
  <2>2. CASE ClaimReading(w) \/ Publish(w) \/ PublishRefused(w) \/ WaitForSnapshot(w)
    BY <2>2 DEF ClaimReading, Publish, PublishRefused, WaitForSnapshot
  <2>3. CASE NoVideo(w) \/ MakePlan(w)
    BY <2>3 DEF NoVideo, MakePlan
  <2>4. CASE OpenVideo(w) \/ ConfirmTrace(w)
    BY <2>4 DEF OpenVideo, ConfirmTrace
  <2>5. CASE StartAction(w) \/ MarkExecuting(w) \/ BeginExecute(w)
    BY <2>5 DEF StartAction, MarkExecuting, BeginExecute
  <2>6. CASE LookOnly(w)
    BY <2>6 DEF LookOnly
  <2>7. CASE Tap(w) \/ WatchTap(w)
    BY <2>7 DEF Tap, WatchTap
  <2>8. CASE Reconcile(w)
    BY <2>8 DEF Reconcile
  <2>9. CASE RecordResult(w)
    BY <2>9 DEF RecordResult
  <2>10. CASE GoReconcile(w)
    BY <2>10 DEF GoReconcile
  <2>11. CASE ExecuteAgain(w)
    BY <2>11 DEF ExecuteAgain
  <2>12. CASE FallBack(w)
    BY <2>12 DEF FallBack
  <2>13. CASE Complete(w) \/ Defer(w)
    BY <2>13 DEF Complete, Defer
  <2>. QED
    BY <1>1, <2>1, <2>2, <2>3, <2>4, <2>5, <2>6, <2>7, <2>8, <2>9, <2>10, <2>11, <2>12, <2>13 DEF Run
<1>2. ASSUME NEW w \in Workers,
             TakeOver(w) \/ ExitOnLostLease(w) \/ OperationFails(w) \/ Crash(w)
      PROVE  TapsOnRecord'
  BY <1>2 DEF TakeOver, ExitOnLostLease, OperationFails, Crash
<1>3. CASE LoseDevice \/ LeaseRunsOut \/ OtherReads \/ OtherPublishes \/ ReaderRunsOut
  BY <1>3 DEF LoseDevice, LeaseRunsOut, OtherReads, OtherPublishes, ReaderRunsOut
<1>4. CASE Land \/ Recover
  BY <1>4 DEF Land, Recover
<1>5. CASE UNCHANGED vars
  BY <1>5 DEF vars
<1>. QED
  BY <1>1, <1>2, <1>3, <1>4, <1>5 DEF Next

\* A launch before its tap is alone, and none was made yet.
LEMMA StepAtMostOneTap == IInv /\ [Next]_vars => AtMostOneTap'
<1> SUFFICES ASSUME IInv, [Next]_vars
             PROVE  AtMostOneTap'
  OBVIOUS
<1> USE ActionAssumption DEF At, Holds, HasDevice, Goto, Forget, Answer, rowVars, profile,
      phone, IInv, TypeOK, AtMostOneTap, TapsOnRecord
<1>1. ASSUME NEW w \in Workers, Run(w)
      PROVE  AtMostOneTap'
  <2>1. CASE Claim(w) \/ Visit(w) \/ SkipUnreachable(w) \/ ReopenFails(w) \/ ReadSnapshot(w)
    BY <2>1 DEF Claim, Visit, SkipUnreachable, ReopenFails, ReadSnapshot
  <2>2. CASE ClaimReading(w) \/ Publish(w) \/ PublishRefused(w) \/ WaitForSnapshot(w)
    BY <2>2 DEF ClaimReading, Publish, PublishRefused, WaitForSnapshot
  <2>3. CASE NoVideo(w) \/ MakePlan(w)
    BY <2>3 DEF NoVideo, MakePlan
  <2>4. CASE OpenVideo(w) \/ ConfirmTrace(w)
    BY <2>4 DEF OpenVideo, ConfirmTrace
  <2>5. CASE StartAction(w) \/ MarkExecuting(w) \/ BeginExecute(w)
    BY <2>5 DEF StartAction, MarkExecuting, BeginExecute
  <2>6. CASE LookOnly(w)
    BY <2>6 DEF LookOnly
  <2>7. CASE Tap(w) \/ WatchTap(w)
    BY <2>7 DEF Tap, WatchTap
  <2>8. CASE Reconcile(w)
    BY <2>8 DEF Reconcile
  <2>9. CASE RecordResult(w)
    BY <2>9 DEF RecordResult
  <2>10. CASE GoReconcile(w)
    BY <2>10 DEF GoReconcile
  <2>11. CASE ExecuteAgain(w)
    BY <2>11 DEF ExecuteAgain
  <2>12. CASE FallBack(w)
    BY <2>12 DEF FallBack
  <2>13. CASE Complete(w) \/ Defer(w)
    BY <2>13 DEF Complete, Defer
  <2>. QED
    BY <1>1, <2>1, <2>2, <2>3, <2>4, <2>5, <2>6, <2>7, <2>8, <2>9, <2>10, <2>11, <2>12, <2>13 DEF Run
<1>2. ASSUME NEW w \in Workers,
             TakeOver(w) \/ ExitOnLostLease(w) \/ OperationFails(w) \/ Crash(w)
      PROVE  AtMostOneTap'
  BY <1>2 DEF TakeOver, ExitOnLostLease, OperationFails, Crash
<1>3. CASE LoseDevice \/ LeaseRunsOut \/ OtherReads \/ OtherPublishes \/ ReaderRunsOut
  BY <1>3 DEF LoseDevice, LeaseRunsOut, OtherReads, OtherPublishes, ReaderRunsOut
<1>4. CASE Land \/ Recover
  BY <1>4 DEF Land, Recover
<1>5. CASE UNCHANGED vars
  BY <1>5 DEF vars
<1>. QED
  BY <1>1, <1>2, <1>3, <1>4, <1>5 DEF Next

\* The visit comes before the plan, and a row that has ended is nobody's.
LEMMA StepRowsInOrder == IInv /\ [Next]_vars => RowsInOrder'
<1> SUFFICES ASSUME IInv, [Next]_vars
             PROVE  RowsInOrder'
  OBVIOUS
<1> USE ActionAssumption DEF At, Holds, HasDevice, Goto, Forget, Answer, rowVars, profile,
      phone, IInv, TypeOK, RowsInOrder, Unvisited, Terminal, Plans,
      NewPlan, AfterResult
<1>1. ASSUME NEW w \in Workers, Run(w)
      PROVE  RowsInOrder'
  <2>1. CASE Claim(w) \/ Visit(w) \/ SkipUnreachable(w) \/ ReopenFails(w) \/ ReadSnapshot(w)
    BY <2>1 DEF Claim, Visit, SkipUnreachable, ReopenFails, ReadSnapshot
  <2>2. CASE ClaimReading(w) \/ Publish(w) \/ PublishRefused(w) \/ WaitForSnapshot(w)
    BY <2>2 DEF ClaimReading, Publish, PublishRefused, WaitForSnapshot
  <2>3. CASE NoVideo(w) \/ MakePlan(w)
    BY <2>3 DEF NoVideo, MakePlan
  <2>4. CASE OpenVideo(w) \/ ConfirmTrace(w)
    BY <2>4 DEF OpenVideo, ConfirmTrace
  <2>5. CASE StartAction(w) \/ MarkExecuting(w) \/ BeginExecute(w)
    BY <2>5 DEF StartAction, MarkExecuting, BeginExecute
  <2>6. CASE LookOnly(w)
    BY <2>6 DEF LookOnly
  <2>7. CASE Tap(w) \/ WatchTap(w)
    BY <2>7 DEF Tap, WatchTap
  <2>8. CASE Reconcile(w)
    BY <2>8 DEF Reconcile
  <2>9. CASE RecordResult(w)
    BY <2>9 DEF RecordResult
  <2>10. CASE GoReconcile(w)
    BY <2>10 DEF GoReconcile
  <2>11. CASE ExecuteAgain(w)
    BY <2>11 DEF ExecuteAgain
  <2>12. CASE FallBack(w)
    BY <2>12 DEF FallBack
  <2>13. CASE Complete(w) \/ Defer(w)
    BY <2>13 DEF Complete, Defer
  <2>. QED
    BY <1>1, <2>1, <2>2, <2>3, <2>4, <2>5, <2>6, <2>7, <2>8, <2>9, <2>10, <2>11, <2>12, <2>13 DEF Run
<1>2. ASSUME NEW w \in Workers,
             TakeOver(w) \/ ExitOnLostLease(w) \/ OperationFails(w) \/ Crash(w)
      PROVE  RowsInOrder'
  BY <1>2 DEF TakeOver, ExitOnLostLease, OperationFails, Crash
<1>3. CASE LoseDevice \/ LeaseRunsOut \/ OtherReads \/ OtherPublishes \/ ReaderRunsOut
  BY <1>3 DEF LoseDevice, LeaseRunsOut, OtherReads, OtherPublishes, ReaderRunsOut
<1>4. CASE Land \/ Recover
  BY <1>4 DEF Land, Recover
<1>5. CASE UNCHANGED vars
  BY <1>5 DEF vars
<1>. QED
  BY <1>1, <1>2, <1>3, <1>4, <1>5 DEF Next

\* What the last step of a run records is what its plan says.
LEMMA StepExplained == IInv /\ [Next]_vars => CompletionExplained'
<1> SUFFICES ASSUME IInv, [Next]_vars
             PROVE  CompletionExplained'
  OBVIOUS
<1> USE ActionAssumption DEF At, Holds, HasDevice, Goto, Forget, Answer, rowVars, profile,
      phone, IInv, TypeOK, CompletionExplained, RowsInOrder, PlanInHand,
      Deciding, Acting, Unvisited, Terminal, Plans, NewPlan, Settled
<1>1. ASSUME NEW w \in Workers, Run(w)
      PROVE  CompletionExplained'
  <2>1. CASE Claim(w) \/ Visit(w) \/ SkipUnreachable(w) \/ ReopenFails(w) \/ ReadSnapshot(w)
    BY <2>1 DEF Claim, Visit, SkipUnreachable, ReopenFails, ReadSnapshot
  <2>2. CASE ClaimReading(w) \/ Publish(w) \/ PublishRefused(w) \/ WaitForSnapshot(w)
    BY <2>2 DEF ClaimReading, Publish, PublishRefused, WaitForSnapshot
  <2>3. CASE NoVideo(w) \/ MakePlan(w)
    BY <2>3 DEF NoVideo, MakePlan
  <2>4. CASE OpenVideo(w) \/ ConfirmTrace(w)
    BY <2>4 DEF OpenVideo, ConfirmTrace
  <2>5. CASE StartAction(w) \/ MarkExecuting(w) \/ BeginExecute(w)
    BY <2>5 DEF StartAction, MarkExecuting, BeginExecute
  <2>6. CASE LookOnly(w)
    BY <2>6 DEF LookOnly
  <2>7. CASE Tap(w) \/ WatchTap(w)
    BY <2>7 DEF Tap, WatchTap
  <2>8. CASE Reconcile(w)
    BY <2>8 DEF Reconcile
  <2>9. CASE RecordResult(w)
    BY <2>9 DEF RecordResult
  <2>10. CASE GoReconcile(w)
    BY <2>10 DEF GoReconcile
  <2>11. CASE ExecuteAgain(w)
    BY <2>11 DEF ExecuteAgain
  <2>12. CASE FallBack(w)
    BY <2>12 DEF FallBack
  <2>13. CASE Complete(w) \/ Defer(w)
    BY <2>13 DEF Complete, Defer
  <2>. QED
    BY <1>1, <2>1, <2>2, <2>3, <2>4, <2>5, <2>6, <2>7, <2>8, <2>9, <2>10, <2>11, <2>12, <2>13 DEF Run
<1>2. ASSUME NEW w \in Workers,
             TakeOver(w) \/ ExitOnLostLease(w) \/ OperationFails(w) \/ Crash(w)
      PROVE  CompletionExplained'
  BY <1>2 DEF TakeOver, ExitOnLostLease, OperationFails, Crash
<1>3. CASE LoseDevice \/ LeaseRunsOut \/ OtherReads \/ OtherPublishes \/ ReaderRunsOut
  BY <1>3 DEF LoseDevice, LeaseRunsOut, OtherReads, OtherPublishes, ReaderRunsOut
<1>4. CASE Land \/ Recover
  BY <1>4 DEF Land, Recover
<1>5. CASE UNCHANGED vars
  BY <1>5 DEF vars
<1>. QED
  BY <1>1, <1>2, <1>3, <1>4, <1>5 DEF Next

\* The owner of a row moves its phase together with its own place, and the
\* launch that comes next claims it at the beginning.
LEMMA StepInPhase == IInv /\ [Next]_vars => InPhase'
<1> SUFFICES ASSUME IInv, [Next]_vars
             PROVE  InPhase'
  OBVIOUS
<1> USE ActionAssumption DEF At, Holds, HasDevice, Goto, Forget, Answer, rowVars, profile,
      phone, IInv, TypeOK, InPhase, LookedOnce, PlanInHand, RowsInOrder, Deciding, Acting,
      Resumes, AfterResult, Fresh, Working, Terminal, Allowed
<1>1. ASSUME NEW w \in Workers, Run(w)
      PROVE  InPhase'
  <2>1. CASE Claim(w) \/ Visit(w) \/ SkipUnreachable(w) \/ ReopenFails(w) \/ ReadSnapshot(w)
    BY <2>1 DEF Claim, Visit, SkipUnreachable, ReopenFails, ReadSnapshot
  <2>2. CASE ClaimReading(w) \/ Publish(w) \/ PublishRefused(w) \/ WaitForSnapshot(w)
    BY <2>2 DEF ClaimReading, Publish, PublishRefused, WaitForSnapshot
  <2>3. CASE NoVideo(w) \/ MakePlan(w)
    BY <2>3 DEF NoVideo, MakePlan
  <2>4. CASE OpenVideo(w) \/ ConfirmTrace(w)
    BY <2>4 DEF OpenVideo, ConfirmTrace
  <2>5. CASE StartAction(w)
    BY <2>5 DEF StartAction
  <2>6. CASE MarkExecuting(w) \/ BeginExecute(w)
    BY <2>6 DEF MarkExecuting, BeginExecute
  <2>7. CASE LookOnly(w)
    BY <2>7 DEF LookOnly
  <2>8. CASE Tap(w) \/ WatchTap(w)
    BY <2>8 DEF Tap, WatchTap
  <2>9. CASE Reconcile(w)
    BY <2>9 DEF Reconcile
  <2>10. CASE RecordResult(w)
    BY <2>10 DEF RecordResult
  <2>11. CASE GoReconcile(w)
    BY <2>11 DEF GoReconcile
  <2>12. CASE ExecuteAgain(w) \/ FallBack(w)
    BY <2>12 DEF ExecuteAgain, FallBack
  <2>13. CASE Complete(w) \/ Defer(w)
    BY <2>13 DEF Complete, Defer
  <2>. QED
    BY <1>1, <2>1, <2>2, <2>3, <2>4, <2>5, <2>6, <2>7, <2>8, <2>9, <2>10, <2>11, <2>12, <2>13 DEF Run
<1>2. ASSUME NEW w \in Workers,
             TakeOver(w) \/ ExitOnLostLease(w) \/ OperationFails(w) \/ Crash(w)
      PROVE  InPhase'
  BY <1>2 DEF TakeOver, ExitOnLostLease, OperationFails, Crash
<1>3. CASE LoseDevice \/ LeaseRunsOut \/ OtherReads \/ OtherPublishes \/ ReaderRunsOut
  BY <1>3 DEF LoseDevice, LeaseRunsOut, OtherReads, OtherPublishes, ReaderRunsOut
<1>4. CASE Land \/ Recover
  BY <1>4 DEF Land, Recover
<1>5. CASE UNCHANGED vars
  BY <1>5 DEF vars
<1>. QED
  BY <1>1, <1>2, <1>3, <1>4, <1>5 DEF Next

\* A second look comes after an uncertain execution only, and no execution
\* after it.
LEMMA StepLookedOnce == IInv /\ [Next]_vars => LookedOnce'
<1> SUFFICES ASSUME IInv, [Next]_vars
             PROVE  LookedOnce'
  OBVIOUS
<1> USE ActionAssumption DEF At, Holds, HasDevice, Goto, Forget, Answer, rowVars, profile,
      phone, IInv, TypeOK, LookedOnce, AfterResult, Fresh, Coerced, Results
<1>1. ASSUME NEW w \in Workers, Run(w)
      PROVE  LookedOnce'
  <2>1. CASE Claim(w) \/ Visit(w) \/ SkipUnreachable(w) \/ ReopenFails(w) \/ ReadSnapshot(w)
    BY <2>1 DEF Claim, Visit, SkipUnreachable, ReopenFails, ReadSnapshot
  <2>2. CASE ClaimReading(w) \/ Publish(w) \/ PublishRefused(w) \/ WaitForSnapshot(w)
    BY <2>2 DEF ClaimReading, Publish, PublishRefused, WaitForSnapshot
  <2>3. CASE NoVideo(w) \/ MakePlan(w)
    BY <2>3 DEF NoVideo, MakePlan
  <2>4. CASE OpenVideo(w) \/ ConfirmTrace(w)
    BY <2>4 DEF OpenVideo, ConfirmTrace
  <2>5. CASE StartAction(w)
    BY <2>5 DEF StartAction
  <2>6. CASE MarkExecuting(w) \/ BeginExecute(w)
    BY <2>6 DEF MarkExecuting, BeginExecute
  <2>7. CASE LookOnly(w)
    BY <2>7 DEF LookOnly
  <2>8. CASE Tap(w) \/ WatchTap(w)
    BY <2>8 DEF Tap, WatchTap
  <2>9. CASE Reconcile(w)
    BY <2>9 DEF Reconcile
  <2>10. CASE RecordResult(w)
    BY <2>10 DEF RecordResult
  <2>11. CASE GoReconcile(w)
    BY <2>11 DEF GoReconcile
  <2>12. CASE ExecuteAgain(w) \/ FallBack(w)
    BY <2>12 DEF ExecuteAgain, FallBack
  <2>13. CASE Complete(w) \/ Defer(w)
    BY <2>13 DEF Complete, Defer
  <2>. QED
    BY <1>1, <2>1, <2>2, <2>3, <2>4, <2>5, <2>6, <2>7, <2>8, <2>9, <2>10, <2>11, <2>12, <2>13 DEF Run
<1>2. ASSUME NEW w \in Workers,
             TakeOver(w) \/ ExitOnLostLease(w) \/ OperationFails(w) \/ Crash(w)
      PROVE  LookedOnce'
  <2>1. CASE TakeOver(w)
    BY <2>1 DEF TakeOver
  <2>2. CASE OperationFails(w)
    BY <2>2 DEF OperationFails
  <2>3. CASE ExitOnLostLease(w) \/ Crash(w)
    BY <2>3 DEF ExitOnLostLease, Crash
  <2>. QED
    BY <1>2, <2>1, <2>2, <2>3
<1>3. CASE LoseDevice \/ LeaseRunsOut \/ OtherReads \/ OtherPublishes \/ ReaderRunsOut
  BY <1>3 DEF LoseDevice, LeaseRunsOut, OtherReads, OtherPublishes, ReaderRunsOut
<1>4. CASE Land \/ Recover
  BY <1>4 DEF Land, Recover
<1>5. CASE UNCHANGED vars
  BY <1>5 DEF vars
<1>. QED
  BY <1>1, <1>2, <1>3, <1>4, <1>5 DEF Next

\* The plan changes with the place of the launch that has the device.
LEMMA StepPlanInStep == IInv /\ [Next]_vars => PlanInStep'
<1> SUFFICES ASSUME IInv, [Next]_vars
             PROVE  PlanInStep'
  OBVIOUS
<1> USE ActionAssumption DEF At, Holds, HasDevice, Goto, Forget, Answer, rowVars, profile,
      phone, IInv, TypeOK, PlanInStep, LookedOnce, PlanInHand, Deciding, Acting, Plans,
      NewPlan, Settled, AfterResult, Resumes, Coerced, Fresh, Results
<1>1. ASSUME NEW w \in Workers, Run(w)
      PROVE  PlanInStep'
  <2>1. CASE Claim(w) \/ Visit(w) \/ SkipUnreachable(w) \/ ReopenFails(w) \/ ReadSnapshot(w)
    BY <2>1 DEF Claim, Visit, SkipUnreachable, ReopenFails, ReadSnapshot
  <2>2. CASE ClaimReading(w) \/ Publish(w) \/ PublishRefused(w) \/ WaitForSnapshot(w)
    BY <2>2 DEF ClaimReading, Publish, PublishRefused, WaitForSnapshot
  <2>3. CASE NoVideo(w) \/ MakePlan(w)
    BY <2>3 DEF NoVideo, MakePlan
  <2>4. CASE OpenVideo(w) \/ ConfirmTrace(w)
    BY <2>4 DEF OpenVideo, ConfirmTrace
  <2>5. CASE StartAction(w)
    BY <2>5 DEF StartAction, PlanStates
  <2>6. CASE MarkExecuting(w) \/ BeginExecute(w)
    <3>1. CASE MarkExecuting(w)
      <4>1. /\ plan'.state = "executing" /\ plan'.effective = plan.effective
            /\ plan.effective # "trace"
        BY <3>1 DEF MarkExecuting
      <4>2. /\ pc' = [pc EXCEPT ![w] = "execute"] /\ tenant = w
            /\ UNCHANGED <<tenant, answer>>
        BY <3>1 DEF MarkExecuting
      <4>. QED
        BY <4>1, <4>2
    <3>2. CASE BeginExecute(w)
      BY <3>2 DEF BeginExecute
    <3>. QED
      BY <2>6, <3>1, <3>2
  <2>7. CASE LookOnly(w)
    BY <2>7 DEF LookOnly
  <2>8. CASE Tap(w) \/ WatchTap(w)
    BY <2>8 DEF Tap, WatchTap
  <2>9. CASE Reconcile(w)
    BY <2>9 DEF Reconcile
  <2>10. CASE RecordResult(w)
    BY <2>10 DEF RecordResult
  <2>11. CASE GoReconcile(w)
    BY <2>11 DEF GoReconcile
  <2>12. CASE ExecuteAgain(w) \/ FallBack(w)
    <3>1. CASE ExecuteAgain(w)
      BY <3>1 DEF ExecuteAgain
    <3>2. CASE FallBack(w)
      BY <3>2 DEF FallBack
    <3>. QED
      BY <2>12, <3>1, <3>2
  <2>13. CASE Complete(w) \/ Defer(w)
    BY <2>13 DEF Complete, Defer
  <2>. QED
    BY <1>1, <2>1, <2>2, <2>3, <2>4, <2>5, <2>6, <2>7, <2>8, <2>9, <2>10, <2>11, <2>12, <2>13 DEF Run
<1>2. ASSUME NEW w \in Workers,
             TakeOver(w) \/ ExitOnLostLease(w) \/ OperationFails(w) \/ Crash(w)
      PROVE  PlanInStep'
  BY <1>2 DEF TakeOver, ExitOnLostLease, OperationFails, Crash
<1>3. CASE LoseDevice \/ LeaseRunsOut \/ OtherReads \/ OtherPublishes \/ ReaderRunsOut
  BY <1>3 DEF LoseDevice, LeaseRunsOut, OtherReads, OtherPublishes, ReaderRunsOut
<1>4. CASE Land \/ Recover
  BY <1>4 DEF Land, Recover
<1>5. CASE UNCHANGED vars
  BY <1>5 DEF vars
<1>. QED
  BY <1>1, <1>2, <1>3, <1>4, <1>5 DEF Next

-----------------------------------------------------------------------------
(* The courses of the row and of the plan.                                 *)

\* Every call the worker makes for its row is one the ledger's table accepts.
LEMMA RowStep == IInv /\ [Next]_vars => [Row!CourseNext]_(Row!courseVars)
<1> SUFFICES ASSUME IInv, [Next]_vars
             PROVE  Row!CourseNext \/ (phase' = phase /\ visited' = visited)
  BY DEF Row!courseVars
<1> USE DEF At, Holds, rowVars
<1>1. ASSUME NEW w \in Workers, At(w, pc[w])
      PROVE  /\ phase \in Working /\ phase \notin Terminal
             /\ pc[w] = "open" => phase = "profile_opening"
             /\ pc[w] = "lease" => phase = "identity_confirmed"
             /\ pc[w] = "video" => phase \in {"identity_confirmed", "video_opening"}
             /\ pc[w] = "act" => phase = "video_confirmed"
                                  \/ (phase = "quota_reserved" /\ ~Resumes(w))
             /\ pc[w] = "recover" => phase = "action_executing"
             /\ pc[w] \in {"finish", "close"} => "completed" \in Allowed(phase)
  BY <1>1 DEF IInv, InPhase, Working, Terminal
<1>2. ASSUME NEW w \in Workers, Claim(w)
      PROVE  Row!CourseNext
  BY <1>2 DEF Claim, Row!CourseNext, Row!Claimed, Row!Terminal
<1>3. ASSUME NEW w \in Workers, Visit(w) \/ SkipUnreachable(w) \/ ReopenFails(w)
      PROVE  Row!CourseNext
  <2>1. At(w, pc[w]) /\ phase = "profile_opening"
    BY <1>1, <1>3 DEF Visit, SkipUnreachable, ReopenFails
  <2>2. CASE Visit(w)
    BY <2>1, <2>2 DEF Visit, Row!CourseNext, Row!Identified, Row!Allowed
  <2>3. CASE SkipUnreachable(w)
    BY <2>1, <2>3 DEF SkipUnreachable, Row!CourseNext, Row!Skipped
  <2>4. CASE ReopenFails(w)
    BY <2>1, <2>4 DEF ReopenFails, Row!CourseNext, Row!Moved, Row!Allowed, Row!Working
  <2>. QED
    BY <1>3, <2>2, <2>3, <2>4
<1>4. ASSUME NEW w \in Workers,
             ClaimReading(w) \/ OpenVideo(w) \/ StartAction(w) \/ GoReconcile(w)
      PROVE  Row!CourseNext \/ (phase' = phase /\ visited' = visited)
  <2> USE DEF Row!CourseNext, Row!Moved, Row!Allowed, Row!Working
  <2>1. CASE ClaimReading(w)
    <3>1. phase = "identity_confirmed"
      BY <1>1, <2>1 DEF ClaimReading
    <3>2. visited' = visited /\ (phase' = phase \/ phase' = "waiting_snapshot")
      BY <2>1 DEF ClaimReading
    <3>. QED
      BY <3>1, <3>2
  <2>2. CASE OpenVideo(w)
    <3>1. phase \in {"identity_confirmed", "video_opening"}
      BY <1>1, <2>2 DEF OpenVideo
    <3>2. /\ visited' = visited
          /\ phase' = IF phase = "identity_confirmed" THEN "video_opening"
                      ELSE "video_confirmed"
      BY <2>2 DEF OpenVideo
    <3>. QED
      BY <3>1, <3>2
  <2>3. CASE StartAction(w)
    <3>1. phase = "video_confirmed" \/ (phase = "quota_reserved" /\ ~Resumes(w))
      BY <1>1, <2>3 DEF StartAction
    <3>2. visited' = visited
      BY <2>3 DEF StartAction
    <3>3. \/ Resumes(w) /\ phase' = "action_reconciling"
          \/ phase = "video_confirmed" /\ phase' = "quota_reserved"
          \/ phase = "quota_reserved" /\ phase' = "action_executing"
      BY <2>3 DEF StartAction
    <3>. QED
      BY <3>1, <3>2, <3>3
  <2>4. CASE GoReconcile(w)
    <3>1. phase = "action_executing"
      BY <1>1, <2>4 DEF GoReconcile
    <3>. QED
      BY <2>4, <3>1 DEF GoReconcile
  <2>. QED
    BY <1>4, <2>1, <2>2, <2>3, <2>4
<1>5. ASSUME NEW w \in Workers, Complete(w) \/ Defer(w)
      PROVE  Row!CourseNext
  <2>1. CASE Complete(w)
    <3>1. "completed" \in Allowed(phase) /\ phase' = "completed" /\ visited' = visited
      BY <1>1, <2>1 DEF Complete
    <3>. QED
      BY <3>1 DEF Row!CourseNext, Row!Completed, Row!Allowed, Allowed
  <2>2. CASE Defer(w)
    <3>1. phase \notin Terminal /\ phase' = "deferred" /\ visited' = visited
      BY <1>1, <2>2 DEF Defer
    <3>. QED
      BY <3>1 DEF Row!CourseNext, Row!Deferred, Row!Terminal, Terminal
  <2>. QED
    BY <1>5, <2>1, <2>2
<1>6. CASE Recover
  <2>1. phase \notin Terminal
    BY <1>6 DEF Recover, IInv, RowsInOrder
  <2>. QED
    BY <1>6, <2>1 DEF Recover, Row!CourseNext, Row!Recovered, Row!Terminal, Terminal
<1>7. ASSUME NEW w \in Workers, Run(w)
      PROVE  Row!CourseNext \/ (phase' = phase /\ visited' = visited)
  <2>1. ASSUME \/ ReadSnapshot(w) \/ Publish(w) \/ PublishRefused(w) \/ WaitForSnapshot(w)
               \/ NoVideo(w) \/ MakePlan(w) \/ ConfirmTrace(w) \/ MarkExecuting(w)
               \/ BeginExecute(w) \/ LookOnly(w) \/ Tap(w) \/ WatchTap(w) \/ Reconcile(w)
               \/ RecordResult(w) \/ ExecuteAgain(w) \/ FallBack(w)
        PROVE  phase' = phase /\ visited' = visited
    BY <2>1
    DEF ReadSnapshot, Publish, PublishRefused, WaitForSnapshot, NoVideo, MakePlan,
        ConfirmTrace, MarkExecuting, BeginExecute, LookOnly, Tap, WatchTap, Reconcile,
        RecordResult, ExecuteAgain, FallBack
  <2>. QED
    BY <1>2, <1>3, <1>4, <1>5, <1>7, <2>1 DEF Run
<1>8. ASSUME NEW w \in Workers,
             TakeOver(w) \/ ExitOnLostLease(w) \/ OperationFails(w) \/ Crash(w)
      PROVE  phase' = phase /\ visited' = visited
  BY <1>8 DEF TakeOver, ExitOnLostLease, OperationFails, Crash
<1>9. ASSUME \/ LoseDevice \/ LeaseRunsOut \/ OtherReads \/ OtherPublishes
             \/ ReaderRunsOut \/ Land \/ UNCHANGED vars
      PROVE  phase' = phase /\ visited' = visited
  BY <1>9
  DEF LoseDevice, LeaseRunsOut, OtherReads, OtherPublishes, ReaderRunsOut, Land, vars
<1>. QED
  BY <1>6, <1>7, <1>8, <1>9 DEF Next

\* Every call that changes the plan finds it as the repository wants it.
LEMMA PlanStep == IInv /\ [Next]_vars => [PlanRow!PlanNext]_(PlanRow!planVars)
<1> SUFFICES ASSUME IInv, [Next]_vars, plan' # plan
             PROVE  PlanRow!PlanNext \/ UNCHANGED PlanRow!planVars
  BY DEF PlanRow!planVars
<1> USE DEF At, Holds
<1>1. ASSUME NEW w \in Workers, At(w, pc[w])
      PROVE  /\ pc[w] = "trace" /\ plan.effective = "trace" => plan.state = "planned"
             /\ pc[w] = "mark" => plan.state = "planned" /\ plan.effective # "trace"
             /\ pc[w] = "record" =>
                  /\ plan.state \in {"executing", "uncertain"}
                  /\ answer[w] \in Results
                  /\ plan.state = "uncertain" => answer[w] \in {"confirmed", "uncertain"}
                  /\ answer[w] = "unavailable" => plan.effective = "repost"
  <2>1. plan.effective = "trace" => plan.state \notin {"executing", "uncertain"}
    BY DEF IInv, PlanInStep
  <2>2. pc[w] = "trace" => plan.state = "planned"
        \/ plan.state \in {"executing", "uncertain"}
    BY <1>1 DEF IInv, PlanInHand, Deciding, TypeOK, PlanStates
  <2>3. pc[w] = "record" => answer[w] \in Results
    BY <1>1 DEF IInv, PlanInHand, TypeOK
  <2>. QED
    BY <1>1, <2>1, <2>2, <2>3 DEF IInv, PlanInStep, Acting
<1>2. ASSUME NEW w \in Workers, MakePlan(w)
      PROVE  PlanRow!PlanNext
  <2>1. PICK o \in Outcomes \cup {"trace"} :
          plan.state = "none" /\ plan' = NewPlan("planned", o)
    BY <1>2 DEF MakePlan, Plans
  <2>2. /\ plan'.state = "planned" /\ plan'.requested = o
        /\ plan'.effective = o /\ plan'.last = "none"
    BY <2>1 DEF NewPlan
  <2>. QED
    BY <2>1, <2>2 DEF PlanRow!PlanNext, PlanRow!Planned
<1>3. ASSUME NEW w \in Workers, OpenVideo(w)
      PROVE  UNCHANGED PlanRow!planVars
  BY <1>3 DEF OpenVideo, PlanRow!planVars, IInv, TypeOK
<1>4. ASSUME NEW w \in Workers, ConfirmTrace(w)
      PROVE  PlanRow!PlanNext
  <2>1. plan.state = "planned" /\ plan.effective = "trace"
        /\ plan' = [plan EXCEPT !.state = "confirmed"]
    BY <1>1, <1>4 DEF ConfirmTrace
  <2>. QED
    BY <2>1 DEF PlanRow!PlanNext, PlanRow!Traced, IInv, TypeOK
<1>5. ASSUME NEW w \in Workers, MarkExecuting(w)
      PROVE  PlanRow!PlanNext
  <2>1. plan.state = "planned" /\ plan.effective # "trace"
        /\ plan' = [plan EXCEPT !.state = "executing"]
    BY <1>1, <1>5 DEF MarkExecuting
  <2>. QED
    BY <2>1 DEF PlanRow!PlanNext, PlanRow!Executed, IInv, TypeOK
<1>6. ASSUME NEW w \in Workers, RecordResult(w)
      PROVE  PlanRow!PlanNext
  <2> DEFINE r == answer[w]
  <2>1. /\ plan.state \in {"executing", "uncertain"}
        /\ r \in {"confirmed", "not_applied", "uncertain", "unavailable"}
        /\ plan.state = "uncertain" => r \in {"confirmed", "uncertain"}
        /\ r = "unavailable" => plan.effective = "repost"
    BY <1>1, <1>6 DEF RecordResult, Results
  <2>2. plan' = [plan EXCEPT !.state = Settled(r), !.last = r]
    BY <1>6, <2>1 DEF RecordResult
  <2>3. /\ plan'.state = IF r \in {"confirmed", "uncertain"} THEN r ELSE "planned"
        /\ plan'.last = r
        /\ plan'.requested = plan.requested /\ plan'.effective = plan.effective
    BY <2>1, <2>2 DEF Settled, IInv, TypeOK
  <2>4. PlanRow!Recorded(r)
    BY <2>1, <2>3 DEF PlanRow!Recorded
  <2>. QED
    BY <2>1, <2>4 DEF PlanRow!PlanNext
<1>7. ASSUME NEW w \in Workers, FallBack(w)
      PROVE  PlanRow!PlanNext
  BY <1>7 DEF FallBack, PlanRow!PlanNext, PlanRow!FellBack, IInv, TypeOK
<1>8. ASSUME NEW w \in Workers, Run(w)
      PROVE  \/ MakePlan(w) \/ OpenVideo(w) \/ ConfirmTrace(w) \/ MarkExecuting(w)
             \/ RecordResult(w) \/ FallBack(w)
  BY <1>8
  DEF Run, Claim, Visit, SkipUnreachable, ReopenFails, ReadSnapshot, ClaimReading, Publish,
      PublishRefused, WaitForSnapshot, NoVideo, StartAction, BeginExecute, LookOnly, Tap,
      WatchTap, Reconcile, GoReconcile, ExecuteAgain, Complete, Defer
<1>9. ASSUME NEW w \in Workers,
             TakeOver(w) \/ ExitOnLostLease(w) \/ OperationFails(w) \/ Crash(w)
      PROVE  FALSE
  BY <1>9 DEF TakeOver, ExitOnLostLease, OperationFails, Crash
<1>10. ASSUME \/ LoseDevice \/ LeaseRunsOut \/ OtherReads \/ OtherPublishes
              \/ ReaderRunsOut \/ Land \/ Recover \/ UNCHANGED vars
       PROVE  FALSE
  BY <1>10
  DEF LoseDevice, LeaseRunsOut, OtherReads, OtherPublishes, ReaderRunsOut, Land, Recover, vars
<1>. QED
  BY <1>2, <1>3, <1>4, <1>5, <1>6, <1>7, <1>8, <1>9, <1>10 DEF Next

-----------------------------------------------------------------------------
(* The theorems. *)

\* The parts of the invariant hold in every reachable state: among them that
\* what the launch with the device remembers of its plan is what is stored.
THEOREM Invariance == Spec => []IInv
<1>1. IInv /\ [Next]_vars => IInv'
  <2>1. IInv => TypeOK
    BY DEF IInv
  <2>. QED
    BY <2>1, StepTypeOK, StepPlanInHand, StepTapsOnRecord, StepAtMostOneTap, StepRowsInOrder,
       StepExplained, StepInPhase, StepLookedOnce, StepPlanInStep DEF IInv
<1>. QED
  BY <1>1, InitIInv, PTL DEF Spec

\* Every variable keeps to its type.
THEOREM TypeCorrect == Spec => []TypeOK
<1>1. IInv => TypeOK
  BY DEF IInv
<1>. QED
  BY <1>1, Invariance, PTL

\* Whatever crashes, takeovers and lost leases come in between, and however
\* late a launch notices, the control of an outcome is tapped at most once.
THEOREM TappedOnce == Spec => []AtMostOneTap
<1>1. IInv => AtMostOneTap
  BY DEF IInv
<1>. QED
  BY <1>1, Invariance, PTL

\* An assignment that ended says why: complete_assignment and
\* skip_unreachable_profile leave no row that its plan contradicts.
THEOREM EndsExplained == Spec => []CompletionExplained
<1>1. IInv => CompletionExplained
  BY DEF IInv
<1>. QED
  BY <1>1, Invariance, PTL

\* No step of any launch or other device replaces a published snapshot.
THEOREM SnapshotFinal == Spec => JudgedOnce
<1>1. [Next]_vars => [snapshot # "none" => snapshot' = snapshot]_vars
  <2> SUFFICES ASSUME [Next]_vars, snapshot # "none"
               PROVE  snapshot' = snapshot
    OBVIOUS
  <2> USE DEF profile
  <2>1. ASSUME NEW w \in Workers, Run(w)
        PROVE  snapshot' = snapshot
    BY <2>1 DEF Run, Claim, Visit, SkipUnreachable, ReopenFails, ReadSnapshot, ClaimReading,
       Publish, PublishRefused, WaitForSnapshot, NoVideo, MakePlan, OpenVideo, ConfirmTrace,
       StartAction, MarkExecuting, BeginExecute, LookOnly, Tap, WatchTap, Reconcile,
       RecordResult, GoReconcile, ExecuteAgain, FallBack, Complete, Defer
  <2>2. ASSUME NEW w \in Workers,
               TakeOver(w) \/ ExitOnLostLease(w) \/ OperationFails(w) \/ Crash(w)
        PROVE  snapshot' = snapshot
    BY <2>2 DEF TakeOver, ExitOnLostLease, OperationFails, Crash
  <2>3. CASE LoseDevice \/ LeaseRunsOut \/ OtherReads \/ OtherPublishes \/ ReaderRunsOut
             \/ Land \/ Recover
    BY <2>3 DEF LoseDevice, LeaseRunsOut, OtherReads, OtherPublishes, ReaderRunsOut, Land, Recover
  <2>4. CASE UNCHANGED vars
    BY <2>4 DEF vars
  <2>. QED
    BY <2>1, <2>2, <2>3, <2>4 DEF Next
<1>. QED
  BY <1>1, PTL DEF Spec, JudgedOnce

\* The worker never asks the ledger for a transition its table refuses,
\* wherever a launch is cut short and another takes the row up: the row takes
\* the course that AssignmentLedger gives every row.
THEOREM CourseKept == Spec => ImplementsCourse
<1>1. Init => Row!CourseInit
  BY DEF Init, Row!CourseInit
<1>. QED
  BY <1>1, RowStep, Invariance, PTL DEF Spec, ImplementsCourse, Row!CourseSpec

\* Nor does it ask the repository for anything its plan is not ready for: what
\* is uncertain is never executed again, by any launch.
THEOREM PlanKept == Spec => ImplementsPlan
<1>1. Init => PlanRow!PlanInit
  BY DEF Init, PlanRow!PlanInit, NewPlan
<1>. QED
  BY <1>1, PlanStep, Invariance, PTL DEF Spec, ImplementsPlan, PlanRow!PlanSpec

=============================================================================
