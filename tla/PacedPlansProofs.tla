--------------------------- MODULE PacedPlansProofs ---------------------------
(***************************************************************************)
(* Theorems about PacedPlans, for every finite set of devices and targets, *)
(* every limit per outcome and every length of the hour.                   *)
(***************************************************************************)
EXTENDS PacedPlans, FiniteSetTheorems, TLAPS

-----------------------------------------------------------------------------
(* The hour, and sets of plans. *)

\* The clock hour of a moment begins at most an hour before it.
LEMMA WindowFacts ==
  ASSUME NEW n \in Times
  PROVE  /\ Window(n) \in Windows /\ Window(n) \in Int
         /\ n - Hour < Window(n) /\ Window(n) <= n
<1>1. n \in Int /\ Hour \in Int /\ Hour > 0
  BY PacingAssumption DEF Times
<1>2. n % Hour \in 0..(Hour - 1)
  BY <1>1
<1>. QED
  BY <1>1, <1>2 DEF Window, Windows

\* A row is one of a device; there are finitely many.
LEMMA RowFacts ==
  /\ \A x \in Rows : Device(x) \in Devices
  /\ IsFiniteSet(Rows)
<1>1. IsFiniteSet(Targets \X Devices)
  BY PacingAssumption, FS_Product
<1>. QED
  BY <1>1 DEF Rows, Device

\* A set of rows is finite, and a row more or less changes its size by one.
LEMMA Sizes ==
  ASSUME NEW S, S \subseteq Rows, NEW x
  PROVE  /\ Cardinality(S) \in Nat
         /\ \A T : T \subseteq S => Cardinality(T) \in Nat /\ Cardinality(T) <= Cardinality(S)
         /\ x \notin S => Cardinality(S \cup {x}) = Cardinality(S) + 1
         /\ x \in S => Cardinality(S \ {x}) = Cardinality(S) - 1
         /\ x \in S => Cardinality(S) > 0
<1>1. IsFiniteSet(S)
  BY RowFacts, FS_Subset
<1>2. Cardinality(S) \in Nat
  BY <1>1, FS_CardinalityType
<1>3. \A T : T \subseteq S => IsFiniteSet(T) /\ Cardinality(T) <= Cardinality(S)
  BY <1>1, FS_Subset
<1>4. \A T : T \subseteq S => Cardinality(T) \in Nat
  BY <1>3, FS_CardinalityType
<1>5. x \notin S => Cardinality(S \cup {x}) = Cardinality(S) + 1
  BY <1>1, FS_AddElement
<1>6. x \in S => Cardinality(S \ {x}) = Cardinality(S) - 1
  BY <1>1, FS_RemoveElement
<1>7. x \in S => Cardinality(S) # 0
  BY <1>1, FS_EmptySet
<1>. QED
  BY <1>2, <1>3, <1>4, <1>5, <1>6, <1>7

\* Two kinds of rows are together no more than all.
LEMMA Disjoint ==
  ASSUME NEW U, U \subseteq Rows, NEW S, S \subseteq U, NEW T, T \subseteq U, S \cap T = {}
  PROVE  Cardinality(S) + Cardinality(T) <= Cardinality(U)
<1>1. IsFiniteSet(U) /\ IsFiniteSet(S) /\ IsFiniteSet(T)
  BY RowFacts, FS_Subset
<1>2. Cardinality(S \cup T) = Cardinality(S) + Cardinality(T) - Cardinality({})
  BY <1>1, FS_Union
<1>3. S \cup T \subseteq U
  OBVIOUS
<1>4. Cardinality(S \cup T) <= Cardinality(U)
  BY <1>1, <1>3, FS_Subset
<1>. QED
  BY <1>1, <1>2, <1>4, FS_EmptySet, FS_CardinalityType

\* Products, which the provers do not order by themselves.
LEMMA ProductsKeepOrder ==
  ASSUME NEW h \in Nat, NEW a \in Nat, NEW b \in Nat, a <= b
  PROVE  h * a \in Nat /\ h * b \in Nat /\ h * a <= h * b
<1>1. h * a \in Nat /\ h * (b - a) \in Nat
  OBVIOUS
<1>2. h * b = h * a + h * (b - a)
  OBVIOUS
<1>. QED
  BY <1>1, <1>2

-----------------------------------------------------------------------------
(* Type correctness. *)

LEMMA InitTypeOK == Init => TypeOK
<1>. SUFFICES ASSUME Init PROVE TypeOK
  OBVIOUS
<1>1. 0 \in Times
  BY PacingAssumption DEF Times
<1>2. Unplanned \in PlanRows
  BY <1>1 DEF Unplanned, PlanRows, PlanStates, Results, Reasons
<1>3. Empty \in BookRows
  BY DEF Empty, BookRows
<1>4. 0..(Hour - 1) \subseteq 0..Capacity
  BY PacingAssumption DEF Capacity
<1>5. tokens \in [Devices -> [Outcomes -> 0..Capacity]]
  BY <1>4 DEF Init
<1>6. at \in [Devices -> Times \cup {Never}]
  BY <1>1 DEF Init
<1>7. plan \in [Rows -> PlanRows]
  BY <1>2 DEF Init
<1>8. books \in [Devices -> [Outcomes -> [Windows -> BookRows]]]
  BY <1>3 DEF Init
<1>9. now \in Times /\ steps \in 0..MaxSteps
  BY <1>1, PacingAssumption DEF Init
<1>. QED
  BY <1>5, <1>6, <1>7, <1>8, <1>9 DEF TypeOK

\* A new plan is a plan.
LEMMA NewPlanType ==
  ASSUME TypeOK, NEW o \in Outcomes \cup {"trace"}, NEW reason \in Reasons,
         NEW w \in Windows \cup {NoWindow}, NEW e \in BOOLEAN
  PROVE  NewPlan(o, reason, w, e) \in PlanRows
BY DEF TypeOK, NewPlan, PlanRows, PlanStates, Results

\* What Counted makes of a book with an uncertain action in it.
LEMMA CountedType ==
  ASSUME NEW b \in BookRows, NEW was \in PlanStates, NEW r \in Results
  PROVE  /\ Counted(b, was, r) \in BookRows
         /\ Counted(b, was, r).reserved = b.reserved
         /\ Counted(b, was, r).confirmed =
              b.confirmed + (IF r = "confirmed" THEN 1 ELSE 0)
         /\ was # "uncertain" =>
              Counted(b, was, r).uncertain = b.uncertain + (IF r = "uncertain" THEN 1 ELSE 0)
         /\ was = "uncertain" /\ b.uncertain > 0 =>
              Counted(b, was, r).uncertain = b.uncertain - (IF r = "uncertain" THEN 0 ELSE 1)
<1>1. b = [reserved |-> b.reserved, confirmed |-> b.confirmed, uncertain |-> b.uncertain]
  BY DEF BookRows
<1>2. b.reserved \in Nat /\ b.confirmed \in Nat /\ b.uncertain \in Nat
  BY DEF BookRows
<1>. DEFINE cleared == IF was = "uncertain" /\ b.uncertain > 0 THEN 1 ELSE 0
<1>3. cleared \in {0, 1} /\ b.uncertain - cleared \in Nat
  BY <1>2
<1>4. CASE r = "confirmed"
  <2>1. Counted(b, was, r) = [b EXCEPT !.confirmed = @ + 1, !.uncertain = @ - cleared]
    BY <1>4 DEF Counted
  <2>2. Counted(b, was, r) =
          [reserved |-> b.reserved, confirmed |-> b.confirmed + 1,
           uncertain |-> b.uncertain - cleared]
    BY <2>1, <1>1
  <2>. QED
    BY <2>2, <1>2, <1>3, <1>4 DEF BookRows
<1>5. CASE r = "uncertain"
  <2>1. Counted(b, was, r) =
          IF was # "uncertain" THEN [b EXCEPT !.uncertain = @ + 1] ELSE b
    BY <1>5 DEF Counted
  <2>2. [b EXCEPT !.uncertain = @ + 1] =
          [reserved |-> b.reserved, confirmed |-> b.confirmed,
           uncertain |-> b.uncertain + 1]
    BY <1>1
  <2>. QED
    BY <2>1, <2>2, <1>2, <1>5 DEF BookRows
<1>6. CASE r \in {"not_applied", "unavailable"}
  <2>1. Counted(b, was, r) = [b EXCEPT !.uncertain = @ - cleared]
    BY <1>6 DEF Counted
  <2>2. Counted(b, was, r) =
          [reserved |-> b.reserved, confirmed |-> b.confirmed,
           uncertain |-> b.uncertain - cleared]
    BY <2>1, <1>1
  <2>. QED
    BY <2>2, <1>2, <1>3, <1>6 DEF BookRows
<1>. QED
  BY <1>4, <1>5, <1>6 DEF Results


-----------------------------------------------------------------------------
(* What a step does to the sets of plans. *)

SetsStay ==
  \A d \in Devices, o \in Outcomes :
    /\ Plans(d, o)' = Plans(d, o)
    /\ \A x \in Plans(d, o) : x \in Rows /\ plan'[x].created = plan[x].created
    /\ \A n : LastHour(d, o, n)' = LastHour(d, o, n)
    /\ \A m, n : Made(d, o, m, n)' = Made(d, o, m, n)
    /\ \A m : GaveBack(d, o, m)' = GaveBack(d, o, m)
    /\ \A w : InWindow(d, o, w)' = InWindow(d, o, w)

\* A row whose columns stay, or that is not for an interaction before and
\* after, moves no set.
LEMMA Unmoved ==
  ASSUME TypeOK, NEW x \in Rows, NEW r, plan' = [plan EXCEPT ![x] = r],
         \/ /\ r.effective = plan[x].effective /\ r.requested = plan[x].requested
            /\ r.reason = plan[x].reason /\ r.created = plan[x].created
            /\ r.window = plan[x].window
            /\ r.state # "none" /\ plan[x].state # "none"
         \/ /\ r.effective = "trace" /\ plan[x].effective = "trace"
            /\ r.reason # "repost_unavailable" /\ plan[x].reason # "repost_unavailable"
  PROVE  SetsStay
<1>. SUFFICES ASSUME NEW d \in Devices, NEW o \in Outcomes
              PROVE  /\ Plans(d, o)' = Plans(d, o)
                     /\ \A y \in Plans(d, o) : y \in Rows /\ plan'[y].created = plan[y].created
                     /\ \A n : LastHour(d, o, n)' = LastHour(d, o, n)
                     /\ \A m, n : Made(d, o, m, n)' = Made(d, o, m, n)
                     /\ \A m : GaveBack(d, o, m)' = GaveBack(d, o, m)
                     /\ \A w : InWindow(d, o, w)' = InWindow(d, o, w)
  BY DEF SetsStay
<1>1. o # "trace"
  BY PacingAssumption
<1>2. plan'[x] = r /\ \A y \in Rows : y # x => plan'[y] = plan[y]
  BY DEF TypeOK
<1>3. Plans(d, o)' = Plans(d, o)
  BY <1>1, <1>2 DEF Plans
<1>4. \A y \in Plans(d, o) : /\ y \in Rows
                              /\ plan'[y].created = plan[y].created
                              /\ plan'[y].window = plan[y].window
  BY <1>1, <1>2 DEF Plans
<1>5. \A n : LastHour(d, o, n)' = LastHour(d, o, n)
  BY <1>3, <1>4 DEF LastHour
<1>6. \A m, n : Made(d, o, m, n)' = Made(d, o, m, n)
  BY <1>3, <1>4 DEF Made
<1>7. \A m : GaveBack(d, o, m)' = GaveBack(d, o, m)
  BY <1>2 DEF GaveBack
<1>8. \A w : InWindow(d, o, w)' = InWindow(d, o, w)
  BY <1>3, <1>4 DEF InWindow
<1>. QED
  BY <1>3, <1>4, <1>5, <1>6, <1>7, <1>8

\* The two ways a plan for an eligible profile comes out, under the invariant.
TracePlanned(x) ==
  /\ plan' = [plan EXCEPT ![x] = NewPlan("trace", "pacing_not_due", NoWindow, TRUE)]
  /\ tokens' = [tokens EXCEPT ![Device(x)] = [q \in Outcomes |-> Refilled(Device(x), q)]]
  /\ books' = books

InteractionPlanned(x, o) ==
  LET d == Device(x)  w == Window(now) IN
  /\ Ready(d, o) /\ books[d][o][w].reserved < Limit[o]
  /\ plan' = [plan EXCEPT ![x] = NewPlan(o, "none", w, TRUE)]
  /\ tokens' = [tokens EXCEPT ![d] =
       [[q \in Outcomes |-> Refilled(d, q)] EXCEPT ![o] = @ - Hour]]
  /\ books' = [books EXCEPT ![d][o][w] = [books[d][o][w] EXCEPT !.reserved = @ + 1]]

\* A new interaction joins the sets of its device and outcome.
LEMMA Joined ==
  ASSUME TypeOK, Fits, NEW x \in Rows, Missing(x), NEW o \in Outcomes,
         InteractionPlanned(x, o), NEW d \in Devices, NEW q \in Outcomes
  PROVE  /\ x \notin Plans(d, q)
         /\ Plans(d, q)' = IF d = Device(x) /\ q = o THEN Plans(d, q) \cup {x} ELSE Plans(d, q)
         /\ \A n : LastHour(d, q, n)' =
              IF (d = Device(x) /\ q = o) /\ n - Hour < now /\ now <= n
              THEN LastHour(d, q, n) \cup {x} ELSE LastHour(d, q, n)
         /\ \A m, n : Made(d, q, m, n)' =
              IF (d = Device(x) /\ q = o) /\ m <= now /\ now <= n
              THEN Made(d, q, m, n) \cup {x} ELSE Made(d, q, m, n)
         /\ \A m : GaveBack(d, q, m)' = GaveBack(d, q, m)
         /\ \A v : InWindow(d, q, v)' =
              IF (d = Device(x) /\ q = o) /\ v = Window(now)
              THEN InWindow(d, q, v) \cup {x} ELSE InWindow(d, q, v)
         /\ \A v, s : s # "planned" => InState(d, q, v, s)' = InState(d, q, v, s)
<1>. DEFINE mine == d = Device(x) /\ q = o
            w == Window(now)
<1>1. q # "trace" /\ plan[x] = Unplanned
  BY PacingAssumption DEF Fits, Missing
<1>2. /\ plan'[x].state = "planned" /\ plan'[x].effective = o /\ plan'[x].created = now
      /\ plan'[x].window = w /\ plan'[x].reason = "none"
      /\ \A y \in Rows : y # x => plan'[y] = plan[y]
  BY DEF TypeOK, NewPlan, InteractionPlanned
<1>3. x \notin Plans(d, q)
  BY <1>1 DEF Plans, Unplanned
<1>4. Plans(d, q)' = IF mine THEN Plans(d, q) \cup {x} ELSE Plans(d, q)
  BY <1>1, <1>2, <1>3 DEF Plans
<1>5. \A y \in Plans(d, q) : y \in Rows /\ y # x /\ plan'[y] = plan[y]
  BY <1>2, <1>3 DEF Plans
<1>6. \A n : LastHour(d, q, n)' =
        IF mine /\ n - Hour < now /\ now <= n
        THEN LastHour(d, q, n) \cup {x} ELSE LastHour(d, q, n)
  BY <1>2, <1>4, <1>5 DEF LastHour
<1>7. \A m, n : Made(d, q, m, n)' =
        IF mine /\ m <= now /\ now <= n
        THEN Made(d, q, m, n) \cup {x} ELSE Made(d, q, m, n)
  BY <1>2, <1>4, <1>5 DEF Made
<1>. HIDE DEF mine, w
<1>8. \A m : GaveBack(d, q, m)' = GaveBack(d, q, m)
  <2>1. plan[x].reason # "repost_unavailable"
    BY <1>1 DEF Unplanned
  <2>2. plan'[x].reason # "repost_unavailable"
    BY <1>2
  <2>. QED
    BY <1>2, <2>1, <2>2 DEF GaveBack
<1>9. \A v : InWindow(d, q, v)' =
        IF mine /\ v = w THEN InWindow(d, q, v) \cup {x} ELSE InWindow(d, q, v)
  BY <1>2, <1>4, <1>5 DEF InWindow
<1>10. \A v, s : s # "planned" => InState(d, q, v, s)' = InState(d, q, v, s)
  <2>1. \A v : x \notin InWindow(d, q, v) /\ InWindow(d, q, v) \subseteq Plans(d, q)
    BY <1>3 DEF InWindow
  <2>. SUFFICES ASSUME NEW v, NEW s, s # "planned"
                PROVE  InState(d, q, v, s)' = InState(d, q, v, s)
    OBVIOUS
  <2>2. \A y \in InWindow(d, q, v) : plan'[y] = plan[y]
    BY <1>5, <2>1
  <2>3. x \in InWindow(d, q, v)' => plan'[x].state # s
    BY <1>2
  <2>. QED
    BY <1>9, <2>1, <2>2, <2>3 DEF InState
<1>. USE DEF mine, w
<1>. QED
  BY <1>3, <1>4, <1>6, <1>7, <1>8, <1>9, <1>10

\* A reposting that proved impossible leaves them and gives its token back.
LEMMA Left ==
  ASSUME TypeOK, Fits, NEW x \in Rows, FallBack(x), NEW d \in Devices, NEW q \in Outcomes
  PROVE  LET mine == d = Device(x) /\ q = "repost" IN
         /\ x \in Plans(Device(x), "repost")
         /\ Plans(d, q)' = IF mine THEN Plans(d, q) \ {x} ELSE Plans(d, q)
         /\ \A n : LastHour(d, q, n)' \subseteq LastHour(d, q, n)
         /\ \A m, n : Made(d, q, m, n)' =
              IF mine THEN Made(d, q, m, n) \ {x} ELSE Made(d, q, m, n)
         /\ \A m : GaveBack(d, q, m)' =
              IF mine /\ plan[x].created < m
              THEN GaveBack(d, q, m) \cup {x} ELSE GaveBack(d, q, m)
         /\ \A m : x \notin GaveBack(d, q, m)
         /\ \A v : InWindow(d, q, v)' =
              IF mine /\ v = plan[x].window THEN InWindow(d, q, v) \ {x} ELSE InWindow(d, q, v)
         /\ \A v, s : s # "planned" => InState(d, q, v, s)' = InState(d, q, v, s)
<1>. DEFINE mine == d = Device(x) /\ q = "repost"
<1>1. q # "trace"
  BY PacingAssumption
<1>2. /\ plan[x].state = "planned" /\ plan[x].effective = "repost"
      /\ plan'[x].effective = "trace" /\ plan'[x].reason = "repost_unavailable"
      /\ plan'[x].created = plan[x].created /\ plan'[x].requested = plan[x].requested
      /\ \A y \in Rows : y # x => plan'[y] = plan[y]
  BY DEF TypeOK, PlanRows, FallBack
<1>3. x \in Plans(Device(x), "repost")
  BY <1>2 DEF Plans
<1>4. Plans(d, q)' = IF mine THEN Plans(d, q) \ {x} ELSE Plans(d, q)
  BY <1>1, <1>2 DEF Plans
<1>5. \A y \in Plans(d, q) : y # x => y \in Rows /\ plan'[y] = plan[y]
  BY <1>2 DEF Plans
<1>6. ~mine => x \notin Plans(d, q)
  BY <1>2 DEF Plans
<1>7. \A n : LastHour(d, q, n)' \subseteq LastHour(d, q, n)
  BY <1>4, <1>5, <1>6 DEF LastHour
<1>8. \A m, n : Made(d, q, m, n)' =
        IF mine THEN Made(d, q, m, n) \ {x} ELSE Made(d, q, m, n)
  BY <1>4, <1>5, <1>6 DEF Made
<1>9. plan[x].reason = "none" /\ plan[x].requested = "repost"
  BY <1>2 DEF Fits, Related
<1>10. \A m : x \notin GaveBack(d, q, m)
  BY <1>9 DEF GaveBack
<1>11. \A m : GaveBack(d, q, m)' =
         IF mine /\ plan[x].created < m
         THEN GaveBack(d, q, m) \cup {x} ELSE GaveBack(d, q, m)
  BY <1>2, <1>9 DEF GaveBack
<1>12. \A v : InWindow(d, q, v)' =
         IF mine /\ v = plan[x].window THEN InWindow(d, q, v) \ {x} ELSE InWindow(d, q, v)
  BY <1>4, <1>5, <1>6 DEF InWindow
<1>13. \A v, s : s # "planned" => InState(d, q, v, s)' = InState(d, q, v, s)
  BY <1>2, <1>4, <1>5, <1>6 DEF InState, InWindow
<1>. QED
  BY <1>3, <1>4, <1>7, <1>8, <1>10, <1>11, <1>12, <1>13


-----------------------------------------------------------------------------
(* What the actions find. *)

\* The constants and variables, one at a time.
LEMMA TypeFacts ==
  ASSUME TypeOK, NEW d \in Devices, NEW o \in Outcomes
  PROVE  /\ tokens[d][o] \in 0..Capacity /\ at[d] \in Int /\ -1 <= at[d] /\ now \in Nat
         /\ at[d] # Never => at[d] \in Nat
         /\ Limit[o] \in Nat /\ Hour \in Nat /\ Hour > 0 /\ Capacity \in Nat
         /\ \A x \in Rows : plan[x].created \in Nat /\ plan[x] \in PlanRows
         /\ \A w \in Windows : books[d][o][w] \in BookRows
         /\ Times \subseteq Nat
BY PacingAssumption DEF TypeOK, Times, Never, PlanRows, Capacity

\* An interaction is as it was asked for, in the clock hour it was planned in.
LEMMA Interaction ==
  ASSUME TypeOK, Fits, NEW x \in Rows, plan[x].effective # "trace"
  PROVE  /\ plan[x].effective \in Outcomes /\ plan[x].requested = plan[x].effective
         /\ plan[x].window \in Windows /\ plan[x].window = Window(plan[x].created)
         /\ plan[x].reason = "none" /\ plan[x].eligible
         /\ x \in Plans(Device(x), plan[x].effective)
         /\ x \in InWindow(Device(x), plan[x].effective, plan[x].window)
<1>1. plan[x] \in PlanRows
  BY DEF TypeOK
<1>2. plan[x].effective \in Outcomes /\ plan[x].created \in Times
  BY <1>1 DEF PlanRows
<1>3. plan[x].state # "none"
  BY DEF Fits, Unplanned
<1>4. Related(plan[x])
  BY <1>3 DEF Fits
<1>5. /\ plan[x].requested = plan[x].effective /\ plan[x].reason = "none" /\ plan[x].eligible
      /\ plan[x].window = Window(plan[x].created)
  BY <1>4 DEF Related
<1>. QED
  BY <1>2, <1>3, <1>5, WindowFacts DEF Plans, InWindow

\* A bucket never runs over, and is never fuller than what flowed in.
LEMMA RefilledFacts ==
  ASSUME TypeOK, NEW d \in Devices, NEW o \in Outcomes, CaughtUp(d)
  PROVE  /\ Refilled(d, o) \in 0..Capacity
         /\ at[d] # Never => /\ (now - at[d]) * Limit[o] \in Nat
                             /\ Refilled(d, o) <= tokens[d][o] + (now - at[d]) * Limit[o]
<1>. DEFINE inflow == (now - at[d]) * Limit[o]
<1>1. at[d] # Never => inflow \in Nat
  <2>1. at[d] # Never => now - at[d] \in Nat
    BY TypeFacts DEF CaughtUp
  <2>. QED
    BY <2>1, TypeFacts
<1>. HIDE DEF inflow
<1>2. Refilled(d, o) = IF at[d] = Never THEN tokens[d][o]
                       ELSE Least(Capacity, tokens[d][o] + inflow)
  BY DEF Refilled, inflow
<1>3. Refilled(d, o) \in 0..Capacity /\ (at[d] # Never => Refilled(d, o) <= tokens[d][o] + inflow)
  BY <1>1, <1>2, TypeFacts DEF Least
<1>. QED
  BY <1>1, <1>3 DEF inflow

\* What is planned in a clock hour so far was planned in the hour up to now,
\* once the clock has caught up.
LEMMA HourCovers ==
  ASSUME TypeOK, Fits, Dated, NEW d \in Devices, NEW o \in Outcomes, CaughtUp(d)
  PROVE  /\ InWindow(d, o, Window(now)) \subseteq LastHour(d, o, now)
         /\ \A x \in Plans(d, o) : plan[x].created <= now
<1>1. o # "trace" /\ now \in Times
  BY PacingAssumption DEF TypeOK
<1>2. ASSUME NEW x \in Plans(d, o)
      PROVE  x \in Rows /\ plan[x].effective # "trace" /\ Device(x) = d
  BY <1>1 DEF Plans
<1>3. ASSUME NEW x \in Plans(d, o)
      PROVE  plan[x].created <= now /\ plan[x].window = Window(plan[x].created)
  <2>1. plan[x].created <= at[d]
    BY <1>2 DEF Dated
  <2>2. plan[x].created \in Nat /\ at[d] \in Int /\ now \in Nat
    BY <1>2, TypeFacts
  <2>. QED
    BY <1>2, <2>1, <2>2, Interaction DEF CaughtUp
<1>4. ASSUME NEW x \in Plans(d, o), plan[x].window = Window(now)
      PROVE  now - Hour < plan[x].created
  <2>1. plan[x].created \in Times /\ Hour \in Nat
    BY <1>2, PacingAssumption DEF TypeOK, PlanRows
  <2>2. Window(now) = Window(plan[x].created)
    BY <1>3, <1>4
  <2>3. now - Hour < Window(now) /\ Window(now) \in Int
    BY <1>1, WindowFacts
  <2>4. Window(plan[x].created) <= plan[x].created
    BY <2>1, WindowFacts
  <2>. QED
    BY <1>1, <2>1, <2>2, <2>3, <2>4 DEF Times
<1>. QED
  BY <1>3, <1>4 DEF InWindow, LastHour

\* An outcome the rolling hour lets pass is not refused by the clock hour.
LEMMA NotRefused ==
  ASSUME TypeOK, Fits, Dated, BooksAgree, NEW d \in Devices, NEW o \in Outcomes,
         CaughtUp(d), Ready(d, o)
  PROVE  /\ Window(now) \in Windows
         /\ books[d][o][Window(now)].reserved < Limit[o]
<1>1. now \in Times
  BY DEF TypeOK
<1>2. Window(now) \in Windows
  BY <1>1, WindowFacts
<1>3. books[d][o][Window(now)].reserved = Cardinality(InWindow(d, o, Window(now)))
  BY <1>2 DEF BooksAgree, Overrun
<1>4. LastHour(d, o, now) \subseteq Rows
  BY DEF LastHour, Plans
<1>5. /\ Cardinality(InWindow(d, o, Window(now))) <= Cardinality(LastHour(d, o, now))
      /\ Cardinality(InWindow(d, o, Window(now))) \in Nat
      /\ Cardinality(LastHour(d, o, now)) \in Nat
  BY <1>4, HourCovers, Sizes
<1>. QED
  BY <1>2, <1>3, <1>5, TypeFacts DEF Ready, Used

\* Planning for an eligible profile either finds no outcome ready or makes an
\* interaction of one.
LEMMA PacedCases ==
  ASSUME TypeOK, Fits, Dated, BooksAgree, NEW x \in Rows, PlanPaced(x)
  PROVE  /\ Device(x) \in Devices /\ Missing(x) /\ CaughtUp(Device(x))
         /\ Window(now) \in Windows
         /\ at' = [at EXCEPT ![Device(x)] = now] /\ now' = now /\ steps' = steps
         /\ TracePlanned(x) \/ \E o \in Outcomes : InteractionPlanned(x, o)
<1>1. Device(x) \in Devices
  BY RowFacts
<1>2. /\ Missing(x) /\ CaughtUp(Device(x)) /\ at' = [at EXCEPT ![Device(x)] = now]
      /\ now' = now /\ steps' = steps
  BY DEF PlanPaced
<1>3. Window(now) \in Windows
  BY WindowFacts DEF TypeOK
<1>4. \A o \in Outcomes :
        Ready(Device(x), o) => books[Device(x)][o][Window(now)].reserved < Limit[o]
  BY <1>1, <1>2, NotRefused
<1>5. TracePlanned(x) \/ \E o \in Outcomes : InteractionPlanned(x, o)
  BY <1>4 DEF PlanPaced, Book, TracePlanned, InteractionPlanned
<1>. QED
  BY <1>1, <1>2, <1>3, <1>5

-----------------------------------------------------------------------------
(* Steps that move no set of plans. *)

\* A row without a plan gets one that is for no interaction.
LEMMA TracesStay ==
  ASSUME TypeOK, Fits, NEW x \in Rows, Missing(x), NEW reason, NEW e,
         reason # "repost_unavailable",
         plan' = [plan EXCEPT ![x] = NewPlan("trace", reason, NoWindow, e)]
  PROVE  SetsStay
<1>1. plan[x].effective = "trace" /\ plan[x].reason = "none"
  BY DEF Missing, Fits, Unplanned
<1>2. /\ NewPlan("trace", reason, NoWindow, e).effective = "trace"
      /\ NewPlan("trace", reason, NoWindow, e).reason = reason
  BY DEF NewPlan
<1>. QED
  BY <1>1, <1>2, Unmoved

\* A plan goes on to another state, its columns as they are.
LEMMA StatesStay ==
  ASSUME TypeOK, NEW x \in Rows, plan[x].state # "none",
         \/ \E s \in PlanStates \ {"none"} : plan' = [plan EXCEPT ![x].state = s]
         \/ \E s \in PlanStates \ {"none"}, r \in Results :
              plan' = [plan EXCEPT ![x].last = r, ![x].state = s]
  PROVE  SetsStay
<1>1. plan[x] \in PlanRows
  BY DEF TypeOK
<1>2. ASSUME NEW s \in PlanStates \ {"none"}, plan' = [plan EXCEPT ![x].state = s]
      PROVE  SetsStay
  <2>. DEFINE row == [plan[x] EXCEPT !.state = s]
  <2>1. plan' = [plan EXCEPT ![x] = row]
    BY <1>2
  <2>2. /\ row.effective = plan[x].effective /\ row.requested = plan[x].requested
        /\ row.reason = plan[x].reason /\ row.created = plan[x].created
        /\ row.window = plan[x].window /\ row.state # "none"
    BY <1>1 DEF PlanRows
  <2>. QED
    BY <2>1, <2>2, Unmoved
<1>3. ASSUME NEW s \in PlanStates \ {"none"}, NEW r \in Results,
             plan' = [plan EXCEPT ![x].last = r, ![x].state = s]
      PROVE  SetsStay
  <2>. DEFINE row == [plan[x] EXCEPT !.last = r, !.state = s]
  <2>1. plan' = [plan EXCEPT ![x] = row]
    BY <1>1, <1>3 DEF TypeOK
  <2>2. /\ row.effective = plan[x].effective /\ row.requested = plan[x].requested
        /\ row.reason = plan[x].reason /\ row.created = plan[x].created
        /\ row.window = plan[x].window /\ row.state # "none"
    BY <1>1 DEF PlanRows
  <2>. QED
    BY <2>1, <2>2, Unmoved
<1>. QED
  BY <1>2, <1>3

\* So does everything when the plans do.
LEMMA PlansStay == plan' = plan => SetsStay
BY DEF SetsStay, Plans, LastHour, Made, GaveBack, InWindow


\* The actions that move no set.
LEMMA QuietStay ==
  ASSUME TypeOK, Fits, NEW x \in Rows,
         \/ PlanIneligible(x) \/ (Missing(x) /\ TracePlanned(x))
         \/ Execute(x) \/ ConfirmTrace(x) \/ \E r \in Results : Record(x, r)
  PROVE  SetsStay
<1>1. CASE PlanIneligible(x)
  BY <1>1, TracesStay DEF PlanIneligible
<1>2. CASE Missing(x) /\ TracePlanned(x)
  BY <1>2, TracesStay DEF TracePlanned
<1>3. CASE Execute(x)
  BY <1>3, StatesStay DEF Execute, PlanStates
<1>4. CASE ConfirmTrace(x)
  BY <1>4, StatesStay DEF ConfirmTrace, PlanStates
<1>5. ASSUME NEW r \in Results, Record(x, r)
      PROVE  SetsStay
  <2>1. plan[x].state # "none"
    BY <1>5 DEF Record
  <2>2. (IF r \in {"confirmed", "uncertain"} THEN r ELSE "planned") \in PlanStates \ {"none"}
    BY DEF PlanStates
  <2>3. plan' = [plan EXCEPT ![x].last = r,
                  ![x].state = IF r \in {"confirmed", "uncertain"} THEN r ELSE "planned"]
    BY <1>5 DEF Record
  <2>. QED
    BY <2>1, <2>2, <2>3, StatesStay
<1>. QED
  BY <1>1, <1>2, <1>3, <1>4, <1>5

-----------------------------------------------------------------------------
(* Every part of the invariant is kept. *)

\* Types.
LEMMA TypeStep ==
  ASSUME TypeOK, Fits, Dated, BooksAgree, Next
  PROVE  TypeOK'
<1>1. CASE Tick
  BY <1>1, PacingAssumption DEF Tick, TypeOK, Times
<1>2. CASE SetBack
  BY <1>2, PacingAssumption DEF SetBack, TypeOK, Times
<1>3. ASSUME NEW x \in Rows, PlanIneligible(x)
      PROVE  TypeOK'
  <2>1. NewPlan("trace", "profile_ineligible", NoWindow, FALSE) \in PlanRows
    BY NewPlanType DEF Reasons
  <2>. QED
    BY <1>3, <2>1 DEF PlanIneligible, TypeOK
<1>4. ASSUME NEW x \in Rows, PlanPaced(x)
      PROVE  TypeOK'
  <2>. DEFINE d == Device(x)
              w == Window(now)
  <2>1. /\ d \in Devices /\ w \in Windows /\ at' = [at EXCEPT ![d] = now]
        /\ now' = now /\ steps' = steps
        /\ TracePlanned(x) \/ \E o \in Outcomes : InteractionPlanned(x, o)
        /\ CaughtUp(d)
    BY <1>4, PacedCases
  <2>2. \A o \in Outcomes : Refilled(d, o) \in 0..Capacity
    BY <2>1, RefilledFacts
  <2>3. at' \in [Devices -> Times \cup {Never}] /\ now' \in Times /\ steps' \in 0..MaxSteps
    BY <2>1 DEF TypeOK
  <2>4. CASE TracePlanned(x)
    <3>1. NewPlan("trace", "pacing_not_due", NoWindow, TRUE) \in PlanRows
      BY NewPlanType DEF Reasons
    <3>2. plan' \in [Rows -> PlanRows]
      BY <2>4, <3>1 DEF TracePlanned, TypeOK
    <3>3. tokens' \in [Devices -> [Outcomes -> 0..Capacity]]
      BY <2>2, <2>4 DEF TracePlanned, TypeOK
    <3>. QED
      BY <2>3, <2>4, <3>2, <3>3 DEF TracePlanned, TypeOK
  <2>5. ASSUME NEW o \in Outcomes, InteractionPlanned(x, o)
        PROVE  TypeOK'
    <3>1. NewPlan(o, "none", w, TRUE) \in PlanRows
      BY <2>1, NewPlanType DEF Reasons
    <3>2. plan' \in [Rows -> PlanRows]
      BY <2>5, <3>1 DEF InteractionPlanned, TypeOK
    <3>3. Refilled(d, o) - Hour \in 0..Capacity
      BY <2>1, <2>2, <2>5, TypeFacts DEF InteractionPlanned, Ready
    <3>4. [[q \in Outcomes |-> Refilled(d, q)] EXCEPT ![o] = @ - Hour] \in [Outcomes -> 0..Capacity]
      BY <2>2, <3>3
    <3>5. tokens' \in [Devices -> [Outcomes -> 0..Capacity]]
      BY <2>1, <2>5, <3>4 DEF InteractionPlanned, TypeOK
    <3>6. [books[d][o][w] EXCEPT !.reserved = @ + 1] \in BookRows
      BY <2>1, TypeFacts DEF BookRows
    <3>7. books' \in [Devices -> [Outcomes -> [Windows -> BookRows]]]
      BY <2>1, <2>5, <3>6 DEF InteractionPlanned, TypeOK
    <3>. QED
      BY <2>3, <3>2, <3>5, <3>7 DEF TypeOK
  <2>. QED
    BY <2>1, <2>4, <2>5
<1>5. ASSUME NEW x \in Rows, Execute(x)
      PROVE  TypeOK'
  <2>1. [plan[x] EXCEPT !.state = "executing"] \in PlanRows
    BY DEF TypeOK, PlanRows, PlanStates
  <2>. QED
    BY <1>5, <2>1 DEF Execute, TypeOK
<1>6. ASSUME NEW x \in Rows, ConfirmTrace(x)
      PROVE  TypeOK'
  <2>1. [plan[x] EXCEPT !.state = "confirmed"] \in PlanRows
    BY DEF TypeOK, PlanRows, PlanStates
  <2>. QED
    BY <1>6, <2>1 DEF ConfirmTrace, TypeOK
<1>7. ASSUME NEW x \in Rows, FallBack(x)
      PROVE  TypeOK'
  <2>. DEFINE d == Device(x)
              w == plan[x].window
  <2>1. d \in Devices /\ w \in Windows /\ "repost" \in Outcomes
    BY <1>7, RowFacts, Interaction DEF FallBack
  <2>2. [books[d]["repost"][w] EXCEPT !.reserved = @ - 1] \in BookRows
    <3>1. books[d]["repost"][w] \in BookRows
      BY <2>1, TypeFacts
    <3>2. books[d]["repost"][w].reserved > 0
      BY <1>7 DEF FallBack
    <3>. QED
      BY <3>1, <3>2 DEF BookRows
  <2>3. books' \in [Devices -> [Outcomes -> [Windows -> BookRows]]]
    BY <1>7, <2>1, <2>2 DEF FallBack, Book, TypeOK
  <2>4. Returned(tokens[d]["repost"]) \in 0..Capacity
    BY <2>1, TypeFacts DEF Returned, Least
  <2>5. tokens' \in [Devices -> [Outcomes -> 0..Capacity]]
    BY <1>7, <2>1, <2>4 DEF FallBack, TypeOK
  <2>6. [plan[x] EXCEPT !.effective = "trace", !.window = NoWindow,
                        !.reason = "repost_unavailable", !.state = "confirmed"] \in PlanRows
    BY DEF TypeOK, PlanRows, PlanStates, Reasons
  <2>7. plan' \in [Rows -> PlanRows]
    BY <1>7, <2>6 DEF FallBack, TypeOK
  <2>. QED
    BY <1>7, <2>3, <2>5, <2>7 DEF FallBack, TypeOK
<1>8. ASSUME NEW x \in Rows, NEW r \in Results, Record(x, r)
      PROVE  TypeOK'
  <2>. DEFINE d == Device(x)
              o == plan[x].effective
              w == plan[x].window
  <2>1. plan[x] \in PlanRows
    BY DEF TypeOK
  <2>2. o # "trace"
    BY <1>8 DEF Record, Fits
  <2>3. d \in Devices /\ w \in Windows /\ o \in Outcomes
    BY <2>2, RowFacts, Interaction
  <2>4. Counted(books[d][o][w], plan[x].state, r) \in BookRows
    BY <2>1, <2>3, TypeFacts, CountedType DEF PlanRows
  <2>5. books' \in [Devices -> [Outcomes -> [Windows -> BookRows]]]
    BY <1>8, <2>3, <2>4 DEF Record, Book, TypeOK
  <2>6. (IF r \in {"confirmed", "uncertain"} THEN r ELSE "planned") \in PlanStates
    BY DEF PlanStates
  <2>7. [plan[x] EXCEPT !.last = r,
                        !.state = IF r \in {"confirmed", "uncertain"} THEN r ELSE "planned"]
          \in PlanRows
    BY <2>1, <2>6 DEF PlanRows
  <2>8. plan' \in [Rows -> PlanRows]
    BY <1>8, <2>7 DEF Record, TypeOK
  <2>. QED
    BY <1>8, <2>5, <2>8 DEF Record, TypeOK
<1>. QED
  BY <1>1, <1>2, <1>3, <1>4, <1>5, <1>6, <1>7, <1>8 DEF Next

\* Plans fit their columns.
LEMMA FitsStep ==
  ASSUME TypeOK, Fits, Dated, BooksAgree, Next
  PROVE  Fits'
<1>. DEFINE Fit(p) == /\ p.state = "none" => p = Unplanned
                      /\ p.state # "none" => Related(p)
                      /\ p.state \in {"executing", "uncertain"} => p.effective # "trace"
<1>1. \A x \in Rows : Fit(plan[x])
  BY DEF Fits
<1>2. SUFFICES \A x \in Rows : Fit(plan'[x])
  BY DEF Fits, Unplanned, Related, Window
<1>3. ASSUME NEW x \in Rows, NEW r, plan' = [plan EXCEPT ![x] = r], Fit(r)
      PROVE  \A y \in Rows : Fit(plan'[y])
  <2>1. \A y \in Rows : plan'[y] = IF y = x THEN r ELSE plan[y]
    BY <1>3 DEF TypeOK
  <2>. HIDE DEF Fit
  <2>. QED
    BY <1>1, <1>3, <2>1
<1>4. CASE plan' = plan
  BY <1>1, <1>4
<1>5. ASSUME NEW x \in Rows, PlanIneligible(x)
      PROVE  \A y \in Rows : Fit(plan'[y])
  <2>1. Fit(NewPlan("trace", "profile_ineligible", NoWindow, FALSE))
    BY DEF NewPlan, Related
  <2>. QED
    BY <1>3, <1>5, <2>1 DEF PlanIneligible
<1>6. ASSUME NEW x \in Rows, PlanPaced(x)
      PROVE  \A y \in Rows : Fit(plan'[y])
  <2>1. Fit(NewPlan("trace", "pacing_not_due", NoWindow, TRUE))
    BY DEF NewPlan, Related
  <2>2. \A o \in Outcomes : Fit(NewPlan(o, "none", Window(now), TRUE))
    BY PacingAssumption DEF NewPlan, Related
  <2>3. TracePlanned(x) \/ \E o \in Outcomes : InteractionPlanned(x, o)
    BY <1>6, PacedCases
  <2>. HIDE DEF Fit
  <2>4. CASE TracePlanned(x)
    BY <1>3, <2>1, <2>4 DEF TracePlanned
  <2>5. ASSUME NEW o \in Outcomes, InteractionPlanned(x, o)
        PROVE  \A y \in Rows : Fit(plan'[y])
    BY <1>3, <2>2, <2>5 DEF InteractionPlanned
  <2>. QED
    BY <2>3, <2>4, <2>5
<1>7. ASSUME NEW x \in Rows, Execute(x)
      PROVE  \A y \in Rows : Fit(plan'[y])
  <2>1. plan[x] \in PlanRows /\ Related(plan[x]) /\ plan[x].effective # "trace"
    BY <1>1, <1>7 DEF Execute, TypeOK
  <2>2. Fit([plan[x] EXCEPT !.state = "executing"])
    BY <2>1 DEF Related, PlanRows
  <2>. QED
    BY <1>3, <1>7, <2>2 DEF Execute
<1>8. ASSUME NEW x \in Rows, ConfirmTrace(x)
      PROVE  \A y \in Rows : Fit(plan'[y])
  <2>1. plan[x] \in PlanRows /\ Related(plan[x])
    BY <1>1, <1>8 DEF ConfirmTrace, TypeOK
  <2>2. Fit([plan[x] EXCEPT !.state = "confirmed"])
    BY <2>1 DEF Related, PlanRows
  <2>. QED
    BY <1>3, <1>8, <2>2 DEF ConfirmTrace
<1>9. ASSUME NEW x \in Rows, FallBack(x)
      PROVE  \A y \in Rows : Fit(plan'[y])
  <2>1. plan[x] \in PlanRows /\ plan[x].effective = "repost"
    BY <1>9 DEF FallBack, TypeOK
  <2>2. plan[x].requested = "repost" /\ plan[x].eligible
    BY <2>1, Interaction
  <2>. DEFINE row == [plan[x] EXCEPT !.effective = "trace", !.window = NoWindow,
                                     !.reason = "repost_unavailable", !.state = "confirmed"]
  <2>3. /\ row.effective = "trace" /\ row.window = NoWindow /\ row.state = "confirmed"
        /\ row.reason = "repost_unavailable" /\ row.requested = "repost" /\ row.eligible
    BY <2>1, <2>2 DEF PlanRows
  <2>4. Fit(row)
    BY <2>3 DEF Related
  <2>5. plan' = [plan EXCEPT ![x] = row]
    BY <1>9 DEF FallBack, TypeOK
  <2>. QED
    BY <1>3, <2>4, <2>5
<1>10. ASSUME NEW x \in Rows, NEW r \in Results, Record(x, r)
       PROVE  \A y \in Rows : Fit(plan'[y])
  <2>1. plan[x] \in PlanRows /\ Related(plan[x]) /\ plan[x].effective # "trace"
    BY <1>1, <1>10 DEF Record, TypeOK
  <2>. DEFINE s == IF r \in {"confirmed", "uncertain"} THEN r ELSE "planned"
              row == [plan[x] EXCEPT !.last = r, !.state = s]
  <2>2. /\ row.effective = plan[x].effective /\ row.requested = plan[x].requested
        /\ row.reason = plan[x].reason /\ row.created = plan[x].created
        /\ row.window = plan[x].window /\ row.eligible = plan[x].eligible
        /\ row.state = s /\ s # "none"
    BY <2>1 DEF PlanRows
  <2>3. Fit(row)
    BY <2>1, <2>2 DEF Related
  <2>4. plan' = [plan EXCEPT ![x] = row]
    BY <1>10 DEF Record, TypeOK
  <2>. QED
    BY <1>3, <2>3, <2>4
<1>. QED
  BY <1>4, <1>5, <1>6, <1>7, <1>8, <1>9, <1>10 DEF Next, Tick, SetBack

\* Interactions are no younger than their bucket: a new one is as old, and a
\* bucket only goes forward.
LEMMA DatedStep ==
  ASSUME TypeOK, Fits, Dated, BooksAgree, Next
  PROVE  Dated'
<1>2. CASE Tick \/ SetBack
  BY <1>2 DEF Tick, SetBack, Dated
<1>3. ASSUME NEW x \in Rows, PlanIneligible(x)
      PROVE  Dated'
  <2>1. plan'[x].effective = "trace" /\ \A y \in Rows : y # x => plan'[y] = plan[y]
    BY <1>3 DEF PlanIneligible, NewPlan, TypeOK
  <2>. QED
    BY <1>3, <2>1 DEF PlanIneligible, Dated
<1>4. ASSUME NEW x \in Rows, PlanPaced(x)
      PROVE  Dated'
  <2>. DEFINE d == Device(x)
  <2>1. /\ d \in Devices /\ CaughtUp(d) /\ at' = [at EXCEPT ![d] = now]
        /\ TracePlanned(x) \/ \E o \in Outcomes : InteractionPlanned(x, o)
    BY <1>4, PacedCases
  <2>. DEFINE New(r) == plan' = [plan EXCEPT ![x] = r] /\ r.created = now
  <2>2. \E r : New(r)
    <3>1. CASE TracePlanned(x)
      <4>1. New(NewPlan("trace", "pacing_not_due", NoWindow, TRUE))
        BY <3>1 DEF TracePlanned, NewPlan
      <4>. QED
        BY <4>1
    <3>2. ASSUME NEW o \in Outcomes, InteractionPlanned(x, o)
          PROVE  \E r : New(r)
      <4>1. New(NewPlan(o, "none", Window(now), TRUE))
        BY <3>2 DEF InteractionPlanned, NewPlan
      <4>. QED
        BY <4>1
    <3>. QED
      BY <2>1, <3>1, <3>2
  <2>3. now \in Int /\ at[d] \in Int /\ \A y \in Rows : plan[y].created \in Int
    BY <2>1, PacingAssumption DEF TypeOK, Times, Never, PlanRows
  <2>4. \A y \in Rows : y # x => plan'[y] = plan[y]
    BY <2>2
  <2>5. plan'[x].created = now
    BY <2>2 DEF TypeOK
  <2>6. \A y \in Rows : at'[Device(y)] = IF Device(y) = d THEN now ELSE at[Device(y)]
    BY <2>1, RowFacts DEF TypeOK
  <2>. QED
    BY <2>1, <2>3, <2>4, <2>5, <2>6 DEF Dated, CaughtUp
<1>5. ASSUME NEW x \in Rows, Execute(x) \/ ConfirmTrace(x)
      PROVE  Dated'
  BY <1>5 DEF Execute, ConfirmTrace, Dated, TypeOK, PlanRows
<1>6. ASSUME NEW x \in Rows, FallBack(x)
      PROVE  Dated'
  BY <1>6 DEF FallBack, Dated, TypeOK, PlanRows
<1>7. ASSUME NEW x \in Rows, NEW r \in Results, Record(x, r)
      PROVE  Dated'
  BY <1>7 DEF Record, Dated, TypeOK, PlanRows
<1>. QED
  BY <1>2, <1>3, <1>4, <1>5, <1>6, <1>7 DEF Next

\* The books agree with the plans: planning takes a place of the hour, which
\* there was; a result moves a plan in the books as it does in the rows; a
\* reposting given up gives its place back.
LEMMA BooksStep ==
  ASSUME TypeOK, TypeOK', Fits, Dated, BooksAgree, Next
  PROVE  BooksAgree'
<1>. DEFINE Agrees(b, d, o, w) ==
       /\ b.reserved <= Limit[o] /\ b.reserved = Cardinality(InWindow(d, o, w))
       /\ b.confirmed = Cardinality(InState(d, o, w, "confirmed"))
       /\ b.uncertain = Cardinality(InState(d, o, w, "uncertain"))
<1>1. ASSUME NEW d \in Devices, NEW o \in Outcomes, NEW w \in Windows
      PROVE  /\ books[d][o][w] \in BookRows /\ books[d][o][w]' \in BookRows
             /\ Limit[o] \in Nat
             /\ Agrees(books[d][o][w], d, o, w)
             /\ Agrees(books[d][o][w], d, o, w)' => ~Overrun(d, o, w)'
             /\ InWindow(d, o, w) \subseteq Rows /\ InWindow(d, o, w)' \subseteq Rows
             /\ \A s : InState(d, o, w, s) \subseteq InWindow(d, o, w)
  <2>1. books[d][o][w] \in BookRows /\ books[d][o][w]' \in BookRows /\ Limit[o] \in Nat
    BY PacingAssumption DEF TypeOK
  <2>2. ~Overrun(d, o, w)
    BY DEF BooksAgree
  <2>3. Agrees(books[d][o][w], d, o, w)
    BY <2>1, <2>2 DEF Overrun, BookRows
  <2>4. Agrees(books[d][o][w], d, o, w)' => ~Overrun(d, o, w)'
    <3>1. (Cardinality(InState(d, o, w, "confirmed")) + Cardinality(InState(d, o, w, "uncertain"))
             <= Cardinality(InWindow(d, o, w)))'
      <4>1. /\ InWindow(d, o, w)' \subseteq Rows
            /\ InState(d, o, w, "confirmed")' \subseteq InWindow(d, o, w)'
            /\ InState(d, o, w, "uncertain")' \subseteq InWindow(d, o, w)'
            /\ InState(d, o, w, "confirmed")' \cap InState(d, o, w, "uncertain")' = {}
        BY DEF InState, InWindow, Plans
      <4>. QED
        BY <4>1, Disjoint
    <3>. QED
      BY <2>1, <3>1 DEF Overrun, BookRows
  <2>5. InWindow(d, o, w) \subseteq Rows /\ InWindow(d, o, w)' \subseteq Rows
    BY DEF InWindow, Plans
  <2>6. \A s : InState(d, o, w, s) \subseteq InWindow(d, o, w)
    BY DEF InState
  <2>. QED
    BY <2>1, <2>3, <2>4, <2>5, <2>6
<1>2. SUFFICES ASSUME NEW d \in Devices, NEW o \in Outcomes, NEW w \in Windows
               PROVE  Agrees(books[d][o][w], d, o, w)'
  BY <1>1 DEF BooksAgree
<1>3. ASSUME books[d][o][w]' = books[d][o][w], InWindow(d, o, w)' = InWindow(d, o, w),
             InState(d, o, w, "confirmed")' = InState(d, o, w, "confirmed"),
             InState(d, o, w, "uncertain")' = InState(d, o, w, "uncertain")
      PROVE  Agrees(books[d][o][w], d, o, w)'
  BY <1>1, <1>3
<1>4. CASE Tick \/ SetBack
  BY <1>3, <1>4 DEF Tick, SetBack, InState, InWindow, Plans
<1>5. ASSUME NEW x \in Rows, NEW r,
             plan' = [plan EXCEPT ![x] = r], books' = books, SetsStay,
             \/ /\ plan[x].state \notin {"confirmed", "uncertain"}
                /\ r.state \notin {"confirmed", "uncertain"}
             \/ x \notin InWindow(d, o, w)
      PROVE  Agrees(books[d][o][w], d, o, w)'
  <2>1. InWindow(d, o, w)' = InWindow(d, o, w)
    BY <1>5 DEF SetsStay
  <2>2. plan'[x] = r /\ \A y \in Rows : y # x => plan'[y] = plan[y]
    BY <1>5 DEF TypeOK
  <2>3. \A s \in {"confirmed", "uncertain"} : InState(d, o, w, s)' = InState(d, o, w, s)
    BY <1>1, <1>5, <2>1, <2>2 DEF InState
  <2>. QED
    BY <1>3, <1>5, <2>1, <2>3
<1>6. ASSUME NEW x \in Rows, PlanIneligible(x)
      PROVE  Agrees(books[d][o][w], d, o, w)'
  <2>. DEFINE row == NewPlan("trace", "profile_ineligible", NoWindow, FALSE)
  <2>1. plan' = [plan EXCEPT ![x] = row] /\ books' = books /\ plan[x].state = "none"
    BY <1>6 DEF PlanIneligible, Missing
  <2>2. row.state = "planned"
    BY DEF NewPlan
  <2>3. SetsStay
    BY <1>6, TracesStay DEF PlanIneligible
  <2>. HIDE DEF row
  <2>. QED
    BY <1>5, <2>1, <2>2, <2>3
<1>7. ASSUME NEW x \in Rows, PlanPaced(x)
      PROVE  Agrees(books[d][o][w], d, o, w)'
  <2>1. /\ Device(x) \in Devices /\ Missing(x) /\ Window(now) \in Windows
        /\ TracePlanned(x) \/ \E q \in Outcomes : InteractionPlanned(x, q)
    BY <1>7, PacedCases
  <2>2. CASE TracePlanned(x)
    <3>. DEFINE row == NewPlan("trace", "pacing_not_due", NoWindow, TRUE)
    <3>1. plan' = [plan EXCEPT ![x] = row] /\ books' = books /\ plan[x].state = "none"
      BY <2>1, <2>2 DEF TracePlanned, Missing
    <3>2. row.state = "planned"
      BY DEF NewPlan
    <3>3. SetsStay
      BY <2>1, <2>2, QuietStay
    <3>. HIDE DEF row
    <3>. QED
      BY <1>5, <3>1, <3>2, <3>3
  <2>3. ASSUME NEW q \in Outcomes, InteractionPlanned(x, q)
        PROVE  Agrees(books[d][o][w], d, o, w)'
    <3>. DEFINE mine == d = Device(x) /\ o = q /\ w = Window(now)
    <3>1. /\ plan' = [plan EXCEPT ![x] = NewPlan(q, "none", Window(now), TRUE)]
          /\ books' = [books EXCEPT ![Device(x)][q][Window(now)] =
                         [books[Device(x)][q][Window(now)] EXCEPT !.reserved = @ + 1]]
          /\ books[Device(x)][q][Window(now)].reserved < Limit[q]
      BY <2>3 DEF InteractionPlanned
    <3>2. /\ x \notin Plans(d, o)
          /\ InWindow(d, o, w)' = IF mine THEN InWindow(d, o, w) \cup {x} ELSE InWindow(d, o, w)
          /\ InState(d, o, w, "confirmed")' = InState(d, o, w, "confirmed")
          /\ InState(d, o, w, "uncertain")' = InState(d, o, w, "uncertain")
      BY <2>1, <2>3, Joined
    <3>3. books'[d][o][w] = IF mine THEN [books[d][o][w] EXCEPT !.reserved = @ + 1]
                            ELSE books[d][o][w]
      BY <2>1, <3>1 DEF TypeOK
    <3>4. x \notin InWindow(d, o, w)
      BY <3>2 DEF InWindow
    <3>5. CASE mine
      <4>1. Cardinality(InWindow(d, o, w) \cup {x}) = Cardinality(InWindow(d, o, w)) + 1
        BY <1>1, <3>4, Sizes
      <4>2. books[d][o][w].reserved < Limit[o]
        BY <3>1, <3>5
      <4>3. books[d][o][w] \in BookRows /\ Limit[o] \in Nat /\ Agrees(books[d][o][w], d, o, w)
        BY <1>1
      <4>4. /\ books'[d][o][w].reserved = books[d][o][w].reserved + 1
            /\ books'[d][o][w].confirmed = books[d][o][w].confirmed
            /\ books'[d][o][w].uncertain = books[d][o][w].uncertain
        BY <3>3, <3>5, <4>3 DEF BookRows
      <4>. QED
        BY <3>2, <3>5, <4>1, <4>2, <4>3, <4>4 DEF BookRows
    <3>6. CASE ~mine
      BY <1>3, <3>2, <3>3, <3>6
    <3>. QED
      BY <3>5, <3>6
  <2>. QED
    BY <2>1, <2>2, <2>3
<1>8. ASSUME NEW x \in Rows, Execute(x)
      PROVE  Agrees(books[d][o][w], d, o, w)'
  <2>1. plan' = [plan EXCEPT ![x] = [plan[x] EXCEPT !.state = "executing"]]
        /\ books' = books /\ plan[x].state = "planned"
    BY <1>8 DEF Execute
  <2>2. [plan[x] EXCEPT !.state = "executing"].state = "executing"
    BY DEF TypeOK, PlanRows
  <2>. QED
    BY <1>5, <1>8, <2>1, <2>2, QuietStay
<1>9. ASSUME NEW x \in Rows, ConfirmTrace(x)
      PROVE  Agrees(books[d][o][w], d, o, w)'
  <2>1. plan' = [plan EXCEPT ![x] = [plan[x] EXCEPT !.state = "confirmed"]]
        /\ books' = books
    BY <1>9 DEF ConfirmTrace
  <2>2. x \notin InWindow(d, o, w)
    BY <1>9, PacingAssumption DEF ConfirmTrace, InWindow, Plans
  <2>. QED
    BY <1>5, <1>9, <2>1, <2>2, QuietStay
<1>10. ASSUME NEW x \in Rows, FallBack(x)
       PROVE  Agrees(books[d][o][w], d, o, w)'
  <2>. DEFINE mine == d = Device(x) /\ o = "repost" /\ w = plan[x].window
  <2>1. Device(x) \in Devices /\ "repost" \in Outcomes /\ plan[x].window \in Windows
    BY <1>10, RowFacts, Interaction DEF FallBack
  <2>2. /\ InWindow(d, o, w)' = IF mine THEN InWindow(d, o, w) \ {x} ELSE InWindow(d, o, w)
        /\ InState(d, o, w, "confirmed")' = InState(d, o, w, "confirmed")
        /\ InState(d, o, w, "uncertain")' = InState(d, o, w, "uncertain")
    BY <1>10, Left
  <2>3. books'[d][o][w] = IF mine THEN [books[d][o][w] EXCEPT !.reserved = @ - 1]
                          ELSE books[d][o][w]
    BY <1>10, <2>1 DEF FallBack, Book, TypeOK
  <2>4. CASE mine
    <3>1. x \in InWindow(d, o, w)
      BY <1>10, <2>4, Interaction DEF FallBack
    <3>2. Cardinality(InWindow(d, o, w) \ {x}) = Cardinality(InWindow(d, o, w)) - 1
      BY <1>1, <3>1, Sizes
    <3>3. books[d][o][w] \in BookRows /\ Limit[o] \in Nat /\ Agrees(books[d][o][w], d, o, w)
      BY <1>1
    <3>4. /\ books'[d][o][w].reserved = books[d][o][w].reserved - 1
          /\ books'[d][o][w].confirmed = books[d][o][w].confirmed
          /\ books'[d][o][w].uncertain = books[d][o][w].uncertain
      BY <2>3, <2>4, <3>3 DEF BookRows
    <3>. QED
      BY <2>2, <2>4, <3>2, <3>3, <3>4 DEF BookRows
  <2>5. CASE ~mine
    BY <1>3, <2>2, <2>3, <2>5
  <2>. QED
    BY <2>4, <2>5
<1>11. ASSUME NEW x \in Rows, NEW r \in Results, Record(x, r)
       PROVE  Agrees(books[d][o][w], d, o, w)'
  <2>. DEFINE s == IF r \in {"confirmed", "uncertain"} THEN r ELSE "planned"
              was == plan[x].state
              mine == d = Device(x) /\ o = plan[x].effective /\ w = plan[x].window
              in(z) == InState(d, o, w, z)
              b == books[d][o][w]
  <2>1. plan[x] \in PlanRows /\ was \in {"executing", "uncertain"} /\ was \in PlanStates
    BY <1>11 DEF Record, TypeOK, PlanRows
  <2>2. plan[x].effective # "trace"
    BY <2>1 DEF Fits
  <2>3. /\ Device(x) \in Devices /\ plan[x].effective \in Outcomes /\ plan[x].window \in Windows
        /\ x \in InWindow(Device(x), plan[x].effective, plan[x].window)
    BY <2>2, RowFacts, Interaction
  <2>4. InWindow(d, o, w)' = InWindow(d, o, w)
    BY <1>11, QuietStay DEF SetsStay
  <2>5. books'[d][o][w] = IF mine THEN Counted(b, was, r) ELSE b
    BY <1>11, <2>3 DEF Record, Book, TypeOK
  <2>6. plan'[x].state = s /\ \A y \in Rows : y # x => plan'[y] = plan[y]
    BY <1>11, <2>1 DEF Record, TypeOK, PlanRows
  <2>7. b \in BookRows /\ Agrees(b, d, o, w) /\ Limit[o] \in Nat
    BY <1>1
  <2>8. CASE ~mine
    <3>1. x \notin InWindow(d, o, w)
      BY <2>8 DEF InWindow, Plans
    <3>2. \A y \in InWindow(d, o, w) : plan'[y].state = plan[y].state
      BY <1>1, <2>6, <3>1
    <3>3. in("confirmed")' = in("confirmed") /\ in("uncertain")' = in("uncertain")
      BY <2>4, <3>2 DEF InState
    <3>. QED
      BY <1>3, <2>4, <2>5, <2>8, <3>3
  <2>9. CASE mine
    <3>1. x \in InWindow(d, o, w)
      BY <2>3, <2>9
    <3>2. \A z : in(z)' = IF s = z THEN in(z) \cup {x} ELSE in(z) \ {x}
      BY <1>1, <2>4, <2>6, <3>1 DEF InState
    <3>3. \A z : x \in in(z) <=> was = z
      BY <3>1 DEF InState
    <3>4. \A z : in(z) \subseteq Rows
      BY <1>1
    <3>. HIDE DEF in
    <3>9. \A z : Cardinality(in(z)) \in Nat /\ (x \in in(z) => Cardinality(in(z)) > 0)
      BY <3>4, Sizes
    <3>5. Cardinality(in("confirmed")') =
            Cardinality(in("confirmed")) + (IF r = "confirmed" THEN 1 ELSE 0)
      <4>1. CASE r = "confirmed"
        BY <2>1, <3>2, <3>3, <3>4, <4>1, Sizes
      <4>2. CASE r # "confirmed"
        <5>1. in("confirmed")' = in("confirmed")
          BY <2>1, <3>2, <3>3, <4>2
        <5>. QED
          BY <3>9, <4>2, <5>1
      <4>. QED
        BY <4>1, <4>2
    <3>6. was # "uncertain" =>
            Cardinality(in("uncertain")') =
              Cardinality(in("uncertain")) + (IF r = "uncertain" THEN 1 ELSE 0)
      <4>1. CASE was # "uncertain" /\ r = "uncertain"
        BY <3>2, <3>3, <3>4, <4>1, Sizes
      <4>2. CASE was # "uncertain" /\ r # "uncertain"
        <5>1. in("uncertain")' = in("uncertain")
          BY <3>2, <3>3, <4>2
        <5>. QED
          BY <3>9, <4>2, <5>1
      <4>. QED
        BY <4>1, <4>2
    <3>7. was = "uncertain" =>
            /\ Cardinality(in("uncertain")) > 0
            /\ Cardinality(in("uncertain")') =
                 Cardinality(in("uncertain")) - (IF r = "uncertain" THEN 0 ELSE 1)
      <4>1. CASE was = "uncertain" /\ r = "uncertain"
        <5>1. in("uncertain")' = in("uncertain")
          BY <3>2, <3>3, <4>1
        <5>. QED
          BY <3>3, <3>9, <4>1, <5>1
      <4>2. CASE was = "uncertain" /\ r # "uncertain"
        <5>1. in("uncertain")' = in("uncertain") \ {x}
          BY <3>2, <4>2
        <5>. QED
          BY <3>3, <3>4, <4>2, <5>1, Sizes
      <4>. QED
        BY <4>1, <4>2
    <3>8. /\ books'[d][o][w].reserved = b.reserved
          /\ books'[d][o][w].confirmed = b.confirmed + (IF r = "confirmed" THEN 1 ELSE 0)
          /\ was # "uncertain" =>
               books'[d][o][w].uncertain = b.uncertain + (IF r = "uncertain" THEN 1 ELSE 0)
          /\ was = "uncertain" /\ b.uncertain > 0 =>
               books'[d][o][w].uncertain = b.uncertain - (IF r = "uncertain" THEN 0 ELSE 1)
      BY <2>1, <2>5, <2>7, <2>9, CountedType
    <3>. USE DEF in
    <3>. QED
      BY <2>4, <2>7, <3>5, <3>6, <3>7, <3>8
  <2>. QED
    BY <2>8, <2>9
<1>. QED
  BY <1>4, <1>6, <1>7, <1>8, <1>9, <1>10, <1>11 DEF Next


-----------------------------------------------------------------------------
(* The token bucket. *)

\* The sets of the balance are sets of rows; products of counts are numbers.
LEMMA Counts ==
  ASSUME TypeOK, NEW d \in Devices, NEW o \in Outcomes, NEW m, NEW n
  PROVE  /\ Made(d, o, m, n) \subseteq Rows /\ GaveBack(d, o, m) \subseteq Rows
         /\ Cardinality(Made(d, o, m, n)) \in Nat /\ Cardinality(GaveBack(d, o, m)) \in Nat
         /\ Hour * Cardinality(Made(d, o, m, n)) \in Nat
         /\ Hour * Cardinality(GaveBack(d, o, m)) \in Nat
<1>1. Made(d, o, m, n) \subseteq Rows /\ GaveBack(d, o, m) \subseteq Rows
  BY DEF Made, GaveBack, Plans
<1>2. Cardinality(Made(d, o, m, n)) \in Nat /\ Cardinality(GaveBack(d, o, m)) \in Nat
  BY <1>1, Sizes
<1>. QED
  BY <1>1, <1>2, TypeFacts

\* A bucket that is filled up to now is in balance now.
LEMMA FilledUp ==
  ASSUME TypeOK, Fits, Dated, Balanced, NEW d \in Devices, NEW o \in Outcomes,
         CaughtUp(d), NEW m \in Times, m <= now
  PROVE  Refilled(d, o) + Hour * Cardinality(Made(d, o, m, now))
           <= Capacity + (now - m) * Limit[o] + Hour * Cardinality(GaveBack(d, o, m))
<1>. DEFINE k == Hour * Cardinality(Made(d, o, m, now))
            g == Hour * Cardinality(GaveBack(d, o, m))
            L == Limit[o]
<1>1. k \in Nat /\ g \in Nat /\ L \in Nat /\ m \in Nat /\ now \in Nat /\ Capacity \in Nat
  BY Counts, TypeFacts DEF TypeOK
<1>2. Refilled(d, o) \in 0..Capacity
  BY RefilledFacts
<1>3. \A y \in Plans(d, o) : plan[y].created \in Nat /\ plan[y].created <= at[d] /\ y \in Rows
  <2>1. \A y \in Plans(d, o) : y \in Rows /\ Device(y) = d /\ plan[y].effective # "trace"
    BY PacingAssumption DEF Plans
  <2>. QED
    BY <2>1, TypeFacts DEF Dated
<1>4. CASE m <= at[d]
  <2>1. at[d] \in Nat /\ at[d] # Never /\ at[d] <= now
    BY <1>1, <1>4, TypeFacts DEF Never, CaughtUp
  <2>2. Made(d, o, m, now) = Made(d, o, m, at[d])
    BY <1>1, <1>3, <2>1 DEF Made
  <2>3. tokens[d][o] + k <= Capacity + (at[d] - m) * L + g
    BY <1>4, <2>2 DEF Balanced
  <2>4. Refilled(d, o) <= tokens[d][o] + (now - at[d]) * L
    BY <2>1, RefilledFacts
  <2>. DEFINE early == (at[d] - m) * L
              late == (now - at[d]) * L
  <2>5. (now - m) * L = early + late /\ early \in Int /\ late \in Int
    BY <1>1, <2>1
  <2>6. tokens[d][o] \in Nat
    BY TypeFacts
  <2>. HIDE DEF k, g, L, early, late
  <2>7. Refilled(d, o) + k <= Capacity + (early + late) + g
    <3>1. tokens[d][o] + k <= Capacity + early + g
      BY <2>3 DEF early
    <3>2. Refilled(d, o) <= tokens[d][o] + late
      BY <2>4 DEF late, L
    <3>. QED
      BY <1>1, <1>2, <2>5, <2>6, <3>1, <3>2
  <2>. QED
    BY <2>5, <2>7 DEF k, g, L
<1>5. CASE ~(m <= at[d])
  <2>1. Made(d, o, m, now) = {}
    BY <1>1, <1>3, <1>5, TypeFacts DEF Made
  <2>2. k = 0
    BY <2>1, FS_EmptySet, TypeFacts
  <2>3. (now - m) * L \in Nat
    <3>1. now - m \in Nat
      BY <1>1
    <3>. QED
      BY <1>1, <3>1
  <2>. HIDE DEF k, g, L
  <2>4. Refilled(d, o) + k <= Capacity + (now - m) * L + g
    BY <1>1, <1>2, <2>2, <2>3
  <2>. QED
    BY <2>4 DEF k, g, L
<1>. QED
  BY <1>4, <1>5

\* The balance is kept: filling up and planning keep it by the lemma above;
\* a plan that gives its token back leaves the plans since m, or joins those
\* before m that gave theirs back.
LEMMA BalancedStep ==
  ASSUME TypeOK, TypeOK', Fits, Dated, BooksAgree, Balanced, Next
  PROVE  Balanced'
<1>. SUFFICES ASSUME NEW d \in Devices, NEW o \in Outcomes, NEW m \in Times, m <= at'[d]
              PROVE  tokens'[d][o] + Hour * Cardinality(Made(d, o, m, at[d])')
                       <= Capacity + (at'[d] - m) * Limit[o]
                          + Hour * Cardinality(GaveBack(d, o, m)')
  BY DEF Balanced, Capacity, Times
<1>. DEFINE Goal == tokens'[d][o] + Hour * Cardinality(Made(d, o, m, at[d])')
                      <= Capacity + (at'[d] - m) * Limit[o]
                         + Hour * Cardinality(GaveBack(d, o, m)')
<1>1. ASSUME tokens'[d][o] = tokens[d][o], at'[d] = at[d],
             Made(d, o, m, at[d])' = Made(d, o, m, at[d]),
             GaveBack(d, o, m)' = GaveBack(d, o, m)
      PROVE  Goal
  BY <1>1 DEF Balanced
<1>2. ASSUME UNCHANGED <<tokens, at>>, SetsStay
      PROVE  Goal
  <2>1. Made(d, o, m, at[d])' = Made(d, o, m, at[d])
    BY <1>2 DEF SetsStay, Made
  <2>. QED
    BY <1>1, <1>2, <2>1 DEF SetsStay
<1>3. CASE Tick \/ SetBack
  BY <1>2, <1>3, PlansStay DEF Tick, SetBack
<1>4. ASSUME NEW x \in Rows,
             PlanIneligible(x) \/ Execute(x) \/ ConfirmTrace(x) \/ \E r \in Results : Record(x, r)
      PROVE  Goal
  <2>1. SetsStay
    <3>1. CASE PlanIneligible(x)
      BY <3>1, TracesStay DEF PlanIneligible
    <3>2. CASE Execute(x) \/ ConfirmTrace(x) \/ \E r \in Results : Record(x, r)
      BY <3>2, QuietStay
    <3>. QED
      BY <1>4, <3>1, <3>2
  <2>2. UNCHANGED <<tokens, at>>
    BY <1>4 DEF PlanIneligible, Execute, ConfirmTrace, Record
  <2>. QED
    BY <1>2, <2>1, <2>2
<1>5. ASSUME NEW x \in Rows, PlanPaced(x)
      PROVE  Goal
  <2>1. /\ Device(x) \in Devices /\ Missing(x) /\ CaughtUp(Device(x))
        /\ at' = [at EXCEPT ![Device(x)] = now]
        /\ TracePlanned(x) \/ \E q \in Outcomes : InteractionPlanned(x, q)
    BY <1>5, PacedCases
  <2>2. at'[d] = IF d = Device(x) THEN now ELSE at[d]
    BY <2>1 DEF TypeOK
  <2>3. TracePlanned(x) => SetsStay
    BY <2>1, QuietStay
  <2>4. CASE d # Device(x)
    <3>1. tokens'[d] = tokens[d]
      BY <2>1, <2>4 DEF TracePlanned, InteractionPlanned, TypeOK
    <3>2. /\ \A n : Made(d, o, m, n)' = Made(d, o, m, n)
          /\ GaveBack(d, o, m)' = GaveBack(d, o, m)
      <4>1. CASE TracePlanned(x)
        BY <2>3, <4>1 DEF SetsStay
      <4>2. ASSUME NEW q \in Outcomes, InteractionPlanned(x, q)
            PROVE  /\ \A n : Made(d, o, m, n)' = Made(d, o, m, n)
                   /\ GaveBack(d, o, m)' = GaveBack(d, o, m)
        BY <2>1, <2>4, <4>2, Joined
      <4>. QED
        BY <2>1, <4>1, <4>2
    <3>3. Made(d, o, m, at[d])' = Made(d, o, m, at[d])
      BY <2>2, <2>4, <3>2 DEF Made
    <3>. QED
      BY <1>1, <2>2, <2>4, <3>1, <3>2, <3>3
  <2>5. CASE d = Device(x)
    <3>. DEFINE k == Cardinality(Made(d, o, m, now))
                g == Hour * Cardinality(GaveBack(d, o, m))
                flow == (now - m) * Limit[o]
    <3>1. CaughtUp(d) /\ m <= now /\ at'[d] = now
      BY <2>1, <2>2, <2>5
    <3>2. Refilled(d, o) + Hour * k <= Capacity + flow + g
      BY <3>1, FilledUp
    <3>3. Made(d, o, m, at[d])' = Made(d, o, m, now)'
      BY <1>5, <3>1 DEF Made, PlanPaced
    <3>4. k \in Nat /\ g \in Nat /\ Hour \in Nat /\ Refilled(d, o) \in Nat
      BY <3>1, Counts, TypeFacts, RefilledFacts
    <3>5. CASE TracePlanned(x)
      <4>1. tokens'[d][o] = Refilled(d, o)
        BY <2>5, <3>5 DEF TracePlanned, TypeOK
      <4>2. Made(d, o, m, now)' = Made(d, o, m, now) /\ GaveBack(d, o, m)' = GaveBack(d, o, m)
        <5>1. Plans(d, o)' = Plans(d, o) /\ \A y \in Plans(d, o) : plan'[y].created = plan[y].created
          BY <2>3, <3>5 DEF SetsStay
        <5>. QED
          BY <1>5, <2>3, <3>5, <5>1 DEF Made, SetsStay, PlanPaced
      <4>. QED
        BY <3>1, <3>2, <3>3, <4>1, <4>2
    <3>6. ASSUME NEW q \in Outcomes, InteractionPlanned(x, q)
          PROVE  Goal
      <4>1. tokens'[d][o] = IF o = q THEN Refilled(d, o) - Hour ELSE Refilled(d, o)
        BY <2>5, <3>6 DEF InteractionPlanned, TypeOK
      <4>2. GaveBack(d, o, m)' = GaveBack(d, o, m)
        BY <2>1, <3>6, Joined
      <4>3. /\ x \notin Plans(d, o)
            /\ \A n : Made(d, o, m, n)' =
                 IF (d = Device(x) /\ o = q) /\ m <= now /\ now <= n
                 THEN Made(d, o, m, n) \cup {x} ELSE Made(d, o, m, n)
        BY <2>1, <3>6, Joined
      <4>4. Made(d, o, m, now)' = IF o = q THEN Made(d, o, m, now) \cup {x} ELSE Made(d, o, m, now)
        <5>1. now' = now /\ now <= now
          BY <1>5, TypeFacts DEF PlanPaced
        <5>. QED
          BY <2>5, <3>1, <4>3, <5>1 DEF Made
      <4>5. Cardinality(Made(d, o, m, now)') = IF o = q THEN k + 1 ELSE k
        <5>1. x \notin Made(d, o, m, now) /\ Made(d, o, m, now) \subseteq Rows
          BY <4>3 DEF Made, Plans
        <5>. QED
          BY <4>4, <5>1, Sizes
      <4>. HIDE DEF k, g, flow
      <4>6. CASE o = q
        <5>1. Hour * (k + 1) = Hour * k + Hour
          BY <3>4
        <5>2. Hour * k \in Nat
          BY <3>4
        <5>3. tokens'[d][o] + Hour * (k + 1) = Refilled(d, o) + Hour * k
          BY <3>4, <4>1, <4>6, <5>1, <5>2
        <5>. QED
          BY <3>1, <3>2, <3>3, <4>2, <4>5, <4>6, <5>3 DEF g, flow
      <4>7. CASE o # q
        BY <3>1, <3>2, <3>3, <4>1, <4>2, <4>5, <4>7 DEF g, flow
      <4>. QED
        BY <4>6, <4>7
    <3>. QED
      BY <2>1, <3>5, <3>6
  <2>. QED
    BY <2>4, <2>5
<1>6. ASSUME NEW x \in Rows, FallBack(x)
      PROVE  Goal
  <2>1. at' = at /\ Device(x) \in Devices /\ plan[x].created \in Nat /\ "repost" \in Outcomes
    BY <1>6, RowFacts, TypeFacts, Interaction DEF FallBack
  <2>2. /\ x \in Plans(Device(x), "repost")
        /\ \A n : Made(d, o, m, n)' =
             IF d = Device(x) /\ o = "repost" THEN Made(d, o, m, n) \ {x} ELSE Made(d, o, m, n)
        /\ GaveBack(d, o, m)' =
             IF (d = Device(x) /\ o = "repost") /\ plan[x].created < m
             THEN GaveBack(d, o, m) \cup {x} ELSE GaveBack(d, o, m)
        /\ x \notin GaveBack(d, o, m)
    BY <1>6, Left
  <2>3. Made(d, o, m, at[d])' = IF d = Device(x) /\ o = "repost"
                                THEN Made(d, o, m, at[d]) \ {x} ELSE Made(d, o, m, at[d])
    BY <2>1, <2>2 DEF Made
  <2>4. CASE ~(d = Device(x) /\ o = "repost")
    <3>1. tokens'[d][o] = tokens[d][o]
      BY <1>6, <2>1, <2>4 DEF FallBack, TypeOK
    <3>. QED
      BY <1>1, <2>1, <2>2, <2>3, <2>4, <3>1
  <2>5. CASE d = Device(x) /\ o = "repost"
    <3>. DEFINE k == Cardinality(Made(d, o, m, at[d]))
                g == Cardinality(GaveBack(d, o, m))
                flow == (at[d] - m) * Limit[o]
                k1 == Cardinality(Made(d, o, m, at[d])')
                g1 == Cardinality(GaveBack(d, o, m)')
    <3>1. k \in Nat /\ g \in Nat /\ Hour \in Nat /\ Made(d, o, m, at[d]) \subseteq Rows
          /\ GaveBack(d, o, m) \subseteq Rows
      BY Counts, TypeFacts
    <3>2. tokens'[d][o] <= tokens[d][o] + Hour /\ tokens[d][o] \in Nat /\ tokens'[d][o] \in Nat
      <4>1. tokens'[d][o] = Returned(tokens[d][o])
        BY <1>6, <2>1, <2>5 DEF FallBack, TypeOK
      <4>. QED
        BY <4>1, TypeFacts DEF Returned, Least
    <3>3. \/ k1 = k - 1 /\ g1 = g
          \/ k1 = k /\ g1 = g + 1
      <4>1. CASE plan[x].created < m
        <5>1. x \notin Made(d, o, m, at[d])
          BY <2>1, <4>1 DEF Made, Times
        <5>2. Made(d, o, m, at[d])' = Made(d, o, m, at[d])
          BY <2>3, <5>1
        <5>3. GaveBack(d, o, m)' = GaveBack(d, o, m) \cup {x}
          BY <2>2, <2>5, <4>1
        <5>. QED
          BY <2>2, <3>1, <5>2, <5>3, Sizes
      <4>2. CASE ~(plan[x].created < m)
        <5>1. x \in Made(d, o, m, at[d])
          BY <1>6, <2>1, <2>2, <2>5, <4>2 DEF Made, Times, Dated, FallBack
        <5>2. Made(d, o, m, at[d])' = Made(d, o, m, at[d]) \ {x}
          BY <2>3, <2>5
        <5>3. GaveBack(d, o, m)' = GaveBack(d, o, m)
          BY <2>2, <4>2
        <5>. QED
          BY <3>1, <5>1, <5>2, <5>3, Sizes
      <4>. QED
        BY <4>1, <4>2
    <3>4. tokens[d][o] + Hour * k <= Capacity + flow + Hour * g
      BY <2>1 DEF Balanced
    <3>5. flow \in Int /\ Capacity \in Nat
      BY TypeFacts DEF TypeOK
    <3>. HIDE DEF k, g, flow, k1, g1
    <3>6. tokens'[d][o] + Hour * k1 <= Capacity + flow + Hour * g1
      <4>1. Hour * k \in Nat /\ Hour * g \in Nat
        BY <3>1
      <4>2. CASE k1 = k - 1 /\ g1 = g
        <5>1. Hour * k1 = Hour * k - Hour
          BY <3>1, <4>2
        <5>. QED
          BY <3>1, <3>2, <3>4, <3>5, <4>1, <4>2, <5>1
      <4>3. CASE k1 = k /\ g1 = g + 1
        <5>1. Hour * g1 = Hour * g + Hour
          BY <3>1, <4>3
        <5>. QED
          BY <3>1, <3>2, <3>4, <3>5, <4>1, <4>3, <5>1
      <4>. QED
        BY <3>3, <4>2, <4>3
    <3>. QED
      BY <2>1, <3>6 DEF k1, g1, flow
  <2>. QED
    BY <2>4, <2>5
<1>. QED
  BY <1>3, <1>4, <1>5, <1>6 DEF Next


-----------------------------------------------------------------------------
(* The hour, wherever it begins, and the spread of the plans. *)

\* What a step may do to the plans of a device for an outcome: nothing, take
\* one away, or add one of this moment that is not before any other.
LEMMA PlansStep ==
  ASSUME TypeOK, Fits, Dated, BooksAgree, Next, NEW d \in Devices, NEW o \in Outcomes
  PROVE  \/ /\ \A y \in Plans(d, o)' : y \in Plans(d, o) /\ plan'[y].created = plan[y].created
            /\ \A n : LastHour(d, o, n)' \subseteq LastHour(d, o, n)
            /\ \A m, n : Made(d, o, m, n)' \subseteq Made(d, o, m, n)
            /\ \A m : GaveBack(d, o, m) \subseteq GaveBack(d, o, m)'
         \/ \E x \in Rows :
              /\ x \notin Plans(d, o) /\ Plans(d, o)' = Plans(d, o) \cup {x}
              /\ \A y \in Plans(d, o) : plan'[y].created = plan[y].created
              /\ plan'[x].created = now /\ Ready(d, o)
              /\ at'[d] = now /\ now' = now /\ CaughtUp(d)
              /\ \A n : LastHour(d, o, n)' =
                   IF n - Hour < now /\ now <= n
                   THEN LastHour(d, o, n) \cup {x} ELSE LastHour(d, o, n)
              /\ \A m, n : Made(d, o, m, n)' =
                   IF m <= now /\ now <= n
                   THEN Made(d, o, m, n) \cup {x} ELSE Made(d, o, m, n)
              /\ \A m : GaveBack(d, o, m)' = GaveBack(d, o, m)
<1>. DEFINE Fewer == /\ \A y \in Plans(d, o)' : /\ y \in Plans(d, o)
                                               /\ plan'[y].created = plan[y].created
                     /\ \A n : LastHour(d, o, n)' \subseteq LastHour(d, o, n)
                     /\ \A m, n : Made(d, o, m, n)' \subseteq Made(d, o, m, n)
                     /\ \A m : GaveBack(d, o, m) \subseteq GaveBack(d, o, m)'
<1>1. SetsStay => Fewer
  BY DEF SetsStay
<1>2. ASSUME Tick \/ SetBack
      PROVE  Fewer
  BY <1>1, <1>2, PlansStay DEF Tick, SetBack
<1>3. ASSUME NEW x \in Rows, PlanIneligible(x)
      PROVE  Fewer
  BY <1>1, <1>3, TracesStay DEF PlanIneligible
<1>4. ASSUME NEW x \in Rows,
             Execute(x) \/ ConfirmTrace(x) \/ \E r \in Results : Record(x, r)
      PROVE  Fewer
  BY <1>1, <1>4, QuietStay
<1>5. ASSUME NEW x \in Rows, FallBack(x)
      PROVE  Fewer
  <2>. DEFINE mine == d = Device(x) /\ o = "repost"
  <2>1. /\ Plans(d, o)' = IF mine THEN Plans(d, o) \ {x} ELSE Plans(d, o)
        /\ \A n : LastHour(d, o, n)' \subseteq LastHour(d, o, n)
        /\ \A m, n : Made(d, o, m, n)' = IF mine THEN Made(d, o, m, n) \ {x} ELSE Made(d, o, m, n)
        /\ \A m : GaveBack(d, o, m)' =
             IF mine /\ plan[x].created < m
             THEN GaveBack(d, o, m) \cup {x} ELSE GaveBack(d, o, m)
    BY <1>5, Left
  <2>2. \A y \in Rows : plan'[y].created = plan[y].created
    BY <1>5 DEF FallBack, TypeOK, PlanRows
  <2>3. Plans(d, o) \subseteq Rows
    BY DEF Plans
  <2>. QED
    BY <2>1, <2>2, <2>3
<1>6. ASSUME NEW x \in Rows, PlanPaced(x), TracePlanned(x)
      PROVE  Fewer
  BY <1>1, <1>6, PacedCases, QuietStay
<1>7. ASSUME NEW x \in Rows, PlanPaced(x), NEW q \in Outcomes, InteractionPlanned(x, q),
             ~(d = Device(x) /\ o = q)
      PROVE  Fewer
  <2>1. Missing(x)
    BY <1>7, PacedCases
  <2>2. /\ x \notin Plans(d, o) /\ Plans(d, o)' = Plans(d, o)
        /\ \A n : LastHour(d, o, n)' = LastHour(d, o, n)
        /\ \A m, n : Made(d, o, m, n)' = Made(d, o, m, n)
        /\ \A m : GaveBack(d, o, m)' = GaveBack(d, o, m)
    BY <1>7, <2>1, Joined
  <2>3. \A y \in Plans(d, o) : plan'[y] = plan[y]
    BY <1>7, <2>2 DEF InteractionPlanned, TypeOK, Plans
  <2>. QED
    BY <2>2, <2>3
<1>8. ASSUME NEW x \in Rows, PlanPaced(x), InteractionPlanned(x, o), d = Device(x)
      PROVE  /\ x \notin Plans(d, o) /\ Plans(d, o)' = Plans(d, o) \cup {x}
             /\ \A y \in Plans(d, o) : plan'[y].created = plan[y].created
             /\ plan'[x].created = now /\ Ready(d, o)
             /\ at'[d] = now /\ now' = now /\ CaughtUp(d)
             /\ \A n : LastHour(d, o, n)' =
                  IF n - Hour < now /\ now <= n
                  THEN LastHour(d, o, n) \cup {x} ELSE LastHour(d, o, n)
             /\ \A m, n : Made(d, o, m, n)' =
                  IF m <= now /\ now <= n
                  THEN Made(d, o, m, n) \cup {x} ELSE Made(d, o, m, n)
             /\ \A m : GaveBack(d, o, m)' = GaveBack(d, o, m)
  <2>1. Missing(x) /\ at' = [at EXCEPT ![d] = now] /\ now' = now /\ CaughtUp(d)
    BY <1>8, PacedCases
  <2>2. /\ x \notin Plans(d, o) /\ Plans(d, o)' = Plans(d, o) \cup {x}
        /\ \A n : LastHour(d, o, n)' =
             IF (d = Device(x) /\ o = o) /\ n - Hour < now /\ now <= n
             THEN LastHour(d, o, n) \cup {x} ELSE LastHour(d, o, n)
        /\ \A m, n : Made(d, o, m, n)' =
             IF (d = Device(x) /\ o = o) /\ m <= now /\ now <= n
             THEN Made(d, o, m, n) \cup {x} ELSE Made(d, o, m, n)
        /\ \A m : GaveBack(d, o, m)' = GaveBack(d, o, m)
    BY <1>8, <2>1, Joined
  <2>3. \A y \in Plans(d, o) : plan'[y] = plan[y]
    BY <1>8, <2>2 DEF InteractionPlanned, TypeOK, Plans
  <2>4. plan'[x].created = now /\ Ready(d, o)
    BY <1>8 DEF InteractionPlanned, NewPlan, TypeOK
  <2>5. at'[d] = now
    BY <2>1 DEF TypeOK
  <2>. QED
    BY <1>8, <2>1, <2>2, <2>3, <2>4, <2>5
<1>9. ASSUME NEW x \in Rows, PlanPaced(x)
      PROVE  \/ TracePlanned(x)
             \/ \E q \in Outcomes : InteractionPlanned(x, q) /\ ~(d = Device(x) /\ o = q)
             \/ InteractionPlanned(x, o) /\ d = Device(x)
  BY <1>9, PacedCases
<1>. HIDE DEF Fewer
<1>10. ASSUME NEW x \in Rows, PlanPaced(x)
       PROVE  Fewer \/ (InteractionPlanned(x, o) /\ d = Device(x))
  <2>1. CASE TracePlanned(x)
    BY <1>6, <1>10, <2>1
  <2>2. ASSUME NEW q \in Outcomes, InteractionPlanned(x, q), ~(d = Device(x) /\ o = q)
        PROVE  Fewer
    BY <1>7, <1>10, <2>2
  <2>3. CASE InteractionPlanned(x, o) /\ d = Device(x)
    BY <2>3
  <2>. QED
    BY <1>9, <1>10, <2>1, <2>2, <2>3
<1>11. CASE \E x \in Rows : PlanPaced(x)
  <2>1. PICK x \in Rows : PlanPaced(x)
    BY <1>11
  <2>2. CASE Fewer
    BY <2>2 DEF Fewer
  <2>3. CASE InteractionPlanned(x, o) /\ d = Device(x)
    BY <1>8, <2>1, <2>3
  <2>. QED
    BY <1>10, <2>1, <2>2, <2>3
<1>12. ASSUME ~\E x \in Rows : PlanPaced(x)
       PROVE  Fewer
  <2>1. Tick \/ SetBack => Fewer
    BY <1>2
  <2>2. \A x \in Rows : PlanIneligible(x) => Fewer
    BY <1>3
  <2>3. \A x \in Rows : FallBack(x) => Fewer
    BY <1>5
  <2>4. \A x \in Rows :
          Execute(x) \/ ConfirmTrace(x) \/ (\E r \in Results : Record(x, r)) => Fewer
    BY <1>4
  <2>5. \A x \in Rows : ~PlanPaced(x)
    BY <1>12
  <2>. QED
    BY <2>1, <2>2, <2>3, <2>4, <2>5 DEF Next
<1>13. CASE Fewer
  BY <1>13 DEF Fewer
<1>. QED
  BY <1>11, <1>12, <1>13

\* The rolling hour is kept.
LEMMA RollingStep ==
  ASSUME TypeOK, TypeOK', Fits, Dated, BooksAgree, RollingKept, Next
  PROVE  RollingKept'
<1>. SUFFICES ASSUME NEW d \in Devices, NEW o \in Outcomes, NEW last \in Plans(d, o)',
                     NEW n, n = plan'[last].created
              PROVE  Cardinality(LastHour(d, o, n)') <= Limit[o]
  BY DEF RollingKept, LastHour, Plans
<1>1. \A k : LastHour(d, o, k) \subseteq Rows
  BY DEF LastHour, Plans
<1>2. Limit[o] \in Nat /\ Hour \in Nat /\ Hour > 0 /\ now \in Nat
  BY TypeFacts
<1>3. CASE last \in Plans(d, o) /\ plan[last].created = n
           /\ LastHour(d, o, n)' \subseteq LastHour(d, o, n)
  <2>1. Cardinality(LastHour(d, o, n)) <= Limit[o]
    BY <1>3 DEF RollingKept
  <2>2. /\ Cardinality(LastHour(d, o, n)') <= Cardinality(LastHour(d, o, n))
        /\ Cardinality(LastHour(d, o, n)') \in Nat /\ Cardinality(LastHour(d, o, n)) \in Nat
    BY <1>1, <1>3, Sizes
  <2>. QED
    BY <1>2, <2>1, <2>2
<1>4. ASSUME NEW x \in Rows, x \notin Plans(d, o), Plans(d, o)' = Plans(d, o) \cup {x},
             \A y \in Plans(d, o) : plan'[y].created = plan[y].created,
             plan'[x].created = now, Ready(d, o), CaughtUp(d),
             \A k : LastHour(d, o, k)' = IF k - Hour < now /\ now <= k
                                         THEN LastHour(d, o, k) \cup {x} ELSE LastHour(d, o, k)
      PROVE  Cardinality(LastHour(d, o, n)') <= Limit[o]
  <2>1. n <= now /\ n \in Nat
    <3>1. \A y \in Plans(d, o) : plan[y].created <= now /\ plan[y].created \in Nat
      BY <1>4, HourCovers, TypeFacts DEF Plans
    <3>. QED
      BY <1>2, <1>4, <3>1
  <2>2. CASE n = now
    <3>1. LastHour(d, o, n)' = LastHour(d, o, now) \cup {x}
      BY <1>2, <1>4, <2>2
    <3>2. x \notin LastHour(d, o, now)
      BY <1>4 DEF LastHour
    <3>3. Cardinality(LastHour(d, o, n)') = Cardinality(LastHour(d, o, now)) + 1
      BY <1>1, <3>1, <3>2, Sizes
    <3>4. Cardinality(LastHour(d, o, now)) < Limit[o]
      BY <1>4 DEF Ready, Used
    <3>5. Cardinality(LastHour(d, o, now)) \in Nat
      BY <1>1, Sizes
    <3>. QED
      BY <1>2, <3>3, <3>4, <3>5
  <2>3. CASE n # now
    <3>1. LastHour(d, o, n)' = LastHour(d, o, n)
      BY <1>2, <1>4, <2>1, <2>3
    <3>2. last \in Plans(d, o) /\ plan[last].created = n
      BY <1>4, <2>3
    <3>. QED
      BY <1>3, <3>1, <3>2
  <2>. QED
    BY <2>2, <2>3
<1>5. \/ last \in Plans(d, o) /\ plan[last].created = n
         /\ LastHour(d, o, n)' \subseteq LastHour(d, o, n)
      \/ \E x \in Rows :
           /\ x \notin Plans(d, o) /\ Plans(d, o)' = Plans(d, o) \cup {x}
           /\ \A y \in Plans(d, o) : plan'[y].created = plan[y].created
           /\ plan'[x].created = now /\ Ready(d, o) /\ CaughtUp(d)
           /\ \A k : LastHour(d, o, k)' = IF k - Hour < now /\ now <= k
                                          THEN LastHour(d, o, k) \cup {x} ELSE LastHour(d, o, k)
  BY PlansStep
<1>. QED
  BY <1>3, <1>4, <1>5

\* Plans are spread: a new plan finds the bucket in balance, an older one has
\* no more plans since m than before, and no fewer given back.
LEMMA PacedStep ==
  ASSUME TypeOK, TypeOK', Fits, Dated, Dated', BooksAgree, Balanced', Paced, Next
  PROVE  Paced'
<1>. SUFFICES ASSUME NEW d \in Devices, NEW o \in Outcomes, NEW last \in Plans(d, o)',
                     NEW n, n = plan'[last].created, NEW m \in 0..n
              PROVE  Hour * Cardinality(Made(d, o, m, n)')
                       <= Capacity + (n - m) * Limit[o] + Hour * Cardinality(GaveBack(d, o, m)')
  BY DEF Paced, Made, GaveBack, Plans
<1>1. Limit[o] \in Nat /\ Hour \in Nat /\ Capacity \in Nat /\ now \in Nat /\ Times \subseteq Nat
  BY TypeFacts
<1>2. n \in Nat /\ m \in Nat /\ m \in Times /\ m <= n
  <2>1. last \in Rows
    BY DEF Plans
  <2>2. n \in Times
    BY <2>1 DEF TypeOK, PlanRows, Times
  <2>. QED
    BY <2>2, PacingAssumption DEF Times
<1>. DEFINE k == Cardinality(Made(d, o, m, n))
            k1 == Cardinality(Made(d, o, m, n)')
            g == Cardinality(GaveBack(d, o, m))
            g1 == Cardinality(GaveBack(d, o, m)')
<1>3. /\ Made(d, o, m, n) \subseteq Rows /\ Made(d, o, m, n)' \subseteq Rows
      /\ GaveBack(d, o, m) \subseteq Rows /\ GaveBack(d, o, m)' \subseteq Rows
      /\ k \in Nat /\ k1 \in Nat /\ g \in Nat /\ g1 \in Nat
  <2>1. /\ Made(d, o, m, n) \subseteq Rows /\ Made(d, o, m, n)' \subseteq Rows
        /\ GaveBack(d, o, m) \subseteq Rows /\ GaveBack(d, o, m)' \subseteq Rows
    BY DEF Made, GaveBack, Plans
  <2>. QED
    BY <2>1, Sizes
<1>4. CASE last \in Plans(d, o) /\ plan[last].created = n
           /\ Made(d, o, m, n)' \subseteq Made(d, o, m, n)
           /\ GaveBack(d, o, m) \subseteq GaveBack(d, o, m)'
  <2>1. Hour * k <= Capacity + (n - m) * Limit[o] + Hour * g
    BY <1>4 DEF Paced
  <2>2. k1 <= k /\ g <= g1
    BY <1>3, <1>4, Sizes
  <2>3. /\ Hour * k1 \in Nat /\ Hour * k \in Nat /\ Hour * k1 <= Hour * k
        /\ Hour * g1 \in Nat /\ Hour * g \in Nat /\ Hour * g <= Hour * g1
    <3>. HIDE DEF k, k1, g, g1
    <3>. QED
      BY <1>1, <1>3, <2>2, ProductsKeepOrder
  <2>. DEFINE flow == (n - m) * Limit[o]
  <2>4. flow \in Int
    BY <1>1, <1>2
  <2>. HIDE DEF k, k1, g, g1, flow
  <2>5. Hour * k1 <= Capacity + flow + Hour * g1
    BY <1>1, <2>1, <2>3, <2>4 DEF flow
  <2>. QED
    BY <2>5 DEF k1, g1, flow
<1>5. ASSUME NEW x \in Rows, x \notin Plans(d, o), Plans(d, o)' = Plans(d, o) \cup {x},
             \A y \in Plans(d, o) : plan'[y].created = plan[y].created,
             plan'[x].created = now, at'[d] = now, now' = now, CaughtUp(d),
             \A l, h : Made(d, o, l, h)' = IF l <= now /\ now <= h
                                          THEN Made(d, o, l, h) \cup {x} ELSE Made(d, o, l, h),
             \A l : GaveBack(d, o, l)' = GaveBack(d, o, l)
      PROVE  Hour * k1 <= Capacity + (n - m) * Limit[o] + Hour * g1
  <2>1. n <= now
    <3>1. \A y \in Plans(d, o) : plan[y].created <= now /\ plan[y].created \in Nat
      BY <1>5, HourCovers, TypeFacts DEF Plans
    <3>. QED
      BY <1>1, <1>5, <3>1
  <2>2. CASE n = now
    <3>1. (tokens[d][o] + Hour * Cardinality(Made(d, o, m, at[d]))
             <= Capacity + (at[d] - m) * Limit[o] + Hour * Cardinality(GaveBack(d, o, m)))'
      BY <1>2, <1>5, <2>2 DEF Balanced, Times
    <3>2. Made(d, o, m, at[d])' = Made(d, o, m, n)'
      BY <1>5, <2>2 DEF Made
    <3>3. tokens'[d][o] \in Nat
      BY <1>1 DEF TypeOK, Capacity
    <3>. DEFINE flow == (n - m) * Limit[o]
                h == Hour * k1
                j == Hour * g1
    <3>4. tokens'[d][o] + h <= Capacity + flow + j
      BY <1>5, <2>2, <3>1, <3>2 DEF Capacity
    <3>5. flow \in Int /\ h \in Nat /\ j \in Nat
      <4>. HIDE DEF k1, g1
      <4>. QED
        BY <1>1, <1>2, <1>3
    <3>. HIDE DEF flow, h, j
    <3>6. h <= Capacity + flow + j
      BY <1>1, <3>3, <3>4, <3>5
    <3>. QED
      BY <3>6 DEF flow, h, j
  <2>3. CASE n # now
    <3>1. Made(d, o, m, n)' = Made(d, o, m, n) /\ GaveBack(d, o, m)' = GaveBack(d, o, m)
      BY <1>1, <1>2, <1>5, <2>1, <2>3
    <3>2. last \in Plans(d, o) /\ plan[last].created = n
      BY <1>5, <2>3
    <3>. QED
      BY <1>4, <3>1, <3>2
  <2>. QED
    BY <2>2, <2>3
<1>6. \/ /\ last \in Plans(d, o) /\ plan[last].created = n
         /\ Made(d, o, m, n)' \subseteq Made(d, o, m, n)
         /\ GaveBack(d, o, m) \subseteq GaveBack(d, o, m)'
      \/ \E x \in Rows :
           /\ x \notin Plans(d, o) /\ Plans(d, o)' = Plans(d, o) \cup {x}
           /\ \A y \in Plans(d, o) : plan'[y].created = plan[y].created
           /\ plan'[x].created = now /\ at'[d] = now /\ now' = now /\ CaughtUp(d)
           /\ \A l, h : Made(d, o, l, h)' = IF l <= now /\ now <= h
                                           THEN Made(d, o, l, h) \cup {x} ELSE Made(d, o, l, h)
           /\ \A l : GaveBack(d, o, l)' = GaveBack(d, o, l)
  BY PlansStep
<1>. QED
  BY <1>4, <1>5, <1>6

-----------------------------------------------------------------------------
(* The theorems. *)

\* No plan, no interaction: the invariant holds at first, with at most a token
\* but one part in a bucket.
LEMMA InitIInv == Init => IInv
<1>. SUFFICES ASSUME Init PROVE IInv
  OBVIOUS
<1>1. TypeOK
  BY InitTypeOK
<1>2. \A x \in Rows : plan[x] = Unplanned
  BY DEF Init
<1>3. Fits /\ Dated
  <2>1. Unplanned.state = "none" /\ Unplanned.effective = "trace"
    BY DEF Unplanned
  <2>. QED
    BY <1>2, <2>1 DEF Fits, Dated
<1>4. \A d \in Devices, o \in Outcomes : Plans(d, o) = {}
  BY <1>2 DEF Plans, Unplanned
<1>5. RollingKept /\ Paced
  BY <1>4 DEF RollingKept, Paced
<1>6. BooksAgree
  <2>. SUFFICES ASSUME NEW d \in Devices, NEW o \in Outcomes, NEW w \in Windows
                PROVE  ~Overrun(d, o, w)
    BY DEF BooksAgree
  <2>1. InWindow(d, o, w) = {} /\ \A s : InState(d, o, w, s) = {}
    BY <1>4 DEF InWindow, InState
  <2>2. books[d][o][w] = Empty
    BY DEF Init
  <2>3. Empty.reserved = 0 /\ Empty.confirmed = 0 /\ Empty.uncertain = 0
    BY DEF Empty
  <2>4. Limit[o] \in Nat /\ Cardinality({}) = 0
    BY PacingAssumption, FS_EmptySet
  <2>. QED
    BY <2>1, <2>2, <2>3, <2>4 DEF Overrun
<1>7. Balanced
  <2>. SUFFICES ASSUME NEW d \in Devices, NEW o \in Outcomes, NEW m \in Times, m <= at[d]
                PROVE  tokens[d][o] + Hour * Cardinality(Made(d, o, m, at[d]))
                         <= Capacity + (at[d] - m) * Limit[o] + Hour * Cardinality(GaveBack(d, o, m))
    BY DEF Balanced
  <2>1. Made(d, o, m, at[d]) = {} /\ GaveBack(d, o, m) = {}
    BY <1>2, <1>4 DEF Made, GaveBack, Unplanned
  <2>2. at[d] = 0 /\ m = 0
    BY PacingAssumption DEF Init, Times, Never
  <2>3. tokens[d][o] \in 0..Capacity /\ Limit[o] \in Nat /\ Hour \in Nat /\ Capacity \in Nat
    BY <1>1, TypeFacts
  <2>4. Hour * Cardinality({}) = 0 /\ (at[d] - m) * Limit[o] = 0
    BY <2>2, <2>3, FS_EmptySet
  <2>. QED
    BY <2>1, <2>3, <2>4
<1>. QED
  BY <1>1, <1>3, <1>5, <1>6, <1>7 DEF IInv

\* Every step keeps it.
LEMMA NextIInv == IInv /\ [Next]_vars => IInv'
<1>. SUFFICES ASSUME IInv, [Next]_vars PROVE IInv'
  OBVIOUS
<1>1. CASE Next
  <2>1. TypeOK'
    BY <1>1, TypeStep DEF IInv
  <2>2. Fits' /\ Dated'
    BY <1>1, FitsStep, DatedStep DEF IInv
  <2>3. BooksAgree'
    BY <1>1, <2>1, BooksStep DEF IInv
  <2>4. Balanced'
    BY <1>1, <2>1, BalancedStep DEF IInv
  <2>5. RollingKept'
    BY <1>1, <2>1, RollingStep DEF IInv
  <2>6. Paced'
    BY <1>1, <2>1, <2>2, <2>4, PacedStep DEF IInv
  <2>. QED
    BY <2>1, <2>2, <2>3, <2>4, <2>5, <2>6 DEF IInv
<1>2. CASE UNCHANGED vars
  <2>1. TypeOK'
    BY <1>2 DEF vars, IInv, TypeOK
  <2>2. Fits' /\ Dated'
    <3>1. plan' = plan /\ at' = at
      BY <1>2 DEF vars
    <3>2. Fits /\ Dated
      BY DEF IInv
    <3>3. Fits' <=> Fits
      BY <3>1 DEF Fits
    <3>4. Dated' <=> Dated
      BY <3>1 DEF Dated
    <3>. QED
      BY <3>2, <3>3, <3>4
  <2>3. BooksAgree'
    <3>1. plan' = plan /\ books' = books
      BY <1>2 DEF vars
    <3>2. \A d, o, w : InWindow(d, o, w)' = InWindow(d, o, w)
      BY <3>1 DEF InWindow, Plans
    <3>3. \A d, o, w, s : InState(d, o, w, s)' = InState(d, o, w, s)
      BY <3>1, <3>2 DEF InState
    <3>4. \A d, o, w : Overrun(d, o, w)' <=> Overrun(d, o, w)
      BY <3>1, <3>2, <3>3 DEF Overrun
    <3>. QED
      BY <3>4 DEF IInv, BooksAgree
  <2>4. Balanced'
    BY <1>2 DEF vars, IInv, Balanced, Made, GaveBack, Plans
  <2>5. RollingKept' /\ Paced'
    BY <1>2 DEF vars, IInv, RollingKept, Paced, LastHour, Made, GaveBack, Plans
  <2>. QED
    BY <2>1, <2>2, <2>3, <2>4, <2>5 DEF IInv
<1>. QED
  BY <1>1, <1>2

\* The invariant holds in every reachable state.
THEOREM Invariance == Spec => []IInv
BY InitIInv, NextIInv, PTL DEF Spec

\* Plans, buckets and books have their types: no count of the books falls
\* below zero, no bucket below empty.
THEOREM TypeCorrect == Spec => []TypeOK
<1>1. IInv => TypeOK
  BY DEF IInv
<1>. QED
  BY <1>1, Invariance, PTL

\* In no hour, wherever it begins, are there more plans than the limit.
THEOREM RollingHourKept == Spec => []RollingKept
<1>1. IInv => RollingKept
  BY DEF IInv
<1>. QED
  BY <1>1, Invariance, PTL

\* Plans are spread over the hour.
THEOREM PlansSpread == Spec => []Paced
<1>1. IInv => Paced
  BY DEF IInv
<1>. QED
  BY <1>1, Invariance, PTL

\* The audit of a round finds nothing.
THEOREM AuditFindsNothing == Spec => []AuditClean
<1>1. ASSUME IInv PROVE Misfits = {}
  <2>1. TypeOK /\ Fits
    BY <1>1 DEF IInv
  <2>2. ASSUME NEW x \in Rows, plan[x].state = "confirmed"
        PROVE  Related(plan[x])
    BY <2>1, <2>2 DEF Fits
  <2>3. ASSUME NEW x \in Rows, plan[x].effective # "trace"
        PROVE  plan[x].window = Window(plan[x].created)
    BY <2>1, <2>3, Interaction
  <2>. QED
    BY <2>2, <2>3 DEF Misfits
<1>2. IInv => AuditClean
  BY <1>1 DEF IInv, AuditClean, BooksAgree
<1>. QED
  BY <1>2, Invariance, PTL

\* A plan is refused by the books of the clock hour only when the rolling hour
\* would have refused it: no plan carries limit_reached.
THEOREM NeverRefusedLate == Spec => [](\A x \in Rows : plan[x].reason # "limit_reached")
<1>1. ASSUME IInv, NEW x \in Rows
      PROVE  plan[x].reason # "limit_reached"
  <2>1. Fits
    BY <1>1 DEF IInv
  <2>2. CASE plan[x].state = "none"
    <3>1. plan[x] = Unplanned
      BY <2>1, <2>2 DEF Fits
    <3>. QED
      BY <3>1 DEF Unplanned
  <2>3. CASE plan[x].state # "none"
    BY <2>1, <2>3 DEF Fits, Related
  <2>. QED
    BY <2>2, <2>3
<1>2. IInv => \A x \in Rows : plan[x].reason # "limit_reached"
  BY <1>1
<1>. QED
  BY <1>2, Invariance, PTL

-----------------------------------------------------------------------------
(* The courses of the plans.                                               *)

\* What each call makes of the plan of its row.
LEMMA PlanCourseStep ==
  ASSUME TypeOK, NEW y \in Rows,
         \/ PlanIneligible(y) \/ PlanPaced(y) \/ Execute(y)
         \/ FallBack(y) \/ ConfirmTrace(y)
         \/ \E r \in Results : Record(y, r)
  PROVE  /\ Course(y)!PlanNext
         /\ \A x \in Rows \ {y} : plan'[x] = plan[x]
<1> USE DEF Course!PlanNext
<1>1. plan \in [Rows -> PlanRows]
  BY DEF TypeOK
<1>2. ASSUME NEW o \in Outcomes \cup {"trace"}, NEW reason, NEW w, NEW e, Missing(y),
             plan' = [plan EXCEPT ![y] = NewPlan(o, reason, w, e)]
      PROVE  /\ Course(y)!PlanNext
             /\ \A x \in Rows \ {y} : plan'[x] = plan[x]
  <2>1. plan'[y] = NewPlan(o, reason, w, e) /\ \A x \in Rows \ {y} : plan'[x] = plan[x]
    BY <1>1, <1>2
  <2>2. /\ plan'[y].state = "planned" /\ plan'[y].requested = o
        /\ plan'[y].effective = o /\ plan'[y].last = "none"
    BY <2>1 DEF NewPlan
  <2>. QED
    BY <1>2, <2>1, <2>2 DEF Missing, Course!Planned
<1>3. CASE PlanIneligible(y)
  BY <1>2, <1>3 DEF PlanIneligible
<1>4. CASE PlanPaced(y)
  <2>1. Missing(y)
    BY <1>4 DEF PlanPaced
  <2>2. \E o \in Outcomes \cup {"trace"}, reason \in Reasons, w \in {NoWindow, Window(now)} :
          plan' = [plan EXCEPT ![y] = NewPlan(o, reason, w, TRUE)]
    BY <1>4 DEF PlanPaced, Reasons
  <2>. QED
    BY <1>2, <2>1, <2>2
<1>5. CASE Execute(y)
  BY <1>1, <1>5 DEF Execute, Course!Executed, PlanRows
<1>6. CASE FallBack(y)
  <2>1. /\ plan[y].effective = "repost" /\ plan[y].state = "planned"
        /\ plan[y].last = "unavailable"
        /\ plan' = [plan EXCEPT ![y].effective = "trace", ![y].window = NoWindow,
                                ![y].reason = "repost_unavailable", ![y].state = "confirmed"]
    BY <1>6 DEF FallBack
  <2>2. /\ plan'[y].state = "confirmed" /\ plan'[y].effective = "trace"
        /\ plan'[y].requested = plan[y].requested /\ plan'[y].last = plan[y].last
        /\ \A x \in Rows \ {y} : plan'[x] = plan[x]
    BY <1>1, <2>1 DEF PlanRows
  <2>. QED
    BY <2>1, <2>2 DEF Course!FellBack
<1>7. CASE ConfirmTrace(y)
  BY <1>1, <1>7 DEF ConfirmTrace, Course!Traced, PlanRows
<1>8. ASSUME NEW r \in Results, Record(y, r)
      PROVE  /\ Course(y)!PlanNext
             /\ \A x \in Rows \ {y} : plan'[x] = plan[x]
  <2> DEFINE s == IF r \in {"confirmed", "uncertain"} THEN r ELSE "planned"
  <2>1. /\ \/ plan[y].state = "executing"
              /\ (r = "unavailable" => plan[y].effective = "repost")
           \/ plan[y].state = "uncertain" /\ r \in {"confirmed", "uncertain"}
        /\ plan' = [plan EXCEPT ![y].last = r, ![y].state = s]
    BY <1>8 DEF Record
  <2>2. /\ plan'[y].state = s /\ plan'[y].last = r
        /\ plan'[y].requested = plan[y].requested
        /\ plan'[y].effective = plan[y].effective
        /\ \A x \in Rows \ {y} : plan'[x] = plan[x]
    BY <1>1, <2>1 DEF PlanRows
  <2>3. Course(y)!Recorded(r)
    BY <2>1, <2>2 DEF Course!Recorded
  <2>. QED
    BY <2>2, <2>3 DEF Results
<1>. QED
  BY <1>3, <1>4, <1>5, <1>6, <1>7, <1>8

\* A step leaves a plan alone or takes it one step along its course.
LEMMA PlanCourseFrame ==
  ASSUME TypeOK, [Next]_vars, NEW x \in Rows
  PROVE  Course(x)!PlanNext \/ plan'[x] = plan[x]
<1>1. CASE Tick \/ SetBack \/ UNCHANGED vars
  BY <1>1 DEF Tick, SetBack, vars
<1>2. ASSUME NEW y \in Rows,
             \/ PlanIneligible(y) \/ PlanPaced(y) \/ Execute(y)
             \/ FallBack(y) \/ ConfirmTrace(y)
             \/ \E r \in Results : Record(y, r)
      PROVE  Course(x)!PlanNext \/ plan'[x] = plan[x]
  <2>1. CASE x = y
    BY <1>2, <2>1, PlanCourseStep
  <2>2. CASE x # y
    BY <1>2, <2>2, PlanCourseStep
  <2>. QED
    BY <2>1, <2>2
<1>. QED
  BY <1>1, <1>2 DEF Next

\* The plan of every row takes the course PlanCourse describes, which is the
\* one the launches of ActionExecution keep to.
THEOREM PlansTakeTheirCourse == Spec => ImplementsPlans
<1> SUFFICES ASSUME NEW x \in Rows
             PROVE  Spec => Course(x)!PlanSpec
  BY DEF ImplementsPlans
<1>1. Init => Course(x)!PlanInit
  BY DEF Init, Course!PlanInit, Unplanned
<1>2. TypeOK /\ [Next]_vars => [Course(x)!PlanNext]_(Course(x)!planVars)
  BY PlanCourseFrame DEF Course!planVars
<1>. QED
  BY <1>1, <1>2, TypeCorrect, PTL DEF Spec, Course!PlanSpec

=============================================================================
