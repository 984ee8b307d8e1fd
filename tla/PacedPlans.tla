------------------------------- MODULE PacedPlans -------------------------------
(***************************************************************************)
(* Which action a device owes the next profile: a token bucket per outcome *)
(* that fills over the hour, the rolling hour that counts plans by their   *)
(* creation, the books kept per clock hour, and the audit of a round that  *)
(* compares plans and books.                                               *)
(*                                                                         *)
(* ActionExecution has the launches, fences and phases around a plan; here *)
(* the steps of a device's plans come in any order. Tokens are counted in  *)
(* parts: a token has Hour parts, of which Limit flow in per tick.         *)
(***************************************************************************)
EXTENDS Integers, FiniteSets

CONSTANTS
  Devices,
  Targets,
  Outcomes,   \* the outcomes with a quota: like, favorite, repost
  Limit,      \* [Outcomes -> limit per hour]
  Hour,       \* ticks of an hour
  MaxClock,   \* bound on the clock of the host
  MaxSteps    \* bound on the times it is set back

ASSUME PacingAssumption ==
  /\ Outcomes \subseteq {"like", "favorite", "repost"}
  /\ Limit \in [Outcomes -> Nat \ {0}]
  /\ Hour \in Nat \ {0} /\ MaxClock \in Nat /\ MaxSteps \in Nat
  /\ IsFiniteSet(Devices) /\ IsFiniteSet(Targets)

Never == -1
NoWindow == -1
Times == 0..MaxClock
Rows == Targets \X Devices
Device(x) == x[2]
Capacity == 2 * Hour
Window(n) == n - (n % Hour)
Windows == {Window(n) : n \in Times}

VARIABLES
  plan,      \* device_action_plans by target and device
  tokens,    \* action_pacing_state.tokens, in parts
  at,        \* action_pacing_state.updated_at_ms, one for all outcomes
  books,     \* acquisition_quota_windows
  now,       \* the clock of the host
  steps      \* how often it was set back

vars == <<plan, tokens, at, books, now, steps>>

Unplanned ==
  [state |-> "none", requested |-> "trace", effective |-> "trace", reason |-> "none",
   window |-> NoWindow, created |-> 0, last |-> "none", eligible |-> FALSE]

PlanStates == {"none", "planned", "executing", "uncertain", "confirmed"}
Results == {"confirmed", "not_applied", "uncertain", "unavailable"}
Reasons == {"none", "profile_ineligible", "pacing_not_due", "limit_reached",
            "repost_unavailable"}

PlanRows ==
  [state : PlanStates, requested : Outcomes \cup {"trace"},
   effective : Outcomes \cup {"trace"}, reason : Reasons,
   window : Windows \cup {NoWindow}, created : Times,
   last : Results \cup {"none"}, eligible : BOOLEAN]
BookRows == [reserved : Nat, confirmed : Nat, uncertain : Nat]

TypeOK ==
  /\ plan \in [Rows -> PlanRows]
  /\ tokens \in [Devices -> [Outcomes -> 0..Capacity]]
  /\ at \in [Devices -> Times \cup {Never}]
  /\ books \in [Devices -> [Outcomes -> [Windows -> BookRows]]]
  /\ now \in Times /\ steps \in 0..MaxSteps

Empty == [reserved |-> 0, confirmed |-> 0, uncertain |-> 0]

\* The first fraction of a token is a hash of device and outcome; an earlier
\* round may have left the buckets as they are.
Init ==
  /\ plan = [x \in Rows |-> Unplanned]
  /\ tokens \in [Devices -> [Outcomes -> 0..(Hour - 1)]]
  /\ at \in [Devices -> {Never, 0}]
  /\ books = [d \in Devices |-> [o \in Outcomes |-> [w \in Windows |-> Empty]]]
  /\ now = 0 /\ steps = 0

-----------------------------------------------------------------------------
(* Pacing. *)

Least(a, b) == IF a < b THEN a ELSE b

\* MUTANT: the bucket has no brim.
RefilledBrimless(d, o) ==
  IF at[d] = Never THEN tokens[d][o] ELSE tokens[d][o] + (now - at[d]) * Limit[o]

\* The tokens of a bucket by now.
Refilled(d, o) ==
  IF at[d] = Never THEN tokens[d][o]
  ELSE Least(Capacity, tokens[d][o] + (now - at[d]) * Limit[o])

\* The plans of a device for an outcome.
Plans(d, o) ==
  {x \in Rows : Device(x) = d /\ plan[x].state # "none" /\ plan[x].effective = o}

\* MUTANT: the clock hour is counted.
UsedThisHour(d, o) ==
  Cardinality({x \in Plans(d, o) : Window(now) <= plan[x].created /\ plan[x].created <= now})

\* Those of the hour that ends at n.
LastHour(d, o, n) ==
  {x \in Plans(d, o) : n - Hour < plan[x].created /\ plan[x].created <= n}

\* _rolling_action_usage
Used(d, o) == Cardinality(LastHour(d, o, now))

Ready(d, o) == Refilled(d, o) >= Hour /\ Used(d, o) < Limit[o]

\* MUTANT: the bucket is read whatever the clock says.
CaughtUpAlways(d) == TRUE

\* action pacing time cannot move backward
CaughtUp(d) == at[d] <= now

Book(d, o, w, b) == books' = [books EXCEPT ![d][o][w] = b]

NewPlan(o, reason, w, e) ==
  [state |-> "planned", requested |-> o, effective |-> o, reason |-> reason,
   window |-> w, created |-> now, last |-> "none", eligible |-> e]

-----------------------------------------------------------------------------
(* Plans. *)

\* The row has no plan yet.
Missing(x) == plan[x].state = "none"

PlanIneligible(x) ==
  /\ Missing(x)
  /\ plan' = [plan EXCEPT ![x] = NewPlan("trace", "profile_ineligible", NoWindow, FALSE)]
  /\ UNCHANGED <<tokens, at, books, now, steps>>

\* create_paced_action_plan for an eligible profile: the draw may fall on any
\* outcome that is ready.
PlanPaced(x) ==
  LET d == Device(x)
      w == Window(now)
      full == [o \in Outcomes |-> Refilled(d, o)]
      Trace(reason) ==
        /\ plan' = [plan EXCEPT ![x] = NewPlan("trace", reason, NoWindow, TRUE)]
        /\ tokens' = [tokens EXCEPT ![d] = full]
        /\ UNCHANGED books
  IN /\ Missing(x) /\ CaughtUp(d)
     /\ at' = [at EXCEPT ![d] = now]
     /\ \/ (\A o \in Outcomes : ~Ready(d, o)) /\ Trace("pacing_not_due")
        \/ \E o \in Outcomes :
             /\ Ready(d, o)
             /\ IF books[d][o][w].reserved < Limit[o]
                THEN /\ plan' = [plan EXCEPT ![x] = NewPlan(o, "none", w, TRUE)]
                     /\ tokens' = [tokens EXCEPT ![d] = [full EXCEPT ![o] = @ - Hour]]
                     /\ Book(d, o, w, [books[d][o][w] EXCEPT !.reserved = @ + 1])
                ELSE Trace("limit_reached")
     /\ UNCHANGED <<now, steps>>

\* mark_action_executing
Execute(x) ==
  /\ plan[x].state = "planned" /\ plan[x].effective # "trace"
  /\ plan' = [plan EXCEPT ![x].state = "executing"]
  /\ UNCHANGED <<tokens, at, books, now, steps>>

\* MUTANT: an uncertain action that turns out confirmed stays in doubt.
CountedTwice(b, was, r) ==
  CASE r = "confirmed" -> [b EXCEPT !.confirmed = @ + 1]
    [] r = "uncertain" /\ was # "uncertain" -> [b EXCEPT !.uncertain = @ + 1]
    [] OTHER -> b

\* The books after result r for a plan in state was.
Counted(b, was, r) ==
  LET cleared == IF was = "uncertain" /\ b.uncertain > 0 THEN 1 ELSE 0
  IN CASE r = "confirmed" ->
            [b EXCEPT !.confirmed = @ + 1, !.uncertain = @ - cleared]
       [] r = "uncertain" /\ was # "uncertain" -> [b EXCEPT !.uncertain = @ + 1]
       [] r \in {"not_applied", "unavailable"} -> [b EXCEPT !.uncertain = @ - cleared]
       [] OTHER -> b

\* record_action_result; what was uncertain is only looked at again, and the
\* worker takes what it sees there for confirmed or uncertain.
Record(x, r) ==
  LET p == plan[x] IN
  /\ \/ p.state = "executing" /\ (r = "unavailable" => p.effective = "repost")
     \/ p.state = "uncertain" /\ r \in {"confirmed", "uncertain"}
  /\ plan' = [plan EXCEPT ![x].last = r,
                          ![x].state = IF r \in {"confirmed", "uncertain"}
                                       THEN r ELSE "planned"]
  /\ Book(Device(x), p.effective, p.window,
          Counted(books[Device(x)][p.effective][p.window], p.state, r))
  /\ UNCHANGED <<tokens, at, now, steps>>

\* A token comes back.
Returned(t) == Least(Capacity, t + Hour)

\* confirm_action_unavailable_as_trace
FallBack(x) ==
  LET p == plan[x]  d == Device(x) IN
  /\ p.effective = "repost" /\ p.state = "planned" /\ p.last = "unavailable"
  /\ books[d]["repost"][p.window].reserved > 0
  /\ Book(d, "repost", p.window, [books[d]["repost"][p.window] EXCEPT !.reserved = @ - 1])
  /\ tokens' = [tokens EXCEPT ![d]["repost"] = Returned(@)]
  /\ plan' = [plan EXCEPT ![x].effective = "trace", ![x].window = NoWindow,
                          ![x].reason = "repost_unavailable", ![x].state = "confirmed"]
  /\ UNCHANGED <<at, now, steps>>

ConfirmTrace(x) ==
  /\ plan[x].state = "planned" /\ plan[x].effective = "trace"
  /\ plan' = [plan EXCEPT ![x].state = "confirmed"]
  /\ UNCHANGED <<tokens, at, books, now, steps>>

-----------------------------------------------------------------------------
(* The clock of the host. *)

Tick == now < MaxClock /\ now' = now + 1 /\ UNCHANGED <<plan, tokens, at, books, steps>>

SetBack ==
  /\ steps < MaxSteps
  /\ \E n \in Times : n < now /\ now' = n
  /\ steps' = steps + 1
  /\ UNCHANGED <<plan, tokens, at, books>>

Next ==
  \/ Tick \/ SetBack
  \/ \E x \in Rows :
       \/ PlanIneligible(x) \/ PlanPaced(x) \/ Execute(x)
       \/ FallBack(x) \/ ConfirmTrace(x)
       \/ \E r \in Results : Record(x, r)

Spec == Init /\ [][Next]_vars

-----------------------------------------------------------------------------
(* The audit of a round. *)

\* _capacity_plan_relationship_is_valid, without the case of a plan that asked
\* for an outcome and was refused by the hour: only create_action_plan, which
\* the workers do not call, makes such plans.
Related(p) ==
  \/ /\ ~p.eligible
     /\ p.requested = "trace" /\ p.effective = "trace"
     /\ p.window = NoWindow /\ p.reason = "profile_ineligible"
  \/ /\ p.eligible /\ p.requested = "trace" /\ p.effective = "trace"
     /\ p.window = NoWindow /\ p.reason \in {"none", "pacing_not_due"}
  \/ /\ p.eligible /\ p.requested = "repost" /\ p.effective = "trace"
     /\ p.window = NoWindow /\ p.reason = "repost_unavailable"
  \/ /\ p.eligible /\ p.requested # "trace" /\ p.effective = p.requested
     /\ p.window = Window(p.created) /\ p.reason = "none"

\* The plans of the audit that do not fit: confirmed ones that contradict
\* themselves, and interactions without their clock hour.
Misfits ==
  {x \in Rows :
     \/ plan[x].state = "confirmed" /\ ~Related(plan[x])
     \/ plan[x].effective # "trace" /\ plan[x].window # Window(plan[x].created)}

InWindow(d, o, w) == {x \in Plans(d, o) : plan[x].window = w}

InState(d, o, w, s) == {x \in InWindow(d, o, w) : plan[x].state = s}

\* The hours of the audit whose books do not agree with the plans.
Overrun(d, o, w) ==
  LET b == books[d][o][w] IN
  \/ b.reserved > Limit[o]
  \/ b.confirmed + b.uncertain > b.reserved
  \/ b.reserved # Cardinality(InWindow(d, o, w))
  \/ b.confirmed # Cardinality(InState(d, o, w, "confirmed"))
  \/ b.uncertain # Cardinality(InState(d, o, w, "uncertain"))

-----------------------------------------------------------------------------
(* Properties. *)

\* In no hour, wherever it begins, are there more plans for an outcome than
\* its limit, although the count is taken only now and again, the clock may be
\* set back and a reposting that proved impossible gives its place back.
RollingKept ==
  \A d \in Devices, o \in Outcomes :
    \A last \in Plans(d, o) :
      Cardinality(LastHour(d, o, plan[last].created)) <= Limit[o]

\* The plans of moments m..n, and those before m that gave their token back.
Made(d, o, m, n) == {x \in Plans(d, o) : m <= plan[x].created /\ plan[x].created <= n}

GaveBack(d, o, m) ==
  {x \in Rows : /\ Device(x) = d /\ plan[x].created < m
                /\ plan[x].requested = o /\ plan[x].reason = "repost_unavailable"}

\* Plans are spread over the hour: between a moment m and a later plan there
\* are no more than the bucket holds, what flows in meanwhile, and what older
\* plans gave back.
Paced ==
  \A d \in Devices, o \in Outcomes :
    \A last \in Plans(d, o) : \A m \in 0..plan[last].created :
      LET n == plan[last].created
      IN Hour * Cardinality(Made(d, o, m, n))
           <= Capacity + (n - m) * Limit[o] + Hour * Cardinality(GaveBack(d, o, m))

\* The audit finds nothing: the books of every hour agree with the plans, and
\* no plan is in contradiction with itself, in particular none was refused by
\* the books of the hour after the rolling hour had let it pass.
AuditClean ==
  /\ Misfits = {}
  /\ \A d \in Devices, o \in Outcomes, w \in Windows : ~Overrun(d, o, w)

-----------------------------------------------------------------------------
(* What makes them inductive. *)

\* A row without a plan is blank, a plan is related to its columns whatever
\* its state, and only interactions are carried out.
Fits ==
  \A x \in Rows :
    /\ plan[x].state = "none" => plan[x] = Unplanned
    /\ plan[x].state # "none" => Related(plan[x])
    /\ plan[x].state \in {"executing", "uncertain"} => plan[x].effective # "trace"

\* No interaction is younger than its device's bucket: this is why a clock
\* that was set back must catch up before the next plan.
Dated == \A x \in Rows : plan[x].effective # "trace" => plan[x].created <= at[Device(x)]

\* The books of every clock hour agree with the plans.
BooksAgree == \A d \in Devices, o \in Outcomes, w \in Windows : ~Overrun(d, o, w)

\* What a bucket holds and what was made of it since a moment m does not
\* exceed what it could hold at m, what flowed in since, and what older plans
\* gave back.
Balanced ==
  \A d \in Devices, o \in Outcomes, m \in Times :
    m <= at[d] =>
      tokens[d][o] + Hour * Cardinality(Made(d, o, m, at[d]))
        <= Capacity + (at[d] - m) * Limit[o] + Hour * Cardinality(GaveBack(d, o, m))

\* Every plan takes the course PlanCourse describes.
Course(x) == INSTANCE PlanCourse WITH
  state <- plan[x].state, requested <- plan[x].requested,
  effective <- plan[x].effective, last <- plan[x].last

ImplementsPlans == \A x \in Rows : Course(x)!PlanSpec

IInv ==
  TypeOK /\ Fits /\ Dated /\ BooksAgree /\ Balanced /\ RollingKept /\ Paced

=============================================================================
