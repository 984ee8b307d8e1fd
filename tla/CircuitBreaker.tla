--------------------------- MODULE CircuitBreaker ---------------------------
(***************************************************************************)
(* What the circuit of an account promises about claims of its actions:    *)
(* while it is closed claims are given out freely, in a cooldown none is,  *)
(* and once the time set for the cooldown is over one is given out on      *)
(* probation.  Whatever goes wrong opens it again for a time of its own,   *)
(* and only with a trial under way can it close.  A claim is never given   *)
(* out over one that has not run out.                                      *)
(*                                                                         *)
(* FollowbackCircuit, with its tabs, stamps, late results and crashes,     *)
(* implements this.                                                        *)
(***************************************************************************)
EXTENDS Naturals

CONSTANTS
  Actions,    \* what claims are made for
  Owners,     \* who claims
  NoOne,      \* no action on trial, no owner
  Term,       \* how long a claim lasts at most
  Longest     \* how long a cooldown lasts at most

VARIABLES
  clock,
  breaker,    \* state, end of the cooldown, action on trial
  claims      \* the last claim of each action: its owner and its end

breakerVars == <<clock, breaker, claims>>

BreakerInit ==
  /\ clock = 0
  /\ breaker = [state |-> "closed", until |-> 0, canary |-> NoOne]
  /\ claims = [f \in Actions |-> [owner |-> NoOne, until |-> 0]]

\* The action is claimed: the claim before has run out and ends earlier.
GivenOut(f) ==
  /\ claims[f].until <= clock
  /\ \E t \in Owners, end \in claims[f].until + 1 .. clock + Term :
       claims' = [claims EXCEPT ![f] = [owner |-> t, until |-> end]]

\* The time of a cooldown is over.
Over == breaker.state = "cooldown" /\ breaker.until <= clock

\* Nothing is on trial yet in the probation, which may begin with this step.
Untried == Over \/ (breaker.state = "canary" /\ breaker.canary = NoOne)

Pass(f) ==
  /\ breaker.state = "closed"
  /\ GivenOut(f)
  /\ UNCHANGED <<clock, breaker>>

Try(f) ==
  /\ Untried
  /\ GivenOut(f)
  /\ breaker' = [breaker EXCEPT !.state = "canary", !.canary = f]
  /\ UNCHANGED clock

Open ==
  /\ \E d \in 1..Longest :
       breaker' = [state |-> "cooldown", until |-> clock + d, canary |-> NoOne]
  /\ UNCHANGED <<clock, claims>>

Probe ==
  /\ Over
  /\ breaker' = [breaker EXCEPT !.state = "canary", !.canary = NoOne]
  /\ UNCHANGED <<clock, claims>>

Close ==
  /\ breaker.state = "canary" /\ breaker.canary # NoOne
  /\ breaker' = [state |-> "closed", until |-> 0, canary |-> NoOne]
  /\ UNCHANGED <<clock, claims>>

Pause ==
  /\ clock' = clock + 1
  /\ UNCHANGED <<breaker, claims>>

BreakerNext ==
  \/ \E f \in Actions : Pass(f) \/ Try(f)
  \/ Open \/ Probe \/ Close \/ Pause

BreakerSpec == BreakerInit /\ [][BreakerNext]_breakerVars

=============================================================================
