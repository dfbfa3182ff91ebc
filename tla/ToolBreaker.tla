----------------------------- MODULE ToolBreaker -----------------------------
(***************************************************************************)
(* ToolRegistry.call: concurrent calls of one tool through its circuit     *)
(* breaker, with timeouts, cancellations and a clock.  A call touches only *)
(* the ToolRuntime of its own tool, so one tool stands for each of them.   *)
(* Everything between two awaits is atomic in the event loop: the handler  *)
(* is awaited once (line 96), so a call is an admission and an ending.     *)
(*                                                                         *)
(* Time is discrete.  The event loop fires a timeout before its clock      *)
(* passes the deadline (Tick).                                             *)
(***************************************************************************)
EXTENDS Naturals, Sequences, FiniteSets

CONSTANTS Calls,            \* invocations of the tool
          Agents,           \* agents that may ask for it
          AllowedAgents,    \* ToolSpec.allowed_agents
          Threshold,        \* ToolSpec.failure_threshold
          Cooldown,         \* ToolSpec.cooldown_seconds
          Timeout,          \* ToolSpec.timeout_seconds
          Horizon           \* bound on the clock

ASSUME BreakerAssumption ==
  /\ IsFiniteSet(Calls)
  /\ AllowedAgents \subseteq Agents
  /\ Threshold \in Nat \ {0} /\ Cooldown \in Nat \ {0} /\ Timeout \in Nat \ {0}
  /\ Horizon \in Nat

VARIABLES clock,                  \* time.monotonic()
          counters,               \* calls, successes, failures of ToolRuntime
          consecutive_failures,   \* ToolRuntime.consecutive_failures
          circuit_open_until,     \* ToolRuntime.circuit_open_until
          pc,                     \* pc[c]: where call c is
          deadline,               \* deadline[c]: when wait_for gives up on c
          outcomes,               \* history: how and when executed calls ended
          opened_at               \* history: when the circuit last opened

runtime == <<counters, consecutive_failures, circuit_open_until>>
vars == <<clock, runtime, pc, deadline, outcomes, opened_at>>

Ended == {"returned", "failed", "cancelled", "denied", "bad_input", "refused"}

Init == /\ clock = 1
        /\ counters = [calls |-> 0, successes |-> 0, failures |-> 0]
        /\ consecutive_failures = 0
        /\ circuit_open_until = 0
        /\ pc = [c \in Calls |-> "idle"]
        /\ deadline = [c \in Calls |-> 0]
        /\ outcomes = << >>
        /\ opened_at = 0

At(label) == {c \in Calls : pc[c] = label}

Running == At("running")

Goto(c, label) == pc' = [pc EXCEPT ![c] = label]

Open == circuit_open_until > clock

-----------------------------------------------------------------------------
\* Not authorized, or arguments that do not bind: no runtime is touched.
Deny(c, agent) ==
  /\ pc[c] = "idle"
  /\ \/ agent \notin AllowedAgents /\ Goto(c, "denied")
     \/ agent \in AllowedAgents /\ Goto(c, "bad_input")
  /\ UNCHANGED <<clock, runtime, deadline, outcomes, opened_at>>

Refuse(c, agent) ==
  /\ pc[c] = "idle"
  /\ agent \in AllowedAgents
  /\ Open
  /\ Goto(c, "refused")
  /\ UNCHANGED <<clock, runtime, deadline, outcomes, opened_at>>

Admit(c, agent) ==
  /\ pc[c] = "idle"
  /\ agent \in AllowedAgents
  /\ ~Open
  /\ counters' = [counters EXCEPT !.calls = @ + 1]
  /\ deadline' = [deadline EXCEPT ![c] = clock + Timeout]
  /\ Goto(c, "running")
  /\ UNCHANGED <<clock, consecutive_failures, circuit_open_until, outcomes, opened_at>>

-----------------------------------------------------------------------------
Bug_AfterSuccess == UNCHANGED consecutive_failures

Bug_ForgivesOne == consecutive_failures' = consecutive_failures - 1

AfterSuccess == consecutive_failures' = 0

\* The handler returned: lines 104 to 107.
Succeed(c) ==
  /\ pc[c] = "running"
  /\ counters' = [counters EXCEPT !.successes = @ + 1]
  /\ AfterSuccess
  /\ circuit_open_until' = 0
  /\ outcomes' = Append(outcomes, [ok |-> TRUE, at |-> clock])
  /\ Goto(c, "returned")
  /\ UNCHANGED <<clock, deadline, opened_at>>

Trips == consecutive_failures + 1 >= Threshold

\* The handler raised, at any time, or wait_for timed out: lines 97 to 102.
Fail(c) ==
  /\ pc[c] = "running"
  /\ counters' = [counters EXCEPT !.failures = @ + 1]
  /\ consecutive_failures' = consecutive_failures + 1
  /\ circuit_open_until' = IF Trips THEN clock + Cooldown ELSE circuit_open_until
  /\ opened_at' = IF Trips /\ ~Open THEN clock ELSE opened_at
  /\ outcomes' = Append(outcomes, [ok |-> FALSE, at |-> clock])
  /\ Goto(c, "failed")
  /\ UNCHANGED <<clock, deadline>>

Bug_Cancel(c) ==
  /\ pc[c] = "running"
  /\ counters' = [counters EXCEPT !.failures = @ + 1]
  /\ Goto(c, "cancelled")
  /\ UNCHANGED <<clock, consecutive_failures, circuit_open_until, deadline,
                 outcomes, opened_at>>

\* CancelledError is not an Exception: neither branch counts the call.
Cancel(c) ==
  /\ pc[c] = "running"
  /\ Goto(c, "cancelled")
  /\ UNCHANGED <<clock, runtime, deadline, outcomes, opened_at>>

Bug_Urgent == {}

\* Calls whose wait_for must end before the clock moves on.
Urgent == {c \in Running : deadline[c] <= clock}

Tick ==
  /\ clock < Horizon
  /\ Urgent = {}
  /\ clock' = clock + 1
  /\ UNCHANGED <<runtime, pc, deadline, outcomes, opened_at>>

Next == \/ Tick
        \/ \E c \in Calls :
             \/ Succeed(c) \/ Fail(c) \/ Cancel(c)
             \/ \E agent \in Agents : Deny(c, agent) \/ Refuse(c, agent) \/ Admit(c, agent)

Spec == Init /\ [][Next]_vars

-----------------------------------------------------------------------------
(* Properties.                                                             *)

TypeOK ==
  /\ clock \in Nat
  /\ counters \in [calls : Nat, successes : Nat, failures : Nat]
  /\ consecutive_failures \in Nat
  /\ circuit_open_until \in Nat
  /\ pc \in [Calls -> {"idle", "running"} \cup Ended]
  /\ deadline \in [Calls -> Nat]
  /\ opened_at \in Nat
  /\ outcomes \in Seq([ok : BOOLEAN, at : Nat])

\* The last Threshold executed calls to end all failed.
Streak == /\ Len(outcomes) >= Threshold
          /\ \A i \in 0..(Threshold - 1) : ~outcomes[Len(outcomes) - i].ok

\* The circuit is open exactly when the last Threshold calls to end failed and
\* the last of them less than Cooldown ago, whatever was cancelled, refused or
\* called with wrong arguments in between (comment at registry.py:86).
\* A success of a call admitted before it opened closes it as well.
OpenExactly == Open <=> Streak /\ clock < outcomes[Len(outcomes)].at + Cooldown

\* The failures since the last success, as the history has them.
LateFailures == {i \in 1..Len(outcomes) : \A j \in i..Len(outcomes) : ~outcomes[j].ok}

\* metrics(), through calls that overlap and are cancelled: every admitted call
\* is counted once, as a success if it returned, as a failure if it raised or
\* timed out, and only as a call while it runs or if it was cancelled; and
\* consecutive_failures is the number of failures since the last success.
CallsAccounted ==
  /\ counters.calls = counters.successes + counters.failures
       + Cardinality(Running) + Cardinality(At("cancelled"))
  /\ counters.successes = Cardinality(At("returned"))
  /\ counters.failures = Cardinality(At("failed"))
  /\ consecutive_failures = Cardinality(LateFailures)

\* Calls admitted before the circuit opened may fail later and prolong it, but
\* by one timeout at most: nothing is admitted while it is open, and wait_for
\* ends what was.
ProlongedAtMost == Open => circuit_open_until <= opened_at + Timeout + Cooldown

=============================================================================
