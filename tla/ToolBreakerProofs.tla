-------------------------- MODULE ToolBreakerProofs --------------------------
(***************************************************************************)
(* Proofs about ToolBreaker, for every number of calls and agents, every   *)
(* threshold, cooldown and timeout, and every bound on the clock.          *)
(***************************************************************************)
EXTENDS ToolBreaker, FiniteSetTheorems, TLAPS

-----------------------------------------------------------------------------
(* The inductive invariant.                                                *)

Outcome == [ok : BOOLEAN, at : Nat]

\* consecutive_failures counts the failures since the last success.
StreakInv ==
  /\ consecutive_failures <= Len(outcomes)
  /\ \A i \in 1..Len(outcomes) :
       i > Len(outcomes) - consecutive_failures => ~outcomes[i].ok
  /\ consecutive_failures < Len(outcomes)
       => outcomes[Len(outcomes) - consecutive_failures].ok

\* The circuit opens with the failure that reaches the threshold, and each
\* later one moves its end.
CircuitInv ==
  /\ consecutive_failures >= Threshold =>
       circuit_open_until = outcomes[Len(outcomes)].at + Cooldown
  /\ consecutive_failures < Threshold => circuit_open_until = 0

\* wait_for ends a running call by its deadline, and what runs while the
\* circuit is open was admitted before it opened.
DeadlineInv ==
  /\ \A c \in Running : clock <= deadline[c] /\ deadline[c] <= clock + Timeout
  /\ Open => \A c \in Running : deadline[c] <= opened_at + Timeout

\* The counters are the sizes of the sets of calls that they count.
CountInv ==
  /\ counters.calls = counters.successes + counters.failures
       + Cardinality(Running) + Cardinality(At("cancelled"))
  /\ counters.successes = Cardinality(At("returned"))
  /\ counters.failures = Cardinality(At("failed"))

IInv == /\ TypeOK
        /\ StreakInv
        /\ CircuitInv
        /\ DeadlineInv
        /\ CountInv
        /\ ProlongedAtMost

-----------------------------------------------------------------------------
(* What an admission and an ending do to the sets that are counted.        *)

Executed == {"returned", "failed", "cancelled"}

LEMMA FiniteCounts ==
  ASSUME NEW label
  PROVE  IsFiniteSet(At(label)) /\ Cardinality(At(label)) \in Nat
<1>1. At(label) \in SUBSET Calls
  BY DEF At
<1>2. IsFiniteSet(At(label))
  BY <1>1, FS_Subset, BreakerAssumption
<1>. QED
  BY <1>2, FS_CardinalityType

\* A call that stops running is one running call less, and one more of those
\* that ended like it.
LEMMA OneLess ==
  ASSUME TypeOK, NEW c \in Calls, pc[c] = "running",
         NEW label \in Executed, Goto(c, label)
  PROVE  /\ pc' \in [Calls -> {"idle", "running"} \cup Ended]
         /\ Running' = Running \ {c}
         /\ Cardinality(Running)' = Cardinality(Running) - 1
         /\ Cardinality(At(label))' = Cardinality(At(label)) + 1
         /\ \A other \in Executed \ {label} :
              Cardinality(At(other))' = Cardinality(At(other))
<1>1. pc'[c] = label /\ \A d \in Calls \ {c} : pc'[d] = pc[d]
  BY DEF TypeOK, Goto
<1>2. pc' \in [Calls -> {"idle", "running"} \cup Ended]
  BY DEF TypeOK, Goto, Executed, Ended
<1>3. Running' = Running \ {c} /\ c \in Running
  BY <1>1 DEF Running, At, Ended, Executed
<1>4. Cardinality(Running \ {c}) = Cardinality(Running) - 1
  BY <1>3, FiniteCounts, FS_RemoveElement DEF Running
<1>5. Cardinality(At(label))' = Cardinality(At(label)) + 1
  <2>1. At(label)' = At(label) \cup {c} /\ c \notin At(label)
    BY <1>1 DEF At, Ended, Executed
  <2>2. Cardinality(At(label) \cup {c}) = Cardinality(At(label)) + 1
    BY <2>1, FiniteCounts, FS_AddElement
  <2>. QED
    BY <2>1, <2>2
<1>6. ASSUME NEW other \in Executed \ {label}
      PROVE  Cardinality(At(other))' = Cardinality(At(other))
  <2>1. At(other)' = At(other)
    BY <1>1 DEF At, Ended, Executed
  <2>. QED
    BY <2>1
<1>. QED
  BY <1>2, <1>3, <1>4, <1>5, <1>6

\* A call that is admitted or turned away joins none of the sets of those that
\* were executed to an end.
LEMMA NoneEnds ==
  ASSUME TypeOK, NEW c \in Calls, pc[c] = "idle",
         NEW label, label \notin Executed, Goto(c, label)
  PROVE  \A other \in Executed :
           Cardinality(At(other))' = Cardinality(At(other))
<1>1. pc'[c] = label /\ \A d \in Calls \ {c} : pc'[d] = pc[d]
  BY DEF TypeOK, Goto
<1>. SUFFICES ASSUME NEW other \in Executed
              PROVE  Cardinality(At(other))' = Cardinality(At(other))
  OBVIOUS
<1>2. At(other)' = At(other)
  BY <1>1 DEF At, Executed
<1>. QED
  BY <1>2

\* The history grows by one outcome at its end.
LEMMA OneMoreOutcome ==
  ASSUME TypeOK, NEW e \in Outcome, outcomes' = Append(outcomes, e)
  PROVE  /\ outcomes' \in Seq(Outcome)
         /\ Len(outcomes) \in Nat
         /\ Len(outcomes') = Len(outcomes) + 1
         /\ outcomes'[Len(outcomes')] = e
         /\ \A i \in 1..Len(outcomes) : outcomes'[i] = outcomes[i]
  BY DEF TypeOK, Outcome

\* The counters are natural numbers, whichever of them grows.
LEMMA CountersType ==
  ASSUME TypeOK,
         \/ counters' = [counters EXCEPT !.calls = @ + 1]
         \/ counters' = [counters EXCEPT !.successes = @ + 1]
         \/ counters' = [counters EXCEPT !.failures = @ + 1]
  PROVE  counters' \in [calls : Nat, successes : Nat, failures : Nat]
<1>. DEFINE C == [calls : Nat, successes : Nat, failures : Nat]
<1>1. counters \in C /\ counters.calls + 1 \in Nat
      /\ counters.successes + 1 \in Nat /\ counters.failures + 1 \in Nat
  BY DEF TypeOK
<1>2. /\ [counters EXCEPT !.calls = counters.calls + 1] \in C
      /\ [counters EXCEPT !.successes = counters.successes + 1] \in C
      /\ [counters EXCEPT !.failures = counters.failures + 1] \in C
  BY <1>1
<1>. QED
  BY <1>2

-----------------------------------------------------------------------------
(* The invariant holds at the start and is kept by every action.           *)

LEMMA InitHolds == Init => IInv
<1>. SUFFICES ASSUME Init PROVE IInv
  OBVIOUS
<1>1. TypeOK
  BY DEF Init, TypeOK
<1>2. Running = {} /\ \A label \in Executed : At(label) = {}
  BY DEF Init, Running, At, Executed
<1>3. StreakInv /\ CircuitInv
  BY BreakerAssumption DEF Init, StreakInv, CircuitInv
<1>4. DeadlineInv /\ ProlongedAtMost
  BY <1>2 DEF Init, DeadlineInv, ProlongedAtMost, Open
<1>5. CountInv
  <2>1. /\ At("returned") = {} /\ At("failed") = {} /\ At("cancelled") = {}
    BY <1>2 DEF Executed
  <2>2. /\ counters.calls = 0 /\ counters.successes = 0 /\ counters.failures = 0
    BY DEF Init
  <2>3. Cardinality({}) = 0
    BY FS_EmptySet
  <2>4. 0 = 0 + 0 + 0 + 0
    OBVIOUS
  <2>. QED
    BY <1>2, <2>1, <2>2, <2>3, <2>4 DEF CountInv
<1>. QED
  BY <1>1, <1>3, <1>4, <1>5 DEF IInv

\* A call that is turned away leaves the breaker as it was.
LEMMA TurnedAwayStep ==
  ASSUME IInv, NEW c \in Calls, pc[c] = "idle",
         NEW label \in {"denied", "bad_input", "refused"}, Goto(c, label),
         UNCHANGED <<clock, runtime, deadline, outcomes, opened_at>>
  PROVE  IInv'
<1>. USE DEF IInv, runtime
<1>1. pc'[c] = label /\ \A d \in Calls \ {c} : pc'[d] = pc[d]
  BY DEF TypeOK, Goto
<1>2. TypeOK'
  BY DEF TypeOK, Goto, Ended
<1>3. Running' = Running
  BY <1>1 DEF Running, At
<1>4. StreakInv' /\ CircuitInv'
  BY DEF StreakInv, CircuitInv
<1>5. DeadlineInv' /\ ProlongedAtMost'
  BY <1>3 DEF DeadlineInv, ProlongedAtMost, Open
<1>6. CountInv'
  <2>1. \A other \in Executed : Cardinality(At(other))' = Cardinality(At(other))
    BY NoneEnds DEF Executed
  <2>. QED
    BY <1>3, <2>1 DEF CountInv, Executed
<1>. QED
  BY <1>2, <1>4, <1>5, <1>6

\* Calls are admitted while the circuit is closed only.
LEMMA AdmitStep ==
  ASSUME IInv, NEW c \in Calls, NEW agent \in Agents, Admit(c, agent)
  PROVE  IInv'
<1>. USE DEF IInv
<1>1. /\ pc[c] = "idle" /\ ~Open
      /\ counters' = [counters EXCEPT !.calls = @ + 1]
      /\ deadline' = [deadline EXCEPT ![c] = clock + Timeout]
      /\ Goto(c, "running")
      /\ UNCHANGED <<clock, consecutive_failures, circuit_open_until,
                     outcomes, opened_at>>
  BY DEF Admit
<1>2. /\ pc'[c] = "running" /\ \A d \in Calls \ {c} : pc'[d] = pc[d]
      /\ deadline'[c] = clock + Timeout
      /\ \A d \in Calls \ {c} : deadline'[d] = deadline[d]
  BY <1>1 DEF TypeOK, Goto
<1>3. TypeOK'
  <2>1. counters' \in [calls : Nat, successes : Nat, failures : Nat]
    BY <1>1, CountersType
  <2>2. pc' \in [Calls -> {"idle", "running"} \cup Ended]
    BY <1>1 DEF TypeOK, Goto
  <2>3. deadline' \in [Calls -> Nat]
    BY <1>1, BreakerAssumption DEF TypeOK
  <2>. QED
    BY <1>1, <2>1, <2>2, <2>3 DEF TypeOK
<1>4. Running' = Running \cup {c} /\ c \notin Running
  BY <1>1, <1>2 DEF Running, At
<1>5. Cardinality(Running)' = Cardinality(Running) + 1
  BY <1>4, FiniteCounts, FS_AddElement DEF Running
<1>6. /\ counters'.calls = counters.calls + 1
      /\ counters'.successes = counters.successes
      /\ counters'.failures = counters.failures
  BY <1>1 DEF TypeOK
<1>7. CountInv'
  <2>1. \A other \in Executed : Cardinality(At(other))' = Cardinality(At(other))
    BY <1>1, NoneEnds DEF Executed
  <2>2. Cardinality(Running) \in Nat /\ Cardinality(At("cancelled")) \in Nat
    BY FiniteCounts DEF Running
  <2>. QED
    BY <1>5, <1>6, <2>1, <2>2 DEF CountInv, Executed, TypeOK
<1>8. StreakInv' /\ CircuitInv'
  BY <1>1 DEF StreakInv, CircuitInv
<1>9. ~Open'
  BY <1>1 DEF Open
<1>10. DeadlineInv' /\ ProlongedAtMost'
  BY <1>1, <1>2, <1>4, <1>9, BreakerAssumption
  DEF DeadlineInv, ProlongedAtMost, Running, At, TypeOK
<1>. QED
  BY <1>3, <1>7, <1>8, <1>10

\* One success ends the streak and closes the circuit.
LEMMA SucceedStep ==
  ASSUME IInv, NEW c \in Calls, Succeed(c)
  PROVE  IInv'
<1>. USE DEF IInv
<1>. DEFINE e == [ok |-> TRUE, at |-> clock]
<1>1. /\ pc[c] = "running"
      /\ counters' = [counters EXCEPT !.successes = @ + 1]
      /\ consecutive_failures' = 0
      /\ circuit_open_until' = 0
      /\ outcomes' = Append(outcomes, e)
      /\ Goto(c, "returned")
      /\ UNCHANGED <<clock, deadline, opened_at>>
  BY DEF Succeed, AfterSuccess
<1>2. e \in Outcome /\ "returned" \in Executed
  BY DEF TypeOK, Outcome, Executed
<1>3. /\ Running' = Running \ {c}
      /\ Cardinality(Running)' = Cardinality(Running) - 1
      /\ Cardinality(At("returned"))' = Cardinality(At("returned")) + 1
      /\ \A other \in Executed \ {"returned"} :
           Cardinality(At(other))' = Cardinality(At(other))
      /\ pc' \in [Calls -> {"idle", "running"} \cup Ended]
  BY <1>1, <1>2, OneLess
<1>4. /\ outcomes' \in Seq(Outcome)
      /\ Len(outcomes) \in Nat
      /\ Len(outcomes') = Len(outcomes) + 1
      /\ outcomes'[Len(outcomes')] = e
  BY <1>1, <1>2, OneMoreOutcome
<1>5. TypeOK'
  <2>1. counters' \in [calls : Nat, successes : Nat, failures : Nat]
    BY <1>1, CountersType
  <2>. QED
    BY <1>1, <1>3, <1>4, <2>1 DEF TypeOK, Outcome
<1>6. StreakInv'
  BY <1>1, <1>4 DEF StreakInv
<1>7. CircuitInv' /\ ~Open'
  <2>1. ~(0 > clock) /\ ~(0 >= Threshold)
    BY BreakerAssumption DEF TypeOK
  <2>. QED
    BY <1>1, <2>1 DEF CircuitInv, Open
<1>8. DeadlineInv' /\ ProlongedAtMost'
  BY <1>1, <1>3, <1>7 DEF DeadlineInv, ProlongedAtMost
<1>9. CountInv'
  <2>1. /\ counters'.calls = counters.calls
        /\ counters'.successes = counters.successes + 1
        /\ counters'.failures = counters.failures
    BY <1>1 DEF TypeOK
  <2>2. Cardinality(Running) \in Nat /\ Cardinality(At("cancelled")) \in Nat
    BY FiniteCounts DEF Running
  <2>. QED
    BY <1>3, <2>1, <2>2 DEF CountInv, Executed, TypeOK
<1>. QED
  BY <1>5, <1>6, <1>7, <1>8, <1>9

\* A failure lengthens the streak; from the threshold on it opens the circuit
\* or moves its end, and then its call had been admitted before it opened.
LEMMA FailStep ==
  ASSUME IInv, NEW c \in Calls, Fail(c)
  PROVE  IInv'
<1>. USE DEF IInv
<1>. DEFINE e == [ok |-> FALSE, at |-> clock]
<1>1. /\ pc[c] = "running"
      /\ counters' = [counters EXCEPT !.failures = @ + 1]
      /\ consecutive_failures' = consecutive_failures + 1
      /\ circuit_open_until' = IF Trips THEN clock + Cooldown ELSE circuit_open_until
      /\ opened_at' = IF Trips /\ ~Open THEN clock ELSE opened_at
      /\ outcomes' = Append(outcomes, e)
      /\ Goto(c, "failed")
      /\ UNCHANGED <<clock, deadline>>
  BY DEF Fail
<1>2. e \in Outcome /\ "failed" \in Executed
  BY DEF TypeOK, Outcome, Executed
<1>3. /\ Running' = Running \ {c}
      /\ Cardinality(Running)' = Cardinality(Running) - 1
      /\ Cardinality(At("failed"))' = Cardinality(At("failed")) + 1
      /\ \A other \in Executed \ {"failed"} :
           Cardinality(At(other))' = Cardinality(At(other))
      /\ pc' \in [Calls -> {"idle", "running"} \cup Ended]
  BY <1>1, <1>2, OneLess
<1>4. /\ outcomes' \in Seq(Outcome)
      /\ Len(outcomes) \in Nat
      /\ Len(outcomes') = Len(outcomes) + 1
      /\ outcomes'[Len(outcomes')] = e
      /\ \A i \in 1..Len(outcomes) : outcomes'[i] = outcomes[i]
  BY <1>1, <1>2, OneMoreOutcome
<1>5. TypeOK'
  <2>1. counters' \in [calls : Nat, successes : Nat, failures : Nat]
    BY <1>1, CountersType
  <2>2. circuit_open_until' \in Nat /\ opened_at' \in Nat
    BY <1>1, BreakerAssumption DEF TypeOK
  <2>. QED
    BY <1>1, <1>3, <1>4, <2>1, <2>2 DEF TypeOK, Outcome
<1>6. StreakInv'
  <2>. DEFINE n == Len(outcomes)
  <2>1. consecutive_failures \in Nat /\ n \in Nat
    BY <1>4 DEF TypeOK
  <2>2. n + 1 - (consecutive_failures + 1) = n - consecutive_failures
    BY <2>1
  <2>3. ASSUME NEW i \in 1..(n + 1), i > n - consecutive_failures
        PROVE  ~outcomes'[i].ok
    <3>1. CASE i = n + 1
      BY <1>4, <3>1
    <3>2. CASE i \in 1..n
      BY <1>4, <2>3, <3>2 DEF StreakInv
    <3>. QED
      BY <2>1, <3>1, <3>2
  <2>4. ASSUME consecutive_failures < n
        PROVE  outcomes'[n - consecutive_failures].ok
    <3>1. n - consecutive_failures \in 1..n
      BY <2>1, <2>4
    <3>. QED
      BY <1>4, <2>4, <3>1 DEF StreakInv
  <2>. QED
    BY <1>1, <1>4, <2>1, <2>2, <2>3, <2>4 DEF StreakInv
<1>7. CircuitInv'
  BY <1>1, <1>4, BreakerAssumption DEF CircuitInv, Trips, TypeOK
<1>8. DeadlineInv' /\ ProlongedAtMost'
  <2>1. \A d \in Running : /\ deadline'[d] = deadline[d]
                           /\ deadline[d] \in Nat
                           /\ clock <= deadline[d]
                           /\ deadline[d] <= clock + Timeout
    BY <1>1 DEF DeadlineInv, Running, At, TypeOK
  <2>2. CASE ~Trips
    <3>1. circuit_open_until' = 0
      BY <1>1, <2>2, BreakerAssumption DEF CircuitInv, Trips, TypeOK
    <3>. QED
      BY <1>1, <1>3, <2>1, <3>1 DEF DeadlineInv, ProlongedAtMost, Open, TypeOK
  <2>3. CASE Trips /\ ~Open
    BY <1>1, <1>3, <2>1, <2>3, BreakerAssumption
    DEF DeadlineInv, ProlongedAtMost, Open, TypeOK
  <2>4. CASE Trips /\ Open
    <3>1. c \in Running /\ deadline[c] <= opened_at + Timeout
      BY <1>1, <2>4 DEF DeadlineInv, Running, At
    <3>2. opened_at' = opened_at /\ circuit_open_until' = clock + Cooldown
      BY <1>1, <2>4
    <3>3. \A d \in Running : deadline[d] <= opened_at + Timeout
      BY <2>4 DEF DeadlineInv
    <3>4. clock + Cooldown <= opened_at + Timeout + Cooldown
      BY <2>1, <3>1, BreakerAssumption DEF TypeOK
    <3>. QED
      BY <1>1, <1>3, <2>1, <3>2, <3>3, <3>4 DEF DeadlineInv, ProlongedAtMost
  <2>. QED
    BY <2>2, <2>3, <2>4
<1>9. CountInv'
  <2>1. /\ counters'.calls = counters.calls
        /\ counters'.successes = counters.successes
        /\ counters'.failures = counters.failures + 1
    BY <1>1 DEF TypeOK
  <2>2. Cardinality(Running) \in Nat /\ Cardinality(At("cancelled")) \in Nat
    BY FiniteCounts DEF Running
  <2>. QED
    BY <1>3, <2>1, <2>2 DEF CountInv, Executed, TypeOK
<1>. QED
  BY <1>5, <1>6, <1>7, <1>8, <1>9

\* A cancelled call is counted as neither, and runs no longer.
LEMMA CancelStep ==
  ASSUME IInv, NEW c \in Calls, Cancel(c)
  PROVE  IInv'
<1>. USE DEF IInv
<1>1. /\ pc[c] = "running" /\ Goto(c, "cancelled")
      /\ UNCHANGED <<clock, counters, consecutive_failures, circuit_open_until,
                     deadline, outcomes, opened_at>>
  BY DEF Cancel, runtime
<1>2. "cancelled" \in Executed
  BY DEF Executed
<1>3. /\ Running' = Running \ {c}
      /\ Cardinality(Running)' = Cardinality(Running) - 1
      /\ Cardinality(At("cancelled"))' = Cardinality(At("cancelled")) + 1
      /\ \A other \in Executed \ {"cancelled"} :
           Cardinality(At(other))' = Cardinality(At(other))
      /\ pc' \in [Calls -> {"idle", "running"} \cup Ended]
  BY <1>1, <1>2, OneLess
<1>4. TypeOK'
  BY <1>1, <1>3 DEF TypeOK
<1>5. StreakInv' /\ CircuitInv'
  BY <1>1 DEF StreakInv, CircuitInv
<1>6. DeadlineInv' /\ ProlongedAtMost'
  BY <1>1, <1>3 DEF DeadlineInv, ProlongedAtMost, Open
<1>7. CountInv'
  <2>1. Cardinality(Running) \in Nat /\ Cardinality(At("cancelled")) \in Nat
    BY FiniteCounts DEF Running
  <2>. QED
    BY <1>1, <1>3, <2>1 DEF CountInv, Executed, TypeOK
<1>. QED
  BY <1>4, <1>5, <1>6, <1>7

\* The clock waits for no deadline that has passed.
LEMMA TickStep ==
  ASSUME IInv, Tick
  PROVE  IInv'
<1>. USE DEF IInv
<1>1. /\ clock' = clock + 1 /\ Urgent = {}
      /\ UNCHANGED <<counters, consecutive_failures, circuit_open_until, pc,
                     deadline, outcomes, opened_at>>
  BY DEF Tick, runtime
<1>2. Running' = Running /\ \A label : At(label)' = At(label)
  BY <1>1 DEF Running, At
<1>3. TypeOK'
  BY <1>1 DEF TypeOK
<1>4. StreakInv' /\ CircuitInv'
  BY <1>1 DEF StreakInv, CircuitInv
<1>5. \A c \in Running : deadline[c] \in Nat /\ clock < deadline[c]
  BY <1>1 DEF Urgent, Running, At, TypeOK
<1>6. Open' => Open
  BY <1>1 DEF Open, TypeOK
<1>7. DeadlineInv' /\ ProlongedAtMost'
  BY <1>1, <1>2, <1>5, <1>6, BreakerAssumption DEF DeadlineInv, ProlongedAtMost, TypeOK
<1>8. CountInv'
  BY <1>1, <1>2 DEF CountInv
<1>. QED
  BY <1>3, <1>4, <1>7, <1>8

LEMMA StepKeeps == IInv /\ [Next]_vars => IInv'
<1>. SUFFICES ASSUME IInv, [Next]_vars PROVE IInv'
  OBVIOUS
<1>1. CASE UNCHANGED vars
  <2>1. Running' = Running /\ \A label : At(label)' = At(label)
    BY <1>1 DEF vars, Running, At
  <2>. QED
    BY <1>1, <2>1 DEF vars, runtime, IInv, TypeOK, StreakInv, CircuitInv,
         DeadlineInv, ProlongedAtMost, Open, CountInv
<1>2. CASE Tick
  BY <1>2, TickStep
<1>3. ASSUME NEW c \in Calls, Succeed(c) \/ Fail(c) \/ Cancel(c)
      PROVE  IInv'
  BY <1>3, SucceedStep, FailStep, CancelStep
<1>4. ASSUME NEW c \in Calls, NEW agent \in Agents,
             Deny(c, agent) \/ Refuse(c, agent) \/ Admit(c, agent)
      PROVE  IInv'
  BY <1>4, TurnedAwayStep, AdmitStep DEF Deny, Refuse
<1>. QED
  BY <1>1, <1>2, <1>3, <1>4 DEF Next

\* The inductive invariant holds in every state the breaker can reach.
THEOREM Invariance == Spec => []IInv
  BY InitHolds, StepKeeps, PTL DEF Spec

-----------------------------------------------------------------------------
(* The properties.                                                         *)

\* The breaker's state and the history keep their types.
THEOREM TypeCorrect == Spec => []TypeOK
<1>1. IInv => TypeOK
  BY DEF IInv
<1>. QED
  BY <1>1, Invariance, PTL

\* The counter of consecutive failures has reached the threshold exactly when
\* that many calls in a row were the last to end, and failed.
LEMMA StreakIsCounted ==
  ASSUME IInv
  PROVE  Streak <=> consecutive_failures >= Threshold
<1>. DEFINE n == Len(outcomes)
<1>1. /\ n \in Nat /\ consecutive_failures \in Nat
      /\ consecutive_failures <= n /\ Threshold \in Nat \ {0}
  BY BreakerAssumption DEF IInv, TypeOK, StreakInv
<1>2. ASSUME consecutive_failures >= Threshold PROVE Streak
  <2>1. \A i \in 0..(Threshold - 1) : /\ n - i \in 1..n
                                      /\ n - i > n - consecutive_failures
    BY <1>1, <1>2
  <2>. QED
    BY <1>1, <1>2, <2>1 DEF Streak, IInv, StreakInv
<1>3. ASSUME consecutive_failures < Threshold, Streak PROVE FALSE
  <2>1. /\ consecutive_failures \in 0..(Threshold - 1)
        /\ consecutive_failures < n
    BY <1>1, <1>3 DEF Streak
  <2>. QED
    BY <1>3, <2>1 DEF Streak, IInv, StreakInv
<1>. QED
  BY <1>1, <1>2, <1>3

\* The circuit is open exactly when the last Threshold calls to end failed and
\* the last of them less than Cooldown ago.
THEOREM OpensExactly == Spec => []OpenExactly
<1>1. IInv => OpenExactly
  <2>. SUFFICES ASSUME IInv PROVE OpenExactly
    OBVIOUS
  <2>1. CASE consecutive_failures >= Threshold
    <3>1. circuit_open_until = outcomes[Len(outcomes)].at + Cooldown
      BY <2>1 DEF IInv, CircuitInv
    <3>2. /\ clock \in Nat /\ consecutive_failures \in Nat
          /\ outcomes \in Seq(Outcome) /\ Len(outcomes) \in Nat
          /\ consecutive_failures <= Len(outcomes)
      BY DEF IInv, TypeOK, StreakInv, Outcome
    <3>3. outcomes[Len(outcomes)] \in Outcome
      <4>1. Len(outcomes) \in 1..Len(outcomes)
        BY <2>1, <3>2, BreakerAssumption
      <4>. QED
        BY <3>2, <4>1
    <3>. QED
      BY <2>1, <3>1, <3>2, <3>3, StreakIsCounted, BreakerAssumption
      DEF OpenExactly, Open, Outcome
  <2>2. CASE consecutive_failures < Threshold
    <3>1. ~(consecutive_failures >= Threshold) /\ ~(0 > clock)
      BY <2>2, BreakerAssumption DEF IInv, TypeOK
    <3>. QED
      BY <2>2, <3>1, StreakIsCounted DEF OpenExactly, Open, IInv, CircuitInv
  <2>. QED
    BY <2>1, <2>2, BreakerAssumption DEF IInv, TypeOK
<1>. QED
  BY <1>1, Invariance, PTL

\* The failures at the end of the history are the last consecutive_failures.
LEMMA StreakIsLate ==
  ASSUME IInv
  PROVE  Cardinality(LateFailures) = consecutive_failures
<1>. DEFINE n == Len(outcomes)
<1>1. /\ n \in Nat /\ consecutive_failures \in Nat /\ consecutive_failures <= n
  BY DEF IInv, TypeOK, StreakInv
<1>2. ASSUME NEW i \in 1..n, i > n - consecutive_failures
      PROVE  i \in LateFailures
  <2>1. \A j \in i..n : j \in 1..n /\ j > n - consecutive_failures
    BY <1>1, <1>2
  <2>. QED
    BY <2>1 DEF LateFailures, IInv, StreakInv
<1>3. ASSUME NEW i \in LateFailures PROVE i > n - consecutive_failures
  <2>. SUFFICES ASSUME ~(i > n - consecutive_failures) PROVE FALSE
    OBVIOUS
  <2>1. i \in 1..n /\ \A j \in i..n : ~outcomes[j].ok
    BY DEF LateFailures
  <2>2. n - consecutive_failures \in i..n /\ consecutive_failures < n
    BY <1>1, <2>1
  <2>. QED
    BY <2>1, <2>2 DEF IInv, StreakInv
<1>4. LateFailures = (n - consecutive_failures + 1)..n
  <2>1. LateFailures \subseteq 1..n
    BY DEF LateFailures
  <2>2. \A i \in (n - consecutive_failures + 1)..n :
          i \in 1..n /\ i > n - consecutive_failures
    BY <1>1
  <2>3. \A i \in 1..n : i > n - consecutive_failures
                          => i \in (n - consecutive_failures + 1)..n
    BY <1>1
  <2>. QED
    BY <1>2, <1>3, <2>1, <2>2, <2>3
<1>5. n - consecutive_failures + 1 \in Int /\ n \in Int
  BY <1>1
<1>6. Cardinality((n - consecutive_failures + 1)..n)
        = IF n - consecutive_failures + 1 > n THEN 0
          ELSE n - (n - consecutive_failures + 1) + 1
  BY <1>5, FS_Interval
<1>. QED
  BY <1>1, <1>4, <1>6

\* Every admitted call is counted once, as what it came to, and
\* consecutive_failures counts the failures since the last success.
THEOREM Accounts == Spec => []CallsAccounted
<1>1. IInv => CallsAccounted
  BY StreakIsLate DEF IInv, CountInv, CallsAccounted
<1>. QED
  BY <1>1, Invariance, PTL

\* Late failures prolong an open circuit by one timeout at most.
THEOREM ProlongedByOneTimeout == Spec => []ProlongedAtMost
<1>1. IInv => ProlongedAtMost
  BY DEF IInv
<1>. QED
  BY <1>1, Invariance, PTL

=============================================================================
