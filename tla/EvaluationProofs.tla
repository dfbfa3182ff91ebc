--------------------------- MODULE EvaluationProofs ---------------------------
(***************************************************************************)
(* Proofs about Evaluation, for every dataset of finitely many cases, any  *)
(* labels, threshold, candidates and costs.                                *)
(***************************************************************************)
EXTENDS Evaluation, PlanExecutionProofs

-----------------------------------------------------------------------------
(* What an answer says of the task behind it.                              *)

\* Agents are given what was understood.  A task without a condition ends with
\* the orchestrator asking back exactly if it was not.
Understood(r, i) ==
  /\ stage[r][i] \in {"waiting", "running"} => NeedsAgent(plan[r][i].result)
  /\ stage[r][i] = "done" /\ plan[r][i].condition = None =>
       (outcome[r][i].agent = None /\ outcome[r][i].state = "input_required"
          <=> Unsure(plan[r][i].result))

\* An answer to a plan shows how its first task was read, and that of a single
\* task how it ended.
AnswerInv(r) ==
  phase[r] = "answered" /\ ~question[r].injection =>
    /\ plan[r] # << >>
    /\ response[r].intent = plan[r][1].result.intent
    /\ response[r].confidence = plan[r][1].result.confidence
    /\ ~IsMulti(r) => response[r].decision = SingleDecision(r)

ReadingInv ==
  \A r \in Requests : AnswerInv(r) /\ \A i \in DOMAIN plan[r] : Understood(r, i)

\* What a request was read as stays, also when one of its tasks is given a slot
\* it has waited for.
LEMMA StaysRead ==
  ASSUME ReadingInv, NEW r \in Requests,
         question'[r] = question[r], plan'[r] = plan[r], outcome'[r] = outcome[r],
         phase'[r] = phase[r], response'[r] = response[r],
         \A i \in DOMAIN plan[r] : \/ stage'[r][i] = stage[r][i]
                                   \/ stage[r][i] = "waiting" /\ stage'[r][i] = "running"
  PROVE  AnswerInv(r)' /\ \A i \in DOMAIN plan'[r] : Understood(r, i)'
<1>1. AnswerInv(r) /\ \A i \in DOMAIN plan[r] : Understood(r, i)
  BY DEF ReadingInv
<1>2. IsMulti(r)' = IsMulti(r) /\ SingleDecision(r)' = SingleDecision(r)
  BY DEF IsMulti, SingleDecision
<1>3. AnswerInv(r)'
  BY <1>1, <1>2 DEF AnswerInv
<1>. QED
  BY <1>1, <1>3 DEF Understood

\* Slots are handed to tasks that wait.
LEMMA WaitersAreServed ==
  ASSUME IInv, NEW s, NEW q, NEW k \in Nat, HandOver(s, q, k),
         q \in Seq(Places), ToSet(q) \subseteq ToSet(waiters)
  PROVE  \A r \in Requests : \A i \in DOMAIN s[r] :
           \/ stage'[r][i] = s[r][i]
           \/ stage'[r][i] = "running" /\ i \in DOMAIN plan[r] /\ stage[r][i] = "waiting"
<1>. DEFINE n == Min({k, Len(q)})
<1>1. n \in 0..Len(q)
  BY MinOfTwo
<1>2. stage' = [u \in Requests |-> [j \in DOMAIN s[u] |->
                 IF \E m \in 1..n : q[m] = <<u, j>> THEN "running" ELSE s[u][j]]]
  BY DEF HandOver
<1>. HIDE DEF n
<1>. TAKE r \in Requests
<1>. TAKE i \in DOMAIN s[r]
<1>3. stage'[r][i] = IF \E m \in 1..n : q[m] = <<r, i>> THEN "running" ELSE s[r][i]
  BY <1>2
<1>4. ASSUME NEW m \in 1..n, q[m] = <<r, i>>
      PROVE  i \in DOMAIN plan[r] /\ stage[r][i] = "waiting"
  <2>1. m \in DOMAIN q
    BY <1>1
  <2>2. <<r, i>> \in ToSet(waiters)
    BY <1>4, <2>1 DEF ToSet
  <2>3. <<r, i>> \in TasksAt("waiting")
    BY <2>2 DEF IInv, SlotsInv
  <2>. QED
    BY <2>3 DEF TasksAt
<1>. QED
  BY <1>3, <1>4

-----------------------------------------------------------------------------
(* The actions.                                                            *)

LEMMA DeflectReads ==
  ASSUME IInv, ReadingInv, NEW r \in Requests, Deflect(r)
  PROVE  ReadingInv'
<1>1. TypeOK /\ PlanInv(r)
  BY DEF IInv
<1>2. /\ phase[r] = "new" /\ question[r].injection
      /\ \A u \in Requests \ {r} : phase'[u] = phase[u] /\ response'[u] = response[u]
      /\ UNCHANGED <<question, plan, stage, outcome, free, waiters>>
  BY <1>1 DEF Deflect, TypeOK
<1>3. ASSUME NEW u \in Requests
      PROVE  AnswerInv(u)' /\ \A i \in DOMAIN plan'[u] : Understood(u, i)'
  <2>1. CASE u = r
    BY <1>1, <1>2, <2>1 DEF AnswerInv, PlanInv
  <2>2. CASE u # r
    BY <1>2, <2>2, StaysRead
  <2>. QED
    BY <2>1, <2>2
<1>. QED
  BY <1>3 DEF ReadingInv

LEMMA BuildReads ==
  ASSUME IInv, ReadingInv, NEW r \in Requests, Build(r)
  PROVE  ReadingInv'
<1>1. TypeOK
  BY DEF IInv
<1>2. /\ stage' = [stage EXCEPT ![r] = [i \in DOMAIN plan'[r] |-> "idle"]]
      /\ outcome' = [outcome EXCEPT ![r] = [i \in DOMAIN plan'[r] |-> None]]
      /\ phase' = [phase EXCEPT ![r] = "planned"]
      /\ UNCHANGED <<question, free, waiters, response>>
      /\ \A u \in Requests \ {r} : plan'[u] = plan[u]
  BY <1>1 DEF Build, TypeOK
<1>3. ASSUME NEW u \in Requests
      PROVE  AnswerInv(u)' /\ \A i \in DOMAIN plan'[u] : Understood(u, i)'
  <2>1. CASE u = r
    <3>1. phase'[r] = "planned" /\ \A i \in DOMAIN plan'[r] : stage'[r][i] = "idle"
      BY <1>1, <1>2 DEF TypeOK
    <3>. QED
      BY <2>1, <3>1 DEF AnswerInv, Understood
  <2>2. CASE u # r
    <3>1. phase'[u] = phase[u] /\ stage'[u] = stage[u] /\ outcome'[u] = outcome[u]
      BY <1>1, <1>2, <2>2 DEF TypeOK
    <3>. QED
      BY <1>2, <2>2, <3>1, StaysRead
  <2>. QED
    BY <2>1, <2>2
<1>. QED
  BY <1>3 DEF ReadingInv

LEMMA RespondReads ==
  ASSUME IInv, ReadingInv, NEW r \in Requests, Respond(r)
  PROVE  ReadingInv'
<1>1. TypeOK /\ PlanInv(r) /\ \A i \in DOMAIN plan[r] : Understood(r, i)
  BY DEF IInv, ReadingInv
<1>2. /\ phase[r] = "planned"
      /\ response'[r].intent = plan[r][1].result.intent
      /\ response'[r].confidence = plan[r][1].result.confidence
      /\ ~IsMulti(r) => response'[r].decision = SingleDecision(r)
      /\ \A u \in Requests \ {r} : phase'[u] = phase[u] /\ response'[u] = response[u]
      /\ UNCHANGED <<question, plan, stage, outcome, free, waiters>>
  BY <1>1 DEF Respond, TypeOK
<1>3. ASSUME NEW u \in Requests
      PROVE  AnswerInv(u)' /\ \A i \in DOMAIN plan'[u] : Understood(u, i)'
  <2>1. CASE u = r
    <3>1. IsMulti(r)' = IsMulti(r) /\ SingleDecision(r)' = SingleDecision(r)
      BY <1>2 DEF IsMulti, SingleDecision
    <3>2. plan[r] # << >>
      BY <1>1, <1>2 DEF PlanInv
    <3>3. AnswerInv(r)'
      BY <1>2, <3>1, <3>2 DEF AnswerInv
    <3>. QED
      BY <1>1, <1>2, <2>1, <3>3 DEF Understood
  <2>2. CASE u # r
    BY <1>2, <2>2, StaysRead
  <2>. QED
    BY <2>1, <2>2
<1>. QED
  BY <1>3 DEF ReadingInv

\* A task without a condition ends early as what its result is.
LEMMA EndsAsRead ==
  ASSUME IInv, NEW r \in Requests, NEW i \in DOMAIN plan[r], plan[r][i].condition = None
  PROVE  EarlyOutcome(r, i) = Unrouted(plan[r][i].result)
<1>1. plan[r][i].needs = {}
  BY DEF IInv, PlanInv
<1>2. ~Blocked(r, i) /\ Verdict(r, i) = "true"
  BY <1>1 DEF Blocked, Verdict
<1>. QED
  BY <1>2 DEF EarlyOutcome

LEMMA UnroutedAsRead ==
  ASSUME NEW result
  PROVE  LET o == Unrouted(result) IN
         o.agent = None /\ o.state = "input_required" <=> Unsure(result)
<1>1. CASE Unsure(result)
  <2>1. Unrouted(result) = Outcome("input_required", TRUE, None, NoData)
    BY <1>1 DEF Unrouted
  <2>. QED
    BY <1>1, <2>1 DEF Outcome
<1>2. CASE ~Unsure(result)
  <2>1. \/ Unrouted(result) = Outcome("completed", FALSE, None, NoData)
        \/ Unrouted(result) = Outcome("rejected", TRUE, None, NoData)
    BY <1>2 DEF Unrouted
  <2>. QED
    BY <1>2, <2>1 DEF Outcome
<1>. QED
  BY <1>1, <1>2

LEMMA EndEarlyReads ==
  ASSUME IInv, ReadingInv, NEW r \in Requests, NEW i \in DOMAIN plan[r], EndEarly(r, i)
  PROVE  ReadingInv'
<1>. DEFINE o == EarlyOutcome(r, i)
<1>1. TypeOK /\ \A j \in DOMAIN plan[r] : Understood(r, j)
  BY DEF IInv, ReadingInv
<1>2. /\ phase[r] = "planned"
      /\ outcome' = [outcome EXCEPT ![r][i] = o]
      /\ stage' = [stage EXCEPT ![r][i] = "done"]
      /\ UNCHANGED <<question, phase, plan, free, waiters, response>>
  BY DEF EndEarly, Ready
<1>3. plan[r][i].condition = None =>
        (o.agent = None /\ o.state = "input_required" <=> Unsure(plan[r][i].result))
  BY EndsAsRead, UnroutedAsRead
<1>. HIDE DEF o
<1>4. /\ stage'[r][i] = "done" /\ outcome'[r][i] = o
      /\ \A j \in DOMAIN plan[r] \ {i} : stage'[r][j] = stage[r][j]
                                         /\ outcome'[r][j] = outcome[r][j]
      /\ \A u \in Requests \ {r} : stage'[u] = stage[u] /\ outcome'[u] = outcome[u]
  BY <1>1, <1>2 DEF TypeOK
<1>5. ASSUME NEW u \in Requests
      PROVE  AnswerInv(u)' /\ \A j \in DOMAIN plan'[u] : Understood(u, j)'
  <2>1. CASE u = r
    <3>1. AnswerInv(r)'
      BY <1>2 DEF AnswerInv
    <3>2. Understood(r, i)'
      BY <1>2, <1>3, <1>4 DEF Understood
    <3>3. \A j \in DOMAIN plan[r] \ {i} : Understood(r, j)'
      BY <1>1, <1>2, <1>4 DEF Understood
    <3>. QED
      BY <1>2, <2>1, <3>1, <3>2, <3>3
  <2>2. CASE u # r
    BY <1>2, <1>4, <2>2, StaysRead
  <2>. QED
    BY <2>1, <2>2
<1>. QED
  BY <1>5 DEF ReadingInv

LEMMA StartReads ==
  ASSUME IInv, ReadingInv, NEW r \in Requests, NEW i \in DOMAIN plan[r], Start(r, i)
  PROVE  ReadingInv'
<1>1. TypeOK /\ \A j \in DOMAIN plan[r] : Understood(r, j)
  BY DEF IInv, ReadingInv
<1>2. /\ phase[r] = "planned"
      /\ NeedsAgent(plan[r][i].result)
      /\ UNCHANGED <<question, phase, plan, outcome, response>>
  BY DEF Start, Ready, EndsEarly
<1>3. PICK x \in {"waiting", "running"} : stage' = [stage EXCEPT ![r][i] = x]
  BY DEF Start
<1>4. /\ stage'[r][i] = x
      /\ \A j \in DOMAIN plan[r] \ {i} : stage'[r][j] = stage[r][j]
      /\ \A u \in Requests \ {r} : stage'[u] = stage[u]
  BY <1>1, <1>3 DEF TypeOK
<1>5. ASSUME NEW u \in Requests
      PROVE  AnswerInv(u)' /\ \A j \in DOMAIN plan'[u] : Understood(u, j)'
  <2>1. CASE u = r
    <3>1. AnswerInv(r)'
      BY <1>2 DEF AnswerInv
    <3>2. Understood(r, i)'
      BY <1>2, <1>4 DEF Understood, NeedsAgent, Unsure
    <3>3. \A j \in DOMAIN plan[r] \ {i} : Understood(r, j)'
      BY <1>1, <1>2, <1>4 DEF Understood
    <3>. QED
      BY <1>2, <2>1, <3>1, <3>2, <3>3
  <2>2. CASE u # r
    BY <1>2, <1>4, <2>2, StaysRead
  <2>. QED
    BY <2>1, <2>2
<1>. QED
  BY <1>5 DEF ReadingInv

\* An agent's task was understood, and its outcome names the agent.
LEMMA EndReads ==
  ASSUME IInv, ReadingInv, NEW r \in Requests, NEW i \in DOMAIN plan[r], NEW o,
         End(r, i, o), o.agent = Resolve(plan[r][i].result.intent)
  PROVE  ReadingInv'
<1>. DEFINE s == [stage EXCEPT ![r][i] = "done"]
            k == IF IsMulti(r) THEN 1 ELSE 0
<1>1. TypeOK /\ PlanInv(r) /\ \A j \in DOMAIN plan[r] : Understood(r, j)
  BY DEF IInv, ReadingInv
<1>2. /\ stage[r][i] = "running"
      /\ outcome' = [outcome EXCEPT ![r][i] = o]
      /\ HandOver(s, waiters, k)
      /\ UNCHANGED <<question, phase, plan, response>>
  BY DEF End
<1>3. /\ s[r][i] = "done"
      /\ outcome'[r][i] = o
      /\ \A j \in DOMAIN plan[r] \ {i} : s[r][j] = stage[r][j] /\ outcome'[r][j] = outcome[r][j]
      /\ \A u \in Requests \ {r} : s[u] = stage[u] /\ outcome'[u] = outcome[u]
      /\ \A u \in Requests : DOMAIN s[u] = DOMAIN plan[u]
  BY <1>1, <1>2 DEF TypeOK
<1>4. waiters \in Seq(Places) /\ k \in Nat
  BY <1>1 DEF TypeOK
<1>. HIDE DEF s, k
<1>5. ASSUME NEW u \in Requests, NEW j \in DOMAIN plan[u]
      PROVE  \/ stage'[u][j] = s[u][j]
             \/ stage'[u][j] = "running" /\ stage[u][j] = "waiting"
  <2>1. \A v \in Requests : \A l \in DOMAIN s[v] :
          \/ stage'[v][l] = s[v][l]
          \/ stage'[v][l] = "running" /\ l \in DOMAIN plan[v] /\ stage[v][l] = "waiting"
    BY <1>2, <1>4, WaitersAreServed
  <2>. QED
    BY <1>3, <2>1
<1>6. phase[r] # "answered"
  BY <1>1, <1>2 DEF PlanInv
<1>7. ~Unsure(plan[r][i].result) /\ o.agent # None
  BY <1>1, <1>2 DEF Understood, NeedsAgent
<1>8. ASSUME NEW u \in Requests
      PROVE  AnswerInv(u)' /\ \A j \in DOMAIN plan'[u] : Understood(u, j)'
  <2>1. CASE u = r
    <3>1. AnswerInv(r)'
      BY <1>2, <1>6 DEF AnswerInv
    <3>2. stage'[r][i] = "done"
      BY <1>2, <1>3, <1>5
    <3>3. Understood(r, i)'
      BY <1>2, <1>3, <1>7, <3>2 DEF Understood
    <3>4. \A j \in DOMAIN plan[r] \ {i} : Understood(r, j)'
      BY <1>1, <1>2, <1>3, <1>5 DEF Understood
    <3>. QED
      BY <1>2, <2>1, <3>1, <3>3, <3>4
  <2>2. CASE u # r
    <3>1. \A j \in DOMAIN plan[u] : \/ stage'[u][j] = stage[u][j]
                                    \/ stage[u][j] = "waiting" /\ stage'[u][j] = "running"
      BY <1>3, <1>5, <2>2
    <3>. QED
      BY <1>2, <1>3, <2>2, <3>1, StaysRead
  <2>. QED
    BY <2>1, <2>2
<1>. QED
  BY <1>8 DEF ReadingInv

LEMMA AgentReads ==
  ASSUME IInv, ReadingInv, NEW r \in Requests, NEW i \in DOMAIN plan[r],
         AgentReturns(r, i) \/ AgentRaises(r, i)
  PROVE  ReadingInv'
<1>1. PICK agent : agent = Resolve(plan[r][i].result.intent)
  OBVIOUS
<1>2. \E o : End(r, i, o) /\ o.agent = agent
  <2>1. ASSUME NEW kind, NEW data PROVE Answered(agent, kind, data).agent = agent
    BY DEF Answered, Outcome
  <2>2. Failed(agent).agent = agent
    BY DEF Failed, Outcome
  <2>. QED
    BY <1>1, <2>1, <2>2 DEF AgentReturns, AgentRaises
<1>. QED
  BY <1>1, <1>2, EndReads

LEMMA CancelReads ==
  ASSUME IInv, ReadingInv, NEW r \in Requests, Cancel(r)
  PROVE  ReadingInv'
<1>. DEFINE s == [stage EXCEPT ![r] = << >>]
            k == Cardinality({t \in Occupied : t[1] = r})
<1>1. /\ TypeOK
      /\ IsFiniteSet(Occupied)
      /\ \A m, n \in DOMAIN waiters : waiters[m] = waiters[n] => m = n
  BY DEF IInv, SlotsInv
<1>2. /\ HandOver(s, OtherWaiters(r), k)
      /\ UNCHANGED <<question, response>>
      /\ phase' = [phase EXCEPT ![r] = "cancelled"]
      /\ plan' = [plan EXCEPT ![r] = << >>]
      /\ outcome' = [outcome EXCEPT ![r] = << >>]
  BY DEF Cancel
<1>3. \A u \in Requests \ {r} : /\ s[u] = stage[u] /\ phase'[u] = phase[u]
                                /\ plan'[u] = plan[u] /\ outcome'[u] = outcome[u]
  BY <1>1, <1>2 DEF TypeOK
<1>4. k \in Nat
  <2>1. IsFiniteSet({t \in Occupied : t[1] = r})
    BY <1>1, FS_Subset
  <2>. QED
    BY <2>1, FS_CardinalityType
<1>5. OtherWaiters(r) \in Seq(Places) /\ ToSet(OtherWaiters(r)) \subseteq ToSet(waiters)
  <2>1. waiters \in Seq(Places)
    BY <1>1 DEF TypeOK
  <2>. QED
    BY <1>1, <2>1, OthersKept
<1>. HIDE DEF s, k
<1>6. ASSUME NEW u \in Requests
      PROVE  AnswerInv(u)' /\ \A j \in DOMAIN plan'[u] : Understood(u, j)'
  <2>1. CASE u = r
    <3>1. phase'[r] = "cancelled" /\ plan'[r] = << >>
      BY <1>1, <1>2 DEF TypeOK
    <3>. QED
      BY <2>1, <3>1 DEF AnswerInv
  <2>2. CASE u # r
    <3>1. \A j \in DOMAIN plan[u] : \/ stage'[u][j] = stage[u][j]
                                    \/ stage[u][j] = "waiting" /\ stage'[u][j] = "running"
      <4>1. DOMAIN s[u] = DOMAIN plan[u]
        BY <1>1, <1>3, <2>2 DEF TypeOK
      <4>2. \A v \in Requests : \A l \in DOMAIN s[v] :
              \/ stage'[v][l] = s[v][l]
              \/ stage'[v][l] = "running" /\ l \in DOMAIN plan[v] /\ stage[v][l] = "waiting"
        BY <1>2, <1>4, <1>5, WaitersAreServed
      <4>. QED
        BY <1>3, <2>2, <4>1, <4>2
    <3>. QED
      BY <1>2, <1>3, <2>2, <3>1, StaysRead
  <2>. QED
    BY <2>1, <2>2
<1>. QED
  BY <1>6 DEF ReadingInv

LEMMA NextReadingInv == IInv /\ ReadingInv /\ [Next]_vars => ReadingInv'
<1>1. SUFFICES ASSUME IInv, ReadingInv, [Next]_vars PROVE ReadingInv'
  OBVIOUS
<1>2. CASE UNCHANGED vars
  <2>1. UNCHANGED <<question, phase, plan, stage, outcome, free, waiters, response>>
    BY <1>2 DEF vars
  <2>. QED
    BY <1>1, <2>1, StaysRead DEF ReadingInv
<1>3. CASE Next
  <2>1. PICK r \in Requests : Step(r) \/ Cancel(r)
    BY <1>3 DEF Next
  <2>2. CASE Deflect(r) \/ Build(r) \/ Respond(r) \/ Cancel(r)
    BY <1>1, <2>2, DeflectReads, BuildReads, RespondReads, CancelReads
  <2>3. ASSUME NEW i \in DOMAIN plan[r],
               EndEarly(r, i) \/ Start(r, i) \/ AgentReturns(r, i) \/ AgentRaises(r, i)
        PROVE  ReadingInv'
    BY <1>1, <2>3, EndEarlyReads, StartReads, AgentReads
  <2>. QED
    BY <2>1, <2>2, <2>3 DEF Step
<1>. QED
  BY <1>1, <1>2, <1>3

LEMMA ReadingInvariance == Spec => [](IInv /\ ReadingInv)
<1>1. Init => ReadingInv
  BY DEF Init, ReadingInv, AnswerInv
<1>2. IInv /\ ReadingInv /\ [Next]_vars => ReadingInv'
  BY NextReadingInv
<1>. QED
  BY <1>1, <1>2, Invariance, PTL DEF Spec

-----------------------------------------------------------------------------
(* Calibration.                                                            *)

\* A threshold makes the case of a request automatic exactly when a single task
\* of it is not answered with the orchestrator asking back.
LEMMA AutoIsUnderstood ==
  ASSUME IInv, ReadingInv, NEW r \in Plain
  PROVE  AutoRoute(response[r], Threshold) <=> response[r].decision # "low_confidence_handoff"
<1>1. r \in Requests /\ phase[r] = "answered" /\ ~question[r].injection /\ ~IsMulti(r)
  BY DEF Plain, Finished
<1>2. TypeOK /\ PlanInv(r) /\ TaskInv(r, 1)
      /\ AnswerInv(r) /\ \A i \in DOMAIN plan[r] : Understood(r, i)
  <2>1. plan[r] # << >> /\ plan[r] \in Seq(PlanTasks)
    BY <1>1 DEF IInv, ReadingInv, AnswerInv, TypeOK
  <2>2. 1 \in DOMAIN plan[r]
    BY <2>1
  <2>. QED
    BY <1>1, <2>2 DEF IInv, ReadingInv
<1>3. 1 \in DOMAIN plan[r]
  <2>1. plan[r] # << >> /\ plan[r] \in Seq(PlanTasks)
    BY <1>1, <1>2 DEF AnswerInv, TypeOK
  <2>. QED
    BY <2>1
<1>4. stage[r][1] = "done" /\ plan[r][1].condition = None
  BY <1>1, <1>2, <1>3 DEF PlanInv
<1>5. outcome[r][1].agent = None /\ outcome[r][1].state = "input_required"
        <=> Unsure(plan[r][1].result)
  BY <1>2, <1>3, <1>4 DEF Understood
<1>6. response[r].decision = "low_confidence_handoff"
        <=> outcome[r][1].agent = None /\ outcome[r][1].state = "input_required"
  <2>1. response[r].decision = SingleDecision(r)
    BY <1>1, <1>2 DEF AnswerInv
  <2>. QED
    BY <2>1 DEF SingleDecision
<1>7. response[r].confidence \in Nat /\ Threshold \in Nat
  <2>1. plan[r][1].result.confidence \in Nat
    BY <1>1, <1>2, <1>3, FirstTask DEF PlanTasks
  <2>. QED
    BY <1>1, <1>2, <2>1, PlanAssumption DEF AnswerInv
<1>8. Unsure(plan[r][1].result) <=> ~AutoRoute(response[r], Threshold)
  BY <1>1, <1>2, <1>7 DEF AnswerInv, Unsure, AutoRoute
<1>. QED
  BY <1>5, <1>6, <1>8

\* README.md:135, evaluation.py:205: the false accepts and false handoffs that
\* calibration counts for a threshold are those the orchestrator makes under it.
THEOREM CalibrationIsTrue == Spec => []CalibrationAgrees
<1>1. IInv /\ ReadingInv => CalibrationAgrees
  <2>1. SUFFICES ASSUME IInv, ReadingInv, NEW cases \in [Plain -> Labels]
                 PROVE  LET row == Row(cases, response, Threshold)
                            kept == {r \in Plain : response[r].decision = "low_confidence_handoff"}
                        IN /\ row.false_accepts = Cardinality({r \in Plain \ kept : cases[r].handoff})
                           /\ row.false_handoffs = Cardinality({r \in kept : ~cases[r].handoff})
    BY DEF CalibrationAgrees
  <2>. DEFINE kept == {r \in Plain : response[r].decision = "low_confidence_handoff"}
              auto == {c \in DOMAIN cases : AutoRoute(response[c], Threshold)}
              handoff == {c \in DOMAIN cases : cases[c].handoff}
  <2>2. auto = Plain \ kept
    BY <2>1, AutoIsUnderstood
  <2>3. auto \cap handoff = {r \in Plain \ kept : cases[r].handoff}
    BY <2>2
  <2>4. (DOMAIN cases \ auto) \ handoff = {r \in kept : ~cases[r].handoff}
    BY <2>2
  <2>. HIDE DEF kept
  <2>5. /\ Row(cases, response, Threshold).false_accepts = Cardinality(auto \cap handoff)
        /\ Row(cases, response, Threshold).false_handoffs
             = Cardinality((DOMAIN cases \ auto) \ handoff)
    BY DEF Row
  <2>6. /\ Row(cases, response, Threshold).false_accepts
             = Cardinality({r \in Plain \ kept : cases[r].handoff})
        /\ Row(cases, response, Threshold).false_handoffs
             = Cardinality({r \in kept : ~cases[r].handoff})
    BY <2>3, <2>4, <2>5
  <2>. QED
    BY <2>6 DEF kept
<1>. QED
  BY <1>1, ReadingInvariance, PTL

LEMMA CostIsNatural ==
  ASSUME NEW cases, IsFiniteSet(DOMAIN cases), NEW answers, NEW threshold
  PROVE  Cost(cases, answers, threshold) \in Nat
<1>. DEFINE auto == {c \in DOMAIN cases : AutoRoute(answers[c], threshold)}
            handoff == {c \in DOMAIN cases : cases[c].handoff}
            accepts == Cardinality(auto \cap handoff)
            handoffs == Cardinality((DOMAIN cases \ auto) \ handoff)
<1>1. IsFiniteSet(auto \cap handoff) /\ IsFiniteSet((DOMAIN cases \ auto) \ handoff)
  BY FS_Subset
<1>2. accepts \in Nat /\ handoffs \in Nat
  BY <1>1, FS_CardinalityType
<1>. HIDE DEF accepts, handoffs
<1>3. accepts * FalseAcceptCost + handoffs * FalseHandoffCost \in Nat
  BY <1>2, EvaluationAssumption
<1>. QED
  BY <1>3 DEF Cost, Row, accepts, handoffs

\* There is a cheapest candidate, and the recommended one is one of them.
LEMMA RecommendedIsCheapest ==
  ASSUME NEW cases, IsFiniteSet(DOMAIN cases), NEW answers
  PROVE  /\ Recommended(cases, answers) \in Cheapest(cases, answers)
         /\ LET eligible == {t \in Cheapest(cases, answers) : t <= Ceiling(cases, answers)} IN
            eligible # {} => Recommended(cases, answers) \in eligible
<1>. DEFINE best == Cheapest(cases, answers)
            eligible == {t \in best : t <= Ceiling(cases, answers)}
            costs == {Cost(cases, answers, t) : t \in Candidates}
<1>1. best # {}
  <2>1. costs \in SUBSET Nat /\ costs # {}
    BY CostIsNatural, EvaluationAssumption
  <2>2. PICK c \in costs : \A x \in costs : c <= x
    <3>. HIDE DEF costs
    <3>. QED
      BY <2>1, LeastOf
  <2>. QED
    BY <2>2 DEF Cheapest
<1>2. best \subseteq 0..100 /\ eligible \subseteq best
  BY EvaluationAssumption DEF Cheapest
<1>3. Recommended(cases, answers) = Max(IF eligible # {} THEN eligible ELSE best)
  BY DEF Recommended
<1>. HIDE DEF best, eligible
<1>4. PICK S : S = IF eligible # {} THEN eligible ELSE best
  OBVIOUS
<1>5. S \in SUBSET (0..100) /\ S # {} /\ S \subseteq best
  BY <1>1, <1>2, <1>4
<1>6. Max(S) \in S
  BY <1>5, GreatestOf
<1>7. Recommended(cases, answers) = Max(S)
  BY <1>3, <1>4
<1>8. Recommended(cases, answers) \in best
  BY <1>5, <1>6, <1>7
<1>9. eligible # {} => Recommended(cases, answers) \in eligible
  BY <1>4, <1>6, <1>7
<1>. QED
  BY <1>8, <1>9 DEF best, eligible

\* What lies a confidence less the margin or lower, keeps the margin from it.
LEMMA MarginIsKept ==
  ASSUME NEW confidence \in Nat, NEW t \in Nat
  PROVE  t <= LessMargin(confidence) <=> KeepsMargin(confidence, t)
  BY EvaluationAssumption DEF LessMargin, KeepsMargin

\* Floats keep the order of the confidences they are subtracted from.
LEMMA MarginIsMonotone ==
  ASSUME NEW c \in Nat, NEW d \in Nat, c <= d, NEW t \in Nat, KeepsMargin(c, t)
  PROVE  KeepsMargin(d, t)
  BY EvaluationAssumption DEF KeepsMargin

\* evaluation.py:228-230: no candidate is cheaper than the recommended one, and
\* no correctly understood case that may be automated is lost under it, or
\* closer to it than the margin, as floats have it, unless that is so for every
\* cheapest one.
THEOREM RecommendationKeepsGood == Spec => []RecommendedKeepsGood
<1>1. IInv => RecommendedKeepsGood
  <2>1. SUFFICES ASSUME IInv, NEW cases \in [Plain -> Labels]
                 PROVE  LET recommended == Recommended(cases, response)
                            good == {r \in Plain : /\ ~cases[r].handoff
                                                   /\ IntentOk(cases[r], response[r])}
                            Safe(t) == \A r \in good :
                                         KeepsMargin(response[r].confidence, t)
                        IN /\ \A t \in Candidates : Cost(cases, response, recommended)
                                                      <= Cost(cases, response, t)
                           /\ (\E t \in Cheapest(cases, response) : Safe(t))
                                => Safe(recommended)
    BY DEF RecommendedKeepsGood
  <2>. DEFINE recommended == Recommended(cases, response)
              good == {r \in Plain : ~cases[r].handoff /\ IntentOk(cases[r], response[r])}
              Safe(t) == \A r \in good : KeepsMargin(response[r].confidence, t)
              best == Cheapest(cases, response)
              confidences == Positive(cases, response)
  <2>2. DOMAIN cases = Plain /\ IsFiniteSet(DOMAIN cases)
    BY FS_Subset, EvaluationAssumption DEF Plain, Finished
  <2>3. recommended \in best
    BY <2>2, RecommendedIsCheapest
  <2>4. \A t \in Candidates : Cost(cases, response, recommended) <= Cost(cases, response, t)
    BY <2>3 DEF Cheapest
  <2>5. confidences = {response[r].confidence : r \in good}
    BY <2>2 DEF Positive
  <2>6. confidences \in SUBSET Nat
    <3>1. ASSUME NEW r \in good PROVE response[r].confidence \in Nat
      <4>1. TypeOK /\ r \in Requests /\ phase[r] = "answered"
        BY <2>1 DEF Plain, Finished, IInv
      <4>2. response[r] \in Responses
        BY <4>1 DEF TypeOK
      <4>. QED
        BY <4>2 DEF Responses
    <3>. HIDE DEF good, confidences
    <3>. QED
      BY <2>5, <3>1
  <2>7. SafetyMargin \in Nat /\ best \subseteq Nat
    <3>1. best \subseteq 0..100
      BY EvaluationAssumption DEF Cheapest
    <3>. QED
      BY <3>1, EvaluationAssumption
  <2>8. ASSUME NEW t \in best, Safe(t) PROVE Safe(recommended)
    <3>1. CASE good = {}
      BY <3>1
    <3>2. CASE good # {}
      <4>1. confidences # {}
        BY <2>5, <3>2
      <4>. HIDE DEF confidences, best, recommended, good
      <4>2. PICK least : least = Min(confidences)
        OBVIOUS
      <4>3. least \in confidences /\ \A x \in confidences : least <= x
        BY <2>6, <4>1, <4>2, LeastOf
      <4>4. Ceiling(cases, response) = LessMargin(least)
        BY <4>1, <4>2 DEF Ceiling, confidences
      <4>5. t \in Nat /\ least \in Nat /\ KeepsMargin(least, t)
        <5>1. PICK r \in good : response[r].confidence = least
          BY <2>5, <4>3
        <5>2. KeepsMargin(response[r].confidence, t)
          BY <2>8, <5>1
        <5>. QED
          BY <2>6, <2>7, <4>3, <5>1, <5>2
      <4>6. t <= Ceiling(cases, response)
        BY <4>4, <4>5, MarginIsKept
      <4>7. recommended \in best /\ recommended <= Ceiling(cases, response)
        BY <2>2, <4>6, RecommendedIsCheapest DEF best, recommended
      <4>8. recommended \in Nat /\ KeepsMargin(least, recommended)
        BY <2>7, <4>4, <4>5, <4>7, MarginIsKept
      <4>9. ASSUME NEW r \in good
            PROVE  KeepsMargin(response[r].confidence, recommended)
        <5>1. PICK x : x = response[r].confidence
          OBVIOUS
        <5>2. x \in Nat /\ least <= x
          BY <2>5, <2>6, <4>3, <5>1
        <5>3. KeepsMargin(x, recommended)
          BY <4>5, <4>8, <5>2, MarginIsMonotone
        <5>. QED
          BY <5>1, <5>3
      <4>. QED
        BY <4>9
    <3>. QED
      BY <3>1, <3>2
  <2>. QED
    BY <2>4, <2>8
<1>. QED
  BY <1>1, Invariance, PTL

-----------------------------------------------------------------------------
(* The report.                                                             *)

\* Rounded to four decimals, n of d is 100 % only if it is all of them, unless
\* there are so many that one is lost in the rounding.
LEMMA RoundedRatio ==
  ASSUME NEW d \in Nat, 0 < d, d < 20000, NEW n \in Nat, n <= d
  PROVE  (Ratio(n, d) = 10000) <=> (n = d)
<1>1. PICK q : q = (20000 * n + d) \div (2 * d)
  OBVIOUS
<1>2. q \in Nat /\ (2 * d) * q <= 20000 * n + d /\ 20000 * n + d < (2 * d) * (q + 1)
  <2>1. ASSUME NEW a \in Nat, NEW b \in Nat \ {0}
        PROVE  a \div b \in Nat /\ b * (a \div b) <= a /\ a < b * (a \div b + 1)
    OBVIOUS
  <2>2. PICK a, b : a = 20000 * n + d /\ b = 2 * d
    OBVIOUS
  <2>3. a \in Nat /\ b \in Nat \ {0} /\ q = a \div b
    BY <1>1, <2>2
  <2>4. q \in Nat /\ b * q <= a /\ a < b * (q + 1)
    BY <2>1, <2>3
  <2>. QED
    BY <2>2, <2>4
<1>3. CASE n = d
  <2>1. q < 10001
    <3>1. SUFFICES ASSUME q >= 10001 PROVE FALSE
      BY <1>2
    <3>2. (2 * d) * q >= (2 * d) * 10001
      BY <1>2, <3>1
    <3>. QED
      BY <1>2, <1>3, <3>2
  <2>2. q > 9999
    <3>1. SUFFICES ASSUME q <= 9999 PROVE FALSE
      BY <1>2
    <3>2. (2 * d) * (q + 1) <= (2 * d) * 10000
      BY <1>2, <3>1
    <3>. QED
      BY <1>2, <1>3, <3>2
  <2>. QED
    BY <1>1, <1>2, <1>3, <2>1, <2>2 DEF Ratio
<1>4. CASE n < d
  <2>1. q # 10000
    <3>1. 20000 * n + d < (2 * d) * 10000
      BY <1>4
    <3>. QED
      BY <1>2, <3>1
  <2>. QED
    BY <1>1, <1>4, <2>1 DEF Ratio
<1>. QED
  BY <1>3, <1>4

LEMMA PerfectShare ==
  ASSUME NEW whole, IsFiniteSet(whole), Cardinality(whole) < 20000, NEW part \in SUBSET whole
  PROVE  Ratio(Cardinality(part), Cardinality(whole)) \in {None, 10000} <=> part = whole
<1>1. PICK n, d : n = Cardinality(part) /\ d = Cardinality(whole)
  OBVIOUS
<1>2. d \in Nat /\ d < 20000 /\ n \in Nat /\ n <= d /\ (n = d <=> part = whole)
  BY <1>1, FS_Subset, FS_CardinalityType
<1>3. None # Ratio(n, d) \/ d = 0
  <2>1. d # 0 => Ratio(n, d) \in Nat
    BY <1>2 DEF Ratio
  <2>. QED
    BY <2>1, EvaluationAssumption
<1>4. CASE d = 0
  BY <1>1, <1>2, <1>4 DEF Ratio
<1>5. CASE d # 0
  <2>1. d \in Nat /\ 0 < d /\ d < 20000 /\ n \in Nat /\ n <= d
    BY <1>2, <1>5
  <2>2. Ratio(n, d) = 10000 <=> n = d
    BY <2>1, RoundedRatio
  <2>. QED
    BY <1>1, <1>2, <1>3, <1>5, <2>2
<1>. QED
  BY <1>4, <1>5

\* evaluation.py:111-131, README.md:110-117: no failed case hides in a ratio,
\* and no ratio is below 100 % without a failed case to look at.
THEOREM ReportIsConsistent ==
  ASSUME Cardinality(Requests) < 20000
  PROVE  Spec => []CleanReportIsPerfect
<1>1. IInv => CleanReportIsPerfect
  <2>1. SUFFICES ASSUME IInv, NEW cases \in [Finished -> Labels]
                 PROVE  LET report == Report(cases, response) IN
                        report.failed_cases = {}
                          <=> \A name \in DOMAIN report.ratios :
                                report.ratios[name] \in {None, 10000}
    BY DEF CleanReportIsPerfect
  <2>. DEFINE hit == {c \in Finished : IntentOk(cases[c], response[c])}
              routed == {c \in Finished : cases[c].agent # None}
              right == {c \in routed : response[c].agent = cases[c].agent}
              automatable == {c \in Finished : ~cases[c].handoff}
              completed == {c \in automatable : TaskOk(cases[c], response[c])}
              handed == {c \in Finished : response[c].human}
              failed == {c \in Finished : Fails(cases[c], response[c])}
              Share(part, whole) == Ratio(Cardinality(part), Cardinality(whole))
              ratios == [intent_accuracy |-> Share(hit, Finished),
                         routing_accuracy |-> Share(right, routed),
                         automated_task_completion_rate |-> Share(completed, automatable),
                         handoff_precision |-> Share(handed \ automatable, handed),
                         handoff_recall |-> Share(handed \ automatable, Finished \ automatable)]
  <2>2. DOMAIN cases = Finished
    OBVIOUS
  <2>3. Report(cases, response) = [ratios |-> ratios, failed_cases |-> failed]
    BY <2>2 DEF Report
  <2>4. ASSUME NEW part, NEW whole, part \subseteq whole, whole \subseteq Finished
        PROVE  Share(part, whole) \in {None, 10000} <=> part = whole
    <3>1. IsFiniteSet(Requests) /\ whole \subseteq Requests
      BY <2>4, EvaluationAssumption DEF Finished
    <3>2. IsFiniteSet(whole) /\ Cardinality(whole) <= Cardinality(Requests)
      BY <3>1, FS_Subset
    <3>3. Cardinality(whole) \in Nat /\ Cardinality(Requests) \in Nat
      BY <3>1, <3>2, FS_CardinalityType
    <3>4. Cardinality(whole) < 20000
      BY <3>2, <3>3
    <3>. QED
      BY <2>4, <3>2, <3>4, PerfectShare
  <2>5. failed = {} <=> /\ hit = Finished
                        /\ right = routed
                        /\ completed = automatable
                        /\ handed \ automatable = handed
                        /\ handed \ automatable = Finished \ automatable
    <3>1. ASSUME NEW c \in Finished
          PROVE  response[c].human \in BOOLEAN /\ cases[c].handoff \in BOOLEAN
      <4>1. TypeOK /\ c \in Requests /\ phase[c] = "answered"
        BY <2>1 DEF Finished, IInv
      <4>2. response[c] \in Responses
        BY <4>1 DEF TypeOK
      <4>. QED
        BY <4>2, EvaluationAssumption DEF Responses
    <3>2. ASSUME NEW c \in Finished
          PROVE  c \notin failed <=> /\ c \in hit
                                     /\ c \in routed => c \in right
                                     /\ c \in automatable => c \in completed
                                     /\ c \in handed <=> c \notin automatable
      BY <3>1 DEF Fails
    <3>. HIDE DEF hit, right, completed
    <3>3. /\ hit \subseteq Finished /\ right \subseteq routed /\ completed \subseteq automatable
          /\ failed \subseteq Finished /\ routed \subseteq Finished
          /\ automatable \subseteq Finished /\ handed \subseteq Finished
      BY DEF hit, right, completed
    <3>. HIDE DEF failed, routed, automatable, handed
    <3>. QED
      BY <3>2, <3>3
  <2>6. /\ Share(hit, Finished) \in {None, 10000} <=> hit = Finished
        /\ Share(right, routed) \in {None, 10000} <=> right = routed
        /\ Share(completed, automatable) \in {None, 10000} <=> completed = automatable
        /\ Share(handed \ automatable, handed) \in {None, 10000}
             <=> handed \ automatable = handed
        /\ Share(handed \ automatable, Finished \ automatable) \in {None, 10000}
             <=> handed \ automatable = Finished \ automatable
    <3>1. /\ hit \subseteq Finished /\ right \subseteq routed /\ completed \subseteq automatable
          /\ routed \subseteq Finished /\ automatable \subseteq Finished /\ handed \subseteq Finished
          /\ handed \ automatable \subseteq handed
          /\ handed \ automatable \subseteq Finished \ automatable
          /\ Finished \ automatable \subseteq Finished /\ Finished \subseteq Finished
      OBVIOUS
    <3>. HIDE DEF hit, routed, right, automatable, completed, handed, Share
    <3>. QED
      BY <2>4, <3>1
  <2>. HIDE DEF hit, routed, right, automatable, completed, handed, failed, Share
  <2>7. (\A name \in DOMAIN ratios : ratios[name] \in {None, 10000})
          <=> /\ Share(hit, Finished) \in {None, 10000}
              /\ Share(right, routed) \in {None, 10000}
              /\ Share(completed, automatable) \in {None, 10000}
              /\ Share(handed \ automatable, handed) \in {None, 10000}
              /\ Share(handed \ automatable, Finished \ automatable) \in {None, 10000}
    OBVIOUS
  <2>. HIDE DEF ratios
  <2>8. Report(cases, response).ratios = ratios /\ Report(cases, response).failed_cases = failed
    BY <2>3
  <2>. QED
    BY <2>5, <2>6, <2>7, <2>8
<1>. QED
  BY <1>1, Invariance, PTL

=============================================================================
