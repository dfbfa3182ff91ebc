---------------------------- MODULE PlanExecution ----------------------------
(***************************************************************************)
(* A chat request between its session's lock and its answer: QueryPlanner  *)
(* splits the question, a language model or the rules classify the parts,  *)
(* and ShopAgentOrchestrator runs the tasks on the domain agents: a single *)
(* task directly, independent tasks together under one semaphore that all  *)
(* requests share, a conditional task after the task it depends on.        *)
(*                                                                         *)
(* A question is seen through its parts: the topics of its words, the      *)
(* order it names and, in a conditional question, the wording of the       *)
(* condition.  An agent is seen through the result the orchestrator looks  *)
(* at; SessionTurns models the lock and the memory around all of this.     *)
(***************************************************************************)
EXTENDS Naturals, SequencesExt

CONSTANTS Requests,     \* chat requests, each of a session of its own
          Questions,    \* Questions[r]: what request r may ask
          ModelAnswers, \* what the language model may say of a part
          Deferred,     \* the model raises, or answers None
          Routes,       \* the registered agent of each intent that has one
          Orders,       \* the user's orders
          Threshold,    \* low_confidence_threshold, in percent
          MaxTasks,     \* max_plan_tasks
          MaxParallel,  \* max_parallel_tasks
          Guardrails,   \* guardrails_enabled
          Faults,       \* "raise" an agent raises, "cancel" a client goes away
          None

\* settings.py: a plan has at least one task, and at least one may run.
ASSUME PlanAssumption ==
  /\ Threshold \in Nat
  /\ MaxTasks \in Nat \ {0}
  /\ MaxParallel \in Nat \ {0}
  /\ None \notin Orders \cup {"not shipped"}
  /\ Guardrails \in BOOLEAN
  /\ Faults \subseteq {"raise", "cancel"}

VARIABLES question,  \* question[r]: what request r asks
          phase,     \* phase[r]: where request r is
          plan,      \* plan[r]: its ExecutionPlan, a sequence of tasks
          stage,     \* stage[r][i]: where task i of r is
          outcome,   \* outcome[r][i]: its _TaskOutcome, or None
          free,      \* the semaphore's value
          waiters,   \* the tasks that wait for the semaphore, in order
          response   \* response[r]: the ChatResponse, or None

vars == <<question, phase, plan, stage, outcome, free, waiters, response>>

-----------------------------------------------------------------------------
(* The plan.                                                               *)

Statuses == {"pending", "shipped", "other"}

\* A segment of the question and the position it depends on, if any.
Segment(part, needs, condition) ==
  [part |-> part, needs |-> needs, condition |-> condition]

Bug_FirstTasks(segments) == SubSeq(segments, 1, Min({MaxTasks + 1, Len(segments)}))

\* [: max_tasks]
FirstTasks(segments) == SubSeq(segments, 1, Min({MaxTasks, Len(segments)}))

\* "<head>, if <condition> then <tail>", or parts that stand side by side.
Split(q) ==
  IF q.condition # None
  THEN FirstTasks(<<Segment(q.parts[1], {}, None),
                    Segment(q.parts[2], {1}, q.condition)>>)
  ELSE FirstTasks([i \in DOMAIN q.parts |-> Segment(q.parts[i], {}, None)])

\* The rules of IntentAgent, first match first.
RuleOrder == <<"stock_query", "after_sales", "sales_policy", "order_query",
               "recommendation", "product_detail", "product_search", "greeting">>

\* What the rules make of a part: of the identifiers in it, of the fixed phrases
\* for the progress of a refund, and of the topics its words are about.
Rules(part) ==
  LET named == part.order # None \/ part.product
      matches == {n \in DOMAIN RuleOrder : RuleOrder[n] \in part.topics}
      Read(intent, confidence) == [intent |-> intent, confidence |-> confidence,
                                   order |-> part.order, byRule |-> TRUE]
  IN IF part.ticket THEN Read("after_sales", 98)
     ELSE IF part.refund THEN Read("order_query", 96)
     ELSE IF matches # {}
          THEN Read(RuleOrder[Min(matches)], IF named THEN 96 ELSE 86)
     ELSE IF named THEN Read("product_detail", 90)
     ELSE Read("unknown", 30)

\* The IntentResult made of the model's reply, which has no entities.
ModelResult(answer) ==
  [intent |-> answer.intent, confidence |-> answer.confidence,
   order |-> None, byRule |-> FALSE]

\* Where the model raises or has no answer, at either of the two places that
\* catch it, the result is that of the rules.
Classify(part, answer) ==
  IF answer = Deferred THEN Rules(part) ELSE ModelResult(answer)

Bug_Inherited(results) == [i \in DOMAIN results |-> results[i].order]

\* merged_entities: what a result does not name it has from the last before it
\* that does.
Inherited(results) ==
  LET Naming(i) == {j \in 1..i : results[j].order # None}
  IN [i \in DOMAIN results |->
        IF Naming(i) = {} THEN None ELSE results[Max(Naming(i))].order]

\* QueryPlanner.build, for the model's answers to the segments.
Tasks(segments, answers) ==
  LET results == [i \in DOMAIN segments |-> Classify(segments[i].part, answers[i])]
  IN [i \in DOMAIN segments |->
       [result |-> [results[i] EXCEPT !.order = Inherited(results)[i]],
        named |-> segments[i].part.order,
        needs |-> segments[i].needs,
        condition |-> segments[i].condition]]

IsMulti(r) == Len(plan[r]) > 1

IsParallel(r) == IsMulti(r) /\ \A i \in DOMAIN plan[r] : plan[r][i].needs = {}

-----------------------------------------------------------------------------
(* A task.                                                                 *)

Unsure(result) == result.confidence < Threshold \/ result.intent = "unknown"

\* AgentRegistry.resolve
Resolve(intent) == IF intent \in DOMAIN Routes THEN Routes[intent] ELSE None

NeedsAgent(result) ==
  /\ ~Unsure(result)
  /\ result.intent # "greeting"
  /\ Resolve(result.intent) # None

\* The order an agent works on: the one its text names, else the one in the
\* memory it is given, which the entities of the task are merged into.
Target(r, i) ==
  LET task == plan[r][i] IN
  IF task.named # None THEN task.named
  ELSE IF task.result.order # None THEN task.result.order
  ELSE question[r].session

\* What is read of an agent's data: the orders in it with their status, and
\* the stock.
NoData == [seen |-> << >>, stock |-> "absent"]

\* Only the data of a task that another depends on is ever read.
Needed(r, i) == \E j \in DOMAIN plan[r] : i \in plan[r][j].needs

\* order.detail and order.logistics tell of one order, if it is the user's,
\* and order.list of all, or a reviewed answer of whatever its text mentions.
OrderReadings(target) ==
  LET Told(examined) == {[seen |-> s, stock |-> "absent"] : s \in [examined -> Statuses]}
  IN IF target = None THEN Told(Orders) ELSE Told({target}) \cup {NoData}

\* product.stock, if there is a product.
StockReadings == {[seen |-> << >>, stock |-> s] : s \in {"absent", "zero", "some"}}

Readings(r, i) ==
  CASE Needed(r, i) /\ plan[r][i].result.intent = "order_query" ->
         OrderReadings(Target(r, i))
    [] Needed(r, i) /\ plan[r][i].result.intent = "stock_query" -> StockReadings
    [] OTHER -> {NoData}

\* The results of an agent that set it apart: data.missing_fields, data.error
\* and degraded.
Kinds == {"fine", "missing", "error", "degraded"}

Outcome(state, human, agent, data) ==
  [state |-> state, human |-> human, agent |-> agent, data |-> data]

\* Tasks that are over without an agent: not understood, a greeting, or an
\* intent that no agent serves.
Unrouted(result) ==
  CASE Unsure(result) -> Outcome("input_required", TRUE, None, NoData)
    [] ~Unsure(result) /\ result.intent = "greeting" ->
         Outcome("completed", FALSE, None, NoData)
    [] OTHER -> Outcome("rejected", TRUE, None, NoData)

Answered(agent, kind, data) ==
  Outcome(CASE kind = "fine" -> "completed"
            [] kind = "missing" -> "input_required"
            [] OTHER -> "partial",
          kind # "fine", agent, data)

Failed(agent) == Outcome("failed", TRUE, agent, NoData)

\* The words of the condition that are looked for are "not shipped" and "in
\* stock", and "out of stock" contains "in stock"; in the data, the markers of
\* a pending order come before those of a shipped one.
ConditionMatches(condition, data) ==
  LET statuses == {data.seen[o] : o \in DOMAIN data.seen} IN
  CASE condition = "not shipped" /\ "pending" \in statuses -> "true"
    [] condition = "not shipped" /\ "pending" \notin statuses
         /\ "shipped" \in statuses -> "false"
    [] condition \in {"in stock", "out of stock"} /\ data.stock = "some" -> "true"
    [] condition \in {"in stock", "out of stock"} /\ data.stock = "zero" -> "false"
    [] OTHER -> "undecided"

\* A task that a need for a human stands before.
Blocked(r, i) == \E j \in plan[r][i].needs : outcome[r][j].human

Bug_Verdict(r, i) ==
  IF plan[r][i].condition = None THEN "true"
  ELSE LET v == ConditionMatches(plan[r][i].condition, outcome[r][1].data)
       IN IF v = "undecided" THEN "true" ELSE v

\* A plan has one condition, on its first task.
Verdict(r, i) ==
  IF plan[r][i].condition = None THEN "true"
  ELSE ConditionMatches(plan[r][i].condition, outcome[r][1].data)

\* Why task i ends before it is given to an agent, if it does.
EndsEarly(r, i) ==
  \/ Blocked(r, i) \/ Verdict(r, i) # "true" \/ ~NeedsAgent(plan[r][i].result)

EarlyOutcome(r, i) ==
  IF Blocked(r, i) THEN Outcome("blocked", TRUE, None, NoData)
  ELSE CASE Verdict(r, i) = "false" -> Outcome("skipped", FALSE, None, NoData)
         [] Verdict(r, i) = "undecided" ->
              Outcome("input_required", TRUE, None, NoData)
         [] OTHER -> Unrouted(plan[r][i].result)

-----------------------------------------------------------------------------
(* The semaphore.                                                          *)

\* The places a task may have in a request's plan.
Places == Requests \X (1..MaxTasks)

\* The tasks at a stage, and those of them that hold a slot.
TasksAt(x) == {t \in Places : t[2] \in DOMAIN plan[t[1]] /\ stage[t[1]][t[2]] = x}

Occupied == {t \in TasksAt("running") : IsMulti(t[1])}

\* k slots come back, q waits, and the tasks are at the stages s: the waiters
\* are served in order.
HandOver(s, q, k) ==
  LET n == Min({k, Len(q)}) IN
  /\ waiters' = SubSeq(q, n + 1, Len(q))
  /\ free' = free + k - n
  /\ stage' = [r \in Requests |-> [i \in DOMAIN s[r] |->
       IF \E m \in 1..n : q[m] = <<r, i>> THEN "running" ELSE s[r][i]]]

-----------------------------------------------------------------------------
(* Types.                                                                  *)

AllQuestions == UNION {Questions[r] : r \in Requests}

Conditions == {q.condition : q \in AllQuestions} \cup {None}

\* The orders there are to name.
Known == (Orders \cup UNION {{q.session} \cup {q.parts[i].order : i \in DOMAIN q.parts} :
                             q \in AllQuestions}) \ {None}

Intents == ToSet(RuleOrder) \cup {"unknown"} \cup {a.intent : a \in ModelAnswers}

Agents == {Routes[i] : i \in DOMAIN Routes} \cup {None}

PlanTasks ==
  [result : [intent : Intents, confidence : Nat, order : Known \cup {None},
             byRule : BOOLEAN],
   named : Known \cup {None}, needs : SUBSET {1}, condition : Conditions]

Data == [seen : UNION {[S -> Statuses] : S \in SUBSET Known},
         stock : {"absent", "zero", "some"}]

Outcomes ==
  [state : {"completed", "partial", "input_required", "rejected", "failed",
            "blocked", "skipped"},
   human : BOOLEAN, agent : Agents, data : Data]

Responses ==
  [intent : Intents, confidence : Nat, human : BOOLEAN,
   agent : Agents \cup {"multi_agent"}, tools : SUBSET Agents,
   decision : {"guardrail_handoff", "agent_error_handoff", "agent_delegated",
               "low_confidence_handoff", "orchestrator_direct", "capability_handoff",
               "multi_agent_parallel", "complex_task_sequential"}]

\* A question has a part, and one before and one after its condition.
ASSUME QuestionAssumption ==
  /\ \A q \in AllQuestions :
       /\ q.parts \in Seq(ToSet(q.parts))
       /\ Len(q.parts) >= IF q.condition = None THEN 1 ELSE 2
  /\ \A a \in ModelAnswers : a.confidence \in Nat
  /\ None \notin Outcomes \cup Responses

-----------------------------------------------------------------------------
Init == /\ question \in [Requests -> UNION {Questions[r] : r \in Requests}]
        /\ \A r \in Requests : question[r] \in Questions[r]
        /\ phase = [r \in Requests |-> "new"]
        /\ plan = [r \in Requests |-> << >>]
        /\ stage = [r \in Requests |-> << >>]
        /\ outcome = [r \in Requests |-> << >>]
        /\ free = MaxParallel
        /\ waiters = << >>
        /\ response = [r \in Requests |-> None]

\* A question that reads like an attempt to instruct the program.
Deflect(r) ==
  /\ phase[r] = "new"
  /\ Guardrails /\ question[r].injection
  /\ response' = [response EXCEPT ![r] =
       [intent |-> "unknown", confidence |-> 0, human |-> TRUE, agent |-> None,
        tools |-> {}, decision |-> "guardrail_handoff"]]
  /\ phase' = [phase EXCEPT ![r] = "answered"]
  /\ UNCHANGED <<question, plan, stage, outcome, free, waiters>>

Build(r) ==
  /\ phase[r] = "new"
  /\ ~(Guardrails /\ question[r].injection)
  /\ LET segments == Split(question[r]) IN
     \E answers \in [DOMAIN segments -> ModelAnswers \cup {Deferred}] :
       plan' = [plan EXCEPT ![r] = Tasks(segments, answers)]
  /\ stage' = [stage EXCEPT ![r] = [i \in DOMAIN plan'[r] |-> "idle"]]
  /\ outcome' = [outcome EXCEPT ![r] = [i \in DOMAIN plan'[r] |-> None]]
  /\ phase' = [phase EXCEPT ![r] = "planned"]
  /\ UNCHANGED <<question, free, waiters, response>>

\* gather starts all tasks of a parallel plan, else one follows the other.
Ready(r, i) ==
  /\ phase[r] = "planned"
  /\ stage[r][i] = "idle"
  /\ IsParallel(r) \/ \A j \in 1..(i - 1) : stage[r][j] = "done"

EndEarly(r, i) ==
  /\ Ready(r, i)
  /\ EndsEarly(r, i)
  /\ outcome' = [outcome EXCEPT ![r][i] = EarlyOutcome(r, i)]
  /\ stage' = [stage EXCEPT ![r][i] = "done"]
  /\ UNCHANGED <<question, phase, plan, free, waiters, response>>

\* async with self._parallel_limit, which a single task does not pass.
Start(r, i) ==
  /\ Ready(r, i)
  /\ ~EndsEarly(r, i)
  /\ \/ /\ IsMulti(r) /\ free > 0
        /\ free' = free - 1
        /\ stage' = [stage EXCEPT ![r][i] = "running"]
        /\ UNCHANGED waiters
     \/ /\ IsMulti(r) /\ free = 0
        /\ waiters' = Append(waiters, <<r, i>>)
        /\ stage' = [stage EXCEPT ![r][i] = "waiting"]
        /\ UNCHANGED free
     \/ /\ ~IsMulti(r)
        /\ stage' = [stage EXCEPT ![r][i] = "running"]
        /\ UNCHANGED <<free, waiters>>
  /\ UNCHANGED <<question, phase, plan, outcome, response>>

\* The agent returned or raised: the task gives back its slot.
End(r, i, result) ==
  /\ stage[r][i] = "running"
  /\ outcome' = [outcome EXCEPT ![r][i] = result]
  /\ HandOver([stage EXCEPT ![r][i] = "done"], waiters, IF IsMulti(r) THEN 1 ELSE 0)
  /\ UNCHANGED <<question, phase, plan, response>>

AgentReturns(r, i) ==
  LET agent == Resolve(plan[r][i].result.intent) IN
  \/ \E data \in Readings(r, i) : End(r, i, Answered(agent, "fine", data))
  \/ \E kind \in Kinds \ {"fine"} : End(r, i, Answered(agent, kind, NoData))

Bug_AgentRaises(r, i) ==
  /\ "raise" \in Faults
  /\ stage[r][i] = "running"
  /\ outcome' = [outcome EXCEPT ![r][i] = Failed(Resolve(plan[r][i].result.intent))]
  /\ stage' = [stage EXCEPT ![r][i] = "done"]
  /\ UNCHANGED <<question, phase, plan, free, waiters, response>>

AgentRaises(r, i) ==
  /\ "raise" \in Faults
  /\ End(r, i, Failed(Resolve(plan[r][i].result.intent)))

\* The waiters of other requests, in their order.
OtherWaiters(r) ==
  LET kept == {m \in DOMAIN waiters : waiters[m][1] # r}
      Rank(m) == Cardinality(kept \cap (1..m))
  IN [n \in 1..Cardinality(kept) |-> waiters[CHOOSE m \in kept : Rank(m) = n]]

\* The client of a streamed answer goes away: the request is cancelled, and so
\* are its tasks, which leave the semaphore or its queue.
Cancel(r) ==
  /\ "cancel" \in Faults
  /\ phase[r] \in {"new", "planned"}
  /\ phase' = [phase EXCEPT ![r] = "cancelled"]
  /\ plan' = [plan EXCEPT ![r] = << >>]
  /\ outcome' = [outcome EXCEPT ![r] = << >>]
  /\ HandOver([stage EXCEPT ![r] = << >>], OtherWaiters(r),
              Cardinality({t \in Occupied : t[1] = r}))
  /\ UNCHANGED <<question, response>>

Bug_NeedHuman(r) == \A i \in DOMAIN plan[r] : outcome[r][i].human

NeedHuman(r) == \E i \in DOMAIN plan[r] : outcome[r][i].human

SingleDecision(r) ==
  LET first == outcome[r][1] IN
  CASE first.agent # None /\ first.state = "failed" -> "agent_error_handoff"
    [] first.agent # None /\ first.state # "failed" -> "agent_delegated"
    [] first.agent = None /\ first.state = "input_required" -> "low_confidence_handoff"
    [] first.agent = None /\ first.state = "completed" -> "orchestrator_direct"
    [] OTHER -> "capability_handoff"

\* The answer, once every task has its outcome.
Respond(r) ==
  /\ phase[r] = "planned"
  /\ \A i \in DOMAIN plan[r] : stage[r][i] = "done"
  /\ response' = [response EXCEPT ![r] =
       [intent |-> plan[r][1].result.intent,
        confidence |-> plan[r][1].result.confidence,
        human |-> NeedHuman(r),
        agent |-> IF IsMulti(r) THEN "multi_agent" ELSE outcome[r][1].agent,
        tools |-> {outcome[r][i].agent : i \in
                     {j \in DOMAIN plan[r] : outcome[r][j].agent # None
                                             /\ outcome[r][j].state # "failed"}},
        decision |-> IF ~IsMulti(r) THEN SingleDecision(r)
                     ELSE IF IsParallel(r) THEN "multi_agent_parallel"
                     ELSE "complex_task_sequential"]]
  /\ phase' = [phase EXCEPT ![r] = "answered"]
  /\ UNCHANGED <<question, plan, stage, outcome, free, waiters>>

Step(r) == \/ Deflect(r)
           \/ Build(r)
           \/ Respond(r)
           \/ \E i \in DOMAIN plan[r] :
                EndEarly(r, i) \/ Start(r, i) \/ AgentReturns(r, i) \/ AgentRaises(r, i)

Next == \E r \in Requests : Step(r) \/ Cancel(r)

Spec == Init /\ [][Next]_vars

\* The event loop resumes every request, and no agent call is endless: a tool
\* call ends after 2 seconds at most, an A2A call after 5.
FairSpec == Spec /\ \A r \in Requests : WF_vars(Step(r))

-----------------------------------------------------------------------------
(* Properties.                                                             *)

TypeOK ==
  /\ phase \in [Requests -> {"new", "planned", "answered", "cancelled"}]
  /\ plan \in [Requests -> Seq(PlanTasks)]
  /\ \A r \in Requests :
       /\ Len(plan[r]) <= MaxTasks
       /\ stage[r] \in [DOMAIN plan[r] -> {"idle", "waiting", "running", "done"}]
       /\ outcome[r] \in [DOMAIN plan[r] -> Outcomes \cup {None}]
       /\ phase[r] = "answered" <=> response[r] # None
  /\ DOMAIN stage = Requests /\ DOMAIN outcome = Requests
  /\ response \in [Requests -> Responses \cup {None}]
  /\ free \in 0..MaxParallel
  /\ waiters \in Seq(Places)

\* README.md:70, service.py:362: planned tasks run behind one gate of
\* max_parallel_tasks.  Over all requests, and whichever of them fail or are
\* cancelled while they run or wait, no slot is lost or given twice, and none
\* is free while a task waits.
SlotsConserved ==
  /\ free + Cardinality(Occupied) = MaxParallel
  /\ ToSet(waiters) = TasksAt("waiting")
  /\ waiters # << >> => free = 0

\* A task an agent was given, whether or not it has returned.
Acted(r, i) == \/ stage[r][i] = "running"
               \/ outcome[r][i] # None /\ outcome[r][i].agent # None

\* README.md:71-72, service.py:244: the agent of a conditional task is given
\* work only after the task before it ended with nothing left for a human, and
\* with a result the condition was found true of.
ActsOnlyWhenDecided ==
  \A r \in Requests : \A i \in DOMAIN plan[r] :
    question[r].condition # None /\ i = 2 /\ Acted(r, i)
      => /\ outcome[r][1] # None
         /\ outcome[r][1].state = "completed"
         /\ ConditionMatches(question[r].condition, outcome[r][1].data) = "true"

\* README.md:71, planner.py:62: "check the logistics, if it has not shipped
\* apply for a refund".  Where the rules read the first part, a second part
\* that names no order acts on the very order the first one examined.
ActsOnExaminedOrder ==
  \A r \in Requests : \A i \in DOMAIN plan[r] :
    (/\ plan[r][i].condition = "not shipped" /\ Acted(r, i)
     /\ plan[r][i].named = None /\ plan[r][1].result.byRule
     /\ Target(r, 1) # None)
      => DOMAIN outcome[r][1].data.seen = {Target(r, i)}

\* README.md:48, 73: a question is answered without a human only if everything
\* that was planned for it succeeded, or was left out because its condition
\* was found false; one task's failure never hides behind another's success.
NoSilentFailure ==
  \A r \in Requests :
    phase[r] = "answered" /\ ~response[r].human
      => \A i \in DOMAIN plan[r] :
           \/ outcome[r][i].state = "completed"
           \/ /\ outcome[r][i].state = "skipped"
              /\ ConditionMatches(plan[r][i].condition, outcome[r][1].data) = "false"

\* Every request is answered unless its client goes away, however long other
\* requests hold the slots, and whichever agents raise.
RequestsEnd == \A r \in Requests : <>(phase[r] \in {"answered", "cancelled"})

=============================================================================
