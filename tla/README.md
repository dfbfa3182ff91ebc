# A TLA+ verification of ShopAgent

ShopAgent (`src/src/shopagent`) is an asyncio service that answers customers: an
orchestrator splits a question into tasks, routes them to domain agents, which
call tools behind a circuit breaker; users rate the answers, and low ratings
become knowledge candidates that administrators publish. This directory models
the parts of it that keep state across awaits, checks them with TLC, and proves
the central ones with TLAPS. Paths below are relative to `src/src/shopagent`,
except `README.md`, which is the repository's (`src/README.md`).

## The system

| Component | State | Operations | Hard behaviour | Correct when |
|---|---|---|---|---|
| Knowledge review (`operations/feedback.py:95`) | candidate rows, knowledge base, audit trail | `review` | reviewers race; dependencies fail, before or after applying a write; crashes between any two awaits | one claimant; a published candidate is served, a rejected one is not; one audited decision; no candidate stuck |
| Feedback submission (`operations/feedback.py:28`) | feedback, candidates, audit trail | `submit` | concurrent calls under one idempotency key; partial failure | one feedback per key; no orphan candidate; a low rating has its candidate |
| Tool registry (`tools/registry.py`) | per tool: counters, consecutive failures, circuit | `call` | overlapping calls end in any order; timeouts; cancellation | the circuit is open exactly when it should be; metrics add up |
| Session memory (`memory/`) | session memory, session lock | `lock`, `get`, `save`, `clear` | concurrent turns; a lease that runs out; dead pods; `clear` without the lock | no turn overwrites another; no lock left behind |
| Orchestrator (`orchestration/service.py`) | the turn's working copy; a semaphore of all requests | `handle`, `_execute_plan` | failing agents, dependent and conditional tasks, bounded parallelism, cancellation | memory and interaction are written once; a task acts only on a condition found true; no failure is silent; no slot is lost |
| Planner, intent rules, model (`orchestration/planner.py`, `agents/intent.py`, `ports/llm.py`) | none | `build`, `classify` | truncation of long plans; a model that fails for one part only | a task acts on the order that was meant |
| Evaluation (`evaluation.py`) | none | `evaluate_cases`, `calibrate_threshold` | ties, boundaries, empty classes | report and calibration describe what the orchestrator does |
| Operations stores (`operations/store.py`, `mysql_store.py`) | interactions, feedback, candidates, tasks, audit | one transaction per method | unique keys, conditional updates | the two stores agree |
| A2A (`protocols/a2a.py`, `adapters/remote_a2a_agent.py`) | persisted tasks | `send_message`, `get_task` | retries with fresh message ids; a save after the side effect; expiry | tasks are private to their owner, and true |
| Tickets (`agents/after_sales.py`, `tools/order_tools.py`, `adapters/*commerce.py`) | tickets by idempotency key | `create_ticket` | a timed-out write that still runs; retries that race | one ticket per key, for an order of its user; nobody is told of success without one |
| Access tokens (`security/tokens.py`, `api.py`) | none | `issue_token`, `verify_token`, `require_user`, `require_service` | identities that travel in different places | a request speaks for whom its token names |
| Knowledge governance, retrieval (`security/knowledge_governance.py`, `ports/retrieval.py`) | none | `scan`, `_is_eligible`, `search` | validity boundaries | quarantined text is never recalled |
| Models, MCP, guardrails, settings, API, wiring | none of their own | | | |

The components share the operations store and the knowledge base: a chat turn
records the interaction that a submission looks up; a submission saves the
candidate that a review claims; a review upserts the document that retrieval
serves to later turns. A turn's plan hands its tasks to agents, in process or as
A2A messages; the after-sales agent, in process or behind A2A, reaches the ticket
store through the registry, directly or over MCP. Each store method is one atomic step (an asyncio lock
around the method in memory, one SQL transaction on MySQL); everything that can
go wrong happens between two of them. `PROJECT.json` lists each component with
its status, and each hazard at its line.

## The modules

### KnowledgeReview, the core

`review` is modelled await by await: `pc[q]` is where call `q` waits, and one
action is what the code does from one await to the next. `candidates` is the
table, `documents` the knowledge base, `audit` the trail, `copy[q]` the row that
`q` read on line 119 and writes back whole on line 143.

| Action | Lines | |
|---|---|---|
| `ClaimPending`, `ClaimFailed`, `Explain` | 98-118 | conditional updates, or the reason for refusal |
| `Load` | 119-133 | reads the copy and builds the document, which ends the call if the reviewer's name is too long for it |
| `Scan`, `Flag`, `Upsert` | 134-144 | conflicts, whole-row write, publication |
| `GuardedError` | 134-144, 162 | a dependency raises inside the `try`; its write may have been applied |
| `Block` | 145-161 | the ingestion policy refuses |
| `MarkFailed` | 162-178, 186-192 | publication failed |
| `Finalize`, `Reload`, `RecordAudit` | 179-204 | the outcome |
| `StoreError`, `Crash` | | the store raises outside the `try`; the pod dies |

`CompareAndSet` is `update_candidate_status`. Documents are abstracted to their
approver; the text is seen through `Blocked` (refused by
`scan_knowledge_document`) and `Conflicts`. `LongNames` are the reviewers whose
name has more than 128 characters: `KnowledgeDocument` refuses them outside the
`try`, after the claim, so that such a call leaves `publishing` behind as a store
error does. A retry is another call.

`CandidateLifecycle` is what the state machine of README.md:50 promises, without
the code: claims, publications and refusals as single steps. `KnowledgeReview`
implements it under the mapping of statuses, reviewers and documents.

### FeedbackSubmission

`submit` in the same style. Identifiers are minted per call, so a call stands
for its feedback row and its candidate; `Twins` is the unique constraint on user
and idempotency key, which both stores enforce. `Break` ends a call at any await.

### ToolBreaker

`call` awaits once, so a call is an admission (`Deny`, `Refuse`, `Admit`) and an
ending (`Succeed`, `Fail`, `Cancel`); `Tick` moves a discrete clock, and `Urgent`
keeps it from passing the deadline of `wait_for`. `outcomes` and `opened_at` are
history variables for the properties: `CallsAccounted` compares the metrics with
where the calls are, and `consecutive_failures` with the end of `outcomes`.

### SessionTurns

The turn of the orchestrator, from lock to release, on both memory backends;
`backend` is chosen once. The agents are one step, `Execute`: they work on copies
and leave only an answer and the number of tasks. `ExpireLease` is the 60 second
lease: of a dead holder always, of a live one with the fault "slow". `Clear` is
the DELETE endpoint, which takes no lock, or the end of the time to live.
`history` and `late` are history variables.

### PlanExecution

What `SessionTurns!Execute` hides: a request from its question to its response.
A question is seen through its parts (the topics of the words, the order named)
and the wording of its condition; `Split`, `Rules`, `Classify`, `Inherited` and
`Tasks` are what `QueryPlanner.build`, `IntentAgent`, the fallback of the model
provider and the merging of entities do with it.

| Action | Lines of `orchestration/service.py` | |
|---|---|---|
| `Deflect`, `Build` | 103-116 | guardrails; planning, with what the model said of each part |
| `EndEarly` | 243-277, 317-347 | blocked, skipped, undecided, not understood, greeting, no agent |
| `Start` | 349-363 | the semaphore, or its queue; a single task passes it by |
| `AgentReturns`, `AgentRaises` | 361-394 | the outcome, and the slot handed to the first in the queue |
| `Respond` | 283-308, 127-170, 196-207 | the aggregate |
| `Cancel` | `api.py:351` | the client of a streamed answer goes away |

`ConditionMatches` decides as the code does, by what the data of the first task
mentions: an agent's data is abstracted to the orders it tells of with their
status, and the stock. `HandOver` is `asyncio.Semaphore`, modelled from its use: slots that come back go
to the first tasks in the queue, and `OtherWaiters` are those that a cancelled
request leaves in it.

### Evaluation

`evaluate_cases` and `calibrate_threshold` as operators over the responses of
`PlanExecution`, so that their properties compare two programs: the evaluator,
and the orchestrator it speaks of. At the end of every behaviour the answered
requests are the dataset, with every labelling. Confidences are integers
(percent), ratios are per ten thousand. One place depends on the binary fractions
of the code: `evaluation.py:228` subtracts the margin, and 0.85 - 0.05 falls short
of 0.80. `LessMargin` does as well, for the confidences in the constant `Short`,
so that line 229 finds 0.80 not eligible; `MCPlan.cfg` has the confidences of which
Python says so for the margin 0.05. `RecommendedKeepsGood` names the consequence:
a threshold that leaves exactly the margin below such a confidence does not count
as low enough, and the code may then recommend one that leaves none.

### Access, TicketPromise, TicketCreation

`Access` has tokens as records and the checks made of them. `TicketPromise` is
the abstract specification: one ticket for each key of a user, and whoever is
told of a ticket is told of the one of his key. `TicketCreation` is the way
there: `client[c]` is the caller, `agent[c]` the after-sales agent in process or
behind A2A, `tool[c]` the tool call in process or behind MCP, and `thread[c]` the
MySQL thread, which goes on when the tool is cancelled. There are four ways in,
and `query[c].via` is the one a call takes: a chat, a message of a service to the
orchestrator or to the agent, or a call of the tool at `/mcp`. A message to the
orchestrator is answered when it has an answer of its own, and as a task: `gate[c]`
is where its sender is and `filed[c]` that task, next to `tasks[c]`, which is the
agent's.

| Action | Code | |
|---|---|---|
| `AskChat`, `AskAgent` | `api.py:323-353`, `api.py:288-309` | the user is bound to the token; the agent's endpoint looks at its token in `Receive` |
| `AskOrchestrator` | `api.py:275-286` | a live service token, for any agent |
| `AskTool` | `protocols/mcp_server.py:60-150` | the agent of the token, or the one claimed; the scope of the ticket tools |
| `Receive` | `protocols/a2a.py:80-156` | refusals; a task rejected for another agent |
| `Lose`, `TimeOut` | `adapters/remote_a2a_agent.py:34-43, 89` | lost requests, the five seconds |
| `Execute`, `Look`, `Forbid` | `agents/after_sales.py`, `tools/order_tools.py:39-44` | |
| `CreateInMemory` | `adapters/mock_commerce.py:47` | |
| `StartWriting`, `Lookup`, `Insert` | `adapters/mysql_commerce.py:86-118` | the thread: look up, insert, look up again |
| `ToolFails`, `GiveUp` | `tools/registry.py:81-109`, `adapters/remote_mcp_tools.py:48` | two seconds, three seconds |
| `Save`, `SaveFails` | `protocols/a2a.py:193` | the agent's task |
| `File`, `FileFails` | `protocols/a2a.py:182-198` | the orchestrator's, completed whatever the answer says |
| `Expire`, `ReadTask` | `operations/mysql_store.py:240-256`, `api.py:314` | either of them |
| `Restart` | | the processes die; what MySQL has stays |

A call is one attempt; a client that retries is a second call with the same
query. Calls without a key of the client's count under the key that was made for
them: a fresh message id over A2A, so that a repeated chat without
`Idempotency-Key` creates a second ticket there. The tool itself makes none: a
ticket without a key is found by nobody, as under a key of its own.

MC modules name the symmetry, the conflict relation, the questions, queries and
deployments; each `.cfg` gives the constants.

## What the runs check

| Run | Shows | Bounds |
|---|---|---|
| `review_race` | safety of the review, and that it implements `CandidateLifecycle` | 2 candidates that conflict, 3 reviewers (one with too long a name), 3 calls, all faults |
| `review_progress` | every publication ends; blocked text is never served | 2 candidates, one blocked, 3 calls, knowledge-base errors, names that fit, fairness |
| `review_stuck` | **violated**: a store error leaves `publishing` for ever | 1 candidate, 2 calls |
| `submit_race` | idempotent submissions, complete answers | 3 calls, 2 users, 2 interactions, 1 key and the empty key, all faults |
| `submit_lost` | **violated**: a candidate is lost between two writes | 2 calls |
| `breaker` | the circuit is open exactly when it should be; metrics and failure count add up | 4 calls, threshold 2, cooldown 2, timeout 1, clock to 6 |
| `turns` | no lost turn, leases respected, no lock left behind | 3 turns, window of 3 messages, both backends, all faults |
| `turns_lost` | **violated**: a turn outlives its lease | 2 turns |
| `turns_unreadable` | **violated**: six tasks make a session unreadable | 2 turns, plans of up to 6 |
| `plan` | conditional tasks act only on a true condition and on the order examined; no silent failure; slots conserved; every request ends; report and calibration agree with the orchestrator | 2 requests, 1 slot, plans of 2 tasks (questions of up to 3 parts), 2 orders, thresholds 50, 80, 81 and 95, results of which one hits the margin in decimals only, agents that raise, clients that leave |
| `tickets` | `TicketCreation` implements `TicketPromise`; tickets on own orders; no false success; A2A tasks true and private; every call ends | 2 calls, the second of 23 kinds, 2 users, 2 orders, 4 deployments, 1 restart, all timeouts, lost messages and failing saves |
| `tickets_miss` | **violated**: a degraded result is complete over A2A | 2 policy questions, the same deployments |

Three calls are the least that let a second call take over a failed attempt of a
first while a third still races; two candidates are the least that conflict.
A fault may strike every call at every await. The breaker needs two failures
beyond the threshold in flight to prolong an open circuit and one success to
close it: four calls. The window of three messages is smaller than two turns, so
trimming cuts a turn in half, which the setting allows. One slot for two
requests is the least that makes a task wait for another request's, and two
tasks are all a conditional plan has; a third part of a question is cut off. Two
attempts suffice for a retry that overtakes its first attempt, because the store
only ever compares two tickets; the 23 second calls vary the first one by a
field or two each: key, order, user, token, way in, purpose. The four deployments are
in memory, A2A, MySQL, and production, which is all of them and MCP. Calls end
and are not reused, so all runs switch the deadlock check off: the system stops when every
call has been made.

Deviations from the repository's own statements, each with its run in
`PROJECT.json`: a candidate stuck in `publishing` (README.md:50), a lost
candidate (README.md:61), a lost turn (`redis_store.py:28`, README.md:88), a
degraded answer that needs no human over A2A (README.md:86), and settings that allow more tasks than a session can store (`settings.py:54`,
README.md:68). Three more are part of the modelled behaviour without a run of
their own: two conflicting candidates published concurrently leave no
`potential_conflict` flag (README.md:96), because the lookup and the upsert are
separate; and a call in flight that succeeds closes an open circuit before its
30 seconds are over (README.md:102), which `OpenExactly` states as it is; and
a condition "out of stock" is judged as "in stock", whose words it contains
(README.md:72), as `ConditionMatches` has it.

Who may have a ticket made is part of the modelled behaviour as well. A service is
believed whom it acts for, on every way in. The agent's endpoint (`api.py:297`)
and the tool ask for a token of the after-sales agent (the endpoint takes the
orchestrator's too); the orchestrator's endpoint (`api.py:275`) takes a live
service token of any agent, and its agent then makes the ticket. No document says
otherwise, so `TicketsOnOwnOrders` states each way in as it is.

### Fairness

`KnowledgeReview!FairSpec` is weak fairness of each call's own steps: the event
loop resumes a coroutine whose await was answered, with a result or an error.
Arrivals, store errors and crashes are not fair. `SessionTurns!FairSpec` adds
weak fairness of `ExpireLease` (Redis expires keys) and, for the in-memory
backend only, strong fairness of acquiring the lock: `asyncio.Lock` wakes its
waiters in order. On Redis a waiting turn gives up after 10 seconds instead.
`PlanExecution!FairSpec` is weak fairness of each request's steps: every agent
call ends, because a tool call ends after 2 seconds and an A2A call after 5;
cancellation is not fair. That no request starves in the semaphore's queue is
not assumed: `HandOver` serves it in order, as `asyncio.Semaphore` does.
`TicketCreation!FairSpec` is weak fairness, for each call, of its steps and the
HTTP client's timeout together: the steps include the tool's timeout, and one of
the timers fires if nothing else happens. Lost messages, failing saves, MCP
timeouts, expiry and restarts are not fair. `PublishingEnds` is checked for
reviewers whose names fit a document, as for a store that answers: the run
`review_stuck` shows what becomes of a claim when an error strikes outside the
`try`.

## What is proved

Each component has its proofs in a module of its own, `<component>Proofs`. The
theorems hold for every value of the constants: any sets of calls, users and
requests, any faults, thresholds, windows and bounds. Every safety invariant and
action property that a passing run checks is stated by a theorem, and so are the
two refinements. All of them rest on an inductive invariant, `IInv`, and proceed
alike: one lemma per action shows that the acting call, turn or task keeps its
own part and that the others keep theirs; `Invariance` puts the actions together.

| Module | Assumes | Proves |
|---|---|---|
| `KnowledgeReviewProofs` | `ReviewAssumption` | `TypeOK`, `OneClaimant`, `PublishedIsServed`, `RejectedNotServed`, `BlockedNeverServed`, `DecisionAuditedOnce`, `NeverUnexpected`, `FlagsSurvive`, `ImplementsLifecycle` |
| `FeedbackSubmissionProofs` | `SubmissionAssumption` | `TypeOK`, `SameKeySameAnswer`, `NoOrphanCandidate`, `OwnFeedbackOnly`, `AuditedHasCandidate`, `AnswersComplete` |
| `ToolBreakerProofs` | `BreakerAssumption` | `TypeOK`, `OpenExactly`, `CallsAccounted`, `ProlongedAtMost` |
| `SessionTurnsProofs` | `TurnsAssumption` | `TypeOK`, `LeaseHeld`, `HistoryKept` |
| `TicketCreationProofs` | `DeploymentAssumption`, `QueryAssumption` | `TypeOK`, `TicketsOnOwnOrders`, `NoFalseSuccess`, `TasksTellTheTruth`, `TasksPrivate`, `OneTicketPerKey` |
| `PlanExecutionProofs` | `PlanAssumption`, `QuestionAssumption` | `TypeOK`, `SlotsConserved`, `ActsOnlyWhenDecided`, `ActsOnExaminedOrder`, `NoSilentFailure` |
| `EvaluationProofs` | those and `EvaluationAssumption` | `CalibrationAgrees`, `RecommendedKeepsGood`, `CleanReportIsPerfect` |

The assumptions say that markers such as `None` are none of the values they stand
beside, that the settings are in the range `settings.py` checks, and that what is
counted is finite. Each is evaluated by TLC on the instance of a run.

### The review

None of its properties is inductive. `IInv` has five parts:

- `TypeOK`;
- `CallInv(q)`: what a call at a given await knows. One that has claimed its
  candidate finds the row in `publishing` under its own name; its copy agrees
  with the row, so that the whole-row write on line 143 changes the flags alone;
  past the upsert the document is its own; in an audit await the row already
  shows what will be audited;
- `Exclusive`: a candidate has one holder (a claimant, or a call that has just
  decided), and a holder that still has to audit its decision finds none in the
  trail;
- `ServedInv`: which statuses go with a served document;
- `DecisionAuditedOnce`.

The others keep their `CallInv` because the row they depend on cannot be the one
that changed: that is what `Exclusive` is for. The refinement uses the same
invariant: the whole-row write is a stuttering step of the life cycle, because
the copy is current, and `Finalize` finds the document of its reviewer served.

### Submissions

`RowInv` ties a row to the call that inserted it, and to how far that call has
come; `OneRowPerKey` is the unique constraint; `CallInv` says that a call that has
an answer has it from a row of its own user and key. That two calls under one key
answer alike is then uniqueness; that a returned call has its candidate and its
audit event needs `WritesInv`, which says the converse of both writes.

### The breaker

`OpenExactly` speaks of the last outcomes, the code of a counter and a time.
`StreakInv` relates the two: the counter is the length of the run of failures at
the end of `outcomes`. `CircuitInv` says when the circuit opened or was moved,
and `DeadlineInv` that what runs while it is open was admitted before.

### Turns

`HistoryKept` is kept because of `WorkInv`: the working copy is the window of the
history, and nobody saves between its load and its save, since whoever is there
holds the lock (`LeaseHeld`). The lemma `RecentOfRecent` says that trimming at
every save loses nothing that one trim at the end would keep.

### Tickets

`PathInv` says how far agent, tool and thread of a call can be from each other,
`ToldInv` what is on its way to the caller, and `TicketsInv` that tickets are
unique by user and key. `GateInv` is the orchestrator's endpoint: who came through
it had a good token, and its task repeats the answer. The strengthening that everything hangs on is in
`ToldInv`: while the tool or the thread of a call may still make a ticket, its
caller has been told of none, and an answer without one asks for a human. In the
refinement the ticket of a key is made by the call whose `Insert` or
`CreateInMemory` succeeds, and a caller is told of it with his reply; every other
step is a stuttering step.

### Plans

`PlanInv` describes the plans that `Build` makes: a condition is on the second of
two tasks, which then depends on the first, and without an order of its own works
on the order of the first, by `Inherited`. `TaskInv` says of a task that was
given to an agent that the first one is done, that its outcome is complete, and
that the condition was found true of it: what was decided stays so, because
outcomes are written once. `SlotsInv` counts. The slots that are not free are
held by the tasks in `Occupied`; no task waits twice, and those that wait are
those in the queue. `HandOverKeeps` proves it for any number of slots that come
back at once, which is what a cancellation needs.

### Evaluation

`ReadingInv` says of a response what the calibration takes for granted: intent
and confidence are those of the first task, and a single task ends with the
orchestrator asking back exactly if its result was below the threshold or
unknown. That the recommended threshold is a cheapest one, and an eligible one if
there is any, is arithmetic on finite sets, whatever confidences are in `Short`.
`CleanReportIsPerfect` is proved for
datasets of fewer than 20000 cases, and is false beyond: rounded to four
decimals, 19999 of 20000 is 100 %.

## Model-checked only, and not modelled

Liveness (`PublishingEnds`, `TurnsEnd`, `RequestsEnd`, `CallsEnd`) is left to
TLC, as the prover does not handle fairness, and so are the five counterexamples.
Not modelled: regular expressions
(guardrails, redaction, planner), the cryptography of tokens, HTTP and SSE
plumbing, agent cards, latencies, dashboards and demonstration data,
construction at startup. They keep no state across awaits; where a model depends
on one of them, it sees the verdict as a constant or a choice. Retrieval
(`ports/retrieval.py`, `rag/service.py`) is a pure function of one query and the
documents, so far seen as a hit or a miss; its vector backend has no least score
(`ports/retrieval.py:163`), so that with it a search over any eligible document
never misses, README.md:86 notwithstanding. The product and recommendation
agents only read the catalogue; the long-term memory contract has no caller.

## Plan

1. Done: `CandidateLifecycle`, `KnowledgeReview` and its proofs,
   `FeedbackSubmission`, `ToolBreaker`, `SessionTurns`, `PlanExecution` with
   `Evaluation`, and `TicketCreation` with `Access` and `TicketPromise`.
2. Done: the proofs of every safety property and refinement.
3. Retrieval eligibility as an operator over bounded documents and queries, with
   its boundaries, in place of the constant hit or miss.
