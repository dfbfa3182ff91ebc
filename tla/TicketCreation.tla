---------------------------- MODULE TicketCreation ----------------------------
(***************************************************************************)
(* A question for the after-sales agent, from the request that asks it to  *)
(* the row in the database.  It comes as a chat, as a message of another   *)
(* service to the orchestrator or to the agent, or as a call of the tool   *)
(* itself: the orchestrator runs the agent in its own process or calls it  *)
(* over A2A; the agent calls its tools directly or over MCP; the tool      *)
(* checks whose order it is and writes a ticket; the thread that writes it *)
(* in MySQL cannot be cancelled; and of every message of a service a task  *)
(* is stored when all is done.                                             *)
(*                                                                         *)
(* A call is one attempt: a client that retries is a second call with the  *)
(* same query.  Ticket and task identifiers are drawn by the server, once  *)
(* an attempt, so the attempt names them.                                  *)
(***************************************************************************)
EXTENDS Access, Naturals, FiniteSets

CONSTANTS Calls,
          Queries,      \* Queries[c]: what call c may ask
          OwnerOf,      \* OwnerOf[o]: the user whose order o is
          Deployments,  \* how the program may be configured
          Readers,      \* the tokens with which tasks are asked for
          MaxRestarts

\* container.py, settings.py: production means every boundary is remote.
ASSUME DeploymentAssumption ==
  /\ \A d \in Deployments : d.production => d.a2a /\ d.mcp /\ d.mysql
  /\ MaxRestarts \in Nat

VARIABLES deploy,    \* the settings: a2a, mcp, mysql, production
          query,     \* query[c]: what call c asks
          client,    \* client[c]: where whoever waits for the agent or the tool is
          agent,     \* agent[c]: where AfterSalesAgent.execute is
          tool,      \* tool[c]: where the handler of its tool call is
          thread,    \* thread[c]: where the thread that writes its ticket is
          work,      \* work[c]: the A2A task to be stored, or None
          reply,     \* reply[c]: what he was answered, or None
          tickets,   \* the tickets that are stored
          tasks,     \* tasks[c]: the stored A2A task of c, or None
          shown,     \* shown[c]: the tokens that were shown that task
          gate,      \* gate[c]: where a service is that asks the orchestrator
          filed,     \* filed[c]: the task of its message, or None
          seen,      \* seen[c]: the tokens that were shown that one
          restarts

vars == <<deploy, query, client, agent, tool, thread, work, reply, tickets,
          tasks, shown, gate, filed, seen, restarts>>

-----------------------------------------------------------------------------
(* The request.                                                            *)

\* The agent is called over A2A: by an orchestrator that delegates, or by
\* another service.  A call of the tool reaches no agent.
Remote(c) == query[c].via = "agent" \/ (deploy.a2a /\ query[c].via # "tool")

\* The token the agent's A2A endpoint sees.
SentToken(c) ==
  IF query[c].via = "agent" THEN query[c].token
  ELSE ServiceToken("shopagent_orchestrator", "after_sales_agent")

Caller(c) == RequireService(SentToken(c), deploy.production)

\* Whom the orchestrator's A2A endpoint takes the caller for.
Sender(c) == RequireService(query[c].token, deploy.production)

\* A token for another agent does not do, where tokens are looked at.
MayCall(principal) ==
  /\ principal # Refused
  /\ deploy.production =>
       principal.agent \in {"after_sales_agent", "shopagent_orchestrator"}

\* RemoteA2AAgent draws a messageId for every attempt; it replaces the one in
\* the context of the message the orchestrator was given.
MessageId(c) ==
  IF deploy.a2a /\ query[c].via \in {"chat", "orchestrator"} THEN c
  ELSE query[c].message

\* The digest of the user, the session, the order and the text.
Digest(q) == [user |-> q.user, order |-> q.order, text |-> q.text]

\* The agent makes a key where it was given none; the tool does not, and a
\* ticket without a key is found by nobody, as under a key of its own.
Key(c) ==
  IF query[c].key # None THEN query[c].key
  ELSE IF query[c].via = "tool" THEN c
  ELSE IF MessageId(c) # None THEN MessageId(c)
  ELSE Digest(query[c])

-----------------------------------------------------------------------------
(* Results.                                                                *)

\* The result of an agent: "made" and "status" may name a ticket, "forbidden"
\* has an error, "incomplete" has missing fields, "miss" is degraded.
Result(kind, ticket) == [kind |-> kind, ticket |-> ticket]

Failure == Result("unavailable", None)

Reply(result, human) ==
  [kind |-> result.kind, ticket |-> result.ticket, human |-> human]

\* The kinds whose data has an error or missing fields.
Faulty == {"forbidden", "incomplete", "unavailable"}

Bug_NeedsHuman(state, result) == result.kind \in Faulty

\* What RemoteA2AAgent and the orchestrator make of a task together: whether it
\* is degraded is what its state says, whatever the agent's result said.
NeedsHuman(state, result) == state # "completed" \/ result.kind \in Faulty

\* What the orchestrator makes of an agent in its own process.
LocalHuman(result) == result.kind \in Faulty \cup {"miss"}

Task(state, result) == [state |-> state, result |-> result]

ResultKinds == {"made", "status", "policy", "miss", "elsewhere"} \cup Faulty

Results == [kind : ResultKinds, ticket : Calls \cup {None}]

Replies == [kind : ResultKinds, ticket : Calls \cup {None}, human : BOOLEAN]

TaskStates == {"completed", "failed", "rejected"}

\* Whom tokens name, and the names require_service gives to callers without.
Tokens == {q.token : q \in UNION {Queries[c] : c \in Calls}} \ {None}

Subjects == {token.subject : token \in Tokens}
              \cup {"anonymous", "development-service", "shopagent_orchestrator"}

StoredTasks == [state : TaskStates, result : Results, owner : Subjects, live : BOOLEAN]

\* A question comes in four ways.  The tools that only after_sales_agent may
\* call are the two for tickets, and no order is no argument for them.  None
\* and Refused are none of the values they stand beside.
ASSUME QueryAssumption ==
  /\ \A c \in Calls : \A q \in Queries[c] :
       /\ q.via \in {"chat", "orchestrator", "agent", "tool"}
       /\ q.via = "tool" => q.ask = "status" \/ (q.ask = "apply" /\ q.order # None)
  /\ Refused # "after_sales_agent"
  /\ \A token \in Tokens : Principal(token.subject, token.agent) \notin {None, Refused}
  /\ Principal("shopagent_orchestrator", "after_sales_agent") # Refused
  /\ None \notin {Refused} \cup Calls \cup Replies \cup StoredTasks
  /\ None \notin [state : TaskStates, result : Results]

-----------------------------------------------------------------------------
Init == /\ deploy \in Deployments
        /\ query \in [Calls -> UNION {Queries[c] : c \in Calls}]
        /\ \A c \in Calls : query[c] \in Queries[c]
        /\ client = [c \in Calls |-> "new"]
        /\ agent = [c \in Calls |-> "none"]
        /\ tool = [c \in Calls |-> "none"]
        /\ thread = [c \in Calls |-> "none"]
        /\ work = [c \in Calls |-> None]
        /\ reply = [c \in Calls |-> None]
        /\ tickets = {}
        /\ tasks = [c \in Calls |-> None]
        /\ shown = [c \in Calls |-> {}]
        /\ gate = [c \in Calls |-> "none"]
        /\ filed = [c \in Calls |-> None]
        /\ seen = [c \in Calls |-> {}]
        /\ restarts = 0

Set(f, c, x) == [f EXCEPT ![c] = x]

\* The caller is answered, if it still waits.
Answered(c, answer) ==
  IF client[c] = "waiting"
  THEN client' = Set(client, c, "answered") /\ reply' = Set(reply, c, answer)
  ELSE UNCHANGED <<client, reply>>

\* A remote call failed: the orchestrator catches it and apologises, another
\* caller sees the error.
Failed(c) ==
  IF query[c].via \in {"chat", "orchestrator"} THEN Answered(c, Reply(Failure, TRUE))
  ELSE client' = Set(client, c, IF client[c] = "waiting" THEN "failed" ELSE client[c])
       /\ UNCHANGED reply

Bug_Conclude(c, result) ==
  IF Remote(c)
  THEN /\ agent' = Set(agent, c, "saving")
       /\ work' = Set(work, c, IF result = Failure THEN None
                               ELSE Task("completed", result))
       /\ UNCHANGED <<client, reply>>
  ELSE /\ agent' = Set(agent, c, "over")
       /\ Answered(c, Reply(result, LocalHuman(result)))
       /\ UNCHANGED work

\* The agent is done: its result is the answer, or becomes a task.
Conclude(c, result) ==
  IF Remote(c)
  THEN /\ agent' = Set(agent, c, "saving")
       /\ work' = Set(work, c,
            Task(IF result = Failure THEN "failed" ELSE "completed", result))
       /\ UNCHANGED <<client, reply>>
  ELSE /\ agent' = Set(agent, c, "over")
       /\ Answered(c, Reply(result, LocalHuman(result)))
       /\ UNCHANGED work

\* The tool returns to the agent, or to nobody, if the agent gave up; or to
\* its own caller.
Return(c, result) ==
  /\ tool' = Set(tool, c, "over")
  /\ IF agent[c] = "calling" \/ query[c].via = "tool" THEN Conclude(c, result)
     ELSE UNCHANGED <<client, agent, work, reply>>

Same == UNCHANGED <<deploy, query, shown, gate, filed, seen, restarts>>

-----------------------------------------------------------------------------
(* The caller and the endpoint.                                            *)

TurnAway(c) ==
  client' = Set(client, c, "failed") /\ UNCHANGED <<agent, tool, gate>>

\* The agent is asked.
LetIn(c) ==
  /\ client' = Set(client, c, "waiting")
  /\ agent' = Set(agent, c, IF Remote(c) THEN "sent" ELSE "starting")
  /\ UNCHANGED tool

\* POST /api/v1/chat, and /api/v1/chat/stream.
AskChat(c) ==
  /\ query[c].via = "chat"
  /\ IF BoundUser(query[c].user, RequireUser(query[c].token, deploy.production))
          = Refused
     THEN TurnAway(c)
     ELSE LetIn(c) /\ UNCHANGED gate

\* A message to the agent itself: its endpoint has yet to look at the token.
AskAgent(c) ==
  query[c].via = "agent" /\ LetIn(c) /\ UNCHANGED gate

\* POST /a2a/message:send, which lets in a token of a service for any agent,
\* and has the orchestrator handle the message for the user it names.
AskOrchestrator(c) ==
  /\ query[c].via = "orchestrator"
  /\ IF Sender(c) = Refused THEN TurnAway(c)
     ELSE LetIn(c) /\ gate' = Set(gate, c, "open")

\* tools/call at /mcp.
AskTool(c) ==
  /\ query[c].via = "tool"
  /\ \E claimed \in {"after_sales_agent", "product_agent"} :
       IF ToolAgent(query[c].token, claimed, deploy.production) # "after_sales_agent"
       THEN TurnAway(c)
       ELSE /\ client' = Set(client, c, "waiting")
            /\ agent' = Set(agent, c, "over")
            /\ tool' = Set(tool, c, "checking")
            /\ UNCHANGED gate

Ask(c) ==
  /\ client[c] = "new"
  /\ AskChat(c) \/ AskAgent(c) \/ AskOrchestrator(c) \/ AskTool(c)
  /\ UNCHANGED <<deploy, query, thread, work, reply, tickets, tasks, shown,
                 filed, seen, restarts>>

\* POST /a2a/after_sales_agent/message:send.  The classification of the text
\* may name another agent than it did for the sender, which is a task as well;
\* a memory of another user or session is refused before the agent runs.
Receive(c) ==
  /\ agent[c] = "sent"
  /\ \/ /\ ~MayCall(Caller(c)) \/ ~query[c].fits
        /\ agent' = Set(agent, c, "over")
        /\ Failed(c)
        /\ UNCHANGED work
     \/ /\ MayCall(Caller(c))
        /\ agent' = Set(agent, c, "saving")
        /\ work' = Set(work, c, Task("rejected", Result("elsewhere", None)))
        /\ UNCHANGED <<client, reply>>
     \/ /\ MayCall(Caller(c)) /\ query[c].fits
        /\ agent' = Set(agent, c, "starting")
        /\ UNCHANGED <<client, work, reply>>
  /\ UNCHANGED <<tool, thread, tickets, tasks>> /\ Same

\* The request is lost on its way.
Lose(c) ==
  /\ agent[c] = "sent"
  /\ agent' = Set(agent, c, "over")
  /\ UNCHANGED <<client, tool, thread, work, reply, tickets, tasks>> /\ Same

Bug_TimeOut(c) ==
  /\ client[c] = "waiting" /\ agent[c] \in {"calling", "saving"}
  /\ Remote(c) /\ Failed(c)
  /\ UNCHANGED <<agent, tool, thread, work, tickets, tasks>> /\ Same

\* Five seconds are over, or the connection breaks; the server goes on.
TimeOut(c) ==
  /\ client[c] = "waiting" /\ (Remote(c) \/ query[c].via = "tool")
  /\ Failed(c)
  /\ UNCHANGED <<agent, tool, thread, work, tickets, tasks>> /\ Same

-----------------------------------------------------------------------------
(* The agent and its tools.                                                *)

\* AfterSalesAgent.execute up to its tool call.
Execute(c) ==
  /\ agent[c] = "starting"
  /\ IF query[c].ask = "apply" /\ query[c].order = None
     THEN Conclude(c, Result("incomplete", None)) /\ UNCHANGED tool
     ELSE /\ agent' = Set(agent, c, "calling")
          /\ tool' = Set(tool, c, "checking")
          /\ UNCHANGED <<client, work, reply>>
  /\ UNCHANGED <<thread, tickets, tasks>> /\ Same

OwnTicket(c, t) == \E k \in tickets : k.id = t /\ k.user = query[c].user

\* after_sales.get, and knowledge.search with hits or without.
Look(c) ==
  /\ tool[c] = "checking"
  /\ \/ /\ query[c].ask = "status"
        /\ Return(c, Result("status",
             IF OwnTicket(c, query[c].names) THEN query[c].names ELSE None))
     \/ /\ query[c].ask = "policy"
        /\ \E kind \in {"policy", "miss"} : Return(c, Result(kind, None))
  /\ UNCHANGED <<thread, tickets, tasks>> /\ Same

OwnOrder(c) == OwnerOf[query[c].order] = query[c].user

SameKey(c) == {t \in tickets : t.user = query[c].user /\ t.key = Key(c)}

Ticket(c) ==
  [id |-> c, user |-> query[c].user, order |-> query[c].order, key |-> Key(c)]

\* create_ticket when the order is not the user's.
Forbid(c) ==
  /\ tool[c] = "checking" /\ query[c].ask = "apply" /\ ~OwnOrder(c)
  /\ Return(c, Result("forbidden", None))
  /\ UNCHANGED <<thread, tickets, tasks>> /\ Same

\* create_ticket with the adapters in memory, which never wait.
CreateInMemory(c) ==
  /\ tool[c] = "checking" /\ query[c].ask = "apply" /\ OwnOrder(c) /\ ~deploy.mysql
  /\ \E t \in IF SameKey(c) = {} THEN {Ticket(c)} ELSE SameKey(c) :
       /\ tickets' = tickets \cup {t}
       /\ Return(c, Result("made", t.id))
  /\ UNCHANGED <<thread, tasks>> /\ Same

\* create_ticket once the order was found in MySQL: a thread writes.
StartWriting(c) ==
  /\ tool[c] = "checking" /\ query[c].ask = "apply" /\ OwnOrder(c) /\ deploy.mysql
  /\ tool' = Set(tool, c, "creating")
  /\ thread' = Set(thread, c, "lookup")
  /\ UNCHANGED <<client, agent, work, reply, tickets, tasks>> /\ Same

\* The thread ends; the tool returns unless it was cancelled.
ThreadEnds(c, result) ==
  /\ thread' = Set(thread, c, "over")
  /\ IF tool[c] = "creating" THEN Return(c, result)
     ELSE UNCHANGED <<client, agent, tool, work, reply>>

\* _ticket_by_key, before the insert and, where the key was taken, after it.
Lookup(c) ==
  /\ thread[c] \in {"lookup", "again"}
  /\ \/ /\ SameKey(c) = {} /\ thread[c] = "lookup"
        /\ thread' = Set(thread, c, "insert")
        /\ UNCHANGED <<client, agent, tool, work, reply>>
     \/ \E t \in SameKey(c) : ThreadEnds(c, Result("made", t.id))
  /\ UNCHANGED <<tickets, tasks>> /\ Same

Bug_Insert(c) ==
  /\ thread[c] = "insert"
  /\ tickets' = tickets \cup {Ticket(c)}
  /\ ThreadEnds(c, Result("made", c))
  /\ UNCHANGED tasks /\ Same

\* The insert, under uq_ticket_user_idempotency; the connection may break
\* when the row is in and before the thread knows.
Insert(c) ==
  /\ thread[c] = "insert"
  /\ \/ /\ SameKey(c) = {}
        /\ tickets' = tickets \cup {Ticket(c)}
        /\ ThreadEnds(c, Result("made", c)) \/ ThreadEnds(c, Failure)
     \/ /\ SameKey(c) # {}
        /\ thread' = Set(thread, c, "again")
        /\ UNCHANGED <<client, agent, tool, work, reply, tickets>>
  /\ UNCHANGED tasks /\ Same

\* The registry refuses the tool (its circuit is open), the database does, or
\* two seconds are over: the tool raises, and the thread, if any, goes on.
ToolFails(c) ==
  /\ tool[c] \in {"checking", "creating"}
  /\ Return(c, Failure)
  /\ UNCHANGED <<thread, tickets, tasks>> /\ Same

\* The MCP client's three seconds are over; the tool goes on.
GiveUp(c) ==
  /\ deploy.mcp /\ agent[c] = "calling"
  /\ Conclude(c, Failure)
  /\ UNCHANGED <<tool, thread, tickets, tasks>> /\ Same

-----------------------------------------------------------------------------
(* The A2A task.                                                           *)

Stored(c) == [state |-> work[c].state, result |-> work[c].result,
              owner |-> Caller(c).subject, live |-> TRUE]

\* save_task, and the reply.
Save(c) ==
  /\ agent[c] = "saving"
  /\ tasks' = Set(tasks, c, Stored(c))
  /\ Answered(c, Reply(work[c].result, NeedsHuman(work[c].state, work[c].result)))
  /\ agent' = Set(agent, c, "over")
  /\ work' = Set(work, c, None)
  /\ UNCHANGED <<tool, thread, tickets>> /\ Same

Bug_SaveFails(c) ==
  /\ deploy.mysql /\ agent[c] = "saving"
  /\ Answered(c, Reply(work[c].result, NeedsHuman(work[c].state, work[c].result)))
  /\ agent' = Set(agent, c, "over")
  /\ work' = Set(work, c, None)
  /\ UNCHANGED <<tool, thread, tickets, tasks>> /\ Same

\* save_task raises, which is a 500 to the sender.
SaveFails(c) ==
  /\ deploy.mysql /\ agent[c] = "saving"
  /\ Failed(c)
  /\ agent' = Set(agent, c, "over")
  /\ work' = Set(work, c, None)
  /\ UNCHANGED <<tool, thread, tickets, tasks>> /\ Same

\* What a2a.py makes of the orchestrator's answer: a completed task, whatever
\* the answer says.
Filed(c) == [state |-> "completed", result |-> Result(reply[c].kind, reply[c].ticket),
             owner |-> Sender(c).subject, live |-> TRUE]

\* The orchestrator has answered: the task is stored and its sender answered, if
\* he is still there.
File(c) ==
  /\ gate[c] = "open" /\ client[c] = "answered"
  /\ filed' = Set(filed, c, Filed(c))
  /\ gate' = Set(gate, c, "answered")
  /\ UNCHANGED <<deploy, query, client, agent, tool, thread, work, reply,
                 tickets, tasks, shown, seen, restarts>>

\* What is left of the orchestrator's turn raises, or save_task does.
FileFails(c) ==
  /\ gate[c] = "open" /\ client[c] = "answered"
  /\ gate' = Set(gate, c, "failed")
  /\ UNCHANGED <<deploy, query, client, agent, tool, thread, work, reply,
                 tickets, tasks, shown, filed, seen, restarts>>

Expired(task) == [task EXCEPT !.live = FALSE]

Expire(c) ==
  /\ \/ /\ tasks[c] # None /\ tasks[c].live
        /\ tasks' = Set(tasks, c, Expired(tasks[c])) /\ UNCHANGED filed
     \/ /\ filed[c] # None /\ filed[c].live
        /\ filed' = Set(filed, c, Expired(filed[c])) /\ UNCHANGED tasks
  /\ UNCHANGED <<deploy, query, client, agent, tool, thread, work, reply,
                 tickets, shown, gate, seen, restarts>>

Bug_Visible(task, principal) == task # None /\ task.live

\* get_task; rows that have expired are deleted here as well, which nobody
\* can tell from their not being shown.
Visible(task, principal) ==
  task # None /\ task.live /\ task.owner = principal.subject

\* GET /a2a/tasks/{task_id}
ReadTask(c, token) ==
  LET principal == RequireService(token, deploy.production) IN
  /\ principal # Refused
  /\ \/ /\ Visible(tasks[c], principal)
        /\ shown' = Set(shown, c, shown[c] \cup {token}) /\ UNCHANGED seen
     \/ /\ Visible(filed[c], principal)
        /\ seen' = Set(seen, c, seen[c] \cup {token}) /\ UNCHANGED shown
  /\ UNCHANGED <<deploy, query, client, agent, tool, thread, work, reply,
                 tickets, tasks, gate, filed, restarts>>

-----------------------------------------------------------------------------
\* The processes restart: what was under way is gone, what MySQL has stays.
Restart ==
  LET Over(f) == [c \in Calls |-> IF f[c] = "none" THEN "none" ELSE "over"] IN
  /\ deploy.mysql /\ restarts < MaxRestarts
  /\ restarts' = restarts + 1
  /\ client' = [c \in Calls |-> IF client[c] = "waiting" THEN "failed" ELSE client[c]]
  /\ agent' = Over(agent) /\ tool' = Over(tool) /\ thread' = Over(thread)
  /\ work' = [c \in Calls |-> None]
  /\ gate' = [c \in Calls |-> IF gate[c] = "open" THEN "failed" ELSE gate[c]]
  /\ UNCHANGED <<deploy, query, reply, tickets, tasks, shown, filed, seen>>

Step(c) ==
  \/ Ask(c) \/ Receive(c) \/ Execute(c) \/ Look(c) \/ Forbid(c)
  \/ CreateInMemory(c) \/ StartWriting(c) \/ Lookup(c) \/ Insert(c)
  \/ ToolFails(c) \/ Save(c) \/ File(c)

Next ==
  \/ \E c \in Calls :
       \/ Step(c) \/ Lose(c) \/ TimeOut(c) \/ GiveUp(c) \/ SaveFails(c)
       \/ FileFails(c) \/ Expire(c)
       \/ \E token \in Readers : ReadTask(c, token)
  \/ Restart

Spec == Init /\ [][Next]_vars

\* The event loops and the threads run, and every timer fires: wait_for's on
\* a tool, and the HTTP client's on a call.
FairSpec == Spec /\ \A c \in Calls : WF_vars(Step(c) \/ TimeOut(c))

-----------------------------------------------------------------------------
(* Properties.                                                             *)

TypeOK ==
  /\ client \in [Calls -> {"new", "waiting", "answered", "failed"}]
  /\ agent \in [Calls -> {"none", "sent", "starting", "calling", "saving", "over"}]
  /\ tool \in [Calls -> {"none", "checking", "creating", "over"}]
  /\ thread \in [Calls -> {"none", "lookup", "insert", "again", "over"}]
  /\ work \in [Calls -> [state : TaskStates, result : Results] \cup {None}]
  /\ reply \in [Calls -> Replies \cup {None}]
  /\ tasks \in [Calls -> StoredTasks \cup {None}]
  /\ shown \in [Calls -> SUBSET Readers]
  /\ gate \in [Calls -> {"none", "open", "answered", "failed"}]
  /\ filed \in [Calls -> StoredTasks \cup {None}]
  /\ seen \in [Calls -> SUBSET Readers]
  /\ \A c \in Calls : agent[c] = "saving" <=> work[c] # None
  /\ \A c \in Calls : client[c] = "answered" <=> reply[c] # None
  /\ \A t \in tickets : t.id \in Calls

\* The key a caller gave is the key his ticket goes by; callers who gave none
\* go by the one that was made for them.
AskedKey(c) == IF query[c].key # None THEN query[c].key ELSE Key(c)

AskedBar == [c \in Calls |-> [user |-> query[c].user, key |-> AskedKey(c)]]
MadeBar == {[id |-> t.id, user |-> t.user, key |-> t.key] : t \in tickets}
ToldBar == [c \in Calls |-> IF reply[c] = None \/ query[c].ask # "apply" THEN None
                            ELSE reply[c].ticket]

Promise ==
  INSTANCE TicketPromise WITH asked <- AskedBar, made <- MadeBar, told <- ToldBar

\* README.md:59, mysql_commerce.py:47: creation is idempotent.  Through lost
\* answers, cancelled tools whose threads go on, restarts and retries that
\* race each other, a user's key has one ticket, and every call with that key
\* that is told of a ticket is told of that one.
OneTicketPerKey == Promise!Spec

\* A live token of the user, or one of a service: for this agent where the
\* agent or its tool is asked, and for any agent where the orchestrator is.
Authorised(c) ==
  LET q == query[c]
      signer == IF q.via = "chat" THEN "user" ELSE "service"
  IN
  /\ q.token # None /\ q.token.live /\ q.token.signer = signer /\ q.token.role = signer
  /\ q.via = "chat" => q.token.subject = q.user
  /\ q.via = "agent" => q.token.agent \in {"after_sales_agent", "shopagent_orchestrator"}
  /\ q.via = "tool" => q.token.agent = "after_sales_agent"

\* README.md:57: a ticket is for an order of the user it is made for, whatever
\* was claimed on the way from the request to the row, and nobody is told of a
\* ticket of another user.  In production whoever asked for it proved who he
\* is: the user himself, or a service, which is believed whom it acts for.  A
\* service must have been given a token for this agent to ask the agent or its
\* tool; the orchestrator (api.py:275) asks for a token of any agent and has
\* the ticket made all the same.
TicketsOnOwnOrders ==
  /\ \A t \in tickets :
       /\ OwnerOf[t.order] = t.user
       /\ t.user = query[t.id].user
       /\ deploy.production => Authorised(t.id)
  /\ \A c \in Calls :
       reply[c] # None /\ reply[c].ticket # None => OwnTicket(c, reply[c].ticket)

\* README.md:102, remote_a2a_agent.py:107: an outcome nobody knows is never
\* taken for success.  A user who asked for a ticket and is told that no human
\* is needed has one.
NoFalseSuccess ==
  \A c \in Calls :
    client[c] = "answered" /\ query[c].ask = "apply" /\ ~reply[c].human
      => reply[c].ticket # None /\ OwnTicket(c, reply[c].ticket)

\* a2a.py:193: a reply is sent after its task is stored.  Whoever is answered
\* with a task, by the agent or by the orchestrator, can still be shown it, as
\* it was, until it expires, and a task that names a ticket is completed and
\* names one that exists.
TasksTellTheTruth ==
  \A c \in Calls :
    /\ reply[c] # None /\ Remote(c) /\ reply[c].kind # "unavailable"
         => /\ tasks[c] # None
            /\ tasks[c].result.kind = reply[c].kind
            /\ tasks[c].result.ticket = reply[c].ticket
    /\ tasks[c] # None /\ tasks[c].result.ticket # None
         => tasks[c].state = "completed" /\ OwnTicket(c, tasks[c].result.ticket)
    /\ gate[c] = "answered" => /\ filed[c] # None /\ reply[c] # None
                               /\ filed[c].result.kind = reply[c].kind
                               /\ filed[c].result.ticket = reply[c].ticket
    /\ filed[c] # None /\ filed[c].result.ticket # None
         => OwnTicket(c, filed[c].result.ticket)

\* The token is the caller's own, as far as anybody has to say who he is.
ShownTo(token, principal, sent) ==
  /\ RequireService(token, deploy.production).subject = principal.subject
  /\ deploy.production => /\ Verifies("service", "service", token)
                          /\ token.subject = sent.subject

\* a2a.py:87, api.py:318: a task is shown to the service that sent the message
\* and to no other, in production only on a token of that service's own.
TasksPrivate ==
  \A c \in Calls :
    /\ \A token \in shown[c] : ShownTo(token, Caller(c), SentToken(c))
    /\ \A token \in seen[c] : ShownTo(token, Sender(c), query[c].token)

\* README.md:86, after_sales.py:55: with no hit in the knowledge base the agent
\* says that it hands over to a human, and so a human is needed.
MissHandedOver ==
  \A c \in Calls :
    query[c].via = "chat" /\ reply[c] # None /\ reply[c].kind = "miss"
      => reply[c].human

\* Whoever asks is answered, or sees an error, whatever hangs behind.
CallsEnd ==
  \A c \in Calls : <>(client[c] \in {"answered", "failed"} /\ gate[c] # "open")

=============================================================================
