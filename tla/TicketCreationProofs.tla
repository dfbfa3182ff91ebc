------------------------ MODULE TicketCreationProofs ------------------------
(***************************************************************************)
(* Proofs about TicketCreation, for every set of calls, orders, tokens and *)
(* deployments, whatever each call may ask, and any number of restarts.    *)
(***************************************************************************)
EXTENDS TicketCreation, TLAPS

-----------------------------------------------------------------------------
(* The inductive invariant.                                                *)

\* The tool or the thread of c may still make or find a ticket.
Live(c) == \/ tool[c] \in {"checking", "creating"}
           \/ thread[c] \in {"lookup", "insert", "again"}

Permitted(c) == deploy.production => Authorised(c)

\* The ticket t is the one of the key of c.
OfKey(c, t) == \E k \in SameKey(c) : k.id = t

\* What the agent may make of the question of c.
Fits(c, result) ==
  /\ result \in Results
  /\ result.ticket # None => OwnTicket(c, result.ticket)
  /\ query[c].ask = "apply" =>
       \/ result.kind \in Faulty \cup {"elsewhere"} /\ result.ticket = None
       \/ result.kind = "made" /\ OfKey(c, result.ticket)

\* Who has come how far with the question of c.
PathInv(c) ==
  /\ client[c] = "new" => agent[c] = "none"
  /\ agent[c] \in {"none", "sent", "starting"} => tool[c] = "none" /\ thread[c] = "none"
  /\ tool[c] = "checking" => thread[c] = "none"
  /\ thread[c] \in {"lookup", "insert", "again"}
       => query[c].ask = "apply" /\ OwnOrder(c)
  /\ agent[c] = "sent" => Remote(c) /\ (query[c].via # "agent" => Permitted(c))
  /\ agent[c] \in {"starting", "calling"} \/ Live(c) => Permitted(c)
  /\ agent[c] = "saving" => Remote(c)
  /\ query[c].via = "tool" => agent[c] \in {"none", "over"}
  /\ Remote(c) /\ agent[c] \in {"starting", "calling", "saving"} => MayCall(Caller(c))

\* What is on its way to the caller, and what has reached him.  A call that may
\* still make a ticket has told nobody of one.
ToldInv(c) ==
  /\ work[c] # None =>
       /\ Fits(c, work[c].result)
       /\ work[c].result.kind = "elsewhere" => work[c].state = "rejected"
       /\ work[c].result.ticket # None => work[c].state = "completed"
  /\ reply[c] # None =>
       /\ reply[c].ticket # None => OwnTicket(c, reply[c].ticket)
       /\ query[c].ask = "apply" =>
            IF reply[c].ticket = None THEN reply[c].human ELSE OfKey(c, reply[c].ticket)
       /\ Remote(c) /\ reply[c].kind # "unavailable" =>
            /\ tasks[c] # None
            /\ tasks[c].result.kind = reply[c].kind
            /\ tasks[c].result.ticket = reply[c].ticket
  /\ agent[c] \in {"none", "sent", "starting"} \/ Live(c) =>
       /\ work[c] = None \/ work[c].result.ticket = None
       /\ reply[c] = None \/ reply[c].ticket = None

\* The stored task of c, and who was shown it.
TaskInv(c) ==
  /\ tasks[c] # None =>
       /\ agent[c] = "over" /\ Remote(c)
       /\ tasks[c].owner = Caller(c).subject
       /\ MayCall(Caller(c))
       /\ tasks[c].result.ticket # None =>
            tasks[c].state = "completed" /\ OwnTicket(c, tasks[c].result.ticket)
  /\ \A token \in shown[c] : ShownTo(token, Caller(c), SentToken(c))

\* The message of a service to the orchestrator, its task, and who was shown it.
GateInv(c) ==
  /\ gate[c] # "none" => Sender(c) # Refused
  /\ gate[c] = "open" => filed[c] = None
  /\ gate[c] = "answered" => filed[c] # None
  /\ filed[c] # None =>
       /\ reply[c] # None
       /\ filed[c].result = Result(reply[c].kind, reply[c].ticket)
       /\ filed[c].owner = Sender(c).subject
       /\ Sender(c) # Refused
  /\ \A token \in seen[c] : ShownTo(token, Sender(c), query[c].token)

CallInv(c) ==
  query[c] \in Queries[c] /\ PathInv(c) /\ ToldInv(c) /\ TaskInv(c) /\ GateInv(c)

\* A ticket is the one its call asked for, and the only one of its key.
TicketsInv ==
  /\ \A t \in tickets : /\ t.id \in Calls /\ t = Ticket(t.id)
                        /\ OwnOrder(t.id) /\ Permitted(t.id)
  /\ \A t, u \in tickets : t.user = u.user /\ t.key = u.key => t = u

IInv == /\ TypeOK
        /\ deploy \in Deployments
        /\ \A c \in Calls : CallInv(c)
        /\ TicketsInv

-----------------------------------------------------------------------------
(* What stays true while the deployment and the questions are the same.    *)

LEMMA Sentinels ==
  /\ None \notin Calls
  /\ None \notin Replies
  /\ None \notin StoredTasks
  /\ None \notin [state : TaskStates, result : Results]
  BY QueryAssumption

\* Whatever is derived from the question of a call keeps its value.
LEMMA QuestionsStay ==
  ASSUME UNCHANGED <<deploy, query>>, NEW c
  PROVE  /\ Remote(c)' = Remote(c)
         /\ SentToken(c)' = SentToken(c)
         /\ Caller(c)' = Caller(c)
         /\ Sender(c)' = Sender(c)
         /\ MayCall(Caller(c))' = MayCall(Caller(c))
         /\ Permitted(c)' = Permitted(c)
         /\ OwnOrder(c)' = OwnOrder(c)
         /\ Key(c)' = Key(c)
         /\ Ticket(c)' = Ticket(c)
  BY DEF Remote, SentToken, Caller, Sender, MayCall, Permitted, Authorised, OwnOrder,
         Key, MessageId, Ticket

\* A ticket that exists goes on to exist.
LEMMA TicketsStay ==
  ASSUME UNCHANGED <<deploy, query>>, tickets \subseteq tickets', NEW c
  PROVE  /\ \A t : OwnTicket(c, t) => OwnTicket(c, t)'
         /\ \A t : OfKey(c, t) => OfKey(c, t)'
         /\ \A result : Fits(c, result) => Fits(c, result)'
<1>1. \A t : OwnTicket(c, t) => OwnTicket(c, t)'
  BY DEF OwnTicket
<1>2. \A t : OfKey(c, t) => OfKey(c, t)'
  BY QuestionsStay DEF OfKey, SameKey
<1>3. \A result : Fits(c, result) => Fits(c, result)'
  BY <1>1, <1>2 DEF Fits
<1>. QED
  BY <1>1, <1>2, <1>3

\* The ticket of a key is the caller's own, and one of the calls'.
LEMMA KeyTicketIsOwn ==
  ASSUME TicketsInv, NEW c, NEW t, OfKey(c, t)
  PROVE  OwnTicket(c, t) /\ t \in Calls /\ t # None
  BY Sentinels DEF OfKey, SameKey, OwnTicket, TicketsInv

\* The task of a message to the orchestrator waits for the answer, which stays.
LEMMA GateKeeps ==
  ASSUME UNCHANGED <<deploy, query, gate, filed, seen>>, NEW c, GateInv(c),
         reply'[c] = reply[c] \/ reply[c] = None
  PROVE  GateInv(c)'
<1>1. \A token : ShownTo(token, Sender(c), query[c].token)
                 => ShownTo(token, Sender(c), query[c].token)'
  BY QuestionsStay DEF ShownTo
<1>. QED
  BY <1>1, QuestionsStay DEF GateInv

-----------------------------------------------------------------------------
(* A step of one call and the others.                                      *)

OwnStep(c) ==
  /\ UNCHANGED <<deploy, query>>
  /\ tickets \subseteq tickets'
  /\ \A d \in Calls \ {c} :
       /\ client'[d] = client[d] /\ agent'[d] = agent[d]
       /\ tool'[d] = tool[d] /\ thread'[d] = thread[d]
       /\ work'[d] = work[d] /\ reply'[d] = reply[d]
       /\ tasks'[d] = tasks[d] /\ shown'[d] = shown[d]
       /\ gate'[d] = gate[d] /\ filed'[d] = filed[d] /\ seen'[d] = seen[d]

LEMMA OthersKeep ==
  ASSUME IInv, NEW c \in Calls, OwnStep(c), NEW d \in Calls \ {c}
  PROVE  CallInv(d)'
<1>1. /\ UNCHANGED <<deploy, query>> /\ tickets \subseteq tickets'
      /\ client'[d] = client[d] /\ agent'[d] = agent[d]
      /\ tool'[d] = tool[d] /\ thread'[d] = thread[d]
      /\ work'[d] = work[d] /\ reply'[d] = reply[d]
      /\ tasks'[d] = tasks[d] /\ shown'[d] = shown[d]
      /\ gate'[d] = gate[d] /\ filed'[d] = filed[d] /\ seen'[d] = seen[d]
  BY DEF OwnStep
<1>2. query[d] \in Queries[d] /\ PathInv(d) /\ ToldInv(d) /\ TaskInv(d) /\ GateInv(d)
  BY DEF IInv, CallInv
<1>3. Live(d)' = Live(d)
  BY <1>1 DEF Live
<1>4. PathInv(d)'
  BY <1>1, <1>2, <1>3, QuestionsStay DEF PathInv
<1>5. ToldInv(d)'
  BY <1>1, <1>2, <1>3, QuestionsStay, TicketsStay DEF ToldInv
<1>6. TaskInv(d)'
  BY <1>1, <1>2, QuestionsStay, TicketsStay DEF TaskInv, ShownTo
<1>7. GateInv(d)'
  BY <1>1, <1>2, QuestionsStay DEF GateInv, ShownTo
<1>. QED
  BY <1>1, <1>2, <1>4, <1>5, <1>6, <1>7 DEF CallInv

\* It is enough to look at the call that takes the step, and at the tickets.
LEMMA StepOfOne ==
  ASSUME IInv, NEW c \in Calls, OwnStep(c),
         TypeOK', PathInv(c)', ToldInv(c)', TaskInv(c)', GateInv(c)', TicketsInv'
  PROVE  IInv'
<1>1. deploy' \in Deployments /\ CallInv(c)'
  BY DEF IInv, CallInv, OwnStep
<1>2. \A d \in Calls : CallInv(d)'
  BY <1>1, OthersKeep
<1>. QED
  BY <1>1, <1>2 DEF IInv

\* The types of the two ends of a call depend on that call alone.
Typed(c) ==
  /\ client' \in [Calls -> {"new", "waiting", "answered", "failed"}]
  /\ agent' \in [Calls -> {"none", "sent", "starting", "calling", "saving", "over"}]
  /\ tool' \in [Calls -> {"none", "checking", "creating", "over"}]
  /\ thread' \in [Calls -> {"none", "lookup", "insert", "again", "over"}]
  /\ work' \in [Calls -> [state : TaskStates, result : Results] \cup {None}]
  /\ reply' \in [Calls -> Replies \cup {None}]
  /\ tasks' \in [Calls -> StoredTasks \cup {None}]
  /\ shown' \in [Calls -> SUBSET Readers]
  /\ gate' \in [Calls -> {"none", "open", "answered", "failed"}]
  /\ filed' \in [Calls -> StoredTasks \cup {None}]
  /\ seen' \in [Calls -> SUBSET Readers]
  /\ agent'[c] = "saving" <=> work'[c] # None
  /\ client'[c] = "answered" <=> reply'[c] # None

LEMMA StepIsTyped ==
  ASSUME IInv, NEW c \in Calls, OwnStep(c), Typed(c), TicketsInv'
  PROVE  TypeOK'
<1>1. \A d \in Calls : /\ agent'[d] = "saving" <=> work'[d] # None
                       /\ client'[d] = "answered" <=> reply'[d] # None
  <2>1. SUFFICES ASSUME NEW d \in Calls, d # c
                 PROVE  /\ agent'[d] = "saving" <=> work'[d] # None
                        /\ client'[d] = "answered" <=> reply'[d] # None
    BY DEF Typed
  <2>2. /\ agent[d] = "saving" <=> work[d] # None
        /\ client[d] = "answered" <=> reply[d] # None
    BY DEF IInv, TypeOK
  <2>3. /\ client'[d] = client[d] /\ agent'[d] = agent[d]
        /\ work'[d] = work[d] /\ reply'[d] = reply[d]
    BY <2>1 DEF OwnStep
  <2>. QED
    BY <2>2, <2>3
<1>2. \A t \in tickets' : t.id \in Calls
  BY DEF TicketsInv
<1>. QED
  BY <1>1, <1>2 DEF Typed, TypeOK

LEMMA SameTickets ==
  ASSUME TicketsInv, UNCHANGED <<deploy, query, tickets>>
  PROVE  TicketsInv'
  BY QuestionsStay DEF TicketsInv

-----------------------------------------------------------------------------
(* Ways a part of a call ends.                                             *)

\* Nothing but the tool or the thread of c changes, towards its end.
Winds(c) ==
  /\ tool' \in [Calls -> {"none", "checking", "creating", "over"}]
  /\ thread' \in [Calls -> {"none", "lookup", "insert", "again", "over"}]
  /\ \A d \in Calls \ {c} : tool'[d] = tool[d] /\ thread'[d] = thread[d]
  /\ tool'[c] = tool[c] \/ (tool'[c] = "over" /\ tool[c] # "none")
  /\ thread'[c] = thread[c] \/ (thread'[c] = "over" /\ thread[c] # "none")

LEMMA WindsKeeps ==
  ASSUME IInv, NEW c \in Calls, Winds(c), tickets \subseteq tickets', TicketsInv',
         UNCHANGED <<deploy, query, client, agent, work, reply,
                     tasks, shown, gate, filed, seen>>
  PROVE  IInv'
<1>1. TypeOK /\ PathInv(c) /\ ToldInv(c) /\ TaskInv(c) /\ GateInv(c)
  BY DEF IInv, CallInv
<1>2. Live(c)' => Live(c)
  BY DEF Winds, Live
<1>3. TypeOK'
  BY <1>1 DEF TypeOK, Winds, TicketsInv
<1>4. OwnStep(c)
  BY DEF OwnStep, Winds
<1>5. PathInv(c)'
  BY <1>1, <1>2, QuestionsStay DEF PathInv, Winds
<1>6. ToldInv(c)'
  BY <1>1, <1>2, QuestionsStay, TicketsStay DEF ToldInv
<1>7. TaskInv(c)'
  BY <1>1, QuestionsStay, TicketsStay DEF TaskInv, ShownTo
<1>. QED
  BY <1>1, <1>3, <1>4, <1>5, <1>6, <1>7, GateKeeps, StepOfOne

\* The caller is answered or goes on as before.
LEMMA AnsweredEffect ==
  ASSUME TypeOK, NEW c \in Calls, NEW answer \in Replies, Answered(c, answer)
  PROVE  /\ client' \in [Calls -> {"new", "waiting", "answered", "failed"}]
         /\ reply' \in [Calls -> Replies \cup {None}]
         /\ \A d \in Calls \ {c} : client'[d] = client[d] /\ reply'[d] = reply[d]
         /\ client'[c] = "answered" <=> reply'[c] # None
         /\ client'[c] = "new" => client[c] = "new"
         /\ reply'[c] = reply[c] \/ (reply[c] = None /\ reply'[c] = answer)
  BY Sentinels DEF TypeOK, Answered, Set

\* A failure is no answer, or one that sends the caller to a human.
LEMMA FailedEffect ==
  ASSUME TypeOK, NEW c \in Calls, Failed(c)
  PROVE  /\ client' \in [Calls -> {"new", "waiting", "answered", "failed"}]
         /\ reply' \in [Calls -> Replies \cup {None}]
         /\ \A d \in Calls \ {c} : client'[d] = client[d] /\ reply'[d] = reply[d]
         /\ client'[c] = "answered" <=> reply'[c] # None
         /\ client'[c] = "new" => client[c] = "new"
         /\ \/ reply'[c] = reply[c]
            \/ reply[c] = None /\ reply'[c] = Reply(Failure, TRUE)
<1>1. Reply(Failure, TRUE) \in Replies
  BY DEF Reply, Failure, Result, Replies, ResultKinds, Faulty
<1>2. CASE query[c].via \in {"chat", "orchestrator"}
  BY <1>1, <1>2, AnsweredEffect DEF Failed
<1>3. CASE query[c].via \notin {"chat", "orchestrator"}
  BY <1>3 DEF Failed, TypeOK, Set
<1>. QED
  BY <1>2, <1>3

\* The sender sees a failure; the agent goes on or is over.
LEMMA FailedKeeps ==
  ASSUME IInv, NEW c \in Calls, Failed(c),
         UNCHANGED <<deploy, query, tool, thread, tickets,
                     tasks, shown, gate, filed, seen>>,
         \/ UNCHANGED <<agent, work>>
         \/ /\ agent[c] \in {"sent", "saving"}
            /\ agent' = Set(agent, c, "over") /\ work' = Set(work, c, None)
  PROVE  IInv'
<1>1. /\ TypeOK /\ PathInv(c) /\ ToldInv(c) /\ TaskInv(c) /\ GateInv(c)
      /\ TicketsInv
  BY DEF IInv, CallInv
<1>2. /\ agent' \in [Calls -> {"none", "sent", "starting", "calling", "saving", "over"}]
      /\ work' \in [Calls -> [state : TaskStates, result : Results] \cup {None}]
      /\ \A d \in Calls \ {c} : agent'[d] = agent[d] /\ work'[d] = work[d]
      /\ agent'[c] = "saving" <=> work'[c] # None
      /\ \/ agent'[c] = agent[c] /\ work'[c] = work[c]
         \/ agent[c] \in {"sent", "saving"} /\ agent'[c] = "over" /\ work'[c] = None
  BY <1>1 DEF TypeOK, Set
<1>3. OwnStep(c) /\ Live(c)' = Live(c)
  BY <1>1, <1>2, FailedEffect DEF OwnStep, Live
<1>4. Typed(c)
  <2>1. /\ tool' \in [Calls -> {"none", "checking", "creating", "over"}]
        /\ thread' \in [Calls -> {"none", "lookup", "insert", "again", "over"}]
        /\ tasks' \in [Calls -> StoredTasks \cup {None}]
        /\ shown' \in [Calls -> SUBSET Readers]
        /\ gate' \in [Calls -> {"none", "open", "answered", "failed"}]
        /\ filed' \in [Calls -> StoredTasks \cup {None}]
        /\ seen' \in [Calls -> SUBSET Readers]
    BY <1>1 DEF TypeOK
  <2>. QED
    BY <1>1, <1>2, <2>1, FailedEffect DEF Typed
<1>5. PathInv(c)'
  BY <1>1, <1>2, <1>3, FailedEffect, QuestionsStay DEF PathInv
<1>6. ToldInv(c)'
  <2>1. /\ Reply(Failure, TRUE).kind = "unavailable"
        /\ Reply(Failure, TRUE).ticket = None
        /\ Reply(Failure, TRUE).human = TRUE
    BY DEF Reply, Failure, Result
  <2>2. /\ work'[c] = None \/ work'[c] = work[c]
        /\ agent'[c] = agent[c] \/ agent'[c] = "over"
    BY <1>2
  <2>3. CASE reply'[c] = reply[c]
    BY <1>1, <1>3, <2>2, <2>3, QuestionsStay, TicketsStay DEF ToldInv
  <2>4. CASE reply'[c] = Reply(Failure, TRUE)
    BY <1>1, <1>3, <2>1, <2>2, <2>4, QuestionsStay, TicketsStay DEF ToldInv
  <2>. QED
    BY <1>1, <2>3, <2>4, FailedEffect
<1>7. TaskInv(c)'
  BY <1>1, <1>2, QuestionsStay, TicketsStay DEF TaskInv, ShownTo
<1>8. GateInv(c)'
  BY <1>1, FailedEffect, GateKeeps
<1>. QED
  BY <1>1, <1>3, <1>4, <1>5, <1>6, <1>7, <1>8, StepIsTyped, StepOfOne, SameTickets

\* The agent is done.  Where the tool or the thread goes on, it gave up and
\* knows of no ticket.
LEMMA ConcludeKeeps ==
  ASSUME IInv, NEW c \in Calls, NEW result, Conclude(c, result),
         \/ agent[c] \in {"starting", "calling"}
         \/ query[c].via = "tool" /\ agent[c] = "over",
         Fits(c, result)', result.kind # "elsewhere",
         Live(c)' => result.ticket = None,
         Winds(c), tickets \subseteq tickets', TicketsInv',
         UNCHANGED <<deploy, query, tasks, shown, gate, filed, seen>>
  PROVE  IInv'
<1>1. TypeOK /\ PathInv(c) /\ ToldInv(c) /\ TaskInv(c) /\ GateInv(c)
  BY DEF IInv, CallInv
<1>2. client[c] # "new" /\ work[c] = None /\ tasks[c] = None
  <2>1. query[c].via = "tool" => ~Remote(c)
    BY DEF Remote
  <2>. QED
    BY <1>1, <2>1 DEF TypeOK, PathInv, TaskInv
<1>3. result \in Results
  BY DEF Fits
<1>4. \A state \in TaskStates :
        /\ Task(state, result) \in [state : TaskStates, result : Results]
        /\ Task(state, result) # None
        /\ Task(state, result).result = result
        /\ Task(state, result).state = state
  BY <1>3, Sentinels DEF Task
<1>5. \A human \in BOOLEAN :
        /\ Reply(result, human) \in Replies
        /\ Reply(result, human).kind = result.kind
        /\ Reply(result, human).ticket = result.ticket
        /\ Reply(result, human).human = human
  BY <1>3 DEF Reply, Replies, Results
<1>6. (Live(c)' => Live(c))
  BY DEF Winds, Live
<1>7. CASE Remote(c)
  <2>. DEFINE state == IF result = Failure THEN "failed" ELSE "completed"
  <2>1. /\ agent' = Set(agent, c, "saving") /\ work' = Set(work, c, Task(state, result))
        /\ UNCHANGED <<client, reply>>
    BY <1>7 DEF Conclude
  <2>2. state \in TaskStates
    BY DEF TaskStates
  <2>3. result.ticket # None => state = "completed"
    BY DEF Failure, Result
  <2>. HIDE DEF state
  <2>4. /\ work' \in [Calls -> [state : TaskStates, result : Results] \cup {None}]
        /\ agent' \in [Calls -> {"none", "sent", "starting", "calling", "saving", "over"}]
        /\ \A d \in Calls \ {c} : agent'[d] = agent[d] /\ work'[d] = work[d]
        /\ agent'[c] = "saving" /\ work'[c] = Task(state, result)
    BY <1>1, <1>4, <2>1, <2>2 DEF TypeOK, Set
  <2>5. OwnStep(c)
    BY <2>1, <2>4 DEF OwnStep, Winds
  <2>6. Typed(c)
    <3>1. /\ client' \in [Calls -> {"new", "waiting", "answered", "failed"}]
          /\ reply' \in [Calls -> Replies \cup {None}]
          /\ tasks' \in [Calls -> StoredTasks \cup {None}]
          /\ shown' \in [Calls -> SUBSET Readers]
          /\ gate' \in [Calls -> {"none", "open", "answered", "failed"}]
          /\ filed' \in [Calls -> StoredTasks \cup {None}]
          /\ seen' \in [Calls -> SUBSET Readers]
          /\ client'[c] = "answered" <=> reply'[c] # None
      BY <1>1, <2>1 DEF TypeOK
    <3>. QED
      BY <1>4, <2>2, <2>4, <3>1 DEF Typed, Winds
  <2>7. PathInv(c)'
    <3>1. query[c].via # "tool"
      BY <1>7 DEF Remote
    <3>. QED
      BY <1>1, <1>2, <1>6, <1>7, <2>1, <2>4, <3>1, QuestionsStay DEF PathInv, Winds
  <2>8. ToldInv(c)'
    BY <1>1, <1>4, <1>6, <2>1, <2>2, <2>3, <2>4, QuestionsStay, TicketsStay DEF ToldInv
  <2>9. TaskInv(c)'
    BY <1>1, <1>2, QuestionsStay DEF TaskInv, ShownTo
  <2>. QED
    BY <1>1, <2>1, <2>5, <2>6, <2>7, <2>8, <2>9, GateKeeps, StepIsTyped, StepOfOne
<1>8. CASE ~Remote(c)
  <2>1. /\ agent' = Set(agent, c, "over") /\ work' = work
        /\ Answered(c, Reply(result, LocalHuman(result)))
    BY <1>8 DEF Conclude
  <2>2. LocalHuman(result) \in BOOLEAN
    BY DEF LocalHuman
  <2>3. query[c].ask = "apply" /\ result.ticket = None => LocalHuman(result)
    <3>1. OfKey(c, result.ticket)' => result.ticket # None
      BY Sentinels DEF OfKey, SameKey, TicketsInv
    <3>. QED
      BY <3>1 DEF Fits, LocalHuman
  <2>4. query[c].ask = "apply" /\ result.ticket # None => OfKey(c, result.ticket)'
    BY DEF Fits
  <2>5. result.ticket # None => OwnTicket(c, result.ticket)'
    BY DEF Fits
  <2>6. /\ agent' \in [Calls -> {"none", "sent", "starting", "calling", "saving", "over"}]
        /\ \A d \in Calls \ {c} : agent'[d] = agent[d]
        /\ agent'[c] = "over" /\ work'[c] = None
    BY <1>1, <1>2, <2>1 DEF TypeOK, Set
  <2>7. /\ client' \in [Calls -> {"new", "waiting", "answered", "failed"}]
        /\ reply' \in [Calls -> Replies \cup {None}]
        /\ \A d \in Calls \ {c} : client'[d] = client[d] /\ reply'[d] = reply[d]
        /\ client'[c] = "answered" <=> reply'[c] # None
        /\ client'[c] = "new" => client[c] = "new"
        /\ \/ reply'[c] = reply[c]
           \/ reply[c] = None /\ reply'[c] = Reply(result, LocalHuman(result))
    BY <1>1, <1>5, <2>1, <2>2, AnsweredEffect
  <2>8. OwnStep(c)
    BY <2>1, <2>6, <2>7 DEF OwnStep, Winds
  <2>9. Typed(c)
    <3>1. /\ work' \in [Calls -> [state : TaskStates, result : Results] \cup {None}]
          /\ tasks' \in [Calls -> StoredTasks \cup {None}]
          /\ shown' \in [Calls -> SUBSET Readers]
          /\ gate' \in [Calls -> {"none", "open", "answered", "failed"}]
          /\ filed' \in [Calls -> StoredTasks \cup {None}]
          /\ seen' \in [Calls -> SUBSET Readers]
      BY <1>1, <2>1 DEF TypeOK
    <3>. QED
      BY <2>6, <2>7, <3>1 DEF Typed, Winds
  <2>10. PathInv(c)'
    BY <1>1, <1>2, <1>6, <2>6, <2>7, QuestionsStay DEF PathInv, Winds
  <2>11. ToldInv(c)'
    <3>1. CASE reply'[c] = reply[c]
      BY <1>1, <1>6, <1>8, <2>6, <3>1, QuestionsStay, TicketsStay DEF ToldInv
    <3>2. CASE reply'[c] = Reply(result, LocalHuman(result))
      BY <1>5, <1>8, <2>2, <2>3, <2>4, <2>5, <2>6, <3>2, QuestionsStay DEF ToldInv
    <3>. QED
      BY <2>7, <3>1, <3>2
  <2>12. TaskInv(c)'
    BY <1>1, <1>2, QuestionsStay DEF TaskInv, ShownTo
  <2>. QED
    BY <1>1, <2>7, <2>8, <2>9, <2>10, <2>11, <2>12, GateKeeps, StepIsTyped, StepOfOne
<1>. QED
  BY <1>7, <1>8

\* The tool returns, to the agent or to nobody.
LEMMA ReturnKeeps ==
  ASSUME IInv, NEW c \in Calls, NEW result, Return(c, result),
         tool[c] \in {"checking", "creating"},
         Fits(c, result)', result.kind # "elsewhere",
         thread' \in [Calls -> {"none", "lookup", "insert", "again", "over"}],
         \A d \in Calls \ {c} : thread'[d] = thread[d],
         thread'[c] = thread[c] \/ (thread'[c] = "over" /\ thread[c] # "none"),
         thread'[c] \in {"lookup", "insert", "again"} => result.ticket = None,
         tickets \subseteq tickets', TicketsInv',
         UNCHANGED <<deploy, query, tasks, shown, gate, filed, seen>>
  PROVE  IInv'
<1>1. TypeOK
  BY DEF IInv
<1>2. Winds(c) /\ tool'[c] = "over"
  BY <1>1 DEF Return, Set, Winds, TypeOK
<1>3. Live(c)' => result.ticket = None
  BY <1>2 DEF Live
<1>4. CASE agent[c] = "calling" \/ query[c].via = "tool"
  <2>1. agent[c] = "calling" \/ (query[c].via = "tool" /\ agent[c] = "over")
    BY <1>4 DEF IInv, CallInv, PathInv
  <2>. QED
    BY <1>2, <1>3, <1>4, <2>1, ConcludeKeeps DEF Return
<1>5. CASE ~(agent[c] = "calling" \/ query[c].via = "tool")
  BY <1>2, <1>5, WindsKeeps DEF Return
<1>. QED
  BY <1>4, <1>5

-----------------------------------------------------------------------------
(* Who may ask.                                                            *)

LEMMA TokenOfCall ==
  ASSUME IInv, NEW c \in Calls, query[c].token # None
  PROVE  Principal(query[c].token.subject, query[c].token.agent) \notin {None, Refused}
<1>1. query[c] \in Queries[c]
  BY DEF IInv, CallInv
<1>2. query[c].token \in Tokens
  BY <1>1 DEF Tokens
<1>. QED
  BY <1>2, QueryAssumption

\* A chat that is let in is the user's own, where users have to say who they are.
LEMMA ChatIsPermitted ==
  ASSUME IInv, NEW c \in Calls, query[c].via = "chat",
         BoundUser(query[c].user, RequireUser(query[c].token, deploy.production))
           # Refused
  PROVE  Permitted(c)
<1>. SUFFICES ASSUME deploy.production PROVE Authorised(c)
  BY DEF Permitted
<1>. DEFINE token == query[c].token
            user  == query[c].user
            principal == RequireUser(token, deploy.production)
<1>1. Verifies("user", "user", token) /\ principal = Principal(token.subject, token.agent)
  <2>1. CASE Verifies("user", "user", token)
    BY <2>1 DEF RequireUser
  <2>2. CASE ~Verifies("user", "user", token)
    <3>1. principal = Refused
      BY <2>2 DEF RequireUser
    <3>. QED
      BY <3>1, QueryAssumption DEF BoundUser
  <2>. QED
    BY <2>1, <2>2
<1>2. principal \notin {None, Refused}
  BY <1>1, TokenOfCall DEF Verifies
<1>. HIDE DEF principal
<1>3. user = principal.subject
  BY <1>2 DEF BoundUser, principal
<1>4. principal.subject = token.subject
  BY <1>1 DEF Principal
<1>. QED
  BY <1>1, <1>3, <1>4 DEF Authorised, Verifies

\* Another service is let in with a token of its own for this agent.
LEMMA ServiceIsPermitted ==
  ASSUME NEW c \in Calls, query[c].via = "agent", MayCall(Caller(c))
  PROVE  Permitted(c)
<1>. SUFFICES ASSUME deploy.production PROVE Authorised(c)
  BY DEF Permitted
<1>. DEFINE token == query[c].token
<1>1. Caller(c) = RequireService(token, TRUE) /\ Caller(c) # Refused
      /\ Caller(c).agent \in {"after_sales_agent", "shopagent_orchestrator"}
  BY DEF Caller, SentToken, MayCall
<1>2. Verifies("service", "service", token)
  BY <1>1 DEF RequireService
<1>3. Caller(c) = Principal(token.subject, token.agent)
  BY <1>1, <1>2 DEF RequireService
<1>4. Caller(c).agent = token.agent
  BY <1>3 DEF Principal
<1>. QED
  BY <1>1, <1>2, <1>4 DEF Authorised, Verifies

\* To have the orchestrator asked takes a token of some service.
LEMMA SenderIsPermitted ==
  ASSUME NEW c \in Calls, query[c].via = "orchestrator", Sender(c) # Refused
  PROVE  Permitted(c)
  BY DEF Permitted, Authorised, Sender, RequireService, Verifies

\* To call the tool takes a token of a service for this agent.
LEMMA ToolIsPermitted ==
  ASSUME NEW c \in Calls, query[c].via = "tool", NEW claimed,
         ToolAgent(query[c].token, claimed, deploy.production) = "after_sales_agent"
  PROVE  Permitted(c)
  BY QueryAssumption DEF Permitted, Authorised, ToolAgent, Verifies

-----------------------------------------------------------------------------
(* Every step keeps the invariant.                                         *)

LEMMA InitKeeps == Init => IInv
<1>. SUFFICES ASSUME Init PROVE IInv
  OBVIOUS
<1>1. TypeOK
  BY DEF Init, TypeOK
<1>2. ASSUME NEW c \in Calls PROVE CallInv(c)
  <2>1. ~Live(c)
    BY DEF Init, Live
  <2>. QED
    BY <2>1 DEF Init, CallInv, PathInv, ToldInv, TaskInv, GateInv
<1>3. TicketsInv
  BY DEF Init, TicketsInv
<1>. QED
  BY <1>1, <1>2, <1>3 DEF Init, IInv

\* The agent of c comes to a, with the task w to be stored.
LEMMA Moves ==
  ASSUME IInv, NEW c \in Calls,
         UNCHANGED <<deploy, query, client, reply, tasks, shown, gate, filed, seen>>,
         NEW a \in {"none", "sent", "starting", "calling", "saving", "over"},
         NEW w \in [state : TaskStates, result : Results] \cup {None},
         agent' = Set(agent, c, a), work' = Set(work, c, w),
         a = "saving" <=> w # None,
         tasks[c] # None => a = "over",
         tool' \in [Calls -> {"none", "checking", "creating", "over"}],
         thread' \in [Calls -> {"none", "lookup", "insert", "again", "over"}],
         \A d \in Calls \ {c} : tool'[d] = tool[d] /\ thread'[d] = thread[d],
         tickets \subseteq tickets', TicketsInv',
         PathInv(c)', ToldInv(c)'
  PROVE  IInv'
<1>1. TypeOK /\ TaskInv(c) /\ GateInv(c)
  BY DEF IInv, CallInv
<1>2. /\ agent' \in [Calls -> {"none", "sent", "starting", "calling", "saving", "over"}]
      /\ work' \in [Calls -> [state : TaskStates, result : Results] \cup {None}]
      /\ \A d \in Calls \ {c} : agent'[d] = agent[d] /\ work'[d] = work[d]
      /\ agent'[c] = a /\ work'[c] = w
  BY <1>1 DEF TypeOK, Set
<1>3. OwnStep(c)
  BY <1>2 DEF OwnStep
<1>4. Typed(c)
  <2>1. /\ client' \in [Calls -> {"new", "waiting", "answered", "failed"}]
        /\ reply' \in [Calls -> Replies \cup {None}]
        /\ tasks' \in [Calls -> StoredTasks \cup {None}]
        /\ shown' \in [Calls -> SUBSET Readers]
        /\ gate' \in [Calls -> {"none", "open", "answered", "failed"}]
        /\ filed' \in [Calls -> StoredTasks \cup {None}]
        /\ seen' \in [Calls -> SUBSET Readers]
        /\ client'[c] = "answered" <=> reply'[c] # None
    BY <1>1 DEF TypeOK
  <2>. QED
    BY <1>2, <2>1 DEF Typed
<1>5. TaskInv(c)'
  <2>1. /\ UNCHANGED <<deploy, query>> /\ tasks'[c] = tasks[c] /\ shown'[c] = shown[c]
        /\ tasks[c] # None => agent'[c] = "over"
    BY <1>2
  <2>. QED
    BY <1>1, <2>1, QuestionsStay, TicketsStay DEF TaskInv, ShownTo
<1>. QED
  BY <1>1, <1>3, <1>4, <1>5, GateKeeps, StepIsTyped, StepOfOne

\* What becomes of a request, and that the agent and the tool are reached by
\* those only who may.
LEMMA AskEffect ==
  ASSUME IInv, NEW c \in Calls, Ask(c)
  PROVE  /\ \/ /\ client' = Set(client, c, "failed") /\ agent' = Set(agent, c, "none")
               /\ tool' = Set(tool, c, "none") /\ gate' = gate
            \/ /\ client' = Set(client, c, "waiting") /\ tool' = Set(tool, c, "none")
               /\ agent' = Set(agent, c, IF Remote(c) THEN "sent" ELSE "starting")
               /\ query[c].via # "tool" /\ (query[c].via # "agent" => Permitted(c))
               /\ gate' = gate \/ (gate' = Set(gate, c, "open") /\ Sender(c) # Refused)
            \/ /\ client' = Set(client, c, "waiting") /\ agent' = Set(agent, c, "over")
               /\ tool' = Set(tool, c, "checking") /\ gate' = gate
               /\ query[c].via = "tool" /\ Permitted(c)
<1>1. /\ agent = Set(agent, c, "none") /\ tool = Set(tool, c, "none")
  BY DEF IInv, CallInv, TypeOK, PathInv, Ask, Set
<1>2. CASE AskChat(c)
  BY <1>1, <1>2, ChatIsPermitted DEF AskChat, TurnAway, LetIn
<1>3. CASE AskAgent(c)
  BY <1>1, <1>3 DEF AskAgent, LetIn
<1>4. CASE AskOrchestrator(c)
  BY <1>1, <1>4, SenderIsPermitted DEF AskOrchestrator, TurnAway, LetIn
<1>5. CASE AskTool(c)
  BY <1>1, <1>5, ToolIsPermitted DEF AskTool, TurnAway
<1>. QED
  BY <1>2, <1>3, <1>4, <1>5 DEF Ask

LEMMA AskKeeps ==
  ASSUME IInv, NEW c \in Calls, Ask(c)
  PROVE  IInv'
<1>1. /\ TypeOK /\ PathInv(c) /\ ToldInv(c) /\ TaskInv(c) /\ GateInv(c)
      /\ TicketsInv
  BY DEF IInv, CallInv
<1>2. /\ client[c] = "new" /\ agent[c] = "none" /\ tool[c] = "none"
      /\ thread[c] = "none"
      /\ UNCHANGED <<deploy, query, thread, work, reply, tickets, tasks, shown,
                     filed, seen>>
  BY <1>1 DEF Ask, PathInv
<1>3. work[c] = None /\ reply[c] = None /\ tasks[c] = None /\ filed[c] = None
  BY <1>1, <1>2 DEF TypeOK, TaskInv, GateInv
<1>4. /\ client' \in [Calls -> {"new", "waiting", "answered", "failed"}]
      /\ agent' \in [Calls -> {"none", "sent", "starting", "calling", "saving", "over"}]
      /\ tool' \in [Calls -> {"none", "checking", "creating", "over"}]
      /\ gate' \in [Calls -> {"none", "open", "answered", "failed"}]
      /\ \A d \in Calls \ {c} : /\ agent'[d] = agent[d] /\ client'[d] = client[d]
                               /\ tool'[d] = tool[d] /\ gate'[d] = gate[d]
      /\ gate'[c] = gate[c] \/ (gate'[c] = "open" /\ Sender(c) # Refused)
      /\ \/ client'[c] = "failed" /\ agent'[c] = "none" /\ tool'[c] = "none"
         \/ /\ client'[c] = "waiting" /\ tool'[c] = "none"
            /\ agent'[c] = IF Remote(c) THEN "sent" ELSE "starting"
            /\ query[c].via # "tool" /\ (query[c].via # "agent" => Permitted(c))
         \/ /\ client'[c] = "waiting" /\ agent'[c] = "over" /\ tool'[c] = "checking"
            /\ query[c].via = "tool" /\ Permitted(c)
  BY <1>1, AskEffect DEF TypeOK, Set
<1>5. OwnStep(c)
  BY <1>2, <1>4 DEF OwnStep
<1>6. Typed(c)
  <2>1. /\ thread' \in [Calls -> {"none", "lookup", "insert", "again", "over"}]
        /\ work' \in [Calls -> [state : TaskStates, result : Results] \cup {None}]
        /\ reply' \in [Calls -> Replies \cup {None}]
        /\ tasks' \in [Calls -> StoredTasks \cup {None}]
        /\ shown' \in [Calls -> SUBSET Readers]
        /\ filed' \in [Calls -> StoredTasks \cup {None}]
        /\ seen' \in [Calls -> SUBSET Readers]
        /\ work'[c] = None /\ reply'[c] = None
    BY <1>1, <1>2, <1>3 DEF TypeOK
  <2>. QED
    BY <1>4, <2>1 DEF Typed
<1>7. PathInv(c)'
  <2>1. query[c].via = "agent" => Remote(c)
    BY DEF Remote
  <2>2. query[c].via = "tool" => ~Remote(c)
    BY DEF Remote
  <2>3. Live(c)' => tool'[c] = "checking"
    BY <1>2, <1>4 DEF Live
  <2>. QED
    BY <1>1, <1>2, <1>4, <2>1, <2>2, <2>3, QuestionsStay DEF PathInv
<1>8. ToldInv(c)'
  BY <1>2, <1>3 DEF ToldInv
<1>9. TaskInv(c)'
  BY <1>1, <1>2, <1>3, QuestionsStay DEF TaskInv, ShownTo
<1>10. GateInv(c)'
  BY <1>1, <1>2, <1>3, <1>4, QuestionsStay DEF GateInv, ShownTo
<1>. QED
  BY <1>1, <1>2, <1>5, <1>6, <1>7, <1>8, <1>9, <1>10, StepIsTyped, StepOfOne,
     SameTickets

LEMMA ReceiveKeeps ==
  ASSUME IInv, NEW c \in Calls, Receive(c)
  PROVE  IInv'
<1>1. /\ TypeOK /\ PathInv(c) /\ ToldInv(c) /\ TaskInv(c) /\ GateInv(c)
      /\ TicketsInv
  BY DEF IInv, CallInv
<1>2. agent[c] = "sent" /\ UNCHANGED <<deploy, query, tool, thread, tickets,
                                       tasks, shown, gate, filed, seen>>
  BY DEF Receive, Same
<1>3. /\ work[c] = None /\ work = Set(work, c, None) /\ tasks[c] = None
      /\ tool[c] = "none" /\ thread[c] = "none" /\ client[c] # "new" /\ Remote(c)
  BY <1>1, <1>2 DEF TypeOK, PathInv, TaskInv, Set
<1>4. /\ tool' \in [Calls -> {"none", "checking", "creating", "over"}]
      /\ thread' \in [Calls -> {"none", "lookup", "insert", "again", "over"}]
  BY <1>1, <1>2 DEF TypeOK
<1>5. TicketsInv'
  BY <1>1, <1>2, SameTickets
<1>6. MayCall(Caller(c)) => Permitted(c)
  BY <1>1, <1>2, ServiceIsPermitted DEF PathInv
<1>7. CASE agent' = Set(agent, c, "over") /\ Failed(c) /\ UNCHANGED work
  BY <1>2, <1>3, <1>7, FailedKeeps
<1>8. CASE /\ MayCall(Caller(c))
           /\ agent' = Set(agent, c, "saving")
           /\ work' = Set(work, c, Task("rejected", Result("elsewhere", None)))
           /\ UNCHANGED <<client, reply>>
  <2>. DEFINE result == Result("elsewhere", None)
              w == Task("rejected", result)
  <2>1. /\ result \in Results /\ result.ticket = None /\ result.kind = "elsewhere"
    BY DEF Result, Results, ResultKinds
  <2>2. Fits(c, result)'
    BY <2>1 DEF Fits
  <2>3. /\ w \in [state : TaskStates, result : Results]
        /\ w.result = result /\ w.state = "rejected"
    BY <2>1 DEF Task, TaskStates
  <2>. HIDE DEF w, result
  <2>4. w # None
    BY <2>3, Sentinels
  <2>5. agent'[c] = "saving" /\ work'[c] = w
    BY <1>1, <1>8 DEF TypeOK, Set, w, result
  <2>6. ~Live(c)' /\ ~Live(c)
    BY <1>2, <1>3 DEF Live
  <2>7. PathInv(c)'
    BY <1>1, <1>2, <1>3, <1>8, <2>5, <2>6, QuestionsStay DEF PathInv
  <2>8. ToldInv(c)'
    BY <1>1, <1>2, <1>8, <2>1, <2>2, <2>3, <2>5, <2>6, QuestionsStay, TicketsStay
       DEF ToldInv
  <2>. QED
    BY <1>2, <1>3, <1>4, <1>5, <1>8, <2>3, <2>4, <2>7, <2>8, Moves DEF w, result
<1>9. CASE /\ MayCall(Caller(c))
           /\ agent' = Set(agent, c, "starting")
           /\ UNCHANGED <<client, work, reply>>
  <2>1. agent'[c] = "starting"
    BY <1>1, <1>9 DEF TypeOK, Set
  <2>2. Live(c)' = Live(c)
    BY <1>2 DEF Live
  <2>3. PathInv(c)'
    BY <1>1, <1>2, <1>3, <1>6, <1>9, <2>1, <2>2, QuestionsStay DEF PathInv
  <2>4. ToldInv(c)'
    BY <1>1, <1>2, <1>9, <2>1, <2>2, QuestionsStay, TicketsStay DEF ToldInv
  <2>. QED
    BY <1>2, <1>3, <1>4, <1>5, <1>9, <2>3, <2>4, Moves
<1>. QED
  BY <1>7, <1>8, <1>9 DEF Receive

LEMMA LoseKeeps ==
  ASSUME IInv, NEW c \in Calls, Lose(c)
  PROVE  IInv'
<1>1. /\ TypeOK /\ PathInv(c) /\ ToldInv(c) /\ TaskInv(c) /\ GateInv(c)
      /\ TicketsInv
  BY DEF IInv, CallInv
<1>2. /\ agent[c] = "sent" /\ agent' = Set(agent, c, "over")
      /\ UNCHANGED <<deploy, query, client, tool, thread, work, reply, tickets,
                     tasks, shown, gate, filed, seen>>
  BY DEF Lose, Same
<1>3. /\ work = Set(work, c, None) /\ agent'[c] = "over" /\ client[c] # "new"
      /\ tool' \in [Calls -> {"none", "checking", "creating", "over"}]
      /\ thread' \in [Calls -> {"none", "lookup", "insert", "again", "over"}]
  BY <1>1, <1>2 DEF TypeOK, PathInv, Set
<1>4. Live(c)' = Live(c)
  BY <1>2 DEF Live
<1>5. PathInv(c)'
  BY <1>1, <1>2, <1>3, <1>4, QuestionsStay DEF PathInv
<1>6. ToldInv(c)'
  BY <1>1, <1>2, <1>3, <1>4, QuestionsStay, TicketsStay DEF ToldInv
<1>. QED
  BY <1>1, <1>2, <1>3, <1>5, <1>6, Moves, SameTickets

LEMMA TimeOutKeeps ==
  ASSUME IInv, NEW c \in Calls, TimeOut(c)
  PROVE  IInv'
  BY FailedKeeps DEF TimeOut, Same

LEMMA SaveFailsKeeps ==
  ASSUME IInv, NEW c \in Calls, SaveFails(c)
  PROVE  IInv'
  BY FailedKeeps DEF SaveFails, Same

LEMMA ExecuteKeeps ==
  ASSUME IInv, NEW c \in Calls, Execute(c)
  PROVE  IInv'
<1>1. /\ TypeOK /\ PathInv(c) /\ ToldInv(c) /\ TaskInv(c) /\ GateInv(c)
      /\ TicketsInv
  BY DEF IInv, CallInv
<1>2. /\ agent[c] = "starting"
      /\ UNCHANGED <<deploy, query, thread, tickets, tasks, shown, gate, filed, seen>>
  BY DEF Execute, Same
<1>3. /\ work[c] = None /\ work = Set(work, c, None) /\ tasks[c] = None
      /\ tool[c] = "none" /\ thread[c] = "none" /\ client[c] # "new" /\ Permitted(c)
  BY <1>1, <1>2 DEF TypeOK, PathInv, TaskInv, Set
<1>4. TicketsInv'
  BY <1>1, <1>2, SameTickets
<1>5. CASE Conclude(c, Result("incomplete", None)) /\ UNCHANGED tool
  <2>. DEFINE result == Result("incomplete", None)
  <2>1. result \in Results /\ result.ticket = None /\ result.kind = "incomplete"
    BY DEF Result, Results, ResultKinds, Faulty
  <2>. HIDE DEF result
  <2>2. Fits(c, result)'
    BY <2>1 DEF Fits, Faulty
  <2>3. Winds(c)
    BY <1>1, <1>2, <1>5 DEF Winds, TypeOK
  <2>. QED
    BY <1>2, <1>4, <1>5, <2>1, <2>2, <2>3, ConcludeKeeps DEF result
<1>6. CASE /\ agent' = Set(agent, c, "calling")
           /\ tool' = Set(tool, c, "checking")
           /\ UNCHANGED <<client, work, reply>>
  <2>1. /\ agent'[c] = "calling" /\ tool'[c] = "checking"
        /\ tool' \in [Calls -> {"none", "checking", "creating", "over"}]
        /\ thread' \in [Calls -> {"none", "lookup", "insert", "again", "over"}]
        /\ \A d \in Calls \ {c} : tool'[d] = tool[d] /\ thread'[d] = thread[d]
    BY <1>1, <1>2, <1>6 DEF TypeOK, Set
  <2>2. PathInv(c)'
    BY <1>1, <1>2, <1>3, <1>6, <2>1, QuestionsStay DEF PathInv
  <2>3. ToldInv(c)'
    BY <1>1, <1>2, <1>3, <1>6, <2>1, QuestionsStay, TicketsStay DEF ToldInv
  <2>. QED
    BY <1>2, <1>3, <1>4, <1>6, <2>1, <2>2, <2>3, Moves
<1>. QED
  BY <1>5, <1>6 DEF Execute

\* The tool returns and nothing is made: what it found, or a failure.
LEMMA ReturnOnly ==
  ASSUME IInv, NEW c \in Calls, NEW result, Return(c, result),
         tool[c] \in {"checking", "creating"},
         result \in Results, result.kind # "elsewhere",
         IF tool[c] = "checking"
         THEN result.ticket # None => OwnTicket(c, result.ticket)
         ELSE result.ticket = None,
         query[c].ask = "apply" => result.kind \in Faulty /\ result.ticket = None,
         UNCHANGED <<deploy, query, thread, tickets, tasks, shown, gate, filed, seen>>
  PROVE  IInv'
<1>1. TypeOK /\ PathInv(c) /\ TicketsInv
  BY DEF IInv, CallInv
<1>2. Fits(c, result)'
  BY DEF Fits, OwnTicket
<1>3. thread'[c] \in {"lookup", "insert", "again"} => result.ticket = None
  BY <1>1 DEF PathInv
<1>4. thread' \in [Calls -> {"none", "lookup", "insert", "again", "over"}]
  BY <1>1 DEF TypeOK
<1>. QED
  BY <1>1, <1>2, <1>3, <1>4, ReturnKeeps, SameTickets

LEMMA LookKeeps ==
  ASSUME IInv, NEW c \in Calls, Look(c)
  PROVE  IInv'
<1>1. TicketsInv
  BY DEF IInv
<1>2. tool[c] = "checking" /\ UNCHANGED <<deploy, query, thread, tickets,
                                          tasks, shown, gate, filed, seen>>
  BY DEF Look, Same
<1>3. CASE /\ query[c].ask = "status"
           /\ Return(c, Result("status",
                IF OwnTicket(c, query[c].names) THEN query[c].names ELSE None))
  <2>. DEFINE named == IF OwnTicket(c, query[c].names) THEN query[c].names ELSE None
              result == Result("status", named)
  <2>1. named # None => OwnTicket(c, named)
    OBVIOUS
  <2>2. named \in Calls \cup {None}
    BY <1>1 DEF OwnTicket, TicketsInv
  <2>. HIDE DEF named
  <2>3. result \in Results /\ result.ticket = named /\ result.kind = "status"
    BY <2>2 DEF Result, Results, ResultKinds
  <2>. HIDE DEF result
  <2>4. Return(c, result)
    BY <1>3 DEF result, named
  <2>. QED
    BY <1>2, <1>3, <2>1, <2>3, <2>4, ReturnOnly
<1>4. ASSUME query[c].ask = "policy", NEW kind \in {"policy", "miss"},
             Return(c, Result(kind, None))
      PROVE  IInv'
  <2>1. /\ Result(kind, None) \in Results /\ Result(kind, None).ticket = None
        /\ Result(kind, None).kind = kind
    BY DEF Result, Results, ResultKinds
  <2>. QED
    BY <1>2, <1>4, <2>1, ReturnOnly
<1>. QED
  BY <1>3, <1>4 DEF Look

LEMMA ForbidKeeps ==
  ASSUME IInv, NEW c \in Calls, Forbid(c)
  PROVE  IInv'
<1>1. /\ Result("forbidden", None) \in Results /\ Result("forbidden", None).ticket = None
      /\ Result("forbidden", None).kind = "forbidden"
  BY DEF Result, Results, ResultKinds, Faulty
<1>. QED
  BY <1>1, ReturnOnly DEF Forbid, Same, Faulty

\* A failure names no ticket.
LEMMA FailureNamesNone ==
  /\ Failure \in Results /\ Failure.ticket = None /\ Failure.kind = "unavailable"
  /\ "unavailable" \in Faulty
  BY DEF Failure, Result, Results, ResultKinds, Faulty

LEMMA ToolFailsKeeps ==
  ASSUME IInv, NEW c \in Calls, ToolFails(c)
  PROVE  IInv'
  BY FailureNamesNone, ReturnOnly DEF ToolFails, Same

LEMMA GiveUpKeeps ==
  ASSUME IInv, NEW c \in Calls, GiveUp(c)
  PROVE  IInv'
<1>1. TypeOK /\ TicketsInv
  BY DEF IInv
<1>2. Winds(c)
  BY <1>1 DEF Winds, GiveUp, TypeOK
<1>3. Fits(c, Failure)'
  BY FailureNamesNone DEF Fits
<1>4. TicketsInv'
  BY <1>1, SameTickets DEF GiveUp, Same
<1>. QED
  BY <1>2, <1>3, <1>4, FailureNamesNone, ConcludeKeeps DEF GiveUp, Same

\* A ticket for a key that has none is the key's only one.
LEMMA NewTicket ==
  ASSUME IInv, NEW c \in Calls, OwnOrder(c), Permitted(c), SameKey(c) = {},
         UNCHANGED <<deploy, query>>, tickets' = tickets \cup {Ticket(c)}
  PROVE  TicketsInv' /\ OfKey(c, c)'
<1>1. TicketsInv
  BY DEF IInv
<1>2. /\ Ticket(c).id = c /\ Ticket(c).user = query[c].user /\ Ticket(c).key = Key(c)
  BY DEF Ticket
<1>3. \A t \in tickets : ~(t.user = Ticket(c).user /\ t.key = Ticket(c).key)
  BY <1>2 DEF SameKey
<1>4. \A t \in tickets' : /\ t.id \in Calls /\ t = Ticket(t.id)'
                          /\ OwnOrder(t.id)' /\ Permitted(t.id)'
  BY <1>1, <1>2, QuestionsStay DEF TicketsInv
<1>5. \A t, u \in tickets' : t.user = u.user /\ t.key = u.key => t = u
  <2>. HIDE DEF Ticket
  <2>. QED
    BY <1>1, <1>3 DEF TicketsInv
<1>6. OfKey(c, c)'
  BY <1>2, QuestionsStay DEF OfKey, SameKey
<1>. QED
  BY <1>4, <1>5, <1>6 DEF TicketsInv

\* Being told of the ticket of one's key.
LEMMA MadeFits ==
  ASSUME NEW c \in Calls, NEW t, TicketsInv', OfKey(c, t)'
  PROVE  /\ Fits(c, Result("made", t))' /\ Result("made", t).kind = "made"
         /\ Result("made", t).ticket = t
<1>1. t \in Calls /\ OwnTicket(c, t)'
  BY DEF OfKey, SameKey, OwnTicket, TicketsInv
<1>2. /\ Result("made", t) \in Results /\ Result("made", t).kind = "made"
      /\ Result("made", t).ticket = t
  BY <1>1 DEF Result, Results, ResultKinds
<1>. QED
  BY <1>1, <1>2 DEF Fits

LEMMA CreateInMemoryKeeps ==
  ASSUME IInv, NEW c \in Calls, CreateInMemory(c)
  PROVE  IInv'
<1>1. TypeOK /\ PathInv(c) /\ TicketsInv
  BY DEF IInv, CallInv
<1>2. PICK t \in IF SameKey(c) = {} THEN {Ticket(c)} ELSE SameKey(c) :
        tickets' = tickets \cup {t} /\ Return(c, Result("made", t.id))
  BY DEF CreateInMemory
<1>3. /\ tool[c] = "checking" /\ OwnOrder(c)
      /\ UNCHANGED <<deploy, query, thread, tasks, shown, gate, filed, seen>>
  BY DEF CreateInMemory, Same
<1>4. Permitted(c) /\ thread[c] = "none"
  BY <1>1, <1>3 DEF PathInv, Live
<1>5. TicketsInv' /\ OfKey(c, t.id)'
  <2>1. CASE SameKey(c) = {}
    <3>1. t = Ticket(c) /\ t.id = c
      BY <1>2, <2>1 DEF Ticket
    <3>. QED
      BY <1>2, <1>3, <1>4, <2>1, <3>1, NewTicket
  <2>2. CASE SameKey(c) # {}
    <3>1. t \in SameKey(c) /\ tickets' = tickets
      BY <1>2, <2>2 DEF SameKey
    <3>2. OfKey(c, t.id)'
      BY <1>3, <3>1, QuestionsStay DEF OfKey, SameKey
    <3>. QED
      BY <1>1, <1>3, <3>1, <3>2, SameTickets
  <2>. QED
    BY <2>1, <2>2
<1>6. thread' \in [Calls -> {"none", "lookup", "insert", "again", "over"}]
  BY <1>1, <1>3 DEF TypeOK
<1>. QED
  BY <1>2, <1>3, <1>4, <1>5, <1>6, MadeFits, ReturnKeeps

LEMMA StartWritingKeeps ==
  ASSUME IInv, NEW c \in Calls, StartWriting(c)
  PROVE  IInv'
<1>1. /\ TypeOK /\ PathInv(c) /\ ToldInv(c) /\ TaskInv(c) /\ GateInv(c)
      /\ TicketsInv
  BY DEF IInv, CallInv
<1>2. /\ tool[c] = "checking" /\ query[c].ask = "apply" /\ OwnOrder(c)
      /\ tool' = Set(tool, c, "creating") /\ thread' = Set(thread, c, "lookup")
      /\ UNCHANGED <<deploy, query, client, agent, work, reply, tickets,
                     tasks, shown, gate, filed, seen>>
  BY DEF StartWriting, Same
<1>3. /\ tool'[c] = "creating" /\ thread'[c] = "lookup"
      /\ tool' \in [Calls -> {"none", "checking", "creating", "over"}]
      /\ thread' \in [Calls -> {"none", "lookup", "insert", "again", "over"}]
      /\ \A d \in Calls \ {c} : tool'[d] = tool[d] /\ thread'[d] = thread[d]
  BY <1>1, <1>2 DEF TypeOK, Set
<1>4. /\ agent' = Set(agent, c, agent[c]) /\ work' = Set(work, c, work[c])
      /\ agent[c] \in {"none", "sent", "starting", "calling", "saving", "over"}
      /\ work[c] \in [state : TaskStates, result : Results] \cup {None}
      /\ agent[c] = "saving" <=> work[c] # None
  BY <1>1, <1>2 DEF TypeOK, Set
<1>5. Live(c) /\ agent[c] \notin {"none", "sent", "starting"}
  BY <1>1, <1>2 DEF Live, PathInv
<1>6. PathInv(c)'
  BY <1>1, <1>2, <1>3, <1>5, QuestionsStay DEF PathInv
<1>7. ToldInv(c)'
  BY <1>1, <1>2, <1>5, QuestionsStay, TicketsStay DEF ToldInv
<1>8. tasks[c] # None => agent[c] = "over"
  BY <1>1 DEF TaskInv
<1>. QED
  BY <1>1, <1>2, <1>3, <1>4, <1>6, <1>7, <1>8, Moves, SameTickets

\* The thread goes on to its next statement.
LEMMA ThreadMoves ==
  ASSUME IInv, NEW c \in Calls, NEW x \in {"insert", "again"},
         thread[c] \in {"lookup", "insert", "again"}, thread' = Set(thread, c, x),
         UNCHANGED <<deploy, query, client, agent, tool, work, reply, tickets,
                     tasks, shown, gate, filed, seen>>
  PROVE  IInv'
<1>1. /\ TypeOK /\ PathInv(c) /\ ToldInv(c) /\ TaskInv(c) /\ GateInv(c)
      /\ TicketsInv
  BY DEF IInv, CallInv
<1>2. /\ thread'[c] = x
      /\ tool' \in [Calls -> {"none", "checking", "creating", "over"}]
      /\ thread' \in [Calls -> {"none", "lookup", "insert", "again", "over"}]
      /\ \A d \in Calls \ {c} : tool'[d] = tool[d] /\ thread'[d] = thread[d]
  BY <1>1 DEF TypeOK, Set
<1>3. /\ agent' = Set(agent, c, agent[c]) /\ work' = Set(work, c, work[c])
      /\ agent[c] \in {"none", "sent", "starting", "calling", "saving", "over"}
      /\ work[c] \in [state : TaskStates, result : Results] \cup {None}
      /\ agent[c] = "saving" <=> work[c] # None
  BY <1>1 DEF TypeOK, Set
<1>4. Live(c) /\ agent[c] \notin {"none", "sent", "starting"}
  BY <1>1 DEF Live, PathInv
<1>5. PathInv(c)'
  BY <1>1, <1>2, <1>4, QuestionsStay DEF PathInv
<1>6. ToldInv(c)'
  BY <1>1, <1>4, QuestionsStay, TicketsStay DEF ToldInv
<1>7. tasks[c] # None => agent[c] = "over"
  BY <1>1 DEF TaskInv
<1>. QED
  BY <1>1, <1>2, <1>3, <1>5, <1>6, <1>7, Moves, SameTickets

LEMMA ThreadEndsKeeps ==
  ASSUME IInv, NEW c \in Calls, NEW result, ThreadEnds(c, result),
         thread[c] \in {"lookup", "insert", "again"},
         Fits(c, result)', result.kind # "elsewhere",
         tickets \subseteq tickets', TicketsInv',
         UNCHANGED <<deploy, query, tasks, shown, gate, filed, seen>>
  PROVE  IInv'
<1>1. TypeOK
  BY DEF IInv
<1>2. /\ thread' \in [Calls -> {"none", "lookup", "insert", "again", "over"}]
      /\ \A d \in Calls \ {c} : thread'[d] = thread[d]
      /\ thread'[c] = "over"
  BY <1>1 DEF TypeOK, ThreadEnds, Set
<1>3. CASE tool[c] = "creating"
  BY <1>2, <1>3, ReturnKeeps DEF ThreadEnds
<1>4. CASE tool[c] # "creating"
  <2>1. UNCHANGED <<client, agent, tool, work, reply>>
    BY <1>4 DEF ThreadEnds
  <2>2. Winds(c)
    BY <1>1, <1>2, <2>1 DEF Winds, TypeOK
  <2>. QED
    BY <2>1, <2>2, WindsKeeps
<1>. QED
  BY <1>3, <1>4

LEMMA LookupKeeps ==
  ASSUME IInv, NEW c \in Calls, Lookup(c)
  PROVE  IInv'
<1>1. /\ thread[c] \in {"lookup", "insert", "again"}
      /\ UNCHANGED <<deploy, query, tickets, tasks, shown, gate, filed, seen>>
  BY DEF Lookup, Same
<1>2. TicketsInv'
  BY <1>1, SameTickets DEF IInv
<1>3. CASE /\ thread' = Set(thread, c, "insert")
           /\ UNCHANGED <<client, agent, tool, work, reply>>
  BY <1>1, <1>3, ThreadMoves
<1>4. ASSUME NEW t \in SameKey(c), ThreadEnds(c, Result("made", t.id))
      PROVE  IInv'
  <2>1. OfKey(c, t.id)'
    BY <1>1, QuestionsStay DEF OfKey, SameKey
  <2>2. /\ Fits(c, Result("made", t.id))' /\ Result("made", t.id).kind = "made"
    BY <1>2, <2>1, MadeFits
  <2>. QED
    BY <1>1, <1>2, <1>4, <2>2, ThreadEndsKeeps
<1>. QED
  BY <1>3, <1>4 DEF Lookup

LEMMA InsertKeeps ==
  ASSUME IInv, NEW c \in Calls, Insert(c)
  PROVE  IInv'
<1>1. /\ thread[c] \in {"lookup", "insert", "again"}
      /\ UNCHANGED <<deploy, query, tasks, shown, gate, filed, seen>>
  BY DEF Insert, Same
<1>2. OwnOrder(c) /\ Permitted(c)
  BY <1>1 DEF IInv, CallInv, PathInv, Live
<1>3. CASE /\ SameKey(c) = {} /\ tickets' = tickets \cup {Ticket(c)}
           /\ ThreadEnds(c, Result("made", c)) \/ ThreadEnds(c, Failure)
  <2>1. TicketsInv' /\ OfKey(c, c)'
    BY <1>1, <1>2, <1>3, NewTicket
  <2>2. Fits(c, Result("made", c))' /\ Result("made", c).kind = "made"
    BY <2>1, MadeFits
  <2>3. Fits(c, Failure)' /\ Failure.kind = "unavailable"
    BY FailureNamesNone DEF Fits
  <2>. QED
    BY <1>1, <1>3, <2>1, <2>2, <2>3, ThreadEndsKeeps
<1>4. CASE /\ thread' = Set(thread, c, "again")
           /\ UNCHANGED <<client, agent, tool, work, reply, tickets>>
  BY <1>1, <1>4, ThreadMoves
<1>. QED
  BY <1>3, <1>4 DEF Insert

\* Whoever is let in has a name that a task can be stored under.
LEMMA CallerHasName ==
  ASSUME IInv, NEW c \in Calls, MayCall(Caller(c))
  PROVE  Caller(c).subject \in Subjects
<1>. DEFINE token == SentToken(c)
<1>1. CASE Verifies("service", "service", token)
  <2>1. Caller(c).subject = token.subject
    BY <1>1 DEF Caller, RequireService, Principal
  <2>2. CASE query[c].via = "agent"
    <3>1. token = query[c].token /\ query[c] \in Queries[c] /\ token # None
      BY <1>1, <2>2 DEF SentToken, IInv, CallInv, Verifies
    <3>2. token \in Tokens
      BY <3>1 DEF Tokens
    <3>. QED
      BY <2>1, <3>2 DEF Subjects
  <2>3. CASE query[c].via # "agent"
    <3>1. token.subject = "shopagent_orchestrator"
      BY <2>3 DEF SentToken, ServiceToken
    <3>. QED
      BY <2>1, <3>1 DEF Subjects
  <2>. QED
    BY <2>2, <2>3
<1>2. CASE ~Verifies("service", "service", token)
  <2>1. Caller(c) # Refused
    BY DEF MayCall
  <2>2. ~deploy.production
    BY <1>2, <2>1 DEF Caller, RequireService
  <2>3. Caller(c) = Principal(IF token # None /\ token.raw THEN "development-service"
                              ELSE "anonymous", None)
    BY <1>2, <2>2 DEF Caller, RequireService
  <2>4. Caller(c).subject = IF token # None /\ token.raw THEN "development-service"
                            ELSE "anonymous"
    BY <2>3 DEF Principal
  <2>. QED
    BY <2>4 DEF Subjects
<1>. QED
  BY <1>1, <1>2

LEMMA SenderHasName ==
  ASSUME IInv, NEW c \in Calls, Sender(c) # Refused
  PROVE  Sender(c).subject \in Subjects
<1>. DEFINE token == query[c].token
<1>1. CASE Verifies("service", "service", token)
  <2>1. Sender(c).subject = token.subject
    BY <1>1 DEF Sender, RequireService, Principal
  <2>2. token \in Tokens
    BY <1>1 DEF Tokens, IInv, CallInv, Verifies
  <2>. QED
    BY <2>1, <2>2 DEF Subjects
<1>2. CASE ~Verifies("service", "service", token)
  <2>1. Sender(c) = Principal(IF token # None /\ token.raw THEN "development-service"
                              ELSE "anonymous", None)
    BY <1>2 DEF Sender, RequireService
  <2>2. Sender(c).subject = IF token # None /\ token.raw THEN "development-service"
                            ELSE "anonymous"
    BY <2>1 DEF Principal
  <2>. QED
    BY <2>2 DEF Subjects
<1>. QED
  BY <1>1, <1>2

LEMMA SaveKeeps ==
  ASSUME IInv, NEW c \in Calls, Save(c)
  PROVE  IInv'
<1>1. /\ TypeOK /\ PathInv(c) /\ ToldInv(c) /\ TaskInv(c) /\ GateInv(c)
      /\ TicketsInv
  BY DEF IInv, CallInv
<1>2. /\ agent[c] = "saving" /\ tasks' = Set(tasks, c, Stored(c))
      /\ agent' = Set(agent, c, "over") /\ work' = Set(work, c, None)
      /\ UNCHANGED <<deploy, query, tool, thread, tickets, shown, gate, filed, seen>>
  BY DEF Save, Same
<1>. DEFINE w == work[c]
            human == NeedsHuman(w.state, w.result)
            answer == Reply(w.result, human)
<1>3. /\ w # None /\ w \in [state : TaskStates, result : Results]
      /\ Remote(c) /\ MayCall(Caller(c)) /\ client[c] # "new"
  BY <1>1, <1>2 DEF TypeOK, PathInv
<1>4. w.state \in TaskStates /\ w.result \in Results
  BY <1>3
<1>5. /\ Stored(c) \in StoredTasks /\ Stored(c) # None /\ Stored(c).live
      /\ Stored(c).state = w.state /\ Stored(c).result = w.result
      /\ Stored(c).owner = Caller(c).subject
  <2>. DEFINE owner == Caller(c).subject
  <2>1. owner \in Subjects
    BY <1>3, CallerHasName
  <2>2. Stored(c) = [state |-> w.state, result |-> w.result, owner |-> owner, live |-> TRUE]
    BY DEF Stored
  <2>. HIDE DEF owner, w
  <2>3. Stored(c) \in StoredTasks
    BY <1>4, <2>1, <2>2 DEF StoredTasks
  <2>4. /\ Stored(c).state = w.state /\ Stored(c).result = w.result
        /\ Stored(c).owner = owner /\ Stored(c).live
    BY <2>2
  <2>. QED
    BY <2>3, <2>4, Sentinels DEF owner
<1>6. /\ answer \in Replies /\ answer.kind = w.result.kind
      /\ answer.ticket = w.result.ticket /\ answer.human = human
  <2>1. human \in BOOLEAN
    BY DEF NeedsHuman
  <2>. HIDE DEF human, w
  <2>. QED
    BY <1>4, <2>1 DEF Reply, Replies, Results
<1>7. /\ Fits(c, w.result)
      /\ w.result.kind = "elsewhere" => w.state = "rejected"
      /\ w.result.ticket # None => w.state = "completed" /\ OwnTicket(c, w.result.ticket)
      /\ Live(c) => w.result.ticket = None
  BY <1>1, <1>3 DEF ToldInv, Fits
<1>8. query[c].ask = "apply" =>
        IF w.result.ticket = None THEN human ELSE OfKey(c, w.result.ticket)
  <2>1. OfKey(c, w.result.ticket) => w.result.ticket # None
    BY <1>1, KeyTicketIsOwn
  <2>. QED
    BY <1>7, <2>1 DEF Fits, NeedsHuman
<1>. HIDE DEF w, human, answer
<1>9. Answered(c, answer)
  BY DEF Save, w, human, answer
<1>10. /\ client' \in [Calls -> {"new", "waiting", "answered", "failed"}]
       /\ reply' \in [Calls -> Replies \cup {None}]
       /\ \A d \in Calls \ {c} : client'[d] = client[d] /\ reply'[d] = reply[d]
       /\ client'[c] = "answered" <=> reply'[c] # None
       /\ client'[c] = "new" => client[c] = "new"
       /\ \/ reply'[c] = reply[c]
          \/ reply[c] = None /\ reply'[c] = answer
  BY <1>1, <1>6, <1>9, AnsweredEffect
<1>11. /\ agent' \in [Calls -> {"none", "sent", "starting", "calling", "saving", "over"}]
       /\ work' \in [Calls -> [state : TaskStates, result : Results] \cup {None}]
       /\ \A d \in Calls \ {c} : agent'[d] = agent[d] /\ work'[d] = work[d]
       /\ agent'[c] = "over" /\ work'[c] = None
  BY <1>1, <1>2 DEF TypeOK, Set
<1>12. /\ tasks' \in [Calls -> StoredTasks \cup {None}]
       /\ \A d \in Calls \ {c} : tasks'[d] = tasks[d]
       /\ tasks'[c] = Stored(c)
  BY <1>1, <1>2, <1>5 DEF TypeOK, Set
<1>13. OwnStep(c) /\ Live(c)' = Live(c)
  BY <1>2, <1>10, <1>11, <1>12 DEF OwnStep, Live
<1>14. Typed(c)
  <2>1. /\ tool' \in [Calls -> {"none", "checking", "creating", "over"}]
        /\ thread' \in [Calls -> {"none", "lookup", "insert", "again", "over"}]
        /\ shown' \in [Calls -> SUBSET Readers]
        /\ gate' \in [Calls -> {"none", "open", "answered", "failed"}]
        /\ filed' \in [Calls -> StoredTasks \cup {None}]
        /\ seen' \in [Calls -> SUBSET Readers]
    BY <1>1, <1>2 DEF TypeOK
  <2>. QED
    BY <1>10, <1>11, <1>12, <2>1 DEF Typed
<1>15. PathInv(c)'
  BY <1>1, <1>2, <1>3, <1>10, <1>11, <1>13, QuestionsStay DEF PathInv
<1>16. ToldInv(c)'
  <2>1. CASE reply'[c] = reply[c]
    <3>1. reply[c] # None => reply[c].kind = "unavailable"
      BY <1>1, <1>2, <1>3 DEF ToldInv, TaskInv
    <3>. QED
      BY <1>1, <1>2, <1>11, <1>13, <2>1, <3>1, QuestionsStay, TicketsStay DEF ToldInv
  <2>2. CASE reply'[c] = answer
    BY <1>2, <1>5, <1>6, <1>7, <1>8, <1>11, <1>12, <1>13, <2>2, QuestionsStay,
       TicketsStay DEF ToldInv
  <2>. QED
    BY <1>10, <2>1, <2>2
<1>17. TaskInv(c)'
  BY <1>1, <1>2, <1>3, <1>5, <1>7, <1>11, <1>12, QuestionsStay, TicketsStay
     DEF TaskInv, ShownTo
<1>18. GateInv(c)'
  BY <1>1, <1>2, <1>10, GateKeeps
<1>. QED
  BY <1>1, <1>2, <1>13, <1>14, <1>15, <1>16, <1>17, <1>18, StepIsTyped, StepOfOne,
     SameTickets

\* What happens to the tasks and their readers alone.
LEMMA FilingKeeps ==
  ASSUME IInv, NEW c \in Calls,
         UNCHANGED <<deploy, query, client, agent, tool, thread, work, reply, tickets>>,
         tasks' \in [Calls -> StoredTasks \cup {None}],
         shown' \in [Calls -> SUBSET Readers],
         gate' \in [Calls -> {"none", "open", "answered", "failed"}],
         filed' \in [Calls -> StoredTasks \cup {None}],
         seen' \in [Calls -> SUBSET Readers],
         \A d \in Calls \ {c} :
           /\ tasks'[d] = tasks[d] /\ shown'[d] = shown[d]
           /\ gate'[d] = gate[d] /\ filed'[d] = filed[d] /\ seen'[d] = seen[d],
         tasks'[c] # None <=> tasks[c] # None,
         tasks[c] # None => tasks'[c].result = tasks[c].result,
         TaskInv(c)', GateInv(c)'
  PROVE  IInv'
<1>1. TypeOK /\ PathInv(c) /\ ToldInv(c) /\ TicketsInv
  BY DEF IInv, CallInv
<1>2. OwnStep(c)
  BY DEF OwnStep
<1>3. Live(c)' = Live(c)
  BY DEF Live
<1>4. Typed(c)
  <2>1. /\ client' \in [Calls -> {"new", "waiting", "answered", "failed"}]
        /\ agent' \in [Calls -> {"none", "sent", "starting", "calling", "saving", "over"}]
        /\ tool' \in [Calls -> {"none", "checking", "creating", "over"}]
        /\ thread' \in [Calls -> {"none", "lookup", "insert", "again", "over"}]
        /\ work' \in [Calls -> [state : TaskStates, result : Results] \cup {None}]
        /\ reply' \in [Calls -> Replies \cup {None}]
        /\ agent'[c] = "saving" <=> work'[c] # None
        /\ client'[c] = "answered" <=> reply'[c] # None
    BY <1>1 DEF TypeOK
  <2>. QED
    BY <2>1 DEF Typed
<1>5. PathInv(c)'
  BY <1>1, <1>3, QuestionsStay DEF PathInv
<1>6. ToldInv(c)'
  BY <1>1, <1>3, QuestionsStay, TicketsStay DEF ToldInv
<1>. QED
  BY <1>1, <1>2, <1>4, <1>5, <1>6, StepIsTyped, StepOfOne, SameTickets

\* The answer of the orchestrator becomes the task of its message.
LEMMA FileKeeps ==
  ASSUME IInv, NEW c \in Calls, File(c)
  PROVE  IInv'
<1>1. TypeOK /\ TaskInv(c) /\ GateInv(c)
  BY DEF IInv, CallInv
<1>2. /\ gate[c] = "open" /\ client[c] = "answered"
      /\ filed' = Set(filed, c, Filed(c)) /\ gate' = Set(gate, c, "answered")
      /\ UNCHANGED <<deploy, query, client, agent, tool, thread, work, reply,
                     tickets, tasks, shown, seen>>
  BY DEF File
<1>3. reply[c] # None /\ reply[c] \in Replies /\ Sender(c) # Refused
  BY <1>1, <1>2 DEF TypeOK, GateInv
<1>4. /\ Filed(c) \in StoredTasks
      /\ Filed(c).result = Result(reply[c].kind, reply[c].ticket)
      /\ Filed(c).owner = Sender(c).subject
  <2>. DEFINE owner == Sender(c).subject
              result == Result(reply[c].kind, reply[c].ticket)
  <2>1. owner \in Subjects
    BY <1>3, SenderHasName
  <2>2. result \in Results
    BY <1>3 DEF Replies, Results, Result
  <2>3. Filed(c) = [state |-> "completed", result |-> result, owner |-> owner,
                    live |-> TRUE]
    BY DEF Filed
  <2>. HIDE DEF owner, result
  <2>4. Filed(c) \in StoredTasks /\ Filed(c).result = result /\ Filed(c).owner = owner
    BY <2>1, <2>2, <2>3 DEF StoredTasks, TaskStates
  <2>. QED
    BY <2>4 DEF owner, result
<1>5. Filed(c) # None
  BY <1>4, Sentinels
<1>6. /\ filed' \in [Calls -> StoredTasks \cup {None}] /\ filed'[c] = Filed(c)
      /\ gate' \in [Calls -> {"none", "open", "answered", "failed"}] /\ gate'[c] = "answered"
      /\ \A d \in Calls \ {c} : filed'[d] = filed[d] /\ gate'[d] = gate[d]
  BY <1>1, <1>2, <1>4 DEF TypeOK, Set
<1>7. TaskInv(c)'
  BY <1>1, <1>2, QuestionsStay, TicketsStay DEF TaskInv, ShownTo
<1>8. GateInv(c)'
  BY <1>1, <1>2, <1>3, <1>4, <1>5, <1>6, QuestionsStay DEF GateInv, ShownTo
<1>9. /\ tasks' \in [Calls -> StoredTasks \cup {None}]
       /\ shown' \in [Calls -> SUBSET Readers] /\ seen' \in [Calls -> SUBSET Readers]
  BY <1>1, <1>2 DEF TypeOK
<1>. QED
  BY <1>2, <1>6, <1>7, <1>8, <1>9, FilingKeeps

LEMMA FileFailsKeeps ==
  ASSUME IInv, NEW c \in Calls, FileFails(c)
  PROVE  IInv'
<1>1. TypeOK /\ TaskInv(c) /\ GateInv(c)
  BY DEF IInv, CallInv
<1>2. /\ gate[c] = "open" /\ gate' = Set(gate, c, "failed")
      /\ UNCHANGED <<deploy, query, client, agent, tool, thread, work, reply,
                     tickets, tasks, shown, filed, seen>>
  BY DEF FileFails
<1>3. /\ gate' \in [Calls -> {"none", "open", "answered", "failed"}]
      /\ gate'[c] = "failed" /\ \A d \in Calls \ {c} : gate'[d] = gate[d]
  BY <1>1, <1>2 DEF TypeOK, Set
<1>4. TaskInv(c)'
  BY <1>1, <1>2, QuestionsStay, TicketsStay DEF TaskInv, ShownTo
<1>5. GateInv(c)'
  BY <1>1, <1>2, <1>3, QuestionsStay DEF GateInv, ShownTo
<1>6. /\ tasks' \in [Calls -> StoredTasks \cup {None}]
      /\ filed' \in [Calls -> StoredTasks \cup {None}]
      /\ shown' \in [Calls -> SUBSET Readers] /\ seen' \in [Calls -> SUBSET Readers]
  BY <1>1, <1>2 DEF TypeOK
<1>. QED
  BY <1>2, <1>3, <1>4, <1>5, <1>6, FilingKeeps

\* A stored task that is no longer live is what it was.
LEMMA Expiring ==
  ASSUME NEW task \in StoredTasks
  PROVE  /\ Expired(task) \in StoredTasks /\ Expired(task) # None
         /\ Expired(task).result = task.result /\ Expired(task).state = task.state
         /\ Expired(task).owner = task.owner
<1>1. /\ Expired(task) \in StoredTasks
      /\ Expired(task).result = task.result /\ Expired(task).state = task.state
      /\ Expired(task).owner = task.owner
  BY DEF Expired, StoredTasks
<1>. QED
  BY <1>1, Sentinels

LEMMA ExpireKeeps ==
  ASSUME IInv, NEW c \in Calls, Expire(c)
  PROVE  IInv'
<1>1. TypeOK /\ TaskInv(c) /\ GateInv(c)
  BY DEF IInv, CallInv
<1>2. /\ UNCHANGED <<deploy, query, client, agent, tool, thread, work, reply,
                     tickets, shown, gate, seen>>
      /\ shown' \in [Calls -> SUBSET Readers] /\ seen' \in [Calls -> SUBSET Readers]
      /\ gate' \in [Calls -> {"none", "open", "answered", "failed"}]
  BY <1>1 DEF Expire, TypeOK
<1>3. CASE /\ tasks[c] # None /\ tasks' = Set(tasks, c, Expired(tasks[c]))
           /\ UNCHANGED filed
  <2>. DEFINE new == Expired(tasks[c])
  <2>1. tasks[c] \in StoredTasks
    BY <1>1, <1>3 DEF TypeOK
  <2>2. /\ new \in StoredTasks /\ new # None /\ new.result = tasks[c].result
        /\ new.state = tasks[c].state /\ new.owner = tasks[c].owner
    BY <2>1, Expiring
  <2>. HIDE DEF new
  <2>3. /\ tasks' \in [Calls -> StoredTasks \cup {None}] /\ tasks'[c] = new
        /\ \A d \in Calls \ {c} : tasks'[d] = tasks[d]
        /\ filed' \in [Calls -> StoredTasks \cup {None}]
    BY <1>1, <1>3, <2>2 DEF TypeOK, Set, new
  <2>4. TaskInv(c)'
    BY <1>1, <1>2, <1>3, <2>2, <2>3, QuestionsStay, TicketsStay DEF TaskInv, ShownTo
  <2>5. GateInv(c)'
    BY <1>1, <1>2, <1>3, GateKeeps
  <2>. QED
    BY <1>2, <1>3, <2>2, <2>3, <2>4, <2>5, FilingKeeps
<1>4. CASE /\ filed[c] # None /\ filed' = Set(filed, c, Expired(filed[c]))
           /\ UNCHANGED tasks
  <2>. DEFINE new == Expired(filed[c])
  <2>1. filed[c] \in StoredTasks
    BY <1>1, <1>4 DEF TypeOK
  <2>2. /\ new \in StoredTasks /\ new # None /\ new.result = filed[c].result
        /\ new.owner = filed[c].owner
    BY <2>1, Expiring
  <2>. HIDE DEF new
  <2>3. /\ filed' \in [Calls -> StoredTasks \cup {None}] /\ filed'[c] = new
        /\ \A d \in Calls \ {c} : filed'[d] = filed[d]
        /\ tasks' \in [Calls -> StoredTasks \cup {None}]
    BY <1>1, <1>4, <2>2 DEF TypeOK, Set, new
  <2>4. TaskInv(c)'
    BY <1>1, <1>2, <1>4, QuestionsStay, TicketsStay DEF TaskInv, ShownTo
  <2>5. GateInv(c)'
    BY <1>1, <1>2, <1>4, <2>2, <2>3, QuestionsStay DEF GateInv, ShownTo
  <2>. QED
    BY <1>2, <1>4, <2>3, <2>4, <2>5, FilingKeeps
<1>. QED
  BY <1>3, <1>4 DEF Expire

\* Who is taken for the caller, and let in, shows a token of the caller's own.
LEMMA ReaderIsOwner ==
  ASSUME NEW token, NEW sent,
         RequireService(token, deploy.production) # Refused,
         RequireService(sent, deploy.production) # Refused,
         RequireService(sent, deploy.production).subject
           = RequireService(token, deploy.production).subject
  PROVE  ShownTo(token, RequireService(sent, deploy.production), sent)
<1>. SUFFICES ASSUME deploy.production
              PROVE  /\ Verifies("service", "service", token)
                     /\ token.subject = sent.subject
  BY DEF ShownTo
<1>1. Verifies("service", "service", token) /\ Verifies("service", "service", sent)
  BY DEF RequireService
<1>2. /\ RequireService(token, deploy.production).subject = token.subject
      /\ RequireService(sent, deploy.production).subject = sent.subject
  BY <1>1 DEF RequireService, Principal
<1>. QED
  BY <1>1, <1>2

\* A task is shown to the name it is stored under, and in production a name is
\* what a signed token says.
LEMMA ReadTaskKeeps ==
  ASSUME IInv, NEW c \in Calls, NEW token \in Readers, ReadTask(c, token)
  PROVE  IInv'
<1>1. TypeOK /\ TaskInv(c) /\ GateInv(c)
  BY DEF IInv, CallInv
<1>. DEFINE principal == RequireService(token, deploy.production)
<1>2. /\ principal # Refused
      /\ UNCHANGED <<deploy, query, client, agent, tool, thread, work, reply,
                     tickets, tasks, gate, filed>>
  BY DEF ReadTask
<1>3. /\ tasks' \in [Calls -> StoredTasks \cup {None}]
      /\ gate' \in [Calls -> {"none", "open", "answered", "failed"}]
      /\ filed' \in [Calls -> StoredTasks \cup {None}]
  BY <1>1, <1>2 DEF TypeOK
<1>4. CASE /\ Visible(tasks[c], principal)
           /\ shown' = Set(shown, c, shown[c] \cup {token}) /\ UNCHANGED seen
  <2>1. /\ shown' \in [Calls -> SUBSET Readers] /\ seen' \in [Calls -> SUBSET Readers]
        /\ \A d \in Calls \ {c} : shown'[d] = shown[d]
        /\ shown'[c] = shown[c] \cup {token}
    BY <1>1, <1>4 DEF TypeOK, Set
  <2>2. principal.subject = Caller(c).subject /\ Caller(c) # Refused
    BY <1>1, <1>4 DEF TaskInv, MayCall, Visible
  <2>3. ShownTo(token, Caller(c), SentToken(c))
    BY <1>2, <2>2, ReaderIsOwner DEF Caller
  <2>4. TaskInv(c)'
    BY <1>1, <1>2, <2>1, <2>3, QuestionsStay, TicketsStay DEF TaskInv, ShownTo
  <2>5. GateInv(c)'
    BY <1>1, <1>2, <1>4, GateKeeps
  <2>. QED
    BY <1>2, <1>3, <1>4, <2>1, <2>4, <2>5, FilingKeeps
<1>5. CASE /\ Visible(filed[c], principal)
           /\ seen' = Set(seen, c, seen[c] \cup {token}) /\ UNCHANGED shown
  <2>1. /\ seen' \in [Calls -> SUBSET Readers] /\ shown' \in [Calls -> SUBSET Readers]
        /\ \A d \in Calls \ {c} : seen'[d] = seen[d]
        /\ seen'[c] = seen[c] \cup {token}
    BY <1>1, <1>5 DEF TypeOK, Set
  <2>2. principal.subject = Sender(c).subject /\ Sender(c) # Refused
    BY <1>1, <1>5 DEF GateInv, Visible
  <2>3. ShownTo(token, Sender(c), query[c].token)
    BY <1>2, <2>2, ReaderIsOwner DEF Sender
  <2>4. TaskInv(c)'
    BY <1>1, <1>2, <1>5, QuestionsStay, TicketsStay DEF TaskInv, ShownTo
  <2>5. GateInv(c)'
    BY <1>1, <1>2, <2>1, <2>3, QuestionsStay DEF GateInv, ShownTo
  <2>. QED
    BY <1>2, <1>3, <1>5, <2>1, <2>4, <2>5, FilingKeeps
<1>. QED
  BY <1>4, <1>5 DEF ReadTask

\* Whatever was under way is gone, and with it all that could make a ticket.
LEMMA RestartKeeps ==
  ASSUME IInv, Restart
  PROVE  IInv'
<1>1. TypeOK /\ TicketsInv /\ deploy \in Deployments
  BY DEF IInv
<1>2. /\ UNCHANGED <<deploy, query, reply, tickets, tasks, shown, filed, seen>>
      /\ client' = [c \in Calls |-> IF client[c] = "waiting" THEN "failed" ELSE client[c]]
      /\ agent' = [c \in Calls |-> IF agent[c] = "none" THEN "none" ELSE "over"]
      /\ tool' = [c \in Calls |-> IF tool[c] = "none" THEN "none" ELSE "over"]
      /\ thread' = [c \in Calls |-> IF thread[c] = "none" THEN "none" ELSE "over"]
      /\ work' = [c \in Calls |-> None]
      /\ gate' = [c \in Calls |-> IF gate[c] = "open" THEN "failed" ELSE gate[c]]
  BY DEF Restart
<1>3. TypeOK'
  <2>1. /\ client' \in [Calls -> {"new", "waiting", "answered", "failed"}]
        /\ \A c \in Calls : client'[c] = "answered" <=> client[c] = "answered"
    BY <1>1, <1>2 DEF TypeOK
  <2>2. /\ agent' \in [Calls -> {"none", "sent", "starting", "calling", "saving", "over"}]
        /\ tool' \in [Calls -> {"none", "checking", "creating", "over"}]
        /\ thread' \in [Calls -> {"none", "lookup", "insert", "again", "over"}]
        /\ work' \in [Calls -> [state : TaskStates, result : Results] \cup {None}]
        /\ \A c \in Calls : agent'[c] = "saving" <=> work'[c] # None
    BY <1>2
  <2>3. gate' \in [Calls -> {"none", "open", "answered", "failed"}]
    BY <1>1, <1>2 DEF TypeOK
  <2>. QED
    BY <1>1, <1>2, <2>1, <2>2, <2>3 DEF TypeOK
<1>4. ASSUME NEW c \in Calls PROVE CallInv(c)'
  <2>1. query[c] \in Queries[c] /\ PathInv(c) /\ ToldInv(c) /\ TaskInv(c) /\ GateInv(c)
    BY DEF IInv, CallInv
  <2>2. /\ client'[c] = "new" => client[c] = "new"
        /\ agent'[c] = IF agent[c] = "none" THEN "none" ELSE "over"
        /\ tool'[c] = IF tool[c] = "none" THEN "none" ELSE "over"
        /\ thread'[c] = IF thread[c] = "none" THEN "none" ELSE "over"
        /\ work'[c] = None
        /\ gate'[c] = IF gate[c] = "open" THEN "failed" ELSE gate[c]
    BY <1>2
  <2>3. ~Live(c)'
    BY <2>2 DEF Live
  <2>4. PathInv(c)'
    BY <1>2, <2>1, <2>2, <2>3, QuestionsStay DEF PathInv
  <2>5. ToldInv(c)'
    BY <1>2, <2>1, <2>2, <2>3, QuestionsStay, TicketsStay DEF ToldInv
  <2>6. TaskInv(c)'
    BY <1>2, <2>1, <2>2, QuestionsStay, TicketsStay DEF TaskInv, ShownTo
  <2>7. GateInv(c)'
    BY <1>2, <2>1, <2>2, QuestionsStay DEF GateInv, ShownTo
  <2>. QED
    BY <1>2, <2>1, <2>4, <2>5, <2>6, <2>7 DEF CallInv
<1>. QED
  BY <1>1, <1>2, <1>3, <1>4, SameTickets DEF IInv

LEMMA StepKeeps == IInv /\ [Next]_vars => IInv'
<1>. SUFFICES ASSUME IInv, [Next]_vars PROVE IInv'
  OBVIOUS
<1>1. ASSUME NEW c \in Calls, Step(c) PROVE IInv'
  BY <1>1, AskKeeps, ReceiveKeeps, ExecuteKeeps, LookKeeps, ForbidKeeps,
     CreateInMemoryKeeps, StartWritingKeeps, LookupKeeps, InsertKeeps,
     ToolFailsKeeps, SaveKeeps, FileKeeps
     DEF Step
<1>2. ASSUME NEW c \in Calls,
             \/ Lose(c) \/ TimeOut(c) \/ GiveUp(c) \/ SaveFails(c)
             \/ FileFails(c) \/ Expire(c)
             \/ \E token \in Readers : ReadTask(c, token)
      PROVE  IInv'
  BY <1>2, LoseKeeps, TimeOutKeeps, GiveUpKeeps, SaveFailsKeeps, FileFailsKeeps,
     ExpireKeeps, ReadTaskKeeps
<1>3. CASE UNCHANGED vars
  <2>1. TypeOK' /\ TicketsInv'
    BY <1>3, SameTickets DEF IInv, TypeOK, vars
  <2>2. ASSUME NEW c \in Calls PROVE OwnStep(c)
    BY <1>3 DEF OwnStep, vars
  <2>3. ASSUME NEW c \in Calls PROVE PathInv(c)' /\ ToldInv(c)' /\ TaskInv(c)' /\ GateInv(c)'
    <3>1. PathInv(c) /\ ToldInv(c) /\ TaskInv(c) /\ GateInv(c)
      BY DEF IInv, CallInv
    <3>2. Live(c)' = Live(c)
      BY <1>3 DEF Live, vars
    <3>. QED
      BY <1>3, <3>1, <3>2, QuestionsStay, TicketsStay
         DEF PathInv, ToldInv, TaskInv, GateInv, ShownTo, vars
  <2>4. \A c \in Calls : CallInv(c)'
    BY <1>3, <2>3 DEF IInv, CallInv, vars
  <2>. QED
    BY <1>3, <2>1, <2>4 DEF IInv, vars
<1>. QED
  BY <1>1, <1>2, <1>3, RestartKeeps DEF Next

THEOREM Invariance == Spec => []IInv
  BY InitKeeps, StepKeeps, PTL DEF Spec

-----------------------------------------------------------------------------
(* What the runs check.                                                    *)

\* The types hold, and an agent has a task to store exactly while it is saving.
THEOREM TypeCorrect == Spec => []TypeOK
<1>1. IInv => TypeOK
  BY DEF IInv
<1>. QED
  BY <1>1, Invariance, PTL

\* A ticket is for an order of its own user, and nobody is told of a ticket of
\* another user.  In production whoever asked for it proved to be that user, or
\* to be a service, which is believed whom it acts for: one with a token for
\* this agent if it asked the agent or its tool, and any one if it asked the
\* orchestrator.
THEOREM OwnOrders == Spec => []TicketsOnOwnOrders
<1>1. IInv => TicketsOnOwnOrders
  <2>. SUFFICES ASSUME IInv PROVE TicketsOnOwnOrders
    OBVIOUS
  <2>1. ASSUME NEW t \in tickets
        PROVE  /\ OwnerOf[t.order] = t.user /\ t.user = query[t.id].user
               /\ deploy.production => Authorised(t.id)
    <3>1. t = Ticket(t.id) /\ OwnOrder(t.id) /\ Permitted(t.id)
      BY DEF IInv, TicketsInv
    <3>2. t.user = query[t.id].user /\ t.order = query[t.id].order
      BY <3>1 DEF Ticket
    <3>. QED
      BY <3>1, <3>2 DEF OwnOrder, Permitted
  <2>2. ASSUME NEW c \in Calls, reply[c] # None, reply[c].ticket # None
        PROVE  OwnTicket(c, reply[c].ticket)
    BY <2>2 DEF IInv, CallInv, ToldInv
  <2>. QED
    BY <2>1, <2>2 DEF TicketsOnOwnOrders
<1>. QED
  BY <1>1, Invariance, PTL

\* A user who asked for a ticket and is told that no human is needed has one.
THEOREM NobodyIsDeceived == Spec => []NoFalseSuccess
<1>1. IInv => NoFalseSuccess
  BY DEF IInv, TypeOK, CallInv, ToldInv, NoFalseSuccess
<1>. QED
  BY <1>1, Invariance, PTL

\* A task is stored before it is answered, as it was answered, and the ticket
\* it names exists.
THEOREM TasksAreTrue == Spec => []TasksTellTheTruth
<1>1. IInv => TasksTellTheTruth
  <2>. SUFFICES ASSUME IInv PROVE TasksTellTheTruth
    OBVIOUS
  <2>1. \A c \in Calls : ToldInv(c) /\ TaskInv(c) /\ GateInv(c)
    BY DEF IInv, CallInv
  <2>2. ASSUME NEW c \in Calls, filed[c] # None
        PROVE  /\ reply[c] # None
               /\ filed[c].result.kind = reply[c].kind
               /\ filed[c].result.ticket = reply[c].ticket
    <3>1. reply[c] # None /\ filed[c].result = Result(reply[c].kind, reply[c].ticket)
      BY <2>1, <2>2 DEF GateInv
    <3>. QED
      BY <3>1 DEF Result
  <2>. QED
    BY <2>1, <2>2 DEF ToldInv, TaskInv, GateInv, TasksTellTheTruth
<1>. QED
  BY <1>1, Invariance, PTL

\* A task is shown to the service that sent its message and to no other.
THEOREM TasksAreShownToTheirOwner == Spec => []TasksPrivate
<1>1. IInv => TasksPrivate
  BY DEF IInv, CallInv, TaskInv, GateInv, TasksPrivate
<1>. QED
  BY <1>1, Invariance, PTL

-----------------------------------------------------------------------------
(* Refinement of TicketPromise.                                            *)

\* Nobody is answered but the caller of c, and he is not if he was before.
Says(c) == \/ UNCHANGED reply
           \/ reply[c] = None /\ \E x : reply' = Set(reply, c, x)

\* What c may do to the replies and to the tickets.
Shape(c) ==
  /\ UNCHANGED <<deploy, query>> /\ Says(c)
  /\ \/ UNCHANGED tickets
     \/ /\ SameKey(c) = {} /\ tickets' = tickets \cup {Ticket(c)} /\ Live(c)

LEMMA AnsweringSays ==
  ASSUME IInv, NEW c \in Calls
  PROVE  /\ \A answer : Answered(c, answer) => Says(c)
         /\ Failed(c) => Says(c)
         /\ \A result : Conclude(c, result) => Says(c)
         /\ \A result : Return(c, result) => Says(c)
         /\ \A result : ThreadEnds(c, result) => Says(c)
<1>1. client[c] = "waiting" => reply[c] = None
  BY DEF IInv, TypeOK
<1>2. \A answer : Answered(c, answer) => Says(c)
  BY <1>1 DEF Answered, Says
<1>3. Failed(c) => Says(c)
  BY <1>2 DEF Failed, Says
<1>4. \A result : Conclude(c, result) => Says(c)
  BY <1>2 DEF Conclude, Says
<1>5. \A result : Return(c, result) => Says(c)
  BY <1>4 DEF Return, Says
<1>6. \A result : ThreadEnds(c, result) => Says(c)
  BY <1>5 DEF ThreadEnds, Says
<1>. QED
  BY <1>2, <1>3, <1>4, <1>5, <1>6

LEMMA StepHasShape ==
  ASSUME IInv, NEW c \in Calls,
         \/ Step(c) \/ Lose(c) \/ TimeOut(c) \/ GiveUp(c) \/ SaveFails(c)
         \/ FileFails(c) \/ Expire(c)
         \/ \E token \in Readers : ReadTask(c, token)
  PROVE  Shape(c)
<1>1. CASE \/ Ask(c) \/ Receive(c) \/ Lose(c) \/ TimeOut(c) \/ SaveFails(c)
           \/ File(c) \/ FileFails(c) \/ Expire(c)
           \/ \E token \in Readers : ReadTask(c, token)
  BY <1>1, AnsweringSays
     DEF Ask, Receive, Lose, TimeOut, SaveFails, File, FileFails, Expire, ReadTask,
         Same, Shape, Says
<1>2. CASE Execute(c) \/ Look(c) \/ Forbid(c) \/ StartWriting(c) \/ ToolFails(c) \/ GiveUp(c)
  BY <1>2, AnsweringSays
     DEF Execute, Look, Forbid, StartWriting, ToolFails, GiveUp, Same, Shape, Says
<1>3. CASE Save(c)
  BY <1>3, AnsweringSays DEF Save, Same, Shape
<1>4. CASE Lookup(c)
  BY <1>4, AnsweringSays DEF Lookup, Same, Shape, Says
<1>5. CASE Insert(c)
  BY <1>5, AnsweringSays DEF Insert, Same, Shape, Says, Live
<1>6. CASE CreateInMemory(c)
  <2>1. PICK t \in IF SameKey(c) = {} THEN {Ticket(c)} ELSE SameKey(c) :
          tickets' = tickets \cup {t} /\ Return(c, Result("made", t.id))
    BY <1>6 DEF CreateInMemory
  <2>2. Says(c) /\ Live(c) /\ UNCHANGED <<deploy, query>>
    BY <1>6, <2>1, AnsweringSays DEF CreateInMemory, Live, Same
  <2>3. CASE SameKey(c) = {}
    BY <2>1, <2>2, <2>3 DEF Shape
  <2>4. CASE SameKey(c) # {}
    BY <2>1, <2>2, <2>4 DEF Shape, SameKey
  <2>. QED
    BY <2>3, <2>4
<1>. QED
  BY <1>1, <1>2, <1>3, <1>4, <1>5, <1>6 DEF Step

\* What a call was told of, where it was told of something, is the ticket of
\* its key.
LEMMA ToldOfKey ==
  ASSUME IInv, NEW c \in Calls, ToldBar[c] # None
  PROVE  /\ reply[c] # None /\ ToldBar[c] = reply[c].ticket
         /\ \E t \in tickets : /\ t.user = query[c].user /\ t.key = Key(c)
                               /\ t.id = ToldBar[c]
<1>1. /\ reply[c] # None /\ query[c].ask = "apply" /\ ToldBar[c] = reply[c].ticket
  BY DEF ToldBar
<1>2. OfKey(c, reply[c].ticket)
  BY <1>1 DEF IInv, CallInv, ToldInv
<1>. QED
  BY <1>1, <1>2 DEF OfKey, SameKey

\* A step of one call is a step of the promise, or none.
LEMMA ShapeImplements ==
  ASSUME IInv, IInv', NEW c \in Calls, Shape(c)
  PROVE  [Promise!Next]_(Promise!vars)
<1>1. AskedBar[c].user = query[c].user /\ AskedBar[c].key = Key(c)
  BY DEF AskedBar, AskedKey, Key
<1>2. UNCHANGED AskedBar
  BY QuestionsStay DEF Shape, AskedBar, AskedKey
<1>3. /\ \A d \in Calls \ {c} : ToldBar'[d] = ToldBar[d]
      /\ ToldBar'[c] = ToldBar[c] \/ ToldBar[c] = None
  <2>1. /\ query' = query /\ \A d \in Calls \ {c} : reply'[d] = reply[d]
        /\ reply'[c] = reply[c] \/ reply[c] = None
    BY DEF Shape, Says, Set, IInv, TypeOK
  <2>. QED
    BY <2>1 DEF ToldBar
<1>4. /\ ToldBar = [d \in Calls |-> ToldBar[d]]
      /\ ToldBar' = [d \in Calls |-> ToldBar'[d]]
  BY DEF ToldBar
<1>5. ToldBar' = [ToldBar EXCEPT ![c] = ToldBar'[c]]
  BY <1>3, <1>4
<1>6. ToldBar'[c] = ToldBar[c] => UNCHANGED ToldBar
  BY <1>3, <1>4
<1>7. ToldBar'[c] # None =>
        \E t \in tickets' : /\ t.user = query[c].user /\ t.key = Key(c)
                            /\ t.id = ToldBar'[c]
  <2>1. SUFFICES ASSUME ToldBar'[c] # None
                 PROVE  \E t \in tickets' : /\ t.user = query[c].user /\ t.key = Key(c)
                                            /\ t.id = ToldBar'[c]
    OBVIOUS
  <2>2. reply'[c] # None /\ query'[c].ask = "apply" /\ ToldBar'[c] = reply'[c].ticket
    BY <2>1 DEF ToldBar
  <2>3. OfKey(c, reply[c].ticket)'
    BY <2>1, <2>2 DEF IInv, CallInv, ToldInv
  <2>. QED
    BY <2>2, <2>3, QuestionsStay DEF OfKey, SameKey, Shape
<1>8. CASE UNCHANGED tickets
  <2>1. UNCHANGED MadeBar
    BY <1>8 DEF MadeBar
  <2>2. CASE ToldBar'[c] = ToldBar[c]
    BY <1>2, <1>6, <2>1, <2>2 DEF Promise!vars
  <2>3. CASE ToldBar'[c] # ToldBar[c]
    <3>1. ToldBar[c] = None /\ ToldBar'[c] # None
      BY <1>3, <2>3
    <3>2. PICK t \in tickets : /\ t.user = query[c].user /\ t.key = Key(c)
                               /\ t.id = ToldBar'[c]
      BY <1>7, <1>8, <3>1
    <3>. DEFINE m == [id |-> t.id, user |-> t.user, key |-> t.key]
    <3>3. m \in MadeBar /\ m.id = t.id /\ m.user = t.user /\ m.key = t.key
      BY DEF MadeBar
    <3>. HIDE DEF m
    <3>4. Promise!Tell(c)
      BY <1>1, <1>2, <1>5, <2>1, <3>1, <3>2, <3>3 DEF Promise!Tell
    <3>. QED
      BY <3>4 DEF Promise!Next
  <2>. QED
    BY <2>2, <2>3
<1>9. CASE SameKey(c) = {} /\ tickets' = tickets \cup {Ticket(c)} /\ Live(c)
  <2>1. ToldBar[c] = None
    BY <1>9 DEF IInv, CallInv, ToldInv, ToldBar
  <2>2. \A m \in MadeBar : m.user # AskedBar[c].user \/ m.key # AskedBar[c].key
    BY <1>1, <1>9 DEF MadeBar, SameKey
  <2>3. /\ Ticket(c).id = c /\ Ticket(c).user = query[c].user /\ Ticket(c).key = Key(c)
    BY DEF Ticket
  <2>4. MadeBar' = MadeBar \cup
                   {[id |-> c, user |-> AskedBar[c].user, key |-> AskedBar[c].key]}
    <3>. HIDE DEF Ticket
    <3>. QED
      BY <1>1, <1>9, <2>3 DEF MadeBar
  <2>5. ToldBar'[c] \in {None, c}
    <3>1. SUFFICES ASSUME ToldBar'[c] # None PROVE ToldBar'[c] = c
      OBVIOUS
    <3>2. PICK t \in tickets' : /\ t.user = query[c].user /\ t.key = Key(c)
                                /\ t.id = ToldBar'[c]
      BY <1>7, <3>1
    <3>3. t = Ticket(c)
      BY <1>9, <3>2 DEF SameKey
    <3>. QED
      BY <2>3, <3>2, <3>3
  <2>6. ToldBar' \in {ToldBar, [ToldBar EXCEPT ![c] = c]}
    BY <1>5, <1>6, <2>1, <2>5
  <2>7. Promise!Make(c)
    BY <1>2, <2>1, <2>2, <2>4, <2>6 DEF Promise!Make
  <2>. QED
    BY <2>7 DEF Promise!Next
<1>. QED
  BY <1>8, <1>9 DEF Shape

\* Through lost answers, cancelled tools whose threads go on, restarts and
\* racing retries, a user's key has one ticket, and every call with that key
\* that is told of a ticket is told of that one.
THEOREM OneTicket == Spec => OneTicketPerKey
<1>1. Init => Promise!Init
  BY DEF Init, Promise!Init, MadeBar, ToldBar
<1>2. IInv /\ IInv' /\ [Next]_vars => [Promise!Next]_(Promise!vars)
  <2>. SUFFICES ASSUME IInv, IInv', [Next]_vars PROVE [Promise!Next]_(Promise!vars)
    OBVIOUS
  <2>1. CASE \E c \in Calls :
               \/ Step(c) \/ Lose(c) \/ TimeOut(c) \/ GiveUp(c) \/ SaveFails(c)
               \/ FileFails(c) \/ Expire(c)
               \/ \E token \in Readers : ReadTask(c, token)
    BY <2>1, StepHasShape, ShapeImplements
  <2>2. CASE UNCHANGED <<deploy, query, reply, tickets>>
    <3>1. UNCHANGED <<AskedBar, MadeBar, ToldBar>>
      BY <2>2, QuestionsStay DEF AskedBar, AskedKey, MadeBar, ToldBar
    <3>. QED
      BY <3>1 DEF Promise!vars
  <2>. QED
    BY <2>1, <2>2 DEF Next, Restart, vars
<1>. QED
  BY <1>1, <1>2, Invariance, PTL DEF Spec, OneTicketPerKey, Promise!Spec

=============================================================================
