---------------------------- MODULE SessionTurns ----------------------------
(***************************************************************************)
(* ShopAgentOrchestrator.handle: concurrent chat turns of one session, and *)
(* the memory stores they lock, read and write.  Store keys are scoped by  *)
(* user and session, so one session stands for each of them.               *)
(*                                                                         *)
(* The backend "memory" is InMemoryTTLStore: one process, an asyncio lock. *)
(* The backend "redis" is RedisMemoryStore: a lease that runs out after 60 *)
(* seconds, which a pod that died leaves behind, and which a waiting turn  *)
(* gives up on after 10 seconds.                                           *)
(*                                                                         *)
(* Planning and the agents change nothing of the session before line 175:  *)
(* they are the step Execute, seen through the number of tasks of the plan.*)
(***************************************************************************)
EXTENDS Naturals, Sequences, FiniteSets

CONSTANTS Turns,        \* chat requests for the session
          Window,       \* session_max_messages
          MaxPlan,      \* max_plan_tasks
          MaxIntents,   \* max_length of SessionContext.last_intents
          Backends,     \* the backends considered: "memory", "redis"
          Faults,       \* "error" a store call raises or the turn is cancelled,
                        \* "crash" the pod dies, "slow" a turn outlives its lease
          None          \* no turn

ASSUME TurnsAssumption ==
  /\ None \notin Turns
  /\ Window \in Nat \ {0} /\ MaxPlan \in Nat \ {0} /\ MaxIntents \in Nat \ {0}
  /\ Backends \subseteq {"memory", "redis"}

VARIABLES backend,        \* SHOPAGENT_MEMORY_BACKEND, fixed at startup
          lock,           \* the turn that holds the session lock, or None
          stored,         \* the stored SessionMemory
          interactions,   \* the turns recorded in the operations store
          pc,             \* pc[t]: where turn t is
          memory,         \* memory[t]: the copy turn t works on
          history,        \* history: all messages saved since a turn last
                          \* found the session empty
          late            \* history: turns whose lease ran out

vars == <<backend, lock, stored, interactions, pc, memory, history, late>>

-----------------------------------------------------------------------------
Message == [turn : Turns, role : {"user", "assistant"}]

\* last_intents is seen through its length.
SessionMemory == [messages : Seq(Message), intents : 0..MaxPlan]

Empty == [messages |-> << >>, intents |-> 0]

\* Between acquiring the lock and having released it.
Body == {"get", "execute", "save", "record", "release", "unwind"}

Ended == {"returned", "busy", "failed", "broken"}

Init == /\ backend \in Backends
        /\ lock = None
        /\ stored = Empty
        /\ interactions = {}
        /\ pc = [t \in Turns |-> "idle"]
        /\ memory = [t \in Turns |-> Empty]
        /\ history = << >>
        /\ late = {}

At(t, label) == pc[t] = label

Goto(t, label) == pc' = [pc EXCEPT ![t] = label]

\* The local copy, once the turn has no more use for it.
Dropped(t) == [memory EXCEPT ![t] = Empty]

-----------------------------------------------------------------------------
(* The lock.                                                               *)

Handle(t) ==
  /\ At(t, "idle")
  /\ Goto(t, "acquire")
  /\ UNCHANGED <<backend, lock, stored, interactions, memory, history, late>>

Bug_Free == TRUE

Free == lock = None

Acquire(t) ==
  /\ At(t, "acquire")
  /\ Free
  /\ lock' = t
  /\ Goto(t, "get")
  /\ UNCHANGED <<backend, stored, interactions, memory, history, late>>

\* blocking_timeout: "session is busy; retry the request".
Busy(t) ==
  /\ backend = "redis"
  /\ At(t, "acquire")
  /\ ~Free
  /\ Goto(t, "busy")
  /\ UNCHANGED <<backend, lock, stored, interactions, memory, history, late>>

\* The lease of a dead holder runs out, or of a live one that is slow.
Expires == "slow" \in Faults \/ pc[lock] \notin Body

ExpireLease ==
  /\ backend = "redis"
  /\ lock # None
  /\ Expires
  /\ lock' = None
  /\ late' = IF pc[lock] \in Body THEN late \cup {lock} ELSE late
  /\ UNCHANGED <<backend, stored, interactions, pc, memory, history>>

Bug_AfterRelease(t) == None

\* Redis deletes a lease only for the token that took it: release of a lost
\* lease raises, and the lock stays with whoever has it now.
AfterRelease(t) == IF lock = t THEN None ELSE lock

\* The finally of lock(), after the body returned or raised.
Release(t) ==
  /\ pc[t] \in {"release", "unwind"}
  /\ lock' = AfterRelease(t)
  /\ Goto(t, IF lock = t /\ At(t, "release") THEN "returned" ELSE "failed")
  /\ UNCHANGED <<backend, stored, interactions, memory, history, late>>

-----------------------------------------------------------------------------
(* The body, lines 102 to 222.                                             *)

\* A body that raises unwinds through the finally of lock().
Bug_OnError == "failed"

OnError == "unwind"

\* RedisMemoryStore.get validates what it read; the in-memory store does not.
Readable == backend = "memory" \/ stored.intents <= MaxIntents

Get(t) ==
  /\ At(t, "get")
  /\ \/ /\ Readable
        /\ memory' = [memory EXCEPT ![t] = stored]
        /\ history' = IF stored = Empty THEN << >> ELSE history
        /\ Goto(t, "execute")
     \/ ~Readable /\ Goto(t, OnError) /\ UNCHANGED <<memory, history>>
  /\ UNCHANGED <<backend, lock, stored, interactions, late>>

Said(t) == <<[turn |-> t, role |-> "user"], [turn |-> t, role |-> "assistant"]>>

\* memory.messages[-session_max_messages :]
Recent(messages) ==
  IF Len(messages) <= Window THEN messages
  ELSE SubSeq(messages, Len(messages) - Window + 1, Len(messages))

Bug_Execute(t) ==
  /\ At(t, "execute")
  /\ memory' = [memory EXCEPT ![t] =
       [messages |-> Recent(@.messages \o Said(t)), intents |-> @.intents + MaxPlan]]
  /\ Goto(t, "save")
  /\ UNCHANGED <<backend, lock, stored, interactions, history, late>>

Execute(t) ==
  /\ At(t, "execute")
  /\ \E n \in 1..MaxPlan :
       memory' = [memory EXCEPT ![t] =
         [messages |-> Recent(@.messages \o Said(t)), intents |-> n]]
  /\ Goto(t, "save")
  /\ UNCHANGED <<backend, lock, stored, interactions, history, late>>

Save(t) ==
  /\ At(t, "save")
  /\ stored' = memory[t]
  /\ history' = history \o Said(t)
  /\ memory' = Dropped(t)
  /\ Goto(t, "record")
  /\ UNCHANGED <<backend, lock, interactions, late>>

RecordInteraction(t) ==
  /\ At(t, "record")
  /\ interactions' = interactions \cup {t}
  /\ Goto(t, "release")
  /\ UNCHANGED <<backend, lock, stored, memory, history, late>>

\* A store call of the body raises, or the turn is cancelled: the lock is
\* released on the way out.  Or a turn is cancelled that waits for the lock.
\* A write that was applied before its error is the write followed by this.
Error(t) ==
  /\ "error" \in Faults
  /\ \/ pc[t] \in {"get", "execute", "save", "record"} /\ Goto(t, OnError)
     \/ At(t, "acquire") /\ Goto(t, "failed")
  /\ memory' = Dropped(t)
  /\ UNCHANGED <<backend, lock, stored, interactions, history, late>>

\* The pod dies.  In-memory state dies with its only process, so this is a
\* behaviour of the Redis backend.
Crash(t) ==
  /\ "crash" \in Faults /\ backend = "redis"
  /\ pc[t] \in Body \cup {"acquire"}
  /\ Goto(t, "broken")
  /\ memory' = Dropped(t)
  /\ UNCHANGED <<backend, lock, stored, interactions, history, late>>

\* DELETE /api/v1/memory/{session_id}, which takes no lock, or the end of the
\* time to live.
Clear ==
  /\ stored # Empty
  /\ stored' = Empty
  /\ UNCHANGED <<backend, lock, interactions, pc, memory, history, late>>

-----------------------------------------------------------------------------
Step(t) == \/ Acquire(t) \/ Busy(t) \/ Get(t) \/ Execute(t) \/ Save(t)
           \/ RecordInteraction(t) \/ Release(t)

Next == \/ Clear
        \/ ExpireLease
        \/ \E t \in Turns : Handle(t) \/ Step(t) \/ Error(t) \/ Crash(t)

Spec == Init /\ [][Next]_vars

\* The event loop resumes every turn; asyncio.Lock wakes its waiters in order;
\* Redis expires leases.
FairSpec == /\ Spec
            /\ WF_vars(ExpireLease)
            /\ \A t \in Turns :
                 WF_vars(Step(t)) /\ SF_vars(backend = "memory" /\ Acquire(t))

-----------------------------------------------------------------------------
(* Properties.                                                             *)

TypeOK ==
  /\ backend \in Backends
  /\ lock \in Turns \cup {None}
  /\ stored \in SessionMemory
  /\ interactions \subseteq Turns
  /\ pc \in [Turns -> {"idle", "acquire"} \cup Body \cup Ended]
  /\ memory \in [Turns -> SessionMemory]
  /\ history \in Seq(Message)
  /\ late \subseteq Turns

\* README.md:88, redis_store.py:28: concurrent turns never overwrite each other,
\* however long they take.
NoLostTurn == stored # Empty => stored.messages = Recent(history)

\* As long as every turn ends within its lease, that holds: a stored session is
\* the window of every message saved since the session was last found empty, in
\* order, whatever was cleared, failed or crashed in between.
HistoryKept == late = {} => NoLostTurn

\* Losing a lease harms nobody else's: every turn at work whose own lease has
\* not run out holds the lock, also while turns that lost theirs end and
\* release what they no longer hold.
LeaseHeld == \A t \in Turns \ late : pc[t] \in Body => lock = t

\* README.md:68: a question is split into 5 tasks at most.  No turn leaves a
\* session behind that a later turn cannot read.
SessionReadable == \A t \in Turns : At(t, "get") => Readable

\* No turn waits for ever, and no lock is left behind: when no more turns
\* arrive, whatever failed or died, all have ended and the lock is free.
TurnsEnd == <>[](lock = None /\ \A t \in Turns : pc[t] \in {"idle"} \cup Ended)

=============================================================================
