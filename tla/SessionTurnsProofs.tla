------------------------- MODULE SessionTurnsProofs -------------------------
(***************************************************************************)
(* Proofs about SessionTurns, for every set of turns, every window, plan   *)
(* size and combination of backends and faults.                            *)
(***************************************************************************)
EXTENDS SessionTurns, SequenceTheorems, TLAPS

-----------------------------------------------------------------------------
(* The inductive invariant.                                                *)

\* What the turn at work carries from the session to its save.
WorkInv(t) ==
  /\ At(t, "execute") => memory[t].messages = Recent(history)
  /\ At(t, "save") => memory[t].messages = Recent(history \o Said(t))

IInv == /\ TypeOK
        /\ LeaseHeld
        /\ HistoryKept
        /\ late = {} => \A t \in Turns : WorkInv(t)

-----------------------------------------------------------------------------
(* The window of a session's messages.                                     *)

\* The last messages of a conversation: as many as the window holds.
LEMMA RecentProperties ==
  ASSUME NEW s \in Seq(Message)
  PROVE  /\ Recent(s) \in Seq(Message)
         /\ Len(Recent(s)) = IF Len(s) <= Window THEN Len(s) ELSE Window
         /\ \A i \in 1..Len(Recent(s)) :
              Recent(s)[i] = s[Len(s) - Len(Recent(s)) + i]
<1>1. Len(s) \in Nat /\ Window \in Nat \ {0}
  BY TurnsAssumption, LenProperties
<1>2. CASE Len(s) <= Window
  BY <1>1, <1>2 DEF Recent
<1>3. CASE Len(s) > Window
  <2>. DEFINE m == Len(s) - Window + 1
  <2>1. Recent(s) = SubSeq(s, m, Len(s))
    BY <1>1, <1>3 DEF Recent
  <2>2. m \in Int /\ Len(s) \in Int /\ \A i \in m..Len(s) : s[i] \in Message
    BY <1>1, <1>3, ElementOfSeq
  <2>3. /\ Recent(s) \in Seq(Message)
        /\ Len(Recent(s)) = IF m <= Len(s) THEN Len(s) - m + 1 ELSE 0
        /\ \A i \in 1..(Len(s) - m + 1) : Recent(s)[i] = s[m + i - 1]
    BY <2>1, <2>2, SubSeqProperties
  <2>4. /\ m <= Len(s) /\ Len(s) - m + 1 = Window
        /\ \A i \in 1..Window : m + i - 1 = Len(s) - Window + i
    BY <1>1, <1>3
  <2>. HIDE DEF m
  <2>5. /\ Len(Recent(s)) = Window
        /\ \A i \in 1..Window : Recent(s)[i] = s[Len(s) - Window + i]
    BY <2>3, <2>4
  <2>. QED
    BY <1>1, <1>3, <2>3, <2>5
<1>. QED
  BY <1>1, <1>2, <1>3

\* What a turn adds to the window of a conversation has the same window as what
\* it adds to the whole conversation: cutting at every save loses nothing that
\* one cut at the end would keep.
LEMMA RecentOfRecent ==
  ASSUME NEW a \in Seq(Message), NEW b \in Seq(Message)
  PROVE  Recent(Recent(a) \o b) = Recent(a \o b)
<1>. DEFINE r == Recent(a)
            rb == r \o b
            ab == a \o b
            x == Recent(rb)
            y == Recent(ab)
<1>1. /\ Len(a) \in Nat /\ Len(b) \in Nat /\ Window \in Nat \ {0}
  BY TurnsAssumption, LenProperties
<1>2. /\ r \in Seq(Message)
      /\ Len(r) = IF Len(a) <= Window THEN Len(a) ELSE Window
      /\ \A i \in 1..Len(r) : r[i] = a[Len(a) - Len(r) + i]
  BY RecentProperties
<1>. HIDE DEF r
<1>3. /\ rb \in Seq(Message) /\ Len(rb) = Len(r) + Len(b)
      /\ \A i \in 1..(Len(r) + Len(b)) :
           rb[i] = IF i <= Len(r) THEN r[i] ELSE b[i - Len(r)]
  BY <1>2, ConcatProperties
<1>4. /\ ab \in Seq(Message) /\ Len(ab) = Len(a) + Len(b)
      /\ \A i \in 1..(Len(a) + Len(b)) :
           ab[i] = IF i <= Len(a) THEN a[i] ELSE b[i - Len(a)]
  BY ConcatProperties
<1>. HIDE DEF rb, ab
<1>5. /\ x \in Seq(Message)
      /\ Len(x) = IF Len(rb) <= Window THEN Len(rb) ELSE Window
      /\ \A i \in 1..Len(x) : x[i] = rb[Len(rb) - Len(x) + i]
  BY <1>3, RecentProperties
<1>6. /\ y \in Seq(Message)
      /\ Len(y) = IF Len(ab) <= Window THEN Len(ab) ELSE Window
      /\ \A i \in 1..Len(y) : y[i] = ab[Len(ab) - Len(y) + i]
  BY <1>4, RecentProperties
<1>. HIDE DEF x, y
<1>7. /\ Len(x) = Len(y) /\ Len(x) \in Nat /\ Len(r) \in Nat
      /\ Len(x) <= Len(rb) /\ Len(rb) = Len(r) + Len(b)
      /\ Len(y) <= Len(ab) /\ Len(ab) = Len(a) + Len(b)
  BY <1>1, <1>2, <1>3, <1>4, <1>5, <1>6
<1>8. ASSUME NEW i \in 1..Len(x) PROVE x[i] = y[i]
  <2>. DEFINE j == Len(rb) - Len(x) + i
              k == Len(ab) - Len(y) + i
  <2>1. /\ j \in 1..(Len(r) + Len(b)) /\ k \in 1..(Len(a) + Len(b))
        /\ j - Len(r) = k - Len(a)
    BY <1>1, <1>7
  <2>2. x[i] = rb[j] /\ y[i] = ab[k]
    BY <1>5, <1>6, <1>7
  <2>. HIDE DEF j, k
  <2>3. CASE j <= Len(r)
    <3>1. Len(a) - Len(r) + j = k /\ k <= Len(a) /\ j \in 1..Len(r)
      BY <1>1, <1>2, <2>1, <2>3
    <3>2. rb[j] = a[Len(a) - Len(r) + j]
      BY <1>2, <1>3, <2>1, <2>3, <3>1
    <3>3. ab[k] = a[k]
      BY <1>4, <2>1, <3>1
    <3>. QED
      BY <2>2, <3>1, <3>2, <3>3
  <2>4. CASE j > Len(r)
    <3>1. ~(j <= Len(r)) /\ ~(k <= Len(a))
      BY <1>1, <1>2, <2>1, <2>4
    <3>2. rb[j] = b[j - Len(r)] /\ ab[k] = b[k - Len(a)]
      BY <1>3, <1>4, <2>1, <3>1
    <3>. QED
      BY <2>1, <2>2, <3>2
  <2>. QED
    BY <1>1, <1>2, <2>1, <2>3, <2>4
<1>9. x = y
  BY <1>5, <1>6, <1>7, <1>8, SeqEqual
<1>. QED
  BY <1>9 DEF x, y, rb, ab, r

\* An empty session is its own window.
LEMMA RecentOfEmpty == Recent(<< >>) = << >>
  BY TurnsAssumption DEF Recent

LEMMA SaidType ==
  ASSUME NEW t \in Turns
  PROVE  Said(t) \in Seq(Message)
  BY DEF Said, Message

-----------------------------------------------------------------------------
(* The lease.                                                              *)

\* As long as nobody has lost a lease, at most one turn is at work.
LEMMA OneAtWork ==
  ASSUME LeaseHeld, late = {}, NEW t \in Turns, pc[t] \in Body
  PROVE  lock = t /\ \A u \in Turns \ {t} : pc[u] \notin Body
  BY DEF LeaseHeld

\* A step of turn t that neither takes nor gives back the lock, nor adds to the
\* turns whose lease ran out.
WorkStep(t) ==
  /\ pc[t] \in Body
  /\ UNCHANGED <<backend, lock, late>>
  /\ \A u \in Turns \ {t} : pc'[u] = pc[u] /\ memory'[u] = memory[u]

LEMMA WorkKeepsLease ==
  ASSUME TypeOK, LeaseHeld, NEW t \in Turns, WorkStep(t)
  PROVE  LeaseHeld'
<1>. SUFFICES ASSUME NEW u \in Turns \ late, pc'[u] \in Body
              PROVE  lock = u
  BY DEF WorkStep, LeaseHeld
<1>1. pc[u] \in Body
  BY DEF WorkStep
<1>. QED
  BY <1>1 DEF LeaseHeld

\* The others are not at work in a step of t, so they keep what they carry.
LEMMA WorkKeepsOthers ==
  ASSUME TypeOK, LeaseHeld, late = {}, NEW t \in Turns, WorkStep(t)
  PROVE  \A u \in Turns \ {t} : WorkInv(u)'
<1>. SUFFICES ASSUME NEW u \in Turns \ {t} PROVE WorkInv(u)'
  OBVIOUS
<1>1. pc'[u] \notin {"execute", "save"}
  BY OneAtWork DEF WorkStep, Body
<1>. QED
  BY <1>1 DEF WorkInv, At

-----------------------------------------------------------------------------
(* The invariant holds at the start and is kept by every action.           *)

LEMMA InitHolds == Init => IInv
<1>. SUFFICES ASSUME Init PROVE IInv
  OBVIOUS
<1>1. Empty \in SessionMemory
  BY TurnsAssumption DEF Empty, SessionMemory
<1>2. TypeOK
  BY <1>1 DEF Init, TypeOK
<1>3. LeaseHeld /\ HistoryKept /\ \A t \in Turns : WorkInv(t)
  BY DEF Init, LeaseHeld, HistoryKept, NoLostTurn, WorkInv, At, Body
<1>. QED
  BY <1>2, <1>3 DEF IInv

\* Steps that move a turn to a label outside of the body, from outside of it or
\* by its end, and touch neither the session nor a lease of anybody else.
LEMMA OutsideStep ==
  ASSUME IInv, NEW t \in Turns, NEW label \in {"acquire"} \cup Ended, Goto(t, label),
         UNCHANGED <<backend, stored, interactions, history, late>>,
         memory' = memory \/ memory' = Dropped(t),
         lock' = lock \/ lock' = AfterRelease(t)
  PROVE  IInv'
<1>. USE DEF IInv
<1>1. pc'[t] = label /\ \A u \in Turns \ {t} : pc'[u] = pc[u] /\ memory'[u] = memory[u]
  BY DEF TypeOK, Goto, Dropped
<1>2. label \notin Body
  BY DEF Body, Ended
<1>3. TypeOK'
  <2>1. Empty \in SessionMemory
    BY TurnsAssumption DEF Empty, SessionMemory
  <2>2. memory' \in [Turns -> SessionMemory]
    BY <2>1 DEF TypeOK, Dropped
  <2>3. pc' \in [Turns -> {"idle", "acquire"} \cup Body \cup Ended]
    BY DEF TypeOK, Goto
  <2>4. lock' \in Turns \cup {None}
    BY DEF TypeOK, AfterRelease
  <2>. QED
    BY <2>2, <2>3, <2>4 DEF TypeOK
<1>4. LeaseHeld'
  <2>. SUFFICES ASSUME NEW u \in Turns \ late, pc'[u] \in Body
                PROVE  lock' = u
    BY DEF LeaseHeld
  <2>1. u # t /\ pc[u] \in Body
    BY <1>1, <1>2
  <2>2. lock = u
    BY <2>1 DEF LeaseHeld
  <2>. QED
    BY <2>1, <2>2 DEF AfterRelease
<1>5. HistoryKept'
  BY DEF HistoryKept, NoLostTurn
<1>6. ASSUME late = {}, NEW u \in Turns PROVE WorkInv(u)'
  <2>1. CASE u = t
    BY <1>1, <1>2, <2>1 DEF WorkInv, At, Body
  <2>2. CASE u # t
    BY <1>1, <1>6, <2>2 DEF WorkInv, At
  <2>. QED
    BY <2>1, <2>2
<1>. QED
  BY <1>3, <1>4, <1>5, <1>6

\* A free lock is taken when nobody with a lease is at work.
LEMMA AcquireStep ==
  ASSUME IInv, NEW t \in Turns, Acquire(t)
  PROVE  IInv'
<1>. USE DEF IInv
<1>1. /\ lock = None /\ lock' = t /\ Goto(t, "get")
      /\ UNCHANGED <<backend, stored, interactions, memory, history, late>>
  BY DEF Acquire, Free
<1>2. pc'[t] = "get" /\ \A u \in Turns \ {t} : pc'[u] = pc[u]
  BY <1>1 DEF TypeOK, Goto
<1>3. TypeOK'
  BY <1>1 DEF TypeOK, Goto, Body
<1>4. \A u \in Turns \ late : pc[u] \notin Body
  BY <1>1, TurnsAssumption DEF LeaseHeld
<1>5. LeaseHeld'
  BY <1>1, <1>2, <1>4 DEF LeaseHeld
<1>6. HistoryKept'
  BY <1>1 DEF HistoryKept, NoLostTurn
<1>7. late = {} => \A u \in Turns : WorkInv(u)'
  BY <1>1, <1>2 DEF WorkInv, At
<1>. QED
  BY <1>1, <1>3, <1>5, <1>6, <1>7

\* Whoever loses a lease at work is late from then on.
LEMMA ExpireStep ==
  ASSUME IInv, ExpireLease
  PROVE  IInv'
<1>. USE DEF IInv
<1>1. /\ lock # None /\ lock' = None
      /\ late' = IF pc[lock] \in Body THEN late \cup {lock} ELSE late
      /\ UNCHANGED <<backend, stored, interactions, pc, memory, history>>
  BY DEF ExpireLease
<1>2. TypeOK'
  BY <1>1 DEF TypeOK
<1>3. \A u \in Turns \ late' : pc[u] \notin Body
  BY <1>1 DEF LeaseHeld
<1>4. LeaseHeld'
  BY <1>1, <1>3 DEF LeaseHeld
<1>5. late' = {} => late = {}
  BY <1>1
<1>6. HistoryKept'
  BY <1>1, <1>5 DEF HistoryKept, NoLostTurn
<1>7. late' = {} => \A u \in Turns : WorkInv(u)'
  BY <1>1, <1>5 DEF WorkInv, At
<1>. QED
  BY <1>2, <1>4, <1>6, <1>7

\* The session is deleted or runs out.
LEMMA ClearStep ==
  ASSUME IInv, Clear
  PROVE  IInv'
<1>. USE DEF IInv
<1>1. /\ stored' = Empty
      /\ UNCHANGED <<backend, lock, interactions, pc, memory, history, late>>
  BY DEF Clear
<1>2. TypeOK'
  BY <1>1, TurnsAssumption DEF TypeOK, Empty, SessionMemory
<1>3. LeaseHeld' /\ HistoryKept'
  BY <1>1 DEF LeaseHeld, HistoryKept, NoLostTurn
<1>4. late = {} => \A u \in Turns : WorkInv(u)'
  BY <1>1 DEF WorkInv, At
<1>. QED
  BY <1>1, <1>2, <1>3, <1>4

\* A body that reads the session reads the window of the history.
LEMMA GetStep ==
  ASSUME IInv, NEW t \in Turns, Get(t), Readable,
         memory' = [memory EXCEPT ![t] = stored],
         history' = IF stored = Empty THEN << >> ELSE history,
         Goto(t, "execute")
  PROVE  IInv'
<1>. USE DEF IInv
<1>1. At(t, "get") /\ UNCHANGED <<backend, lock, stored, interactions, late>>
  BY DEF Get
<1>2. /\ pc'[t] = "execute" /\ memory'[t] = stored
      /\ \A u \in Turns \ {t} : pc'[u] = pc[u] /\ memory'[u] = memory[u]
  BY DEF TypeOK, Goto
<1>3. TypeOK'
  BY <1>1 DEF TypeOK, Goto, Body
<1>4. WorkStep(t)
  BY <1>1, <1>2 DEF WorkStep, At, Body
<1>5. HistoryKept'
  BY <1>1 DEF HistoryKept, NoLostTurn
<1>6. ASSUME late = {} PROVE WorkInv(t)'
  <2>1. stored.messages = Recent(history')
    BY <1>6, RecentOfEmpty DEF HistoryKept, NoLostTurn, Empty
  <2>. QED
    BY <1>2, <2>1 DEF WorkInv, At
<1>. QED
  BY <1>1, <1>3, <1>4, <1>5, <1>6, WorkKeepsLease, WorkKeepsOthers DEF WorkStep

\* The turn adds what was said to its copy and cuts it to the window.
LEMMA ExecuteStep ==
  ASSUME IInv, NEW t \in Turns, Execute(t)
  PROVE  IInv'
<1>. USE DEF IInv
<1>1. PICK n \in 1..MaxPlan :
        memory' = [memory EXCEPT ![t] =
          [messages |-> Recent(memory[t].messages \o Said(t)), intents |-> n]]
  BY DEF Execute
<1>2. /\ At(t, "execute") /\ Goto(t, "save")
      /\ UNCHANGED <<backend, lock, stored, interactions, history, late>>
  BY DEF Execute
<1>3. /\ pc'[t] = "save"
      /\ memory'[t].messages = Recent(memory[t].messages \o Said(t))
      /\ \A u \in Turns \ {t} : pc'[u] = pc[u] /\ memory'[u] = memory[u]
  BY <1>1, <1>2 DEF TypeOK, Goto
<1>4. memory[t].messages \in Seq(Message) /\ history \in Seq(Message)
  BY DEF TypeOK, SessionMemory
<1>5. TypeOK'
  <2>1. memory[t].messages \o Said(t) \in Seq(Message)
    BY <1>4, SaidType, ConcatProperties
  <2>2. [messages |-> Recent(memory[t].messages \o Said(t)), intents |-> n]
          \in SessionMemory
    <3>1. Recent(memory[t].messages \o Said(t)) \in Seq(Message)
      BY <2>1, RecentProperties
    <3>2. n \in 0..MaxPlan
      BY TurnsAssumption
    <3>. QED
      BY <3>1, <3>2 DEF SessionMemory
  <2>3. memory' \in [Turns -> SessionMemory]
    BY <1>1, <2>2 DEF TypeOK
  <2>4. pc' \in [Turns -> {"idle", "acquire"} \cup Body \cup Ended]
    BY <1>2 DEF TypeOK, Goto, Body
  <2>. QED
    BY <1>2, <2>3, <2>4 DEF TypeOK
<1>6. WorkStep(t)
  BY <1>2, <1>3 DEF WorkStep, At, Body
<1>7. HistoryKept'
  BY <1>2 DEF HistoryKept, NoLostTurn
<1>8. ASSUME late = {} PROVE WorkInv(t)'
  <2>1. memory[t].messages = Recent(history)
    BY <1>2, <1>8 DEF WorkInv
  <2>2. memory'[t].messages = Recent(history \o Said(t))
    BY <1>3, <1>4, <2>1, SaidType, RecentOfRecent
  <2>. QED
    BY <1>2, <1>3, <2>2 DEF WorkInv, At, Said
<1>. QED
  BY <1>2, <1>5, <1>6, <1>7, <1>8, WorkKeepsLease, WorkKeepsOthers

\* The copy becomes the session.
LEMMA SaveStep ==
  ASSUME IInv, NEW t \in Turns, Save(t)
  PROVE  IInv'
<1>. USE DEF IInv
<1>1. /\ At(t, "save") /\ Goto(t, "record")
      /\ stored' = memory[t] /\ history' = history \o Said(t)
      /\ memory' = Dropped(t)
      /\ UNCHANGED <<backend, lock, interactions, late>>
  BY DEF Save
<1>2. /\ pc'[t] = "record"
      /\ \A u \in Turns \ {t} : pc'[u] = pc[u] /\ memory'[u] = memory[u]
  BY <1>1 DEF TypeOK, Goto, Dropped
<1>3. TypeOK'
  <2>1. Empty \in SessionMemory
    BY TurnsAssumption DEF Empty, SessionMemory
  <2>2. memory' \in [Turns -> SessionMemory]
    BY <1>1, <2>1 DEF TypeOK, Dropped
  <2>3. pc' \in [Turns -> {"idle", "acquire"} \cup Body \cup Ended]
    BY <1>1 DEF TypeOK, Goto, Body
  <2>4. history' \in Seq(Message)
    BY <1>1, SaidType, ConcatProperties DEF TypeOK
  <2>. QED
    BY <1>1, <2>2, <2>3, <2>4 DEF TypeOK
<1>4. WorkStep(t)
  BY <1>1, <1>2 DEF WorkStep, At, Body
<1>5. HistoryKept'
  BY <1>1 DEF HistoryKept, NoLostTurn, WorkInv
<1>6. WorkInv(t)'
  BY <1>2 DEF WorkInv, At
<1>. QED
  BY <1>1, <1>3, <1>4, <1>5, <1>6, WorkKeepsLease, WorkKeepsOthers

\* Steps of a body that leave the session alone and carry nothing on.
LEMMA PassStep ==
  ASSUME IInv, NEW t \in Turns, pc[t] \in Body,
         NEW label \in {"release", "unwind"}, Goto(t, label),
         interactions' \subseteq Turns,
         memory' = memory \/ memory' = Dropped(t),
         UNCHANGED <<backend, lock, stored, history, late>>
  PROVE  IInv'
<1>. USE DEF IInv
<1>1. pc'[t] = label /\ \A u \in Turns \ {t} : pc'[u] = pc[u] /\ memory'[u] = memory[u]
  BY DEF TypeOK, Goto, Dropped
<1>2. TypeOK'
  <2>1. Empty \in SessionMemory
    BY TurnsAssumption DEF Empty, SessionMemory
  <2>2. memory' \in [Turns -> SessionMemory]
    BY <2>1 DEF TypeOK, Dropped
  <2>3. pc' \in [Turns -> {"idle", "acquire"} \cup Body \cup Ended]
    BY DEF TypeOK, Goto, Body
  <2>. QED
    BY <2>2, <2>3 DEF TypeOK
<1>3. WorkStep(t)
  BY <1>1 DEF WorkStep
<1>4. HistoryKept'
  BY DEF HistoryKept, NoLostTurn
<1>5. WorkInv(t)'
  BY <1>1 DEF WorkInv, At
<1>. QED
  BY <1>2, <1>3, <1>4, <1>5, WorkKeepsLease, WorkKeepsOthers

LEMMA StepKeeps == IInv /\ [Next]_vars => IInv'
<1>. SUFFICES ASSUME IInv, [Next]_vars PROVE IInv'
  OBVIOUS
<1>1. CASE UNCHANGED vars
  BY <1>1 DEF vars, IInv, TypeOK, LeaseHeld, HistoryKept, NoLostTurn, WorkInv, At
<1>2. CASE Clear \/ ExpireLease
  BY <1>2, ClearStep, ExpireStep
<1>3. ASSUME NEW t \in Turns,
             Handle(t) \/ Busy(t) \/ Release(t) \/ Crash(t)
      PROVE  IInv'
  BY <1>3, OutsideStep DEF Handle, Busy, Release, Crash, Ended
<1>4. ASSUME NEW t \in Turns, Get(t) PROVE IInv'
  <2>1. CASE Readable /\ Goto(t, "execute")
    BY <1>4, <2>1, GetStep DEF Get
  <2>2. CASE ~Readable
    BY <1>4, <2>2, PassStep DEF Get, OnError, IInv, TypeOK, At, Body
  <2>. QED
    BY <1>4, <2>1, <2>2 DEF Get
<1>5. ASSUME NEW t \in Turns, RecordInteraction(t) PROVE IInv'
  BY <1>5, PassStep DEF RecordInteraction, IInv, TypeOK, At, Body
<1>6. ASSUME NEW t \in Turns, Error(t) PROVE IInv'
  <2>1. CASE pc[t] \in {"get", "execute", "save", "record"} /\ Goto(t, OnError)
    BY <1>6, <2>1, PassStep DEF Error, OnError, IInv, TypeOK, Body
  <2>2. CASE Goto(t, "failed")
    BY <1>6, <2>2, OutsideStep DEF Error, Ended
  <2>. QED
    BY <1>6, <2>1, <2>2 DEF Error
<1>. QED
  BY <1>1, <1>2, <1>3, <1>4, <1>5, <1>6, AcquireStep, ExecuteStep, SaveStep
  DEF Next, Step

\* The inductive invariant holds in every state the turns can reach.
THEOREM Invariance == Spec => []IInv
  BY InitHolds, StepKeeps, PTL DEF Spec

-----------------------------------------------------------------------------
(* The properties.                                                         *)

\* Session, lock and turns keep their types.
THEOREM TypeCorrect == Spec => []TypeOK
<1>1. IInv => TypeOK
  BY DEF IInv
<1>. QED
  BY <1>1, Invariance, PTL

\* Every turn at work whose own lease has not run out holds the lock.
THEOREM LeaseIsHeld == Spec => []LeaseHeld
<1>1. IInv => LeaseHeld
  BY DEF IInv
<1>. QED
  BY <1>1, Invariance, PTL

\* Without a lost lease a stored session is the window of everything saved
\* since it was last found empty, whatever was cleared, failed or crashed.
THEOREM HistoryIsKept == Spec => []HistoryKept
<1>1. IInv => HistoryKept
  BY DEF IInv
<1>. QED
  BY <1>1, Invariance, PTL

=============================================================================
