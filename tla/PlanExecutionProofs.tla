------------------------- MODULE PlanExecutionProofs -------------------------
(***************************************************************************)
(* Proofs about PlanExecution, for any number of requests and orders, any  *)
(* questions and model answers, and every bound on tasks and slots.        *)
(***************************************************************************)
EXTENDS PlanExecution, FiniteSetTheorems, SequenceTheorems, WellFoundedInduction, TLAPS

-----------------------------------------------------------------------------
(* The inductive invariant.                                                *)

Stages == {"idle", "waiting", "running", "done"}

\* A task that an agent was found for, whether or not it has its slot.
Given(r, i) ==
  \/ stage[r][i] \in {"waiting", "running"}
  \/ outcome[r][i] # None /\ outcome[r][i].agent # None

\* What the answer to the condition of task i was.
Condition(r, i, verdict) ==
  /\ plan[r][i].condition # None
  /\ stage[r][1] = "done"
  /\ ConditionMatches(plan[r][i].condition, outcome[r][1].data) = verdict

\* A plan is there from the split until a cancellation, and is what the
\* planner made: the condition, if any, is on the second of two tasks.
PlanInv(r) ==
  /\ question[r] \in AllQuestions
  /\ phase[r] \in {"new", "cancelled"} => plan[r] = << >>
  /\ phase[r] = "planned" => plan[r] # << >>
  /\ phase[r] = "answered" =>
       \A i \in DOMAIN plan[r] :
         stage[r][i] = "done" /\ (outcome[r][i].human => response[r].human)
  /\ \A i \in DOMAIN plan[r] :
       /\ plan[r][i].condition = IF i = 2 THEN question[r].condition ELSE None
       /\ plan[r][i].needs = IF plan[r][i].condition = None THEN {} ELSE {1}
       /\ plan[r][i].condition # None /\ plan[r][i].named = None
            /\ plan[r][1].result.byRule
          => Target(r, i) = Target(r, 1)

\* A task has its outcome when it is done; the outcome holds what the agent
\* read, or nothing; and no human is left out of an outcome without a reason.
TaskInv(r, i) ==
  /\ stage[r][i] = "done" <=> outcome[r][i] # None
  /\ stage[r][i] = "waiting" => IsMulti(r)
  /\ stage[r][i] = "done" =>
       /\ outcome[r][i].data \in Readings(r, i) \cup {NoData}
       /\ ~outcome[r][i].human =>
            \/ outcome[r][i].state = "completed"
            \/ outcome[r][i].state = "skipped" /\ Condition(r, i, "false")
  /\ Given(r, i) /\ plan[r][i].condition # None =>
       Condition(r, i, "true") /\ outcome[r][1].state = "completed"

\* No task waits twice, and only tasks that hold no slot yet.
SlotsInv ==
  /\ IsFiniteSet(Occupied)
  /\ free + Cardinality(Occupied) = MaxParallel
  /\ \A m, n \in DOMAIN waiters : waiters[m] = waiters[n] => m = n
  /\ ToSet(waiters) = TasksAt("waiting")
  /\ waiters # << >> => free = 0

IInv ==
  /\ TypeOK
  /\ \A r \in Requests : PlanInv(r) /\ \A i \in DOMAIN plan[r] : TaskInv(r, i)
  /\ SlotsInv

-----------------------------------------------------------------------------
(* Numbers and sequences.                                                  *)

\* A set of natural numbers that has an element has a least one.
LEMMA LeastOf ==
  ASSUME NEW S \in SUBSET Nat, S # {}
  PROVE  Min(S) \in S /\ \A x \in S : Min(S) <= x
<1>. DEFINE T == {0..n : n \in S}
<1>1. IsWellFoundedOn(StrictSubsetOrdering(Nat), FiniteSubsetsOf(Nat))
  BY FS_StrictSubsetOrderingWellFounded
<1>2. T \subseteq FiniteSubsetsOf(Nat) /\ T # {}
  <2>1. \A n \in S : IsFiniteSet(0..n)
    BY FS_Interval
  <2>2. \A n \in S : (0..n) \in FiniteSubsetsOf(Nat)
    BY <2>1 DEF FiniteSubsetsOf
  <2>. QED
    BY <2>2
<1>3. PICK x \in T : \A y \in T : <<y, x>> \notin StrictSubsetOrdering(Nat)
  <2>. HIDE DEF T
  <2>. QED
    BY <1>1, <1>2, WFMin
<1>4. PICK n \in S : x = 0..n
  OBVIOUS
<1>5. ASSUME NEW m \in S PROVE n <= m
  <2>1. SUFFICES ASSUME m < n PROVE FALSE
    OBVIOUS
  <2>2. (0..m) \subseteq Nat /\ (0..n) \subseteq Nat /\ (0..m) \subseteq (0..n)
        /\ n \in (0..n) /\ n \notin (0..m)
    BY <2>1
  <2>3. <<0..m, 0..n>> \in StrictSubsetOrdering(Nat)
    BY <2>2 DEF StrictSubsetOrdering
  <2>. QED
    BY <1>3, <1>4, <2>3
<1>. QED
  BY <1>5 DEF Min

\* A set of natural numbers up to n that has an element has a greatest one.
LEMMA GreatestOf ==
  ASSUME NEW n \in Nat, NEW S \in SUBSET (0..n), S # {}
  PROVE  Max(S) \in S /\ \A x \in S : x <= Max(S)
<1>. DEFINE T == {n - x : x \in S}
<1>1. T \in SUBSET Nat /\ T # {}
  <2>1. \A x \in S : n - x \in Nat
    OBVIOUS
  <2>. QED
    BY <2>1
<1>2. PICK m \in T : \A y \in T : m <= y
  <2>. HIDE DEF T
  <2>. QED
    BY <1>1, LeastOf
<1>3. PICK x \in S : m = n - x
  OBVIOUS
<1>4. ASSUME NEW y \in S PROVE x >= y
  <2>1. n - y \in T
    OBVIOUS
  <2>2. n - x <= n - y
    BY <1>2, <1>3, <2>1
  <2>. QED
    BY <2>2
<1>5. Max(S) \in S /\ \A y \in S : Max(S) >= y
  BY <1>4 DEF Max
<1>. QED
  BY <1>5

LEMMA MinOfTwo ==
  ASSUME NEW a \in Nat, NEW b \in Nat
  PROVE  Min({a, b}) = IF a <= b THEN a ELSE b
  BY DEF Min

\* Different places of a sequence without repetitions make as many elements.
LEMMA CountedOnce ==
  ASSUME NEW S, NEW q \in Seq(S), \A i, j \in DOMAIN q : q[i] = q[j] => i = j,
         NEW n \in 0..Len(q)
  PROVE  /\ IsFiniteSet({q[m] : m \in 1..n})
         /\ Cardinality({q[m] : m \in 1..n}) = n
<1>. DEFINE T == {q[m] : m \in 1..n}
            f == [m \in 1..n |-> q[m]]
<1>1. 1..n \subseteq DOMAIN q
  OBVIOUS
<1>2. f \in Bijection(1..n, T)
  BY <1>1 DEF Bijection, Injection, IsInjective, Surjection
<1>3. ExistsBijection(1..n, T)
  BY <1>2 DEF ExistsBijection
<1>4. IsFiniteSet(1..n) /\ Cardinality(1..n) = n
  BY FS_Interval
<1>. HIDE DEF T
<1>5. IsFiniteSet(T) /\ Cardinality(T) = n
  BY <1>3, <1>4, FS_Bijection
<1>. QED
  BY <1>5 DEF T

\* The waiters that are left when a request goes are those of the others.
LEMMA OthersKept ==
  ASSUME NEW r, NEW S, waiters \in Seq(S),
         \A m, n \in DOMAIN waiters : waiters[m] = waiters[n] => m = n
  PROVE  /\ OtherWaiters(r) \in Seq(S)
         /\ \A m, n \in DOMAIN OtherWaiters(r) :
              OtherWaiters(r)[m] = OtherWaiters(r)[n] => m = n
         /\ ToSet(OtherWaiters(r)) = {t \in ToSet(waiters) : t[1] # r}
<1>. DEFINE kept == {m \in DOMAIN waiters : waiters[m][1] # r}
            upTo(m) == kept \cap (1..m)
            rank == [m \in kept |-> Cardinality(upTo(m))]
            size == Cardinality(kept)
            at(n) == CHOOSE m \in kept : Cardinality(kept \cap (1..m)) = n
<1>1. DOMAIN waiters = 1..Len(waiters) /\ Len(waiters) \in Nat
  OBVIOUS
<1>2. IsFiniteSet(kept) /\ size \in Nat
  <2>1. IsFiniteSet(1..Len(waiters))
    BY <1>1, FS_Interval
  <2>2. kept \in SUBSET (1..Len(waiters))
    BY <1>1
  <2>. HIDE DEF kept
  <2>3. IsFiniteSet(kept)
    BY <2>1, <2>2, FS_Subset
  <2>. QED
    BY <2>3, FS_CardinalityType
<1>3. ASSUME NEW m \in kept
      PROVE  /\ IsFiniteSet(upTo(m))
             /\ Cardinality(upTo(m)) \in 1..size
  <2>1. upTo(m) \in SUBSET kept /\ m \in upTo(m)
    BY <1>1
  <2>. HIDE DEF kept, upTo
  <2>2. IsFiniteSet(upTo(m)) /\ Cardinality(upTo(m)) <= size
    BY <1>2, <2>1, FS_Subset
  <2>3. Cardinality(upTo(m)) \in Nat /\ Cardinality(upTo(m)) # 0
    BY <2>1, <2>2, FS_CardinalityType, FS_EmptySet
  <2>. QED
    BY <1>2, <2>2, <2>3
<1>4. ASSUME NEW m \in kept, NEW n \in kept, m < n
      PROVE  Cardinality(upTo(m)) # Cardinality(upTo(n))
  <2>1. upTo(m) \in SUBSET upTo(n) /\ n \in upTo(n) /\ n \notin upTo(m)
    BY <1>1, <1>4
  <2>. HIDE DEF kept, upTo
  <2>. QED
    BY <1>3, <2>1, FS_Subset
<1>5. rank \in Injection(kept, 1..size)
  <2>1. rank \in [kept -> 1..size]
    BY <1>3
  <2>2. ASSUME NEW m \in kept, NEW n \in kept, rank[m] = rank[n] PROVE m = n
    <3>1. m \in Nat /\ n \in Nat
      BY <1>1
    <3>2. rank[m] = Cardinality(upTo(m)) /\ rank[n] = Cardinality(upTo(n))
      OBVIOUS
    <3>3. Cardinality(upTo(m)) = Cardinality(upTo(n))
      BY <2>2, <3>2
    <3>. HIDE DEF kept, upTo, rank
    <3>4. ~(m < n)
      BY <1>4, <3>3
    <3>5. ~(n < m)
      BY <1>4, <3>3
    <3>. QED
      BY <3>1, <3>4, <3>5
  <2>. HIDE DEF kept, upTo
  <2>. QED
    BY <2>1, <2>2 DEF Injection, IsInjective
<1>6. rank \in Surjection(kept, 1..size)
  <2>1. IsFiniteSet(1..size) /\ Cardinality(1..size) = size
    BY <1>2, FS_Interval
  <2>. HIDE DEF kept, upTo, rank
  <2>. QED
    BY <1>5, <2>1, FS_Injection
<1>7. ASSUME NEW n \in 1..size PROVE at(n) \in kept /\ rank[at(n)] = n
  <2>1. \E m \in kept : rank[m] = n
    <3>. HIDE DEF kept, upTo, rank
    <3>. QED
      BY <1>6 DEF Surjection
  <2>2. \A m \in kept : rank[m] = Cardinality(kept \cap (1..m))
    OBVIOUS
  <2>. HIDE DEF kept, upTo, rank
  <2>. QED
    BY <2>1, <2>2
<1>8. OtherWaiters(r) = [n \in 1..size |-> waiters[at(n)]]
  BY Zenon DEF OtherWaiters
<1>9. \A m \in kept : m \in DOMAIN waiters /\ waiters[m] \in S /\ waiters[m][1] # r
  BY <1>1
<1>10. \A m \in kept : rank[m] \in 1..size /\ at(rank[m]) = m
  <2>1. rank \in [kept -> 1..size]
    BY <1>5 DEF Injection
  <2>2. \A m, n \in kept : rank[m] = rank[n] => m = n
    <3>. HIDE DEF kept, upTo, rank
    <3>. QED
      BY <1>5, <2>1 DEF Injection, IsInjective
  <2>. HIDE DEF kept, upTo, rank, at
  <2>. QED
    BY <1>7, <2>1, <2>2
<1>11. OtherWaiters(r) \in Seq(S)
  <2>. HIDE DEF kept, rank, at
  <2>. QED
    BY <1>2, <1>7, <1>8, <1>9
<1>12. ASSUME NEW m \in DOMAIN OtherWaiters(r), NEW n \in DOMAIN OtherWaiters(r),
              OtherWaiters(r)[m] = OtherWaiters(r)[n]
       PROVE  m = n
  <2>. HIDE DEF kept, rank, at
  <2>1. m \in 1..size /\ n \in 1..size /\ waiters[at(m)] = waiters[at(n)]
    BY <1>8, <1>12
  <2>. QED
    BY <1>7, <1>9, <2>1
<1>13. ASSUME NEW t \in ToSet(OtherWaiters(r)) PROVE t \in ToSet(waiters) /\ t[1] # r
  <2>. HIDE DEF kept, rank, at
  <2>. QED
    BY <1>7, <1>8, <1>9, <1>13 DEF ToSet
<1>14. ASSUME NEW t \in ToSet(waiters), t[1] # r PROVE t \in ToSet(OtherWaiters(r))
  <2>1. PICK m \in DOMAIN waiters : t = waiters[m]
    BY <1>14 DEF ToSet
  <2>2. m \in kept
    BY <1>14, <2>1
  <2>. HIDE DEF kept, rank, at
  <2>. QED
    BY <1>8, <1>10, <2>1, <2>2 DEF ToSet
<1>. QED
  BY <1>11, <1>12, <1>13, <1>14

\* The first k of a sequence, or all when there are no more, and the rest.
Served(q, k) == {q[m] : m \in 1..Min({k, Len(q)})}

Rest(q, k) == SubSeq(q, Min({k, Len(q)}) + 1, Len(q))

\* In a sequence without repetitions they share nothing.
LEMMA FirstServed ==
  ASSUME NEW S, NEW q \in Seq(S), NEW k \in Nat,
         \A i, j \in DOMAIN q : q[i] = q[j] => i = j
  PROVE  /\ Min({k, Len(q)}) \in 0..k
         /\ IsFiniteSet(Served(q, k)) /\ Cardinality(Served(q, k)) = Min({k, Len(q)})
         /\ Served(q, k) \subseteq ToSet(q)
         /\ Rest(q, k) \in Seq(S)
         /\ \A i, j \in DOMAIN Rest(q, k) : Rest(q, k)[i] = Rest(q, k)[j] => i = j
         /\ ToSet(Rest(q, k)) = ToSet(q) \ Served(q, k)
         /\ Rest(q, k) # << >> => Min({k, Len(q)}) = k /\ q # << >>
<1>. DEFINE n == Min({k, Len(q)})
            served == Served(q, k)
            rest == Rest(q, k)
<1>1. Len(q) \in Nat
  OBVIOUS
<1>2. n \in 0..k /\ n \in 0..Len(q) /\ (n = k \/ n = Len(q))
  <2>1. n = IF k <= Len(q) THEN k ELSE Len(q)
    BY <1>1, MinOfTwo
  <2>. HIDE DEF n
  <2>. QED
    BY <1>1, <2>1
<1>. HIDE DEF n, served, rest
<1>17. served = {q[m] : m \in 1..n} /\ rest = SubSeq(q, n + 1, Len(q))
  BY DEF n, served, rest, Served, Rest
<1>3. \A i, j \in 1..Len(q) : q[i] = q[j] => i = j
  BY <1>1
<1>4. \A i \in 1..Len(q) : q[i] \in S
  BY <1>1
<1>5. IsFiniteSet(served) /\ Cardinality(served) = n
  BY <1>1, <1>2, <1>17, CountedOnce
<1>6. 1..n \subseteq 1..Len(q)
  BY <1>1, <1>2
<1>7. ToSet(q) = {q[i] : i \in 1..Len(q)}
  BY DEF ToSet
<1>8. served \subseteq ToSet(q)
  BY <1>6, <1>7, <1>17
<1>9. /\ rest \in Seq(S)
      /\ Len(rest) = Len(q) - n
      /\ \A i \in 1..(Len(q) - n) : rest[i] = q[n + i]
  <2>. DEFINE a == n + 1
              b == Len(q)
  <2>1. a \in Int /\ b \in Int /\ a..b \subseteq 1..Len(q)
    BY <1>1, <1>2
  <2>2. \A i \in a..b : q[i] \in S
    BY <1>4, <2>1
  <2>. HIDE DEF a, b
  <2>3. /\ SubSeq(q, a, b) \in Seq(S)
        /\ Len(SubSeq(q, a, b)) = IF a <= b THEN b - a + 1 ELSE 0
        /\ \A i \in 1..(b - a + 1) : SubSeq(q, a, b)[i] = q[a + i - 1]
    BY <2>1, <2>2, SubSeqProperties
  <2>. USE DEF a, b
  <2>4. (IF a <= b THEN b - a + 1 ELSE 0) = Len(q) - n /\ b - a + 1 = Len(q) - n
    BY <1>1, <1>2
  <2>5. \A i \in 1..(Len(q) - n) : a + i - 1 = n + i
    BY <1>1, <1>2
  <2>6. rest = SubSeq(q, a, b)
    BY <1>17
  <2>. HIDE DEF a, b
  <2>7. rest \in Seq(S) /\ Len(rest) = Len(q) - n
    BY <2>3, <2>4, <2>6
  <2>8. \A i \in 1..(Len(q) - n) : rest[i] = q[n + i]
    BY <2>3, <2>4, <2>5, <2>6
  <2>. QED
    BY <2>7, <2>8
<1>10. DOMAIN rest = 1..(Len(q) - n)
  <2>1. DOMAIN rest = 1..Len(rest)
    BY <1>9
  <2>. QED
    BY <1>9, <2>1
<1>11. \A i \in 1..(Len(q) - n) : n + i \in 1..Len(q) /\ n + i \notin 1..n
  BY <1>1, <1>2
<1>12. ASSUME NEW i \in DOMAIN rest, NEW j \in DOMAIN rest, rest[i] = rest[j]
       PROVE  i = j
  <2>1. i \in 1..(Len(q) - n) /\ j \in 1..(Len(q) - n) /\ q[n + i] = q[n + j]
    BY <1>9, <1>10, <1>12
  <2>2. n + i = n + j
    BY <1>3, <1>11, <2>1
  <2>3. i \in Int /\ j \in Int /\ n \in Int
    BY <1>2, <2>1
  <2>. QED
    BY <2>2, <2>3
<1>13. ASSUME NEW t \in ToSet(rest) PROVE t \in ToSet(q) /\ t \notin served
  <2>1. PICK i \in 1..(Len(q) - n) : t = q[n + i]
    BY <1>9, <1>10 DEF ToSet
  <2>2. t \in ToSet(q)
    BY <1>7, <1>11, <2>1
  <2>3. ASSUME NEW m \in 1..n, t = q[m] PROVE FALSE
    <3>1. m = n + i
      BY <1>3, <1>6, <1>11, <2>1, <2>3
    <3>. QED
      BY <1>11, <3>1
  <2>. QED
    BY <1>17, <2>2, <2>3
<1>14. ASSUME NEW t \in ToSet(q), t \notin served PROVE t \in ToSet(rest)
  <2>1. PICK i \in 1..Len(q) : t = q[i]
    BY <1>7
  <2>2. i \notin 1..n
    BY <1>14, <1>17, <2>1
  <2>3. i - n \in 1..(Len(q) - n) /\ n + (i - n) = i
    BY <1>1, <1>2, <2>2
  <2>4. rest[i - n] = q[i]
    BY <1>9, <2>3
  <2>. QED
    BY <1>10, <2>1, <2>3, <2>4 DEF ToSet
<1>15. rest # << >> => n = k /\ q # << >>
  <2>1. SUFFICES ASSUME rest # << >> PROVE n = k /\ q # << >>
    OBVIOUS
  <2>2. Len(rest) # 0
    BY <1>9, <2>1
  <2>3. Len(q) # 0 /\ n # Len(q)
    BY <1>1, <1>2, <1>9, <2>2
  <2>. QED
    BY <1>2, <2>3
<1>16. ToSet(rest) = ToSet(q) \ served
  BY <1>13, <1>14
<1>. QED
  BY <1>2, <1>5, <1>8, <1>9, <1>12, <1>15, <1>16 DEF n, served, rest

\* A sequence without repetitions that a new element is appended to.
LEMMA AppendedOnce ==
  ASSUME NEW S, NEW q \in Seq(S), NEW e \in S, e \notin ToSet(q),
         \A i, j \in DOMAIN q : q[i] = q[j] => i = j
  PROVE  /\ ToSet(Append(q, e)) = ToSet(q) \cup {e}
         /\ \A i, j \in DOMAIN Append(q, e) : Append(q, e)[i] = Append(q, e)[j] => i = j
<1>1. Len(q) \in Nat
  OBVIOUS
<1>2. \A i \in 1..Len(q) : q[i] # e
  BY DEF ToSet
<1>3. /\ DOMAIN Append(q, e) = 1..(Len(q) + 1)
      /\ Append(q, e)[Len(q) + 1] = e
      /\ \A i \in 1..Len(q) : Append(q, e)[i] = q[i]
  OBVIOUS
<1>4. \A i \in 1..(Len(q) + 1) : i \in 1..Len(q) \/ i = Len(q) + 1
  BY <1>1
<1>5. \A i, j \in 1..Len(q) : q[i] = q[j] => i = j
  OBVIOUS
<1>6. \A i, j \in DOMAIN Append(q, e) : Append(q, e)[i] = Append(q, e)[j] => i = j
  BY <1>2, <1>3, <1>4, <1>5
<1>7. ToSet(q) = {q[i] : i \in 1..Len(q)}
  BY DEF ToSet
<1>8. 1..Len(q) \subseteq 1..(Len(q) + 1) /\ Len(q) + 1 \in 1..(Len(q) + 1)
  BY <1>1
<1>9. ToSet(Append(q, e)) = {Append(q, e)[i] : i \in 1..(Len(q) + 1)}
  BY <1>3 DEF ToSet
<1>. QED
  BY <1>3, <1>4, <1>6, <1>7, <1>8, <1>9

-----------------------------------------------------------------------------
(* The semaphore.                                                          *)

\* The tasks at a stage, and those that hold a slot, for any plans and stages.
At(p, s, x) == {t \in Places : t[2] \in DOMAIN p[t[1]] /\ s[t[1]][t[2]] = x}

Held(p, s) == {t \in At(p, s, "running") : Len(p[t[1]]) > 1}

\* Slots that come back go to the first of the waiters, or stay free when there
\* are no more of them: no slot is lost, and the waiters keep their order.
LEMMA HandOverKeeps ==
  ASSUME NEW s, NEW q, NEW k \in Nat, HandOver(s, q, k),
         \A r \in Requests : /\ DOMAIN plan'[r] \subseteq 1..MaxTasks
                             /\ s[r] \in [DOMAIN plan'[r] -> Stages],
         q \in Seq(Places),
         \A m, n \in DOMAIN q : q[m] = q[n] => m = n,
         ToSet(q) = At(plan', s, "waiting"),
         \A t \in At(plan', s, "waiting") : Len(plan'[t[1]]) > 1,
         IsFiniteSet(Held(plan', s)),
         free \in Nat, free + k + Cardinality(Held(plan', s)) = MaxParallel,
         q # << >> => free = 0
  PROVE  /\ SlotsInv'
         /\ free' \in 0..MaxParallel
         /\ waiters' \in Seq(Places)
         /\ DOMAIN stage' = Requests
         /\ \A r \in Requests :
              /\ stage'[r] \in [DOMAIN plan'[r] -> Stages]
              /\ \A i \in DOMAIN plan'[r] :
                   \/ stage'[r][i] = s[r][i]
                   \/ s[r][i] = "waiting" /\ stage'[r][i] = "running"
<1>. DEFINE n == Min({k, Len(q)})
            served == Served(q, k)
<1>1. /\ n \in 0..k
      /\ IsFiniteSet(served) /\ Cardinality(served) = n
      /\ served \subseteq ToSet(q)
      /\ Rest(q, k) \in Seq(Places)
      /\ \A i, j \in DOMAIN Rest(q, k) : Rest(q, k)[i] = Rest(q, k)[j] => i = j
      /\ ToSet(Rest(q, k)) = ToSet(q) \ served
      /\ Rest(q, k) # << >> => n = k /\ q # << >>
  BY FirstServed
<1>2. /\ waiters' = Rest(q, k)
      /\ free' = free + k - n
      /\ stage' = [r \in Requests |-> [i \in DOMAIN s[r] |->
                     IF \E m \in 1..n : q[m] = <<r, i>> THEN "running" ELSE s[r][i]]]
  BY DEF HandOver, Rest
<1>4. \A t : t \in served <=> \E m \in 1..n : q[m] = t
  BY DEF Served
<1>. HIDE DEF n, served
<1>5. served \subseteq At(plan', s, "waiting")
  BY <1>1
<1>6. \A r \in Requests : DOMAIN s[r] = DOMAIN plan'[r]
  OBVIOUS
<1>7. \A r \in Requests : stage'[r] =
        [i \in DOMAIN plan'[r] |-> IF <<r, i>> \in served THEN "running" ELSE s[r][i]]
  BY <1>2, <1>4, <1>6
<1>8. DOMAIN stage' = Requests
  BY <1>2
<1>9. ASSUME NEW r \in Requests, NEW i \in DOMAIN plan'[r]
      PROVE  /\ <<r, i>> \in Places
             /\ s[r][i] \in Stages
             /\ <<r, i>> \in served => s[r][i] = "waiting"
             /\ stage'[r][i] = IF <<r, i>> \in served THEN "running" ELSE s[r][i]
  <2>1. <<r, i>> \in Places
    BY DEF Places
  <2>2. s[r][i] \in Stages
    OBVIOUS
  <2>3. <<r, i>> \in served => s[r][i] = "waiting"
    BY <1>5 DEF At
  <2>. QED
    BY <1>7, <2>1, <2>2, <2>3
<1>10. \A r \in Requests :
         /\ stage'[r] \in [DOMAIN plan'[r] -> Stages]
         /\ \A i \in DOMAIN plan'[r] :
              \/ stage'[r][i] = s[r][i]
              \/ s[r][i] = "waiting" /\ stage'[r][i] = "running"
  <2>1. SUFFICES ASSUME NEW r \in Requests
        PROVE /\ stage'[r] \in [DOMAIN plan'[r] -> Stages]
              /\ \A i \in DOMAIN plan'[r] :
                   \/ stage'[r][i] = s[r][i]
                   \/ s[r][i] = "waiting" /\ stage'[r][i] = "running"
    OBVIOUS
  <2>2. \A i \in DOMAIN plan'[r] : stage'[r][i] \in Stages
    BY <1>9 DEF Stages
  <2>3. stage'[r] \in [DOMAIN plan'[r] -> Stages]
    <3>. DEFINE f == [i \in DOMAIN plan'[r] |->
                        IF <<r, i>> \in served THEN "running" ELSE s[r][i]]
    <3>1. stage'[r] = f
      BY <1>7
    <3>2. \A i \in DOMAIN plan'[r] : f[i] \in Stages
      BY <2>2, <3>1
    <3>3. f \in [DOMAIN plan'[r] -> Stages]
      BY <3>2
    <3>. QED
      BY <3>1, <3>3
  <2>4. \A i \in DOMAIN plan'[r] :
          \/ stage'[r][i] = s[r][i]
          \/ s[r][i] = "waiting" /\ stage'[r][i] = "running"
    BY <1>9
  <2>. QED
    BY <2>3, <2>4
<1>11. ASSUME NEW t \in Places, t[2] \in DOMAIN plan'[t[1]]
       PROVE  stage'[t[1]][t[2]] = IF t \in served THEN "running" ELSE s[t[1]][t[2]]
  <2>1. t[1] \in Requests /\ t = <<t[1], t[2]>>
    BY DEF Places
  <2>. QED
    BY <1>9, <1>11, <2>1
<1>12. Held(plan', stage') = Held(plan', s) \cup served
  BY <1>5, <1>11 DEF Held, At
<1>13. Held(plan', s) \cap served = {}
  BY <1>5 DEF Held, At
<1>14. /\ IsFiniteSet(Held(plan', stage'))
       /\ Cardinality(Held(plan', stage')) = Cardinality(Held(plan', s)) + n
  <2>. DEFINE A == Held(plan', s)
              B == Held(plan', stage')
  <2>1. Cardinality({}) = 0
    BY FS_EmptySet
  <2>2. IsFiniteSet(A) /\ B = A \cup served /\ A \cap served = {}
    BY <1>12, <1>13
  <2>. HIDE DEF A, B
  <2>3. /\ IsFiniteSet(B)
        /\ Cardinality(B) = Cardinality(A) + Cardinality(served) - Cardinality({})
    BY <1>1, <2>2, FS_Union
  <2>4. Cardinality(A) \in Nat
    BY <2>2, FS_CardinalityType
  <2>5. Cardinality(B) = Cardinality(A) + n
    BY <1>1, <2>1, <2>3, <2>4
  <2>. QED
    BY <2>3, <2>5 DEF A, B
<1>15. At(plan', stage', "waiting") = At(plan', s, "waiting") \ served
  BY <1>11 DEF At
<1>21. free' \in 0..MaxParallel /\ free' + Cardinality(Held(plan', stage')) = MaxParallel
  <2>1. PICK c \in Nat : c = Cardinality(Held(plan', s))
    BY FS_CardinalityType
  <2>2. free + k + c = MaxParallel /\ Cardinality(Held(plan', stage')) = c + n
    BY <1>14, <2>1
  <2>3. free' = free + k - n
    BY <1>2
  <2>4. n \in 0..k
    BY <1>1
  <2>5. n \in Nat /\ n <= k
    BY <2>4
  <2>6. MaxParallel \in Nat
    BY PlanAssumption
  <2>7. free' \in 0..MaxParallel
    BY <2>2, <2>3, <2>5, <2>6
  <2>8. free' + (c + n) = MaxParallel
    BY <2>2, <2>3, <2>5
  <2>. QED
    BY <2>2, <2>7, <2>8
<1>22. waiters' # << >> => free' = 0
  BY <1>1, <1>2
<1>23. Occupied' = Held(plan', stage') /\ TasksAt("waiting")' = At(plan', stage', "waiting")
  BY DEF Occupied, TasksAt, IsMulti, Held, At
<1>24. SlotsInv'
  BY <1>1, <1>2, <1>14, <1>15, <1>21, <1>22, <1>23 DEF SlotsInv
<1>. QED
  BY <1>1, <1>2, <1>8, <1>10, <1>21, <1>24

-----------------------------------------------------------------------------
(* What a step leaves as it was.                                           *)

\* A plan that has a task has a first one.
LEMMA FirstTask ==
  ASSUME TypeOK, NEW r \in Requests, NEW i \in DOMAIN plan[r]
  PROVE  /\ plan[r] \in Seq(PlanTasks)
         /\ i \in 1..MaxTasks
         /\ 1 \in DOMAIN plan[r]
         /\ plan[r][i] \in PlanTasks /\ plan[r][1] \in PlanTasks
<1>1. plan[r] \in Seq(PlanTasks) /\ Len(plan[r]) <= MaxTasks
  BY DEF TypeOK
<1>2. MaxTasks \in Nat
  BY PlanAssumption
<1>. QED
  BY <1>1, <1>2

\* What a task works on and reads is settled by the question and the plan.
LEMMA SamePlan ==
  ASSUME NEW r, NEW i, plan'[r] = plan[r], question'[r] = question[r]
  PROVE  /\ Target(r, i)' = Target(r, i)
         /\ Readings(r, i)' = Readings(r, i)
         /\ IsMulti(r)' = IsMulti(r)
<1>1. Target(r, i)' = Target(r, i)
  BY DEF Target
<1>2. Needed(r, i)' = Needed(r, i)
  BY DEF Needed
<1>3. Readings(r, i)' = Readings(r, i)
  BY <1>1, <1>2 DEF Readings
<1>. QED
  BY <1>1, <1>3 DEF IsMulti

\* The tasks of a request stay right while others act, and also when one of
\* them is given a slot it has waited for.
LEMMA Untouched ==
  ASSUME TypeOK, NEW r \in Requests, PlanInv(r), \A i \in DOMAIN plan[r] : TaskInv(r, i),
         question'[r] = question[r], plan'[r] = plan[r], outcome'[r] = outcome[r],
         phase'[r] = phase[r], response'[r] = response[r],
         \A i \in DOMAIN plan[r] : \/ stage'[r][i] = stage[r][i]
                                   \/ stage[r][i] = "waiting" /\ stage'[r][i] = "running"
  PROVE  PlanInv(r)' /\ \A i \in DOMAIN plan'[r] : TaskInv(r, i)'
<1>1. \A i \in DOMAIN plan[r] : stage'[r][i] = "done" <=> stage[r][i] = "done"
  OBVIOUS
<1>2. \A i \in DOMAIN plan[r] : /\ Target(r, i)' = Target(r, i)
                                /\ Target(r, 1)' = Target(r, 1)
                                /\ Readings(r, i)' = Readings(r, i)
                                /\ IsMulti(r)' = IsMulti(r)
  BY SamePlan
<1>3. PlanInv(r)'
  BY <1>1, <1>2 DEF PlanInv
<1>4. ASSUME NEW i \in DOMAIN plan[r] PROVE TaskInv(r, i)'
  <2>1. 1 \in DOMAIN plan[r]
    BY FirstTask
  <2>2. \A v : Condition(r, i, v)' <=> Condition(r, i, v)
    BY <1>1, <2>1 DEF Condition
  <2>3. Given(r, i)' <=> Given(r, i)
    BY DEF Given
  <2>4. TaskInv(r, i)
    OBVIOUS
  <2>. QED
    BY <1>1, <1>2, <2>1, <2>2, <2>3, <2>4 DEF TaskInv
<1>. QED
  BY <1>3, <1>4

\* A task ends with an outcome that says what its data, its agent and the need
\* for a human may be: the request's tasks stay right.
LEMMA TaskEnds ==
  ASSUME TypeOK, NEW r \in Requests, PlanInv(r), \A j \in DOMAIN plan[r] : TaskInv(r, j),
         NEW i \in DOMAIN plan[r], NEW o \in Outcomes,
         phase[r] = "planned", stage[r][i] # "done",
         question'[r] = question[r], plan'[r] = plan[r],
         phase'[r] = phase[r], response'[r] = response[r],
         outcome'[r] = [outcome[r] EXCEPT ![i] = o],
         stage'[r][i] = "done",
         \A j \in DOMAIN plan[r] \ {i} :
           \/ stage'[r][j] = stage[r][j]
           \/ stage[r][j] = "waiting" /\ stage'[r][j] = "running",
         o.data \in Readings(r, i) \cup {NoData},
         ~o.human => \/ o.state = "completed"
                     \/ o.state = "skipped" /\ Condition(r, i, "false"),
         o.agent # None /\ plan[r][i].condition # None =>
           Condition(r, i, "true") /\ outcome[r][1].state = "completed"
  PROVE  PlanInv(r)' /\ \A j \in DOMAIN plan'[r] : TaskInv(r, j)'
<1>1. outcome[r] \in [DOMAIN plan[r] -> Outcomes \cup {None}]
  BY DEF TypeOK
<1>2. /\ outcome'[r][i] = o
      /\ \A j \in DOMAIN plan[r] \ {i} : outcome'[r][j] = outcome[r][j]
  BY <1>1
<1>3. o # None
  BY QuestionAssumption
<1>4. \A j \in DOMAIN plan[r] : /\ Target(r, j)' = Target(r, j)
                                /\ Target(r, 1)' = Target(r, 1)
                                /\ Readings(r, j)' = Readings(r, j)
                                /\ IsMulti(r)' = IsMulti(r)
  BY SamePlan
<1>5. PlanInv(r)'
  BY <1>4 DEF PlanInv
<1>6. 1 \in DOMAIN plan[r]
  BY FirstTask
<1>7. ASSUME NEW j \in DOMAIN plan[r], NEW v, Condition(r, j, v)
      PROVE  Condition(r, j, v)' /\ outcome'[r][1] = outcome[r][1]
  <2>1. stage[r][1] = "done" /\ 1 \in DOMAIN plan[r] \ {i}
    BY <1>6, <1>7 DEF Condition
  <2>2. stage'[r][1] = "done" /\ outcome'[r][1] = outcome[r][1]
    BY <1>2, <2>1
  <2>. QED
    BY <1>7, <2>2 DEF Condition
<1>8. TaskInv(r, i)'
  <2>1. stage'[r][i] = "done" /\ outcome'[r][i] = o
    BY <1>2
  <2>2. Given(r, i)' => o.agent # None
    BY <1>3, <2>1 DEF Given
  <2>3. ~o.human => \/ o.state = "completed"
                    \/ o.state = "skipped" /\ Condition(r, i, "false")'
    BY <1>7
  <2>4. o.agent # None /\ plan'[r][i].condition # None =>
          Condition(r, i, "true")' /\ outcome'[r][1].state = "completed"
    BY <1>7
  <2>. QED
    BY <1>3, <1>4, <2>1, <2>2, <2>3, <2>4 DEF TaskInv
<1>9. ASSUME NEW j \in DOMAIN plan[r] \ {i} PROVE TaskInv(r, j)'
  <2>1. /\ outcome'[r][j] = outcome[r][j]
        /\ stage'[r][j] = "done" <=> stage[r][j] = "done"
        /\ stage'[r][j] = "waiting" => stage[r][j] = "waiting"
    BY <1>2
  <2>2. Given(r, j)' => Given(r, j)
    BY <2>1 DEF Given
  <2>3. TaskInv(r, j)
    OBVIOUS
  <2>4. ~outcome'[r][j].human /\ stage'[r][j] = "done" =>
          \/ outcome'[r][j].state = "completed"
          \/ outcome'[r][j].state = "skipped" /\ Condition(r, j, "false")'
    BY <1>7, <2>1, <2>3 DEF TaskInv
  <2>5. Given(r, j)' /\ plan'[r][j].condition # None =>
          Condition(r, j, "true")' /\ outcome'[r][1].state = "completed"
    BY <1>7, <2>2, <2>3 DEF TaskInv
  <2>6. outcome'[r][j].data \in Readings(r, j)' \cup {NoData} \/ stage'[r][j] # "done"
    BY <1>4, <2>1, <2>3 DEF TaskInv
  <2>7. stage'[r][j] = "done" <=> outcome'[r][j] # None
    BY <2>1, <2>3 DEF TaskInv
  <2>8. stage'[r][j] = "waiting" => IsMulti(r)'
    BY <1>4, <2>1, <2>3 DEF TaskInv
  <2>. QED
    BY <2>4, <2>5, <2>6, <2>7, <2>8 DEF TaskInv
<1>. QED
  BY <1>5, <1>8, <1>9

-----------------------------------------------------------------------------
(* Data and outcomes.                                                      *)

LEMMA NothingRead == NoData \in Data
<1>1. << >> \in [{} -> Statuses]
  OBVIOUS
<1>2. {} \in SUBSET Known
  OBVIOUS
<1>3. << >> \in UNION {[S -> Statuses] : S \in SUBSET Known}
  BY <1>1, <1>2
<1>. QED
  BY <1>3 DEF NoData, Data

\* The order a task is about is one there is to name.
LEMMA TargetIsKnown ==
  ASSUME TypeOK, NEW r \in Requests, question[r] \in AllQuestions, NEW i \in DOMAIN plan[r]
  PROVE  Target(r, i) \in Known \cup {None}
<1>1. plan[r][i] \in PlanTasks
  BY FirstTask
<1>2. plan[r][i].named \in Known \cup {None} /\ plan[r][i].result.order \in Known \cup {None}
  BY <1>1 DEF PlanTasks
<1>3. question[r].session \in Known \cup {None}
  BY DEF Known
<1>. QED
  BY <1>2, <1>3 DEF Target

LEMMA ReadingsAreData ==
  ASSUME TypeOK, NEW r \in Requests, question[r] \in AllQuestions, NEW i \in DOMAIN plan[r]
  PROVE  Readings(r, i) \subseteq Data
<1>1. ASSUME NEW S \in SUBSET Known, NEW s \in [S -> Statuses]
      PROVE  [seen |-> s, stock |-> "absent"] \in Data
  BY DEF Data
<1>2. Orders \in SUBSET Known
  BY PlanAssumption DEF Known
<1>3. OrderReadings(Target(r, i)) \subseteq Data
  <2>1. CASE Target(r, i) = None
    BY <1>1, <1>2, <2>1 DEF OrderReadings
  <2>2. CASE Target(r, i) # None
    <3>1. {Target(r, i)} \in SUBSET Known
      BY <2>2, TargetIsKnown
    <3>. QED
      BY <1>1, <2>2, <3>1, NothingRead DEF OrderReadings
  <2>. QED
    BY <2>1, <2>2
<1>4. StockReadings \subseteq Data
  <2>1. ASSUME NEW s \in {"absent", "zero", "some"} PROVE [seen |-> << >>, stock |-> s] \in Data
    <3>1. << >> \in UNION {[S -> Statuses] : S \in SUBSET Known}
      BY NothingRead DEF NoData, Data
    <3>. QED
      BY <3>1 DEF Data
  <2>. QED
    BY <2>1 DEF StockReadings
<1>. QED
  BY <1>3, <1>4, NothingRead DEF Readings

\* An outcome of the orchestrator's or of an agent's.
LEMMA OutcomeIsTyped ==
  ASSUME NEW state \in {"completed", "partial", "input_required", "rejected", "failed",
                        "blocked", "skipped"},
         NEW human \in BOOLEAN, NEW agent \in Agents, NEW data \in Data
  PROVE  /\ Outcome(state, human, agent, data) \in Outcomes
         /\ Outcome(state, human, agent, data).state = state
         /\ Outcome(state, human, agent, data).human = human
         /\ Outcome(state, human, agent, data).agent = agent
         /\ Outcome(state, human, agent, data).data = data
  BY DEF Outcome, Outcomes

LEMMA AgentIsTyped ==
  ASSUME NEW intent
  PROVE  Resolve(intent) \in Agents /\ None \in Agents
  BY DEF Resolve, Agents

\* A conditional task is not ready before the task its condition is about.
LEMMA ReadyAfterFirst ==
  ASSUME TypeOK, NEW r \in Requests, PlanInv(r), NEW i \in DOMAIN plan[r], Ready(r, i),
         plan[r][i].condition # None
  PROVE  i = 2 /\ plan[r][i].needs = {1} /\ stage[r][1] = "done"
<1>1. i = 2 /\ plan[r][i].needs = {1}
  BY DEF PlanInv
<1>2. ~IsParallel(r)
  BY <1>1 DEF IsParallel
<1>3. 1 \in 1..(i - 1)
  BY <1>1
<1>. QED
  BY <1>1, <1>2, <1>3 DEF Ready

\* Why a task may end before an agent is found for it.
LEMMA EarlyOutcomes ==
  ASSUME TypeOK, NEW r \in Requests, PlanInv(r), NEW i \in DOMAIN plan[r], Ready(r, i),
         EndsEarly(r, i)
  PROVE  /\ EarlyOutcome(r, i) \in Outcomes
         /\ EarlyOutcome(r, i).data = NoData
         /\ EarlyOutcome(r, i).agent = None
         /\ ~EarlyOutcome(r, i).human =>
              \/ EarlyOutcome(r, i).state = "completed"
              \/ EarlyOutcome(r, i).state = "skipped" /\ Condition(r, i, "false")
<1>. DEFINE Good(o) == /\ o \in Outcomes /\ o.data = NoData /\ o.agent = None
                       /\ ~o.human => \/ o.state = "completed"
                                      \/ o.state = "skipped" /\ Condition(r, i, "false")
<1>1. ASSUME NEW state \in {"completed", "input_required", "rejected", "blocked", "skipped"},
             NEW human \in BOOLEAN,
             \/ human
             \/ state = "completed"
             \/ state = "skipped" /\ Condition(r, i, "false")
      PROVE  Good(Outcome(state, human, None, NoData))
  <2>1. PICK o : o = Outcome(state, human, None, NoData)
    OBVIOUS
  <2>2. /\ o \in Outcomes /\ o.state = state /\ o.human = human /\ o.agent = None
        /\ o.data = NoData
    BY <2>1, OutcomeIsTyped, AgentIsTyped, NothingRead
  <2>3. Good(o)
    BY <1>1, <2>2
  <2>. QED
    BY <2>1, <2>3
<1>. HIDE DEF Good
<1>2. Good(Outcome("blocked", TRUE, None, NoData))
  BY <1>1
<1>3. Good(Outcome("input_required", TRUE, None, NoData))
  BY <1>1
<1>4. Good(Outcome("rejected", TRUE, None, NoData))
      /\ Good(Outcome("completed", FALSE, None, NoData))
  BY <1>1
<1>5. ASSUME Verdict(r, i) = "false"
      PROVE  Good(Outcome("skipped", FALSE, None, NoData))
  <2>1. /\ plan[r][i].condition # None
        /\ ConditionMatches(plan[r][i].condition, outcome[r][1].data) = "false"
    BY <1>5 DEF Verdict
  <2>2. Condition(r, i, "false")
    BY <2>1, ReadyAfterFirst DEF Condition
  <2>. QED
    BY <1>1, <2>2
<1>6. Good(Unrouted(plan[r][i].result))
  BY <1>3, <1>4 DEF Unrouted
<1>7. Good(EarlyOutcome(r, i))
  BY <1>2, <1>3, <1>5, <1>6 DEF EarlyOutcome
<1>. QED
  BY <1>7 DEF Good

\* A task that does not end early has found its condition true.
LEMMA Decided ==
  ASSUME TypeOK, NEW r \in Requests, PlanInv(r), \A j \in DOMAIN plan[r] : TaskInv(r, j),
         NEW i \in DOMAIN plan[r], Ready(r, i), ~EndsEarly(r, i),
         plan[r][i].condition # None
  PROVE  Condition(r, i, "true") /\ outcome[r][1].state = "completed"
<1>1. i = 2 /\ plan[r][i].needs = {1} /\ stage[r][1] = "done"
  BY ReadyAfterFirst
<1>2. ~outcome[r][1].human /\ ConditionMatches(plan[r][i].condition, outcome[r][1].data) = "true"
  BY <1>1 DEF EndsEarly, Blocked, Verdict
<1>3. 1 \in DOMAIN plan[r]
  BY FirstTask
<1>4. plan[r][1].condition = None
  BY <1>3 DEF PlanInv
<1>. QED
  BY <1>1, <1>2, <1>3, <1>4 DEF TaskInv, Condition

-----------------------------------------------------------------------------
(* The actions.                                                            *)

\* The steps that neither give nor return a slot.
LEMMA SlotsUntouched ==
  ASSUME SlotsInv, free' = free, waiters' = waiters,
         TasksAt("waiting")' = TasksAt("waiting"), Occupied' = Occupied
  PROVE  SlotsInv'
  BY DEF SlotsInv

LEMMA SamePlaces ==
  ASSUME UNCHANGED <<plan, stage>>
  PROVE  TasksAt("waiting")' = TasksAt("waiting") /\ Occupied' = Occupied
  BY DEF TasksAt, Occupied, IsMulti

LEMMA DeflectKeeps ==
  ASSUME IInv, NEW r \in Requests, Deflect(r)
  PROVE  IInv'
<1>. DEFINE answer == [intent |-> "unknown", confidence |-> 0, human |-> TRUE, agent |-> None,
                       tools |-> {}, decision |-> "guardrail_handoff"]
<1>1. /\ TypeOK /\ SlotsInv
      /\ \A u \in Requests : PlanInv(u) /\ \A i \in DOMAIN plan[u] : TaskInv(u, i)
  BY DEF IInv
<1>2. /\ phase[r] = "new"
      /\ response' = [response EXCEPT ![r] = answer]
      /\ phase' = [phase EXCEPT ![r] = "answered"]
      /\ UNCHANGED <<question, plan, stage, outcome, free, waiters>>
  BY DEF Deflect
<1>3. answer \in Responses
  <2>1. "unknown" \in Intents /\ None \in Agents
    BY AgentIsTyped DEF Intents
  <2>. QED
    BY <2>1 DEF Responses
<1>4. answer # None
  BY <1>3, QuestionAssumption
<1>. HIDE DEF answer
<1>5. TypeOK'
  <2>1. /\ phase' \in [Requests -> {"new", "planned", "answered", "cancelled"}]
        /\ response' \in [Requests -> Responses \cup {None}]
    BY <1>1, <1>2, <1>3 DEF TypeOK
  <2>2. \A u \in Requests : phase'[u] = "answered" <=> response'[u] # None
    BY <1>1, <1>2, <1>4 DEF TypeOK
  <2>. QED
    BY <1>1, <1>2, <2>1, <2>2 DEF TypeOK
<1>6. ASSUME NEW u \in Requests PROVE PlanInv(u)' /\ \A i \in DOMAIN plan'[u] : TaskInv(u, i)'
  <2>1. CASE u = r
    <3>1. plan'[r] = << >> /\ phase'[r] = "answered" /\ question'[r] \in AllQuestions
      BY <1>1, <1>2 DEF PlanInv, TypeOK
    <3>. QED
      BY <2>1, <3>1 DEF PlanInv
  <2>2. CASE u # r
    <3>1. phase'[u] = phase[u] /\ response'[u] = response[u]
      BY <1>1, <1>2, <2>2 DEF TypeOK
    <3>. QED
      BY <1>1, <1>2, <3>1, Untouched
  <2>. QED
    BY <2>1, <2>2
<1>7. SlotsInv'
  BY <1>1, <1>2, SlotsUntouched, SamePlaces
<1>. QED
  BY <1>5, <1>6, <1>7 DEF IInv

LEMMA RespondKeeps ==
  ASSUME IInv, NEW r \in Requests, Respond(r)
  PROVE  IInv'
<1>. DEFINE tools == {outcome[r][i].agent : i \in
                        {j \in DOMAIN plan[r] : outcome[r][j].agent # None
                                                /\ outcome[r][j].state # "failed"}}
            agent == IF IsMulti(r) THEN "multi_agent" ELSE outcome[r][1].agent
            decision == IF ~IsMulti(r) THEN SingleDecision(r)
                        ELSE IF IsParallel(r) THEN "multi_agent_parallel"
                        ELSE "complex_task_sequential"
            answer == [intent |-> plan[r][1].result.intent,
                       confidence |-> plan[r][1].result.confidence,
                       human |-> NeedHuman(r), agent |-> agent, tools |-> tools,
                       decision |-> decision]
<1>1. /\ TypeOK /\ SlotsInv
      /\ \A u \in Requests : PlanInv(u) /\ \A i \in DOMAIN plan[u] : TaskInv(u, i)
  BY DEF IInv
<1>2. /\ phase[r] = "planned"
      /\ \A i \in DOMAIN plan[r] : stage[r][i] = "done"
      /\ response' = [response EXCEPT ![r] = answer]
      /\ phase' = [phase EXCEPT ![r] = "answered"]
      /\ UNCHANGED <<question, plan, stage, outcome, free, waiters>>
  BY DEF Respond
<1>3. 1 \in DOMAIN plan[r]
  BY <1>1, <1>2 DEF PlanInv, TypeOK
<1>4. \A i \in DOMAIN plan[r] : outcome[r][i] \in Outcomes
  BY <1>1, <1>2 DEF TaskInv, TypeOK
<1>5. answer \in Responses
  <2>1. plan[r][1].result.intent \in Intents /\ plan[r][1].result.confidence \in Nat
    BY <1>1, <1>3, FirstTask DEF PlanTasks
  <2>2. agent \in Agents \cup {"multi_agent"} /\ tools \in SUBSET Agents
    BY <1>3, <1>4 DEF Outcomes
  <2>3. decision \in {"guardrail_handoff", "agent_error_handoff", "agent_delegated",
               "low_confidence_handoff", "orchestrator_direct", "capability_handoff",
               "multi_agent_parallel", "complex_task_sequential"}
    BY DEF SingleDecision
  <2>4. NeedHuman(r) \in BOOLEAN
    BY DEF NeedHuman
  <2>. HIDE DEF agent, tools, decision
  <2>. QED
    BY <2>1, <2>2, <2>3, <2>4 DEF Responses
<1>6. answer # None
  BY <1>5, QuestionAssumption
<1>7. answer.human <=> NeedHuman(r)
  OBVIOUS
<1>. HIDE DEF answer
<1>8. TypeOK'
  <2>1. /\ phase' \in [Requests -> {"new", "planned", "answered", "cancelled"}]
        /\ response' \in [Requests -> Responses \cup {None}]
    BY <1>1, <1>2, <1>5 DEF TypeOK
  <2>2. \A u \in Requests : phase'[u] = "answered" <=> response'[u] # None
    BY <1>1, <1>2, <1>6 DEF TypeOK
  <2>. QED
    BY <1>1, <1>2, <2>1, <2>2 DEF TypeOK
<1>9. ASSUME NEW u \in Requests PROVE PlanInv(u)' /\ \A i \in DOMAIN plan'[u] : TaskInv(u, i)'
  <2>1. CASE u = r
    <3>1. phase'[r] = "answered" /\ response'[r] = answer
      BY <1>1, <1>2 DEF TypeOK
    <3>2. \A i \in DOMAIN plan[r] : outcome[r][i].human => answer.human
      BY <1>7 DEF NeedHuman
    <3>3. \A i \in DOMAIN plan[r] : /\ Target(r, i)' = Target(r, i)
                                    /\ Target(r, 1)' = Target(r, 1)
                                    /\ Readings(r, i)' = Readings(r, i)
                                    /\ IsMulti(r)' = IsMulti(r)
      BY <1>2, SamePlan
    <3>4. PlanInv(r)'
      BY <1>1, <1>2, <3>1, <3>2, <3>3 DEF PlanInv
    <3>5. \A i \in DOMAIN plan[r] : TaskInv(r, i)'
      BY <1>1, <1>2, <3>3 DEF TaskInv, Condition, Given
    <3>. QED
      BY <1>2, <2>1, <3>4, <3>5
  <2>2. CASE u # r
    <3>1. phase'[u] = phase[u] /\ response'[u] = response[u]
      BY <1>1, <1>2, <2>2 DEF TypeOK
    <3>. QED
      BY <1>1, <1>2, <3>1, Untouched
  <2>. QED
    BY <2>1, <2>2
<1>10. SlotsInv'
  BY <1>1, <1>2, SlotsUntouched, SamePlaces
<1>. QED
  BY <1>8, <1>9, <1>10 DEF IInv

LEMMA EndEarlyKeeps ==
  ASSUME IInv, NEW r \in Requests, NEW i \in DOMAIN plan[r], EndEarly(r, i)
  PROVE  IInv'
<1>. DEFINE o == EarlyOutcome(r, i)
<1>1. /\ TypeOK /\ SlotsInv
      /\ \A u \in Requests : PlanInv(u) /\ \A j \in DOMAIN plan[u] : TaskInv(u, j)
  BY DEF IInv
<1>2. /\ phase[r] = "planned" /\ stage[r][i] = "idle" /\ Ready(r, i)
      /\ outcome' = [outcome EXCEPT ![r][i] = o]
      /\ stage' = [stage EXCEPT ![r][i] = "done"]
      /\ UNCHANGED <<question, phase, plan, free, waiters, response>>
  BY DEF EndEarly, Ready
<1>3. /\ o \in Outcomes /\ o.data = NoData /\ o.agent = None
      /\ ~o.human => \/ o.state = "completed"
                     \/ o.state = "skipped" /\ Condition(r, i, "false")
  BY <1>1, <1>2, EarlyOutcomes DEF EndEarly
<1>. HIDE DEF o
<1>4. /\ outcome'[r] = [outcome[r] EXCEPT ![i] = o]
      /\ stage'[r] = [stage[r] EXCEPT ![i] = "done"]
      /\ \A u \in Requests \ {r} : outcome'[u] = outcome[u] /\ stage'[u] = stage[u]
      /\ DOMAIN outcome' = Requests /\ DOMAIN stage' = Requests
  BY <1>1, <1>2 DEF TypeOK
<1>5. /\ stage[r] \in [DOMAIN plan[r] -> {"idle", "waiting", "running", "done"}]
      /\ outcome[r] \in [DOMAIN plan[r] -> Outcomes \cup {None}]
  BY <1>1 DEF TypeOK
<1>6. stage'[r][i] = "done" /\ \A j \in DOMAIN plan[r] \ {i} : stage'[r][j] = stage[r][j]
  BY <1>4, <1>5
<1>7. TypeOK'
  <2>1. /\ stage'[r] \in [DOMAIN plan[r] -> {"idle", "waiting", "running", "done"}]
        /\ outcome'[r] \in [DOMAIN plan[r] -> Outcomes \cup {None}]
    BY <1>3, <1>4, <1>5
  <2>2. \A u \in Requests :
          /\ stage'[u] \in [DOMAIN plan[u] -> {"idle", "waiting", "running", "done"}]
          /\ outcome'[u] \in [DOMAIN plan[u] -> Outcomes \cup {None}]
    BY <1>1, <1>4, <2>1 DEF TypeOK
  <2>. QED
    BY <1>1, <1>2, <1>4, <2>2 DEF TypeOK
<1>8. ASSUME NEW u \in Requests PROVE PlanInv(u)' /\ \A j \in DOMAIN plan'[u] : TaskInv(u, j)'
  <2>1. CASE u = r
    BY <1>1, <1>2, <1>3, <1>4, <1>6, <2>1, TaskEnds
  <2>2. CASE u # r
    <3>1. outcome'[u] = outcome[u] /\ stage'[u] = stage[u]
      BY <1>4, <2>2
    <3>. QED
      BY <1>1, <1>2, <3>1, Untouched
  <2>. QED
    BY <2>1, <2>2
<1>9. SlotsInv'
  <2>1. ASSUME NEW u \in Requests, NEW j \in DOMAIN plan[u], NEW x \in {"waiting", "running"}
        PROVE  stage'[u][j] = x <=> stage[u][j] = x
    BY <1>2, <1>4, <1>6
  <2>2. \A t \in Places : t[1] \in Requests
    BY DEF Places
  <2>3. \A x \in {"waiting", "running"} : TasksAt(x)' = TasksAt(x)
    BY <1>2, <2>1, <2>2 DEF TasksAt
  <2>4. Occupied' = Occupied
    BY <1>2, <2>3 DEF Occupied, IsMulti
  <2>. QED
    BY <1>1, <1>2, <2>3, <2>4, SlotsUntouched
<1>. QED
  BY <1>7, <1>8, <1>9 DEF IInv

\* The agent's result, or its failure, ends a task that runs, and its slot, if
\* it held one, is handed over.
LEMMA EndKeeps ==
  ASSUME IInv, NEW r \in Requests, NEW i \in DOMAIN plan[r], NEW o \in Outcomes,
         End(r, i, o),
         o.data \in Readings(r, i) \cup {NoData},
         ~o.human => o.state = "completed"
  PROVE  IInv'
<1>. DEFINE s == [stage EXCEPT ![r][i] = "done"]
            k == IF IsMulti(r) THEN 1 ELSE 0
<1>1. /\ TypeOK /\ SlotsInv
      /\ \A u \in Requests : PlanInv(u) /\ \A j \in DOMAIN plan[u] : TaskInv(u, j)
  BY DEF IInv
<1>2. /\ stage[r][i] = "running"
      /\ outcome' = [outcome EXCEPT ![r][i] = o]
      /\ HandOver(s, waiters, k)
      /\ UNCHANGED <<question, phase, plan, response>>
  BY DEF End
<1>3. /\ outcome'[r] = [outcome[r] EXCEPT ![i] = o]
      /\ s[r] = [stage[r] EXCEPT ![i] = "done"]
      /\ \A u \in Requests \ {r} : outcome'[u] = outcome[u] /\ s[u] = stage[u]
      /\ DOMAIN outcome' = Requests
  BY <1>1, <1>2 DEF TypeOK
<1>4. /\ stage[r] \in [DOMAIN plan[r] -> Stages]
      /\ outcome[r] \in [DOMAIN plan[r] -> Outcomes \cup {None}]
  BY <1>1 DEF TypeOK, Stages
<1>5. s[r][i] = "done" /\ \A j \in DOMAIN plan[r] \ {i} : s[r][j] = stage[r][j]
  BY <1>3, <1>4
<1>. HIDE DEF s
<1>6. \A u \in Requests : /\ DOMAIN plan'[u] \subseteq 1..MaxTasks
                          /\ s[u] \in [DOMAIN plan'[u] -> Stages]
  <2>1. s[r] \in [DOMAIN plan[r] -> Stages]
    BY <1>3, <1>4 DEF Stages
  <2>2. \A u \in Requests : s[u] \in [DOMAIN plan[u] -> Stages]
    BY <1>1, <1>3, <2>1 DEF TypeOK, Stages
  <2>3. \A u \in Requests : DOMAIN plan[u] \subseteq 1..MaxTasks
    BY <1>1, FirstTask
  <2>. QED
    BY <1>2, <2>2, <2>3
<1>7. \A t \in Places : t[1] \in Requests /\ t = <<t[1], t[2]>>
  BY DEF Places
<1>8. ASSUME NEW t \in Places, t[2] \in DOMAIN plan[t[1]]
      PROVE  s[t[1]][t[2]] = IF t = <<r, i>> THEN "done" ELSE stage[t[1]][t[2]]
  <2>1. PICK u, j : u = t[1] /\ j = t[2]
    OBVIOUS
  <2>2. u \in Requests /\ j \in DOMAIN plan[u] /\ t = <<u, j>>
    BY <1>7, <1>8, <2>1
  <2>3. s[u][j] = IF u = r /\ j = i THEN "done" ELSE stage[u][j]
    BY <1>3, <1>5, <2>2
  <2>. QED
    BY <2>1, <2>2, <2>3
<1>9. /\ waiters \in Seq(Places)
      /\ \A m, n \in DOMAIN waiters : waiters[m] = waiters[n] => m = n
      /\ ToSet(waiters) = At(plan', s, "waiting")
      /\ \A t \in At(plan', s, "waiting") : Len(plan'[t[1]]) > 1
      /\ waiters # << >> => free = 0
  <2>1. waiters \in Seq(Places)
    BY <1>1 DEF TypeOK
  <2>2. At(plan', s, "waiting") = TasksAt("waiting")
    BY <1>2, <1>8 DEF At, TasksAt
  <2>3. \A t \in TasksAt("waiting") : Len(plan[t[1]]) > 1
    BY <1>1, <1>7 DEF TasksAt, TaskInv, IsMulti
  <2>. QED
    BY <1>1, <1>2, <2>1, <2>2, <2>3 DEF SlotsInv
<1>10. Held(plan', s) = Occupied \ {<<r, i>>}
  BY <1>2, <1>8 DEF Held, At, Occupied, TasksAt, IsMulti
<1>11. <<r, i>> \in Occupied <=> IsMulti(r)
  <2>1. <<r, i>> \in Places
    BY <1>1, FirstTask DEF Places
  <2>. QED
    BY <1>2, <2>1 DEF Occupied, TasksAt
<1>12. /\ IsFiniteSet(Held(plan', s)) /\ free \in Nat
       /\ free + k + Cardinality(Held(plan', s)) = MaxParallel
  <2>1. IsFiniteSet(Occupied) /\ free + Cardinality(Occupied) = MaxParallel /\ free \in Nat
    BY <1>1 DEF SlotsInv, TypeOK
  <2>2. Cardinality(Occupied) \in Nat
    BY <2>1, FS_CardinalityType
  <2>3. /\ IsFiniteSet(Occupied \ {<<r, i>>})
        /\ Cardinality(Occupied \ {<<r, i>>}) =
             IF <<r, i>> \in Occupied THEN Cardinality(Occupied) - 1 ELSE Cardinality(Occupied)
    BY <2>1, FS_RemoveElement
  <2>4. CASE IsMulti(r)
    BY <1>10, <1>11, <2>1, <2>2, <2>3, <2>4
  <2>5. CASE ~IsMulti(r)
    BY <1>10, <1>11, <2>1, <2>2, <2>3, <2>5
  <2>. QED
    BY <2>4, <2>5
<1>13. k \in Nat
  OBVIOUS
<1>. HIDE DEF k
<1>14. /\ SlotsInv'
       /\ free' \in 0..MaxParallel
       /\ waiters' \in Seq(Places)
       /\ DOMAIN stage' = Requests
       /\ \A u \in Requests :
            /\ stage'[u] \in [DOMAIN plan'[u] -> Stages]
            /\ \A j \in DOMAIN plan'[u] :
                 \/ stage'[u][j] = s[u][j]
                 \/ s[u][j] = "waiting" /\ stage'[u][j] = "running"
  BY <1>2, <1>6, <1>9, <1>12, <1>13, HandOverKeeps
<1>15. TypeOK'
  <2>1. outcome'[r] \in [DOMAIN plan[r] -> Outcomes \cup {None}]
    BY <1>3, <1>4
  <2>2. \A u \in Requests : outcome'[u] \in [DOMAIN plan[u] -> Outcomes \cup {None}]
    BY <1>1, <1>3, <2>1 DEF TypeOK
  <2>. QED
    BY <1>1, <1>2, <1>3, <1>14, <2>2 DEF TypeOK, Stages
<1>16. ASSUME NEW u \in Requests PROVE PlanInv(u)' /\ \A j \in DOMAIN plan'[u] : TaskInv(u, j)'
  <2>1. CASE u = r
    <3>1. phase[r] = "planned"
      <4>1. phase[r] \notin {"new", "cancelled"}
        BY <1>1 DEF PlanInv
      <4>2. phase[r] # "answered"
        BY <1>1, <1>2 DEF PlanInv
      <4>. QED
        BY <1>1, <4>1, <4>2 DEF TypeOK
    <3>2. stage'[r][i] = "done"
      BY <1>2, <1>5, <1>14
    <3>3. \A j \in DOMAIN plan[r] \ {i} :
            \/ stage'[r][j] = stage[r][j]
            \/ stage[r][j] = "waiting" /\ stage'[r][j] = "running"
      BY <1>2, <1>5, <1>14
    <3>4. plan[r][i].condition # None =>
            Condition(r, i, "true") /\ outcome[r][1].state = "completed"
      BY <1>1, <1>2 DEF TaskInv, Given
    <3>. QED
      BY <1>1, <1>2, <1>3, <2>1, <3>1, <3>2, <3>3, <3>4, TaskEnds
  <2>2. CASE u # r
    <3>1. outcome'[u] = outcome[u] /\ s[u] = stage[u]
      BY <1>3, <2>2
    <3>2. \A j \in DOMAIN plan[u] :
            \/ stage'[u][j] = stage[u][j]
            \/ stage[u][j] = "waiting" /\ stage'[u][j] = "running"
      BY <1>2, <1>14, <3>1
    <3>. QED
      BY <1>1, <1>2, <3>1, <3>2, Untouched
  <2>. QED
    BY <2>1, <2>2
<1>. QED
  BY <1>14, <1>15, <1>16 DEF IInv

LEMMA AgentReturnsKeeps ==
  ASSUME IInv, NEW r \in Requests, NEW i \in DOMAIN plan[r], AgentReturns(r, i)
  PROVE  IInv'
<1>. DEFINE agent == Resolve(plan[r][i].result.intent)
<1>1. TypeOK /\ question[r] \in AllQuestions
  BY DEF IInv, PlanInv
<1>2. agent \in Agents
  BY AgentIsTyped
<1>. HIDE DEF agent
<1>3. CASE \E data \in Readings(r, i) : End(r, i, Answered(agent, "fine", data))
  <2>1. PICK data \in Readings(r, i) : End(r, i, Answered(agent, "fine", data))
    BY <1>3
  <2>2. data \in Data
    BY <1>1, ReadingsAreData
  <2>3. PICK o : o = Answered(agent, "fine", data)
    OBVIOUS
  <2>4. o = Outcome("completed", FALSE, agent, data)
    BY <2>3 DEF Answered
  <2>5. o \in Outcomes /\ o.data = data /\ o.state = "completed"
    BY <1>2, <2>2, <2>4 DEF Outcome, Outcomes
  <2>. QED
    BY <2>1, <2>3, <2>5, EndKeeps
<1>4. CASE \E kind \in Kinds \ {"fine"} : End(r, i, Answered(agent, kind, NoData))
  <2>1. PICK kind \in Kinds \ {"fine"} : End(r, i, Answered(agent, kind, NoData))
    BY <1>4
  <2>2. PICK state : state = IF kind = "missing" THEN "input_required" ELSE "partial"
    OBVIOUS
  <2>3. PICK o : o = Answered(agent, kind, NoData)
    OBVIOUS
  <2>4. o = Outcome(state, TRUE, agent, NoData)
    BY <2>2, <2>3 DEF Answered
  <2>5. o \in Outcomes /\ o.data = NoData /\ o.human
    BY <1>2, <2>2, <2>4, NothingRead DEF Outcome, Outcomes
  <2>. QED
    BY <2>1, <2>3, <2>5, EndKeeps
<1>. QED
  BY <1>3, <1>4 DEF AgentReturns, agent

LEMMA AgentRaisesKeeps ==
  ASSUME IInv, NEW r \in Requests, NEW i \in DOMAIN plan[r], AgentRaises(r, i)
  PROVE  IInv'
<1>1. PICK o : o = Failed(Resolve(plan[r][i].result.intent))
  OBVIOUS
<1>2. o \in Outcomes /\ o.data = NoData /\ o.human
  BY <1>1, AgentIsTyped, NothingRead DEF Failed, Outcome, Outcomes
<1>3. End(r, i, o)
  BY <1>1 DEF AgentRaises
<1>. QED
  BY <1>2, <1>3, EndKeeps

\* A task that starts runs, or waits for a slot when other tasks hold them all.
LEMMA StartKeeps ==
  ASSUME IInv, NEW r \in Requests, NEW i \in DOMAIN plan[r], Start(r, i)
  PROVE  IInv'
<1>1. /\ TypeOK /\ SlotsInv
      /\ \A u \in Requests : PlanInv(u) /\ \A j \in DOMAIN plan[u] : TaskInv(u, j)
  BY DEF IInv
<1>2. /\ stage[r][i] = "idle" /\ phase[r] = "planned" /\ Ready(r, i) /\ ~EndsEarly(r, i)
      /\ UNCHANGED <<question, phase, plan, outcome, response>>
  BY DEF Start, Ready
<1>3. PICK x \in {"waiting", "running"} :
        /\ stage' = [stage EXCEPT ![r][i] = x]
        /\ \/ IsMulti(r) /\ x = "running" /\ free > 0 /\ free' = free - 1 /\ waiters' = waiters
           \/ /\ IsMulti(r) /\ x = "waiting" /\ free = 0 /\ free' = free
              /\ waiters' = Append(waiters, <<r, i>>)
           \/ ~IsMulti(r) /\ x = "running" /\ free' = free /\ waiters' = waiters
  BY DEF Start
<1>4. /\ stage'[r] = [stage[r] EXCEPT ![i] = x]
      /\ \A u \in Requests \ {r} : stage'[u] = stage[u]
      /\ DOMAIN stage' = Requests
  BY <1>1, <1>3 DEF TypeOK
<1>5. stage[r] \in [DOMAIN plan[r] -> {"idle", "waiting", "running", "done"}]
  BY <1>1 DEF TypeOK
<1>6. stage'[r][i] = x /\ \A j \in DOMAIN plan[r] \ {i} : stage'[r][j] = stage[r][j]
  BY <1>4, <1>5
<1>7. <<r, i>> \in Places /\ \A t \in Places : t[1] \in Requests /\ t = <<t[1], t[2]>>
  BY <1>1, FirstTask DEF Places
<1>8. /\ waiters \in Seq(Places) /\ free \in 0..MaxParallel
      /\ IsFiniteSet(Occupied) /\ Cardinality(Occupied) \in Nat
      /\ free + Cardinality(Occupied) = MaxParallel
  BY <1>1, FS_CardinalityType DEF TypeOK, SlotsInv
<1>9. MaxParallel \in Nat
  BY PlanAssumption
<1>10. TypeOK'
  <2>1. stage'[r] \in [DOMAIN plan[r] -> {"idle", "waiting", "running", "done"}]
    BY <1>4, <1>5
  <2>2. \A u \in Requests : stage'[u] \in [DOMAIN plan[u] -> {"idle", "waiting", "running", "done"}]
    BY <1>1, <1>4, <2>1 DEF TypeOK
  <2>3. free' \in 0..MaxParallel
    BY <1>3, <1>8, <1>9
  <2>4. Append(waiters, <<r, i>>) \in Seq(Places)
    <3>1. PICK e \in Places : e = <<r, i>>
      BY <1>7
    <3>2. Append(waiters, e) \in Seq(Places)
      BY <1>8
    <3>. QED
      BY <3>1, <3>2
  <2>5. waiters' \in Seq(Places)
    BY <1>3, <1>8, <2>4
  <2>. QED
    BY <1>1, <1>2, <1>4, <2>2, <2>3, <2>5 DEF TypeOK
<1>11. ASSUME NEW u \in Requests PROVE PlanInv(u)' /\ \A j \in DOMAIN plan'[u] : TaskInv(u, j)'
  <2>1. CASE u = r
    <3>1. \A j \in DOMAIN plan[r] : stage'[r][j] = "done" <=> stage[r][j] = "done"
      BY <1>2, <1>6
    <3>2. \A j \in DOMAIN plan[r] : /\ Target(r, j)' = Target(r, j)
                                    /\ Target(r, 1)' = Target(r, 1)
                                    /\ Readings(r, j)' = Readings(r, j)
                                    /\ IsMulti(r)' = IsMulti(r)
      BY <1>2, SamePlan
    <3>3. PlanInv(r)'
      BY <1>1, <1>2, <3>1, <3>2 DEF PlanInv
    <3>4. ASSUME NEW j \in DOMAIN plan[r] PROVE TaskInv(r, j)'
      <4>1. 1 \in DOMAIN plan[r]
        BY <1>1, FirstTask
      <4>2. \A v : Condition(r, j, v) <=> Condition(r, j, v)'
        BY <1>2, <3>1, <4>1 DEF Condition
      <4>3. Given(r, j)' /\ plan[r][j].condition # None =>
              Condition(r, j, "true")' /\ outcome'[r][1].state = "completed"
        <5>1. CASE j = i
          BY <1>1, <1>2, <4>2, <5>1, Decided
        <5>2. CASE j # i
          <6>1. Given(r, j)' <=> Given(r, j)
            BY <1>2, <1>6, <5>2 DEF Given
          <6>2. TaskInv(r, j)
            BY <1>1
          <6>. QED
            BY <1>2, <4>2, <6>1, <6>2 DEF TaskInv
        <5>. QED
          BY <5>1, <5>2
      <4>4. stage'[r][j] = "waiting" => IsMulti(r)'
        <5>1. TaskInv(r, j)
          BY <1>1
        <5>. QED
          BY <1>3, <1>6, <3>2, <5>1 DEF TaskInv
      <4>5. TaskInv(r, j)
        BY <1>1
      <4>. QED
        BY <1>2, <3>1, <3>2, <4>2, <4>3, <4>4, <4>5 DEF TaskInv
    <3>. QED
      BY <1>2, <2>1, <3>3, <3>4
  <2>2. CASE u # r
    <3>1. stage'[u] = stage[u]
      BY <1>4, <2>2
    <3>. QED
      BY <1>1, <1>2, <3>1, Untouched
  <2>. QED
    BY <2>1, <2>2
<1>12. ASSUME NEW t \in Places, t[2] \in DOMAIN plan[t[1]]
       PROVE  stage'[t[1]][t[2]] = IF t = <<r, i>> THEN x ELSE stage[t[1]][t[2]]
  <2>1. PICK u, j : u = t[1] /\ j = t[2]
    OBVIOUS
  <2>2. u \in Requests /\ j \in DOMAIN plan[u] /\ t = <<u, j>>
    BY <1>7, <1>12, <2>1
  <2>3. stage'[u][j] = IF u = r /\ j = i THEN x ELSE stage[u][j]
    BY <1>4, <1>6, <2>2
  <2>. QED
    BY <2>1, <2>2, <2>3
<1>13. TasksAt(x)' = TasksAt(x) \cup {<<r, i>>}
  BY <1>2, <1>7, <1>12 DEF TasksAt
<1>14. \A y \in {"waiting", "running"} \ {x} : TasksAt(y)' = TasksAt(y)
  BY <1>2, <1>12 DEF TasksAt
<1>15. <<r, i>> \notin TasksAt("waiting") /\ <<r, i>> \notin TasksAt("running")
  BY <1>2 DEF TasksAt
<1>16. SlotsInv'
  <2>1. CASE x = "running" /\ IsMulti(r)
    <3>1. TasksAt("waiting")' = TasksAt("waiting")
      BY <1>14, <2>1
    <3>2. Occupied' = Occupied \cup {<<r, i>>} /\ <<r, i>> \notin Occupied
      BY <1>2, <1>13, <1>15, <2>1 DEF Occupied, IsMulti
    <3>3. IsFiniteSet(Occupied') /\ Cardinality(Occupied') = Cardinality(Occupied) + 1
      <4>. DEFINE A == Occupied
                  B == Occupied'
                  e == <<r, i>>
      <4>1. IsFiniteSet(A) /\ B = A \cup {e} /\ e \notin A
        BY <1>8, <3>2
      <4>. HIDE DEF A, B, e
      <4>2. IsFiniteSet(B) /\ Cardinality(B) = Cardinality(A) + 1
        BY <4>1, FS_AddElement
      <4>. QED
        BY <4>2 DEF A, B
    <3>4. free > 0 /\ free' = free - 1 /\ waiters' = waiters
      BY <1>3, <2>1
    <3>5. free' + Cardinality(Occupied') = MaxParallel
      BY <1>8, <1>9, <3>3, <3>4
    <3>6. waiters = << >>
      BY <1>1, <3>4 DEF SlotsInv
    <3>. QED
      BY <1>1, <3>1, <3>3, <3>4, <3>5, <3>6 DEF SlotsInv
  <2>2. CASE x = "running" /\ ~IsMulti(r)
    <3>1. TasksAt("waiting")' = TasksAt("waiting")
      BY <1>14, <2>2
    <3>2. Occupied' = Occupied
      BY <1>2, <1>13, <2>2 DEF Occupied, IsMulti
    <3>. QED
      BY <1>1, <1>3, <2>2, <3>1, <3>2, SlotsUntouched
  <2>3. CASE x = "waiting"
    <3>1. TasksAt("waiting")' = TasksAt("waiting") \cup {<<r, i>>}
      BY <1>13, <2>3
    <3>2. Occupied' = Occupied
      BY <1>2, <1>14, <2>3 DEF Occupied, IsMulti
    <3>3. free = 0 /\ free' = free /\ waiters' = Append(waiters, <<r, i>>)
      BY <1>3, <2>3
    <3>4. <<r, i>> \notin ToSet(waiters)
      BY <1>1, <1>15 DEF SlotsInv
    <3>5. /\ ToSet(waiters') = ToSet(waiters) \cup {<<r, i>>}
          /\ \A m, n \in DOMAIN waiters' : waiters'[m] = waiters'[n] => m = n
      <4>1. PICK e \in Places : e = <<r, i>>
        BY <1>7
      <4>2. e \notin ToSet(waiters) /\ \A m, n \in DOMAIN waiters : waiters[m] = waiters[n] => m = n
        BY <1>1, <3>4, <4>1 DEF SlotsInv
      <4>3. /\ ToSet(Append(waiters, e)) = ToSet(waiters) \cup {e}
            /\ \A m, n \in DOMAIN Append(waiters, e) :
                 Append(waiters, e)[m] = Append(waiters, e)[n] => m = n
        BY <1>8, <4>2, AppendedOnce
      <4>. QED
        BY <3>3, <4>1, <4>3
    <3>. QED
      BY <1>1, <3>1, <3>2, <3>3, <3>5 DEF SlotsInv
  <2>. QED
    BY <2>1, <2>2, <2>3
<1>. QED
  BY <1>10, <1>11, <1>16 DEF IInv

\* A request that is cancelled gives back the slots of all its tasks, and its
\* waiters leave the queue.
LEMMA CancelKeeps ==
  ASSUME IInv, NEW r \in Requests, Cancel(r)
  PROVE  IInv'
<1>. DEFINE s == [stage EXCEPT ![r] = << >>]
            gone == {t \in Occupied : t[1] = r}
            q == OtherWaiters(r)
            k == Cardinality(gone)
<1>1. /\ TypeOK /\ SlotsInv
      /\ \A u \in Requests : PlanInv(u) /\ \A j \in DOMAIN plan[u] : TaskInv(u, j)
  BY DEF IInv
<1>2. /\ phase[r] \in {"new", "planned"}
      /\ phase' = [phase EXCEPT ![r] = "cancelled"]
      /\ plan' = [plan EXCEPT ![r] = << >>]
      /\ outcome' = [outcome EXCEPT ![r] = << >>]
      /\ HandOver(s, q, k)
      /\ UNCHANGED <<question, response>>
  BY DEF Cancel
<1>3. /\ plan'[r] = << >> /\ outcome'[r] = << >> /\ s[r] = << >> /\ phase'[r] = "cancelled"
      /\ \A u \in Requests \ {r} :
           plan'[u] = plan[u] /\ outcome'[u] = outcome[u] /\ s[u] = stage[u] /\ phase'[u] = phase[u]
      /\ DOMAIN outcome' = Requests
  BY <1>1, <1>2 DEF TypeOK
<1>4. /\ waiters \in Seq(Places)
      /\ \A m, n \in DOMAIN waiters : waiters[m] = waiters[n] => m = n
      /\ ToSet(waiters) = TasksAt("waiting")
      /\ waiters # << >> => free = 0
  BY <1>1 DEF TypeOK, SlotsInv
<1>5. /\ q \in Seq(Places)
      /\ \A m, n \in DOMAIN q : q[m] = q[n] => m = n
      /\ ToSet(q) = {t \in ToSet(waiters) : t[1] # r}
  BY <1>4, OthersKept
<1>. HIDE DEF s, q
<1>6. \A u \in Requests : /\ DOMAIN plan'[u] \subseteq 1..MaxTasks
                          /\ s[u] \in [DOMAIN plan'[u] -> Stages]
  <2>1. ASSUME NEW u \in Requests \ {r}
        PROVE  /\ DOMAIN plan'[u] \subseteq 1..MaxTasks
               /\ s[u] \in [DOMAIN plan'[u] -> Stages]
    <3>1. DOMAIN plan[u] \subseteq 1..MaxTasks
      BY <1>1, FirstTask
    <3>2. stage[u] \in [DOMAIN plan[u] -> Stages]
      BY <1>1 DEF TypeOK, Stages
    <3>. QED
      BY <1>3, <3>1, <3>2
  <2>2. DOMAIN plan'[r] = {} /\ s[r] \in [{} -> Stages]
    BY <1>3
  <2>. QED
    BY <2>1, <2>2
<1>7. \A t \in Places : t[1] \in Requests /\ t = <<t[1], t[2]>>
  BY DEF Places
<1>8. \A x : At(plan', s, x) = {t \in TasksAt(x) : t[1] # r}
  BY <1>3, <1>7 DEF At, TasksAt
<1>9. Held(plan', s) = Occupied \ gone
  BY <1>3, <1>7, <1>8 DEF Held, Occupied, TasksAt, IsMulti
<1>10. gone \subseteq Occupied
  OBVIOUS
<1>. HIDE DEF gone
<1>11. /\ IsFiniteSet(Occupied) /\ Cardinality(Occupied) \in Nat
       /\ free \in Nat /\ free + Cardinality(Occupied) = MaxParallel
  BY <1>1, FS_CardinalityType DEF SlotsInv, TypeOK
<1>12. k \in Nat
  <2>1. IsFiniteSet(gone)
    BY <1>10, <1>11, FS_Subset
  <2>. QED
    BY <2>1, FS_CardinalityType
<1>13. /\ IsFiniteSet(Held(plan', s))
       /\ free + k + Cardinality(Held(plan', s)) = MaxParallel
  <2>1. /\ IsFiniteSet(Occupied \ gone)
        /\ Cardinality(Occupied \ gone) = Cardinality(Occupied) - Cardinality(Occupied \cap gone)
    BY <1>11, FS_Difference
  <2>2. Occupied \cap gone = gone
    BY <1>10
  <2>3. Cardinality(Held(plan', s)) = Cardinality(Occupied) - k
    BY <1>9, <2>1, <2>2
  <2>. HIDE DEF k
  <2>4. free + k + Cardinality(Held(plan', s)) = MaxParallel
    BY <1>11, <1>12, <2>3
  <2>. QED
    BY <1>9, <2>1, <2>4
<1>. HIDE DEF k
<1>14. \A t \in At(plan', s, "waiting") : Len(plan'[t[1]]) > 1
  BY <1>1, <1>3, <1>7, <1>8 DEF TasksAt, TaskInv, IsMulti
<1>15. ToSet(q) = At(plan', s, "waiting")
  BY <1>4, <1>5, <1>8
<1>16. q # << >> => free = 0
  <2>1. SUFFICES ASSUME q # << >> PROVE waiters # << >>
    BY <1>4
  <2>2. 1 \in DOMAIN q
    BY <1>5, <2>1
  <2>3. q[1] \in ToSet(waiters)
    BY <1>5, <2>2 DEF ToSet
  <2>. QED
    BY <2>3 DEF ToSet
<1>17. /\ SlotsInv'
       /\ free' \in 0..MaxParallel
       /\ waiters' \in Seq(Places)
       /\ DOMAIN stage' = Requests
       /\ \A u \in Requests :
            /\ stage'[u] \in [DOMAIN plan'[u] -> Stages]
            /\ \A j \in DOMAIN plan'[u] :
                 \/ stage'[u][j] = s[u][j]
                 \/ s[u][j] = "waiting" /\ stage'[u][j] = "running"
  <2>1. HandOver(s, q, k) /\ free \in Nat
    BY <1>2, <1>11
  <2>2. q \in Seq(Places) /\ \A m, n \in DOMAIN q : q[m] = q[n] => m = n
    BY <1>5
  <2>. QED
    BY <1>6, <1>12, <1>13, <1>14, <1>15, <1>16, <2>1, <2>2, HandOverKeeps
<1>18. TypeOK'
  <2>1. plan' \in [Requests -> Seq(PlanTasks)]
    BY <1>1, <1>2 DEF TypeOK
  <2>2. phase' \in [Requests -> {"new", "planned", "answered", "cancelled"}]
    BY <1>1, <1>2 DEF TypeOK
  <2>3. \A u \in Requests : Len(plan'[u]) <= MaxTasks
    <3>1. MaxTasks \in Nat /\ Len(<< >>) = 0
      BY PlanAssumption
    <3>2. \A u \in Requests \ {r} : Len(plan'[u]) <= MaxTasks
      BY <1>1, <1>3 DEF TypeOK
    <3>3. Len(plan'[r]) <= MaxTasks
      BY <1>3, <3>1
    <3>. QED
      BY <3>2, <3>3
  <2>4. \A u \in Requests : outcome'[u] \in [DOMAIN plan'[u] -> Outcomes \cup {None}]
    <3>1. \A u \in Requests \ {r} : outcome'[u] \in [DOMAIN plan'[u] -> Outcomes \cup {None}]
      BY <1>1, <1>3 DEF TypeOK
    <3>2. DOMAIN plan'[r] = {} /\ outcome'[r] \in [{} -> Outcomes \cup {None}]
      BY <1>3
    <3>. QED
      BY <3>1, <3>2
  <2>5. \A u \in Requests : phase'[u] = "answered" <=> response'[u] # None
    BY <1>1, <1>2 DEF TypeOK
  <2>. QED
    BY <1>1, <1>2, <1>3, <1>17, <2>1, <2>2, <2>3, <2>4, <2>5 DEF TypeOK, Stages
<1>19. ASSUME NEW u \in Requests PROVE PlanInv(u)' /\ \A j \in DOMAIN plan'[u] : TaskInv(u, j)'
  <2>1. CASE u = r
    <3>1. DOMAIN plan'[r] = {} /\ question'[r] \in AllQuestions
      BY <1>1, <1>2, <1>3 DEF PlanInv
    <3>. QED
      BY <1>3, <2>1, <3>1 DEF PlanInv
  <2>2. CASE u # r
    <3>1. /\ plan'[u] = plan[u] /\ outcome'[u] = outcome[u] /\ s[u] = stage[u]
          /\ phase'[u] = phase[u]
      BY <1>3, <2>2
    <3>2. \A j \in DOMAIN plan[u] :
            \/ stage'[u][j] = stage[u][j]
            \/ stage[u][j] = "waiting" /\ stage'[u][j] = "running"
      BY <1>17, <3>1
    <3>. QED
      BY <1>1, <1>2, <3>1, <3>2, Untouched
  <2>. QED
    BY <2>1, <2>2
<1>. QED
  BY <1>17, <1>18, <1>19 DEF IInv

-----------------------------------------------------------------------------
(* The plan a question makes.                                              *)

\* No part of a plan is lost but those behind the first MaxTasks.
LEMMA FirstTasksOf ==
  ASSUME NEW S, NEW s \in Seq(S), Len(s) >= 1
  PROVE  /\ FirstTasks(s) \in Seq(S)
         /\ Len(FirstTasks(s)) \in 1..MaxTasks
         /\ \A i \in DOMAIN FirstTasks(s) : i \in DOMAIN s /\ FirstTasks(s)[i] = s[i]
<1>1. Len(s) \in Nat /\ MaxTasks \in Nat \ {0}
  <2>1. Len(s) \in Nat
    OBVIOUS
  <2>. QED
    BY <2>1, PlanAssumption
<1>2. PICK n : n = Min({MaxTasks, Len(s)})
  OBVIOUS
<1>3. n = IF MaxTasks <= Len(s) THEN MaxTasks ELSE Len(s)
  BY <1>1, <1>2, MinOfTwo
<1>4. n \in Nat /\ n >= 1 /\ n <= MaxTasks /\ n <= Len(s)
  BY <1>1, <1>3
<1>5. FirstTasks(s) = SubSeq(s, 1, n)
  BY <1>2 DEF FirstTasks
<1>6. 1..n \subseteq 1..Len(s)
  BY <1>1, <1>4
<1>7. \A i \in 1..n : s[i] \in S
  BY <1>6
<1>8. /\ SubSeq(s, 1, n) \in Seq(S)
      /\ Len(SubSeq(s, 1, n)) = IF 1 <= n THEN n - 1 + 1 ELSE 0
      /\ \A i \in 1..(n - 1 + 1) : SubSeq(s, 1, n)[i] = s[1 + i - 1]
  BY <1>4, <1>7, SubSeqProperties
<1>9. n - 1 + 1 = n /\ \A i \in 1..n : 1 + i - 1 = i
  BY <1>4
<1>10. PICK f : f = FirstTasks(s)
  OBVIOUS
<1>11. f \in Seq(S) /\ Len(f) = n /\ \A i \in 1..n : f[i] = s[i]
  BY <1>4, <1>5, <1>8, <1>9, <1>10
<1>12. DOMAIN f = 1..n
  BY <1>11
<1>13. Len(f) \in 1..MaxTasks
  BY <1>1, <1>4, <1>11
<1>14. \A i \in DOMAIN f : i \in DOMAIN s /\ f[i] = s[i]
  BY <1>6, <1>11, <1>12
<1>. QED
  BY <1>10, <1>11, <1>13, <1>14

\* The segments a question is split into: the condition, if there is one, stands
\* before the second.
LEMMA SplitOf ==
  ASSUME NEW q \in AllQuestions
  PROVE  /\ DOMAIN Split(q) = 1..Len(Split(q))
         /\ Len(Split(q)) \in 1..MaxTasks
         /\ \A i \in DOMAIN Split(q) :
              /\ i \in DOMAIN q.parts
              /\ Split(q)[i].part = q.parts[i]
              /\ Split(q)[i].condition = IF i = 2 THEN q.condition ELSE None
              /\ Split(q)[i].needs = IF Split(q)[i].condition = None THEN {} ELSE {1}
<1>1. /\ q.parts \in Seq(ToSet(q.parts))
      /\ Len(q.parts) >= IF q.condition = None THEN 1 ELSE 2
  BY QuestionAssumption
<1>. DEFINE Right(s) ==
       /\ Len(s) >= 1
       /\ \A i \in DOMAIN s :
            /\ i \in DOMAIN q.parts
            /\ s[i].part = q.parts[i]
            /\ s[i].condition = IF i = 2 THEN q.condition ELSE None
            /\ s[i].needs = IF s[i].condition = None THEN {} ELSE {1}
<1>2. ASSUME NEW S, NEW s \in Seq(S), Right(s), Split(q) = FirstTasks(s)
      PROVE  /\ Split(q) \in Seq(S) /\ Len(Split(q)) \in 1..MaxTasks
             /\ \A i \in DOMAIN Split(q) :
                  /\ i \in DOMAIN q.parts
                  /\ Split(q)[i].part = q.parts[i]
                  /\ Split(q)[i].condition = IF i = 2 THEN q.condition ELSE None
                  /\ Split(q)[i].needs = IF Split(q)[i].condition = None THEN {} ELSE {1}
  <2>1. /\ FirstTasks(s) \in Seq(S)
        /\ Len(FirstTasks(s)) \in 1..MaxTasks
        /\ \A i \in DOMAIN FirstTasks(s) : i \in DOMAIN s /\ FirstTasks(s)[i] = s[i]
    BY <1>2, FirstTasksOf
  <2>. QED
    BY <1>2, <2>1
<1>3. CASE q.condition # None
  <2>. DEFINE a == Segment(q.parts[1], {}, None)
              b == Segment(q.parts[2], {1}, q.condition)
  <2>1. 1 \in DOMAIN q.parts /\ 2 \in DOMAIN q.parts
    BY <1>1, <1>3
  <2>2. /\ a.part = q.parts[1] /\ a.condition = None /\ a.needs = {}
        /\ b.part = q.parts[2] /\ b.condition = q.condition /\ b.needs = {1}
    BY DEF Segment
  <2>. HIDE DEF a, b
  <2>3. Right(<<a, b>>)
    BY <1>3, <2>1, <2>2
  <2>4. <<a, b>> \in Seq(ToSet(<<a, b>>))
    BY DEF ToSet
  <2>5. Split(q) = FirstTasks(<<a, b>>)
    BY <1>3 DEF Split, a, b
  <2>. HIDE DEF Right
  <2>6. PICK s, S : s = <<a, b>> /\ S = ToSet(<<a, b>>)
    OBVIOUS
  <2>7. s \in Seq(S) /\ Right(s) /\ Split(q) = FirstTasks(s)
    BY <2>3, <2>4, <2>5, <2>6
  <2>. QED
    BY <1>2, <2>7
<1>4. CASE q.condition = None
  <2>. DEFINE s == [i \in DOMAIN q.parts |-> Segment(q.parts[i], {}, None)]
  <2>1. Len(q.parts) >= 1 /\ Len(q.parts) \in Nat
    BY <1>1, <1>4
  <2>2. s \in Seq(ToSet(s)) /\ Len(s) = Len(q.parts) /\ DOMAIN s = DOMAIN q.parts
    BY <1>1 DEF ToSet
  <2>3. \A i \in DOMAIN s : /\ s[i].part = q.parts[i] /\ s[i].condition = None
                            /\ s[i].needs = {}
    BY DEF Segment
  <2>4. Split(q) = FirstTasks(s)
    BY <1>4 DEF Split
  <2>. HIDE DEF s
  <2>5. Right(s)
    BY <1>4, <2>1, <2>2, <2>3
  <2>. HIDE DEF Right
  <2>. QED
    BY <1>2, <2>2, <2>4, <2>5
<1>. QED
  BY <1>3, <1>4

\* What the classification of a part may be: only the rules find an order, and
\* only the one the part names.
Results == [intent : Intents, confidence : Nat, order : Known \cup {None}, byRule : BOOLEAN]

LEMMA ClassifyIs ==
  ASSUME NEW part, part.order \in Known \cup {None}, NEW answer \in ModelAnswers \cup {Deferred}
  PROVE  /\ Classify(part, answer) \in Results
         /\ Classify(part, answer).order \in {part.order, None}
         /\ Classify(part, answer).byRule => Classify(part, answer).order = part.order
<1>. DEFINE Read(intent, confidence) == [intent |-> intent, confidence |-> confidence,
                                         order |-> part.order, byRule |-> TRUE]
            matches == {n \in DOMAIN RuleOrder : RuleOrder[n] \in part.topics}
            named == part.order # None \/ part.product
<1>1. /\ DOMAIN RuleOrder \in SUBSET Nat
      /\ \A n \in DOMAIN RuleOrder : RuleOrder[n] \in Intents
      /\ {"after_sales", "order_query", "product_detail", "unknown"} \subseteq Intents
  <2>1. /\ 2 \in DOMAIN RuleOrder /\ 4 \in DOMAIN RuleOrder /\ 6 \in DOMAIN RuleOrder
        /\ RuleOrder[2] = "after_sales" /\ RuleOrder[4] = "order_query"
        /\ RuleOrder[6] = "product_detail"
        /\ DOMAIN RuleOrder \in SUBSET Nat
    BY DEF RuleOrder
  <2>2. \A n \in DOMAIN RuleOrder : RuleOrder[n] \in Intents
    BY DEF Intents, ToSet
  <2>3. "unknown" \in Intents
    BY DEF Intents
  <2>. QED
    BY <2>1, <2>2, <2>3
<1>2. ASSUME NEW intent \in Intents, NEW confidence \in Nat
      PROVE  /\ Read(intent, confidence) \in Results
             /\ Read(intent, confidence).order = part.order
  BY DEF Results
<1>3. matches # {} => Min(matches) \in DOMAIN RuleOrder
  <2>1. matches \in SUBSET Nat /\ matches \subseteq DOMAIN RuleOrder
    BY <1>1
  <2>. HIDE DEF matches
  <2>. QED
    BY <2>1, LeastOf
<1>4. Rules(part) =
        IF part.ticket THEN Read("after_sales", 98)
        ELSE IF part.refund THEN Read("order_query", 96)
        ELSE IF matches # {} THEN Read(RuleOrder[Min(matches)], IF named THEN 96 ELSE 86)
        ELSE IF named THEN Read("product_detail", 90)
        ELSE Read("unknown", 30)
  BY DEF Rules
<1>. HIDE DEF Read, matches, named
<1>5. Rules(part) \in Results /\ Rules(part).order = part.order
  <2>1. (IF named THEN 96 ELSE 86) \in Nat
    OBVIOUS
  <2>2. matches # {} => RuleOrder[Min(matches)] \in Intents
    BY <1>1, <1>3
  <2>. QED
    BY <1>1, <1>2, <1>4, <2>1, <2>2
<1>6. CASE answer = Deferred
  BY <1>5, <1>6 DEF Classify
<1>7. CASE answer # Deferred
  <2>1. answer.intent \in Intents /\ answer.confidence \in Nat
    BY <1>7, QuestionAssumption DEF Intents
  <2>2. Classify(part, answer) = [intent |-> answer.intent, confidence |-> answer.confidence,
                                  order |-> None, byRule |-> FALSE]
    BY <1>7 DEF Classify, ModelResult
  <2>. QED
    BY <2>1, <2>2 DEF Results
<1>. QED
  BY <1>6, <1>7

\* A result that names no order has the one of the last before it that does.
LEMMA InheritedIs ==
  ASSUME NEW n \in Nat, NEW results, DOMAIN results = 1..n,
         \A i \in 1..n : results[i].order \in Known \cup {None}
  PROVE  /\ DOMAIN Inherited(results) = 1..n
         /\ \A i \in 1..n : Inherited(results)[i] \in Known \cup {None}
         /\ n >= 1 => Inherited(results)[1] = results[1].order
         /\ n >= 2 /\ results[2].order = None =>
              Inherited(results)[2] = Inherited(results)[1]
<1>. DEFINE Naming(i) == {j \in 1..i : results[j].order # None}
            Order(i) == IF Naming(i) = {} THEN None ELSE results[Max(Naming(i))].order
<1>1. Inherited(results) = [i \in 1..n |-> Order(i)]
  BY DEF Inherited
<1>2. ASSUME NEW i \in 1..n, Naming(i) # {} PROVE Max(Naming(i)) \in Naming(i)
  <2>1. Naming(i) \in SUBSET (1..i) /\ i \in Nat
    OBVIOUS
  <2>. HIDE DEF Naming
  <2>. QED
    BY <1>2, <2>1, GreatestOf
<1>3. ASSUME NEW i \in 1..n PROVE Order(i) \in Known \cup {None}
  <2>1. Naming(i) \subseteq 1..n
    OBVIOUS
  <2>. HIDE DEF Naming
  <2>. QED
    BY <1>2, <2>1
<1>4. ASSUME n >= 1 PROVE Order(1) = results[1].order
  <2>1. Naming(1) = IF results[1].order = None THEN {} ELSE {1}
    OBVIOUS
  <2>2. 1 \in 1..n
    BY <1>4
  <2>. HIDE DEF Naming
  <2>. QED
    BY <1>2, <2>1, <2>2
<1>5. ASSUME n >= 2, results[2].order = None PROVE Order(2) = Order(1)
  <2>1. 1..2 = (1..1) \cup {2}
    OBVIOUS
  <2>2. Naming(2) = Naming(1)
    BY <1>5, <2>1
  <2>. HIDE DEF Naming
  <2>. QED
    BY <2>2
<1>. HIDE DEF Order
<1>6. \A i \in 1..n : Inherited(results)[i] = Order(i)
  BY <1>1
<1>7. DOMAIN Inherited(results) = 1..n
  BY <1>1
<1>8. n >= 1 => 1 \in 1..n
  OBVIOUS
<1>9. n >= 2 => 1 \in 1..n /\ 2 \in 1..n
  OBVIOUS
<1>10. n >= 2 => n >= 1
  OBVIOUS
<1>. QED
  BY <1>3, <1>4, <1>5, <1>6, <1>7, <1>8, <1>9, <1>10

\* The tasks of a question's segments, for whatever the model answers.
LEMMA TasksOf ==
  ASSUME NEW q \in AllQuestions,
         NEW answers \in [DOMAIN Split(q) -> ModelAnswers \cup {Deferred}]
  PROVE  LET p == Tasks(Split(q), answers) IN
         /\ p \in Seq(PlanTasks)
         /\ Len(p) \in 1..MaxTasks
         /\ \A i \in DOMAIN p :
              /\ p[i].condition = IF i = 2 THEN q.condition ELSE None
              /\ p[i].needs = IF p[i].condition = None THEN {} ELSE {1}
              /\ p[i].condition # None /\ p[i].named = None /\ p[1].result.byRule =>
                   p[i].result.order = p[1].named /\ p[1].result.order = p[1].named
<1>. DEFINE s == Split(q)
            results == [i \in DOMAIN s |-> Classify(s[i].part, answers[i])]
            order == Inherited(results)
            p == Tasks(s, answers)
<1>1. PICK n : n = Len(s)
  OBVIOUS
<1>2. n \in Nat /\ n >= 1 /\ n <= MaxTasks /\ DOMAIN s = 1..n
  <2>1. MaxTasks \in Nat
    BY PlanAssumption
  <2>2. DOMAIN s = 1..n /\ n \in 1..MaxTasks
    BY <1>1, SplitOf
  <2>. QED
    BY <2>1, <2>2
<1>3. \A i \in 1..n :
        /\ i \in DOMAIN q.parts
        /\ s[i].part = q.parts[i]
        /\ s[i].condition = IF i = 2 THEN q.condition ELSE None
        /\ s[i].needs = IF s[i].condition = None THEN {} ELSE {1}
  BY <1>2, SplitOf
<1>4. ASSUME NEW i \in 1..n
      PROVE  s[i].part.order \in Known \cup {None} /\ s[i].condition \in Conditions
  <2>1. q.parts[i].order \in Known \cup {None}
    BY <1>3 DEF Known
  <2>2. q.condition \in Conditions /\ None \in Conditions
    BY DEF Conditions
  <2>. QED
    BY <1>3, <2>1, <2>2
<1>. HIDE DEF s
<1>5. ASSUME NEW i \in 1..n
      PROVE  /\ results[i] \in Results
             /\ results[i].order \in {s[i].part.order, None}
             /\ results[i].byRule => results[i].order = s[i].part.order
  <2>1. answers[i] \in ModelAnswers \cup {Deferred}
    BY <1>2 DEF s
  <2>. QED
    BY <1>2, <1>4, <2>1, ClassifyIs
<1>6. DOMAIN results = 1..n
  BY <1>2
<1>7. p = [i \in 1..n |->
             [result |-> [results[i] EXCEPT !.order = order[i]],
              named |-> s[i].part.order, needs |-> s[i].needs,
              condition |-> s[i].condition]]
  BY <1>2 DEF Tasks
<1>. HIDE DEF results, p
<1>8. \A i \in 1..n : results[i].order \in Known \cup {None}
  BY <1>4, <1>5
<1>9. /\ \A i \in 1..n : order[i] \in Known \cup {None}
      /\ order[1] = results[1].order
      /\ n >= 2 /\ results[2].order = None => order[2] = order[1]
  BY <1>2, <1>6, <1>8, InheritedIs
<1>. HIDE DEF order
<1>10. ASSUME NEW i \in 1..n
       PROVE  /\ [results[i] EXCEPT !.order = order[i]] \in Results
              /\ [results[i] EXCEPT !.order = order[i]].order = order[i]
              /\ [results[i] EXCEPT !.order = order[i]].byRule = results[i].byRule
  BY <1>5, <1>9 DEF Results
<1>11. ASSUME NEW i \in 1..n
       PROVE  /\ p[i].result \in Results
              /\ p[i].result.order = order[i]
              /\ p[i].result.byRule = results[i].byRule
              /\ p[i].named = s[i].part.order
              /\ p[i].needs = s[i].needs
              /\ p[i].condition = s[i].condition
              /\ p[i] = [result |-> p[i].result, named |-> p[i].named,
                         needs |-> p[i].needs, condition |-> p[i].condition]
  <2>1. PICK x : x = [results[i] EXCEPT !.order = order[i]]
    OBVIOUS
  <2>2. x \in Results /\ x.order = order[i] /\ x.byRule = results[i].byRule
    BY <1>10, <2>1
  <2>3. p[i] = [result |-> x, named |-> s[i].part.order, needs |-> s[i].needs,
                condition |-> s[i].condition]
    BY <1>7, <2>1
  <2>. QED
    BY <2>2, <2>3
<1>12. ASSUME NEW i \in 1..n PROVE p[i] \in PlanTasks
  <2>1. p[i].needs \in SUBSET {1}
    BY <1>3, <1>11
  <2>2. p[i].named \in Known \cup {None} /\ p[i].condition \in Conditions
    BY <1>4, <1>11
  <2>3. p[i].result \in Results
    BY <1>11
  <2>4. p[i] = [result |-> p[i].result, named |-> p[i].named,
                needs |-> p[i].needs, condition |-> p[i].condition]
    BY <1>11
  <2>5. PlanTasks = [result : Results, named : Known \cup {None}, needs : SUBSET {1},
                     condition : Conditions]
    BY DEF PlanTasks, Results
  <2>. QED
    BY <2>1, <2>2, <2>3, <2>4, <2>5
<1>13. p \in Seq(PlanTasks) /\ Len(p) = n /\ DOMAIN p = 1..n
  <2>1. DOMAIN p = 1..n /\ p = [i \in 1..n |-> p[i]]
    BY <1>7
  <2>. QED
    BY <1>2, <1>12, <2>1
<1>14. ASSUME NEW i \in 1..n, p[i].condition # None, p[i].named = None, p[1].result.byRule
       PROVE  p[i].result.order = p[1].named /\ p[1].result.order = p[1].named
  <2>0. p[i].condition = s[i].condition
    BY <1>11
  <2>1. i = 2 /\ 1 \in 1..n /\ n >= 2
    <3>1. i = 2
      BY <1>3, <1>14, <2>0
    <3>. QED
      BY <1>2, <3>1
  <2>2. results[2].order = None
    BY <1>5, <1>11, <1>14, <2>1
  <2>3. order[1] = s[1].part.order
    BY <1>5, <1>9, <1>11, <1>14, <2>1
  <2>4. order[2] = order[1]
    BY <1>9, <2>1, <2>2
  <2>. QED
    BY <1>11, <2>1, <2>3, <2>4
<1>15. ASSUME NEW i \in 1..n
       PROVE  /\ p[i].condition = IF i = 2 THEN q.condition ELSE None
              /\ p[i].needs = IF p[i].condition = None THEN {} ELSE {1}
  <2>1. p[i].condition = s[i].condition /\ p[i].needs = s[i].needs
    BY <1>11
  <2>. QED
    BY <1>3, <2>1
<1>16. Len(p) \in 1..MaxTasks
  <2>1. MaxTasks \in Nat
    BY PlanAssumption
  <2>. QED
    BY <1>2, <1>13, <2>1
<1>17. /\ p \in Seq(PlanTasks)
       /\ Len(p) \in 1..MaxTasks
       /\ \A i \in DOMAIN p :
            /\ p[i].condition = IF i = 2 THEN q.condition ELSE None
            /\ p[i].needs = IF p[i].condition = None THEN {} ELSE {1}
            /\ p[i].condition # None /\ p[i].named = None /\ p[1].result.byRule =>
                 p[i].result.order = p[1].named /\ p[1].result.order = p[1].named
  BY <1>13, <1>14, <1>15, <1>16
<1>. QED
  BY <1>17 DEF p, s

LEMMA BuildKeeps ==
  ASSUME IInv, NEW r \in Requests, Build(r)
  PROVE  IInv'
<1>1. /\ TypeOK /\ SlotsInv
      /\ \A u \in Requests : PlanInv(u) /\ \A j \in DOMAIN plan[u] : TaskInv(u, j)
  BY DEF IInv
<1>2. PICK answers \in [DOMAIN Split(question[r]) -> ModelAnswers \cup {Deferred}] :
        plan' = [plan EXCEPT ![r] = Tasks(Split(question[r]), answers)]
  BY DEF Build
<1>3. PICK p : p = Tasks(Split(question[r]), answers)
  OBVIOUS
<1>4. /\ phase[r] = "new"
      /\ plan' = [plan EXCEPT ![r] = p]
      /\ stage' = [stage EXCEPT ![r] = [i \in DOMAIN plan'[r] |-> "idle"]]
      /\ outcome' = [outcome EXCEPT ![r] = [i \in DOMAIN plan'[r] |-> None]]
      /\ phase' = [phase EXCEPT ![r] = "planned"]
      /\ UNCHANGED <<question, free, waiters, response>>
  BY <1>2, <1>3 DEF Build
<1>5. question[r] \in AllQuestions /\ plan[r] = << >>
  BY <1>1, <1>4 DEF PlanInv
<1>6. /\ p \in Seq(PlanTasks)
      /\ Len(p) \in 1..MaxTasks
      /\ \A i \in DOMAIN p :
           /\ p[i].condition = IF i = 2 THEN question[r].condition ELSE None
           /\ p[i].needs = IF p[i].condition = None THEN {} ELSE {1}
           /\ p[i].condition # None /\ p[i].named = None /\ p[1].result.byRule =>
                p[i].result.order = p[1].named /\ p[1].result.order = p[1].named
  BY <1>3, <1>5, TasksOf
<1>7. /\ plan'[r] = p /\ phase'[r] = "planned"
      /\ stage'[r] = [i \in DOMAIN p |-> "idle"]
      /\ outcome'[r] = [i \in DOMAIN p |-> None]
      /\ \A u \in Requests \ {r} :
           plan'[u] = plan[u] /\ stage'[u] = stage[u] /\ outcome'[u] = outcome[u]
           /\ phase'[u] = phase[u]
      /\ DOMAIN stage' = Requests /\ DOMAIN outcome' = Requests
  <2>1. plan'[r] = p
    BY <1>1, <1>4 DEF TypeOK
  <2>. QED
    BY <1>1, <1>4, <2>1 DEF TypeOK
<1>8. TypeOK'
  <2>1. plan' \in [Requests -> Seq(PlanTasks)]
    BY <1>1, <1>4, <1>6 DEF TypeOK
  <2>2. phase' \in [Requests -> {"new", "planned", "answered", "cancelled"}]
    BY <1>1, <1>4 DEF TypeOK
  <2>3. \A u \in Requests : Len(plan'[u]) <= MaxTasks
    <3>1. \A u \in Requests \ {r} : Len(plan'[u]) <= MaxTasks
      BY <1>1, <1>7 DEF TypeOK
    <3>2. Len(p) <= MaxTasks
      <4>1. MaxTasks \in Nat
        BY PlanAssumption
      <4>. QED
        BY <1>6, <4>1
    <3>. QED
      BY <1>7, <3>1, <3>2
  <2>4. \A u \in Requests :
          /\ stage'[u] \in [DOMAIN plan'[u] -> {"idle", "waiting", "running", "done"}]
          /\ outcome'[u] \in [DOMAIN plan'[u] -> Outcomes \cup {None}]
    <3>1. \A u \in Requests \ {r} :
            /\ stage'[u] \in [DOMAIN plan'[u] -> {"idle", "waiting", "running", "done"}]
            /\ outcome'[u] \in [DOMAIN plan'[u] -> Outcomes \cup {None}]
      BY <1>1, <1>7 DEF TypeOK
    <3>2. /\ stage'[r] \in [DOMAIN plan'[r] -> {"idle", "waiting", "running", "done"}]
          /\ outcome'[r] \in [DOMAIN plan'[r] -> Outcomes \cup {None}]
      BY <1>7
    <3>. QED
      BY <3>1, <3>2
  <2>5. \A u \in Requests : phase'[u] = "answered" <=> response'[u] # None
    BY <1>1, <1>4 DEF TypeOK
  <2>. QED
    BY <1>1, <1>4, <1>7, <2>1, <2>2, <2>3, <2>4, <2>5 DEF TypeOK
<1>9. ASSUME NEW u \in Requests PROVE PlanInv(u)' /\ \A j \in DOMAIN plan'[u] : TaskInv(u, j)'
  <2>1. CASE u = r
    <3>1. \A i \in DOMAIN p : stage'[r][i] = "idle" /\ outcome'[r][i] = None
      BY <1>7
    <3>2. \A i \in DOMAIN p :
            p[i].condition # None /\ p[i].named = None /\ p[1].result.byRule =>
              Target(r, i)' = Target(r, 1)'
      BY <1>6, <1>7 DEF Target
    <3>3. p # << >>
      BY <1>6
    <3>4. question'[r] = question[r]
      BY <1>4
    <3>5. PlanInv(r)'
      BY <1>5, <1>6, <1>7, <3>2, <3>3, <3>4 DEF PlanInv
    <3>6. \A i \in DOMAIN p : TaskInv(r, i)'
      BY <1>7, <3>1 DEF TaskInv, Given
    <3>. QED
      BY <1>7, <2>1, <3>5, <3>6
  <2>2. CASE u # r
    <3>1. /\ plan'[u] = plan[u] /\ outcome'[u] = outcome[u] /\ stage'[u] = stage[u]
          /\ phase'[u] = phase[u]
      BY <1>7, <2>2
    <3>. QED
      BY <1>1, <1>4, <3>1, Untouched
  <2>. QED
    BY <2>1, <2>2
<1>10. SlotsInv'
  <2>1. \A t \in Places : t[1] \in Requests
    BY DEF Places
  <2>2. \A i \in DOMAIN p : stage'[r][i] = "idle"
    BY <1>7
  <2>3. \A x \in {"waiting", "running"} : TasksAt(x)' = TasksAt(x)
    <3>1. ASSUME NEW x \in {"waiting", "running"}, NEW t \in Places
          PROVE  t[2] \in DOMAIN plan'[t[1]] /\ stage'[t[1]][t[2]] = x
                   <=> t[2] \in DOMAIN plan[t[1]] /\ stage[t[1]][t[2]] = x
      BY <1>5, <1>7, <2>1, <2>2
    <3>. QED
      BY <3>1 DEF TasksAt
  <2>4. Occupied' = Occupied
    <3>1. \A t \in TasksAt("running") : t[1] \in Requests \ {r}
      BY <1>5, <2>1 DEF TasksAt
    <3>. QED
      BY <1>7, <2>3, <3>1 DEF Occupied, IsMulti
  <2>. QED
    BY <1>1, <1>4, <2>3, <2>4, SlotsUntouched
<1>. QED
  BY <1>8, <1>9, <1>10 DEF IInv

-----------------------------------------------------------------------------
(* The invariant.                                                          *)

LEMMA InitIInv == Init => IInv
<1>1. SUFFICES ASSUME Init PROVE IInv
  OBVIOUS
<1>2. /\ question \in [Requests -> AllQuestions]
      /\ phase = [r \in Requests |-> "new"]
      /\ plan = [r \in Requests |-> << >>]
      /\ stage = [r \in Requests |-> << >>]
      /\ outcome = [r \in Requests |-> << >>]
      /\ free = MaxParallel
      /\ waiters = << >>
      /\ response = [r \in Requests |-> None]
  BY <1>1 DEF Init, AllQuestions
<1>3. MaxParallel \in Nat /\ MaxTasks \in Nat
  BY PlanAssumption
<1>4. TypeOK
  <2>1. << >> \in Seq(PlanTasks) /\ << >> \in Seq(Places) /\ Len(<< >>) = 0 /\ DOMAIN << >> = {}
    OBVIOUS
  <2>2. \A S : << >> \in [{} -> S]
    OBVIOUS
  <2>3. free \in 0..MaxParallel
    BY <1>2, <1>3
  <2>4. \A r \in Requests : Len(plan[r]) <= MaxTasks
    BY <1>2, <1>3, <2>1
  <2>5. \A r \in Requests :
          /\ stage[r] \in [DOMAIN plan[r] -> {"idle", "waiting", "running", "done"}]
          /\ outcome[r] \in [DOMAIN plan[r] -> Outcomes \cup {None}]
          /\ phase[r] = "answered" <=> response[r] # None
    BY <1>2, <2>1, <2>2
  <2>. QED
    BY <1>2, <2>1, <2>3, <2>4, <2>5 DEF TypeOK
<1>5. ASSUME NEW r \in Requests PROVE PlanInv(r) /\ \A i \in DOMAIN plan[r] : TaskInv(r, i)
  BY <1>2 DEF PlanInv
<1>6. SlotsInv
  <2>1. TasksAt("waiting") = {} /\ TasksAt("running") = {}
    BY <1>2 DEF TasksAt, Places
  <2>2. Occupied = {}
    BY <2>1 DEF Occupied
  <2>3. IsFiniteSet(Occupied) /\ Cardinality(Occupied) = 0
    BY <2>2, FS_EmptySet
  <2>4. ToSet(waiters) = {}
    BY <1>2 DEF ToSet
  <2>5. free + Cardinality(Occupied) = MaxParallel
    BY <1>2, <1>3, <2>3
  <2>6. DOMAIN waiters = {} /\ waiters = << >>
    BY <1>2
  <2>. QED
    BY <2>1, <2>3, <2>4, <2>5, <2>6 DEF SlotsInv
<1>. QED
  BY <1>4, <1>5, <1>6 DEF IInv

LEMMA NextIInv == IInv /\ [Next]_vars => IInv'
<1>1. SUFFICES ASSUME IInv, [Next]_vars PROVE IInv'
  OBVIOUS
<1>2. ASSUME NEW r \in Requests, Deflect(r) PROVE IInv'
  BY <1>1, <1>2, DeflectKeeps
<1>3. ASSUME NEW r \in Requests, Build(r) PROVE IInv'
  BY <1>1, <1>3, BuildKeeps
<1>4. ASSUME NEW r \in Requests, Respond(r) PROVE IInv'
  BY <1>1, <1>4, RespondKeeps
<1>5. ASSUME NEW r \in Requests, NEW i \in DOMAIN plan[r], EndEarly(r, i) PROVE IInv'
  BY <1>1, <1>5, EndEarlyKeeps
<1>6. ASSUME NEW r \in Requests, NEW i \in DOMAIN plan[r], Start(r, i) PROVE IInv'
  BY <1>1, <1>6, StartKeeps
<1>7. ASSUME NEW r \in Requests, NEW i \in DOMAIN plan[r], AgentReturns(r, i) PROVE IInv'
  BY <1>1, <1>7, AgentReturnsKeeps
<1>8. ASSUME NEW r \in Requests, NEW i \in DOMAIN plan[r], AgentRaises(r, i) PROVE IInv'
  BY <1>1, <1>8, AgentRaisesKeeps
<1>9. ASSUME NEW r \in Requests, Cancel(r) PROVE IInv'
  BY <1>1, <1>9, CancelKeeps
<1>10. CASE UNCHANGED vars
  <2>1. UNCHANGED <<question, phase, plan, stage, outcome, free, waiters, response>>
    BY <1>10 DEF vars
  <2>2. /\ TypeOK /\ SlotsInv
        /\ \A u \in Requests : PlanInv(u) /\ \A j \in DOMAIN plan[u] : TaskInv(u, j)
    BY <1>1 DEF IInv
  <2>3. TypeOK'
    BY <2>1, <2>2 DEF TypeOK
  <2>4. \A u \in Requests : PlanInv(u)' /\ \A j \in DOMAIN plan'[u] : TaskInv(u, j)'
    BY <2>1, <2>2, Untouched
  <2>5. SlotsInv'
    BY <2>1, <2>2, SlotsUntouched, SamePlaces
  <2>. QED
    BY <2>3, <2>4, <2>5 DEF IInv
<1>11. CASE Next
  BY <1>2, <1>3, <1>4, <1>5, <1>6, <1>7, <1>8, <1>9, <1>11 DEF Next, Step
<1>. QED
  BY <1>1, <1>10, <1>11

\* What is proved below holds from the first state on, since every action of
\* every request keeps the invariant.
LEMMA Invariance == Spec => []IInv
<1>1. Init => IInv
  BY InitIInv
<1>2. IInv /\ [Next]_vars => IInv'
  BY NextIInv
<1>. QED
  BY <1>1, <1>2, PTL DEF Spec

-----------------------------------------------------------------------------
(* What it promises.                                                       *)

\* Every variable keeps its type: a plan has at most MaxTasks tasks, each of
\* them a stage and an outcome, and every answer is complete.
THEOREM TypeCorrect == Spec => []TypeOK
<1>1. IInv => TypeOK
  BY DEF IInv
<1>. QED
  BY <1>1, Invariance, PTL

\* README.md:70, service.py:362: one gate of max_parallel_tasks for the planned
\* tasks of all requests, whichever fail or are cancelled: no slot is lost or
\* given twice, and none is free while a task waits.
THEOREM OneGate == Spec => []SlotsConserved
<1>1. IInv => SlotsConserved
  BY DEF IInv, SlotsInv, SlotsConserved
<1>. QED
  BY <1>1, Invariance, PTL

\* README.md:71-72, service.py:244: no agent is given a conditional task before
\* the task its condition is about has found the condition true, with nothing
\* left for a human.
THEOREM ConditionFirst == Spec => []ActsOnlyWhenDecided
<1>1. IInv => ActsOnlyWhenDecided
  <2>1. SUFFICES ASSUME IInv, NEW r \in Requests, NEW i \in DOMAIN plan[r],
                        question[r].condition # None, i = 2, Acted(r, i)
                 PROVE  /\ outcome[r][1] # None
                        /\ outcome[r][1].state = "completed"
                        /\ ConditionMatches(question[r].condition, outcome[r][1].data) = "true"
    BY DEF ActsOnlyWhenDecided
  <2>2. TypeOK /\ PlanInv(r) /\ \A j \in DOMAIN plan[r] : TaskInv(r, j)
    BY <2>1 DEF IInv
  <2>3. plan[r][i].condition = question[r].condition
    BY <2>1, <2>2 DEF PlanInv
  <2>4. Given(r, i)
    BY <2>1 DEF Acted, Given
  <2>5. Condition(r, i, "true") /\ outcome[r][1].state = "completed"
    BY <2>1, <2>2, <2>3, <2>4 DEF TaskInv
  <2>6. 1 \in DOMAIN plan[r]
    BY <2>2, FirstTask
  <2>. QED
    BY <2>2, <2>3, <2>5, <2>6 DEF Condition, TaskInv
<1>. QED
  BY <1>1, Invariance, PTL

\* README.md:71, planner.py:62: where the rules read the first part of "check
\* the logistics, if it has not shipped apply for a refund", the refund is for
\* the very order whose logistics were looked at.
THEOREM SameOrder == Spec => []ActsOnExaminedOrder
<1>1. IInv => ActsOnExaminedOrder
  <2>1. SUFFICES ASSUME IInv, NEW r \in Requests, NEW i \in DOMAIN plan[r],
                        plan[r][i].condition = "not shipped", Acted(r, i),
                        plan[r][i].named = None, plan[r][1].result.byRule,
                        Target(r, 1) # None
                 PROVE  DOMAIN outcome[r][1].data.seen = {Target(r, i)}
    BY DEF ActsOnExaminedOrder
  <2>2. TypeOK /\ PlanInv(r) /\ \A j \in DOMAIN plan[r] : TaskInv(r, j)
    BY <2>1 DEF IInv
  <2>3. "not shipped" # None
    BY PlanAssumption
  <2>4. Given(r, i)
    BY <2>1 DEF Acted, Given
  <2>5. Condition(r, i, "true")
    BY <2>1, <2>2, <2>3, <2>4 DEF TaskInv
  <2>6. Target(r, i) = Target(r, 1)
    BY <2>1, <2>2, <2>3 DEF PlanInv
  <2>7. 1 \in DOMAIN plan[r]
    BY <2>2, FirstTask
  <2>8. outcome[r][1].data \in Readings(r, 1) \cup {NoData}
    BY <2>2, <2>5, <2>7 DEF Condition, TaskInv
  <2>9. \E u \in DOMAIN outcome[r][1].data.seen : outcome[r][1].data.seen[u] = "pending"
    BY <2>1, <2>5 DEF Condition, ConditionMatches
  <2>10. outcome[r][1].data.seen # << >>
    BY <2>9
  <2>11. outcome[r][1].data \in OrderReadings(Target(r, 1))
    BY <2>8, <2>10 DEF Readings, StockReadings, NoData
  <2>12. \E s \in [{Target(r, 1)} -> Statuses] :
           outcome[r][1].data = [seen |-> s, stock |-> "absent"]
    <3>1. PICK d, u : d = outcome[r][1].data /\ u = Target(r, 1)
      OBVIOUS
    <3>2. u # None /\ d.seen # << >> /\ d \in OrderReadings(u)
      BY <2>1, <2>10, <2>11, <3>1
    <3>3. d # NoData
      BY <3>2 DEF NoData
    <3>4. d \in {[seen |-> s, stock |-> "absent"] : s \in [{u} -> Statuses]}
      BY <3>2, <3>3 DEF OrderReadings
    <3>. QED
      BY <3>1, <3>4
  <2>. QED
    BY <2>6, <2>12
<1>. QED
  BY <1>1, Invariance, PTL

\* README.md:48, 73: an answer that asks for no human has every planned task
\* completed, or left out because its condition was found false.
THEOREM FailuresShow == Spec => []NoSilentFailure
<1>1. IInv => NoSilentFailure
  BY DEF IInv, PlanInv, TaskInv, Condition, NoSilentFailure
<1>. QED
  BY <1>1, Invariance, PTL

=============================================================================
