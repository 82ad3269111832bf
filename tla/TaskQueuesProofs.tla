---------------------------- MODULE TaskQueuesProofs ----------------------------
(***************************************************************************)
(* Proofs about TaskQueues, for any tasks, workers, operators and moves,   *)
(* and any number of messages, commands and faults.  Everything rests on   *)
(* counting: what every Redis command does to the number of messages a     *)
(* task has in a list.                                                     *)
(***************************************************************************)
EXTENDS TaskQueues, FiniteSetTheorems, FunctionTheorems, SequenceTheorems,
        WellFoundedInduction, TLAPS

USE NoMessageAssumption, FiniteAssumption, AnnotatedAssumption, CommandsAssumption,
    BoundsAssumption

---------------------------------------------------------------------------------
(* Counting in a list. *)

(* A set of naturals that is not empty has a least element. *)
LEMMA LeastElement ==
  ASSUME NEW N \in SUBSET Nat, N # {}
  PROVE  \E n \in N : \A k \in N : n <= k
<1> DEFINE upTo == {0 .. n : n \in N}
<1>1. upTo \subseteq FiniteSubsetsOf(Nat) /\ upTo # {}
  <2>1. ASSUME NEW n \in N PROVE 0 .. n \in SUBSET Nat /\ IsFiniteSet(0 .. n)
    <3>1. IsFiniteSet(0 .. n)
      BY FS_Interval
    <3> QED BY <3>1
  <2> QED
    BY <2>1 DEF FiniteSubsetsOf
<1>2. PICK x \in upTo : \A y \in upTo : <<y, x>> \notin StrictSubsetOrdering(Nat)
  <2> HIDE DEF upTo
  <2> QED BY <1>1, FS_StrictSubsetOrderingWellFounded, WFMin
<1>3. PICK n \in N : x = 0 .. n
  BY <1>2
<1>4. ASSUME NEW k \in N, k < n PROVE FALSE
  <2>1. 0 .. k \in upTo /\ 0 .. k \in SUBSET Nat /\ 0 .. n \in SUBSET Nat
    OBVIOUS
  <2>2. 0 .. k \subseteq 0 .. n /\ 0 .. k # 0 .. n
    BY <1>4
  <2> QED
    BY <1>2, <1>3, <2>1, <2>2 DEF StrictSubsetOrdering
<1> QED
  BY <1>4

LEMMA CountType ==
  ASSUME NEW s \in Seq(Messages), NEW t
  PROVE  IsFiniteSet({i \in DOMAIN s : s[i].task = t}) /\ Count(s, t) \in Nat
<1>1. DOMAIN s = 1 .. Len(s) /\ Len(s) \in Nat
  BY LenProperties
<1>2. IsFiniteSet(DOMAIN s)
  BY <1>1, FS_Interval
<1>3. IsFiniteSet({i \in DOMAIN s : s[i].task = t})
  BY <1>2, FS_Subset
<1> QED
  BY <1>3, FS_CardinalityType DEF Count

LEMMA CountPositive ==
  ASSUME NEW s \in Seq(Messages), NEW t
  PROVE  Count(s, t) > 0 <=> \E i \in DOMAIN s : s[i].task = t
<1>1. Count(s, t) = 0 <=> {i \in DOMAIN s : s[i].task = t} = {}
  BY CountType, FS_EmptySet DEF Count
<1>2. Count(s, t) \in Nat
  BY CountType
<1> QED
  BY <1>1, <1>2

LEMMA DropAtType ==
  ASSUME NEW s \in Seq(Messages), NEW i \in DOMAIN s
  PROVE  DropAt(s, i) \in Seq(Messages) /\ Len(DropAt(s, i)) = Len(s) - 1
<1>1. DOMAIN s = 1 .. Len(s) /\ Len(s) \in Nat /\ \A j \in 1 .. Len(s) : s[j] \in Messages
  BY LenProperties
<1>2. DropAt(s, i) \in [1 .. Len(s) - 1 -> Messages] /\ Len(s) - 1 \in Nat
  BY <1>1 DEF DropAt
<1>3. DropAt(s, i) \in Seq(Messages)
  BY <1>2, SeqDef
<1>4. DOMAIN DropAt(s, i) = 1 .. Len(DropAt(s, i)) /\ Len(DropAt(s, i)) \in Nat
  BY <1>3, LenProperties
<1>5. DOMAIN DropAt(s, i) = 1 .. Len(s) - 1
  BY DEF DropAt
<1>6. Len(DropAt(s, i)) = Len(s) - 1
  BY <1>2, <1>4, <1>5
<1> QED
  BY <1>3, <1>6

(* Taking the element at i out of a list takes one off the count of its    *)
(* task, and of no other.                                                  *)
LEMMA CountDropAt ==
  ASSUME NEW s \in Seq(Messages), NEW i \in DOMAIN s, NEW t
  PROVE  Count(s, t) = Count(DropAt(s, i), t) + (IF s[i].task = t THEN 1 ELSE 0)
<1> DEFINE r == DropAt(s, i)
           A == {j \in DOMAIN s : s[j].task = t}
           B == {j \in DOMAIN r : r[j].task = t}
           f == [j \in B |-> IF j < i THEN j ELSE j + 1]
<1>1. DOMAIN s = 1 .. Len(s) /\ Len(s) \in Nat
  BY LenProperties
<1>2. /\ DOMAIN r = 1 .. Len(s) - 1
      /\ \A j \in DOMAIN r : r[j] = IF j < i THEN s[j] ELSE s[j + 1]
  BY DEF DropAt
<1>3. f \in [B -> A \ {i}]
  BY <1>1, <1>2
<1>4. ASSUME NEW j \in B, NEW k \in B, f[j] = f[k] PROVE j = k
  BY <1>1, <1>2, <1>4
<1>5. ASSUME NEW k \in A \ {i} PROVE \E j \in B : f[j] = k
  <2>1. CASE k < i
    BY <1>1, <1>2, <2>1
  <2>2. CASE k > i
    <3>1. k - 1 \in DOMAIN r /\ r[k - 1] = s[k]
      BY <1>1, <1>2, <2>2
    <3>2. k - 1 \in B /\ f[k - 1] = k
      BY <1>1, <1>2, <2>2, <3>1
    <3> QED BY <3>2
  <2> QED
    BY <1>1, <2>1, <2>2
<1>6. f \in Bijection(B, A \ {i})
  BY <1>3, <1>4, <1>5, Fun_IsBij
<1>7. IsFiniteSet(B) /\ IsFiniteSet(A)
  BY CountType, DropAtType
<1>8. Cardinality(B) = Cardinality(A \ {i})
  BY <1>6, <1>7, FS_Bijection DEF ExistsBijection
<1>9. Cardinality(A \ {i}) = IF i \in A THEN Cardinality(A) - 1 ELSE Cardinality(A)
  BY <1>7, FS_RemoveElement
<1> QED
  BY <1>7, <1>8, <1>9, FS_CardinalityType DEF Count
(* What each command does to the count of a task. *)

LEMMA CountEmpty == \A t : Count(<< >>, t) = 0
BY FS_EmptySet DEF Count

LEMMA CountLPush ==
  ASSUME NEW s \in Seq(Messages), NEW m \in Messages, NEW t
  PROVE  /\ LPush(s, m) \in Seq(Messages)
         /\ Count(LPush(s, m), t) = Count(s, t) + (IF m.task = t THEN 1 ELSE 0)
<1> DEFINE p == LPush(s, m)
<1>1. <<m>> \in Seq(Messages) /\ Len(<<m>>) = 1 /\ <<m>>[1] = m
  OBVIOUS
<1>2. /\ p \in Seq(Messages) /\ Len(p) = Len(s) + 1 /\ p[1] = m
      /\ \A j \in 1 .. Len(s) : p[j + 1] = s[j]
  BY <1>1, ConcatProperties, LenProperties DEF LPush
<1>3. Len(s) \in Nat /\ DOMAIN p = 1 .. Len(p)
  BY <1>2, LenProperties
<1>4. 1 \in DOMAIN p
  BY <1>2, <1>3
<1>5. DropAt(p, 1) = s
  <2>1. DropAt(p, 1) \in Seq(Messages) /\ Len(DropAt(p, 1)) = Len(s)
    BY <1>2, <1>3, <1>4, DropAtType
  <2>2. \A j \in 1 .. Len(s) : DropAt(p, 1)[j] = s[j]
    BY <1>2, <1>3 DEF DropAt
  <2> QED BY <2>1, <2>2, SeqEqual
<1> HIDE DEF p
<1>6. Count(p, t) = Count(DropAt(p, 1), t) + (IF p[1].task = t THEN 1 ELSE 0)
  BY <1>2, <1>4, CountDropAt
<1> QED
  BY <1>2, <1>5, <1>6 DEF p

LEMMA CountRPush ==
  ASSUME NEW s \in Seq(Messages), NEW m \in Messages, NEW t
  PROVE  /\ RPush(s, m) \in Seq(Messages)
         /\ Count(RPush(s, m), t) = Count(s, t) + (IF m.task = t THEN 1 ELSE 0)
<1> DEFINE p == RPush(s, m)
           n == Len(s) + 1
<1>1. /\ p \in Seq(Messages) /\ Len(p) = n /\ p[n] = m
      /\ \A j \in 1 .. Len(s) : p[j] = s[j]
  BY AppendProperties DEF RPush
<1>2. Len(s) \in Nat /\ DOMAIN p = 1 .. Len(p)
  BY <1>1, LenProperties
<1>3. n \in DOMAIN p
  BY <1>1, <1>2
<1>4. DropAt(p, n) = s
  <2>1. DropAt(p, n) \in Seq(Messages) /\ Len(DropAt(p, n)) = Len(s)
    BY <1>1, <1>2, <1>3, DropAtType
  <2>2. \A j \in 1 .. Len(s) : DropAt(p, n)[j] = s[j]
    BY <1>1, <1>2 DEF DropAt
  <2> QED BY <2>1, <2>2, SeqEqual
<1> HIDE DEF p
<1>5. Count(p, t) = Count(DropAt(p, n), t) + (IF p[n].task = t THEN 1 ELSE 0)
  BY <1>1, <1>3, CountDropAt
<1> QED
  BY <1>1, <1>4, <1>5 DEF p

LEMMA CountRPop ==
  ASSUME NEW s \in Seq(Messages), s # << >>, NEW t
  PROVE  /\ RPop(s) \in Seq(Messages) /\ s[Len(s)] \in Messages
         /\ Count(s, t) = Count(RPop(s), t) + (IF s[Len(s)].task = t THEN 1 ELSE 0)
<1> DEFINE n == Len(s)
<1>1. n \in Nat \ {0} /\ DOMAIN s = 1 .. n /\ \A j \in 1 .. n : s[j] \in Messages
  BY LenProperties, EmptySeq
<1>2. /\ RPop(s) \in Seq(Messages) /\ Len(RPop(s)) = n - 1
      /\ \A j \in 1 .. n - 1 : RPop(s)[j] = s[j]
  <2>1. /\ SubSeq(s, 1, n - 1) \in Seq(Messages)
        /\ Len(SubSeq(s, 1, n - 1)) = IF 1 <= n - 1 THEN n - 1 - 1 + 1 ELSE 0
        /\ \A j \in 1 .. n - 1 - 1 + 1 : SubSeq(s, 1, n - 1)[j] = s[1 + j - 1]
    <3>1. \A j \in 1 .. n - 1 : s[j] \in Messages
      BY <1>1
    <3>2. 1 \in Int /\ n - 1 \in Int
      BY <1>1
    <3> QED BY <3>1, <3>2, SubSeqProperties
  <2> QED BY <1>1, <2>1 DEF RPop
<1>3. DropAt(s, n) = RPop(s)
  <2>0. n \in DOMAIN s
    BY <1>1
  <2>1. DropAt(s, n) \in Seq(Messages) /\ Len(DropAt(s, n)) = n - 1
    BY <2>0, DropAtType
  <2>2. \A j \in 1 .. n - 1 : DropAt(s, n)[j] = RPop(s)[j]
    BY <1>1, <1>2 DEF DropAt
  <2> QED BY <1>2, <2>1, <2>2, SeqEqual
<1>4. Count(s, t) = Count(DropAt(s, n), t) + (IF s[n].task = t THEN 1 ELSE 0)
  BY <1>1, CountDropAt
<1> QED
  BY <1>1, <1>2, <1>3, <1>4

(* LREM takes off the first message that equals the one given, if any. *)
LEMMA FirstOfFinds ==
  ASSUME NEW s \in Seq(Messages), NEW m, \E i \in DOMAIN s : s[i] = m
  PROVE  /\ FirstOf(s, m) \in DOMAIN s /\ s[FirstOf(s, m)] = m
         /\ LRem(s, m) = DropAt(s, FirstOf(s, m))
<1> DEFINE N == {i \in DOMAIN s : s[i] = m}
<1>1. DOMAIN s = 1 .. Len(s)
  BY LenProperties
<1>2. N \in SUBSET Nat /\ N # {}
  BY <1>1
<1>3. PICK k \in N : \A j \in N : k <= j
  <2> HIDE DEF N
  <2> QED BY <1>2, LeastElement
<1>4. k \in DOMAIN s /\ s[k] = m /\ \A j \in DOMAIN s : s[j] = m => k <= j
  BY <1>3
<1>5. FirstOf(s, m) \in DOMAIN s /\ s[FirstOf(s, m)] = m
  BY <1>4 DEF FirstOf
<1> QED
  BY <1>5 DEF LRem

(* So it takes one off the count of that message's task, and leaves every  *)
(* message but that one in the list.                                       *)
LEMMA CountLRemFound ==
  ASSUME NEW s \in Seq(Messages), NEW m, \E i \in DOMAIN s : s[i] = m, NEW t
  PROVE  /\ LRem(s, m) \in Seq(Messages)
         /\ Count(s, t) = Count(LRem(s, m), t) + (IF m.task = t THEN 1 ELSE 0)
         /\ Count(LRem(s, m), t) \in Nat
<1> DEFINE i == FirstOf(s, m)
<1>1. i \in DOMAIN s /\ s[i] = m /\ LRem(s, m) = DropAt(s, i)
  BY FirstOfFinds
<1> HIDE DEF i
<1>2. DropAt(s, i) \in Seq(Messages)
  BY <1>1, DropAtType
<1>3. Count(s, t) = Count(DropAt(s, i), t) + (IF s[i].task = t THEN 1 ELSE 0)
  BY <1>1, CountDropAt
<1>4. Count(DropAt(s, i), t) \in Nat
  BY <1>2, CountType
<1> QED
  BY <1>1, <1>2, <1>3, <1>4

Holds(s, m) == \E i \in DOMAIN s : s[i] = m
LEMMA LRemKeepsOthers ==
  ASSUME NEW s \in Seq(Messages), NEW m, NEW x, x # m, Holds(s, m), Holds(s, x)
  PROVE  Holds(LRem(s, m), x)
<1>j. PICK j \in DOMAIN s : s[j] = x
  BY DEF Holds
<1> DEFINE i == FirstOf(s, m)
           k == IF j < i THEN j ELSE j - 1
<1>1. i \in DOMAIN s /\ s[i] = m /\ LRem(s, m) = DropAt(s, i)
  BY FirstOfFinds DEF Holds
<1>2. DOMAIN s = 1 .. Len(s) /\ Len(s) \in Nat
  BY LenProperties
<1>3. i # j
  BY <1>1, <1>j
<1> HIDE DEF i
<1>4. k \in 1 .. Len(s) - 1 /\ (IF k < i THEN s[k] ELSE s[k + 1]) = s[j]
  BY <1>1, <1>2, <1>3
<1> HIDE DEF k
<1>5. k \in DOMAIN DropAt(s, i) /\ DropAt(s, i)[k] = s[j]
  BY <1>4 DEF DropAt
<1> QED
  BY <1>1, <1>5, <1>j DEF Holds

LEMMA CountLRem ==
  ASSUME NEW s \in Seq(Messages), NEW m \in Messages, NEW t
  PROVE  /\ LRem(s, m) \in Seq(Messages)
         /\ \/ Count(LRem(s, m), t) = Count(s, t)
            \/ m.task = t /\ Count(s, t) = Count(LRem(s, m), t) + 1
<1>1. CASE ~ \E i \in DOMAIN s : s[i] = m
  BY <1>1 DEF LRem
<1>2. CASE \E i \in DOMAIN s : s[i] = m
  BY <1>2, CountLRemFound
<1> QED
  BY <1>1, <1>2

(* What is counted at most once is at one place. *)
LEMMA OnePlace ==
  ASSUME NEW s \in Seq(Messages), NEW t, Count(s, t) <= 1,
         NEW i \in DOMAIN s, NEW k \in DOMAIN s, s[i].task = t, s[k].task = t
  PROVE  i = k
<1> SUFFICES ASSUME i # k PROVE FALSE
  OBVIOUS
<1> DEFINE S == {j \in DOMAIN s : s[j].task = t}
<1>1. IsFiniteSet(S) /\ Cardinality(S) <= 1 /\ Cardinality(S) \in Nat
  BY CountType DEF Count
<1>2. i \in S /\ k \in S \ {i}
  OBVIOUS
<1> HIDE DEF S
<1>3. IsFiniteSet(S \ {i}) /\ Cardinality(S \ {i}) = Cardinality(S) - 1
  BY <1>1, <1>2, FS_RemoveElement
<1>4. Cardinality(S \ {i}) = 0
  BY <1>1, <1>3, FS_CardinalityType
<1> QED
  BY <1>2, <1>3, <1>4, FS_EmptySet
---------------------------------------------------------------------------------
(* Types. *)

LEMMA TypeInit == Init => TypeOK
BY EmptySeq DEF Init, TypeOK, Queues

LEMMA PublishType ==
  ASSUME TypeOK, NEW q \in Queues, NEW t \in Tasks, Publish(q, t)
  PROVE  /\ queue' \in [Queues -> Seq(Messages)] /\ nextId' \in Nat
         /\ \A r \in Queues \ {q} : queue'[r] = queue[r]
         /\ \A u : Count(queue'[q], u) = Count(queue[q], u) + (IF t = u THEN 1 ELSE 0)
<1> DEFINE m == [task |-> t, home |-> q, id |-> nextId]
<1>1. m \in Messages /\ m.task = t
  BY DEF TypeOK, Messages
<1> HIDE DEF m
<1>2. queue[q] \in Seq(Messages)
  BY DEF TypeOK
<1>3. LPush(queue[q], m) \in Seq(Messages)
  BY <1>1, <1>2, CountLPush
<1>4. queue' = [queue EXCEPT ![q] = LPush(queue[q], m)]
  BY DEF Publish, m
<1>5. ASSUME NEW u
      PROVE  Count(queue'[q], u) = Count(queue[q], u) + (IF t = u THEN 1 ELSE 0)
  BY <1>1, <1>2, <1>4, CountLPush DEF TypeOK
<1> QED
  BY <1>3, <1>4, <1>5 DEF TypeOK, Publish

LEMMA TypeStep == TypeOK /\ [Next]_vars => TypeOK'
<1> SUFFICES ASSUME TypeOK, [Next]_vars PROVE TypeOK'
  OBVIOUS
<1> USE DEF messages, operation, history, bounds
<1>1. ASSUME NEW t \in Tasks, Submit(t) PROVE TypeOK'
  BY <1>1, PublishType DEF Submit, TypeOK, Queues
<1>2. ASSUME NEW w \in Workers PROVE Work(w) \/ HookFails(w) \/ HardKill(w) \/ WorkerLost(w) => TypeOK'
  <2>1. ASSUME NEW q \in Queues, Take(w, q) PROVE TypeOK'
    <3>1. queue[q] \in Seq(Messages) /\ queue[q] # << >>
      BY <2>1 DEF Take, TypeOK
    <3>2. RPop(queue[q]) \in Seq(Messages) /\ queue[q][Len(queue[q])] \in Messages
      BY <3>1, CountRPop
    <3>3. queue[q][Len(queue[q])] # NoMessage
      BY <3>2
    <3> QED BY <2>1, <3>2, <3>3 DEF Take, TypeOK
  <2>2. CASE Succeed(w)
    BY <2>2 DEF Succeed, Acknowledge, TypeOK, Messages
  <2>3. CASE Fail(w)
    BY <2>3, PublishType DEF Fail, TypeOK, Queues, Messages
  <2>4. ASSUME stage[w] = "running", Forsake(w), UNCHANGED faults \/ Fault PROVE TypeOK'
    <3>1. hand[w] \in Messages /\ hand[w].task \in Tasks
      BY <2>4 DEF TypeOK, Messages
    <3>2. forsaken' \subseteq Tasks /\ faults' \in Nat
      BY <2>4, <3>1 DEF Forsake, Fault, TypeOK
    <3> QED
      BY <2>4, <3>2 DEF Forsake, Acknowledge, TypeOK
  <2>5. CASE AckFailed(w)
    BY <2>5 DEF AckFailed, Acknowledge, TypeOK
  <2>6. CASE WorkerLost(w)
    <3>1. hand[w] \in Messages /\ hand[w].home \in Queues
      BY <2>6 DEF WorkerLost, TypeOK, Messages
    <3>2. queue[hand[w].home] \in Seq(Messages)
      BY <3>1 DEF TypeOK
    <3>3. /\ LPush(queue[hand[w].home], hand[w]) \in Seq(Messages)
          /\ RPush(queue[hand[w].home], hand[w]) \in Seq(Messages)
      BY <3>1, <3>2, CountLPush, CountRPush
    <3>4. queue' \in [Queues -> Seq(Messages)]
      BY <2>6, <3>1, <3>3 DEF WorkerLost, TypeOK
    <3> QED
      BY <2>6, <3>4 DEF WorkerLost, Acknowledge, Fault, TypeOK
  <2> QED
    BY <2>1, <2>2, <2>3, <2>4, <2>5, <2>6
    DEF Work, FailUnhooked, HookFails, HardKill, Forsake
<1>3. ASSUME NEW o \in Operators, NEW m \in Moves, MoveTasks(o, m[1], m[2]) PROVE TypeOK'
  <2>1. <<m[1], m[2]>> \in Queues \X Queues
    OBVIOUS
  <2> QED BY <1>3, <2>1 DEF MoveTasks, Command, At, TypeOK
<1>4. ASSUME NEW o \in Operators, NEW q \in Flushes, FlushQueue(o, q) PROVE TypeOK'
  BY <1>4 DEF FlushQueue, Command, At, TypeOK
<1>5. ASSUME NEW o \in Operators PROVE Goes(o) \/ OperatorGone(o) => TypeOK'
  <2>0. route[o][1] \in Queues /\ route[o][2] \in Queues
    BY DEF TypeOK
  <2>1. CASE ReadAll(o)
    BY <2>0, <2>1 DEF ReadAll, At, TypeOK
  <2>2. CASE PushNext(o)
    <3>1. Head(todo[o]) \in Messages
      BY <2>2, HeadTailProperties DEF PushNext, TypeOK
    <3>2. RPush(queue[route[o][2]], Head(todo[o])) \in Seq(Messages)
      BY <2>0, <3>1, CountRPush DEF TypeOK
    <3> QED BY <2>0, <2>2, <3>2, SMTT(20) DEF PushNext, At, TypeOK
  <2>3. CASE RemoveNext(o)
    <3>1. Head(todo[o]) \in Messages /\ Tail(todo[o]) \in Seq(Messages)
      BY <2>3, HeadTailProperties DEF RemoveNext, At, TypeOK
    <3>2. LRem(queue[route[o][1]], Head(todo[o])) \in Seq(Messages)
      BY <2>0, <3>1, CountLRem DEF TypeOK
    <3> QED BY <2>0, <2>3, <3>1, <3>2, ZenonT(40) DEF RemoveNext, At, TypeOK
  <2>4. CASE MoveDone(o)
    BY <2>4 DEF MoveDone, At, TypeOK
  <2>5. CASE Delete(o)
    <3>1. {queue[route[o][1]][i].task : i \in DOMAIN queue[route[o][1]]} \subseteq Tasks
      <4>1. queue[route[o][1]] \in Seq(Messages)
        BY <2>0 DEF TypeOK
      <4>2. \A i \in DOMAIN queue[route[o][1]] : queue[route[o][1]][i] \in Messages
        BY <4>1, LenProperties, ElementOfSeq
      <4> QED BY <4>2 DEF Messages
    <3> QED BY <2>0, <2>5, <3>1, EmptySeq DEF Delete, At, TypeOK
  <2>6. CASE OperatorGone(o)
    BY <2>6, EmptySeq DEF OperatorGone, Fault, TypeOK
  <2> QED BY <2>1, <2>2, <2>3, <2>4, <2>5, <2>6 DEF Goes
<1>6. CASE UNCHANGED vars
  BY <1>6 DEF TypeOK, vars
<1> QED
  BY <1>1, <1>2, <1>3, <1>4, <1>5, <1>6 DEF Next

(* Every list holds messages, and a worker has one exactly while it works. *)
THEOREM TaskQueuesTypes == Spec => []TypeOK
BY TypeInit, TypeStep, PTL DEF Spec
---------------------------------------------------------------------------------
(* What a step does to the runs a task has due and to the removals pending. *)

InQueue(q, t) == Count(queue[q], t)
InHand(t)     == Cardinality(Running(t))
OnMove(t)     == Cardinality(Removing(t))

LEMMA Totals ==
  ASSUME TypeOK, NEW t
  PROVE  /\ \A q \in Queues : InQueue(q, t) \in Nat
         /\ InHand(t) \in Nat /\ OnMove(t) \in Nat
         /\ IsFiniteSet(Running(t)) /\ IsFiniteSet(Removing(t))
         /\ RunsDue(t) = InQueue("celery", t) + InQueue("worker", t)
                            + InQueue("dead_letter", t) + InHand(t)
         /\ RunsDue(t) \in Nat
<1>1. \A q \in Queues : InQueue(q, t) \in Nat
  BY CountType DEF TypeOK, InQueue
<1>2. IsFiniteSet(Running(t)) /\ IsFiniteSet(Removing(t))
  BY FS_Subset DEF Running, Removing
<1>3. InHand(t) \in Nat /\ OnMove(t) \in Nat
  BY <1>2, FS_CardinalityType DEF InHand, OnMove
<1> QED
  BY <1>1, <1>2, <1>3 DEF RunsDue, InQueue, InHand, Queues

LEMMA TotalsNext ==
  ASSUME TypeOK', NEW t
  PROVE  /\ \A q \in Queues : InQueue(q, t)' \in Nat
         /\ InHand(t)' \in Nat /\ OnMove(t)' \in Nat
         /\ RunsDue(t)' = InQueue("celery", t)' + InQueue("worker", t)'
                             + InQueue("dead_letter", t)' + InHand(t)'
         /\ RunsDue(t)' \in Nat
<1>1. \A q \in Queues : InQueue(q, t)' \in Nat
  BY CountType DEF TypeOK, InQueue
<1>2. IsFiniteSet(Running(t)') /\ IsFiniteSet(Removing(t)')
  BY FS_Subset DEF Running, Removing
<1>3. InHand(t)' \in Nat /\ OnMove(t)' \in Nat
  BY <1>2, FS_CardinalityType DEF InHand, OnMove
<1> QED
  BY <1>1, <1>2, <1>3 DEF RunsDue, InQueue, InHand, Queues

(* A task with a run due is known, and so is one about to be removed. *)
LEMMA DueIsKnown ==
  ASSUME TypeOK, NEW t, RunsDue(t) > 0 \/ OnMove(t) > 0
  PROVE  Known(t)
<1>1. CASE \E q \in Queues : InQueue(q, t) > 0
  BY <1>1, CountPositive DEF InQueue, Known, TypeOK
<1>2. CASE InHand(t) > 0
  <2>1. Running(t) # {}
    BY <1>2, FS_EmptySet DEF InHand
  <2> QED BY <2>1 DEF Running, Known
<1>3. CASE OnMove(t) > 0
  <2>1. PICK o \in Operators : step[o] = "remove" /\ Head(todo[o]).task = t
    <3>1. Removing(t) # {}
      BY <1>3, FS_EmptySet DEF OnMove
    <3> QED BY <3>1 DEF Removing
  <2>2. todo[o] # << >> /\ todo[o] \in Seq(Messages)
    BY <2>1 DEF TypeOK
  <2>3. 1 \in DOMAIN todo[o] /\ todo[o][1].task = t
    BY <2>1, <2>2, EmptySeq, LenProperties
  <2> QED BY <2>3 DEF Known
<1> QED
  BY <1>1, <1>2, <1>3, Totals DEF Queues

(* One worker or one operator changes at a time. *)
LEMMA HandChange ==
  ASSUME TypeOK, TypeOK', NEW w \in Workers, NEW t,
         \A v \in Workers \ {w} : stage'[v] = stage[v] /\ hand'[v] = hand[v]
  PROVE  LET before == stage[w] = "running" /\ hand[w].task = t
             after  == stage'[w] = "running" /\ hand'[w].task = t
         IN  InHand(t)' = InHand(t) + (IF after THEN 1 ELSE 0) - (IF before THEN 1 ELSE 0)
<1> DEFINE before == stage[w] = "running" /\ hand[w].task = t
           after  == stage'[w] = "running" /\ hand'[w].task = t
           others == Running(t) \ {w}
<1>1. /\ Running(t)  = IF before THEN others \cup {w} ELSE others
      /\ Running(t)' = IF after THEN others \cup {w} ELSE others
      /\ w \notin others
  BY DEF Running
<1>2. IsFiniteSet(Running(t)) /\ IsFiniteSet(others)
  BY Totals, FS_Subset
<1>3. Cardinality(others \cup {w}) = Cardinality(others) + 1 /\ Cardinality(others) \in Nat
  BY <1>1, <1>2, FS_AddElement, FS_CardinalityType
<1> HIDE DEF others, before, after
<1>4. InHand(t)' = InHand(t) + (IF after THEN 1 ELSE 0) - (IF before THEN 1 ELSE 0)
  BY <1>1, <1>3 DEF InHand
<1> QED
  BY <1>4 DEF before, after

LEMMA MoveChange ==
  ASSUME TypeOK, TypeOK', NEW o \in Operators, NEW t,
         \A p \in Operators \ {o} : step'[p] = step[p] /\ todo'[p] = todo[p]
  PROVE  LET before == step[o] = "remove" /\ Head(todo[o]).task = t
             after  == step'[o] = "remove" /\ Head(todo'[o]).task = t
         IN  OnMove(t)' = OnMove(t) + (IF after THEN 1 ELSE 0) - (IF before THEN 1 ELSE 0)
<1> DEFINE before == step[o] = "remove" /\ Head(todo[o]).task = t
           after  == step'[o] = "remove" /\ Head(todo'[o]).task = t
           others == Removing(t) \ {o}
<1>1. /\ Removing(t)  = IF before THEN others \cup {o} ELSE others
      /\ Removing(t)' = IF after THEN others \cup {o} ELSE others
      /\ o \notin others
  BY DEF Removing
<1>2. IsFiniteSet(Removing(t)) /\ IsFiniteSet(others)
  BY Totals, FS_Subset
<1>3. Cardinality(others \cup {o}) = Cardinality(others) + 1 /\ Cardinality(others) \in Nat
  BY <1>1, <1>2, FS_AddElement, FS_CardinalityType
<1> HIDE DEF others, before, after
<1>4. OnMove(t)' = OnMove(t) + (IF after THEN 1 ELSE 0) - (IF before THEN 1 ELSE 0)
  BY <1>1, <1>3 DEF OnMove
<1> QED
  BY <1>4 DEF before, after
(* No step but its submission makes a task known, and none but a settling  *)
(* takes more runs from it than removals.                                  *)
Held(t)    == \E w \in Workers : stage[w] # "idle" /\ hand[w].task = t
Carried(t) == \E o \in Operators : \E i \in DOMAIN todo[o] : todo[o][i].task = t
Listed(t)  == \E q \in Queues : InQueue(q, t) > 0

LEMMA KnownSplit ==
  ASSUME TypeOK, NEW t
  PROVE  Known(t) <=> Listed(t) \/ Held(t) \/ Carried(t)
BY CountPositive DEF Known, Listed, Held, Carried, InQueue, TypeOK

LEMMA KnownSplitNext ==
  ASSUME TypeOK', NEW t
  PROVE  Known(t)' <=> Listed(t)' \/ Held(t)' \/ Carried(t)'
<1>1. ASSUME NEW q \in Queues
      PROVE  InQueue(q, t)' > 0 <=> \E i \in DOMAIN queue'[q] : queue'[q][i].task = t
  <2>1. queue'[q] \in Seq(Messages)
    BY DEF TypeOK
  <2> QED BY <2>1, CountPositive DEF InQueue
<1> QED
  BY <1>1 DEF Known, Listed, Held, Carried

LEMMA DueIsKnownNext ==
  ASSUME TypeOK', NEW t, RunsDue(t)' > 0
  PROVE  Known(t)'
<1>1. CASE \E q \in Queues : InQueue(q, t)' > 0
  BY <1>1, KnownSplitNext DEF Listed
<1>2. CASE InHand(t)' > 0
  <2>1. Running(t)' # {}
    BY <1>2, FS_EmptySet DEF InHand
  <2> QED BY <2>1, KnownSplitNext DEF Running, Held
<1> QED
  BY <1>1, <1>2, TotalsNext DEF Queues

Keeps(t) ==
  /\ Known(t)' => Known(t)
  /\ Known(t) /\ t \notin Settled' =>
        RunsDue(t)' + OnMove(t) >= RunsDue(t) + OnMove(t)'

LEMMA SumChange ==
  ASSUME TypeOK, TypeOK', NEW q \in Queues, NEW t, NEW d \in Int,
         \A r \in Queues \ {q} : queue'[r] = queue[r],
         InQueue(q, t)' = InQueue(q, t) + d
  PROVE  RunsDue(t)' - InHand(t)' = RunsDue(t) - InHand(t) + d
<1>1. \A r \in Queues \ {q} : InQueue(r, t)' = InQueue(r, t)
  BY DEF InQueue
<1>2. /\ \A r \in Queues : InQueue(r, t) \in Nat /\ InQueue(r, t)' \in Nat
      /\ InHand(t) \in Nat /\ InHand(t)' \in Nat
      /\ RunsDue(t) = InQueue("celery", t) + InQueue("worker", t)
                         + InQueue("dead_letter", t) + InHand(t)
      /\ RunsDue(t)' = InQueue("celery", t)' + InQueue("worker", t)'
                          + InQueue("dead_letter", t)' + InHand(t)'
  BY Totals, TotalsNext
<1>3. q \in {"celery", "worker", "dead_letter"}
  BY DEF Queues
<1>4. CASE q = "celery"
  BY <1>1, <1>2, <1>4 DEF Queues
<1>5. CASE q = "worker"
  BY <1>1, <1>2, <1>5 DEF Queues
<1>6. CASE q = "dead_letter"
  BY <1>1, <1>2, <1>6 DEF Queues
<1> QED
  BY <1>3, <1>4, <1>5, <1>6

LEMMA WorkKeeps ==
  ASSUME TypeOK, TypeOK', NEW w \in Workers, NEW t,
         Work(w) \/ HookFails(w) \/ HardKill(w) \/ WorkerLost(w)
  PROVE  Keeps(t)
<1> USE DEF messages, operation, history, bounds
<1> DEFINE before == stage[w] = "running" /\ hand[w].task = t
           after  == stage'[w] = "running" /\ hand'[w].task = t
<1>1. /\ step' = step /\ todo' = todo
      /\ \A v \in Workers \ {w} : stage'[v] = stage[v] /\ hand'[v] = hand[v]
  BY DEF Work, Take, Succeed, Fail, FailUnhooked, AckFailed, HookFails, HardKill, WorkerLost,
         Forsake, Acknowledge, TypeOK
<1>2. OnMove(t)' = OnMove(t) /\ (Carried(t)' <=> Carried(t))
  BY <1>1 DEF OnMove, Removing, Carried
<1>3. InHand(t)' = InHand(t) + (IF after THEN 1 ELSE 0) - (IF before THEN 1 ELSE 0)
  BY <1>1, HandChange
<1>4. Known(t) <=> Listed(t) \/ Held(t) \/ Carried(t)
  BY KnownSplit
<1>5. Known(t)' <=> Listed(t)' \/ Held(t)' \/ Carried(t)'
  BY KnownSplitNext
<1>6. /\ \A q \in Queues : InQueue(q, t) \in Nat
      /\ InHand(t) \in Nat /\ OnMove(t) \in Nat
      /\ RunsDue(t) = InQueue("celery", t) + InQueue("worker", t)
                         + InQueue("dead_letter", t) + InHand(t)
      /\ RunsDue(t) \in Nat
  BY Totals
<1>7. /\ \A q \in Queues : InQueue(q, t)' \in Nat
      /\ InHand(t)' \in Nat
      /\ RunsDue(t)' = InQueue("celery", t)' + InQueue("worker", t)'
                         + InQueue("dead_letter", t)' + InHand(t)'
      /\ RunsDue(t)' \in Nat
  BY TotalsNext
<1>8. \A q \in Queues : queue'[q] = queue[q] => InQueue(q, t)' = InQueue(q, t)
  BY DEF InQueue
<1> HIDE DEF before, after
<1>9. CASE \E q \in Queues : Take(w, q)
  <2>1. PICK q \in Queues : Take(w, q)
    BY <1>9
  <2> DEFINE m == queue[q][Len(queue[q])]
  <2>2. /\ queue[q] \in Seq(Messages) /\ queue[q] # << >>
        /\ queue'[q] = RPop(queue[q]) /\ \A r \in Queues \ {q} : queue'[r] = queue[r]
        /\ hand'[w] = m /\ stage[w] = "idle" /\ stage'[w] = "running"
    BY <2>1 DEF Take, TypeOK
  <2>3. InQueue(q, t) = InQueue(q, t)' + (IF m.task = t THEN 1 ELSE 0)
    BY <2>2, CountRPop DEF InQueue
  <2>4. ~ before /\ (after <=> m.task = t)
    BY <2>2 DEF before, after
  <2> HIDE DEF m
  <2>5. RunsDue(t)' = RunsDue(t)
    <3> DEFINE d == IF m.task = t THEN -1 ELSE 0
    <3>1. d \in Int /\ InQueue(q, t)' = InQueue(q, t) + d
      BY <1>6, <1>7, <2>3
    <3>2. InHand(t)' = InHand(t) - d
      BY <1>3, <1>6, <2>4
    <3> HIDE DEF d
    <3>3. RunsDue(t)' - InHand(t)' = RunsDue(t) - InHand(t) + d
      BY <2>2, <3>1, SumChange
    <3> QED BY <1>6, <1>7, <3>1, <3>2, <3>3
  <2>6. Held(t)' => Held(t) \/ Listed(t)
    <3>1. Held(t)' => Held(t) \/ m.task = t
      BY <1>1, <2>2 DEF Held
    <3>2. m.task = t => InQueue(q, t) > 0
      BY <1>6, <1>7, <2>3
    <3> QED BY <3>1, <3>2 DEF Listed
  <2>7. Listed(t)' => Listed(t)
    BY <1>6, <1>7, <1>8, <2>2, <2>3 DEF Listed
  <2> QED
    BY <1>2, <1>4, <1>5, <1>6, <1>7, <2>5, <2>6, <2>7 DEF Keeps
<1>10. CASE queue' = queue /\ stage'[w] = "idle"
            /\ \/ stage[w] = "hooked"
               \/ stage[w] = "running" /\ hand[w].task \in Settled'
  <2>1. RunsDue(t)' >= RunsDue(t) \/ t \in Settled'
    BY <1>3, <1>6, <1>7, <1>8, <1>10 DEF Queues, before, after
  <2>2. (Held(t)' => Held(t)) /\ (Listed(t)' <=> Listed(t))
    BY <1>1, <1>10 DEF Held, Listed, InQueue
  <2> QED
    BY <1>2, <1>4, <1>5, <1>6, <1>7, <2>1, <2>2 DEF Keeps
<1>11. CASE Fail(w)
  <2>1. hand[w].task \in Tasks /\ "dead_letter" \in Queues
    BY <1>11 DEF Fail, TypeOK, Messages, Queues
  <2>2. /\ \A r \in Queues \ {"dead_letter"} : queue'[r] = queue[r]
        /\ InQueue("dead_letter", t)' = InQueue("dead_letter", t)
                                          + (IF hand[w].task = t THEN 1 ELSE 0)
    <3>1. Publish("dead_letter", hand[w].task)
      BY <1>11 DEF Fail
    <3>2. /\ \A r \in Queues \ {"dead_letter"} : queue'[r] = queue[r]
          /\ \A u : Count(queue'["dead_letter"], u)
                     = Count(queue["dead_letter"], u) + (IF hand[w].task = u THEN 1 ELSE 0)
      BY <2>1, <3>1, PublishType
    <3> QED BY <3>2 DEF InQueue
  <2>3. ~ after /\ (before <=> hand[w].task = t)
    BY <1>11 DEF Fail, before, after, TypeOK
  <2>4. RunsDue(t)' = RunsDue(t)
    BY <1>3, <1>6, <1>7, <1>8, <2>2, <2>3 DEF Queues
  <2>5. hand' = hand /\ stage[w] = "running"
    BY <1>11 DEF Fail
  <2>6. Held(t)' => Held(t)
    BY <1>1, <2>5 DEF Held
  <2>7. hand[w].task = t => Held(t)
    BY <2>5 DEF Held
  <2>8. Listed(t)' => Listed(t) \/ Held(t)
    BY <1>6, <1>7, <1>8, <2>2, <2>7 DEF Listed
  <2> QED
    BY <1>2, <1>4, <1>5, <1>6, <1>7, <2>4, <2>6, <2>8 DEF Keeps
<1>12. CASE WorkerLost(w)
  <2>0. hand[w] \in Messages /\ hand[w].home \in Queues
    BY <1>12 DEF WorkerLost, TypeOK, Messages
  <2>1. PICK m \in Messages, q \in Queues : m = hand[w] /\ q = hand[w].home
    BY <2>0
  <2>10. queue[q] \in Seq(Messages)
    BY DEF TypeOK
  <2>2. /\ queue'[q] \in {LPush(queue[q], m), RPush(queue[q], m)}
        /\ \A r \in Queues \ {q} : queue'[r] = queue[r]
        /\ stage[w] # "idle" /\ stage'[w] = "idle"
    BY <1>12, <2>1 DEF WorkerLost, Acknowledge, TypeOK
  <2>3. InQueue(q, t)' = InQueue(q, t) + (IF m.task = t THEN 1 ELSE 0)
    <3>1. CASE queue'[q] = LPush(queue[q], m)
      BY <2>10, <3>1, CountLPush DEF InQueue
    <3>2. CASE queue'[q] = RPush(queue[q], m)
      BY <2>10, <3>2, CountRPush DEF InQueue
    <3> QED BY <2>2, <3>1, <3>2
  <2>4. ~ after /\ (before => m.task = t) /\ (m.task = t => Held(t))
    BY <2>1, <2>2 DEF before, after, Held
  <2>5. RunsDue(t)' >= RunsDue(t)
    <3> DEFINE d == IF m.task = t THEN 1 ELSE 0
    <3>1. d \in Int /\ InQueue(q, t)' = InQueue(q, t) + d
      BY <2>3
    <3>2. InHand(t)' >= InHand(t) - d
      BY <1>3, <1>6, <1>7, <2>4
    <3> HIDE DEF d
    <3>3. RunsDue(t)' - InHand(t)' = RunsDue(t) - InHand(t) + d
      BY <2>1, <2>2, <3>1, SumChange
    <3> QED BY <1>6, <1>7, <3>1, <3>2, <3>3
  <2>6. Held(t)' => Held(t)
    BY <1>1, <2>2 DEF Held
  <2>7. Listed(t)' => Listed(t) \/ Held(t)
    <3>1. \A r \in Queues \ {q} : InQueue(r, t)' = InQueue(r, t)
      BY <1>8, <2>2
    <3>2. InQueue(q, t)' > 0 => InQueue(q, t) > 0 \/ Held(t)
      BY <1>6, <2>1, <2>3, <2>4
    <3> QED BY <2>1, <3>1, <3>2 DEF Listed
  <2> QED
    BY <1>2, <1>4, <1>5, <1>6, <1>7, <2>5, <2>6, <2>7 DEF Keeps
<1>13. CASE Succeed(w) \/ FailUnhooked(w) \/ AckFailed(w) \/ HookFails(w) \/ HardKill(w)
  <2>1. stage'[w] = "idle" /\ queue' = queue
    BY <1>13 DEF Succeed, FailUnhooked, AckFailed, HookFails, HardKill, Forsake,
       Acknowledge, TypeOK
  <2>2. \/ stage[w] = "hooked"
        \/ stage[w] = "running" /\ hand[w].task \in Settled'
    <3>1. AckFailed(w) => stage[w] = "hooked"
      BY DEF AckFailed
    <3>2. CASE Succeed(w)
      BY <3>2 DEF Succeed, Settled
    <3>3. CASE Forsake(w)
      BY <3>3 DEF Forsake, Settled
    <3> QED BY <1>13, <3>1, <3>2, <3>3 DEF FailUnhooked, HookFails, HardKill
  <2> QED BY <1>10, <2>1, <2>2
<1> QED
  BY <1>9, <1>11, <1>12, <1>13 DEF Work

LEMMA OperatorKeeps ==
  ASSUME TypeOK, TypeOK', NEW o \in Operators, NEW t,
         \/ Goes(o) \/ OperatorGone(o)
         \/ \E m \in Moves : MoveTasks(o, m[1], m[2])
         \/ \E q \in Flushes : FlushQueue(o, q)
  PROVE  Keeps(t)
<1> USE DEF messages, operation, history, bounds
<1> DEFINE before == step[o] = "remove" /\ Head(todo[o]).task = t
           after  == step'[o] = "remove" /\ Head(todo'[o]).task = t
           src == route[o][1]
           dst == route[o][2]
           m   == Head(todo[o])
<1>1. /\ stage' = stage /\ hand' = hand
      /\ \A p \in Operators \ {o} : step'[p] = step[p] /\ todo'[p] = todo[p]
  BY ZenonT(40) DEF Goes, ReadAll, PushNext, RemoveNext, MoveDone, Delete, OperatorGone,
         MoveTasks, FlushQueue, Command, At, TypeOK
<1>2. InHand(t)' = InHand(t) /\ (Held(t)' <=> Held(t))
  BY <1>1 DEF InHand, Running, Held
<1>3. OnMove(t)' = OnMove(t) + (IF after THEN 1 ELSE 0) - (IF before THEN 1 ELSE 0)
  BY <1>1, MoveChange
<1>4. Known(t) <=> Listed(t) \/ Held(t) \/ Carried(t)
  BY KnownSplit
<1>5. Known(t)' <=> Listed(t)' \/ Held(t)' \/ Carried(t)'
  BY KnownSplitNext
<1>6. /\ \A q \in Queues : InQueue(q, t) \in Nat /\ InQueue(q, t)' \in Nat
      /\ RunsDue(t) \in Nat /\ RunsDue(t)' \in Nat
      /\ InHand(t) \in Nat /\ OnMove(t) \in Nat /\ OnMove(t)' \in Nat
  BY Totals, TotalsNext
<1>7. src \in Queues /\ dst \in Queues /\ todo[o] \in Seq(Messages)
  BY DEF TypeOK
<1> HIDE DEF before, after
<1>8. CASE queue' = queue /\ ~ after /\ (Carried(t)' => Carried(t) \/ Listed(t))
  <2>1. RunsDue(t)' = RunsDue(t) /\ (Listed(t)' <=> Listed(t))
    BY <1>1, <1>8 DEF RunsDue, Running, Listed, InQueue
  <2>2. OnMove(t)' <= OnMove(t)
    BY <1>3, <1>6, <1>8
  <2> QED
    BY <1>2, <1>4, <1>5, <1>6, <1>8, <2>1, <2>2 DEF Keeps
<1>9. CASE ReadAll(o)
  <2>1. /\ queue' = queue /\ step'[o] = "push" /\ todo'[o] = queue[src]
    BY <1>9 DEF ReadAll, At, TypeOK
  <2>2. ASSUME NEW i \in DOMAIN todo'[o], todo'[o][i].task = t PROVE Listed(t)
    <3>1. queue[src] \in Seq(Messages)
      BY <1>7 DEF TypeOK
    <3>2. Count(queue[src], t) > 0
      BY <2>1, <2>2, <3>1, CountPositive
    <3> QED BY <1>7, <3>2 DEF Listed, InQueue
  <2>3. Carried(t)' => Carried(t) \/ Listed(t)
    BY <1>1, <2>2 DEF Carried
  <2> QED
    BY <1>8, <2>1, <2>3 DEF after
<1>10. CASE PushNext(o)
  <2>1. /\ todo[o] # << >> /\ todo' = todo
        /\ step[o] = "push" /\ step'[o] = "remove"
        /\ queue' = [queue EXCEPT ![dst] = RPush(queue[dst], m)]
    BY <1>10 DEF PushNext, At, TypeOK
  <2>2. m \in Messages
    BY <1>7, <2>1, HeadTailProperties
  <2>3. PICK q \in Queues, x \in Messages : q = dst /\ x = m
    BY <1>7, <2>2
  <2>4. queue[q] \in Seq(Messages) /\ queue'[q] = RPush(queue[q], x)
        /\ \A r \in Queues \ {q} : queue'[r] = queue[r]
    BY <2>1, <2>3 DEF TypeOK
  <2>5. InQueue(q, t)' = InQueue(q, t) + (IF x.task = t THEN 1 ELSE 0)
    BY <2>4, CountRPush DEF InQueue
  <2>6. ~ before /\ (after <=> x.task = t)
    BY <2>1, <2>3 DEF before, after
  <2>7. RunsDue(t)' = RunsDue(t) + (IF x.task = t THEN 1 ELSE 0)
    <3> DEFINE d == IF x.task = t THEN 1 ELSE 0
    <3>1. d \in Int /\ InQueue(q, t)' = InQueue(q, t) + d
      BY <2>5
    <3> HIDE DEF d
    <3>2. RunsDue(t)' - InHand(t)' = RunsDue(t) - InHand(t) + d
      BY <2>4, <3>1, SumChange
    <3>3. RunsDue(t)' = RunsDue(t) + d
      BY <1>2, <1>6, <3>1, <3>2
    <3> QED BY <3>3 DEF d
  <2>8. x.task = t => Carried(t)
    <3>1. 1 \in DOMAIN todo[o] /\ todo[o][1] = m
      BY <1>7, <2>1, EmptySeq, LenProperties
    <3> QED BY <2>3, <3>1 DEF Carried
  <2>9. Listed(t)' => Listed(t) \/ Carried(t)
    <3>1. \A r \in Queues \ {q} : InQueue(r, t)' = InQueue(r, t)
      BY <2>4 DEF InQueue
    <3>2. InQueue(q, t)' > 0 => InQueue(q, t) > 0 \/ Carried(t)
      BY <1>6, <2>5, <2>8
    <3> QED BY <3>1, <3>2 DEF Listed
  <2>10. Carried(t)' => Carried(t)
    BY <2>1 DEF Carried
  <2> QED
    BY <1>2, <1>3, <1>4, <1>5, <1>6, <2>6, <2>7, <2>9, <2>10 DEF Keeps
<1>11. CASE RemoveNext(o)
  <2>1. /\ todo[o] # << >> /\ todo'[o] = Tail(todo[o])
        /\ step[o] = "remove" /\ step'[o] = "push"
        /\ queue' = [queue EXCEPT ![src] = LRem(queue[src], m)]
    BY <1>11 DEF RemoveNext, At, TypeOK
  <2>2. /\ m \in Messages /\ Len(todo'[o]) = Len(todo[o]) - 1
        /\ todo'[o] \in Seq(Messages)
        /\ \A i \in 1 .. Len(todo'[o]) : todo'[o][i] = todo[o][i + 1]
    BY <1>7, <2>1, HeadTailProperties
  <2>3. PICK q \in Queues, x \in Messages : q = src /\ x = m
    BY <1>7, <2>2
  <2>4. queue[q] \in Seq(Messages) /\ queue'[q] = LRem(queue[q], x)
        /\ \A r \in Queues \ {q} : queue'[r] = queue[r]
    BY <2>1, <2>3 DEF TypeOK
  <2>5. \/ InQueue(q, t)' = InQueue(q, t)
        \/ x.task = t /\ InQueue(q, t) = InQueue(q, t)' + 1
    BY <2>4, CountLRem DEF InQueue
  <2>6. ~ after /\ (before <=> x.task = t)
    BY <2>1, <2>3 DEF before, after
  <2>7. RunsDue(t)' >= RunsDue(t) - (IF x.task = t THEN 1 ELSE 0)
    <3>1. CASE InQueue(q, t)' = InQueue(q, t) + 0
      BY <1>2, <1>6, <2>4, <3>1, SumChange
    <3>2. CASE x.task = t /\ InQueue(q, t)' = InQueue(q, t) + (-1)
      BY <1>2, <1>6, <2>4, <3>2, SumChange, SMTT(20)
    <3> QED BY <1>6, <2>5, <3>1, <3>2
  <2>8. Listed(t)' => Listed(t)
    <3>1. \A r \in Queues \ {q} : InQueue(r, t)' = InQueue(r, t)
      BY <2>4 DEF InQueue
    <3> QED BY <1>6, <2>5, <3>1 DEF Listed
  <2>9. Carried(t)' => Carried(t)
    <3>1. /\ DOMAIN todo[o] = 1 .. Len(todo[o]) /\ Len(todo[o]) \in Nat
          /\ DOMAIN todo'[o] = 1 .. Len(todo'[o])
      BY <1>7, <2>2, LenProperties
    <3>2. ASSUME NEW i \in DOMAIN todo'[o], todo'[o][i].task = t PROVE Carried(t)
      <4>1. i + 1 \in DOMAIN todo[o] /\ todo[o][i + 1].task = t
        BY <2>2, <3>1, <3>2
      <4> QED BY <4>1 DEF Carried
    <3> QED BY <1>1, <3>2 DEF Carried
  <2> QED
    BY <1>2, <1>3, <1>4, <1>5, <1>6, <2>6, <2>7, <2>8, <2>9 DEF Keeps
<1>12. CASE Delete(o)
  <2>1. /\ queue' = [queue EXCEPT ![src] = << >>] /\ todo' = todo /\ step'[o] = "idle"
        /\ flushed' = flushed \cup {queue[src][i].task : i \in DOMAIN queue[src]}
    BY <1>12 DEF Delete, At, TypeOK
  <2>2. PICK q \in Queues : q = src
    BY <1>7
  <2>3. queue[q] \in Seq(Messages) /\ queue'[q] = << >>
        /\ \A r \in Queues \ {q} : queue'[r] = queue[r]
    BY <2>1, <2>2 DEF TypeOK
  <2>4. InQueue(q, t)' = 0
    BY <2>3, CountEmpty DEF InQueue
  <2>5. ASSUME t \notin Settled' PROVE RunsDue(t)' = RunsDue(t)
    <3>1. ~ \E i \in DOMAIN queue[q] : queue[q][i].task = t
      BY <2>1, <2>2, <2>5 DEF Settled
    <3>2. InQueue(q, t)' = InQueue(q, t) + 0
      BY <1>6, <2>3, <2>4, <3>1, CountPositive DEF InQueue
    <3> QED BY <1>2, <1>6, <2>3, <3>2, SumChange, SMTT(20)
  <2>6. Listed(t)' => Listed(t)
    <3>1. \A r \in Queues \ {q} : InQueue(r, t)' = InQueue(r, t)
      BY <2>3 DEF InQueue
    <3> QED BY <2>4, <3>1 DEF Listed
  <2>7. ~ after /\ OnMove(t)' <= OnMove(t) /\ (Carried(t)' => Carried(t))
    BY <1>3, <1>6, <2>1 DEF after, Carried
  <2> QED
    BY <1>2, <1>4, <1>5, <1>6, <2>5, <2>6, <2>7 DEF Keeps
<1>13. CASE MoveDone(o) \/ OperatorGone(o)
            \/ (\E c \in Moves : MoveTasks(o, c[1], c[2]))
            \/ (\E q \in Flushes : FlushQueue(o, q))
  <2>1. /\ queue' = queue /\ step'[o] # "remove"
        /\ todo'[o] = todo[o] \/ todo'[o] = << >>
    BY <1>13 DEF MoveDone, OperatorGone, MoveTasks, FlushQueue, Command, At, TypeOK
  <2>2. Carried(t)' => Carried(t)
    BY <1>1, <2>1 DEF Carried
  <2> QED BY <1>8, <2>1, <2>2 DEF after
<1> QED
  BY <1>9, <1>10, <1>11, <1>12, <1>13 DEF Goes
---------------------------------------------------------------------------------
(* Nothing is lost. *)

LEMMA SettledGrows ==
  ASSUME [Next]_vars PROVE Settled \subseteq Settled'
<1> USE DEF messages, operation, history, bounds, Settled
<1>1. ASSUME NEW w \in Workers, Work(w) \/ HookFails(w) \/ HardKill(w) \/ WorkerLost(w)
      PROVE  Settled \subseteq Settled'
  BY <1>1 DEF Work, Take, Succeed, Fail, FailUnhooked, AckFailed, HookFails, HardKill,
     WorkerLost, Forsake
<1>2. ASSUME NEW o \in Operators, Goes(o) \/ OperatorGone(o)
      PROVE  Settled \subseteq Settled'
  BY <1>2 DEF Goes, ReadAll, PushNext, RemoveNext, MoveDone, Delete, OperatorGone
<1> QED
  BY <1>1, <1>2 DEF Next, vars, Submit, MoveTasks, FlushQueue, Command

(* A submitted task was unknown, and has one run due afterwards. *)
LEMMA SubmitEffect ==
  ASSUME TypeOK, TypeOK', NEW t \in Tasks, Submit(t), NEW u
  PROVE  /\ ~ Known(t) /\ t \notin Settled /\ Settled' = Settled
         /\ u = t => RunsDue(u)' > 0 /\ OnMove(u)' = 0
         /\ u # t => Keeps(u)
         /\ RunsDue(u)' = RunsDue(u) + (IF u = t THEN 1 ELSE 0) /\ OnMove(u)' = OnMove(u)
<1> USE DEF messages, operation, history, bounds
<1>1. ~ Known(t) /\ t \notin Settled /\ Settled' = Settled
  BY DEF Submit, Settled
<1>2. "celery" \in Queues
  BY DEF Queues
<1>3. /\ \A r \in Queues \ {"celery"} : queue'[r] = queue[r]
      /\ InQueue("celery", u)' = InQueue("celery", u) + (IF t = u THEN 1 ELSE 0)
  <2>1. Publish("celery", t)
    BY DEF Submit
  <2>2. /\ \A r \in Queues \ {"celery"} : queue'[r] = queue[r]
        /\ \A x : Count(queue'["celery"], x)
                  = Count(queue["celery"], x) + (IF t = x THEN 1 ELSE 0)
    BY <1>2, <2>1, PublishType
  <2> QED BY <2>2 DEF InQueue
<1>4. /\ InHand(u)' = InHand(u) /\ OnMove(u)' = OnMove(u)
      /\ (Held(u)' <=> Held(u)) /\ (Carried(u)' <=> Carried(u))
  BY DEF Submit, InHand, OnMove, Running, Removing, Held, Carried
<1>5. /\ \A q \in Queues : InQueue(q, u) \in Nat /\ InQueue(q, u)' \in Nat
      /\ RunsDue(u) \in Nat /\ RunsDue(u)' \in Nat
      /\ InHand(u) \in Nat /\ OnMove(u) \in Nat
  BY Totals, TotalsNext
<1>6. RunsDue(u)' = RunsDue(u) + (IF t = u THEN 1 ELSE 0)
  <2> DEFINE d == IF t = u THEN 1 ELSE 0
  <2>1. d \in Int /\ InQueue("celery", u)' = InQueue("celery", u) + d
    BY <1>3
  <2> HIDE DEF d
  <2>2. RunsDue(u)' - InHand(u)' = RunsDue(u) - InHand(u) + d
    BY <1>2, <1>3, <2>1, SumChange
  <2>3. RunsDue(u)' = RunsDue(u) + d
    BY <1>4, <1>5, <2>1, <2>2
  <2> QED BY <2>3 DEF d
<1>7. CASE u = t
  <2>1. ~ (OnMove(u) > 0)
    BY <1>1, <1>7, DueIsKnown
  <2> QED BY <1>1, <1>4, <1>5, <1>6, <1>7, <2>1
<1>8. CASE u # t
  <2>1. Known(u) <=> Listed(u) \/ Held(u) \/ Carried(u)
    BY KnownSplit
  <2>2. Known(u)' <=> Listed(u)' \/ Held(u)' \/ Carried(u)'
    BY KnownSplitNext
  <2>3. \A q \in Queues : InQueue(q, u)' = InQueue(q, u)
    BY <1>3, <1>5, <1>8 DEF InQueue
  <2>4. Listed(u)' <=> Listed(u)
    BY <2>3 DEF Listed
  <2> QED
    BY <1>1, <1>4, <1>5, <1>6, <1>8, <2>1, <2>2, <2>4 DEF Keeps
<1> QED
  BY <1>7, <1>8

LEMMA StepKeeps ==
  ASSUME TypeOK, TypeOK', [Next]_vars, NEW t, \A u \in Tasks : ~ Submit(u)
  PROVE  Keeps(t)
<1>1. CASE UNCHANGED vars
  <2>1. /\ (Known(t)' <=> Known(t)) /\ RunsDue(t)' = RunsDue(t) /\ OnMove(t)' = OnMove(t)
    BY <1>1 DEF vars, messages, operation, history, bounds, Known, RunsDue, Running, OnMove,
       Removing
  <2>2. RunsDue(t) \in Nat /\ OnMove(t) \in Nat
    BY Totals
  <2> QED BY <2>1, <2>2 DEF Keeps
<1>2. CASE Next
  BY <1>2, WorkKeeps, OperatorKeeps DEF Next
<1> QED
  BY <1>1, <1>2

LEMMA LoseNothingInit == Init => MovesLoseNothing
BY DEF Init, MovesLoseNothing, Known

LEMMA LoseNothingStep ==
  TypeOK /\ TypeOK' /\ MovesLoseNothing /\ [Next]_vars => MovesLoseNothing'
<1> SUFFICES ASSUME TypeOK, TypeOK', MovesLoseNothing, [Next]_vars,
                    NEW t \in Tasks, Known(t)', t \notin Settled'
             PROVE  RunsDue(t)' > OnMove(t)'
  BY DEF MovesLoseNothing, OnMove
<1>1. CASE \E u \in Tasks : Submit(u) /\ u = t
  BY <1>1, SubmitEffect, TotalsNext
<1>2. CASE ~ \E u \in Tasks : Submit(u) /\ u = t
  <2>1. Keeps(t)
    BY <1>2, SubmitEffect, StepKeeps
  <2>2. Known(t) /\ t \notin Settled
    BY <2>1, SettledGrows DEF Keeps
  <2>3. RunsDue(t) > OnMove(t)
    BY <2>2 DEF MovesLoseNothing, OnMove
  <2>4. /\ RunsDue(t) \in Nat /\ OnMove(t) \in Nat
        /\ RunsDue(t)' \in Nat /\ OnMove(t)' \in Nat
    BY Totals, TotalsNext
  <2>5. RunsDue(t)' + OnMove(t) >= RunsDue(t) + OnMove(t)'
    BY <2>1, <2>2 DEF Keeps
  <2> QED
    BY <2>3, <2>4, <2>5
<1> QED
  BY <1>1, <1>2

(* A task that was neither run nor given up has more messages than there   *)
(* are commands about to remove one.                                       *)
THEOREM NothingLost == Spec => []MovesLoseNothing
BY TypeInit, TypeStep, LoseNothingInit, LoseNothingStep, PTL DEF Spec

---------------------------------------------------------------------------------
(* The queues keep the ledger. *)

LEMMA LedgerInit == Init => Ledger!Init
<1> SUFFICES ASSUME Init PROVE Ledger!Init
  OBVIOUS
<1>1. ASSUME NEW t \in Tasks PROVE RunsDue(t) = 0
  <2>1. TypeOK
    BY TypeInit
  <2>2. ~ Known(t)
    BY DEF Init, Known
  <2>3. ~ (RunsDue(t) > 0) /\ RunsDue(t) \in Nat
    BY <2>1, <2>2, DueIsKnown, Totals
  <2> QED BY <2>3
<1> QED
  BY <1>1 DEF Init, Ledger!Init, Pending

LEMMA LedgerStep ==
  TypeOK /\ TypeOK' /\ MovesLoseNothing /\ MovesLoseNothing' /\ [Next]_vars
     => [Ledger!Next]_(Ledger!vars)
<1> SUFFICES ASSUME TypeOK, TypeOK', MovesLoseNothing, MovesLoseNothing', [Next]_vars
             PROVE  [Ledger!Next]_(Ledger!vars)
  OBVIOUS
<1> USE DEF messages, operation, history, bounds
(* What is known and unsettled has a run due, before and after. *)
<1>1. ASSUME NEW t \in Tasks
      PROVE  /\ t \in Pending \/ t \in Settled <=> Known(t) \/ t \in Settled
             /\ t \in Pending' \/ t \in Settled' <=> Known(t)' \/ t \in Settled'
             /\ t \in Pending => Known(t)
             /\ t \in Pending' => Known(t)'
  <2>1. (RunsDue(t) > 0 => Known(t)) /\ (RunsDue(t)' > 0 => Known(t)')
    BY DueIsKnown, DueIsKnownNext
  <2>2. /\ RunsDue(t) \in Nat /\ OnMove(t) \in Nat
        /\ RunsDue(t)' \in Nat /\ OnMove(t)' \in Nat
    BY Totals, TotalsNext
  <2>3. /\ Known(t) /\ t \notin Settled => RunsDue(t) > 0
        /\ Known(t)' /\ t \notin Settled' => RunsDue(t)' > 0
    BY <2>2 DEF MovesLoseNothing, OnMove
  <2> QED
    BY <2>1, <2>3 DEF Pending
<1>2. CASE \E t \in Tasks : Submit(t)
  <2>1. PICK t \in Tasks : Submit(t)
    BY <1>2
  <2>2. /\ t \notin Pending \cup Settled
        /\ finished' = finished /\ flushed' = flushed /\ forsaken' = forsaken
    BY <1>1, <2>1, SubmitEffect DEF Submit
  <2>3. Pending' = Pending \cup {t}
    <3>1. t \in Pending'
      BY <2>1, SubmitEffect DEF Pending
    <3>2. ASSUME NEW u \in Tasks, u # t PROVE RunsDue(u)' = RunsDue(u)
      <4>1. "celery" \in Queues /\ stage' = stage /\ hand' = hand
        BY <2>1 DEF Submit, Queues
      <4>2. /\ Count(queue'["celery"], u) = Count(queue["celery"], u) + 0
            /\ \A r \in Queues \ {"celery"} : queue'[r] = queue[r]
        <5>1. Publish("celery", t)
          BY <2>1 DEF Submit
        <5> QED BY <3>2, <4>1, <5>1, PublishType
      <4>3. InQueue("celery", u)' = InQueue("celery", u) + 0 /\ InHand(u)' = InHand(u)
        BY <4>1, <4>2 DEF InQueue, InHand, Running
      <4>4. RunsDue(u)' - InHand(u)' = RunsDue(u) - InHand(u) + 0
        BY <4>1, <4>2, <4>3, SumChange
      <4> QED BY <4>3, <4>4, Totals, TotalsNext
    <3> QED BY <3>1, <3>2 DEF Pending
  <2>4. Ledger!Submit(t)
    BY <2>2, <2>3 DEF Ledger!Submit, Ledger!Settled, Settled
  <2> QED BY <2>4 DEF Ledger!Next
<1>3. CASE ~ \E t \in Tasks : Submit(t)
  <2>1. Ledger!LeftOvers
    <3>1. ASSUME NEW t \in Tasks, t \notin Settled'
          PROVE  t \in Pending' <=> t \in Pending
      <4>1. Keeps(t)
        BY <1>3, StepKeeps
      <4>2. t \notin Settled
        BY <3>1, SettledGrows
      <4>3. Known(t)' => Known(t)
        BY <4>1 DEF Keeps
      <4>4. t \in Pending => RunsDue(t)' > 0
        <5>1. /\ RunsDue(t) \in Nat /\ OnMove(t) \in Nat
              /\ RunsDue(t)' \in Nat /\ OnMove(t)' \in Nat
          BY Totals, TotalsNext
        <5>2. t \in Pending => RunsDue(t) > OnMove(t) /\ Known(t)
          BY <1>1, <4>2 DEF MovesLoseNothing, OnMove
        <5> QED BY <3>1, <4>1, <5>1, <5>2 DEF Keeps
      <4> QED
        BY <1>1, <3>1, <4>2, <4>3, <4>4 DEF Pending
    <3> QED
      BY <3>1 DEF Ledger!LeftOvers, Ledger!Settled, Settled, Pending
  <2>2. ASSUME UNCHANGED <<finished, flushed, forsaken>> PROVE Ledger!Shuffle
    BY <2>1, <2>2 DEF Ledger!Shuffle, Ledger!LeftOvers, Ledger!Settled
  <2>3. ASSUME NEW w \in Workers, stage[w] = "running" PROVE hand[w].task \in Pending
    <3>1. PICK t \in Tasks : t = hand[w].task
      BY <2>3 DEF TypeOK, Messages
    <3>2. InHand(t) > 0
      <4>1. Running(t) # {}
        BY <2>3, <3>1 DEF Running
      <4> QED BY <4>1, Totals, FS_EmptySet DEF InHand
    <3>3. RunsDue(t) > 0
      BY <3>2, Totals DEF Queues
    <3> QED BY <3>1, <3>3 DEF Pending
  <2>4. ASSUME NEW w \in Workers, Succeed(w) PROVE Ledger!Next
    <3>1. hand[w].task \in Pending /\ hand[w].task \in Tasks
      BY <2>3, <2>4 DEF Succeed, Pending
    <3>2. Ledger!Finish(hand[w].task)
      BY <2>1, <2>4, <3>1 DEF Succeed, Ledger!Finish
    <3> QED BY <3>1, <3>2 DEF Ledger!Next
  <2>5. ASSUME NEW w \in Workers, Forsake(w) PROVE Ledger!Next
    <3>1. {hand[w].task} \subseteq Pending /\ {hand[w].task} \in SUBSET Tasks
      BY <2>3, <2>5 DEF Forsake, Pending
    <3>2. Ledger!GiveUp({hand[w].task})
      BY <2>1, <2>5, <3>1 DEF Forsake, Ledger!GiveUp
    <3> QED BY <3>1, <3>2 DEF Ledger!Next
  <2>6. ASSUME NEW o \in Operators, Delete(o) PROVE Ledger!Next
    <3> DEFINE src == route[o][1]
               S == {queue[src][i].task : i \in DOMAIN queue[src]}
    <3>1. queue[src] \in Seq(Messages) /\ src \in Queues
      BY DEF TypeOK
    <3>2. ASSUME NEW i \in DOMAIN queue[src] PROVE queue[src][i].task \in Pending
      <4>1. PICK t \in Tasks : t = queue[src][i].task
        BY <3>1, LenProperties, ElementOfSeq DEF Messages
      <4>2. InQueue(src, t) > 0
        BY <3>1, <4>1, CountPositive DEF InQueue
      <4>3. RunsDue(t) > 0
        BY <3>1, <4>2, Totals DEF Queues
      <4> QED BY <4>1, <4>3 DEF Pending
    <3>3. S \subseteq Pending /\ S \in SUBSET Tasks
      BY <3>2 DEF Pending
    <3>4. Ledger!GiveUp(S)
      BY <2>1, <2>6, <3>3 DEF Delete, Ledger!GiveUp
    <3> QED BY <3>3, <3>4 DEF Ledger!Next
  <2>7. CASE UNCHANGED vars
    BY <2>2, <2>7 DEF vars, Ledger!Next
  <2>8. ASSUME NEW w \in Workers, Work(w) \/ HookFails(w) \/ HardKill(w) \/ WorkerLost(w)
        PROVE  Ledger!Next
    <3>1. \/ Succeed(w) \/ Forsake(w)
          \/ UNCHANGED <<finished, flushed, forsaken>>
      BY <2>8 DEF Work, Take, Fail, FailUnhooked, AckFailed, HookFails, HardKill, WorkerLost
    <3> QED BY <2>2, <2>4, <2>5, <3>1 DEF Ledger!Next
  <2>9. ASSUME NEW o \in Operators,
               \/ Goes(o) \/ OperatorGone(o)
               \/ \E m \in Moves : MoveTasks(o, m[1], m[2])
               \/ \E q \in Flushes : FlushQueue(o, q)
        PROVE  Ledger!Next
    <3>1. Delete(o) \/ UNCHANGED <<finished, flushed, forsaken>>
      BY <2>9 DEF Goes, ReadAll, PushNext, RemoveNext, MoveDone, OperatorGone, MoveTasks,
         FlushQueue, Command
    <3> QED BY <2>2, <2>6, <3>1 DEF Ledger!Next
  <2> QED
    BY <1>3, <2>7, <2>8, <2>9 DEF Next
<1> QED
  BY <1>2, <1>3

(* Workers, operators, crashes and hooks together do to a task only what   *)
(* the ledger allows.                                                      *)
THEOREM QueuesKeepLedger == Spec => RefinesLedger
<1>1. Spec => [](TypeOK /\ MovesLoseNothing)
  BY TaskQueuesTypes, NothingLost, PTL
<1> QED
  BY <1>1, LedgerInit, LedgerStep, PTL DEF Spec, RefinesLedger, Ledger!Spec

---------------------------------------------------------------------------------
(* Nothing is copied, as long as nobody fails and a single operator only   *)
(* empties dead_letter into queues that are served.                        *)

OneEmptier ==
    /\ \A o, p \in Operators : o = p
    /\ Moves \subseteq {"dead_letter"} \X Served

AtMostOne(t) == RunsDue(t) <= OnMove(t) + (IF t \in Settled THEN 0 ELSE 1)

(* What is left of the snapshot still lies in dead_letter, one message of  *)
(* each task: workers do not serve that queue.                             *)
InDeadLetter(m) == Holds(queue["dead_letter"], m)
MoveUnderWay ==
    \A o \in Operators :
        /\ step[o] \in {"read", "push", "remove"} =>
              route[o][1] = "dead_letter" /\ route[o][2] \in Served
        /\ step[o] \in {"push", "remove"} =>
              \A i \in DOMAIN todo[o] :
                 /\ InDeadLetter(todo[o][i])
                 /\ \A k \in DOMAIN todo[o] : todo[o][k].task = todo[o][i].task => k = i

CopyInv == faults = 0 => MoveUnderWay /\ \A t \in Tasks : AtMostOne(t)

LEMMA NoFault ==
  ASSUME TypeOK, [Next]_vars, faults' = 0
  PROVE  /\ faults = 0
         /\ \A w \in Workers : ~ (HookFails(w) \/ HardKill(w) \/ WorkerLost(w))
         /\ \A o \in Operators : ~ OperatorGone(o)
<1>1. faults \in Nat
  BY DEF TypeOK
<1>2. ~ Fault
  BY <1>1 DEF Fault
<1>3. /\ \A w \in Workers : ~ (HookFails(w) \/ HardKill(w) \/ WorkerLost(w))
      /\ \A o \in Operators : ~ OperatorGone(o)
  BY <1>2 DEF HookFails, HardKill, WorkerLost, OperatorGone
<1>4. faults' = faults
  BY <1>3 DEF Next, Submit, Work, Take, Succeed, Fail, FailUnhooked, AckFailed,
     MoveTasks, FlushQueue, Command, Goes, ReadAll, PushNext, RemoveNext, MoveDone, Delete,
     vars, bounds
<1> QED
  BY <1>3, <1>4

LEMMA WorkCopies ==
  ASSUME TypeOK, TypeOK', NEW w \in Workers, NEW t \in Tasks, Work(w), AtMostOne(t)
  PROVE  AtMostOne(t)'
<1> USE DEF messages, operation, history, bounds
<1> DEFINE before == stage[w] = "running" /\ hand[w].task = t
           after  == stage'[w] = "running" /\ hand'[w].task = t
<1>1. /\ step' = step /\ todo' = todo
      /\ \A v \in Workers \ {w} : stage'[v] = stage[v] /\ hand'[v] = hand[v]
  BY DEF Work, Take, Succeed, Fail, FailUnhooked, AckFailed, Forsake, Acknowledge, TypeOK
<1>2. OnMove(t)' = OnMove(t)
  BY <1>1 DEF OnMove, Removing
<1>3. InHand(t)' = InHand(t) + (IF after THEN 1 ELSE 0) - (IF before THEN 1 ELSE 0)
  BY <1>1, HandChange
<1>4. /\ InHand(t) \in Nat /\ InHand(t)' \in Nat /\ OnMove(t) \in Nat
      /\ RunsDue(t) \in Nat /\ RunsDue(t)' \in Nat
      /\ \A q \in Queues : InQueue(q, t) \in Nat /\ InQueue(q, t)' \in Nat
  BY Totals, TotalsNext
<1> HIDE DEF before, after
<1>5. ASSUME Settled' = Settled, NEW q \in Queues, NEW d \in {0, 1},
             \A r \in Queues \ {q} : queue'[r] = queue[r],
             \/ /\ InQueue(q, t)' = InQueue(q, t) - d
                /\ InHand(t)' = InHand(t) + d
             \/ /\ InQueue(q, t)' = InQueue(q, t) + d
                /\ InHand(t)' = InHand(t) - d
      PROVE  AtMostOne(t)'
  <2>1. PICK e \in Int : InQueue(q, t)' = InQueue(q, t) + e /\ InHand(t)' = InHand(t) - e
    <3>1. CASE InQueue(q, t)' = InQueue(q, t) - d /\ InHand(t)' = InHand(t) + d
      <4>1. /\ -d \in Int /\ InQueue(q, t)' = InQueue(q, t) + (-d)
            /\ InHand(t)' = InHand(t) - (-d)
        BY <1>4, <3>1
      <4> QED BY <4>1
    <3> QED BY <1>5, <3>1
  <2>2. RunsDue(t)' - InHand(t)' = RunsDue(t) - InHand(t) + e
    BY <1>5, <2>1, SumChange
  <2>3. RunsDue(t)' = RunsDue(t)
    BY <1>4, <2>1, <2>2
  <2> QED BY <1>2, <1>5, <2>3 DEF AtMostOne
<1>6. ASSUME NEW q \in Queues, Take(w, q) PROVE AtMostOne(t)'
  <2> DEFINE m == queue[q][Len(queue[q])]
  <2>1. /\ queue[q] \in Seq(Messages) /\ queue[q] # << >>
        /\ queue'[q] = RPop(queue[q]) /\ \A r \in Queues \ {q} : queue'[r] = queue[r]
        /\ hand'[w] = m /\ stage[w] = "idle" /\ stage'[w] = "running"
        /\ Settled' = Settled
    BY <1>6 DEF Take, TypeOK, Settled
  <2>2. InQueue(q, t) = InQueue(q, t)' + (IF m.task = t THEN 1 ELSE 0)
    BY <2>1, CountRPop DEF InQueue
  <2>3. ~ before /\ (after <=> m.task = t)
    BY <2>1 DEF before, after
  <2> HIDE DEF m
  <2> DEFINE d == IF m.task = t THEN 1 ELSE 0
  <2>4. d \in {0, 1} /\ InQueue(q, t)' = InQueue(q, t) - d /\ InHand(t)' = InHand(t) + d
    BY <1>3, <1>4, <2>2, <2>3
  <2> HIDE DEF d
  <2> QED BY <1>5, <2>1, <2>4
<1>7. CASE Fail(w)
  <2>1. hand[w].task \in Tasks /\ "dead_letter" \in Queues /\ Settled' = Settled
    BY <1>7 DEF Fail, TypeOK, Messages, Queues, Settled
  <2>2. PICK q \in Queues : q = "dead_letter"
    BY <2>1
  <2>3. /\ \A r \in Queues \ {q} : queue'[r] = queue[r]
        /\ InQueue(q, t)' = InQueue(q, t) + (IF hand[w].task = t THEN 1 ELSE 0)
    <3>1. Publish(q, hand[w].task)
      BY <1>7, <2>2 DEF Fail
    <3>2. /\ \A r \in Queues \ {q} : queue'[r] = queue[r]
          /\ \A u : Count(queue'[q], u)
                     = Count(queue[q], u) + (IF hand[w].task = u THEN 1 ELSE 0)
      BY <2>1, <3>1, PublishType
    <3> QED BY <3>2 DEF InQueue
  <2>4. ~ after /\ (before <=> hand[w].task = t)
    BY <1>7 DEF Fail, before, after, TypeOK
  <2> DEFINE d == IF hand[w].task = t THEN 1 ELSE 0
  <2>5. d \in {0, 1} /\ InQueue(q, t)' = InQueue(q, t) + d /\ InHand(t)' = InHand(t) - d
    BY <1>3, <1>4, <2>3, <2>4
  <2> HIDE DEF d
  <2> QED BY <1>5, <2>1, <2>3, <2>5
<1>8. CASE AckFailed(w)
  <2>1. ~ before /\ ~ after /\ queue' = queue /\ Settled' = Settled
    BY <1>8 DEF AckFailed, Acknowledge, TypeOK, before, after, Settled
  <2>2. InHand(t)' = InHand(t)
    BY <1>3, <1>4, <2>1
  <2>3. RunsDue(t)' = RunsDue(t)
    BY <2>1, <2>2 DEF RunsDue, InHand
  <2> QED BY <1>2, <2>1, <2>3 DEF AtMostOne
<1>9. CASE Succeed(w) \/ FailUnhooked(w)
  <2>1. /\ stage[w] = "running" /\ ~ after /\ queue' = queue
        /\ Settled' = Settled \cup {hand[w].task}
    BY <1>9 DEF Succeed, FailUnhooked, Forsake, Acknowledge, TypeOK, after, Settled
  <2>2. before <=> hand[w].task = t
    BY <2>1 DEF before
  <2>3. InHand(t)' = InHand(t) - (IF before THEN 1 ELSE 0)
    BY <1>3, <1>4, <2>1
  <2>4. RunsDue(t)' - InHand(t)' = RunsDue(t) - InHand(t) + 0
    <3>1. "celery" \in Queues
      BY DEF Queues
    <3>2. InQueue("celery", t)' = InQueue("celery", t) + 0
      BY <1>4, <2>1, <3>1 DEF InQueue
    <3> QED BY <2>1, <3>1, <3>2, SumChange
  <2>5. RunsDue(t)' = RunsDue(t) - (IF before THEN 1 ELSE 0)
    BY <1>4, <2>3, <2>4
  <2>6. CASE before
    <3>1. t \in Settled'
      BY <2>1, <2>2, <2>6
    <3>2. RunsDue(t) <= OnMove(t) + 1
      BY <1>4 DEF AtMostOne
    <3>3. RunsDue(t)' <= OnMove(t)'
      BY <1>2, <1>4, <2>5, <2>6, <3>2
    <3> QED BY <1>4, <1>2, <3>1, <3>3 DEF AtMostOne
  <2>7. CASE ~ before
    <3>1. (t \in Settled' <=> t \in Settled) /\ RunsDue(t)' = RunsDue(t)
      BY <1>4, <2>1, <2>2, <2>5, <2>7
    <3> QED BY <1>2, <3>1 DEF AtMostOne
  <2> QED BY <2>6, <2>7
<1> QED
  BY <1>6, <1>7, <1>8, <1>9 DEF Work

(* A single operator's removal is the only one there can be. *)
LEMMA OnMoveOfOne ==
  ASSUME TypeOK, OneEmptier, NEW o \in Operators, NEW t
  PROVE  OnMove(t) = IF step[o] = "remove" /\ Head(todo[o]).task = t THEN 1 ELSE 0
<1>1. Removing(t) = IF step[o] = "remove" /\ Head(todo[o]).task = t THEN {o} ELSE {}
  BY DEF Removing, OneEmptier
<1> QED
  BY <1>1, FS_EmptySet, FS_Singleton DEF OnMove

LEMMA OperatorCopies ==
  ASSUME TypeOK, TypeOK', OneEmptier, NEW o \in Operators, NEW t \in Tasks,
         MoveUnderWay, AtMostOne(t),
         \/ Goes(o)
         \/ \E m \in Moves : MoveTasks(o, m[1], m[2])
         \/ \E q \in Flushes : FlushQueue(o, q)
  PROVE  AtMostOne(t)'
<1> USE DEF messages, operation, history, bounds
<1> DEFINE before == step[o] = "remove" /\ Head(todo[o]).task = t
           after  == step'[o] = "remove" /\ Head(todo'[o]).task = t
           src == route[o][1]
           dst == route[o][2]
           m   == Head(todo[o])
<1>1. /\ stage' = stage /\ hand' = hand
      /\ \A p \in Operators \ {o} : step'[p] = step[p] /\ todo'[p] = todo[p]
  BY ZenonT(40) DEF Goes, ReadAll, PushNext, RemoveNext, MoveDone, Delete,
         MoveTasks, FlushQueue, Command, At, TypeOK
<1>2. InHand(t)' = InHand(t)
  BY <1>1 DEF InHand, Running
<1>3. OnMove(t)' = OnMove(t) + (IF after THEN 1 ELSE 0) - (IF before THEN 1 ELSE 0)
  BY <1>1, MoveChange
<1>4. OnMove(t) = IF before THEN 1 ELSE 0
  BY OnMoveOfOne
<1>6. /\ \A q \in Queues : InQueue(q, t) \in Nat /\ InQueue(q, t)' \in Nat
      /\ RunsDue(t) \in Nat /\ RunsDue(t)' \in Nat
      /\ InHand(t) \in Nat /\ OnMove(t) \in Nat /\ OnMove(t)' \in Nat
  BY Totals, TotalsNext
<1>7. src \in Queues /\ dst \in Queues /\ todo[o] \in Seq(Messages)
  BY DEF TypeOK
<1> HIDE DEF before, after
<1>8. CASE /\ queue' = queue /\ Settled' = Settled /\ ~ after /\ ~ before
  <2>1. RunsDue(t)' = RunsDue(t)
    BY <1>1, <1>8 DEF RunsDue, Running
  <2>2. OnMove(t)' = OnMove(t)
    BY <1>3, <1>6, <1>8
  <2> QED BY <1>8, <2>1, <2>2 DEF AtMostOne
<1>9. CASE ReadAll(o) \/ MoveDone(o)
           \/ (\E c \in Moves : MoveTasks(o, c[1], c[2]))
           \/ (\E q \in Flushes : FlushQueue(o, q))
  <2>1. /\ queue' = queue /\ Settled' = Settled
        /\ step'[o] # "remove" /\ step[o] # "remove"
    BY <1>9 DEF ReadAll, MoveDone, MoveTasks, FlushQueue, Command, At, TypeOK, Settled
  <2> QED BY <1>8, <2>1 DEF before, after
<1>10. CASE PushNext(o)
  <2>1. /\ todo[o] # << >> /\ todo' = todo
        /\ step[o] = "push" /\ step'[o] = "remove"
        /\ queue' = [queue EXCEPT ![dst] = RPush(queue[dst], m)]
        /\ Settled' = Settled
    BY <1>10 DEF PushNext, At, TypeOK, Settled
  <2>2. m \in Messages
    BY <1>7, <2>1, HeadTailProperties
  <2>3. PICK q \in Queues, x \in Messages : q = dst /\ x = m
    BY <1>7, <2>2
  <2>4. queue[q] \in Seq(Messages) /\ queue'[q] = RPush(queue[q], x)
        /\ \A r \in Queues \ {q} : queue'[r] = queue[r]
    BY <2>1, <2>3 DEF TypeOK
  <2>5. InQueue(q, t)' = InQueue(q, t) + (IF x.task = t THEN 1 ELSE 0)
    BY <2>4, CountRPush DEF InQueue
  <2>6. ~ before /\ (after <=> x.task = t)
    BY <2>1, <2>3 DEF before, after
  <2>7. RunsDue(t)' = RunsDue(t) + (IF x.task = t THEN 1 ELSE 0)
    <3> DEFINE d == IF x.task = t THEN 1 ELSE 0
    <3>1. d \in Int /\ InQueue(q, t)' = InQueue(q, t) + d
      BY <2>5
    <3> HIDE DEF d
    <3>2. RunsDue(t)' - InHand(t)' = RunsDue(t) - InHand(t) + d
      BY <2>4, <3>1, SumChange
    <3>3. RunsDue(t)' = RunsDue(t) + d
      BY <1>2, <1>6, <3>1, <3>2
    <3> QED BY <3>3 DEF d
  <2>8. OnMove(t)' = OnMove(t) + (IF x.task = t THEN 1 ELSE 0)
    BY <1>3, <1>6, <2>6
  <2>9. t \in Settled' <=> t \in Settled
    BY <2>1
  <2> HIDE DEF m, src, dst
  <2> QED BY <1>6, <2>7, <2>8, <2>9 DEF AtMostOne
<1>11. CASE RemoveNext(o)
  <2>1. /\ step[o] = "remove" /\ step'[o] = "push"
        /\ queue' = [queue EXCEPT ![src] = LRem(queue[src], m)]
        /\ todo[o] # << >> /\ Settled' = Settled
    BY <1>11 DEF RemoveNext, At, TypeOK, Settled
  <2>2. m \in Messages /\ 1 \in DOMAIN todo[o] /\ todo[o][1] = m
    BY <1>7, <2>1, HeadTailProperties, LenProperties, EmptySeq
  <2>3. src = "dead_letter" /\ InDeadLetter(m)
    BY <2>1, <2>2 DEF MoveUnderWay
  <2>4. PICK q \in Queues, x \in Messages : q = src /\ x = m
    BY <1>7, <2>2
  <2>5. queue[q] \in Seq(Messages) /\ queue'[q] = LRem(queue[q], x)
        /\ \A r \in Queues \ {q} : queue'[r] = queue[r]
    BY <2>1, <2>4 DEF TypeOK
  <2>6. \E j \in DOMAIN queue[q] : queue[q][j] = x
    BY <2>3, <2>4 DEF InDeadLetter, Holds
  <2>7. InQueue(q, t) = InQueue(q, t)' + (IF x.task = t THEN 1 ELSE 0)
    BY <2>5, <2>6, CountLRemFound DEF InQueue
  <2>8. ~ after /\ (before <=> x.task = t)
    BY <2>1, <2>4 DEF before, after
  <2>9. RunsDue(t) = RunsDue(t)' + (IF x.task = t THEN 1 ELSE 0)
    <3> DEFINE d == IF x.task = t THEN -1 ELSE 0
    <3>1. d \in Int /\ InQueue(q, t)' = InQueue(q, t) + d
      BY <1>6, <2>7
    <3> HIDE DEF d
    <3>2. RunsDue(t)' - InHand(t)' = RunsDue(t) - InHand(t) + d
      BY <2>5, <3>1, SumChange
    <3>3. RunsDue(t)' = RunsDue(t) + d
      BY <1>2, <1>6, <3>1, <3>2
    <3> QED BY <1>6, <3>3 DEF d
  <2>10. OnMove(t) = OnMove(t)' + (IF x.task = t THEN 1 ELSE 0)
    BY <1>3, <1>6, <2>8
  <2>11. t \in Settled' <=> t \in Settled
    BY <2>1
  <2> HIDE DEF m, src, dst
  <2> QED BY <1>6, <2>9, <2>10, <2>11 DEF AtMostOne
<1>12. CASE Delete(o)
  <2>1. /\ queue' = [queue EXCEPT ![src] = << >>]
        /\ step[o] = "delete" /\ step'[o] = "idle"
        /\ Settled' = Settled \cup {queue[src][i].task : i \in DOMAIN queue[src]}
    BY <1>12 DEF Delete, At, TypeOK, Settled
  <2>2. PICK q \in Queues : q = src
    BY <1>7
  <2>3. queue[q] \in Seq(Messages) /\ queue'[q] = << >>
        /\ \A r \in Queues \ {q} : queue'[r] = queue[r]
    BY <2>1, <2>2 DEF TypeOK
  <2>4. InQueue(q, t)' = 0
    BY <2>3, CountEmpty DEF InQueue
  <2>5. t \in Settled' <=> t \in Settled \/ InQueue(q, t) > 0
    BY <2>1, <2>2, <2>3, CountPositive DEF InQueue
  <2>6. OnMove(t) = 0 /\ OnMove(t)' = 0
    <3>1. ~ before /\ ~ after
      BY <2>1 DEF before, after
    <3> QED BY <1>3, <1>4, <3>1
  <2>7. RunsDue(t)' = RunsDue(t) - InQueue(q, t)
    <3>1. PICK d \in Int : d = - InQueue(q, t)
      BY <1>6
    <3>2. InQueue(q, t)' = InQueue(q, t) + d
      BY <1>6, <2>4, <3>1
    <3>3. RunsDue(t)' - InHand(t)' = RunsDue(t) - InHand(t) + d
      BY <2>3, <3>2, SumChange
    <3>4. RunsDue(t)' = RunsDue(t) + d
      BY <1>2, <1>6, <3>1, <3>3
    <3> QED BY <1>6, <3>1, <3>4
  <2>8. RunsDue(t) <= 1 /\ (t \in Settled => RunsDue(t) <= 0)
    BY <1>6, <2>6 DEF AtMostOne
  <2>9. CASE InQueue(q, t) > 0
    BY <1>6, <2>5, <2>6, <2>7, <2>8, <2>9 DEF AtMostOne
  <2>10. CASE ~ (InQueue(q, t) > 0)
    <3>1. InQueue(q, t) = 0
      BY <1>6, <2>10
    <3>2. RunsDue(t)' = RunsDue(t) /\ (t \in Settled' <=> t \in Settled)
      BY <1>6, <2>5, <2>7, <3>1
    <3> QED BY <2>6, <3>2 DEF AtMostOne
  <2> QED BY <2>9, <2>10
<1> QED
  BY <1>9, <1>10, <1>11, <1>12 DEF Goes

(* Nobody but a move or a flush takes anything from dead_letter. *)
LEMMA StaysInDeadLetter ==
  ASSUME TypeOK, TypeOK', NEW m \in Messages, InDeadLetter(m),
         \/ \E t \in Tasks : Submit(t)
         \/ \E w \in Workers : Work(w)
         \/ UNCHANGED queue
  PROVE  InDeadLetter(m)'
<1> DEFINE s == queue["dead_letter"]
<1>1. /\ s \in Seq(Messages) /\ DOMAIN s = 1 .. Len(s) /\ Len(s) \in Nat
  BY LenProperties DEF TypeOK, Queues
<1>2. PICK j \in DOMAIN s : s[j] = m
  BY DEF InDeadLetter, Holds
<1>3. ASSUME queue'["dead_letter"] = s PROVE InDeadLetter(m)'
  BY <1>2, <1>3 DEF InDeadLetter, Holds
<1>4. ASSUME NEW n \in Messages, queue'["dead_letter"] = LPush(s, n) PROVE InDeadLetter(m)'
  <2> DEFINE p == LPush(s, n)
  <2>1. <<n>> \in Seq(Messages) /\ Len(<<n>>) = 1
    OBVIOUS
  <2>2. /\ p \in Seq(Messages) /\ Len(p) = Len(s) + 1
        /\ \A i \in 1 .. Len(s) : p[i + 1] = s[i]
    BY <1>1, <2>1, ConcatProperties DEF LPush
  <2>3. DOMAIN p = 1 .. Len(p)
    BY <2>2, LenProperties
  <2> HIDE DEF p
  <2>4. j + 1 \in DOMAIN p /\ p[j + 1] = m
    BY <1>1, <1>2, <2>2, <2>3
  <2> QED BY <1>4, <2>4 DEF InDeadLetter, Holds, p
<1>5. ASSUME NEW t \in Tasks, NEW q \in Queues, Publish(q, t) PROVE InDeadLetter(m)'
  <2> DEFINE n == [task |-> t, home |-> q, id |-> nextId]
  <2>1. n \in Messages
    BY DEF Messages, TypeOK
  <2>2. queue' = [queue EXCEPT ![q] = LPush(queue[q], n)]
    BY <1>5 DEF Publish
  <2> HIDE DEF n
  <2>3. CASE q = "dead_letter"
    BY <1>4, <2>1, <2>2, <2>3 DEF TypeOK
  <2>4. CASE q # "dead_letter"
    BY <1>3, <2>2, <2>4 DEF TypeOK, Queues
  <2> QED BY <2>3, <2>4
<1>6. CASE \E t \in Tasks : Submit(t)
  BY <1>5, <1>6 DEF Submit, Queues
<1>7. ASSUME NEW w \in Workers, Work(w) PROVE InDeadLetter(m)'
  <2>1. CASE \E q \in Queues : Take(w, q)
    BY <1>3, <2>1 DEF Take, Served, TypeOK, Queues
  <2>2. CASE Fail(w)
    <3>1. hand[w].task \in Tasks /\ Publish("dead_letter", hand[w].task)
      BY <2>2 DEF Fail, TypeOK, Messages
    <3> QED BY <1>5, <3>1 DEF Queues
  <2>3. CASE Succeed(w) \/ FailUnhooked(w) \/ AckFailed(w)
    BY <1>3, <2>3 DEF Succeed, FailUnhooked, Forsake, AckFailed, messages
  <2> QED BY <1>7, <2>1, <2>2, <2>3 DEF Work
<1>8. CASE UNCHANGED queue
  BY <1>3, <1>8
<1> QED
  BY <1>6, <1>7, <1>8

(* A removal takes only what it names. *)
LEMMA RemovalKeepsOthers ==
  ASSUME NEW y, NEW x, x # y, InDeadLetter(y), InDeadLetter(x),
         queue["dead_letter"] \in Seq(Messages),
         queue'["dead_letter"] = LRem(queue["dead_letter"], y)
  PROVE  InDeadLetter(x)'
BY LRemKeepsOthers DEF InDeadLetter

LEMMA MoveUnderWayStep ==
  ASSUME TypeOK, TypeOK', OneEmptier, MoveUnderWay, \A t \in Tasks : AtMostOne(t),
         [Next]_vars, faults' = 0
  PROVE  MoveUnderWay'
<1> USE DEF messages, operation, history, bounds
<1> SUFFICES ASSUME NEW o \in Operators
             PROVE  /\ step'[o] \in {"read", "push", "remove"} =>
                          route'[o][1] = "dead_letter" /\ route'[o][2] \in Served
                    /\ step'[o] \in {"push", "remove"} =>
                          \A i \in DOMAIN todo'[o] :
                             /\ \E j \in DOMAIN queue'["dead_letter"] :
                                   queue'["dead_letter"][j] = todo'[o][i]
                             /\ \A k \in DOMAIN todo'[o] :
                                   todo'[o][k].task = todo'[o][i].task => k = i
  BY DEF MoveUnderWay, InDeadLetter, Holds
<1>t. /\ todo[o] \in Seq(Messages) /\ DOMAIN todo[o] = 1 .. Len(todo[o])
      /\ Len(todo[o]) \in Nat /\ \A i \in DOMAIN todo[o] : todo[o][i] \in Messages
  BY LenProperties DEF TypeOK
<1>1. CASE \/ \E t \in Tasks : Submit(t)
           \/ \E w \in Workers : Work(w)
           \/ UNCHANGED vars
  <2>1. UNCHANGED <<step, route, todo>>
    BY <1>1 DEF Submit, Work, Take, Succeed, Fail, FailUnhooked, Forsake, AckFailed, vars
  <2>2. ASSUME NEW i \in DOMAIN todo[o], InDeadLetter(todo[o][i])
        PROVE  \E j \in DOMAIN queue'["dead_letter"] : queue'["dead_letter"][j] = todo[o][i]
    <3>1. PICK m \in Messages : m = todo[o][i]
      BY <1>t
    <3>2. InDeadLetter(m)
      BY <2>2, <3>1 DEF InDeadLetter, Holds
    <3>3. InDeadLetter(m)'
      BY <1>1, <3>2, StaysInDeadLetter DEF vars
    <3> QED BY <3>1, <3>3 DEF InDeadLetter, Holds
  <2> QED BY <2>1, <2>2 DEF MoveUnderWay
<1>2. ASSUME NEW m \in Moves, MoveTasks(o, m[1], m[2])
      PROVE  /\ step'[o] = "read"
             /\ route'[o][1] = "dead_letter" /\ route'[o][2] \in Served
  <2>1. m \in {"dead_letter"} \X Served
    BY DEF OneEmptier
  <2> QED BY <1>2, <2>1 DEF MoveTasks, Command, At, TypeOK
<1>3. ASSUME NEW q \in Flushes, FlushQueue(o, q) PROVE step'[o] = "delete"
  BY <1>3 DEF FlushQueue, Command, At, TypeOK
<1>4. ASSUME MoveDone(o) \/ Delete(o) PROVE step'[o] = "idle"
  BY <1>4 DEF MoveDone, Delete, At, TypeOK
<1>5. CASE ReadAll(o)
  <2>1. /\ step[o] = "read" /\ UNCHANGED <<queue, route>>
        /\ todo'[o] = queue[route[o][1]]
    BY <1>5 DEF ReadAll, At, TypeOK
  <2>2. route[o][1] = "dead_letter" /\ route[o][2] \in Served
    BY <2>1 DEF MoveUnderWay
  <2> DEFINE s == queue["dead_letter"]
  <2>3. s \in Seq(Messages) /\ \A i \in DOMAIN s : s[i].task \in Tasks
    <3>1. s \in Seq(Messages)
      BY DEF TypeOK, Queues
    <3>2. \A i \in DOMAIN s : s[i] \in Messages
      BY <3>1, LenProperties, ElementOfSeq
    <3> QED BY <3>1, <3>2 DEF Messages
  <2>4. ASSUME NEW t \in Tasks PROVE Count(s, t) <= 1
    <3>1. OnMove(t) = 0
      BY <2>1, OnMoveOfOne
    <3>2. AtMostOne(t)
      OBVIOUS
    <3>3. RunsDue(t) <= 1
      BY <3>1, <3>2, Totals DEF AtMostOne
    <3> QED BY <3>3, Totals DEF InQueue, Queues
  <2>5. ASSUME NEW i \in DOMAIN s, NEW k \in DOMAIN s, s[k].task = s[i].task PROVE k = i
    BY <2>3, <2>4, <2>5, OnePlace
  <2> HIDE DEF s
  <2>6. todo'[o] = s /\ queue'["dead_letter"] = s
    BY <2>1, <2>2 DEF s
  <2> QED BY <2>1, <2>2, <2>5, <2>6
<1>6. CASE PushNext(o)
  <2>1. /\ step[o] = "push" /\ UNCHANGED <<route, todo>>
        /\ \A q \in Queues \ {route[o][2]} : queue'[q] = queue[q]
    BY <1>6 DEF PushNext, At, TypeOK
  <2>2. route[o][1] = "dead_letter" /\ route[o][2] \in Served
    BY <2>1 DEF MoveUnderWay
  <2>3. queue'["dead_letter"] = queue["dead_letter"]
    BY <2>1, <2>2 DEF Served, Queues
  <2>4. \A i \in DOMAIN todo[o] :
           /\ \E j \in DOMAIN queue["dead_letter"] : queue["dead_letter"][j] = todo[o][i]
           /\ \A k \in DOMAIN todo[o] : todo[o][k].task = todo[o][i].task => k = i
    BY <2>1 DEF MoveUnderWay, InDeadLetter, Holds
  <2> QED BY <2>1, <2>2, <2>3, <2>4
<1>7. CASE RemoveNext(o)
  <2> DEFINE m == Head(todo[o])
  <2>1. /\ step[o] = "remove" /\ route' = route /\ todo[o] # << >>
        /\ queue' = [queue EXCEPT ![route[o][1]] = LRem(queue[route[o][1]], m)]
        /\ todo'[o] = Tail(todo[o])
    BY <1>7 DEF RemoveNext, At, TypeOK
  <2>2. route[o][1] = "dead_letter" /\ route[o][2] \in Served
    BY <2>1 DEF MoveUnderWay
  <2>3. /\ m \in Messages /\ 1 \in DOMAIN todo[o] /\ todo[o][1] = m
        /\ Len(todo'[o]) = Len(todo[o]) - 1 /\ todo'[o] \in Seq(Messages)
        /\ \A i \in 1 .. Len(todo'[o]) : todo'[o][i] = todo[o][i + 1]
    BY <1>t, <2>1, HeadTailProperties, EmptySeq
  <2>4. DOMAIN todo'[o] = 1 .. Len(todo'[o])
    BY <2>3, LenProperties
  <2>5. \A i \in DOMAIN todo'[o] : /\ i + 1 \in DOMAIN todo[o] /\ i + 1 # 1
                                   /\ todo'[o][i] = todo[o][i + 1]
    BY <1>t, <2>3, <2>4
  <2>6. queue'["dead_letter"] = LRem(queue["dead_letter"], m)
        /\ queue["dead_letter"] \in Seq(Messages)
    BY <2>1, <2>2 DEF TypeOK, Queues
  <2> HIDE DEF m
  <2>7. ASSUME NEW i \in DOMAIN todo'[o]
        PROVE  \E j \in DOMAIN queue'["dead_letter"] : queue'["dead_letter"][j] = todo'[o][i]
    <3>1. PICK x, y : x = todo'[o][i] /\ y = m
      OBVIOUS
    <3>2. InDeadLetter(todo[o][1]) /\ InDeadLetter(todo[o][i + 1])
          /\ todo[o][i + 1].task # todo[o][1].task
      BY <2>1, <2>3, <2>5 DEF MoveUnderWay
    <3>3. InDeadLetter(y) /\ InDeadLetter(x) /\ x # y
      BY <2>3, <2>5, <3>1, <3>2
    <3>4. InDeadLetter(x)'
      BY <2>6, <3>1, <3>3, RemovalKeepsOthers
    <3> QED BY <3>1, <3>4 DEF InDeadLetter, Holds
  <2>8. ASSUME NEW i \in DOMAIN todo'[o], NEW k \in DOMAIN todo'[o],
               todo'[o][k].task = todo'[o][i].task
        PROVE  k = i
    <3>1. k + 1 = i + 1
      BY <2>1, <2>5, <2>8 DEF MoveUnderWay
    <3> QED BY <1>t, <2>3, <2>4, <3>1
  <2> QED BY <2>1, <2>2, <2>7, <2>8
<1> QED
  <2>1. \A p \in Operators : p = o
    BY DEF OneEmptier
  <2> QED
    BY <1>1, <1>2, <1>3, <1>4, <1>5, <1>6, <1>7, <2>1, NoFault DEF Next, Goes

LEMMA CopyInit == Init => CopyInv
<1> SUFFICES ASSUME Init PROVE CopyInv
  OBVIOUS
<1>1. MoveUnderWay
  BY DEF Init, MoveUnderWay
<1>2. ASSUME NEW t \in Tasks PROVE AtMostOne(t)
  <2>1. TypeOK /\ ~ Known(t) /\ t \notin Settled
    BY TypeInit DEF Init, Known, Settled
  <2>2. ~ (RunsDue(t) > 0) /\ ~ (OnMove(t) > 0)
    BY <2>1, DueIsKnown
  <2> QED BY <2>1, <2>2, Totals DEF AtMostOne
<1> QED
  BY <1>1, <1>2 DEF CopyInv

LEMMA CopyStep ==
  ASSUME OneEmptier, TypeOK, TypeOK', CopyInv, [Next]_vars
  PROVE  CopyInv'
<1> SUFFICES ASSUME faults' = 0 PROVE MoveUnderWay' /\ \A t \in Tasks : AtMostOne(t)'
  BY DEF CopyInv
<1>1. MoveUnderWay /\ \A t \in Tasks : AtMostOne(t)
  BY NoFault DEF CopyInv
<1>2. MoveUnderWay'
  BY <1>1, MoveUnderWayStep
<1>3. ASSUME NEW t \in Tasks PROVE AtMostOne(t)'
  <2>1. ASSUME NEW u \in Tasks, Submit(u) PROVE AtMostOne(t)'
    <3>1. /\ RunsDue(t)' = RunsDue(t) + (IF t = u THEN 1 ELSE 0) /\ OnMove(t)' = OnMove(t)
          /\ Settled' = Settled /\ ~ Known(u) /\ u \notin Settled
      BY <2>1, SubmitEffect
    <3>2. CASE t = u
      <4>1. RunsDue(t) = 0 /\ OnMove(t) = 0
        BY <3>1, <3>2, DueIsKnown, Totals
      <4> QED BY <3>1, <3>2, <4>1 DEF AtMostOne
    <3>3. CASE t # u
      BY <1>1, <3>1, <3>3, Totals DEF AtMostOne
    <3> QED BY <3>2, <3>3
  <2>2. CASE UNCHANGED vars
    BY <1>1, <2>2 DEF AtMostOne, RunsDue, Running, OnMove, Removing, Settled, vars,
       messages, operation, history
  <2> QED
    BY <1>1, <2>1, <2>2, WorkCopies, OperatorCopies, NoFault DEF Next
<1> QED
  BY <1>2, <1>3

(* With one operator, whose move_tasks commands only empty dead_letter     *)
(* into queues that workers serve, and nobody failing, the pipeline that   *)
(* is not one (an RPUSH, then an LREM) never leaves a task queued twice    *)
(* for longer than between the two.                                        *)
THEOREM OneEmptierCopiesNothing ==
  ASSUME OneEmptier
  PROVE  Spec => []MovesCopyNothing
<1>1. CopyInv => MovesCopyNothing
  BY DEF CopyInv, MovesCopyNothing, AtMostOne, OnMove
<1>2. TypeOK /\ TypeOK' /\ CopyInv /\ [Next]_vars => CopyInv'
  BY CopyStep
<1> QED
  BY <1>1, <1>2, TaskQueuesTypes, CopyInit, PTL DEF Spec
=================================================================================
