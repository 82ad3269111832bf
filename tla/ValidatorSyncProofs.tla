--------------------------- MODULE ValidatorSyncProofs ---------------------------
(***************************************************************************)
(* Proofs about ValidatorSync, for any set of workers and hotkeys, any     *)
(* number of subnets and any time constants with KillSlack < LockMargin.   *)
(* The inductive invariant is built in three layers: types and loop        *)
(* positions; the lock; and what a run knows of the table, which rests on  *)
(* no other run being in the locked region.                                *)
(***************************************************************************)
EXTENDS ValidatorSync, TLAPS

USE WorkersAssumption, SubnetsAssumption, TimesAssumption, BoundsAssumption

(* Where the loops of a run are. *)
PosOK ==
    \A w \in Workers :
        /\ pc[w] \in {"idle", "start"} => pos[w] = 1 /\ fetched[w] = {}
        /\ pc[w] = "fetch" => pos[w] \in Subnets
        /\ pc[w] \in Applying => pos[w] \in fetched[w]

TypeInv == TypeOK /\ PosOK

LEMMA TypeInit == Init => TypeInv
BY DEF Init, TypeInv, TypeOK, PosOK, NoAnswers, Subnets, LockTimeout, Deadline,
       Steps, Critical, Applying

(* One more turn of the fetch loop keeps the loop where it may be. *)
LEMMA EndFetchType ==
  ASSUME TypeInv, NEW w \in Workers, pc[w] = "fetch", EndFetch(w)
  PROVE  /\ pc' \in [Workers -> Steps]
         /\ pos' \in [Workers -> 1 .. NumSubnets + 1]
         /\ \A v \in Workers \ {w} : pc'[v] = pc[v] /\ pos'[v] = pos[v]
         /\ \/ pc'[w] = "next" /\ pos'[w] = 1
            \/ pc'[w] = "fetch" /\ pos'[w] \in Subnets
<1> USE DEF TypeInv, TypeOK, PosOK, Subnets
<1>1. CASE pos[w] = NumSubnets
  <2>1. pc' = [pc EXCEPT ![w] = "next"] /\ pos' = [pos EXCEPT ![w] = 1]
    BY <1>1 DEF EndFetch, Goto
  <2>2. "next" \in Steps /\ 1 \in 1 .. NumSubnets + 1
    BY DEF Steps, Critical
  <2> QED
    BY <2>1, <2>2
<1>2. CASE pos[w] # NumSubnets
  <2>1. pos[w] + 1 \in 1 .. NumSubnets
    BY <1>2
  <2>2. pc' = pc /\ pos' = [pos EXCEPT ![w] = pos[w] + 1]
    BY <1>2 DEF EndFetch
  <2> QED
    BY <2>1, <2>2
<1> QED
  BY <1>1, <1>2

LEMMA TypeStep == TypeInv /\ [Next]_vars => TypeInv'
<1> SUFFICES ASSUME TypeInv, [Next]_vars PROVE TypeInv'
  OBVIOUS
<1>1. ASSUME UNCHANGED vars PROVE TypeInv'
  BY <1>1 DEF TypeInv, TypeOK, PosOK, Steps, Critical, Applying, vars, lock, local, table
<1>2. CASE Beat
  BY <1>2 DEF TypeInv, TypeOK, PosOK, Steps, Critical, Applying, Beat, lock, local, table
<1>3. CASE Tick
  <2> USE DEF TypeInv, TypeOK, PosOK, Steps, Critical, Applying
  <2>1. budget' \in [Workers -> 0 .. Deadline]
    BY <1>3 DEF Tick, Deadline
  <2>2. lockTTL' \in 0 .. LockTimeout
    BY <1>3 DEF Tick, LockTimeout
  <2> QED
    BY <1>3, <2>1, <2>2 DEF Tick, local, table
<1>4. ASSUME NEW w \in Workers, StartTask(w) PROVE TypeInv'
  BY <1>4 DEF TypeInv, TypeOK, PosOK, Steps, Critical, Applying, StartTask, Goto,
               lock, local, table, Deadline
<1>5. ASSUME NEW n \in Subnets, NEW k \in Keys, DebugAdd(n, k)
      PROVE TypeInv'
  BY <1>5 DEF TypeInv, TypeOK, PosOK, Steps, Critical, Applying, DebugAdd, lock, local
<1>6. ASSUME NEW w \in Workers, Work(w) PROVE TypeInv'
  <2> USE DEF TypeInv, TypeOK, PosOK, Steps, Critical, Applying, Subnets
  <2>1. CASE AcquireLock(w)
    <3>1. LockTimeout \in 0 .. LockTimeout
      BY DEF LockTimeout
    <3> QED
      BY <2>1, <3>1 DEF AcquireLock, Goto, local, table
  <2>2. CASE SkipLocked(w)
    BY <2>2 DEF SkipLocked, EndRun, Goto, lock, table, NoAnswers, Deadline
  <2>3. ASSUME NEW S \in SUBSET Keys, FetchOk(w, S) PROVE TypeInv'
    <3>1. fetched' \in [Workers -> SUBSET Subnets] /\ served' \in [Subnets -> SUBSET Keys]
      BY <2>3 DEF FetchOk
    <3>2. answer' \in [Workers -> [Subnets -> SUBSET Keys]]
      BY <2>3 DEF FetchOk
    <3>3. /\ pos' \in [Workers -> 1 .. NumSubnets + 1] /\ pc' \in [Workers -> Steps]
          /\ PosOK'
      <4>1. pc[w] = "fetch" /\ EndFetch(w)
        BY <2>3 DEF FetchOk
      <4>2. \A v \in Workers \ {w} : fetched'[v] = fetched[v]
        BY <2>3 DEF FetchOk
      <4> QED
        BY <4>1, <4>2, EndFetchType
    <3> QED
      BY <2>3, <3>1, <3>2, <3>3 DEF FetchOk, lock, snapshot, table
  <2>4. ASSUME NEW n \in Subnets, NextSubnet(w, n) PROVE TypeInv'
    BY <2>4 DEF NextSubnet, Goto, lock, snapshot, table
  <2>5. CASE LoopDone(w)
    BY <2>5 DEF LoopDone, Goto, lock, local, table
  <2>6. CASE ReadDebugKeys(w)
    BY <2>6 DEF ReadDebugKeys, Goto, lock, table
  <2>7. CASE ReadRows(w)
    BY <2>7 DEF ReadRows, Goto, lock, table
  <2>8. CASE BulkCreate(w)
    BY <2>8 DEF BulkCreate, Goto, lock, local, ToCreate, ValidatorKeys
  <2>9. CASE CreateConflicts(w)
    BY <2>9 DEF CreateConflicts, Goto, lock, local, table
  <2>10. CASE BulkUpdate(w)
    BY <2>10 DEF BulkUpdate, Goto, lock, local, ToActivate, ToDeactivate, ValidatorKeys
  <2>11. CASE MarkSuccess(w)
    <3>1. pos[w] \in Subnets /\ pos[w] + 1 \in 1 .. NumSubnets + 1
      BY <2>11 DEF MarkSuccess
    <3>2. pos' \in [Workers -> 1 .. NumSubnets + 1]
      BY <2>11, <3>1 DEF MarkSuccess
    <3> QED
      BY <2>11, <3>1, <3>2 DEF MarkSuccess, Goto, lock, table
  <2>12. CASE Release(w)
    BY <2>12 DEF Release, EndRun, Goto, table, NoAnswers, Deadline, LockTimeout
  <2> QED
    BY <1>6, <2>1, <2>2, <2>3, <2>4, <2>5, <2>6, <2>7, <2>8, <2>9, <2>10, <2>11, <2>12
    DEF Work
<1>7. ASSUME NEW w \in Workers, Failure(w) PROVE TypeInv'
  <2> USE DEF TypeInv, TypeOK, PosOK, Steps, Critical, Applying, Subnets
  <2>1. CASE HardKill(w)
    BY <2>1 DEF HardKill, Fault, EndRun, Goto, lock, table, NoAnswers, Deadline
  <2>2. CASE WorkerLost(w)
    BY <2>2 DEF WorkerLost, Fault, EndRun, Goto, lock, table, NoAnswers, Deadline
  <2>3. CASE AcquireFails(w)
    BY <2>3 DEF AcquireFails, Fault, EndRun, Goto, lock, table, NoAnswers, Deadline
  <2>4. CASE FetchFails(w)
    <3>1. /\ pos' \in [Workers -> 1 .. NumSubnets + 1] /\ pc' \in [Workers -> Steps]
          /\ PosOK'
      <4>1. pc[w] = "fetch" /\ EndFetch(w) /\ UNCHANGED fetched
        BY <2>4 DEF FetchFails
      <4> QED
        BY <4>1, EndFetchType
    <3> QED
      BY <2>4, <3>1, SMTT(20) DEF FetchFails, Fault, lock, snapshot, table
  <2>5. CASE Raise(w)
    BY <2>5 DEF Raise, Fault, Goto, lock, local, table
  <2>6. CASE ReleaseFails(w)
    BY <2>6 DEF ReleaseFails, Fault, EndRun, Goto, lock, table, NoAnswers, Deadline
  <2> QED
    BY <1>7, <2>1, <2>2, <2>3, <2>4, <2>5, <2>6 DEF Failure
<1> QED
  BY <1>1, <1>2, <1>3, <1>4, <1>5, <1>6, <1>7 DEF Next

(* The model keeps to its types: every run's loops stay within             *)
(* BITTENSOR_NETUIDS and every countdown within its limit.                 *)
THEOREM TypeCorrect == Spec => []TypeOK
<1>1. TypeInv => TypeOK
  BY DEF TypeInv
<1> QED
  BY <1>1, TypeInit, TypeStep, PTL DEF Spec

---------------------------------------------------------------------------------
(* The lock. *)

(* While a run is inside the locked region the key is its own and lives    *)
(* longer than the run can, so neither expiry nor a foreign `finally'      *)
(* takes the lock from under it.                                           *)
CriticalOwnsLock ==
    \A w \in Workers :
        pc[w] \in Critical => lockHolder = w /\ lockTTL > budget[w]

LEMMA LockInit == Init => CriticalOwnsLock
BY DEF Init, CriticalOwnsLock, Critical, Applying

(* A step that leaves the lock alone and takes no run into the locked      *)
(* region does no harm.                                                    *)
LEMMA LockKept ==
  ASSUME TypeInv, CriticalOwnsLock, NEW w \in Workers, UNCHANGED lock,
         \A v \in Workers \ {w} : pc'[v] = pc[v] /\ budget'[v] = budget[v],
         pc'[w] \in Critical => pc[w] \in Critical /\ budget'[w] = budget[w]
  PROVE  CriticalOwnsLock'
<1> SUFFICES ASSUME NEW v \in Workers, pc'[v] \in Critical
             PROVE  lockHolder' = v /\ lockTTL' > budget'[v]
  BY DEF CriticalOwnsLock
<1>1. pc[v] \in Critical /\ budget'[v] = budget[v]
  OBVIOUS
<1> QED
  BY <1>1 DEF CriticalOwnsLock, lock

LEMMA OnlyOneInside == CriticalOwnsLock => OneSyncAtATime
BY DEF CriticalOwnsLock, OneSyncAtATime

LEMMA LockStep == TypeInv /\ CriticalOwnsLock /\ [Next]_vars => CriticalOwnsLock'
<1> SUFFICES ASSUME TypeInv, CriticalOwnsLock, [Next]_vars PROVE CriticalOwnsLock'
  OBVIOUS
<1>t. /\ pc \in [Workers -> Steps] /\ budget \in [Workers -> 0 .. Deadline]
      /\ lockTTL \in 0 .. LockTimeout
  BY DEF TypeInv, TypeOK
<1>1. ASSUME UNCHANGED vars PROVE CriticalOwnsLock'
  BY <1>1 DEF vars, lock, CriticalOwnsLock
<1>2. CASE Beat
  BY <1>2 DEF Beat, lock, CriticalOwnsLock
<1>3. CASE Tick
  <2> SUFFICES ASSUME NEW v \in Workers, pc'[v] \in Critical
               PROVE  lockHolder' = v /\ lockTTL' > budget'[v]
    BY DEF CriticalOwnsLock
  <2>1. pc[v] \in Critical /\ pc[v] # "idle"
    BY <1>3 DEF Tick, Critical, Applying
  <2>2. lockHolder = v /\ lockTTL > budget[v] /\ budget[v] > 0
    BY <1>3, <2>1 DEF CriticalOwnsLock, Tick
  <2>3. budget'[v] = budget[v] - 1 /\ lockTTL' = lockTTL - 1 /\ lockTTL' # 0
    BY <1>3, <1>t, <2>1, <2>2 DEF Tick, Deadline, LockTimeout
  <2>4. lockHolder' = lockHolder
    BY <1>3, <2>3 DEF Tick
  <2> QED
    BY <1>t, <2>2, <2>3, <2>4 DEF Deadline, LockTimeout
<1>4. ASSUME NEW w \in Workers, StartTask(w) PROVE CriticalOwnsLock'
  BY <1>4, <1>t, LockKept DEF StartTask, Goto, Critical, Applying
<1>5. ASSUME NEW n \in Subnets, NEW k \in Keys, DebugAdd(n, k) PROVE CriticalOwnsLock'
  BY <1>5 DEF DebugAdd, lock, CriticalOwnsLock
<1>6. ASSUME NEW w \in Workers, Work(w) PROVE CriticalOwnsLock'
  <2> USE DEF Goto, Critical, Applying
  <2>1. CASE AcquireLock(w)
    <3>1. \A v \in Workers : pc[v] \notin Critical
      BY <2>1, <1>t DEF AcquireLock, CriticalOwnsLock, Deadline
    <3>2. \A v \in Workers : pc'[v] \in Critical => v = w
      BY <2>1, <1>t, <3>1 DEF AcquireLock
    <3>3. lockTTL' = LockTimeout /\ lockHolder' = w /\ budget'[w] = budget[w]
      BY <2>1 DEF AcquireLock
    <3>4. budget[w] < LockTimeout
      BY <1>t DEF Deadline, LockTimeout
    <3> QED
      BY <1>t, <3>2, <3>3, <3>4 DEF CriticalOwnsLock, Deadline, LockTimeout
  <2>2. CASE SkipLocked(w)
    BY <2>2, <1>t, LockKept DEF SkipLocked, EndRun
  <2>3. ASSUME NEW S \in SUBSET Keys, FetchOk(w, S) PROVE CriticalOwnsLock'
    BY <2>3, <1>t, LockKept DEF FetchOk, EndFetch
  <2>4. ASSUME NEW n \in Subnets, NextSubnet(w, n) PROVE CriticalOwnsLock'
    BY <2>4, <1>t, LockKept DEF NextSubnet
  <2>5. CASE LoopDone(w)
    BY <2>5, <1>t, LockKept DEF LoopDone
  <2>6. CASE ReadDebugKeys(w)
    BY <2>6, <1>t, LockKept DEF ReadDebugKeys
  <2>7. CASE ReadRows(w)
    BY <2>7, <1>t, LockKept DEF ReadRows
  <2>8. CASE BulkCreate(w)
    BY <2>8, <1>t, LockKept DEF BulkCreate
  <2>9. CASE CreateConflicts(w)
    BY <2>9, <1>t, LockKept DEF CreateConflicts
  <2>10. CASE BulkUpdate(w)
    BY <2>10, <1>t, LockKept DEF BulkUpdate
  <2>11. CASE MarkSuccess(w)
    BY <2>11, <1>t, LockKept DEF MarkSuccess
  <2>12. CASE Release(w)
    <3>1. \A v \in Workers \ {w} : pc[v] \notin Critical
      BY <2>12, OnlyOneInside DEF Release, OneSyncAtATime
    <3> QED
      BY <2>12, <1>t, <3>1 DEF Release, EndRun, CriticalOwnsLock
  <2> QED
    BY <1>6, <2>1, <2>2, <2>3, <2>4, <2>5, <2>6, <2>7, <2>8, <2>9, <2>10, <2>11, <2>12
    DEF Work
<1>7. ASSUME NEW w \in Workers, Failure(w) PROVE CriticalOwnsLock'
  <2> USE DEF Goto, EndRun, Critical, Applying
  <2>1. CASE HardKill(w)
    BY <2>1, <1>t, LockKept DEF HardKill
  <2>2. CASE WorkerLost(w)
    BY <2>2, <1>t, LockKept DEF WorkerLost
  <2>3. CASE AcquireFails(w)
    BY <2>3, <1>t, LockKept DEF AcquireFails
  <2>4. CASE FetchFails(w)
    BY <2>4, <1>t, LockKept DEF FetchFails, EndFetch
  <2>5. CASE Raise(w)
    BY <2>5, <1>t, LockKept DEF Raise
  <2>6. CASE ReleaseFails(w)
    BY <2>6, <1>t, LockKept DEF ReleaseFails
  <2> QED
    BY <1>7, <2>1, <2>2, <2>3, <2>4, <2>5, <2>6 DEF Failure
<1> QED
  BY <1>1, <1>2, <1>3, <1>4, <1>5, <1>6, <1>7 DEF Next

(* LOCK_TIMEOUT outlives the hard kill: the lock of a live run neither     *)
(* expires nor is deleted by another run, for any task limit and any       *)
(* lateness of the kill below the margin.                                  *)
THEOREM LockOutlivesRun == Spec => []CriticalOwnsLock
BY TypeInit, TypeStep, LockInit, LockStep, PTL DEF Spec

(* Two runs are never inside the locked region together. *)
THEOREM MutualExclusion == Spec => []OneSyncAtATime
BY LockOutlivesRun, OnlyOneInside, PTL

---------------------------------------------------------------------------------
(* The table. *)

Settled(w) ==
    pc[w] = "mark" =>
        /\ answer[w][pos[w]] \subseteq active[pos[w]]
        /\ active[pos[w]] \ debug[pos[w]] \subseteq answer[w][pos[w]]

RunOK(w) == RunKnows(w) /\ Settled(w)

TableOK ==
    \A n \in Subnets : debug[n] \subseteq active[n] /\ active[n] \subseteq known[n]

TableInv == TableOK /\ \A w \in Workers : RunOK(w)

LEMMA TableInit == Init => TableInv
BY DEF Init, TableInv, TableOK, RunOK, RunKnows, Settled, NoAnswers, Critical, Applying

(* A run outside the locked region claims nothing. *)
LEMMA OutsideOK == ASSUME NEW w \in Workers, pc[w] \notin Critical PROVE RunOK(w)
BY DEF RunOK, RunKnows, Settled, Critical, Applying

(* What a run knows stays true while neither it nor the table moves. *)
LEMMA RunKept ==
  ASSUME NEW v \in Workers, RunOK(v), UNCHANGED table, UNCHANGED served,
         pc'[v] = pc[v], pos'[v] = pos[v], fetched'[v] = fetched[v],
         answer'[v] = answer[v], debugSeen'[v] = debugSeen[v],
         rowsSeen'[v] = rowsSeen[v], flagged'[v] = flagged[v]
  PROVE  RunOK(v)'
BY DEF RunOK, RunKnows, Settled, ToCreate, ValidatorKeys, table

(* A step of w that touches neither the table nor another run. *)
LEMMA Aside ==
  ASSUME TableInv, NEW w \in Workers, UNCHANGED table, UNCHANGED served, RunOK(w)',
         \A v \in Workers \ {w} :
             /\ pc'[v] = pc[v] /\ pos'[v] = pos[v] /\ fetched'[v] = fetched[v]
             /\ answer'[v] = answer[v] /\ debugSeen'[v] = debugSeen[v]
             /\ rowsSeen'[v] = rowsSeen[v] /\ flagged'[v] = flagged[v]
  PROVE  TableInv'
<1>1. TableOK'
  BY DEF TableInv, TableOK, table
<1>2. ASSUME NEW v \in Workers PROVE RunOK(v)'
  BY RunKept DEF TableInv
<1> QED
  BY <1>1, <1>2 DEF TableInv

(* A step of w inside the locked region: no other run has claims to break. *)
LEMMA Alone ==
  ASSUME OneSyncAtATime, NEW w \in Workers, pc[w] \in Critical, RunOK(w)', TableOK',
         \A v \in Workers \ {w} : pc'[v] = pc[v]
  PROVE  TableInv'
<1>1. ASSUME NEW v \in Workers, v # w PROVE RunOK(v)'
  <2>1. pc'[v] \notin Critical
    BY <1>1 DEF OneSyncAtATime
  <2> QED
    BY <2>1 DEF RunOK, RunKnows, Settled, Critical, Applying
<1> QED
  BY <1>1 DEF TableInv

(* Ending a run, whichever way, leaves no claim behind. *)
LEMMA EndRunAside ==
  ASSUME TypeInv, TableInv, NEW w \in Workers, EndRun(w), UNCHANGED table,
         UNCHANGED served
  PROVE  TableInv'
<1>1. pc'[w] = "idle"
  BY DEF EndRun, Goto, TypeInv, TypeOK
<1>2. RunOK(w)'
  BY <1>1 DEF RunOK, RunKnows, Settled, Critical, Applying
<1> QED
  BY <1>2, Aside DEF EndRun, Goto, TypeInv, TypeOK

(* An operator's insert: the row is new, so no run has seen it, and it     *)
(* carries the debug flag, so every run's claim allows for it.             *)
LEMMA DebugAddKeeps ==
  ASSUME TypeInv, TableInv, NEW n \in Subnets, NEW k \in Keys, DebugAdd(n, k)
  PROVE  TableInv'
<1>1. /\ k \notin known[n]
      /\ known'  = [known EXCEPT ![n] = @ \cup {k}]
      /\ active' = [active EXCEPT ![n] = @ \cup {k}]
      /\ debug'  = [debug EXCEPT ![n] = @ \cup {k}]
      /\ UNCHANGED <<pc, pos, fetched, answer, debugSeen, rowsSeen, flagged, served>>
  BY DEF DebugAdd, local
<1>2. known \in [Subnets -> SUBSET Keys] /\ active \in [Subnets -> SUBSET Keys]
      /\ debug \in [Subnets -> SUBSET Keys]
  BY DEF TypeInv, TypeOK
<1>3. TableOK'
  BY <1>1, <1>2 DEF TableInv, TableOK
<1>4. ASSUME NEW w \in Workers PROVE RunOK(w)'
  <2>1. RunOK(w) /\ (pc[w] \in Applying => pos[w] \in Subnets)
    BY DEF TableInv, TypeInv, TypeOK, PosOK
  <2>2. CASE pc[w] \in Applying
    <3>1. RunKnows(w)'
      BY <1>1, <1>2, <2>1, <2>2
      DEF RunOK, RunKnows, ToCreate, ValidatorKeys, Applying
    <3>2. Settled(w)'
      BY <1>1, <1>2, <2>1, <2>2 DEF RunOK, Settled
    <3> QED
      BY <3>1, <3>2 DEF RunOK
  <2>3. CASE pc[w] \notin Applying
    BY <1>1, <2>1, <2>3 DEF RunOK, RunKnows, Settled, Applying
  <2> QED
    BY <2>2, <2>3
<1> QED
  BY <1>3, <1>4 DEF TableInv

(* The chain's answer for one subnet is remembered and is the latest. *)
LEMMA FetchOkKeeps ==
  ASSUME TypeInv, OneSyncAtATime, TableInv,
         NEW w \in Workers, NEW S \in SUBSET Keys, FetchOk(w, S)
  PROVE  TableInv'
<1>1. /\ pc[w] = "fetch" /\ EndFetch(w) /\ UNCHANGED table
      /\ fetched' = [fetched EXCEPT ![w] = @ \cup {pos[w]}]
      /\ answer' = [answer EXCEPT ![w][pos[w]] = S]
      /\ served' = [served EXCEPT ![pos[w]] = S]
  BY DEF FetchOk
<1>2. pc[w] \in Critical
  BY <1>1 DEF Critical
<1>3. /\ \A v \in Workers \ {w} : pc'[v] = pc[v]
      /\ \/ pc'[w] = "next"
         \/ pc'[w] = "fetch" /\ pos'[w] \in Subnets
  BY <1>1, EndFetchType
<1>4. \A n \in fetched'[w] : answer'[w][n] = served'[n]
  BY <1>1, <1>2 DEF TableInv, RunOK, RunKnows, TypeInv, TypeOK, PosOK
<1>5. RunOK(w)'
  BY <1>3, <1>4 DEF RunOK, RunKnows, Settled, Applying
<1>6. TableOK'
  BY <1>1 DEF TableInv, TableOK, table
<1> QED
  BY <1>2, <1>3, <1>5, <1>6, Alone

LEMMA ReadsKeep ==
  ASSUME TypeInv, OneSyncAtATime, TableInv, NEW w \in Workers,
         ReadDebugKeys(w) \/ ReadRows(w)
  PROVE  TableInv'
<1> USE DEF TypeInv, TypeOK, PosOK, TableInv, TableOK, Goto
<1>1. pos[w] \in fetched[w] /\ pos[w] \in Subnets /\ RunOK(w) /\ pc[w] \in Critical
  BY DEF ReadDebugKeys, ReadRows, Critical, Applying
<1>2. CASE ReadDebugKeys(w)
  <2>1. RunOK(w)'
    BY <1>1, <1>2 DEF ReadDebugKeys, RunOK, RunKnows, Settled, Critical, Applying, table
  <2> QED
    BY <1>2, <2>1, Aside DEF ReadDebugKeys
<1>3. CASE ReadRows(w)
  <2>1. RunOK(w)'
    BY <1>1, <1>3 DEF ReadRows, RunOK, RunKnows, Settled, Critical, Applying, table
  <2> QED
    BY <1>3, <2>1, Aside DEF ReadRows
<1> QED
  BY <1>2, <1>3

(* After the insert every row is one the run saw, an operator's, or one    *)
(* the insert made and let in.                                             *)
LEMMA BulkCreateKeeps ==
  ASSUME TypeInv, OneSyncAtATime, TableInv, NEW w \in Workers, BulkCreate(w)
  PROVE  TableInv'
<1> DEFINE p == pos[w]
<1>1. /\ pc[w] = "create" /\ pc' = [pc EXCEPT ![w] = "update"]
      /\ known' = [known EXCEPT ![p] = @ \cup ToCreate(w)]
      /\ active' = [active EXCEPT ![p] = @ \cup ToCreate(w)]
      /\ UNCHANGED <<pos, fetched, answer, debugSeen, rowsSeen, flagged, debug, served>>
  BY DEF BulkCreate, Goto, local
<1>2. p \in fetched[w] /\ p \in Subnets /\ pc[w] \in Critical /\ pc'[w] = "update"
  BY <1>1 DEF TypeInv, TypeOK, PosOK, Critical, Applying
<1>3. /\ known'[p] = known[p] \cup ToCreate(w)
      /\ active'[p] = active[p] \cup ToCreate(w)
      /\ ToCreate(w)' = ToCreate(w)
  BY <1>1, <1>2 DEF TypeInv, TypeOK, ToCreate, ValidatorKeys
<1>4. TableOK'
  BY <1>1, <1>3 DEF TableInv, TableOK, TypeInv, TypeOK
<1>5. RunOK(w)
  BY DEF TableInv
<1>6. RunOK(w)'
  BY <1>1, <1>2, <1>3, <1>5 DEF RunOK, RunKnows, Settled, Applying, Critical
<1> QED
  BY <1>1, <1>2, <1>4, <1>6, Alone DEF TypeInv, TypeOK

(* After the update the table agrees with the answer. *)
LEMMA BulkUpdateKeeps ==
  ASSUME TypeInv, OneSyncAtATime, TableInv, NEW w \in Workers, BulkUpdate(w)
  PROVE  TableInv'
<1> DEFINE p == pos[w]
<1>1. /\ pc[w] = "update" /\ pc' = [pc EXCEPT ![w] = "mark"]
      /\ active' = [active EXCEPT ![p] = (@ \ ToDeactivate(w)) \cup ToActivate(w)]
      /\ UNCHANGED <<pos, fetched, answer, debugSeen, rowsSeen, flagged, known, debug,
                     served>>
  BY DEF BulkUpdate, Goto, local
<1>2. p \in fetched[w] /\ p \in Subnets /\ pc[w] \in Critical /\ pc'[w] = "mark"
  BY <1>1 DEF TypeInv, TypeOK, PosOK, Critical, Applying
<1>3. active'[p] = (active[p] \ ToDeactivate(w)) \cup ToActivate(w)
  BY <1>1, <1>2 DEF TypeInv, TypeOK
<1>4. /\ debugSeen[w] \subseteq debug[p]
      /\ rowsSeen[w] \subseteq known[p] /\ flagged[w] \subseteq debug[p]
      /\ rowsSeen[w] \cap debug[p] \subseteq flagged[w]
      /\ known[p] \subseteq rowsSeen[w] \cup debug[p] \cup ToCreate(w)
      /\ ToCreate(w) \subseteq active[p]
      /\ \A n \in fetched[w] : answer[w][n] = served[n]
      /\ debug[p] \subseteq active[p] /\ active[p] \subseteq known[p]
  BY <1>1, <1>2 DEF TableInv, TableOK, RunOK, RunKnows, Applying
<1>5. debug[p] \subseteq active'[p] /\ active'[p] \subseteq known[p]
  BY <1>3, <1>4 DEF ToActivate, ToDeactivate
<1>6. TableOK'
  BY <1>1, <1>5 DEF TableInv, TableOK, TypeInv, TypeOK
<1>7. answer[w][p] \subseteq active'[p]
  BY <1>3, <1>4 DEF ToActivate, ToDeactivate, ToCreate, ValidatorKeys
<1>8. active'[p] \ debug[p] \subseteq answer[w][p]
  BY <1>3, <1>4 DEF ToActivate, ToDeactivate, ToCreate, ValidatorKeys
<1>9. RunOK(w)'
  BY <1>1, <1>2, <1>4, <1>7, <1>8 DEF RunOK, RunKnows, Settled, Applying
<1> QED
  BY <1>1, <1>2, <1>6, <1>9, Alone DEF TypeInv, TypeOK

LEMMA TableStep ==
  TypeInv /\ TypeInv' /\ CriticalOwnsLock /\ TableInv /\ [Next]_vars => TableInv'
<1> SUFFICES ASSUME TypeInv, TypeInv', CriticalOwnsLock, TableInv, [Next]_vars
             PROVE  TableInv'
  OBVIOUS
<1>o. OneSyncAtATime
  BY OnlyOneInside
<1>t. pc \in [Workers -> Steps]
  BY DEF TypeInv, TypeOK
<1>1. ASSUME UNCHANGED vars PROVE TableInv'
  BY <1>1 DEF vars, local, table, TableInv, TableOK, RunOK, RunKnows, Settled,
              ToCreate, ValidatorKeys
<1>2. ASSUME Beat \/ Tick PROVE TableInv'
  BY <1>2 DEF Beat, Tick, local, table, TableInv, TableOK, RunOK, RunKnows, Settled,
              ToCreate, ValidatorKeys
<1>3. ASSUME NEW w \in Workers, StartTask(w) PROVE TableInv'
  <2>1. pc'[w] = "start"
    BY <1>3, <1>t DEF StartTask, Goto
  <2>2. RunOK(w)'
    BY <2>1 DEF RunOK, RunKnows, Settled, Critical, Applying
  <2> QED
    BY <1>3, <1>t, <2>2, Aside DEF StartTask, Goto, local
<1>4. ASSUME NEW n \in Subnets, NEW k \in Keys, DebugAdd(n, k) PROVE TableInv'
  BY <1>4, DebugAddKeeps
<1>5. ASSUME NEW w \in Workers, Work(w) PROVE TableInv'
  <2>r. RunOK(w)
    BY DEF TableInv
  <2>1. CASE AcquireLock(w)
    <3>1. fetched[w] = {} /\ pos[w] \in Subnets
      BY <2>1 DEF AcquireLock, TypeInv, PosOK, Subnets
    <3>2. RunOK(w)'
      BY <2>1, <1>t, <3>1
      DEF AcquireLock, Goto, local, RunOK, RunKnows, Settled, Applying
    <3> QED
      BY <2>1, <1>t, <3>2, Aside DEF AcquireLock, Goto, local
  <2>2. CASE SkipLocked(w)
    BY <2>2, EndRunAside DEF SkipLocked
  <2>3. ASSUME NEW S \in SUBSET Keys, FetchOk(w, S) PROVE TableInv'
    BY <2>3, <1>o, FetchOkKeeps
  <2>4. ASSUME NEW n \in Subnets, NextSubnet(w, n) PROVE TableInv'
    <3>1. RunOK(w)'
      BY <2>4, <1>t, <2>r DEF NextSubnet, Goto, snapshot, RunOK, RunKnows, Settled,
                              Critical, Applying, TypeInv, TypeOK
    <3> QED
      BY <2>4, <1>t, <3>1, Aside DEF NextSubnet, Goto, snapshot, TypeInv, TypeOK
  <2>5. CASE LoopDone(w)
    <3>1. RunOK(w)'
      BY <2>5, <1>t, <2>r DEF LoopDone, Goto, local, RunOK, RunKnows, Settled,
                              Critical, Applying
    <3> QED
      BY <2>5, <1>t, <3>1, Aside DEF LoopDone, Goto, local
  <2>6. CASE ReadDebugKeys(w) \/ ReadRows(w)
    BY <2>6, <1>o, ReadsKeep
  <2>7. CASE BulkCreate(w)
    BY <2>7, <1>o, BulkCreateKeeps
  <2>8. CASE CreateConflicts(w)
    <3>1. RunOK(w)'
      BY <2>8, <1>t, <2>r DEF CreateConflicts, Goto, local, RunOK, RunKnows, Settled,
                              Critical, Applying
    <3> QED
      BY <2>8, <1>t, <3>1, Aside DEF CreateConflicts, Goto, local
  <2>9. CASE BulkUpdate(w)
    BY <2>9, <1>o, BulkUpdateKeeps
  <2>10. CASE MarkSuccess(w)
    <3>1. RunOK(w)'
      BY <2>10, <1>t, <2>r DEF MarkSuccess, Goto, RunOK, RunKnows, Settled,
                               Critical, Applying
    <3> QED
      BY <2>10, <1>t, <3>1, Aside DEF MarkSuccess, Goto, TypeInv, TypeOK
  <2>11. CASE Release(w)
    BY <2>11, EndRunAside DEF Release
  <2> QED
    BY <1>5, <2>1, <2>2, <2>3, <2>4, <2>5, <2>6, <2>7, <2>8, <2>9, <2>10, <2>11
    DEF Work
<1>6. ASSUME NEW w \in Workers, Failure(w) PROVE TableInv'
  <2>1. CASE HardKill(w) \/ WorkerLost(w) \/ AcquireFails(w) \/ ReleaseFails(w)
    BY <2>1, EndRunAside DEF HardKill, WorkerLost, AcquireFails, ReleaseFails
  <2>2. CASE FetchFails(w)
    <3>1. /\ pc[w] = "fetch" /\ EndFetch(w) /\ UNCHANGED <<table, served, snapshot>>
          /\ UNCHANGED <<fetched, answer>>
      BY <2>2 DEF FetchFails
    <3>2. /\ \A v \in Workers \ {w} : pc'[v] = pc[v] /\ pos'[v] = pos[v]
          /\ \/ pc'[w] = "next"
             \/ pc'[w] = "fetch" /\ pos'[w] \in Subnets
      BY <3>1, EndFetchType
    <3>3. RunOK(w)'
      BY <3>1, <3>2 DEF TableInv, RunOK, RunKnows, Settled, Critical, Applying
    <3> QED
      BY <3>1, <3>2, <3>3, Aside DEF snapshot
  <2>3. CASE Raise(w)
    <3>1. RunOK(w)'
      BY <2>3, <1>t DEF Raise, Goto, local, TableInv, RunOK, RunKnows, Settled,
                        Critical, Applying
    <3> QED
      BY <2>3, <1>t, <3>1, Aside DEF Raise, Goto, local
  <2> QED
    BY <1>6, <2>1, <2>2, <2>3 DEF Failure
<1> QED
  BY <1>1, <1>2, <1>3, <1>4, <1>5, <1>6 DEF Next

LEMMA TableInvHolds == Spec => [](TypeInv /\ CriticalOwnsLock /\ TableInv)
BY TypeInit, TypeStep, LockInit, LockStep, TableInit, TableStep, PTL DEF Spec

(* What a run read stays good enough to write from, although operators     *)
(* insert rows while it works.                                             *)
THEOREM RunsKnow == Spec => []RunsKnowTheTable
<1>1. TableInv => RunsKnowTheTable
  BY DEF TableInv, TableOK, RunOK, RunsKnowTheTable
<1> QED
  BY <1>1, TableInvHolds, PTL

(* No synchronisation ever puts out a hotkey an operator added. *)
THEOREM DebugRowsSafe == Spec => []DebugRowsStayActive
<1>1. TableInv => DebugRowsStayActive
  BY DEF TableInv, TableOK, DebugRowsStayActive
<1> QED
  BY <1>1, TableInvHolds, PTL

(* A recorded success means the subnet's rows agree with the answer. *)
THEOREM SuccessMeansSettled == Spec => []MarkedMeansSettled
<1>1. TableInv => MarkedMeansSettled
  BY DEF TableInv, RunOK, Settled, MarkedMeansSettled
<1> QED
  BY <1>1, TableInvHolds, PTL

---------------------------------------------------------------------------------
(* The registry's promise. *)

LEMMA RefinementInit == Init => R!Init
BY DEF Init, R!Init, NoAnswers

LEMMA CreateSettles ==
  ASSUME TypeInv, TableInv, NEW w \in Workers, BulkCreate(w)
  PROVE  R!Settle(pos[w], ToCreate(w), {})
<1>1. pos[w] \in Subnets /\ pos[w] \in fetched[w] /\ pc[w] = "create"
  BY DEF BulkCreate, TypeInv, TypeOK, PosOK, Applying
<1>2. ToCreate(w) \subseteq served[pos[w]] \cup debug[pos[w]]
  BY <1>1 DEF TableInv, RunOK, RunKnows, ToCreate, ValidatorKeys, Critical, Applying
<1> QED
  BY <1>1, <1>2 DEF BulkCreate, R!Settle, TypeInv, TypeOK

LEMMA UpdateSettles ==
  ASSUME TypeInv, TableInv, NEW w \in Workers, BulkUpdate(w)
  PROVE  R!Settle(pos[w], ToActivate(w), ToDeactivate(w))
<1>1. pos[w] \in Subnets /\ pos[w] \in fetched[w] /\ pc[w] = "update"
  BY DEF BulkUpdate, TypeInv, TypeOK, PosOK, Applying
<1>2. /\ answer[w][pos[w]] = served[pos[w]]
      /\ debugSeen[w] \subseteq debug[pos[w]]
      /\ rowsSeen[w] \cap debug[pos[w]] \subseteq flagged[w]
  BY <1>1 DEF TableInv, RunOK, RunKnows, Critical, Applying
<1>3. ToActivate(w) \subseteq served[pos[w]] \cup debug[pos[w]]
  BY <1>2 DEF ToActivate, ValidatorKeys
<1>4. ToDeactivate(w) \cap (served[pos[w]] \cup debug[pos[w]]) = {}
  BY <1>2 DEF ToDeactivate, ValidatorKeys
<1> QED
  BY <1>1, <1>3, <1>4 DEF BulkUpdate, R!Settle, TypeInv, TypeOK

LEMMA RefinementStep == TypeInv /\ TableInv /\ [Next]_vars => [R!Next]_(R!vars)
<1> SUFFICES ASSUME TypeInv, TableInv, [Next]_vars,
                    ~ UNCHANGED <<served, debug, active>>
             PROVE  R!Next
  BY DEF R!vars
<1>1. ASSUME NEW n \in Subnets, NEW k \in Keys, DebugAdd(n, k) PROVE R!Next
  <2>1. R!DebugAdd(n, k)
    BY <1>1 DEF DebugAdd, R!DebugAdd
  <2> QED
    BY <2>1 DEF R!Next
<1>2. ASSUME NEW w \in Workers, NEW S \in SUBSET Keys, FetchOk(w, S) PROVE R!Next
  <2>1. pos[w] \in Subnets
    BY <1>2 DEF FetchOk, TypeInv, PosOK
  <2>2. R!Answer(pos[w], S)
    BY <1>2 DEF FetchOk, R!Answer, table
  <2> QED
    BY <2>1, <2>2 DEF R!Next
<1>3. ASSUME NEW w \in Workers, BulkCreate(w) PROVE R!Next
  <2>1. pos[w] \in Subnets /\ ToCreate(w) \in SUBSET Keys /\ {} \in SUBSET Keys
    BY <1>3 DEF BulkCreate, TypeInv, TypeOK, PosOK, Applying, ToCreate, ValidatorKeys
  <2> QED
    BY <1>3, <2>1, CreateSettles DEF R!Next
<1>4. ASSUME NEW w \in Workers, BulkUpdate(w) PROVE R!Next
  <2>1. /\ pos[w] \in Subnets /\ ToActivate(w) \in SUBSET Keys
        /\ ToDeactivate(w) \in SUBSET Keys
    BY <1>4 DEF BulkUpdate, TypeInv, TypeOK, PosOK, Applying, ToActivate, ToDeactivate
  <2> QED
    BY <1>4, <2>1, UpdateSettles DEF R!Next
<1>5. ASSUME UNCHANGED vars \/ Beat \/ Tick PROVE FALSE
  BY <1>5 DEF vars, table, Beat, Tick
<1>6. ASSUME NEW w \in Workers, StartTask(w) \/ Failure(w) PROVE FALSE
  BY <1>6 DEF StartTask, Failure, HardKill, WorkerLost, AcquireFails, FetchFails,
              Raise, ReleaseFails, table
<1>7. ASSUME NEW w \in Workers,
             \/ AcquireLock(w) \/ SkipLocked(w) \/ LoopDone(w) \/ ReadDebugKeys(w)
             \/ ReadRows(w) \/ CreateConflicts(w) \/ MarkSuccess(w) \/ Release(w)
             \/ \E n \in Subnets : NextSubnet(w, n)
      PROVE  FALSE
  BY <1>7 DEF AcquireLock, SkipLocked, LoopDone, ReadDebugKeys, ReadRows,
              CreateConflicts, MarkSuccess, Release, NextSubnet, table
<1> QED
  BY <1>1, <1>2, <1>3, <1>4, <1>5, <1>6, <1>7 DEF Next, Work

(* The task, with its lock, crashes and interleavings, only ever does to   *)
(* the table what the registry promises.                                   *)
THEOREM Refinement == Spec => RefinesRegistry
<1>1. Spec => R!Spec
  BY RefinementInit, RefinementStep, TableInvHolds, PTL DEF Spec, R!Spec
<1> QED
  BY <1>1 DEF RefinesRegistry
=================================================================================
