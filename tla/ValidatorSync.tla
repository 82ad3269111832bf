------------------------------ MODULE ValidatorSync ------------------------------
(***************************************************************************)
(* The periodic task that copies each subnet's validator list from the     *)
(* chain into the validator table: core/tasks.py, run by several Celery    *)
(* workers under a Redis lock with a time-to-live, with operators adding   *)
(* rows by hand (debug_add_validator) at any moment.                       *)
(*                                                                         *)
(* A run is split where another process can get in between: every cache    *)
(* call, chain call, query and write is a step.  Subnet n is the n-th      *)
(* entry of BITTENSOR_NETUIDS, so both loops of the task visit subnets in  *)
(* increasing order.  Time is counted in units of the task limit: `budget' *)
(* and `lockTTL' count down together, and the hard kill of a late run can  *)
(* itself be late by up to KillSlack units.                                *)
(***************************************************************************)
EXTENDS Integers, FiniteSets

CONSTANTS
    Workers,      \* Celery worker processes
    NoWorker,     \* holder of a lock nobody holds
    Keys,         \* hotkeys
    NumSubnets,   \* length of BITTENSOR_NETUIDS
    TaskLimit,    \* CELERY_TASK_TIME_LIMIT
    KillSlack,    \* how late the hard kill may come
    LockMargin,   \* what LOCK_TIMEOUT adds to the task limit
    MaxPending,   \* bound: messages beat leaves waiting
    MaxFaults     \* bound: failures of the chain, Redis, PostgreSQL, workers

ASSUME WorkersAssumption == NoWorker \notin Workers
ASSUME SubnetsAssumption == NumSubnets \in Nat \ {0}
ASSUME TimesAssumption ==
    /\ TaskLimit \in Nat /\ KillSlack \in Nat /\ LockMargin \in Nat
    /\ KillSlack < LockMargin
ASSUME BoundsAssumption == MaxPending \in Nat /\ MaxFaults \in Nat

Subnets == 1 .. NumSubnets

LockTimeout_NoMargin == TaskLimit    \* variant: forgets the margin
LockTimeout == TaskLimit + LockMargin

Deadline == TaskLimit + KillSlack

VARIABLES
    pending,     \* messages waiting in the queue
    lockTTL,     \* time left to the lock's key; 0 when there is no key
    lockHolder,  \* history: who added the key (the key itself does not say)
    pc,          \* pc[w]: the next step of w's run, "idle" when it has none
    budget,      \* budget[w]: time left before the run is surely killed
    pos,         \* pos[w]: the subnet w's loop is at
    fetched,     \* fetched[w]: keys of keys_by_netuid ...
    answer,      \* ... and its values
    debugSeen,   \* debugSeen[w]: debug_keys
    rowsSeen,    \* rowsSeen[w]: hotkeys of the rows the loop goes through ...
    flagged,     \* ... and those of them whose row has debug set
    known,       \* known[n]: hotkeys with a row for subnet n
    active,      \* active[n]: hotkeys whose row for n has active set
    debug,       \* debug[n]: hotkeys whose row for n has debug set
    served,      \* history: the last list the chain gave for n
    recorded,    \* subnets with a last-success key in the cache
    faults       \* failures so far

local    == <<pos, fetched, answer, debugSeen, rowsSeen, flagged>>
snapshot == <<debugSeen, rowsSeen, flagged>>
table    == <<known, active, debug>>
lock     == <<lockTTL, lockHolder>>
vars == <<pending, lock, pc, budget, local, table, served, recorded, faults>>

Applying == {"debug", "rows", "create", "update", "mark"}
Critical == {"fetch", "next", "release"} \cup Applying
Steps    == {"idle", "start"} \cup Critical

TypeOK ==
    /\ pending \in Nat
    /\ lockTTL \in 0 .. LockTimeout
    /\ lockHolder \in Workers \cup {NoWorker}
    /\ pc \in [Workers -> Steps]
    /\ budget \in [Workers -> 0 .. Deadline]
    /\ pos \in [Workers -> 1 .. NumSubnets + 1]
    /\ fetched \in [Workers -> SUBSET Subnets]
    /\ answer \in [Workers -> [Subnets -> SUBSET Keys]]
    /\ debugSeen \in [Workers -> SUBSET Keys]
    /\ rowsSeen \in [Workers -> SUBSET Keys]
    /\ flagged \in [Workers -> SUBSET Keys]
    /\ known \in [Subnets -> SUBSET Keys]
    /\ active \in [Subnets -> SUBSET Keys]
    /\ debug \in [Subnets -> SUBSET Keys]
    /\ served \in [Subnets -> SUBSET Keys]
    /\ recorded \subseteq Subnets
    /\ faults \in 0 .. MaxFaults

NoAnswers == [n \in Subnets |-> {}]

Init ==
    /\ pending = 0
    /\ lockTTL = 0 /\ lockHolder = NoWorker
    /\ pc = [w \in Workers |-> "idle"]
    /\ budget = [w \in Workers |-> 0]
    /\ pos = [w \in Workers |-> 1]
    /\ fetched = [w \in Workers |-> {}]
    /\ answer = [w \in Workers |-> NoAnswers]
    /\ debugSeen = [w \in Workers |-> {}]
    /\ rowsSeen = [w \in Workers |-> {}]
    /\ flagged = [w \in Workers |-> {}]
    /\ known = NoAnswers /\ active = NoAnswers /\ debug = NoAnswers
    /\ served = NoAnswers
    /\ recorded = {}
    /\ faults = 0

---------------------------------------------------------------------------------
(* Celery around the task: beat, delivery, and the end of a run. *)

Goto(w, step) == pc' = [pc EXCEPT ![w] = step]

Fault == faults < MaxFaults /\ faults' = faults + 1

(* The process is free again and the run's local variables are gone. *)
EndRun(w) ==
    /\ Goto(w, "idle")
    /\ budget' = [budget EXCEPT ![w] = 0]
    /\ pos' = [pos EXCEPT ![w] = 1]
    /\ fetched' = [fetched EXCEPT ![w] = {}]
    /\ answer' = [answer EXCEPT ![w] = NoAnswers]
    /\ debugSeen' = [debugSeen EXCEPT ![w] = {}]
    /\ rowsSeen' = [rowsSeen EXCEPT ![w] = {}]
    /\ flagged' = [flagged EXCEPT ![w] = {}]

Beat ==
    /\ pending < MaxPending
    /\ pending' = pending + 1
    /\ UNCHANGED <<lock, pc, budget, local, table, served, recorded, faults>>

StartTask(w) ==
    /\ pc[w] = "idle" /\ pending > 0
    /\ pending' = pending - 1
    /\ Goto(w, "start")
    /\ budget' = [budget EXCEPT ![w] = Deadline]
    /\ UNCHANGED <<lock, local, table, served, recorded, faults>>

(* Time passes, but not past the moment a running task is surely killed. *)
Tick ==
    /\ \A w \in Workers : pc[w] # "idle" => budget[w] > 0
    /\ budget' = [w \in Workers |-> IF pc[w] = "idle" THEN 0 ELSE budget[w] - 1]
    /\ lockTTL' = IF lockTTL = 0 THEN 0 ELSE lockTTL - 1
    /\ lockHolder' = IF lockTTL' = 0 THEN NoWorker ELSE lockHolder
    /\ UNCHANGED <<pending, pc, local, table, served, recorded, faults>>

(* The pool kills a run at the time limit.  Nothing of the task runs any   *)
(* more, `finally' included, and the message counts as done.               *)
HardKill(w) ==
    /\ pc[w] # "idle" /\ budget[w] <= KillSlack
    /\ Fault
    /\ EndRun(w)
    /\ UNCHANGED <<pending, lock, table, served, recorded>>

(* The process dies; late acknowledgement puts the message back. *)
WorkerLost(w) ==
    /\ pc[w] # "idle"
    /\ Fault
    /\ pending' = pending + 1
    /\ EndRun(w)
    /\ UNCHANGED <<lock, table, served, recorded>>

---------------------------------------------------------------------------------
(* fetch_validators: the lock around a run. *)

AcquireLock(w) ==
    /\ pc[w] = "start" /\ lockTTL = 0
    /\ lockTTL' = LockTimeout /\ lockHolder' = w
    /\ Goto(w, "fetch")
    /\ UNCHANGED <<pending, budget, local, table, served, recorded, faults>>

SkipLocked(w) ==
    /\ pc[w] = "start" /\ lockTTL > 0
    /\ EndRun(w)
    /\ UNCHANGED <<pending, lock, table, served, recorded, faults>>

(* cache.add raises: the run ends before its `try'. *)
AcquireFails(w) ==
    /\ pc[w] = "start"
    /\ Fault
    /\ EndRun(w)
    /\ UNCHANGED <<pending, lock, table, served, recorded>>

(* `finally: cache.delete': deletes the key, whoever added it. *)
Release(w) ==
    /\ pc[w] = "release"
    /\ lockTTL' = 0 /\ lockHolder' = NoWorker
    /\ EndRun(w)
    /\ UNCHANGED <<pending, table, served, recorded, faults>>

ReleaseFails(w) ==
    /\ pc[w] = "release"
    /\ Fault
    /\ EndRun(w)
    /\ UNCHANGED <<pending, lock, table, served, recorded>>

(* Any other call of the run raises something the task does not catch. *)
Raise(w) ==
    /\ pc[w] \in Critical \ {"next", "release"}
    /\ Fault
    /\ Goto(w, "release")
    /\ UNCHANGED <<pending, lock, budget, local, table, served, recorded>>

---------------------------------------------------------------------------------
(* _fetch_validators, first loop: ask the chain for every subnet's list. *)

(* Variant: one subnet further than there are. *)
EndFetch_OneMore(w) ==
    IF pos[w] > NumSubnets
    THEN Goto(w, "next") /\ pos' = [pos EXCEPT ![w] = 1]
    ELSE pos' = [pos EXCEPT ![w] = @ + 1] /\ UNCHANGED pc

EndFetch(w) ==
    IF pos[w] = NumSubnets
    THEN Goto(w, "next") /\ pos' = [pos EXCEPT ![w] = 1]
    ELSE pos' = [pos EXCEPT ![w] = @ + 1] /\ UNCHANGED pc

FetchOk(w, S) ==
    /\ pc[w] = "fetch"
    /\ fetched' = [fetched EXCEPT ![w] = @ \cup {pos[w]}]
    /\ answer' = [answer EXCEPT ![w][pos[w]] = S]
    /\ served' = [served EXCEPT ![pos[w]] = S]
    /\ EndFetch(w)
    /\ UNCHANGED <<pending, lock, budget, snapshot, table, recorded, faults>>

(* Variant: a failed subnet enters keys_by_netuid with no hotkeys. *)
FetchFails_AsEmpty(w) ==
    /\ pc[w] = "fetch"
    /\ Fault
    /\ fetched' = [fetched EXCEPT ![w] = @ \cup {pos[w]}]
    /\ answer' = [answer EXCEPT ![w][pos[w]] = {}]
    /\ EndFetch(w)
    /\ UNCHANGED <<pending, lock, budget, snapshot, table, served, recorded>>

(* The task logs the failure and goes on without this subnet. *)
FetchFails(w) ==
    /\ pc[w] = "fetch"
    /\ Fault
    /\ EndFetch(w)
    /\ UNCHANGED <<pending, lock, budget, fetched, answer, snapshot, table,
                   served, recorded>>

---------------------------------------------------------------------------------
(* Second loop: bring the rows of each fetched subnet up to date. *)

NextSubnet(w, n) ==
    /\ pc[w] = "next"
    /\ n \in fetched[w] /\ n >= pos[w]
    /\ \A m \in fetched[w] : m >= pos[w] => n <= m
    /\ pos' = [pos EXCEPT ![w] = n]
    /\ Goto(w, "debug")
    /\ UNCHANGED <<pending, lock, budget, fetched, answer, snapshot, table,
                   served, recorded, faults>>

LoopDone(w) ==
    /\ pc[w] = "next"
    /\ \A n \in fetched[w] : n < pos[w]
    /\ Goto(w, "release")
    /\ UNCHANGED <<pending, lock, budget, local, table, served, recorded, faults>>

ReadDebugKeys(w) ==
    /\ pc[w] = "debug"
    /\ debugSeen' = [debugSeen EXCEPT ![w] = debug[pos[w]] \cap active[pos[w]]]
    /\ Goto(w, "rows")
    /\ UNCHANGED <<pending, lock, budget, pos, fetched, answer, rowsSeen, flagged,
                   table, served, recorded, faults>>

(* Variant: only rows that are let in are read. *)
ReadRows_ActiveOnly(w) ==
    /\ pc[w] = "rows"
    /\ rowsSeen' = [rowsSeen EXCEPT ![w] = active[pos[w]]]
    /\ flagged' = [flagged EXCEPT ![w] = debug[pos[w]]]
    /\ Goto(w, "create")
    /\ UNCHANGED <<pending, lock, budget, pos, fetched, answer, debugSeen,
                   table, served, recorded, faults>>

ReadRows(w) ==
    /\ pc[w] = "rows"
    /\ rowsSeen' = [rowsSeen EXCEPT ![w] = known[pos[w]]]
    /\ flagged' = [flagged EXCEPT ![w] = debug[pos[w]]]
    /\ Goto(w, "create")
    /\ UNCHANGED <<pending, lock, budget, pos, fetched, answer, debugSeen,
                   table, served, recorded, faults>>

(* Variant: the row loop without its `elif not validator.debug'. *)
ToDeactivate_Everybody(w) == rowsSeen[w] \ (answer[w][pos[w]] \cup debugSeen[w])

(* validator_keys once debug_keys are in, and what the row loop makes of it. *)
ValidatorKeys(w) == answer[w][pos[w]] \cup debugSeen[w]
ToActivate(w)    == rowsSeen[w] \cap ValidatorKeys(w)
ToDeactivate(w)  == (rowsSeen[w] \ ValidatorKeys(w)) \ flagged[w]
ToCreate(w)      == ValidatorKeys(w) \ rowsSeen[w]

BulkCreate(w) ==
    /\ pc[w] = "create"
    /\ ToCreate(w) \cap known[pos[w]] = {}
    /\ known' = [known EXCEPT ![pos[w]] = @ \cup ToCreate(w)]
    /\ active' = [active EXCEPT ![pos[w]] = @ \cup ToCreate(w)]
    /\ Goto(w, "update")
    /\ UNCHANGED <<pending, lock, budget, local, debug, served, recorded, faults>>

(* A row the run did not see has the same hotkey: the insert violates the  *)
(* unique constraint and the IntegrityError ends the whole run.            *)
CreateConflicts(w) ==
    /\ pc[w] = "create"
    /\ ToCreate(w) \cap known[pos[w]] # {}
    /\ Goto(w, "release")
    /\ UNCHANGED <<pending, lock, budget, local, table, served, recorded, faults>>

(* Variants: one of the two lists is left out of bulk_update. *)
BulkUpdate_DeactivateOnly(w) ==
    /\ pc[w] = "update"
    /\ active' = [active EXCEPT ![pos[w]] = @ \ ToDeactivate(w)]
    /\ Goto(w, "mark")
    /\ UNCHANGED <<pending, lock, budget, local, known, debug, served, recorded,
                   faults>>

BulkUpdate_ActivateOnly(w) ==
    /\ pc[w] = "update"
    /\ active' = [active EXCEPT ![pos[w]] = @ \cup ToActivate(w)]
    /\ Goto(w, "mark")
    /\ UNCHANGED <<pending, lock, budget, local, known, debug, served, recorded,
                   faults>>

BulkUpdate(w) ==
    /\ pc[w] = "update"
    /\ active' = [active EXCEPT ![pos[w]] = (@ \ ToDeactivate(w)) \cup ToActivate(w)]
    /\ Goto(w, "mark")
    /\ UNCHANGED <<pending, lock, budget, local, known, debug, served, recorded,
                   faults>>

MarkSuccess(w) ==
    /\ pc[w] = "mark"
    /\ recorded' = recorded \cup {pos[w]}
    /\ pos' = [pos EXCEPT ![w] = @ + 1]
    /\ debugSeen' = [debugSeen EXCEPT ![w] = {}]
    /\ rowsSeen' = [rowsSeen EXCEPT ![w] = {}]
    /\ flagged' = [flagged EXCEPT ![w] = {}]
    /\ Goto(w, "next")
    /\ UNCHANGED <<pending, lock, budget, fetched, answer, table, served, faults>>

---------------------------------------------------------------------------------
(* debug_add_validator: fails, without effect, when the row exists. *)
DebugAdd(n, k) ==
    /\ k \notin known[n]
    /\ known'  = [known EXCEPT ![n] = @ \cup {k}]
    /\ active' = [active EXCEPT ![n] = @ \cup {k}]
    /\ debug'  = [debug EXCEPT ![n] = @ \cup {k}]
    /\ UNCHANGED <<pending, lock, pc, budget, local, served, recorded, faults>>

(* The steps a live worker takes of its own accord. *)
Work(w) ==
    \/ AcquireLock(w)
    \/ SkipLocked(w)
    \/ \E S \in SUBSET Keys : FetchOk(w, S)
    \/ \E n \in Subnets : NextSubnet(w, n)
    \/ LoopDone(w)
    \/ ReadDebugKeys(w)
    \/ ReadRows(w)
    \/ BulkCreate(w)
    \/ CreateConflicts(w)
    \/ BulkUpdate(w)
    \/ MarkSuccess(w)
    \/ Release(w)

Failure(w) ==
    \/ HardKill(w)
    \/ WorkerLost(w)
    \/ AcquireFails(w)
    \/ FetchFails(w)
    \/ Raise(w)
    \/ ReleaseFails(w)

Next ==
    \/ Beat
    \/ Tick
    \/ \E w \in Workers : StartTask(w) \/ Work(w) \/ Failure(w)
    \/ \E n \in Subnets, k \in Keys : DebugAdd(n, k)

Spec == Init /\ [][Next]_vars

(* Beat keeps its schedule, time passes, some idle worker takes a waiting  *)
(* message, and a live worker goes on with its run.  No fairness makes a   *)
(* failure or an operator act.                                             *)
Fairness ==
    /\ WF_vars(Beat)
    /\ WF_vars(Tick)
    /\ WF_vars(\E w \in Workers : StartTask(w))
    /\ \A w \in Workers : WF_vars(Work(w))

FairSpec == Spec /\ Fairness

---------------------------------------------------------------------------------
(* Properties. *)

(* LOCK_TIMEOUT `must outlive the hard kill', and `another worker holds    *)
(* the lock': at most one run at a time is between cache.add and           *)
(* cache.delete, over kills, crashes, redeliveries and whatever they leave *)
(* of the lock.                                                            *)
OneSyncAtATime ==
    \A v, w \in Workers : pc[v] \in Critical /\ pc[w] \in Critical => v = w

(* The `elif not validator.debug' rule and the debug query together: a     *)
(* hotkey an operator added stays let in, although the table is read twice *)
(* before it is written and the operator may act between any two of those. *)
DebugRowsStayActive == \A n \in Subnets : debug[n] \subseteq active[n]

(* What a run still knows while it works from its answers and its two      *)
(* reads of the table: the answers are the latest the chain gave, debug    *)
(* keys it saw are still that, every row it saw exists with the debug flag *)
(* it saw, and a row it did not see is an operator's or its own.           *)
RunKnows(w) ==
    /\ pc[w] \in Critical =>
          \A n \in fetched[w] : answer[w][n] = served[n]
    /\ pc[w] = "fetch" => pos[w] \in Subnets
    /\ pc[w] \in Applying => pos[w] \in fetched[w]
    /\ pc[w] \in Applying \ {"debug"} => debugSeen[w] \subseteq debug[pos[w]]
    /\ pc[w] \in {"create", "update"} =>
          /\ rowsSeen[w] \subseteq known[pos[w]]
          /\ flagged[w] \subseteq debug[pos[w]]
          /\ rowsSeen[w] \cap debug[pos[w]] \subseteq flagged[w]
    /\ pc[w] = "create" =>
          known[pos[w]] \subseteq rowsSeen[w] \cup debug[pos[w]]
    /\ pc[w] = "update" =>
          /\ known[pos[w]] \subseteq
                rowsSeen[w] \cup debug[pos[w]] \cup ToCreate(w)
          /\ ToCreate(w) \subseteq active[pos[w]]

RunsKnowTheTable ==
    /\ \A w \in Workers : RunKnows(w)
    /\ \A n \in Subnets : active[n] \subseteq known[n]

(* When the run is about to record success for a subnet, the table agrees  *)
(* with the answer it fetched: everybody in it is let in, and everybody    *)
(* else who is let in has been added by hand, runs that were cut short     *)
(* and operators' inserts since the answer notwithstanding.                *)
MarkedMeansSettled ==
    \A w \in Workers : pc[w] = "mark" =>
        /\ answer[w][pos[w]] \subseteq active[pos[w]]
        /\ active[pos[w]] \ debug[pos[w]] \subseteq answer[w][pos[w]]

(* The table never moves except as the registry promises: a step lets in   *)
(* only hotkeys of the chain's latest answer for that subnet, and puts out *)
(* only hotkeys that neither the answer nor an operator vouches for.       *)
R == INSTANCE Registry WITH served <- served, debug <- debug, active <- active
RefinesRegistry == R!Spec

(* The table catches up: a hotkey the chain keeps listing is at last let   *)
(* in for good, one it keeps leaving out (and nobody added) is at last put *)
(* out for good, whatever finitely many failures left behind.              *)
EventuallyAdmitted ==
    \A n \in Subnets, k \in Keys :
        <>[](k \in served[n]) => <>[](k \in active[n])
EventuallyExpelled ==
    \A n \in Subnets, k \in Keys :
        <>[](k \notin served[n] \cup debug[n]) => <>[](k \notin active[n])

(* `Validator membership is synchronized independently for each configured *)
(* subnet' (README.md): what goes wrong in one subnet does not keep a run  *)
(* from settling the others it has answers for.  The code does not have    *)
(* this: an operator's insert that beats the run's bulk_create to a row of *)
(* one subnet ends the run, and the later subnets are not settled.         *)
SubnetsIndependent ==
    \A w \in Workers :
        pc[w] = "release" /\ faults = 0 => \A n \in fetched[w] : n <= pos[w]
=================================================================================
