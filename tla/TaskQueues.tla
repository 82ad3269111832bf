------------------------------- MODULE TaskQueues -------------------------------
(***************************************************************************)
(* Celery's queues as the program uses them: late acknowledgement, the     *)
(* dead-letter hook of core/tasks.py, and the operators' commands          *)
(* move_tasks and flush_queue, all working on the same Redis lists.        *)
(*                                                                         *)
(* A list is a sequence, left end first.  kombu pushes on the left and     *)
(* pops on the right.  move_tasks works on the client: its pipeline is     *)
(* never given a command, so every RPUSH and LREM is a step of its own.    *)
(***************************************************************************)
EXTENDS Integers, Sequences, FiniteSets

CONSTANTS
    Tasks,        \* units of work: a name with its arguments
    Annotated,    \* those annotated with on_failure=send_to_dead_letter_queue
    Workers, NoMessage,
    Operators,
    Moves,        \* <<source, destination>> of the move_tasks commands given
    Flushes,      \* queues flush_queue is given
    MaxMessages, MaxCommands, MaxFaults   \* bounds

Queues == {"celery", "worker", "dead_letter"}
Served == {"celery", "worker"}

Messages == [task : Tasks, home : Queues, id : Nat]

ASSUME NoMessageAssumption == NoMessage \notin Messages
ASSUME FiniteAssumption == IsFiniteSet(Workers) /\ IsFiniteSet(Operators)
ASSUME AnnotatedAssumption == Annotated \subseteq Tasks
ASSUME CommandsAssumption ==
    /\ Moves \subseteq Queues \X Queues /\ Flushes \subseteq Queues
ASSUME BoundsAssumption ==
    /\ MaxMessages \in Nat /\ MaxCommands \in Nat /\ MaxFaults \in Nat

VARIABLES
    queue,      \* queue[q]: the Redis list
    stage,      \* stage[w]: "idle", "running", or "hooked" once the failure
                \*   hook has returned and only the acknowledgement is missing
    hand,       \* hand[w]: the unacknowledged message of w
    step,       \* step[o]: where the operator's command is
    route,      \* route[o]: its source and destination
    todo,       \* todo[o]: messages of move_tasks' snapshot still to move
    finished, flushed, forsaken,   \* history: tasks run to the end, deleted by
                \*   flush_queue, failed without a copy in dead_letter
    nextId, commands, faults

messages == <<queue, stage, hand>>
operation == <<step, route, todo>>
history == <<finished, flushed, forsaken>>
bounds == <<nextId, commands, faults>>
vars == <<messages, operation, history, bounds>>

TypeOK ==
    /\ queue \in [Queues -> Seq(Messages)]
    /\ stage \in [Workers -> {"idle", "running", "hooked"}]
    /\ hand \in [Workers -> Messages \cup {NoMessage}]
    /\ \A w \in Workers : stage[w] = "idle" <=> hand[w] = NoMessage
    /\ step \in [Operators -> {"idle", "read", "push", "remove", "delete"}]
    /\ route \in [Operators -> Queues \X Queues]
    /\ todo \in [Operators -> Seq(Messages)]
    /\ \A o \in Operators : step[o] = "remove" => todo[o] # << >>
    /\ finished \subseteq Tasks /\ flushed \subseteq Tasks /\ forsaken \subseteq Tasks
    /\ nextId \in Nat /\ commands \in Nat /\ faults \in Nat

Init ==
    /\ queue = [q \in Queues |-> << >>]
    /\ stage = [w \in Workers |-> "idle"]
    /\ hand = [w \in Workers |-> NoMessage]
    /\ step = [o \in Operators |-> "idle"]
    /\ route = [o \in Operators |-> <<"dead_letter", "celery">>]
    /\ todo = [o \in Operators |-> << >>]
    /\ finished = {} /\ flushed = {} /\ forsaken = {}
    /\ nextId = 0 /\ commands = 0 /\ faults = 0

---------------------------------------------------------------------------------
(* Redis' list commands. *)

LPush(s, m) == <<m>> \o s
RPush(s, m) == Append(s, m)
RPop(s)     == SubSeq(s, 1, Len(s) - 1)
DropAt(s, i) == [j \in 1 .. Len(s) - 1 |-> IF j < i THEN s[j] ELSE s[j + 1]]
FirstOf(s, m) ==
    CHOOSE i \in DOMAIN s : s[i] = m /\ \A j \in DOMAIN s : s[j] = m => i <= j
(* LREM with a count of 1. *)
LRem(s, m) == IF \E i \in DOMAIN s : s[i] = m THEN DropAt(s, FirstOf(s, m)) ELSE s

Publish(q, t) ==
    /\ nextId < MaxMessages /\ nextId' = nextId + 1
    /\ queue' = [queue EXCEPT ![q] = LPush(@, [task |-> t, home |-> q, id |-> nextId])]

Fault == faults < MaxFaults /\ faults' = faults + 1

Known(t) ==
    \/ \E q \in Queues : \E i \in DOMAIN queue[q] : queue[q][i].task = t
    \/ \E w \in Workers : stage[w] # "idle" /\ hand[w].task = t
    \/ \E o \in Operators : \E i \in DOMAIN todo[o] : todo[o][i].task = t

---------------------------------------------------------------------------------
(* Celery around a task. *)

Submit(t) ==
    /\ ~Known(t) /\ t \notin finished \cup flushed \cup forsaken
    /\ Publish("celery", t)
    /\ UNCHANGED <<stage, hand, operation, history, commands, faults>>

Take(w, q) ==
    /\ stage[w] = "idle"
    /\ q \in Served /\ queue[q] # << >>
    /\ queue' = [queue EXCEPT ![q] = RPop(@)]
    /\ hand' = [hand EXCEPT ![w] = queue[q][Len(queue[q])]]
    /\ stage' = [stage EXCEPT ![w] = "running"]
    /\ UNCHANGED <<operation, history, bounds>>

(* Variant: keeps the message at hand. *)
Acknowledge_Keeps(w) ==
    /\ stage' = [stage EXCEPT ![w] = "idle"]
    /\ UNCHANGED hand

Acknowledge(w) ==
    /\ stage' = [stage EXCEPT ![w] = "idle"]
    /\ hand' = [hand EXCEPT ![w] = NoMessage]

Succeed(w) ==
    /\ stage[w] = "running"
    /\ finished' = finished \cup {hand[w].task}
    /\ Acknowledge(w)
    /\ UNCHANGED <<queue, operation, flushed, forsaken, bounds>>

(* Variant: the failed message is acknowledged before the hook runs. *)
Fail_AckFirst(w) ==
    /\ stage[w] = "running" /\ hand[w].task \in Annotated
    /\ Acknowledge(w)
    /\ UNCHANGED <<queue, operation, history, bounds>>

(* The task raises, and its hook puts a new message into dead_letter. *)
Fail(w) ==
    /\ stage[w] = "running" /\ hand[w].task \in Annotated
    /\ Publish("dead_letter", hand[w].task)
    /\ stage' = [stage EXCEPT ![w] = "hooked"]
    /\ UNCHANGED <<hand, operation, history, commands, faults>>

(* A failed message counts as done, like a finished one. *)
AckFailed(w) ==
    /\ stage[w] = "hooked"
    /\ Acknowledge(w)
    /\ UNCHANGED <<queue, operation, history, bounds>>

Forsake(w) ==
    /\ stage[w] = "running"
    /\ forsaken' = forsaken \cup {hand[w].task}
    /\ Acknowledge(w)
    /\ UNCHANGED <<queue, operation, finished, flushed, nextId, commands>>

(* Variant: rejects the failed message, which is delivered again. *)
FailUnhooked_Requeues(w) ==
    /\ stage[w] = "running" /\ hand[w].task \notin Annotated
    /\ queue' = [queue EXCEPT ![hand[w].home] = LPush(@, hand[w])]
    /\ Acknowledge(w)
    /\ UNCHANGED <<operation, history, bounds>>

FailUnhooked(w) ==
    /\ stage[w] = "running" /\ hand[w].task \notin Annotated
    /\ Forsake(w) /\ UNCHANGED faults

(* The hook cannot publish; or the time limit ends the task, and the pool  *)
(* calls no hook.  Both messages are acknowledged.                         *)
HookFails(w) == stage[w] = "running" /\ hand[w].task \in Annotated /\ Fault /\ Forsake(w)
HardKill(w)  == Fault /\ Forsake(w)

(* The worker dies: its message goes back, to the queue it was published   *)
(* to, which for a moved dead letter is dead_letter.  A lost child puts it *)
(* on the left, the visibility timeout of a lost host on the right.        *)
WorkerLost(w) ==
    /\ stage[w] # "idle" /\ Fault
    /\ LET q == hand[w].home IN
       queue' \in {[queue EXCEPT ![q] = LPush(@, hand[w])],
                   [queue EXCEPT ![q] = RPush(@, hand[w])]}
    /\ Acknowledge(w)
    /\ UNCHANGED <<operation, history, nextId, commands>>

---------------------------------------------------------------------------------
(* Operators: manage.py move_tasks and flush_queue. *)

At(o, here, there) == step[o] = here /\ step' = [step EXCEPT ![o] = there]

(* Either command ends at once when it finds no task. *)
Command(o, q, first) ==
    /\ commands < MaxCommands /\ commands' = commands + 1
    /\ queue[q] # << >>
    /\ At(o, "idle", first)
    /\ UNCHANGED <<messages, todo, history, nextId, faults>>

MoveTasks(o, src, dst) ==
    /\ Command(o, src, "read")
    /\ route' = [route EXCEPT ![o] = <<src, dst>>]

FlushQueue(o, q) ==
    /\ Command(o, q, "delete")
    /\ route' = [route EXCEPT ![o] = <<q, q>>]

ReadAll(o) ==
    /\ todo' = [todo EXCEPT ![o] = queue[route[o][1]]]
    /\ At(o, "read", "push")
    /\ UNCHANGED <<messages, route, history, bounds>>

(* Variant: removes before it pushes. *)
PushNext_Last(o) ==
    /\ todo[o] # << >>
    /\ At(o, "push", "remove")
    /\ queue' = [queue EXCEPT ![route[o][1]] = LRem(@, Head(todo[o]))]
    /\ UNCHANGED <<stage, hand, route, todo, history, bounds>>

PushNext(o) ==
    /\ todo[o] # << >>
    /\ At(o, "push", "remove")
    /\ queue' = [queue EXCEPT ![route[o][2]] = RPush(@, Head(todo[o]))]
    /\ UNCHANGED <<stage, hand, route, todo, history, bounds>>

(* Variant: removes nothing. *)
RemoveNext_Forgets(o) ==
    /\ At(o, "remove", "push")
    /\ todo' = [todo EXCEPT ![o] = Tail(@)]
    /\ UNCHANGED <<queue, stage, hand, route, history, bounds>>

RemoveNext(o) ==
    /\ At(o, "remove", "push")
    /\ queue' = [queue EXCEPT ![route[o][1]] = LRem(@, Head(todo[o]))]
    /\ todo' = [todo EXCEPT ![o] = Tail(@)]
    /\ UNCHANGED <<stage, hand, route, history, bounds>>

MoveDone(o) ==
    /\ todo[o] = << >>
    /\ At(o, "push", "idle")
    /\ UNCHANGED <<messages, route, todo, history, bounds>>

(* DEL takes all there is, not only what was counted. *)
Delete(o) ==
    /\ At(o, "delete", "idle")
    /\ LET q == route[o][1] IN
       /\ queue' = [queue EXCEPT ![q] = << >>]
       /\ flushed' = flushed \cup {queue[q][i].task : i \in DOMAIN queue[q]}
    /\ UNCHANGED <<stage, hand, route, todo, finished, forsaken, bounds>>

(* The command is interrupted, or loses Redis, between two calls. *)
OperatorGone(o) ==
    /\ step[o] # "idle" /\ Fault
    /\ step' = [step EXCEPT ![o] = "idle"]
    /\ todo' = [todo EXCEPT ![o] = << >>]
    /\ UNCHANGED <<messages, route, history, nextId, commands>>

Work(w) ==
    \/ \E q \in Queues : Take(w, q)
    \/ Succeed(w) \/ Fail(w) \/ FailUnhooked(w) \/ AckFailed(w)
Goes(o) == ReadAll(o) \/ PushNext(o) \/ RemoveNext(o) \/ MoveDone(o) \/ Delete(o)

Next ==
    \/ \E t \in Tasks : Submit(t)
    \/ \E w \in Workers : Work(w) \/ HookFails(w) \/ HardKill(w) \/ WorkerLost(w)
    \/ \E o \in Operators :
          \/ \E m \in Moves : MoveTasks(o, m[1], m[2])
          \/ \E q \in Flushes : FlushQueue(o, q)
          \/ Goes(o) \/ OperatorGone(o)

Spec == Init /\ [][Next]_vars

(* Workers serve their queues and finish what they take; a command that    *)
(* was started goes on.  Nobody is made to submit, to order or to fail.    *)
FairSpec ==
    /\ Spec
    /\ \A w \in Workers : WF_vars(Work(w))
    /\ \A o \in Operators : WF_vars(Goes(o))

---------------------------------------------------------------------------------
(* Properties. *)

Count(s, t) == Cardinality({i \in DOMAIN s : s[i].task = t})
Running(t)  == {w \in Workers : stage[w] = "running" /\ hand[w].task = t}
Removing(t) == {o \in Operators : step[o] = "remove" /\ Head(todo[o]).task = t}

(* Runs that task t has coming, once per message. *)
RunsDue(t) ==
    Count(queue["celery"], t) + Count(queue["worker"], t)
       + Count(queue["dead_letter"], t) + Cardinality(Running(t))

Settled == finished \cup flushed \cup forsaken
Pending == {t \in Tasks : RunsDue(t) > 0}

(* No task is lost between two lists: as long as it has neither been run   *)
(* nor been given up, it has one message more than there are commands      *)
(* about to remove one, however many operators move it from and to         *)
(* wherever, and wherever workers and operators die on the way.            *)
MovesLoseNothing ==
    \A t \in Tasks : Known(t) /\ t \notin Settled =>
        RunsDue(t) > Cardinality(Removing(t))

(* With a single operator, who only empties dead_letter, and no crash, a   *)
(* task is never queued twice, so it is run to the end at most once: the   *)
(* one message too many that a move makes for a moment is the one it is    *)
(* about to remove.  A second operator, or a move out of a queue workers   *)
(* serve, breaks this: the snapshot is moved whoever took it meanwhile.    *)
MovesCopyNothing ==
    faults = 0 => \A t \in Tasks :
        RunsDue(t) <= Cardinality(Removing(t)) + (IF t \in Settled THEN 0 ELSE 1)

(* Every step is one the ledger allows, or none. *)
Ledger == INSTANCE TaskLedger WITH
             waiting <- Pending, givenUp <- flushed \cup forsaken
RefinesLedger == Ledger!Spec

(* No task is on the move for ever: in the end it has been run, given up,  *)
(* or lies in dead_letter for an operator to decide.                       *)
Resting(t) == Running(t) = {} /\ \A q \in Queues \ {"dead_letter"} : Count(queue[q], t) = 0
EventuallyRests == \A t \in Tasks : <>[]Resting(t)
=================================================================================
