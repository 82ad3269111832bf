------------------------------- MODULE TaskLedger -------------------------------
(***************************************************************************)
(* What the queues promise about a task, whatever workers, operators and   *)
(* crashes do to its messages: once submitted it is waiting for a run      *)
(* until it has been finished or has been given up by name; messages left  *)
(* over may make it wait again after that.                                 *)
(***************************************************************************)
CONSTANT Tasks

VARIABLES
    waiting,    \* tasks that still have a run coming
    finished,   \* tasks that have been run to the end
    givenUp     \* tasks flushed by an operator or failed for good

vars == <<waiting, finished, givenUp>>

Settled == finished \cup givenUp

Init == waiting = {} /\ finished = {} /\ givenUp = {}

Submit(t) ==
    /\ t \notin waiting \cup Settled
    /\ waiting' = waiting \cup {t}
    /\ UNCHANGED <<finished, givenUp>>

(* Messages for settled tasks may come and go. *)
LeftOvers == waiting' \ Settled' = waiting \ Settled'

Finish(t) ==
    /\ t \in waiting
    /\ finished' = finished \cup {t} /\ UNCHANGED givenUp
    /\ LeftOvers

GiveUp(S) ==
    /\ S \subseteq waiting
    /\ givenUp' = givenUp \cup S /\ UNCHANGED finished
    /\ LeftOvers

Shuffle ==
    /\ waiting' \subseteq waiting \cup Settled
    /\ LeftOvers
    /\ UNCHANGED <<finished, givenUp>>

Next ==
    \/ \E t \in Tasks : Submit(t) \/ Finish(t)
    \/ \E S \in SUBSET Tasks : GiveUp(S)
    \/ Shuffle

Spec == Init /\ [][Next]_vars
=================================================================================
