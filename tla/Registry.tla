-------------------------------- MODULE Registry --------------------------------
(***************************************************************************)
(* What the validator table promises to its readers, whatever the          *)
(* synchronisation task does to keep it up to date: for each subnet, a     *)
(* hotkey is let in only on the word of the chain's latest answer or of an *)
(* operator, and is put out only when neither vouches for it any more.     *)
(***************************************************************************)
EXTENDS Integers

CONSTANTS
    Keys,        \* hotkeys
    Subnets      \* the subnets the deployment synchronises

VARIABLES
    served,      \* served[n]: the last validator list the chain gave for n
    debug,       \* debug[n]: hotkeys an operator added by hand
    active       \* active[n]: hotkeys that are let in

vars == <<served, debug, active>>

Init ==
    /\ served = [n \in Subnets |-> {}]
    /\ debug  = [n \in Subnets |-> {}]
    /\ active = [n \in Subnets |-> {}]

(* The chain answers for subnet n; nobody is let in or put out yet. *)
Answer(n, S) ==
    /\ served' = [served EXCEPT ![n] = S]
    /\ UNCHANGED <<debug, active>>

(* Some hotkeys of n are let in and some put out, in one write. *)
Settle(n, in, out) ==
    /\ in \subseteq served[n] \cup debug[n]
    /\ out \cap (served[n] \cup debug[n]) = {}
    /\ active' = [active EXCEPT ![n] = (@ \ out) \cup in]
    /\ UNCHANGED <<served, debug>>

(* An operator lets a hotkey in by hand. *)
DebugAdd(n, k) ==
    /\ debug'  = [debug EXCEPT ![n] = @ \cup {k}]
    /\ active' = [active EXCEPT ![n] = @ \cup {k}]
    /\ UNCHANGED served

Next ==
    \E n \in Subnets :
        \/ \E S \in SUBSET Keys : Answer(n, S)
        \/ \E in, out \in SUBSET Keys : Settle(n, in, out)
        \/ \E k \in Keys : DebugAdd(n, k)

Spec == Init /\ [][Next]_vars
=================================================================================
