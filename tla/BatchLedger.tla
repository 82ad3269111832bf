------------------------------ MODULE BatchLedger ------------------------------
(***************************************************************************)
(* What the two proxies promise the sender of a batch and the owner of the *)
(* store, whatever times out, breaks or dies between them.  The sender     *)
(* hears of a send while it waits for it, once, and what it hears ends the *)
(* matter only if it is true; the store is handed a batch no more often    *)
(* than the tries allow.                                                   *)
(***************************************************************************)
EXTENDS Naturals

CONSTANTS
    Batches,
    MaxTries     \* posts of one request at either proxy

VARIABLES
    sender,      \* sender[b]: "ready", "waiting", "accepted" or "dropped"
    sends,       \* sends[b]: times b was sent
    counted,     \* counted[b]: times b was let through
    copies,      \* copies[b]: times the store took b
    refusable    \* batches that somebody had reason to refuse

vars == <<sender, sends, counted, copies, refusable>>

Init ==
    /\ sender = [b \in Batches |-> "ready"]
    /\ sends = [b \in Batches |-> 0]
    /\ counted = [b \in Batches |-> 0] /\ copies = [b \in Batches |-> 0]
    /\ refusable \in SUBSET Batches

Send(b) ==
    /\ sender[b] = "ready"
    /\ sender' = [sender EXCEPT ![b] = "waiting"]
    /\ sends' = [sends EXCEPT ![b] = @ + 1]
    /\ UNCHANGED <<counted, copies, refusable>>

(* Each send may be let through once for each try, and each batch let      *)
(* through may be stored once for each try.                                *)
LetThrough(b) ==
    /\ counted[b] < sends[b] * MaxTries
    /\ counted' = [counted EXCEPT ![b] = @ + 1]
    /\ UNCHANGED <<sender, sends, copies, refusable>>

Store(b) ==
    /\ copies[b] < counted[b] * MaxTries
    /\ copies' = [copies EXCEPT ![b] = @ + 1]
    /\ UNCHANGED <<sender, sends, counted, refusable>>

(* There comes to be a reason to refuse some batches. *)
Condemn(S) ==
    /\ refusable' = refusable \cup S
    /\ UNCHANGED <<sender, sends, counted, copies>>

(* What the sender hears, or that it hears nothing in time. *)
Hear(b, outcome) ==
    /\ sender[b] = "waiting"
    /\ \/ outcome = "accepted" /\ copies[b] > 0
       \/ outcome = "dropped" /\ b \in refusable
       \/ outcome = "ready"
    /\ sender' = [sender EXCEPT ![b] = outcome]
    /\ UNCHANGED <<sends, counted, copies, refusable>>

Next ==
    \/ \E b \in Batches : Send(b) \/ LetThrough(b) \/ Store(b)
    \/ \E S \in SUBSET Batches : Condemn(S)
    \/ \E b \in Batches, outcome \in {"accepted", "dropped", "ready"} : Hear(b, outcome)

Spec == Init /\ [][Next]_vars
================================================================================
