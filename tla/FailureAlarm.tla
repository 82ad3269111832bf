------------------------------ MODULE FailureAlarm ------------------------------
(***************************************************************************)
(* The alarm of fetch_validators (core/tasks.py).  A failed fetch is       *)
(* routine until the subnet has gone without a success for longer than     *)
(* FAILURE_ERROR_THRESHOLD; the time of the last success is kept in a      *)
(* cache entry that expires, may be lost, and is written only at the end   *)
(* of the work on a subnet, after all subnets have been fetched.           *)
(* ValidatorSync models the lock and the table; here one run is in         *)
(* progress at a time and the table is left out.                           *)
(***************************************************************************)
EXTENDS Naturals, Sequences

CONSTANTS
    BITTENSOR_NETUIDS,  \* the configured list, which may repeat a subnet
    Threshold,          \* FAILURE_ERROR_THRESHOLD
    TTL,                \* LAST_SUCCESS_TTL
    Never,              \* no entry, no success
    MaxTime             \* bound: when time stops

Subnets == {BITTENSOR_NETUIDS[i] : i \in DOMAIN BITTENSOR_NETUIDS}
Time    == 0 .. MaxTime

ASSUME AlarmAssumption ==
    /\ BITTENSOR_NETUIDS \in Seq(Subnets)
    /\ Threshold \in Nat /\ TTL \in Nat /\ Threshold < TTL
    /\ Never \notin Nat /\ MaxTime \in Nat

VARIABLES
    now,
    cacheUp,    \* whether the cache answers; each call raises when not
    entry,      \* last_success_key(netuid): when it was set
    stage,      \* the run: "idle", "fetch", "store"
    todo,       \* the subnets it has yet to fetch, or to store
    fetched,    \* the keys of keys_by_netuid, in order
    outcome,    \* how the last run ended: "none", "done", "raised", "killed"
    level,      \* history: what was last logged of a subnet since its success
    overdue,    \* history: whether that should have been an error
    success,    \* history: when a subnet last succeeded
    lost,       \* history: subnets whose entry was lost since
    handled     \* history: subnets the run has stored or logged

alarmVars == <<now, cacheUp, entry, stage, todo, fetched, outcome, level, overdue,
               success, lost, handled>>
run       == <<stage, todo, fetched, outcome, handled>>
reports   == <<level, overdue>>

Levels == {"none", "info", "error"}

AlarmTypeOK ==
    /\ now \in Time /\ cacheUp \in BOOLEAN
    /\ entry \in [Subnets -> Time \cup {Never}]
    /\ success \in [Subnets -> Time \cup {Never}]
    /\ stage \in {"idle", "fetch", "store"}
    /\ todo \in Seq(Subnets) /\ fetched \in Seq(Subnets)
    /\ outcome \in {"none", "done", "raised", "killed"}
    /\ level \in [Subnets -> Levels] /\ overdue \in [Subnets -> BOOLEAN]
    /\ lost \subseteq Subnets /\ handled \subseteq Subnets
    /\ \A i, j \in DOMAIN fetched : fetched[i] = fetched[j] => i = j

AlarmInit ==
    /\ now = 0 /\ cacheUp = TRUE
    /\ entry = [n \in Subnets |-> Never] /\ success = entry
    /\ stage = "idle" /\ todo = << >> /\ fetched = << >> /\ outcome = "none"
    /\ level = [n \in Subnets |-> "none"] /\ overdue = [n \in Subnets |-> FALSE]
    /\ lost = {} /\ handled = {}

---------------------------------------------------------------------------------
End(how) ==
    /\ stage' = "idle" /\ outcome' = how
    /\ todo' = << >> /\ fetched' = << >>

(* The entry as the cache returns it.  Variant: it expires with the alarm. *)
LastSuccess_Short(n) ==
    IF entry[n] # Never /\ now < entry[n] + Threshold THEN entry[n] ELSE Never
LastSuccess(n) == IF entry[n] # Never /\ now < entry[n] + TTL THEN entry[n] ELSE Never

(* _log_failure.  Variant: no entry is taken for a first start. *)
FailureLevel_FirstIsInfo(n) ==
    IF LastSuccess(n) # Never /\ now > LastSuccess(n) + Threshold
    THEN "error" ELSE "info"
FailureLevel(n) ==
    IF LastSuccess(n) = Never \/ now > LastSuccess(n) + Threshold
    THEN "error" ELSE "info"

LogFailure(n) ==
    /\ level'   = [level EXCEPT ![n] = FailureLevel(n)]
    /\ overdue' = [overdue EXCEPT
                      ![n] = success[n] = Never \/ now > success[n] + Threshold]
    /\ handled' = handled \cup {n}

(* The lock cannot be taken from a cache that is down: the task raises. *)
StartRun ==
    /\ stage = "idle"
    /\ handled' = {}
    /\ IF cacheUp
       THEN /\ stage' = "fetch" /\ todo' = BITTENSOR_NETUIDS
            /\ outcome' = "none" /\ UNCHANGED fetched
       ELSE End("raised")
    /\ UNCHANGED <<now, cacheUp, entry, success, lost, reports>>

(* The first loop: a success is remembered, an exception is logged and the *)
(* loop goes on -- unless the log's own look at the cache raises.          *)
(* Variant: keys_by_netuid is a list.                                      *)
Fetched_Listed(n) == fetched' = Append(fetched, n) /\ UNCHANGED <<reports, handled>>
Fetched(n) ==
    /\ fetched' = IF \E i \in DOMAIN fetched : fetched[i] = n
                  THEN fetched ELSE Append(fetched, n)
    /\ UNCHANGED <<reports, handled>>
Failed(n) == LogFailure(n) /\ UNCHANGED fetched

Fetch ==
    /\ stage = "fetch" /\ todo # << >>
    /\ LET n == Head(todo)
       IN  \/ /\ todo' = Tail(todo) /\ UNCHANGED <<stage, outcome>>
              /\ Fetched(n) \/ (cacheUp /\ Failed(n))
           \/ ~ cacheUp /\ End("raised") /\ UNCHANGED <<reports, handled>>
    /\ UNCHANGED <<now, cacheUp, entry, success, lost>>

AllFetched ==
    /\ stage = "fetch" /\ todo = << >>
    /\ stage' = "store" /\ todo' = fetched
    /\ UNCHANGED <<now, cacheUp, entry, fetched, outcome, success, lost, reports, handled>>

(* The second loop, which catches nothing: the database or the cache may   *)
(* raise for one subnet, and the rest are left.                            *)
(* Variant: the run goes on with the next subnet.                          *)
StoreRaises_GoesOn == todo' = Tail(todo) /\ UNCHANGED <<stage, fetched, outcome>>
StoreRaises == End("raised")

Store ==
    /\ stage = "store" /\ todo # << >>
    /\ LET n == Head(todo)
       IN  \/ /\ cacheUp
              /\ entry'   = [entry EXCEPT ![n] = now]
              /\ success' = [success EXCEPT ![n] = now]
              /\ lost'    = lost \ {n}
              /\ level'   = [level EXCEPT ![n] = "none"]
              /\ overdue' = [overdue EXCEPT ![n] = FALSE]
              /\ handled' = handled \cup {n}
              /\ todo' = Tail(todo) /\ UNCHANGED <<stage, fetched, outcome>>
           \/ StoreRaises /\ UNCHANGED <<entry, success, lost, reports, handled>>
    /\ UNCHANGED <<now, cacheUp>>

Finish ==
    /\ stage = "store" /\ todo = << >> /\ End("done")
    /\ UNCHANGED <<now, cacheUp, entry, success, lost, reports, handled>>

(* The hard time limit, or the loss of the worker. *)
Killed ==
    /\ stage # "idle" /\ End("killed")
    /\ UNCHANGED <<now, cacheUp, entry, success, lost, reports, handled>>

---------------------------------------------------------------------------------
Tick ==
    /\ now < MaxTime /\ now' = now + 1
    /\ UNCHANGED <<cacheUp, entry, success, lost, reports, run>>

(* Redis goes away, and comes back with or without its entries. *)
CacheDown ==
    /\ cacheUp /\ cacheUp' = FALSE
    /\ UNCHANGED <<now, entry, success, lost, reports, run>>
CacheBack ==
    /\ ~ cacheUp /\ cacheUp' = TRUE
    /\ \/ UNCHANGED <<entry, lost>>
       \/ entry' = [n \in Subnets |-> Never] /\ lost' = Subnets
    /\ UNCHANGED <<now, success, reports, run>>

AlarmNext ==
    \/ StartRun \/ Fetch \/ AllFetched \/ Store \/ Finish \/ Killed
    \/ Tick \/ CacheDown \/ CacheBack
AlarmSpec == AlarmInit /\ [][AlarmNext]_alarmVars

---------------------------------------------------------------------------------
(* A failure is logged as an error when the subnet has gone without a      *)
(* success for longer than the threshold, or has had none, also after the  *)
(* entry has expired or was lost; and a failure within the threshold of a  *)
(* success is no error, unless the cache lost the entry.                   *)
AlarmMatchesOutage == \A n \in Subnets :
    /\ overdue[n] => level[n] # "info"
    /\ level[n] = "error" /\ n \notin lost => overdue[n]

(* A run that ends well has stored or logged every configured subnet: none *)
(* drops out of both loops unnoticed.                                      *)
DoneAccountsForAll == outcome = "done" => handled = Subnets

(* An outage once reported as an error is not played down before the       *)
(* subnet succeeds again, however long it lasts.                           *)
LoudUntilSuccess ==
    [][\A n \in Subnets : level[n] = "error" => level'[n] # "info"]_alarmVars
=================================================================================
