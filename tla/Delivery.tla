--------------------------------- MODULE Delivery ---------------------------------
(***************************************************************************)
(* How a batch of telemetry gets from its sender (the on-site Prometheus   *)
(* or Alloy) through the on-site proxy and the central proxy to the store  *)
(* (the upstream Prometheus or Tempo), and what the sender is told.        *)
(*                                                                         *)
(* Each proxy is a pool of single-threaded gunicorn workers; each view     *)
(* posts through the one `session' of proxy_outbound.py, which tries a     *)
(* request again after a timeout or a lost connection whatever its method. *)
(* A try that times out is not taken back: the other side still works on   *)
(* it.  The two pools are one in combined mode, where SiteWorkers and      *)
(* CentralWorkers are the same set.                                        *)
(***************************************************************************)
EXTENDS Integers

CONSTANTS
    Batches,          \* what the sender has to deliver, one request body each
    SiteWorkers,      \* workers that run the outbound views
    CentralWorkers,   \* workers that run the inbound views
    Nobody,           \* the caller of a call whose other end has gone
    MaxTries,         \* posts of one request through `session': 1 + total
    MaxSends,         \* bound: times the sender sends one batch
    MaxFaults         \* bound: timeouts, losses, kills, refusals, changes

ASSUME BatchesAssumption == Batches # {}
ASSUME WorkersAssumption == Nobody \notin SiteWorkers
ASSUME TriesAssumption == MaxTries \in Nat \ {0}
ASSUME BoundsAssumption == MaxSends \in Nat /\ MaxFaults \in Nat

VARIABLES
    sender,     \* sender[b]: "ready", "waiting", "accepted" or "dropped"
    sends,      \* sends[b]: times b was sent
    sitePc,     \* sitePc[h]: where outbound worker h is
    site,       \* site[h]: its request
    centralPc,  \* centralPc[c]: where inbound worker c is
    central,    \* central[c]: its request
    abandoned,  \* abandoned[b]: calls for b that wait for a worker, caller gone
    admitted,   \* batches whose hotkey the registry lets in
    refusable,  \* history: batches once not let in, or that the store refused
    counted,    \* counted[b]: times b was let through, and for metrics the
                \*   ingest counters raised (the traces view has none)
    copies,     \* copies[b]: times the store took b
    faults      \* failures so far

onSite    == <<sitePc, site>>
atCentral == <<centralPc, central>>
store     == <<counted, copies>>
registry  == <<admitted, refusable>>
vars == <<sender, sends, onSite, atCentral, abandoned, registry, store, faults>>

(* 2xx, 4xx, 5xx, and a 429 or 503 that says when to try again (Retry-After). *)
Statuses == {"ok", "refused", "error", "later"}

SitePcs    == {"idle", "post", "queued", "served", "answer"}
CentralPcs == {"idle", "auth", "post", "reply"}

(* `client': the sender still waits for the answer. *)
SiteRequests ==
    [batch : Batches, try : 0 .. MaxTries, status : Statuses, client : BOOLEAN]
CentralRequests ==
    [batch : Batches, try : 0 .. MaxTries, status : Statuses,
     caller : SiteWorkers \cup {Nobody}]

TypeOK ==
    /\ sender \in [Batches -> {"ready", "waiting", "accepted", "dropped"}]
    /\ sends \in [Batches -> 0 .. MaxSends]
    /\ sitePc \in [SiteWorkers -> SitePcs]
    /\ site \in [SiteWorkers -> SiteRequests]
    /\ centralPc \in [CentralWorkers -> CentralPcs]
    /\ central \in [CentralWorkers -> CentralRequests]
    /\ abandoned \in [Batches -> Nat]
    /\ admitted \subseteq Batches /\ refusable \subseteq Batches
    /\ counted \in [Batches -> Nat] /\ copies \in [Batches -> Nat]
    /\ faults \in 0 .. MaxFaults

AnyBatch  == CHOOSE b \in Batches : TRUE
NoRequest == [batch |-> AnyBatch, try |-> 0, status |-> "error", client |-> FALSE]
NoCall    == [batch |-> AnyBatch, try |-> 0, status |-> "error", caller |-> Nobody]

Init ==
    /\ sender = [b \in Batches |-> "ready"]
    /\ sends = [b \in Batches |-> 0]
    /\ sitePc = [h \in SiteWorkers |-> "idle"]
    /\ site = [h \in SiteWorkers |-> NoRequest]
    /\ centralPc = [c \in CentralWorkers |-> "idle"]
    /\ central = [c \in CentralWorkers |-> NoCall]
    /\ abandoned = [b \in Batches |-> 0]
    /\ admitted \in SUBSET Batches
    /\ refusable = Batches \ admitted
    /\ counted = [b \in Batches |-> 0] /\ copies = [b \in Batches |-> 0]
    /\ faults = 0

Fault == faults < MaxFaults /\ faults' = faults + 1

(* A worker does one request at a time, in whichever role. *)
Free(w) ==
    /\ w \in SiteWorkers => sitePc[w] = "idle"
    /\ w \in CentralWorkers => centralPc[w] = "idle"

---------------------------------------------------------------------------------
(* The sender, and the registry behind the central proxy. *)

Send(b, h) ==
    /\ sender[b] = "ready" /\ sends[b] < MaxSends
    /\ Free(h)
    /\ sender' = [sender EXCEPT ![b] = "waiting"]
    /\ sends' = [sends EXCEPT ![b] = @ + 1]
    /\ sitePc' = [sitePc EXCEPT ![h] = "post"]
    /\ site' = [site EXCEPT ![h] = [NoRequest EXCEPT !.batch = b, !.client = TRUE]]
    /\ UNCHANGED <<atCentral, abandoned, registry, store, faults>>

(* Variant: the worker would still answer whoever waits for the batch. *)
SenderTimeout_StaysOpen(h) ==
    /\ sitePc[h] # "idle" /\ site[h].client
    /\ Fault
    /\ sender' = [sender EXCEPT ![site[h].batch] = "ready"]
    /\ UNCHANGED <<sends, onSite, atCentral, abandoned, registry, store>>

(* The sender stops waiting; the worker does not notice. *)
SenderTimeout(h) ==
    /\ sitePc[h] # "idle" /\ site[h].client
    /\ Fault
    /\ sender' = [sender EXCEPT ![site[h].batch] = "ready"]
    /\ site' = [site EXCEPT ![h].client = FALSE]
    /\ UNCHANGED <<sends, sitePc, atCentral, abandoned, registry, store>>

(* A synchronisation changes whether the batch's hotkey is let in. *)
RegistryChange(b) ==
    /\ Fault
    /\ admitted' = IF b \in admitted THEN admitted \ {b} ELSE admitted \cup {b}
    /\ refusable' = refusable \cup (Batches \ admitted')
    /\ UNCHANGED <<sender, sends, onSite, atCentral, abandoned, store>>

---------------------------------------------------------------------------------
(* The outbound view. *)

PostCentral(h) ==
    /\ sitePc[h] = "post"
    /\ sitePc' = [sitePc EXCEPT ![h] = "queued"]
    /\ site' = [site EXCEPT ![h].try = @ + 1]
    /\ UNCHANGED <<sender, sends, atCentral, abandoned, registry, store, faults>>

(* The caller of a call is gone: its worker, if it has one already, goes on. *)
Hang(h) ==
    /\ abandoned' =
          IF sitePc[h] = "queued"
          THEN [abandoned EXCEPT ![site[h].batch] = @ + 1] ELSE abandoned
    /\ central' = [c \in CentralWorkers |->
          IF centralPc[c] # "idle" /\ central[c].caller = h
          THEN [central[c] EXCEPT !.caller = Nobody] ELSE central[c]]

(* Variants: one try too many; a failure reported as the client's fault. *)
TryAgain_OneMore(h) ==
    IF site[h].try <= MaxTries
    THEN sitePc' = [sitePc EXCEPT ![h] = "post"] /\ UNCHANGED site
    ELSE /\ sitePc' = [sitePc EXCEPT ![h] = "answer"]
         /\ site' = [site EXCEPT ![h].status = "error"]

TryAgain_AsBadRequest(h) ==
    IF site[h].try < MaxTries
    THEN sitePc' = [sitePc EXCEPT ![h] = "post"] /\ UNCHANGED site
    ELSE /\ sitePc' = [sitePc EXCEPT ![h] = "answer"]
         /\ site' = [site EXCEPT ![h].status = "refused"]

(* Another try when there is reason for one and one left, else the answer. *)
Finish(h, status, again) ==
    IF again /\ site[h].try < MaxTries
    THEN sitePc' = [sitePc EXCEPT ![h] = "post"] /\ UNCHANGED site
    ELSE /\ sitePc' = [sitePc EXCEPT ![h] = "answer"]
         /\ site' = [site EXCEPT ![h].status = status]

(* After the last try the exception is answered with 500. *)
TryAgain(h) == Finish(h, "error", TRUE)

(* Variant: the call that failed is not given up. *)
SiteTryFails_KeepsCall(h, midway) ==
    /\ sitePc[h] \in {"queued", "served"} /\ ~ midway
    /\ Fault
    /\ TryAgain(h)
    /\ UNCHANGED <<sender, sends, atCentral, abandoned, registry, store>>

(* No answer within TIMEOUT, or the connection breaks.  When it breaks in  *)
(* the middle of the answer, `session' does not try again.                 *)
SiteTryFails(h, midway) ==
    /\ sitePc[h] \in {"queued", "served"}
    /\ midway => \E c \in CentralWorkers :
                    centralPc[c] = "reply" /\ central[c].caller = h
    /\ Fault
    /\ Hang(h)
    /\ IF midway THEN Finish(h, "error", FALSE) ELSE TryAgain(h)
    /\ UNCHANGED <<sender, sends, centralPc, registry, store>>

(* Variant: the post has no timeout. *)
SiteStarves_NoTimeout(h) == sitePc[h] = "queued" /\ FALSE /\ UNCHANGED vars

(* The same timeout when no worker will come: all of them wait themselves. *)
SiteStarves(h) ==
    /\ sitePc[h] = "queued"
    /\ \A c \in CentralWorkers : c \in SiteWorkers /\ sitePc[c] = "queued"
    /\ Hang(h)
    /\ TryAgain(h)
    /\ UNCHANGED <<sender, sends, centralPc, registry, store, faults>>

SiteAnswers(h) ==
    /\ sitePc[h] = "answer"
    /\ sender' =
          IF ~site[h].client THEN sender
          ELSE [sender EXCEPT ![site[h].batch] =
                   CASE site[h].status = "ok" -> "accepted"
                     [] site[h].status = "refused" -> "dropped"
                     [] OTHER -> "ready"]
    /\ sitePc' = [sitePc EXCEPT ![h] = "idle"]
    /\ site' = [site EXCEPT ![h] = NoRequest]
    /\ UNCHANGED <<sends, atCentral, abandoned, registry, store, faults>>

(* gunicorn kills a worker that is silent for too long, or it crashes. *)
SiteKilled(h) ==
    /\ sitePc[h] # "idle"
    /\ Fault
    /\ Hang(h)
    /\ sender' = IF site[h].client
                 THEN [sender EXCEPT ![site[h].batch] = "ready"] ELSE sender
    /\ sitePc' = [sitePc EXCEPT ![h] = "idle"]
    /\ site' = [site EXCEPT ![h] = NoRequest]
    /\ UNCHANGED <<sends, centralPc, registry, store>>

---------------------------------------------------------------------------------
(* The inbound view. *)

Accept(c, h) ==
    /\ Free(c) /\ sitePc[h] = "queued"
    /\ sitePc' = [sitePc EXCEPT ![h] = "served"]
    /\ centralPc' = [centralPc EXCEPT ![c] = "auth"]
    /\ central' = [central EXCEPT ![c] =
          [NoCall EXCEPT !.batch = site[h].batch, !.caller = h]]
    /\ UNCHANGED <<sender, sends, site, abandoned, registry, store, faults>>

AcceptAbandoned(c, b) ==
    /\ Free(c) /\ abandoned[b] > 0
    /\ abandoned' = [abandoned EXCEPT ![b] = @ - 1]
    /\ centralPc' = [centralPc EXCEPT ![c] = "auth"]
    /\ central' = [central EXCEPT ![c] = [NoCall EXCEPT !.batch = b]]
    /\ UNCHANGED <<sender, sends, onSite, registry, store, faults>>

(* validate_bittensor_request and the payload checks pass; the counters go *)
(* up before anything is forwarded.                                        *)
Admit(c) ==
    /\ centralPc[c] = "auth" /\ central[c].batch \in admitted
    /\ counted' = [counted EXCEPT ![central[c].batch] = @ + 1]
    /\ centralPc' = [centralPc EXCEPT ![c] = "post"]
    /\ UNCHANGED <<sender, sends, onSite, central, abandoned, registry, copies, faults>>

(* Variant: a refusal is answered like a failure. *)
Refuse_AsFailure(c) ==
    /\ centralPc[c] = "auth" /\ central[c].batch \notin admitted
    /\ centralPc' = [centralPc EXCEPT ![c] = "reply"]
    /\ central' = [central EXCEPT ![c].status = "error"]
    /\ UNCHANGED <<sender, sends, onSite, abandoned, registry, store, faults>>

Refuse(c) ==
    /\ centralPc[c] = "auth" /\ central[c].batch \notin admitted
    /\ centralPc' = [centralPc EXCEPT ![c] = "reply"]
    /\ central' = [central EXCEPT ![c].status = "refused"]
    /\ UNCHANGED <<sender, sends, onSite, abandoned, registry, store, faults>>

StoreAccepts(c) ==
    /\ centralPc[c] = "post"
    /\ copies' = [copies EXCEPT ![central[c].batch] = @ + 1]
    /\ centralPc' = [centralPc EXCEPT ![c] = "reply"]
    /\ central' = [central EXCEPT ![c].status = "ok", ![c].try = @ + 1]
    /\ UNCHANGED <<sender, sends, onSite, abandoned, registry, counted, faults>>

(* A 5xx of the store is passed on, status_forcelist being empty; only     *)
(* Retry-After brings about another try, and the last answer is passed on. *)
StoreErrs(c, status) ==
    /\ centralPc[c] = "post" /\ status \in {"error", "later"}
    /\ Fault
    /\ central' = [central EXCEPT ![c].status = status, ![c].try = @ + 1]
    /\ centralPc' =
          IF status = "later" /\ central[c].try + 1 < MaxTries
          THEN centralPc ELSE [centralPc EXCEPT ![c] = "reply"]
    /\ UNCHANGED <<sender, sends, onSite, abandoned, registry, store>>

(* So is a 4xx, say for samples the store finds too old. *)
StoreRefuses(c) ==
    /\ centralPc[c] = "post"
    /\ Fault
    /\ refusable' = refusable \cup {central[c].batch}
    /\ centralPc' = [centralPc EXCEPT ![c] = "reply"]
    /\ central' = [central EXCEPT ![c].status = "refused", ![c].try = @ + 1]
    /\ UNCHANGED <<sender, sends, onSite, abandoned, admitted, store>>

(* Variant: one try too many. *)
CentralTryFails_OneMore(c, taken, midway) ==
    /\ centralPc[c] = "post"
    /\ Fault
    /\ copies' = IF taken THEN [copies EXCEPT ![central[c].batch] = @ + 1] ELSE copies
    /\ central' = [central EXCEPT ![c].status = "error", ![c].try = @ + 1]
    /\ centralPc' =
          IF ~midway /\ central[c].try + 1 <= MaxTries
          THEN centralPc ELSE [centralPc EXCEPT ![c] = "reply"]
    /\ UNCHANGED <<sender, sends, onSite, abandoned, registry, counted>>

(* No answer of the store, or half of one; it may have taken the batch. *)
CentralTryFails(c, taken, midway) ==
    /\ centralPc[c] = "post"
    /\ Fault
    /\ copies' = IF taken THEN [copies EXCEPT ![central[c].batch] = @ + 1] ELSE copies
    /\ central' = [central EXCEPT ![c].status = "error", ![c].try = @ + 1]
    /\ centralPc' =
          IF ~midway /\ central[c].try + 1 < MaxTries
          THEN centralPc ELSE [centralPc EXCEPT ![c] = "reply"]
    /\ UNCHANGED <<sender, sends, onSite, abandoned, registry, counted>>

(* Variant: the answer is built without the store's status. *)
Reply_DefaultStatus(c) ==
    /\ centralPc[c] = "reply"
    /\ IF central[c].caller = Nobody
       THEN UNCHANGED onSite
       ELSE /\ sitePc' = [sitePc EXCEPT ![central[c].caller] = "answer"]
            /\ site' = [site EXCEPT ![central[c].caller].status = "ok"]
    /\ centralPc' = [centralPc EXCEPT ![c] = "idle"]
    /\ central' = [central EXCEPT ![c] = NoCall]
    /\ UNCHANGED <<sender, sends, abandoned, registry, store, faults>>

(* The store's status is passed on to the caller, if it is still there; a  *)
(* Retry-After header is passed on too and makes the caller try again.     *)
Reply(c) ==
    /\ centralPc[c] = "reply"
    /\ IF central[c].caller = Nobody
       THEN UNCHANGED onSite
       ELSE Finish(central[c].caller, central[c].status, central[c].status = "later")
    /\ centralPc' = [centralPc EXCEPT ![c] = "idle"]
    /\ central' = [central EXCEPT ![c] = NoCall]
    /\ UNCHANGED <<sender, sends, abandoned, registry, store, faults>>

(* The inbound worker dies; its caller sees the connection break. *)
CentralKilled(c) ==
    /\ centralPc[c] # "idle"
    /\ Fault
    /\ IF central[c].caller = Nobody
       THEN UNCHANGED onSite ELSE TryAgain(central[c].caller)
    /\ centralPc' = [centralPc EXCEPT ![c] = "idle"]
    /\ central' = [central EXCEPT ![c] = NoCall]
    /\ UNCHANGED <<sender, sends, abandoned, registry, store>>

---------------------------------------------------------------------------------
SiteWork(h) == PostCentral(h) \/ SiteStarves(h) \/ SiteAnswers(h)

CentralWork(c) ==
    \/ \E h \in SiteWorkers : Accept(c, h)
    \/ \E b \in Batches : AcceptAbandoned(c, b)
    \/ Admit(c) \/ Refuse(c) \/ StoreAccepts(c) \/ Reply(c)

SiteFailure(h) ==
    \/ SenderTimeout(h) \/ SiteKilled(h)
    \/ \E midway \in BOOLEAN : SiteTryFails(h, midway)

CentralFailure(c) ==
    \/ \E status \in Statuses : StoreErrs(c, status)
    \/ StoreRefuses(c) \/ CentralKilled(c)
    \/ \E taken, midway \in BOOLEAN : CentralTryFails(c, taken, midway)

Next ==
    \/ \E b \in Batches, h \in SiteWorkers : Send(b, h)
    \/ \E b \in Batches : RegistryChange(b)
    \/ \E h \in SiteWorkers : SiteWork(h) \/ SiteFailure(h)
    \/ \E c \in CentralWorkers : CentralWork(c) \/ CentralFailure(c)

Spec == Init /\ [][Next]_vars

(* Workers go on with what they have, a call in the backlog is taken up    *)
(* when workers keep coming free, and the sender keeps sending what it has *)
(* not got rid of.  Nothing makes a failure or the registry act.           *)
Fairness ==
    /\ \A b \in Batches : SF_vars(\E h \in SiteWorkers : Send(b, h))
    /\ \A h \in SiteWorkers :
          /\ WF_vars(SiteWork(h))
          /\ SF_vars(\E c \in CentralWorkers : Accept(c, h))
    /\ \A c \in CentralWorkers : WF_vars(CentralWork(c))

FairSpec == Spec /\ Fairness

---------------------------------------------------------------------------------
(* Properties. *)

(* What a sender is told to be delivered is in the store, over every       *)
(* timeout, retry and worker kill between the two.                         *)
AcceptedMeansStored == \A b \in Batches : sender[b] = "accepted" => copies[b] > 0

(* A sender drops a batch for good when it is told 4xx.  Timeouts, lost    *)
(* connections, killed workers and 5xx of the store never come out as one: *)
(* the batch was at some time not let in, or the store refused it.         *)
TransientNeverDrops ==
    \A b \in Batches : sender[b] = "dropped" => b \in refusable

(* A late answer goes nowhere: whoever an inbound worker is going to       *)
(* answer waits for it, for the same batch, and for nobody else, although  *)
(* earlier tries of the same request may still be in progress.             *)
AnswersMatchCalls ==
    \A c \in CentralWorkers, h \in SiteWorkers :
        centralPc[c] # "idle" /\ central[c].caller = h =>
            /\ sitePc[h] = "served" /\ site[h].batch = central[c].batch
            /\ \A d \in CentralWorkers :
                  centralPc[d] # "idle" /\ central[d].caller = h => d = c

(* Retries multiply, and by no more than the configured tries at each of   *)
(* the two proxies: calls are tries of sends, copies are tries of calls.   *)
RetriesBounded ==
    \A b \in Batches :
        /\ counted[b] <= sends[b] * MaxTries
        /\ copies[b] <= counted[b] * MaxTries

(* All of this at once, step by step: an answer is heard by a sender that  *)
(* waits for that send, never by one that has stopped waiting or has sent  *)
(* again, and a batch once settled stays settled.                          *)
Ledger == INSTANCE BatchLedger
KeepsLedger == Ledger!Spec

(* Once failures stop, whatever a sender has to deliver is settled. *)
EventuallySettled ==
    \A b \in Batches : <>(sender[b] \in {"accepted", "dropped"})

(* In combined mode a request goes back into the pool it came from: even   *)
(* when every worker waits for a worker, every request gets its answer.    *)
NoRequestHangs ==
    \A h \in SiteWorkers : sitePc[h] # "idle" ~> sitePc[h] = "idle"

(* The counters' help text: `How many series per hotkey are ingested'      *)
(* (core/metrics.py): once every call for a batch has ended and its sender *)
(* has given it up, no more of it is counted than the store took.  The     *)
(* code does not have this: it counts before it forwards, so a batch the   *)
(* store refuses is counted as well.                                       *)
Quiet(b) ==
    /\ abandoned[b] = 0
    /\ \A c \in CentralWorkers : centralPc[c] = "idle"
CountedWasIngested ==
    \A b \in Batches :
        Quiet(b) /\ sender[b] = "dropped" => counted[b] <= copies[b]
=================================================================================
