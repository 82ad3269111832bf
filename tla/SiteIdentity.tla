------------------------------ MODULE SiteIdentity ------------------------------
(***************************************************************************)
(* One on-site deployment and its hotkey.  Two programs read the key file: *)
(* the container of Prometheus once, when it starts, to write the hotkey   *)
(* into its configuration as a label; every gunicorn worker once, at the   *)
(* first request it serves, to sign with.  Each keeps what it read.  The   *)
(* central proxy accepts a batch only when label and signer are the same   *)
(* hotkey, so after the key file is replaced the answer to a batch depends *)
(* on what has, and what has not, been restarted since.                    *)
(***************************************************************************)
EXTENDS Naturals

CONSTANTS
    Workers,
    Keys,
    NoKey,          \* no readable key file, or none read yet
    Prometheus,     \* the name of the other reader
    MaxWrites       \* bound: changes of the key file

ASSUME SiteAssumption ==
    NoKey \notin Keys /\ Prometheus \notin Workers /\ MaxWrites \in Nat

VARIABLES
    keyfile,    \* the hotkey in the file
    writes,     \* how often the file has changed
    prometheus, \* "down", "checked": the key has been read once, "up"
    label,      \* the hotkey in Prometheus's configuration
    cached,     \* the workers whose wallet is cached
    signer,     \* per worker: the hotkey its cached wallet has read
    batch,      \* per worker: the exchange it is in or has just ended
    fresh       \* history: the readers started since the file last changed

siteVars == <<keyfile, writes, prometheus, label, cached, signer, batch, fresh>>

Hotkeys == Keys \cup {NoKey}
NoBatch == [state |-> "idle", label |-> NoKey, signer |-> NoKey, steady |-> FALSE]
Ended   == {"idle", "accepted", "forbidden", "error"}

SiteTypeOK ==
    /\ keyfile \in Hotkeys /\ writes \in 0 .. MaxWrites
    /\ prometheus \in {"down", "checked", "up"} /\ label \in Hotkeys
    /\ cached \subseteq Workers /\ signer \in [Workers -> Hotkeys]
    /\ batch \in [Workers -> [state : Ended \cup {"received", "loaded", "signed"},
                              label : Hotkeys, signer : Hotkeys, steady : BOOLEAN]]
    /\ fresh \subseteq Workers \cup {Prometheus}
    /\ prometheus = "up" => label \in Keys
    /\ \A w \in Workers : signer[w] \in Keys => w \in cached

SiteInit ==
    /\ keyfile = NoKey /\ writes = 0
    /\ prometheus = "down" /\ label = NoKey
    /\ cached = {} /\ signer = [w \in Workers |-> NoKey]
    /\ batch = [w \in Workers |-> NoBatch] /\ fresh = Workers

---------------------------------------------------------------------------------
(* The operator writes a key, or takes the file away. *)
WriteKey(k) ==
    /\ writes < MaxWrites /\ k # keyfile
    /\ keyfile' = k /\ writes' = writes + 1 /\ fresh' = {}
    /\ UNCHANGED <<prometheus, label, cached, signer, batch>>

(* read_wallet_and_substitute_config.py: get_wallet opens the key, which   *)
(* raises when it cannot; main then reads the hotkey, which opens it again *)
(* as the wallet has not kept it.  An error ends the entry point, and the  *)
(* container starts over.                                                  *)
GetWallet ==
    /\ prometheus = "down" /\ keyfile # NoKey
    /\ prometheus' = "checked" /\ fresh' = fresh \cup {Prometheus}
    /\ UNCHANGED <<keyfile, writes, label, cached, signer, batch>>

(* Variant: the configuration of an earlier start is kept. *)
Substituted_Kept == IF label = NoKey THEN keyfile ELSE label
Substituted == keyfile

ReadAndSubstituteConfig ==
    /\ prometheus = "checked"
    /\ prometheus' = IF keyfile = NoKey THEN "down" ELSE "up"
    /\ label' = IF keyfile = NoKey THEN label ELSE Substituted
    /\ UNCHANGED <<keyfile, writes, cached, signer, batch, fresh>>

StopPrometheus ==
    /\ prometheus # "down" /\ prometheus' = "down"
    /\ fresh' = fresh \ {Prometheus}
    /\ UNCHANGED <<keyfile, writes, label, cached, signer, batch>>

---------------------------------------------------------------------------------
Answer(w, state) == batch' = [batch EXCEPT ![w].state = state]

(* Prometheus posts a batch, labelled as its configuration says. *)
Post(w) ==
    /\ prometheus = "up" /\ batch[w].state \in Ended
    /\ batch' = [batch EXCEPT ![w] =
                    [NoBatch EXCEPT !.state = "received", !.label = label,
                                    !.steady = {w, Prometheus} \subseteq fresh]]
    /\ UNCHANGED <<keyfile, writes, prometheus, label, cached, signer, fresh>>

(* settings.BITTENSOR_WALLET: the first call opens the key and keeps the   *)
(* wallet for the life of the process; a call that raises keeps nothing.   *)
BITTENSOR_WALLET(w) ==
    /\ batch[w].state = "received"
    /\ IF w \in cached \/ keyfile # NoKey
       THEN cached' = cached \cup {w} /\ Answer(w, "loaded")
       ELSE UNCHANGED cached /\ Answer(w, "error")
    /\ UNCHANGED <<keyfile, writes, prometheus, label, signer, fresh>>

(* wallet.hotkey: read from the file once, by the first request that signs.*)
(* Variant: read by every request.                                         *)
Hotkey_Reread(w) == keyfile
Hotkey(w) == IF signer[w] # NoKey THEN signer[w] ELSE keyfile

Sign(w) ==
    /\ batch[w].state = "loaded"
    /\ IF Hotkey(w) = NoKey
       THEN Answer(w, "error") /\ UNCHANGED signer
       ELSE /\ signer' = [signer EXCEPT ![w] = Hotkey(w)]
            /\ batch' = [batch EXCEPT ![w].state = "signed", ![w].signer = Hotkey(w)]
    /\ UNCHANGED <<keyfile, writes, prometheus, label, cached, fresh>>

(* The central proxy compares every series of the batch with the signer. *)
Receive(w) ==
    /\ batch[w].state = "signed"
    /\ Answer(w, IF batch[w].label = batch[w].signer THEN "accepted" ELSE "forbidden")
    /\ UNCHANGED <<keyfile, writes, prometheus, label, cached, signer, fresh>>

(* A worker is replaced, alone or with its container. *)
RestartWorker(w) ==
    /\ cached' = cached \ {w} /\ signer' = [signer EXCEPT ![w] = NoKey]
    /\ batch' = [batch EXCEPT ![w] = NoBatch] /\ fresh' = fresh \cup {w}
    /\ UNCHANGED <<keyfile, writes, prometheus, label>>

SiteNext ==
    \/ \E k \in Hotkeys : WriteKey(k)
    \/ GetWallet \/ ReadAndSubstituteConfig \/ StopPrometheus
    \/ \E w \in Workers :
          Post(w) \/ BITTENSOR_WALLET(w) \/ Sign(w) \/ Receive(w) \/ RestartWorker(w)
SiteSpec == SiteInit /\ [][SiteNext]_siteVars

---------------------------------------------------------------------------------
(* A batch is refused for its label only around a change of the key file:  *)
(* not when Prometheus and the worker that signs have both started since   *)
(* the file last changed and the batch was posted after that.  So what an  *)
(* operator must restart is the two containers, and nothing else, and no   *)
(* worker left over by a restart spoils it.                                *)
SteadyIsNeverForbidden ==
    \A w \in Workers :
        ~ (batch[w].state = "forbidden" /\ batch[w].steady /\ w \in fresh)

(* A worker that has read its hotkey answers every batch with it: nothing  *)
(* that happens to the key file or to Prometheus makes it fail.            *)
NeverFailsOnceRead ==
    [][\A w \in Workers :
         signer[w] # NoKey /\ batch'[w].state = "error" => batch[w].state = "error"]_siteVars
=================================================================================
