---------------------------- MODULE OperationsProofs ----------------------------
(***************************************************************************)
(* The components around the proxy, proved: SiteIdentity's promises, for   *)
(* any number of workers and keys and any number of changes of the key     *)
(* file; those of Settings, for any set of environments and .env files;    *)
(* and that the five components of Operations are what they are alone.     *)
(***************************************************************************)
EXTENDS Operations, FailureAlarmProofs, BackupsProofs, MetricsExportProofs, TLAPS

---------------------------------------------------------------------------------
(* SiteIdentity. *)

USE SiteAssumption DEF Hotkeys

(* What started after the key file last changed agrees with it: the label  *)
(* in Prometheus's configuration, the wallet of a worker, and both marks   *)
(* of a batch posted since.                                                *)
FreshLabel   == prometheus = "up" /\ Prometheus \in fresh => label = keyfile
FreshSigners == \A w \in Workers : w \in fresh => signer[w] \in {NoKey, keyfile}
SteadyBatches == \A w \in Workers : batch[w].steady /\ w \in fresh =>
    /\ batch[w].label = keyfile
    /\ batch[w].state = "signed" => batch[w].signer = keyfile
    /\ batch[w].state # "forbidden"
LoadedIsCached == \A w \in Workers : batch[w].state = "loaded" => w \in cached

SiteInv == SiteTypeOK /\ FreshLabel /\ FreshSigners /\ SteadyBatches /\ LoadedIsCached

---------------------------------------------------------------------------------
Batches == [state : Ended \cup {"received", "loaded", "signed"},
            label : Hotkeys, signer : Hotkeys, steady : BOOLEAN]

LEMMA SiteInitHolds == SiteInit => SiteInv
<1> SUFFICES ASSUME SiteInit PROVE SiteInv
  OBVIOUS
<1>1. NoBatch \in Batches
  BY DEF NoBatch, Batches, Ended
<1>2. SiteTypeOK
  BY <1>1 DEF SiteInit, SiteTypeOK, Batches
<1>3. FreshLabel /\ FreshSigners /\ SteadyBatches /\ LoadedIsCached
  BY DEF SiteInit, FreshLabel, FreshSigners, SteadyBatches, LoadedIsCached, NoBatch
<1> QED BY <1>2, <1>3 DEF SiteInv

LEMMA WriteKeyKeeps == ASSUME SiteInv, NEW k \in Hotkeys, WriteKey(k) PROVE SiteInv'
<1>1. SiteTypeOK'
  BY DEF SiteInv, SiteTypeOK, WriteKey
<1> QED BY <1>1 DEF SiteInv, WriteKey, FreshLabel, FreshSigners, SteadyBatches, LoadedIsCached

LEMMA PrometheusKeeps ==
    ASSUME SiteInv, GetWallet \/ ReadAndSubstituteConfig \/ StopPrometheus
    PROVE  SiteInv'
<1>1. CASE GetWallet
  <2>1. SiteTypeOK'
    BY <1>1 DEF SiteInv, SiteTypeOK, GetWallet
  <2> QED BY <1>1, <2>1
          DEF SiteInv, SiteTypeOK, GetWallet, FreshLabel, FreshSigners, SteadyBatches, LoadedIsCached
<1>2. CASE ReadAndSubstituteConfig
  <2>1. SiteTypeOK'
    BY <1>2 DEF SiteInv, SiteTypeOK, ReadAndSubstituteConfig, Substituted
  <2> QED BY <1>2, <2>1
          DEF SiteInv, SiteTypeOK, ReadAndSubstituteConfig, Substituted,
              FreshLabel, FreshSigners, SteadyBatches, LoadedIsCached
<1>3. CASE StopPrometheus
  <2>1. SiteTypeOK'
    BY <1>3 DEF SiteInv, SiteTypeOK, StopPrometheus
  <2> QED BY <1>3, <2>1
          DEF SiteInv, SiteTypeOK, StopPrometheus, FreshLabel, FreshSigners, SteadyBatches, LoadedIsCached
<1> QED BY <1>1, <1>2, <1>3

(* A worker's step leaves the file, Prometheus and the other workers alone,*)
(* so what has to be looked at is its own wallet and its own batch.        *)
LEMMA WorkerKeeps ==
    ASSUME SiteInv, NEW w \in Workers, NEW b \in Batches, NEW s \in Hotkeys,
           UNCHANGED <<keyfile, writes, prometheus, label>>,
           batch' = [batch EXCEPT ![w] = b], signer' = [signer EXCEPT ![w] = s],
           cached' \subseteq Workers, \A v \in Workers \ {w} : v \in cached' <=> v \in cached,
           s \in Keys \/ b.state = "loaded" => w \in cached',
           fresh' \in {fresh, fresh \cup {w}},
           w \in fresh' => s \in {NoKey, keyfile},
           b.steady /\ w \in fresh' => /\ b.label = keyfile
                                       /\ b.state = "signed" => b.signer = keyfile
                                       /\ b.state # "forbidden"
    PROVE  SiteInv'
<1>1. /\ batch \in [Workers -> Batches] /\ signer \in [Workers -> Hotkeys]
      /\ fresh \subseteq Workers \cup {Prometheus}
      /\ \A v \in Workers : signer[v] \in Keys => v \in cached
  BY DEF SiteInv, SiteTypeOK, Batches
<1>2. batch' \in [Workers -> Batches] /\ signer' \in [Workers -> Hotkeys]
  BY <1>1
<1>3. /\ batch'[w] = b /\ signer'[w] = s
      /\ \A v \in Workers \ {w} : batch'[v] = batch[v] /\ signer'[v] = signer[v]
  BY <1>1
<1>4. \A v \in Workers : signer'[v] \in Keys => v \in cached'
  BY <1>1, <1>3
<1>5. SiteTypeOK'
  BY <1>2, <1>4 DEF SiteInv, SiteTypeOK, Batches
<1>6. \A v \in (Workers \ {w}) \cup {Prometheus} : v \in fresh' => v \in fresh
  OBVIOUS
<1>7. FreshLabel'
  BY <1>6 DEF SiteInv, FreshLabel
<1>8. FreshSigners'
  BY <1>3, <1>6 DEF SiteInv, FreshSigners
<1>9. SteadyBatches'
  BY <1>3, <1>6 DEF SiteInv, SteadyBatches
<1>10. LoadedIsCached'
  BY <1>3 DEF SiteInv, LoadedIsCached
<1> QED BY <1>5, <1>7, <1>8, <1>9, <1>10 DEF SiteInv

LEMMA WorkerFacts ==
    ASSUME SiteInv, NEW w \in Workers
    PROVE  /\ batch \in [Workers -> Batches] /\ batch[w] \in Batches
           /\ signer \in [Workers -> Hotkeys] /\ signer[w] \in Hotkeys
           /\ signer = [signer EXCEPT ![w] = signer[w]]
           /\ keyfile \in Hotkeys /\ label \in Hotkeys
           /\ cached \subseteq Workers
           /\ signer[w] \in Keys => w \in cached
           /\ w \in fresh => signer[w] \in {NoKey, keyfile}
           /\ batch[w].state = "loaded" => w \in cached
BY DEF SiteInv, SiteTypeOK, Batches, FreshSigners, LoadedIsCached

LEMMA PostKeeps == ASSUME SiteInv, NEW w \in Workers, Post(w) PROVE SiteInv'
<1> DEFINE b == [NoBatch EXCEPT !.state = "received", !.label = label,
                                !.steady = {w, Prometheus} \subseteq fresh]
<1>1. /\ b.state = "received" /\ b.label = label
      /\ b.steady = ({w, Prometheus} \subseteq fresh)
  BY DEF NoBatch
<1>2. b \in Batches
  BY WorkerFacts DEF NoBatch, Batches, Ended
<1>3. b.steady => b.label = keyfile
  BY <1>1 DEF SiteInv, FreshLabel, Post
<1>4. batch' = [batch EXCEPT ![w] = b]
  BY DEF Post
<1>5. signer' = [signer EXCEPT ![w] = signer[w]] /\ cached' = cached /\ fresh' = fresh
  BY WorkerFacts DEF Post
<1> HIDE DEF b
<1>6. /\ UNCHANGED <<keyfile, writes, prometheus, label>>
      /\ b.state # "loaded" /\ b.state # "signed" /\ b.state # "forbidden"
  BY <1>1 DEF Post
<1> QED BY <1>1, <1>2, <1>3, <1>4, <1>5, <1>6, WorkerFacts, WorkerKeeps

(* An answer leaves the marks of a batch as they are. *)
LEMMA AnswerKeeps ==
    ASSUME SiteInv, NEW w \in Workers, NEW state \in Ended \cup {"loaded"}, Answer(w, state),
           UNCHANGED <<keyfile, writes, prometheus, label, signer, fresh>>,
           cached' \subseteq Workers, \A v \in Workers \ {w} : v \in cached' <=> v \in cached,
           w \in cached \/ state = "loaded" => w \in cached',
           state = "forbidden" => ~ (batch[w].steady /\ w \in fresh)
    PROVE  SiteInv'
<1> DEFINE b == [batch[w] EXCEPT !.state = state]
<1>1. batch[w] \in Batches
  BY WorkerFacts
<1>2. /\ b \in Batches /\ b.state = state /\ b.label = batch[w].label
      /\ b.steady = batch[w].steady
  BY <1>1 DEF Batches
<1>3. batch' = [batch EXCEPT ![w] = b]
  BY WorkerFacts DEF Answer
<1>4. b.steady /\ w \in fresh => b.label = keyfile
  BY <1>2 DEF SiteInv, SteadyBatches
<1>5. b.state # "signed"
  BY <1>2 DEF Ended
<1> HIDE DEF b
<1> QED BY <1>2, <1>3, <1>4, <1>5, WorkerFacts, WorkerKeeps

LEMMA WalletKeeps == ASSUME SiteInv, NEW w \in Workers, BITTENSOR_WALLET(w) PROVE SiteInv'
<1>1. PICK state \in {"loaded", "error"} :
        Answer(w, state) /\ (state = "loaded" => w \in cached')
  BY DEF BITTENSOR_WALLET
<1>2. cached' \in {cached, cached \cup {w}}
  BY DEF BITTENSOR_WALLET
<1> QED BY <1>1, <1>2, WorkerFacts, AnswerKeeps DEF BITTENSOR_WALLET, Ended

LEMMA SignKeeps == ASSUME SiteInv, NEW w \in Workers, Sign(w) PROVE SiteInv'
<1>1. CASE Hotkey(w) = NoKey
  BY <1>1, WorkerFacts, AnswerKeeps DEF Sign, Ended
<1>2. CASE Hotkey(w) # NoKey
  <2> DEFINE b == [batch[w] EXCEPT !.state = "signed", !.signer = Hotkey(w)]
  <2>1. Hotkey(w) \in Hotkeys /\ (w \in fresh => Hotkey(w) = keyfile)
    BY WorkerFacts DEF Hotkey
  <2>2. /\ b \in Batches /\ b.state = "signed" /\ b.signer = Hotkey(w)
        /\ b.label = batch[w].label /\ b.steady = batch[w].steady
    BY <2>1, WorkerFacts DEF Batches
  <2>3. batch' = [batch EXCEPT ![w] = b]
    BY <1>2, WorkerFacts DEF Sign
  <2>4. b.steady /\ w \in fresh => b.label = keyfile
    BY <2>2 DEF SiteInv, SteadyBatches
  <2>5. signer' = [signer EXCEPT ![w] = Hotkey(w)]
    BY <1>2 DEF Sign
  <2>6. w \in cached
    BY WorkerFacts DEF Sign
  <2> HIDE DEF b
  <2> QED BY <2>1, <2>2, <2>3, <2>4, <2>5, <2>6, WorkerFacts, WorkerKeeps DEF Sign
<1> QED BY <1>1, <1>2

LEMMA ReceiveKeeps == ASSUME SiteInv, NEW w \in Workers, Receive(w) PROVE SiteInv'
<1>1. PICK state \in {"accepted", "forbidden"} :
        /\ Answer(w, state)
        /\ state = "forbidden" => batch[w].label # batch[w].signer
  BY DEF Receive
<1>2. state = "forbidden" => ~ (batch[w].steady /\ w \in fresh)
  BY <1>1 DEF Receive, SiteInv, SteadyBatches
<1> QED BY <1>1, <1>2, WorkerFacts, AnswerKeeps DEF Receive, Ended

LEMMA RestartKeeps == ASSUME SiteInv, NEW w \in Workers, RestartWorker(w) PROVE SiteInv'
<1>1. NoBatch \in Batches /\ ~ NoBatch.steady
  BY DEF NoBatch, Batches, Ended
<1>2. NoBatch.state = "idle"
  BY DEF NoBatch
<1> QED BY <1>1, <1>2, WorkerFacts, WorkerKeeps DEF RestartWorker

---------------------------------------------------------------------------------
(* The theorems. *)

(* The agreement of what was read since the key file changed is inductive. *)
THEOREM SiteInductive == SiteSpec => []SiteInv
<1>1. SiteInv /\ [SiteNext]_siteVars => SiteInv'
  <2> SUFFICES ASSUME SiteInv, [SiteNext]_siteVars PROVE SiteInv'
    OBVIOUS
  <2>1. CASE UNCHANGED siteVars
    BY <2>1 DEF SiteInv, SiteTypeOK, siteVars,
                FreshLabel, FreshSigners, SteadyBatches, LoadedIsCached
  <2>2. CASE \E k \in Hotkeys : WriteKey(k)
    BY <2>2, WriteKeyKeeps
  <2>3. CASE GetWallet \/ ReadAndSubstituteConfig \/ StopPrometheus
    BY <2>3, PrometheusKeeps
  <2>4. ASSUME NEW w \in Workers,
               Post(w) \/ BITTENSOR_WALLET(w) \/ Sign(w) \/ Receive(w) \/ RestartWorker(w)
        PROVE  SiteInv'
    BY <2>4, PostKeeps, WalletKeeps, SignKeeps, ReceiveKeeps, RestartKeeps
  <2> QED BY <2>1, <2>2, <2>3, <2>4 DEF SiteNext
<1> QED BY <1>1, SiteInitHolds, PTL DEF SiteSpec

(* Whatever is restarted, and however often the key file changes: label    *)
(* and signature of a batch differ only when one of the two processes is   *)
(* older than the key file.                                                *)
THEOREM SiteIsSteady == SiteSpec => []SteadyIsNeverForbidden
<1>1. SiteInv => SteadyIsNeverForbidden
  BY DEF SiteInv, SteadyBatches, SteadyIsNeverForbidden
<1> QED BY <1>1, SiteInductive, PTL

(* settings.BITTENSOR_WALLET keeps a worker independent of the key file    *)
(* from its first signature on.                                            *)
THEOREM SiteKeepsSigning == SiteSpec => NeverFailsOnceRead
<1>1. SiteInv /\ [SiteNext]_siteVars =>
        [\A w \in Workers : signer[w] # NoKey /\ batch'[w].state = "error"
                            => batch[w].state = "error"]_siteVars
  <2> SUFFICES ASSUME SiteInv, [SiteNext]_siteVars,
                      NEW w \in Workers, signer[w] # NoKey, batch[w].state # "error"
               PROVE  batch'[w].state # "error"
    OBVIOUS
  <2>1. w \in cached /\ batch \in [Workers -> Batches]
    BY WorkerFacts
  <2>2. ASSUME NEW v \in Workers,
               Post(v) \/ BITTENSOR_WALLET(v) \/ Sign(v) \/ Receive(v) \/ RestartWorker(v)
        PROVE  batch'[w].state # "error"
    <3>1. CASE v = w
      <4>1. CASE Post(w)
        BY <2>1, <4>1 DEF Post, NoBatch
      <4>2. CASE BITTENSOR_WALLET(w)
        BY <2>1, <4>2 DEF BITTENSOR_WALLET, Answer, Batches
      <4>3. CASE Sign(w)
        BY <2>1, <4>3 DEF Sign, Hotkey, Batches
      <4>4. CASE Receive(w)
        BY <2>1, <4>4 DEF Receive, Answer, Batches
      <4>5. CASE RestartWorker(w)
        BY <2>1, <4>5 DEF RestartWorker, NoBatch
      <4> QED BY <2>2, <3>1, <4>1, <4>2, <4>3, <4>4, <4>5
    <3>2. CASE v # w
      <4>1. batch'[w] = batch[w]
        BY <2>1, <2>2, <3>2
           DEF Post, BITTENSOR_WALLET, Sign, Receive, RestartWorker, Answer
      <4> QED BY <4>1
    <3> QED BY <3>1, <3>2
  <2>3. CASE UNCHANGED batch
    BY <2>3
  <2> QED BY <2>2, <2>3
          DEF SiteNext, WriteKey, GetWallet, ReadAndSubstituteConfig, StopPrometheus, siteVars
<1> QED BY <1>1, SiteInductive, PTL DEF SiteSpec, NeverFailsOnceRead

---------------------------------------------------------------------------------
(* Settings. *)

(* What the parts executed so far have made of the environment, and what   *)
(* they would have refused.                                                *)
TextsAreTexts ==
    \A n \in Names \ Numbers : "junk" \notin {given[n], dotenv[n], environ[n]}
DatabaseMade ==
    part \in {"redis", "destinations", "central", "on_site", "started"} =>
        settings.database = Database
RedisMade ==
    part \in {"destinations", "central", "on_site", "started"} =>
        /\ settings.redis <=> ~ IsNone("REDIS_HOST")
        /\ ~ Raises("REDIS_PORT") /\ (IsNone("REDIS_HOST") <=> IsNone("REDIS_PORT"))
DirectionMade ==
    part \in {"central", "on_site", "started"} =>
        /\ settings.sends <=> IsTrue("CENTRAL_URL")
        /\ settings.receives <=> IsTrue("UPSTREAM_URL")
        /\ settings.netuids <=> IsOn("BITTENSOR_NETUIDS")
        /\ IsTrue("CENTRAL_URL") \/ IsTrue("UPSTREAM_URL")
CentralChecked == part \in {"on_site", "started"} => ~ CentralLacks
OnSiteChecked ==
    part = "started" =>
        /\ ~ Raises("BITTENSOR_NETUID")
        /\ settings.sends => /\ ~ IsNone("BITTENSOR_NETUID")
                             /\ ~ IsNone("BITTENSOR_WALLET_NAME")
                             /\ ~ IsNone("BITTENSOR_WALLET_HOTKEY_NAME")

SettingsInv ==
    /\ SettingsTypeOK /\ TextsAreTexts
    /\ DatabaseMade /\ RedisMade /\ DirectionMade /\ CentralChecked /\ OnSiteChecked
    /\ CompleteStarts

(* The role table, variable by variable. *)
LEMMA RoleTable ==
    Met(RoleNeeds) <=>
        /\ environ["CENTRAL_URL"] = "ok" \/ environ["UPSTREAM_URL"] = "ok"
        /\ environ["CENTRAL_URL"] = "ok" =>
              /\ environ["BITTENSOR_NETUID"] = "ok"
              /\ environ["BITTENSOR_WALLET_NAME"] = "ok"
              /\ environ["BITTENSOR_WALLET_HOTKEY_NAME"] = "ok"
        /\ environ["UPSTREAM_URL"] = "ok" =>
              /\ environ["BITTENSOR_NETUIDS"] = "ok" /\ environ["PYLON_ENDPOINT"] = "ok"
              /\ environ["REDIS_HOST"] = "ok" /\ environ["REDIS_PORT"] = "ok"
              /\ environ["DATABASE_POOL_URL"] = "ok" \/ environ["DATABASE_URL"] = "ok"
<1> DEFINE any    == {{"CENTRAL_URL", "UPSTREAM_URL"}}
           onSite == {{"BITTENSOR_NETUID"}, {"BITTENSOR_WALLET_NAME"},
                      {"BITTENSOR_WALLET_HOTKEY_NAME"}}
           central == {{"BITTENSOR_NETUIDS"}, {"PYLON_ENDPOINT"}, {"REDIS_HOST"},
                       {"REDIS_PORT"}, {"DATABASE_POOL_URL", "DATABASE_URL"}}
<1>1. Met(any) <=> environ["CENTRAL_URL"] = "ok" \/ environ["UPSTREAM_URL"] = "ok"
  BY DEF Met
<1>2. Met(onSite) <=> /\ environ["BITTENSOR_NETUID"] = "ok"
                      /\ environ["BITTENSOR_WALLET_NAME"] = "ok"
                      /\ environ["BITTENSOR_WALLET_HOTKEY_NAME"] = "ok"
  BY DEF Met
<1>3. Met(central) <=>
        /\ environ["BITTENSOR_NETUIDS"] = "ok" /\ environ["PYLON_ENDPOINT"] = "ok"
        /\ environ["REDIS_HOST"] = "ok" /\ environ["REDIS_PORT"] = "ok"
        /\ environ["DATABASE_POOL_URL"] = "ok" \/ environ["DATABASE_URL"] = "ok"
  BY DEF Met
<1>4. RoleNeeds = any \cup (IF environ["CENTRAL_URL"] = "ok" THEN onSite ELSE {})
                      \cup (IF environ["UPSTREAM_URL"] = "ok" THEN central ELSE {})
  BY DEF RoleNeeds
<1> HIDE DEF any, onSite, central
<1>5. Met(RoleNeeds) <=> /\ Met(any)
                         /\ environ["CENTRAL_URL"] = "ok" => Met(onSite)
                         /\ environ["UPSTREAM_URL"] = "ok" => Met(central)
  BY <1>4 DEF Met
<1> QED BY <1>1, <1>2, <1>3, <1>5

(* What every process needs, if it is not the one that builds the image. *)
LEMMA BaseTable ==
    Met(BaseNeeds) <=>
        /\ environ["ENV"] = "ok"
        /\ given["FILL"] # "ok" => environ["SECRET_KEY"] = "ok"
        /\ environ["CSP_ENABLED"] = "ok" /\ given["FILL"] # "ok" => environ["CSP_SRC"] = "ok"
<1> DEFINE secret == IF given["FILL"] = "ok" THEN {} ELSE {{"SECRET_KEY"}}
           csp == IF environ["CSP_ENABLED"] = "ok" /\ given["FILL"] # "ok"
                  THEN {{"CSP_SRC"}} ELSE {}
<1>1. Met(secret) <=> (given["FILL"] # "ok" => environ["SECRET_KEY"] = "ok")
  BY DEF Met
<1>2. Met(csp) <=>
        (environ["CSP_ENABLED"] = "ok" /\ given["FILL"] # "ok" => environ["CSP_SRC"] = "ok")
  BY DEF Met
<1>3. Met({{"ENV"}}) <=> environ["ENV"] = "ok"
  BY DEF Met
<1>4. BaseNeeds = {{"ENV"}} \cup secret \cup csp
  BY DEF BaseNeeds
<1> HIDE DEF secret, csp
<1>5. Met(BaseNeeds) <=> Met({{"ENV"}}) /\ Met(secret) /\ Met(csp)
  BY <1>4 DEF Met
<1> QED BY <1>1, <1>2, <1>3, <1>5

LEMMA SettingsInitHolds == SettingsInit => SettingsInv
<1> SUFFICES ASSUME SettingsInit PROVE SettingsInv
  OBVIOUS
<1>1. SettingsTypeOK /\ TextsAreTexts
  BY SettingsAssumption DEF SettingsInit, SettingsTypeOK, TextsAreTexts, Unmade, Parts
<1>2. part = "read_env"
  BY DEF SettingsInit
<1>3. DatabaseMade /\ RedisMade /\ DirectionMade /\ CentralChecked /\ OnSiteChecked
  BY <1>2 DEF DatabaseMade, RedisMade, DirectionMade, CentralChecked, OnSiteChecked
<1>4. CompleteStarts
  BY <1>2 DEF CompleteStarts
<1> QED BY <1>1, <1>3, <1>4 DEF SettingsInv

LEMMA ReadEnvKeeps == ASSUME SettingsInv, ReadEnv PROVE SettingsInv'
<1>1. environ' \in [Names -> Kinds] /\ \A n \in Names \ Numbers : environ'[n] # "junk"
  BY DEF SettingsInv, SettingsTypeOK, TextsAreTexts, ReadEnv, Sourced
<1>2. part' \in {"csp", "refused"} /\ UNCHANGED <<given, dotenv, settings>>
  BY DEF ReadEnv, Proceed
<1>3. SettingsTypeOK' /\ TextsAreTexts'
  BY <1>1, <1>2 DEF SettingsInv, SettingsTypeOK, TextsAreTexts, Parts
<1>4. /\ DatabaseMade' /\ RedisMade' /\ DirectionMade' /\ CentralChecked' /\ OnSiteChecked'
  BY <1>2 DEF DatabaseMade, RedisMade, DirectionMade, CentralChecked, OnSiteChecked
<1>5. ASSUME Met(BaseNeeds)' PROVE part' # "refused"
  <2>1. environ'["ENV"] = "ok" /\ (given["FILL"] # "ok" => environ'["SECRET_KEY"] = "ok")
    <3>1. \A need \in BaseNeeds' : \E n \in need : environ'[n] = "ok"
      BY <1>5 DEF Met
    <3>2. {"ENV"} \in BaseNeeds' /\ (given["FILL"] # "ok" => {"SECRET_KEY"} \in BaseNeeds')
      BY <1>2 DEF BaseNeeds
    <3> QED BY <3>1, <3>2
  <2> QED BY <2>1 DEF ReadEnv, Proceed, Lacks
<1>6. CompleteStarts'
  <2>1. Met(BaseNeeds \cup RoleNeeds)' => Met(BaseNeeds)'
    BY DEF Met
  <2> QED BY <1>5, <2>1 DEF CompleteStarts
<1> QED BY <1>3, <1>4, <1>6 DEF SettingsInv

(* The other parts read the environment and change it no more. *)
LEMMA PartKeepsEnvironment ==
    ASSUME SettingsInv, UNCHANGED <<given, dotenv, environ>>
    PROVE  /\ TextsAreTexts'
           /\ part' \in Parts => (SettingsTypeOK' <=> (settings' \in
                 [csp : BOOLEAN, database : {"none", "pool", "direct"}, redis : BOOLEAN,
                  broker : {"none", "default", "redis"}, sends : BOOLEAN,
                  receives : BOOLEAN, netuids : BOOLEAN, netuid : BOOLEAN,
                  wallet : BOOLEAN]))
           /\ part' # "refused" => CompleteStarts'
BY DEF SettingsInv, SettingsTypeOK, TextsAreTexts, CompleteStarts

(* A refusal, by the part whose test is passed in a complete environment. *)
LEMMA RefusalKeeps ==
    ASSUME SettingsInv, Refuse,
           ~ (/\ Met(BaseNeeds) /\ Met(RoleNeeds)
              /\ \A n \in Names : environ[n] # "junk"
              /\ IsNone("REDIS_HOST") <=> IsNone("REDIS_PORT"))
    PROVE  SettingsInv'
<1>1. part' = "refused" /\ UNCHANGED <<given, dotenv, environ, settings>>
  BY DEF Refuse, Proceed
<1>2. SettingsTypeOK' /\ TextsAreTexts'
  BY <1>1 DEF SettingsInv, SettingsTypeOK, TextsAreTexts, Parts
<1>3. DatabaseMade' /\ RedisMade' /\ DirectionMade' /\ CentralChecked' /\ OnSiteChecked'
  BY <1>1 DEF DatabaseMade, RedisMade, DirectionMade, CentralChecked, OnSiteChecked
<1>4. ~ (/\ Met(BaseNeeds \cup RoleNeeds)
         /\ \A n \in Names : environ[n] # "junk"
         /\ IsNone("REDIS_HOST") = IsNone("REDIS_PORT"))
  BY DEF Met, IsNone
<1>5. CompleteStarts'
  BY <1>1, <1>4 DEF CompleteStarts, Met, BaseNeeds, RoleNeeds, IsNone
<1> QED BY <1>2, <1>3, <1>5 DEF SettingsInv

LEMMA CspKeeps == ASSUME SettingsInv, Csp PROVE SettingsInv'
<1>1. CASE IsOn("CSP_ENABLED") /\ Lacks(environ, "CSP_SRC")
  <2>1. ~ Met(BaseNeeds)
    BY <1>1, BaseTable DEF IsOn, Lacks
  <2> QED BY <1>1, <2>1, RefusalKeeps DEF Csp
<1>2. CASE ~ (IsOn("CSP_ENABLED") /\ Lacks(environ, "CSP_SRC"))
  <2>1. /\ UNCHANGED <<given, dotenv, environ>> /\ part' = "databases"
        /\ settings' = [settings EXCEPT !.csp = IsOn("CSP_ENABLED")]
    BY <1>2 DEF Csp, Made, Proceed
  <2>2. SettingsTypeOK' /\ TextsAreTexts' /\ CompleteStarts'
    BY <2>1, PartKeepsEnvironment DEF SettingsInv, SettingsTypeOK, Parts, IsOn
  <2>3. DatabaseMade' /\ RedisMade' /\ DirectionMade' /\ CentralChecked' /\ OnSiteChecked'
    BY <2>1 DEF DatabaseMade, RedisMade, DirectionMade, CentralChecked, OnSiteChecked
  <2> QED BY <2>2, <2>3 DEF SettingsInv
<1> QED BY <1>1, <1>2

LEMMA DatabasesKeeps == ASSUME SettingsInv, Databases PROVE SettingsInv'
<1>1. /\ UNCHANGED <<given, dotenv, environ>> /\ part' = "redis"
      /\ settings' = [settings EXCEPT !.database = Database]
  BY DEF Databases, Made, Proceed
<1>2. Database \in {"none", "pool", "direct"}
  BY DEF Database
<1>3. SettingsTypeOK' /\ TextsAreTexts' /\ CompleteStarts'
  BY <1>1, <1>2, PartKeepsEnvironment DEF SettingsInv, SettingsTypeOK, Parts
<1>4. DatabaseMade'
  <2>1. settings'.database = Database
    BY <1>1 DEF SettingsInv, SettingsTypeOK
  <2> QED BY <1>1, <2>1 DEF DatabaseMade, Database, IsNone
<1>5. RedisMade' /\ DirectionMade' /\ CentralChecked' /\ OnSiteChecked'
  BY <1>1 DEF RedisMade, DirectionMade, CentralChecked, OnSiteChecked
<1> QED BY <1>3, <1>4, <1>5 DEF SettingsInv

LEMMA RedisKeeps == ASSUME SettingsInv, Redis PROVE SettingsInv'
<1>1. CASE Raises("REDIS_PORT") \/ IsNone("REDIS_HOST") # IsNone("REDIS_PORT")
  <2>1. \/ environ["REDIS_PORT"] = "junk"
        \/ ~ (IsNone("REDIS_HOST") <=> IsNone("REDIS_PORT"))
    BY <1>1 DEF Raises, IsNone
  <2>2. "REDIS_PORT" \in Names
    BY DEF Names
  <2> QED BY <1>1, <2>1, <2>2, RefusalKeeps DEF Redis
<1>2. CASE ~ (Raises("REDIS_PORT") \/ IsNone("REDIS_HOST") # IsNone("REDIS_PORT"))
  <2>1. /\ UNCHANGED <<given, dotenv, environ>> /\ part' = "destinations"
        /\ settings' = [settings EXCEPT !.redis = ~ IsNone("REDIS_HOST"), !.broker = Broker]
    BY <1>2 DEF Redis, Made, Proceed
  <2>2. Broker \in {"none", "default", "redis"} /\ (~ IsNone("REDIS_HOST")) \in BOOLEAN
    BY DEF Broker, IsNone
  <2>3. SettingsTypeOK' /\ TextsAreTexts' /\ CompleteStarts'
    BY <2>1, <2>2, PartKeepsEnvironment DEF SettingsInv, SettingsTypeOK, Parts
  <2>4. settings'.database = settings.database /\ settings'.redis = ~ IsNone("REDIS_HOST")
    BY <2>1 DEF SettingsInv, SettingsTypeOK
  <2>5. DatabaseMade'
    BY <2>1, <2>4 DEF SettingsInv, DatabaseMade, Redis, Database, IsNone
  <2>6. RedisMade'
    BY <1>2, <2>1, <2>4 DEF RedisMade, Raises, IsNone
  <2>7. DirectionMade' /\ CentralChecked' /\ OnSiteChecked'
    BY <2>1 DEF DirectionMade, CentralChecked, OnSiteChecked
  <2> QED BY <2>3, <2>5, <2>6, <2>7 DEF SettingsInv
<1> QED BY <1>1, <1>2

LEMMA DestinationsKeeps == ASSUME SettingsInv, Destinations PROVE SettingsInv'
<1> DEFINE refuses == \/ ~ IsTrue("CENTRAL_URL") /\ ~ IsTrue("UPSTREAM_URL")
                      \/ Raises("BITTENSOR_NETUIDS")
<1>1. CASE refuses
  <2>1. \/ ~ Met(RoleNeeds)
        \/ environ["BITTENSOR_NETUIDS"] = "junk"
    BY <1>1, RoleTable DEF IsTrue, Raises
  <2>2. "BITTENSOR_NETUIDS" \in Names
    BY DEF Names
  <2> QED BY <1>1, <2>1, <2>2, RefusalKeeps DEF Destinations
<1>2. CASE ~ refuses
  <2>1. /\ UNCHANGED <<given, dotenv, environ>> /\ part' = "central"
        /\ settings' = [settings EXCEPT !.sends = IsTrue("CENTRAL_URL"),
                                        !.receives = IsTrue("UPSTREAM_URL"),
                                        !.netuids = IsOn("BITTENSOR_NETUIDS")]
    BY <1>2 DEF Destinations, Made, Proceed
  <2>2. \A n : IsTrue(n) \in BOOLEAN /\ IsOn(n) \in BOOLEAN
    BY DEF IsTrue, IsOn
  <2>3. SettingsTypeOK' /\ TextsAreTexts' /\ CompleteStarts'
    BY <2>1, <2>2, PartKeepsEnvironment DEF SettingsInv, SettingsTypeOK, Parts
  <2>4. /\ settings'.database = settings.database /\ settings'.redis = settings.redis
        /\ settings'.sends = IsTrue("CENTRAL_URL")
        /\ settings'.receives = IsTrue("UPSTREAM_URL")
        /\ settings'.netuids = IsOn("BITTENSOR_NETUIDS")
    BY <2>1 DEF SettingsInv, SettingsTypeOK
  <2>5. DatabaseMade' /\ RedisMade'
    BY <2>1, <2>4
       DEF SettingsInv, DatabaseMade, RedisMade, Destinations, Database, IsNone, Raises
  <2>6. DirectionMade'
    BY <1>2, <2>1, <2>4 DEF DirectionMade, IsTrue, IsOn
  <2>7. CentralChecked' /\ OnSiteChecked'
    BY <2>1 DEF CentralChecked, OnSiteChecked
  <2> QED BY <2>3, <2>5, <2>6, <2>7 DEF SettingsInv
<1> QED BY <1>1, <1>2

(* A receiving process that lacks something lacks what the role table asks *)
(* of it, if all that is set can be read.                                  *)
LEMMA CentralKeeps == ASSUME SettingsInv, Central PROVE SettingsInv'
<1>1. CASE CentralLacks
  <2>1. ASSUME \A n \in Names : environ[n] # "junk" PROVE ~ Met(RoleNeeds)
    <3>1. IsTrue("UPSTREAM_URL") /\ "UPSTREAM_URL" \in Names
      BY <1>1 DEF SettingsInv, DirectionMade, Central, CentralLacks, Names
    <3>2. environ["UPSTREAM_URL"] = "ok"
      BY <2>1, <3>1 DEF IsTrue
    <3>3. \/ ~ IsOn("BITTENSOR_NETUIDS") \/ ~ IsTrue("PYLON_ENDPOINT")
          \/ Database = "none" \/ IsNone("REDIS_HOST")
      BY <1>1 DEF SettingsInv, DatabaseMade, RedisMade, DirectionMade, Central, CentralLacks
    <3> QED BY <3>2, <3>3, RoleTable DEF IsOn, IsTrue, IsNone, Database
  <2> QED BY <1>1, <2>1, RefusalKeeps DEF Central
<1>2. CASE ~ CentralLacks
  <2>1. UNCHANGED <<given, dotenv, environ, settings>> /\ part' = "on_site"
    BY <1>2 DEF Central, Made, Proceed
  <2>2. SettingsTypeOK' /\ TextsAreTexts' /\ CompleteStarts'
    BY <2>1, PartKeepsEnvironment DEF SettingsInv, SettingsTypeOK, Parts
  <2>3. DatabaseMade' /\ RedisMade' /\ DirectionMade'
    BY <2>1 DEF SettingsInv, DatabaseMade, RedisMade, DirectionMade, Central, Database,
                IsNone, IsTrue, IsOn, Raises
  <2>4. CentralChecked' /\ OnSiteChecked'
    BY <1>2, <2>1 DEF CentralChecked, OnSiteChecked, CentralLacks, IsTrue
  <2> QED BY <2>2, <2>3, <2>4 DEF SettingsInv
<1> QED BY <1>1, <1>2

LEMMA OnSiteKeeps == ASSUME SettingsInv, OnSite PROVE SettingsInv'
<1> DEFINE refuses == \/ Raises("BITTENSOR_NETUID")
                      \/ settings.sends /\ \/ IsNone("BITTENSOR_NETUID")
                                           \/ IsNone("BITTENSOR_WALLET_NAME")
                                           \/ IsNone("BITTENSOR_WALLET_HOTKEY_NAME")
<1>1. CASE refuses
  <2>1. ASSUME \A n \in Names : environ[n] # "junk" PROVE ~ Met(RoleNeeds)
    <3>1. {"CENTRAL_URL", "BITTENSOR_NETUID"} \subseteq Names
      BY DEF Names
    <3>2. settings.sends => environ["CENTRAL_URL"] = "ok"
      BY <2>1, <3>1 DEF SettingsInv, DirectionMade, OnSite, IsTrue
    <3> QED BY <1>1, <2>1, <3>1, <3>2, RoleTable DEF IsNone, Raises
  <2> QED BY <1>1, <2>1, RefusalKeeps DEF OnSite
<1>2. CASE ~ refuses
  <2> DEFINE wallet == /\ ~ IsNone("BITTENSOR_WALLET_NAME")
                       /\ ~ IsNone("BITTENSOR_WALLET_HOTKEY_NAME")
  <2>1. /\ UNCHANGED <<given, dotenv, environ>> /\ part' = "started"
        /\ settings' = [settings EXCEPT !.netuid = ~ IsNone("BITTENSOR_NETUID"),
                                        !.wallet = wallet]
    BY <1>2 DEF OnSite, Made, Proceed
  <2>2. (~ IsNone("BITTENSOR_NETUID")) \in BOOLEAN /\ wallet \in BOOLEAN
    BY DEF IsNone
  <2>3. SettingsTypeOK' /\ TextsAreTexts' /\ CompleteStarts'
    BY <2>1, <2>2, PartKeepsEnvironment DEF SettingsInv, SettingsTypeOK, Parts
  <2>4. /\ settings'.database = settings.database /\ settings'.redis = settings.redis
        /\ settings'.sends = settings.sends /\ settings'.receives = settings.receives
        /\ settings'.netuids = settings.netuids
    BY <2>1 DEF SettingsInv, SettingsTypeOK
  <2>5. DatabaseMade' /\ RedisMade' /\ DirectionMade'
    BY <2>1, <2>4 DEF SettingsInv, DatabaseMade, RedisMade, DirectionMade, OnSite, Database,
                      IsNone, IsTrue, IsOn, Raises
  <2>6. CentralChecked'
    BY <2>1, <2>4 DEF SettingsInv, CentralChecked, CentralLacks, OnSite, IsTrue
  <2>7. OnSiteChecked'
    BY <1>2, <2>1, <2>4 DEF OnSiteChecked, IsNone, Raises
  <2> QED BY <2>3, <2>5, <2>6, <2>7 DEF SettingsInv
<1> QED BY <1>1, <1>2

(* What the file has made of the environment so far is what it says, and   *)
(* what it has passed over is there: inductive, part by part.              *)
THEOREM SettingsInductive == SettingsSpec => []SettingsInv
<1>1. SettingsInv /\ [SettingsNext]_settingsVars => SettingsInv'
  <2> SUFFICES ASSUME SettingsInv, [SettingsNext]_settingsVars PROVE SettingsInv'
    OBVIOUS
  <2>1. CASE UNCHANGED settingsVars
    BY <2>1 DEF settingsVars, SettingsInv, SettingsTypeOK, TextsAreTexts, DatabaseMade,
                RedisMade, DirectionMade, CentralChecked, OnSiteChecked, CompleteStarts,
                Database, IsNone, IsTrue, IsOn, Raises, CentralLacks, Met, BaseNeeds, RoleNeeds
  <2> QED BY <2>1, ReadEnvKeeps, CspKeeps, DatabasesKeeps, RedisKeeps, DestinationsKeeps,
             CentralKeeps, OnSiteKeeps DEF SettingsNext
<1> QED BY <1>1, SettingsInitHolds, PTL DEF SettingsSpec

(* settings.py, however its environment was put together: each check asks  *)
(* in its own way whether something is set, and between them they ask for  *)
(* all of the role table.                                                  *)
THEOREM StartedEquipped == SettingsSpec => []StartedMeansEquipped
<1>1. SettingsInv => StartedMeansEquipped
  <2> SUFFICES ASSUME SettingsInv, part = "started" PROVE Met(RoleNeeds)
    BY DEF StartedMeansEquipped
  <2>1. \A n \in Names : environ[n] \in {"unset", "empty", "ok", "junk"}
    BY DEF SettingsInv, SettingsTypeOK, Kinds
  <2>2. \A n \in Names \ Numbers : environ[n] # "junk"
    BY DEF SettingsInv, TextsAreTexts
  <2>3. \A n \in Names \ Numbers : ~ IsNone(n) \/ IsTrue(n) => environ[n] = "ok"
    BY <2>1, <2>2 DEF IsNone, IsTrue
  <2>4. \A n \in Numbers : ~ IsNone(n) /\ ~ Raises(n) => environ[n] = "ok"
    <3>1. Numbers \subseteq Names
      BY DEF Numbers, Names
    <3> QED BY <2>1, <3>1 DEF IsNone, Raises
  <2>5. /\ {"REDIS_PORT", "BITTENSOR_NETUID"} \subseteq Numbers
        /\ {"CENTRAL_URL", "UPSTREAM_URL", "BITTENSOR_WALLET_NAME",
            "BITTENSOR_WALLET_HOTKEY_NAME", "PYLON_ENDPOINT", "REDIS_HOST",
            "DATABASE_POOL_URL", "DATABASE_URL"} \subseteq Names \ Numbers
    BY DEF Numbers, Names
  <2>6. environ["CENTRAL_URL"] = "ok" \/ environ["UPSTREAM_URL"] = "ok"
    BY <2>3, <2>5 DEF SettingsInv, DirectionMade
  <2>7. ASSUME environ["CENTRAL_URL"] = "ok"
        PROVE  /\ environ["BITTENSOR_NETUID"] = "ok"
               /\ environ["BITTENSOR_WALLET_NAME"] = "ok"
               /\ environ["BITTENSOR_WALLET_HOTKEY_NAME"] = "ok"
    <3>1. settings.sends
      BY <2>7 DEF SettingsInv, DirectionMade, IsTrue
    <3> QED BY <2>3, <2>4, <2>5, <3>1 DEF SettingsInv, OnSiteChecked
  <2>8. ASSUME environ["UPSTREAM_URL"] = "ok"
        PROVE  /\ environ["BITTENSOR_NETUIDS"] = "ok" /\ environ["PYLON_ENDPOINT"] = "ok"
               /\ environ["REDIS_HOST"] = "ok" /\ environ["REDIS_PORT"] = "ok"
               /\ environ["DATABASE_POOL_URL"] = "ok" \/ environ["DATABASE_URL"] = "ok"
    <3>1. /\ settings.netuids /\ settings.redis /\ IsTrue("PYLON_ENDPOINT")
          /\ settings.database # "none"
      BY <2>8 DEF SettingsInv, DirectionMade, CentralChecked, CentralLacks, IsTrue
    <3>2. environ["BITTENSOR_NETUIDS"] = "ok"
      BY <3>1 DEF SettingsInv, DirectionMade, IsOn
    <3>3. ~ IsNone("REDIS_HOST") /\ ~ IsNone("REDIS_PORT") /\ ~ Raises("REDIS_PORT")
      BY <3>1 DEF SettingsInv, RedisMade
    <3>4. ~ IsNone("DATABASE_POOL_URL") \/ ~ IsNone("DATABASE_URL")
      BY <3>1 DEF SettingsInv, DatabaseMade, Database
    <3> QED BY <2>3, <2>4, <2>5, <3>1, <3>2, <3>3, <3>4
  <2> QED BY <2>6, <2>7, <2>8, RoleTable
<1> QED BY <1>1, SettingsInductive, PTL

(* settings.py refuses nobody who has all that the roles taken need, the   *)
(* build of the image, which has no secrets, among them.                   *)
THEOREM CompleteIsStarted == SettingsSpec => []CompleteStarts
BY SettingsInductive, PTL DEF SettingsInv

---------------------------------------------------------------------------------
(* Operations. *)

(* A behaviour of the five side by side is a behaviour of each: what is    *)
(* proved of a component alone holds in the run that checks them all.      *)
THEOREM EachAlone ==
    Spec => SettingsSpec /\ SiteSpec /\ AlarmSpec /\ BackupsSpec /\ MetricsSpec
<1>1. Init => SettingsInit /\ SiteInit /\ AlarmInit /\ BackupsInit /\ MetricsInit
  BY DEF Init
<1>2. [Next]_allVars => /\ [SettingsNext]_settingsVars /\ [SiteNext]_siteVars
                        /\ [AlarmNext]_alarmVars /\ [BackupsNext]_backupsVars
                        /\ [MetricsNext]_metricsVars
  BY DEF Next, allVars
<1> QED BY <1>1, <1>2, PTL
        DEF Spec, SettingsSpec, SiteSpec, AlarmSpec, BackupsSpec, MetricsSpec

(* The variables of the five components keep to their sets.                *)
THEOREM OperationsTypes == Spec => []TypesOK
<1>1. SettingsInv => SettingsTypeOK
  BY DEF SettingsInv
<1>2. SiteInv => SiteTypeOK
  BY DEF SiteInv
<1>3. AlarmInv => AlarmTypeOK
  BY DEF AlarmInv
<1>4. BackupsInv => BackupsTypeOK
  BY DEF BackupsInv
<1>5. MetricsInv => MetricsTypeOK
  BY DEF MetricsInv
<1> QED BY <1>1, <1>2, <1>3, <1>4, <1>5, EachAlone, SettingsInductive, SiteInductive,
           AlarmInductive, BackupsInductive, MetricsInductive, PTL DEF TypesOK
=================================================================================
