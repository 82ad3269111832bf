------------------------------ MODULE DeliveryProofs ------------------------------
(***************************************************************************)
(* Proofs about Delivery, for any batches, worker pools (separate or one   *)
(* and the same), number of tries, sends and failures.  The invariant says *)
(* that the status a worker is about to pass on is justified by the store  *)
(* or the registry, and that it is passed to whoever asked.                *)
(***************************************************************************)
EXTENDS Delivery, FiniteSetTheorems, TLAPS

USE BatchesAssumption, WorkersAssumption, TriesAssumption, BoundsAssumption

(* A worker that posts has a try left. *)
TriesOK ==
    /\ \A h \in SiteWorkers : sitePc[h] = "post" => site[h].try < MaxTries
    /\ \A c \in CentralWorkers :
          centralPc[c] \in {"auth", "post"} => central[c].try < MaxTries

TypeInv == TypeOK /\ TriesOK

LEMMA NoRequestType ==
  /\ NoRequest \in SiteRequests /\ NoRequest.try = 0 /\ 0 < MaxTries
  /\ NoCall \in CentralRequests /\ NoCall.try = 0 /\ NoCall.caller = Nobody
<1>1. AnyBatch \in Batches
  BY DEF AnyBatch
<1> QED
  BY <1>1 DEF NoRequest, NoCall, SiteRequests, CentralRequests, Statuses

LEMMA TypeInit == Init => TypeInv
BY NoRequestType DEF Init, TypeInv, TypeOK, TriesOK, SitePcs, CentralPcs

LEMMA HangType ==
  ASSUME TypeInv, NEW h \in SiteWorkers, Hang(h)
  PROVE  /\ abandoned' \in [Batches -> Nat]
         /\ central' \in [CentralWorkers -> CentralRequests]
         /\ \A c \in CentralWorkers :
               /\ central'[c].try = central[c].try
               /\ central'[c].batch = central[c].batch
               /\ central'[c].status = central[c].status
               /\ centralPc[c] # "idle" => central'[c].caller # h
               /\ central'[c].caller \in {central[c].caller, Nobody}
<1> USE DEF TypeInv, TypeOK
<1>1. abandoned' \in [Batches -> Nat]
  BY DEF Hang, SiteRequests
<1>2. ASSUME NEW c \in CentralWorkers
      PROVE  /\ central'[c] \in CentralRequests
             /\ central'[c].try = central[c].try
             /\ central'[c].batch = central[c].batch
             /\ central'[c].status = central[c].status
             /\ centralPc[c] # "idle" => central'[c].caller # h
             /\ central'[c].caller \in {central[c].caller, Nobody}
  <2>1. central[c] \in CentralRequests
    OBVIOUS
  <2>2. central'[c] = IF centralPc[c] # "idle" /\ central[c].caller = h
                      THEN [central[c] EXCEPT !.caller = Nobody] ELSE central[c]
    BY DEF Hang
  <2> QED
    BY <2>1, <2>2 DEF CentralRequests
<1>3. central' = [c \in CentralWorkers |-> central'[c]]
  BY DEF Hang
<1> QED
  BY <1>1, <1>2, <1>3

LEMMA FinishType ==
  ASSUME TypeInv, NEW h \in SiteWorkers, NEW status \in Statuses, NEW again \in BOOLEAN,
         Finish(h, status, again)
  PROVE  /\ sitePc' \in [SiteWorkers -> SitePcs]
         /\ site' \in [SiteWorkers -> SiteRequests]
         /\ \A g \in SiteWorkers \ {h} : sitePc'[g] = sitePc[g] /\ site'[g] = site[g]
         /\ \/ sitePc'[h] = "post" /\ site'[h].try < MaxTries
            \/ sitePc'[h] = "answer" /\ site'[h].status = status
         /\ site'[h].batch = site[h].batch /\ site'[h].try = site[h].try
         /\ site'[h].client = site[h].client
<1> USE DEF TypeInv, TypeOK
<1>1. site[h] \in SiteRequests
  OBVIOUS
<1>2. CASE again /\ site[h].try < MaxTries
  BY <1>1, <1>2 DEF Finish, SitePcs
<1>3. CASE ~(again /\ site[h].try < MaxTries)
  <2>1. /\ sitePc' = [sitePc EXCEPT ![h] = "answer"]
        /\ site' = [site EXCEPT ![h] = [site[h] EXCEPT !.status = status]]
    BY <1>3 DEF Finish
  <2>2. [site[h] EXCEPT !.status = status] \in SiteRequests
    BY <1>1 DEF SiteRequests
  <2> QED
    BY <1>1, <2>1, <2>2 DEF SitePcs, SiteRequests
<1> QED
  BY <1>2, <1>3

(* A try that brings no answer: SiteTryFails, SiteStarves, CentralKilled. *)
LEMMA FailedTry ==
  ASSUME TypeInv, NEW h \in SiteWorkers,
         TryAgain(h) \/ Finish(h, "error", FALSE)
  PROVE  /\ sitePc' \in [SiteWorkers -> SitePcs]
         /\ site' \in [SiteWorkers -> SiteRequests]
         /\ \A g \in SiteWorkers \ {h} : sitePc'[g] = sitePc[g] /\ site'[g] = site[g]
         /\ \/ sitePc'[h] = "post" /\ site'[h].try < MaxTries
            \/ sitePc'[h] = "answer" /\ site'[h].status = "error"
         /\ site'[h].batch = site[h].batch /\ site'[h].try = site[h].try
         /\ site'[h].client = site[h].client
<1>1. "error" \in Statuses
  BY DEF Statuses
<1>2. \E again \in BOOLEAN : Finish(h, "error", again)
  BY DEF TryAgain
<1> QED
  BY <1>1, <1>2, FinishType

LEMMA TypeStep == TypeInv /\ [Next]_vars => TypeInv'
<1> SUFFICES ASSUME TypeInv, [Next]_vars PROVE TypeInv'
  OBVIOUS
<1>1. ASSUME UNCHANGED vars PROVE TypeInv'
  BY <1>1 DEF vars, onSite, atCentral, store, registry, TypeInv, TypeOK, TriesOK
<1>2. ASSUME NEW b \in Batches, NEW h \in SiteWorkers, Send(b, h) PROVE TypeInv'
  <2> DEFINE r == [NoRequest EXCEPT !.batch = b, !.client = TRUE]
  <2>1. r \in SiteRequests /\ r.try = 0
    BY NoRequestType DEF SiteRequests
  <2>2. site' = [site EXCEPT ![h] = r] /\ sitePc' = [sitePc EXCEPT ![h] = "post"]
    BY <1>2 DEF Send
  <2>3. sends' \in [Batches -> 0 .. MaxSends]
    BY <1>2 DEF Send, TypeInv, TypeOK
  <2> HIDE DEF r
  <2> QED
    BY <1>2, <2>1, <2>2, <2>3, NoRequestType
    DEF Send, atCentral, registry, store, TypeInv, TypeOK, TriesOK, SitePcs
<1>3. ASSUME NEW b \in Batches, RegistryChange(b) PROVE TypeInv'
  BY <1>3 DEF RegistryChange, Fault, onSite, atCentral, store, TypeInv, TypeOK, TriesOK
<1>4. ASSUME NEW h \in SiteWorkers, SiteWork(h) \/ SiteFailure(h) PROVE TypeInv'
  <2>r. site[h] \in SiteRequests
    BY DEF TypeInv, TypeOK
  <2>1. CASE PostCentral(h)
    <3>1. site' = [site EXCEPT ![h] = [site[h] EXCEPT !.try = @ + 1]]
      BY <2>1 DEF PostCentral
    <3>2. [site[h] EXCEPT !.try = @ + 1] \in SiteRequests
      BY <2>1, <2>r DEF PostCentral, SiteRequests, TypeInv, TriesOK
    <3> QED
      BY <2>1, <3>1, <3>2
      DEF PostCentral, atCentral, registry, store, TypeInv, TypeOK, TriesOK, SitePcs
  <2>2. CASE SiteStarves(h) \/ \E midway \in BOOLEAN : SiteTryFails(h, midway)
    <3>1. /\ Hang(h) /\ (TryAgain(h) \/ Finish(h, "error", FALSE))
          /\ UNCHANGED <<sender, sends, centralPc, registry, store>>
      BY <2>2 DEF SiteStarves, SiteTryFails
    <3>2. faults' \in 0 .. MaxFaults
      <4>1. UNCHANGED faults \/ Fault
        BY <2>2 DEF SiteStarves, SiteTryFails
      <4> QED
        BY <4>1 DEF Fault, TypeInv, TypeOK
    <3> QED
      BY <3>1, <3>2, HangType, FailedTry, ZenonT(40)
      DEF registry, store, TypeInv, TypeOK, TriesOK
  <2>3. CASE SiteAnswers(h)
    <3>1. sender' \in [Batches -> {"ready", "waiting", "accepted", "dropped"}]
      BY <2>3, <2>r DEF SiteAnswers, TypeInv, TypeOK, SiteRequests, Statuses
    <3> QED
      BY <2>3, <3>1, NoRequestType
      DEF SiteAnswers, atCentral, registry, store, TypeInv, TypeOK, TriesOK, SitePcs
  <2>4. CASE SenderTimeout(h)
    <3>1. site' = [site EXCEPT ![h] = [site[h] EXCEPT !.client = FALSE]]
      BY <2>4 DEF SenderTimeout
    <3>2. /\ [site[h] EXCEPT !.client = FALSE] \in SiteRequests
          /\ [site[h] EXCEPT !.client = FALSE].try = site[h].try
      BY <2>r DEF SiteRequests
    <3>3. sender' \in [Batches -> {"ready", "waiting", "accepted", "dropped"}]
      BY <2>4 DEF SenderTimeout, TypeInv, TypeOK
    <3> QED
      BY <2>4, <3>1, <3>2, <3>3
      DEF SenderTimeout, Fault, atCentral, registry, store, TypeInv, TypeOK, TriesOK
  <2>5. CASE SiteKilled(h)
    <3>1. sender' \in [Batches -> {"ready", "waiting", "accepted", "dropped"}]
      BY <2>5 DEF SiteKilled, TypeInv, TypeOK
    <3>2. /\ sitePc' = [sitePc EXCEPT ![h] = "idle"]
          /\ site' = [site EXCEPT ![h] = NoRequest]
          /\ UNCHANGED <<sends, centralPc, registry, store>> /\ Hang(h)
          /\ faults' \in 0 .. MaxFaults
      BY <2>5 DEF SiteKilled, Fault, TypeInv, TypeOK
    <3> QED
      BY <3>1, <3>2, HangType, NoRequestType
      DEF registry, store, TypeInv, TypeOK, TriesOK, SitePcs
  <2> QED
    BY <1>4, <2>1, <2>2, <2>3, <2>4, <2>5 DEF SiteWork, SiteFailure
<1>5. ASSUME NEW c \in CentralWorkers, CentralWork(c) \/ CentralFailure(c)
      PROVE  TypeInv'
  <2>r. central[c] \in CentralRequests
    BY DEF TypeInv, TypeOK
  <2>1. ASSUME NEW h \in SiteWorkers, Accept(c, h) PROVE TypeInv'
    <3> DEFINE r == [NoCall EXCEPT !.batch = site[h].batch, !.caller = h]
    <3>1. r \in CentralRequests /\ r.try = 0
      BY NoRequestType DEF CentralRequests, SiteRequests, TypeInv, TypeOK
    <3>2. central' = [central EXCEPT ![c] = r]
      BY <2>1 DEF Accept
    <3> HIDE DEF r
    <3> QED
      BY <2>1, <3>1, <3>2, NoRequestType
      DEF Accept, registry, store, TypeInv, TypeOK, TriesOK, SitePcs, CentralPcs
  <2>2. ASSUME NEW b \in Batches, AcceptAbandoned(c, b) PROVE TypeInv'
    <3> DEFINE r == [NoCall EXCEPT !.batch = b]
    <3>1. r \in CentralRequests /\ r.try = 0
      BY NoRequestType DEF CentralRequests
    <3>2. central' = [central EXCEPT ![c] = r] /\ abandoned' \in [Batches -> Nat]
      BY <2>2 DEF AcceptAbandoned, TypeInv, TypeOK
    <3> HIDE DEF r
    <3> QED
      BY <2>2, <3>1, <3>2, NoRequestType
      DEF AcceptAbandoned, onSite, registry, store, TypeInv, TypeOK, TriesOK, CentralPcs
  <2>3. CASE Admit(c)
    <3>1. counted' \in [Batches -> Nat]
      BY <2>3, <2>r DEF Admit, CentralRequests, TypeInv, TypeOK
    <3> QED
      BY <2>3, <3>1 DEF Admit, onSite, registry, TypeInv, TypeOK, TriesOK, CentralPcs
  <2>4. CASE Refuse(c)
    <3>1. central' = [central EXCEPT ![c] = [central[c] EXCEPT !.status = "refused"]]
      BY <2>4 DEF Refuse
    <3>2. [central[c] EXCEPT !.status = "refused"] \in CentralRequests
      BY <2>r DEF CentralRequests, Statuses
    <3> QED
      BY <2>4, <3>1, <3>2
      DEF Refuse, onSite, registry, store, TypeInv, TypeOK, TriesOK, CentralPcs
  <2>5. ASSUME NEW s \in Statuses, centralPc[c] = "post",
               central' = [central EXCEPT ![c].status = s, ![c].try = @ + 1]
        PROVE  /\ central' \in [CentralWorkers -> CentralRequests]
               /\ \A d \in CentralWorkers \ {c} : central'[d] = central[d]
               /\ central'[c].try = central[c].try + 1
    <3>1. central' =
            [central EXCEPT ![c] = [central[c] EXCEPT !.status = s, !.try = @ + 1]]
      BY <2>5, <2>r DEF CentralRequests, TypeInv, TypeOK
    <3>2. /\ [central[c] EXCEPT !.status = s, !.try = @ + 1] \in CentralRequests
          /\ [central[c] EXCEPT !.status = s, !.try = @ + 1].try = central[c].try + 1
      <4>1. central[c].try + 1 \in 0 .. MaxTries
        BY <2>5, <2>r DEF CentralRequests, TypeInv, TriesOK
      <4> QED
        BY <2>5, <2>r, <4>1 DEF CentralRequests
    <3> QED
      BY <3>1, <3>2 DEF TypeInv, TypeOK
  <2>6. CASE StoreAccepts(c) \/ StoreRefuses(c)
    <3>1. /\ centralPc[c] = "post" /\ centralPc' = [centralPc EXCEPT ![c] = "reply"]
          /\ \E s \in Statuses :
                central' = [central EXCEPT ![c].status = s, ![c].try = @ + 1]
          /\ UNCHANGED <<sender, sends, onSite, abandoned, admitted, counted>>
      BY <2>6 DEF StoreAccepts, StoreRefuses, Statuses, registry, store
    <3>2. /\ copies' \in [Batches -> Nat] /\ refusable' \subseteq Batches
          /\ faults' \in 0 .. MaxFaults
      BY <2>6, <2>r DEF StoreAccepts, StoreRefuses, Fault, registry, store,
                        CentralRequests, TypeInv, TypeOK
    <3> QED
      BY <3>1, <3>2, <2>5 DEF onSite, TypeInv, TypeOK, TriesOK, CentralPcs
  <2>7. CASE \/ \E status \in Statuses : StoreErrs(c, status)
             \/ \E taken, midway \in BOOLEAN : CentralTryFails(c, taken, midway)
    <3>1. copies' \in [Batches -> Nat] /\ faults' \in 0 .. MaxFaults
      <4>1. /\ Fault
            /\ \/ UNCHANGED copies
               \/ copies' = [copies EXCEPT ![central[c].batch] = @ + 1]
        BY <2>7 DEF CentralTryFails, StoreErrs, store
      <4> QED
        BY <2>r, <4>1 DEF Fault, CentralRequests, TypeInv, TypeOK
    <3>2. /\ centralPc[c] = "post"
          /\ \E s \in Statuses :
                central' = [central EXCEPT ![c].status = s, ![c].try = @ + 1]
          /\ \/ centralPc' = centralPc /\ central[c].try + 1 < MaxTries
             \/ centralPc' = [centralPc EXCEPT ![c] = "reply"]
          /\ UNCHANGED <<sender, sends, onSite, abandoned, registry, counted>>
      BY <2>7 DEF CentralTryFails, StoreErrs, store, Statuses
    <3> QED
      BY <3>1, <3>2, <2>5 DEF onSite, registry, TypeInv, TypeOK, TriesOK, CentralPcs
  <2>8. CASE Reply(c)
    <3>1. sitePc' \in [SiteWorkers -> SitePcs] /\ site' \in [SiteWorkers -> SiteRequests]
          /\ \A h \in SiteWorkers : sitePc'[h] = "post" => site'[h].try < MaxTries
      <4>1. CASE central[c].caller = Nobody
        BY <2>8, <4>1 DEF Reply, onSite, TypeInv, TypeOK, TriesOK
      <4>2. CASE central[c].caller # Nobody
        <5>1. PICK h \in SiteWorkers : h = central[c].caller
          BY <4>2, <2>r DEF CentralRequests
        <5>2. \E status \in Statuses, again \in BOOLEAN : Finish(h, status, again)
          BY <2>8, <4>2, <5>1, <2>r DEF Reply, CentralRequests
        <5> QED
          BY <5>2, FinishType DEF TypeInv, TriesOK
      <4> QED
        BY <4>1, <4>2
    <3> QED
      BY <2>8, <3>1, NoRequestType
      DEF Reply, registry, store, TypeInv, TypeOK, TriesOK, CentralPcs
  <2>9. CASE CentralKilled(c)
    <3>1. central[c].caller # Nobody => central[c].caller \in SiteWorkers
      BY <2>r DEF CentralRequests
    <3>2. sitePc' \in [SiteWorkers -> SitePcs] /\ site' \in [SiteWorkers -> SiteRequests]
          /\ \A h \in SiteWorkers : sitePc'[h] = "post" => site'[h].try < MaxTries
      BY <2>9, <3>1, FailedTry DEF CentralKilled, onSite, TypeInv, TypeOK, TriesOK
    <3> QED
      BY <2>9, <3>2, NoRequestType
      DEF CentralKilled, Fault, registry, store, TypeInv, TypeOK, TriesOK, CentralPcs
  <2> QED
    BY <1>5, <2>1, <2>2, <2>3, <2>4, <2>6, <2>7, <2>8, <2>9
    DEF CentralWork, CentralFailure
<1> QED
  BY <1>1, <1>2, <1>3, <1>4, <1>5 DEF Next

(* The model keeps to its types; in particular no worker makes more than   *)
(* MaxTries posts of one request.                                          *)
THEOREM TypeCorrect == Spec => []TypeOK
<1>1. TypeInv => TypeOK
  BY DEF TypeInv
<1> QED
  BY <1>1, TypeInit, TypeStep, PTL DEF Spec

---------------------------------------------------------------------------------
(* Who answers whom. *)

Calls(c, h) == centralPc[c] # "idle" /\ central[c].caller = h

LEMMA MatchInit == Init => AnswersMatchCalls
BY DEF Init, AnswersMatchCalls

(* A step after which each call of the others was one before, and h has no *)
(* call any more, harms nobody.                                            *)
LEMMA Uncalled ==
  ASSUME AnswersMatchCalls, NEW h \in SiteWorkers,
         \A c \in CentralWorkers : ~ Calls(c, h)',
         \A c \in CentralWorkers, g \in SiteWorkers :
             Calls(c, g)' => Calls(c, g) /\ central'[c].batch = central[c].batch,
         \A g \in SiteWorkers \ {h} : sitePc'[g] = sitePc[g] /\ site'[g] = site[g]
  PROVE  AnswersMatchCalls'
BY DEF AnswersMatchCalls, Calls

(* Nor does a step of an inbound worker that keeps its caller and batch. *)
LEMMA SameCalls ==
  ASSUME AnswersMatchCalls, UNCHANGED onSite,
         \A c \in CentralWorkers :
             /\ central'[c].caller = central[c].caller
             /\ central'[c].batch = central[c].batch
             /\ centralPc'[c] # "idle" => centralPc[c] # "idle"
  PROVE  AnswersMatchCalls'
BY DEF AnswersMatchCalls, onSite

LEMMA MatchStep == TypeInv /\ AnswersMatchCalls /\ [Next]_vars => AnswersMatchCalls'
<1> SUFFICES ASSUME TypeInv, AnswersMatchCalls, [Next]_vars PROVE AnswersMatchCalls'
  OBVIOUS
<1>t. /\ sitePc \in [SiteWorkers -> SitePcs] /\ site \in [SiteWorkers -> SiteRequests]
      /\ centralPc \in [CentralWorkers -> CentralPcs]
      /\ central \in [CentralWorkers -> CentralRequests]
  BY DEF TypeInv, TypeOK
<1>n. ASSUME NEW h \in SiteWorkers, sitePc[h] # "served", NEW c \in CentralWorkers
      PROVE  ~ Calls(c, h)
  BY <1>n DEF AnswersMatchCalls, Calls
<1>1. ASSUME UNCHANGED vars PROVE AnswersMatchCalls'
  BY <1>1 DEF vars, onSite, atCentral, AnswersMatchCalls
<1>2. ASSUME NEW b \in Batches, NEW h \in SiteWorkers, Send(b, h)
      PROVE  AnswersMatchCalls'
  BY <1>2, <1>t, <1>n, Uncalled DEF Send, Free, atCentral, Calls
<1>3. ASSUME NEW b \in Batches, RegistryChange(b) PROVE AnswersMatchCalls'
  BY <1>3 DEF RegistryChange, onSite, atCentral, AnswersMatchCalls
<1>4. ASSUME NEW h \in SiteWorkers, SiteWork(h) \/ SiteFailure(h)
      PROVE  AnswersMatchCalls'
  <2>1. CASE PostCentral(h)
    BY <2>1, <1>t, <1>n, Uncalled DEF PostCentral, atCentral, Calls
  <2>2. CASE SiteStarves(h) \/ \E midway \in BOOLEAN : SiteTryFails(h, midway)
    <3>1. /\ Hang(h) /\ (TryAgain(h) \/ Finish(h, "error", FALSE))
          /\ UNCHANGED centralPc
      BY <2>2 DEF SiteStarves, SiteTryFails
    <3>2. \A c \in CentralWorkers : ~ Calls(c, h)'
      BY <3>1, HangType DEF Calls
    <3>3. \A c \in CentralWorkers, g \in SiteWorkers :
            Calls(c, g)' => Calls(c, g) /\ central'[c].batch = central[c].batch
      BY <3>1, HangType DEF Calls
    <3> QED
      BY <3>1, <3>2, <3>3, FailedTry, Uncalled
  <2>3. CASE SiteAnswers(h)
    BY <2>3, <1>t, <1>n, Uncalled DEF SiteAnswers, atCentral, Calls
  <2>4. CASE SenderTimeout(h)
    <3>1. \A g \in SiteWorkers : sitePc'[g] = sitePc[g] /\ site'[g].batch = site[g].batch
      BY <2>4, <1>t DEF SenderTimeout, SiteRequests
    <3> QED
      BY <2>4, <3>1 DEF SenderTimeout, atCentral, AnswersMatchCalls
  <2>5. CASE SiteKilled(h)
    <3>1. /\ Hang(h) /\ UNCHANGED centralPc
          /\ \A g \in SiteWorkers \ {h} : sitePc'[g] = sitePc[g] /\ site'[g] = site[g]
      BY <2>5, <1>t DEF SiteKilled
    <3>2. \A c \in CentralWorkers : ~ Calls(c, h)'
      BY <3>1, HangType DEF Calls
    <3>3. \A c \in CentralWorkers, g \in SiteWorkers :
            Calls(c, g)' => Calls(c, g) /\ central'[c].batch = central[c].batch
      BY <3>1, HangType DEF Calls
    <3> QED
      BY <3>1, <3>2, <3>3, Uncalled
  <2> QED
    BY <1>4, <2>1, <2>2, <2>3, <2>4, <2>5 DEF SiteWork, SiteFailure
<1>5. ASSUME NEW c \in CentralWorkers, CentralWork(c) \/ CentralFailure(c)
      PROVE  AnswersMatchCalls'
  <2>1. ASSUME NEW h \in SiteWorkers, Accept(c, h) PROVE AnswersMatchCalls'
    <3>1. /\ centralPc[c] = "idle" /\ sitePc[h] = "queued" /\ UNCHANGED site
          /\ sitePc' = [sitePc EXCEPT ![h] = "served"]
          /\ centralPc' = [centralPc EXCEPT ![c] = "auth"]
      BY <2>1 DEF Accept, Free
    <3>2. /\ central'[c].caller = h /\ central'[c].batch = site[h].batch
          /\ \A d \in CentralWorkers \ {c} : central'[d] = central[d]
      BY <2>1, <1>t, NoRequestType DEF Accept, CentralRequests
    <3>3. \A d \in CentralWorkers : ~ Calls(d, h)
      BY <3>1, <1>n
    <3> QED
      BY <1>t, <3>1, <3>2, <3>3 DEF AnswersMatchCalls, Calls
  <2>2. ASSUME NEW b \in Batches, AcceptAbandoned(c, b) PROVE AnswersMatchCalls'
    <3>1. /\ UNCHANGED onSite /\ centralPc[c] = "idle"
          /\ centralPc' = [centralPc EXCEPT ![c] = "auth"]
      BY <2>2 DEF AcceptAbandoned, Free
    <3>2. /\ central'[c].caller = Nobody
          /\ \A d \in CentralWorkers \ {c} : central'[d] = central[d]
      BY <2>2, <1>t, NoRequestType DEF AcceptAbandoned, CentralRequests
    <3> QED
      BY <1>t, <3>1, <3>2 DEF AnswersMatchCalls, onSite
  <2>3. CASE Admit(c)
    BY <2>3, <1>t, SameCalls DEF Admit
  <2>4. CASE Refuse(c)
    BY <2>4, <1>t, SameCalls DEF Refuse, CentralRequests
  <2>5. CASE \/ StoreAccepts(c) \/ StoreRefuses(c)
             \/ \E status \in Statuses : StoreErrs(c, status)
             \/ \E taken, midway \in BOOLEAN : CentralTryFails(c, taken, midway)
    <3>1. /\ centralPc[c] = "post" /\ UNCHANGED onSite
          /\ \E s \in Statuses :
                central' = [central EXCEPT ![c].status = s, ![c].try = @ + 1]
          /\ \A d \in CentralWorkers \ {c} : centralPc'[d] = centralPc[d]
      BY <2>5, <1>t DEF StoreAccepts, StoreErrs, StoreRefuses, CentralTryFails, Statuses
    <3>2. \A d \in CentralWorkers :
            central'[d].caller = central[d].caller /\ central'[d].batch = central[d].batch
      BY <3>1, <1>t DEF CentralRequests
    <3> QED
      BY <3>1, <3>2, SameCalls
  <2>6. CASE Reply(c) \/ CentralKilled(c)
    <3>1. /\ centralPc[c] # "idle" /\ centralPc' = [centralPc EXCEPT ![c] = "idle"]
          /\ \A d \in CentralWorkers \ {c} : central'[d] = central[d]
      BY <2>6, <1>t DEF Reply, CentralKilled
    <3>2. \A d \in CentralWorkers, g \in SiteWorkers :
            Calls(d, g)' => d # c /\ Calls(d, g) /\ central'[d].batch = central[d].batch
      BY <3>1, <1>t DEF Calls
    <3>3. CASE central[c].caller = Nobody
      <4>1. UNCHANGED onSite
        BY <2>6, <3>3 DEF Reply, CentralKilled
      <4> QED
        BY <3>2, <4>1 DEF AnswersMatchCalls, Calls, onSite
    <3>4. CASE central[c].caller # Nobody
      <4>1. PICK h \in SiteWorkers : h = central[c].caller
        BY <1>t, <3>4 DEF CentralRequests
      <4>2. Calls(c, h)
        BY <3>1, <4>1 DEF Calls
      <4>3. \A g \in SiteWorkers \ {h} : sitePc'[g] = sitePc[g] /\ site'[g] = site[g]
        BY <2>6, <1>t, <3>4, <4>1, FinishType, FailedTry
        DEF Reply, CentralKilled, CentralRequests
      <4>4. \A d \in CentralWorkers : ~ Calls(d, h)'
        BY <3>2, <4>2 DEF AnswersMatchCalls, Calls
      <4> QED
        BY <3>2, <4>3, <4>4, Uncalled
    <3> QED
      BY <3>3, <3>4
  <2> QED
    BY <1>5, <2>1, <2>2, <2>3, <2>4, <2>5, <2>6 DEF CentralWork, CentralFailure
<1> QED
  BY <1>1, <1>2, <1>3, <1>4, <1>5 DEF Next

(* An answer reaches the call it belongs to, or nobody. *)
THEOREM AnswersMatch == Spec => []AnswersMatchCalls
BY TypeInit, TypeStep, MatchInit, MatchStep, PTL DEF Spec

---------------------------------------------------------------------------------
(* Statuses on their way back. *)

(* What a status claims about a batch. *)
Justified(status, b) ==
    /\ status = "ok" => copies[b] > 0
    /\ status = "refused" => b \in refusable

AnswersJustified ==
    /\ \A c \in CentralWorkers : centralPc[c] = "reply" =>
          Justified(central[c].status, central[c].batch)
    /\ \A h \in SiteWorkers : sitePc[h] = "answer" =>
          Justified(site[h].status, site[h].batch)
    /\ Batches \ admitted \subseteq refusable

StatusInv == AnswersJustified /\ AcceptedMeansStored /\ TransientNeverDrops

LEMMA StatusInit == Init => StatusInv
BY DEF Init, StatusInv, AnswersJustified, AcceptedMeansStored, TransientNeverDrops

(* The store forgets nothing, and no refusal is undone. *)
LEMMA Evidence ==
  ASSUME TypeInv, [Next]_vars
  PROVE  /\ \A b \in Batches : copies[b] > 0 => copies'[b] > 0
         /\ refusable \subseteq refusable'
<1>t. copies \in [Batches -> Nat] /\ central \in [CentralWorkers -> CentralRequests]
  BY DEF TypeInv, TypeOK
<1>1. ASSUME NEW c \in CentralWorkers,
             copies' = [copies EXCEPT ![central[c].batch] = @ + 1]
      PROVE  \A b \in Batches : copies[b] > 0 => copies'[b] > 0
  BY <1>1, <1>t DEF CentralRequests
<1>2. ASSUME NEW c \in CentralWorkers, CentralWork(c) \/ CentralFailure(c)
      PROVE  /\ \A b \in Batches : copies[b] > 0 => copies'[b] > 0
             /\ refusable \subseteq refusable'
  <2>1. /\ copies' = copies \/ copies' = [copies EXCEPT ![central[c].batch] = @ + 1]
        /\ refusable \subseteq refusable'
    BY <1>2 DEF CentralWork, CentralFailure, Accept, AcceptAbandoned, Admit, Refuse,
                StoreAccepts, Reply, StoreErrs, StoreRefuses, CentralKilled,
                CentralTryFails, store, registry
  <2> QED
    BY <1>1, <2>1
<1>3. ASSUME NEW h \in SiteWorkers, SiteWork(h) \/ SiteFailure(h)
      PROVE  UNCHANGED <<copies, refusable>>
  BY <1>3 DEF SiteWork, SiteFailure, PostCentral, SiteStarves, SiteAnswers,
              SenderTimeout, SiteTryFails, SiteKilled, store, registry
<1> QED
  BY <1>2, <1>3 DEF Next, Send, RegistryChange, vars, store, registry

(* A step keeps what is justified justified. *)
LEMMA StaysJustified ==
  ASSUME TypeInv, [Next]_vars, NEW b \in Batches, NEW s, Justified(s, b)
  PROVE  Justified(s, b)'
BY Evidence DEF Justified

LEMMA StatusStep ==
  TypeInv /\ AnswersMatchCalls /\ StatusInv /\ [Next]_vars => StatusInv'
<1> SUFFICES ASSUME TypeInv, AnswersMatchCalls, StatusInv, [Next]_vars
             PROVE  StatusInv'
  OBVIOUS
<1>t. /\ sender \in [Batches -> {"ready", "waiting", "accepted", "dropped"}]
      /\ sitePc \in [SiteWorkers -> SitePcs] /\ site \in [SiteWorkers -> SiteRequests]
      /\ centralPc \in [CentralWorkers -> CentralPcs]
      /\ central \in [CentralWorkers -> CentralRequests]
      /\ copies \in [Batches -> Nat]
  BY DEF TypeInv, TypeOK
<1>e. /\ \A b \in Batches : copies[b] > 0 => copies'[b] > 0
      /\ refusable \subseteq refusable'
  BY Evidence
(* It is enough to look at the statuses a step brings about. *)
<1>s. ASSUME \A c \in CentralWorkers : centralPc'[c] = "reply" =>
                \/ /\ centralPc[c] = "reply" /\ central'[c].status = central[c].status
                   /\ central'[c].batch = central[c].batch
                \/ Justified(central[c].status, central[c].batch)',
             \A h \in SiteWorkers : sitePc'[h] = "answer" =>
                \/ /\ sitePc[h] = "answer" /\ site'[h].status = site[h].status
                   /\ site'[h].batch = site[h].batch
                \/ site'[h].status = "error"
                \/ Justified(site[h].status, site[h].batch)',
             Batches \ admitted' \subseteq refusable',
             \A b \in Batches :
                \/ sender'[b] \in {sender[b], "ready", "waiting"}
                \/ sender'[b] = "accepted" /\ copies'[b] > 0
                \/ sender'[b] = "dropped" /\ b \in refusable'
      PROVE  StatusInv'
  <2>1. AcceptedMeansStored' /\ TransientNeverDrops'
    BY <1>e, <1>s DEF StatusInv, AcceptedMeansStored, TransientNeverDrops
  <2>2. ASSUME NEW c \in CentralWorkers, centralPc'[c] = "reply"
        PROVE  Justified(central[c].status, central[c].batch)'
    <3>1. central[c].batch \in Batches
      BY <1>t DEF CentralRequests
    <3> QED
      BY <1>e, <1>s, <2>2, <3>1 DEF StatusInv, AnswersJustified, Justified
  <2>3. ASSUME NEW h \in SiteWorkers, sitePc'[h] = "answer"
        PROVE  Justified(site[h].status, site[h].batch)'
    <3>1. site[h].batch \in Batches
      BY <1>t DEF SiteRequests
    <3> QED
      BY <1>e, <1>s, <2>3, <3>1 DEF StatusInv, AnswersJustified, Justified
  <2> QED
    BY <1>s, <2>1, <2>2, <2>3 DEF StatusInv, AnswersJustified
<1>1. ASSUME UNCHANGED vars PROVE StatusInv'
  BY <1>1 DEF vars, onSite, atCentral, store, registry, StatusInv, AnswersJustified,
              AcceptedMeansStored, TransientNeverDrops, Justified
<1>2. ASSUME NEW b \in Batches, NEW h \in SiteWorkers, Send(b, h) PROVE StatusInv'
  <2>1. \A g \in SiteWorkers : sitePc'[g] = "answer" =>
           sitePc[g] = "answer" /\ site'[g] = site[g]
    BY <1>2, <1>t DEF Send
  <2> QED
    BY <1>2, <1>s, <1>t, <2>1
    DEF Send, atCentral, registry, StatusInv, AnswersJustified
<1>3. ASSUME NEW b \in Batches, RegistryChange(b) PROVE StatusInv'
  BY <1>3, <1>s DEF RegistryChange, onSite, atCentral, StatusInv, AnswersJustified
<1>4. ASSUME NEW h \in SiteWorkers, SiteWork(h) \/ SiteFailure(h) PROVE StatusInv'
  <2>j. Batches \ admitted \subseteq refusable
    BY DEF StatusInv, AnswersJustified
  <2>1. CASE PostCentral(h)
    <3>1. \A g \in SiteWorkers : sitePc'[g] = "answer" =>
             sitePc[g] = "answer" /\ site'[g] = site[g]
      BY <2>1, <1>t DEF PostCentral
    <3> QED
      BY <2>1, <2>j, <3>1, <1>s DEF PostCentral, atCentral, registry
  <2>2. CASE SiteStarves(h) \/ \E midway \in BOOLEAN : SiteTryFails(h, midway)
    <3>1. /\ Hang(h) /\ (TryAgain(h) \/ Finish(h, "error", FALSE))
          /\ UNCHANGED <<sender, centralPc, registry>>
      BY <2>2 DEF SiteStarves, SiteTryFails
    <3> QED
      BY <2>j, <3>1, <1>s, HangType, FailedTry DEF registry
  <2>3. CASE SiteAnswers(h)
    <3>1. /\ \A g \in SiteWorkers : sitePc'[g] = "answer" =>
                sitePc[g] = "answer" /\ site'[g] = site[g]
          /\ UNCHANGED <<centralPc, central, registry, copies>>
      BY <2>3, <1>t DEF SiteAnswers, atCentral, store
    <3>2. site[h].batch \in Batches /\ Justified(site[h].status, site[h].batch)
      BY <2>3, <1>t DEF SiteAnswers, SiteRequests, StatusInv, AnswersJustified
    <3>3. ASSUME NEW b \in Batches
          PROVE  \/ sender'[b] \in {sender[b], "ready", "waiting"}
                 \/ sender'[b] = "accepted" /\ copies'[b] > 0
                 \/ sender'[b] = "dropped" /\ b \in refusable'
      BY <2>3, <3>1, <3>2, <1>t DEF SiteAnswers, registry, Justified
    <3> QED
      BY <2>j, <3>1, <3>3, <1>s DEF registry
  <2>4. CASE SenderTimeout(h)
    <3>1. \A g \in SiteWorkers :
             /\ sitePc'[g] = sitePc[g]
             /\ site'[g].status = site[g].status /\ site'[g].batch = site[g].batch
      BY <2>4, <1>t DEF SenderTimeout, SiteRequests
    <3> QED
      BY <2>4, <2>j, <3>1, <1>s, <1>t DEF SenderTimeout, atCentral, registry
  <2>5. CASE SiteKilled(h)
    <3>1. /\ Hang(h) /\ UNCHANGED <<centralPc, registry>>
          /\ \A g \in SiteWorkers : sitePc'[g] = "answer" =>
                sitePc[g] = "answer" /\ site'[g] = site[g]
          /\ \A b \in Batches : sender'[b] \in {sender[b], "ready"}
      BY <2>5, <1>t DEF SiteKilled
    <3> QED
      BY <2>j, <3>1, <1>s, HangType DEF registry
  <2> QED
    BY <1>4, <2>1, <2>2, <2>3, <2>4, <2>5 DEF SiteWork, SiteFailure
<1>5. ASSUME NEW c \in CentralWorkers, CentralWork(c) \/ CentralFailure(c)
      PROVE  StatusInv'
  <2>j. /\ Batches \ admitted \subseteq refusable /\ central[c].batch \in Batches
        /\ refusable \subseteq Batches
    BY <1>t DEF StatusInv, AnswersJustified, CentralRequests, TypeInv, TypeOK
  <2>1. ASSUME NEW h \in SiteWorkers, Accept(c, h) PROVE StatusInv'
    <3>1. /\ UNCHANGED <<site, sender, registry>>
          /\ \A g \in SiteWorkers : sitePc'[g] = "answer" => sitePc[g] = "answer"
          /\ \A d \in CentralWorkers : centralPc'[d] = "reply" =>
                centralPc[d] = "reply" /\ central'[d] = central[d]
      BY <2>1, <1>t DEF Accept
    <3> QED
      BY <2>j, <3>1, <1>s DEF registry
  <2>2. CASE (\E b \in Batches : AcceptAbandoned(c, b)) \/ Admit(c)
    <3>1. /\ UNCHANGED <<onSite, sender, registry>>
          /\ \A d \in CentralWorkers : centralPc'[d] = "reply" =>
                centralPc[d] = "reply" /\ central'[d] = central[d]
      BY <2>2, <1>t DEF AcceptAbandoned, Admit
    <3> QED
      BY <2>j, <3>1, <1>s DEF onSite, registry
  <2>3. ASSUME NEW s \in Statuses, Justified(s, central[c].batch)',
               UNCHANGED <<onSite, sender, admitted>>,
               \/ central' = [central EXCEPT ![c].status = s]
               \/ central' = [central EXCEPT ![c].status = s, ![c].try = @ + 1],
               \A d \in CentralWorkers \ {c} : centralPc'[d] = centralPc[d]
        PROVE  StatusInv'
    <3>1. /\ central'[c].status = s /\ central'[c].batch = central[c].batch
          /\ \A d \in CentralWorkers \ {c} : central'[d] = central[d]
      BY <2>3, <1>t DEF CentralRequests
    <3>2. Batches \ admitted' \subseteq refusable'
      BY <2>3, <2>j, <1>e
    <3> QED
      BY <2>3, <3>1, <3>2, <1>s DEF onSite, Justified
  <2>4. CASE Refuse(c)
    BY <2>4, <2>j, <2>3, <1>t DEF Refuse, registry, Justified, Statuses
  <2>5. CASE StoreAccepts(c)
    BY <2>5, <2>j, <2>3, <1>t DEF StoreAccepts, registry, Justified, Statuses
  <2>6. ASSUME NEW status \in Statuses, StoreErrs(c, status) PROVE StatusInv'
    BY <2>6, <2>3, <1>t DEF StoreErrs, registry, Justified, Statuses
  <2>7. CASE StoreRefuses(c)
    BY <2>7, <2>j, <2>3, <1>t DEF StoreRefuses, Justified, Statuses
  <2>8. ASSUME NEW taken \in BOOLEAN, NEW midway \in BOOLEAN,
               CentralTryFails(c, taken, midway)
        PROVE  StatusInv'
    BY <2>8, <2>3, <1>t DEF CentralTryFails, registry, Justified, Statuses
  <2>9. CASE Reply(c) \/ CentralKilled(c)
    <3>1. /\ UNCHANGED <<sender, registry, copies>>
          /\ \A d \in CentralWorkers : centralPc'[d] = "reply" =>
                centralPc[d] = "reply" /\ central'[d] = central[d]
      BY <2>9, <1>t DEF Reply, CentralKilled, store
    <3>2. ASSUME NEW h \in SiteWorkers, sitePc'[h] = "answer"
          PROVE  \/ /\ sitePc[h] = "answer" /\ site'[h].status = site[h].status
                    /\ site'[h].batch = site[h].batch
                 \/ site'[h].status = "error"
                 \/ Justified(site[h].status, site[h].batch)'
      <4>1. CASE central[c].caller # h
        <5>1. sitePc'[h] = sitePc[h] /\ site'[h] = site[h]
          <6>1. CASE central[c].caller = Nobody
            BY <2>9, <6>1 DEF Reply, CentralKilled, onSite
          <6>2. CASE central[c].caller # Nobody
            <7>1. central[c].caller \in SiteWorkers /\ central[c].status \in Statuses
              BY <6>2, <1>t DEF CentralRequests
            <7>2. \/ \E status \in Statuses, again \in BOOLEAN :
                        Finish(central[c].caller, status, again)
                  \/ TryAgain(central[c].caller)
              BY <2>9, <6>2, <7>1 DEF Reply, CentralKilled
            <7>3. h \in SiteWorkers \ {central[c].caller}
              BY <4>1
            <7>4. CASE TryAgain(central[c].caller)
              BY <7>1, <7>3, <7>4, FailedTry
            <7>5. CASE \E status \in Statuses, again \in BOOLEAN :
                          Finish(central[c].caller, status, again)
              BY <7>1, <7>3, <7>5, FinishType
            <7> QED
              BY <7>2, <7>4, <7>5
          <6> QED
            BY <6>1, <6>2
        <5> QED
          BY <3>2, <5>1
      <4>2. CASE central[c].caller = h
        <5>1. h # Nobody
          OBVIOUS
        <5>2. CASE CentralKilled(c)
          BY <3>2, <4>2, <5>1, <5>2, FailedTry DEF CentralKilled
        <5>3. CASE Reply(c)
          <6>1. Justified(central[c].status, central[c].batch)
            BY <5>3 DEF Reply, StatusInv, AnswersJustified
          <6>2. site[h].batch = central[c].batch
            BY <4>2, <5>3 DEF Reply, AnswersMatchCalls
          <6>3. site'[h].status = central[c].status /\ site'[h].batch = site[h].batch
            <7>1. Finish(h, central[c].status, central[c].status = "later")
              BY <4>2, <5>1, <5>3 DEF Reply
            <7>2. central[c].status \in Statuses
              BY <1>t DEF CentralRequests
            <7> QED
              BY <3>2, <7>1, <7>2, FinishType
          <6> QED
            BY <3>1, <6>1, <6>2, <6>3 DEF Justified, registry
        <5> QED
          BY <2>9, <5>2, <5>3
      <4> QED
        BY <4>1, <4>2
    <3> QED
      BY <2>j, <3>1, <3>2, <1>s DEF registry
  <2> QED
    BY <1>5, <2>1, <2>2, <2>4, <2>5, <2>6, <2>7, <2>8, <2>9
    DEF CentralWork, CentralFailure
<1> QED
  BY <1>1, <1>2, <1>3, <1>4, <1>5 DEF Next

LEMMA DeliveryInv == Spec => [](TypeInv /\ AnswersMatchCalls /\ StatusInv)
BY TypeInit, TypeStep, MatchInit, MatchStep, StatusInit, StatusStep, PTL DEF Spec

(* What the sender is told to be delivered is in the store. *)
THEOREM AcceptedIsStored == Spec => []AcceptedMeansStored
<1>1. StatusInv => AcceptedMeansStored
  BY DEF StatusInv
<1> QED
  BY <1>1, DeliveryInv, PTL

(* What the sender drops for good was refused, by registry or store. *)
THEOREM DroppedWasRefused == Spec => []TransientNeverDrops
<1>1. StatusInv => TransientNeverDrops
  BY DEF StatusInv
<1> QED
  BY <1>1, DeliveryInv, PTL

---------------------------------------------------------------------------------
(* Retries are paid for.  A send brings MaxTries posts to the central      *)
(* proxy, each of which is still to be made, waits, is being checked, or   *)
(* is counted; a counted call brings MaxTries posts to the store.          *)

CallsLeft(b) ==
    {p \in SiteWorkers \X (1 .. MaxTries) :
        /\ sitePc[p[1]] # "idle" /\ site[p[1]].batch = b
        /\ \/ p[2] > site[p[1]].try
           \/ p[2] = site[p[1]].try /\ sitePc[p[1]] = "queued"}

Unchecked(b) ==
    {c \in CentralWorkers : centralPc[c] = "auth" /\ central[c].batch = b}

PostsLeft(b) ==
    {p \in CentralWorkers \X (1 .. MaxTries) :
        centralPc[p[1]] = "post" /\ central[p[1]].batch = b /\ p[2] > central[p[1]].try}

QueuedOnce == \A h \in SiteWorkers : sitePc[h] = "queued" => site[h].try > 0

CallsPaid(b) ==
    /\ IsFiniteSet(CallsLeft(b)) /\ IsFiniteSet(Unchecked(b))
    /\ counted[b] + abandoned[b] + Cardinality(Unchecked(b)) + Cardinality(CallsLeft(b))
          <= sends[b] * MaxTries

CopiesPaid(b) ==
    /\ IsFiniteSet(PostsLeft(b))
    /\ copies[b] + Cardinality(PostsLeft(b)) <= counted[b] * MaxTries

RetryInv == QueuedOnce /\ \A b \in Batches : CallsPaid(b) /\ CopiesPaid(b)

(* A set that loses or gains an element, or a worker's tries. *)
LEMMA Shrinks ==
  ASSUME NEW S, IsFiniteSet(S), NEW T, T \subseteq S
  PROVE  /\ IsFiniteSet(T) /\ Cardinality(T) \in Nat /\ Cardinality(S) \in Nat
         /\ Cardinality(T) <= Cardinality(S)
BY FS_Subset, FS_CardinalityType

LEMMA Loses ==
  ASSUME NEW S, IsFiniteSet(S), NEW x \in S, NEW T, T \subseteq S \ {x}
  PROVE  /\ IsFiniteSet(T) /\ Cardinality(T) \in Nat /\ Cardinality(S) \in Nat
         /\ Cardinality(T) + 1 <= Cardinality(S)
<1>1. IsFiniteSet(S \ {x}) /\ Cardinality(S \ {x}) = Cardinality(S) - 1
  BY FS_RemoveElement
<1> QED
  BY <1>1, Shrinks, FS_CardinalityType

LEMMA Gains ==
  ASSUME NEW S, IsFiniteSet(S), NEW x, NEW T, T \subseteq S \cup {x}
  PROVE  /\ IsFiniteSet(T) /\ Cardinality(T) \in Nat /\ Cardinality(S) \in Nat
         /\ Cardinality(T) <= Cardinality(S) + 1
<1>1. Cardinality(S) \in Nat
  BY FS_CardinalityType
<1>2. /\ IsFiniteSet(S \cup {x})
      /\ Cardinality(S \cup {x}) = IF x \in S THEN Cardinality(S) ELSE Cardinality(S) + 1
  BY FS_AddElement
<1> QED
  BY <1>1, <1>2, Shrinks

LEMMA GainsTries ==
  ASSUME NEW S, IsFiniteSet(S), NEW w, NEW T, T \subseteq S \cup ({w} \X (1 .. MaxTries))
  PROVE  /\ IsFiniteSet(T) /\ Cardinality(T) \in Nat /\ Cardinality(S) \in Nat
         /\ Cardinality(T) <= Cardinality(S) + MaxTries
<1> DEFINE W == {w} \X (1 .. MaxTries)
<1>3. IsFiniteSet(W) /\ Cardinality(W) = MaxTries
  <2> DEFINE I == 1 .. MaxTries
             J == {w}
  <2>1. IsFiniteSet(I) /\ Cardinality(I) = MaxTries
    BY FS_Interval
  <2>2. IsFiniteSet(J) /\ Cardinality(J) = 1
    BY FS_Singleton
  <2>3. W = J \X I
    OBVIOUS
  <2> HIDE DEF I, J, W
  <2>4. IsFiniteSet(J \X I) /\ Cardinality(J \X I) = Cardinality(J) * Cardinality(I)
    BY <2>1, <2>2, FS_Product
  <2> QED BY <2>1, <2>2, <2>3, <2>4
<1> HIDE DEF W
<1>4. /\ IsFiniteSet(S \cup W)
      /\ Cardinality(S \cup W) = Cardinality(S) + MaxTries - Cardinality(S \cap W)
  BY <1>3, FS_Union
<1>5. Cardinality(S \cap W) \in Nat /\ Cardinality(S) \in Nat
  BY FS_Intersection, FS_CardinalityType
<1>6. T \subseteq S \cup W
  BY DEF W
<1> QED
  BY <1>4, <1>5, <1>6, Shrinks

(* A step that brings a batch neither calls nor copies. *)
LEMMA CallsKept ==
  ASSUME TypeInv, TypeInv', NEW b \in Batches, CallsPaid(b),
         CallsLeft(b)' \subseteq CallsLeft(b), Unchecked(b)' \subseteq Unchecked(b),
         counted'[b] = counted[b], abandoned'[b] = abandoned[b], sends'[b] = sends[b]
  PROVE  CallsPaid(b)'
<1>1. /\ IsFiniteSet(CallsLeft(b)') /\ IsFiniteSet(Unchecked(b)')
      /\ Cardinality(CallsLeft(b)') <= Cardinality(CallsLeft(b))
      /\ Cardinality(Unchecked(b)') <= Cardinality(Unchecked(b))
      /\ Cardinality(CallsLeft(b)') \in Nat /\ Cardinality(CallsLeft(b)) \in Nat
      /\ Cardinality(Unchecked(b)') \in Nat /\ Cardinality(Unchecked(b)) \in Nat
  BY Shrinks DEF CallsPaid
<1>2. /\ counted[b] \in Nat /\ abandoned[b] \in Nat /\ sends[b] * MaxTries \in Nat
  BY DEF TypeInv, TypeOK
<1> HIDE DEF TypeInv, CallsLeft, Unchecked
<1> QED
  BY <1>1, <1>2 DEF CallsPaid

LEMMA CopiesKept ==
  ASSUME TypeInv, TypeInv', NEW b \in Batches, CopiesPaid(b),
         PostsLeft(b)' \subseteq PostsLeft(b),
         counted'[b] = counted[b], copies'[b] = copies[b]
  PROVE  CopiesPaid(b)'
<1>1. /\ IsFiniteSet(PostsLeft(b)')
      /\ Cardinality(PostsLeft(b)') <= Cardinality(PostsLeft(b))
      /\ Cardinality(PostsLeft(b)') \in Nat /\ Cardinality(PostsLeft(b)) \in Nat
  BY Shrinks DEF CopiesPaid
<1>2. copies[b] \in Nat /\ counted[b] * MaxTries \in Nat
  BY DEF TypeInv, TypeOK
<1> QED
  BY <1>1, <1>2 DEF CopiesPaid

LEMMA RetryInit == Init => RetryInv
<1> SUFFICES ASSUME Init PROVE RetryInv
  OBVIOUS
<1>1. ASSUME NEW b \in Batches PROVE CallsPaid(b) /\ CopiesPaid(b)
  <2>1. CallsLeft(b) = {} /\ Unchecked(b) = {} /\ PostsLeft(b) = {}
    BY DEF Init, CallsLeft, Unchecked, PostsLeft
  <2>2. counted[b] = 0 /\ abandoned[b] = 0 /\ sends[b] = 0 /\ copies[b] = 0
    BY DEF Init
  <2> QED BY <2>1, <2>2, FS_EmptySet DEF CallsPaid, CopiesPaid
<1> QED
  BY <1>1 DEF RetryInv, QueuedOnce, Init

(* A post that is given up while it waits becomes an abandoned call. *)
LEMMA HangCalls ==
  ASSUME TypeInv, TypeInv', QueuedOnce, NEW h \in SiteWorkers, NEW b \in Batches,
         CallsPaid(b), Hang(h), UNCHANGED <<centralPc, counted, sends>>,
         \A g \in SiteWorkers \ {h} : sitePc'[g] = sitePc[g] /\ site'[g] = site[g],
         \/ sitePc'[h] = "idle"
         \/ /\ sitePc[h] # "idle" /\ sitePc'[h] \in {"post", "answer"}
            /\ site'[h].batch = site[h].batch /\ site'[h].try = site[h].try
  PROVE  CallsPaid(b)'
<1>1. Unchecked(b)' \subseteq Unchecked(b)
  BY HangType DEF Unchecked
<1>2. CallsLeft(b)' \subseteq CallsLeft(b)
  <2> SUFFICES ASSUME NEW p \in CallsLeft(b)' PROVE p \in CallsLeft(b)
    OBVIOUS
  <2>1. CASE p[1] = h
    BY <2>1 DEF CallsLeft
  <2>2. CASE p[1] # h
    BY <2>2 DEF CallsLeft
  <2> QED BY <2>1, <2>2
<1>3. CASE sitePc[h] = "queued" /\ site[h].batch = b
  <2> DEFINE p == <<h, site[h].try>>
  <2>1. site[h].try \in 1 .. MaxTries
    BY <1>3 DEF QueuedOnce, TypeInv, TypeOK, SiteRequests
  <2>2. p \in CallsLeft(b) /\ p \notin CallsLeft(b)'
    BY <1>3, <2>1 DEF CallsLeft
  <2>3. abandoned'[b] = abandoned[b] + 1
    BY <1>3 DEF Hang, TypeInv, TypeOK
  <2>4. CallsLeft(b)' \subseteq CallsLeft(b) \ {p}
    BY <1>2, <2>2
  <2>5. IsFiniteSet(CallsLeft(b)) /\ p \in CallsLeft(b)
    BY <2>2 DEF CallsPaid
  <2> HIDE DEF p
  <2>6. /\ IsFiniteSet(CallsLeft(b)')
        /\ Cardinality(CallsLeft(b)') + 1 <= Cardinality(CallsLeft(b))
        /\ Cardinality(CallsLeft(b)') \in Nat /\ Cardinality(CallsLeft(b)) \in Nat
    BY <2>4, <2>5, Loses
  <2>7. /\ IsFiniteSet(Unchecked(b)')
        /\ Cardinality(Unchecked(b)') <= Cardinality(Unchecked(b))
        /\ Cardinality(Unchecked(b)') \in Nat /\ Cardinality(Unchecked(b)) \in Nat
    BY <1>1, Shrinks DEF CallsPaid
  <2>8. counted[b] \in Nat /\ abandoned[b] \in Nat /\ sends[b] * MaxTries \in Nat
    BY DEF TypeInv, TypeOK
  <2> QED BY <2>3, <2>6, <2>7, <2>8 DEF CallsPaid
<1>4. CASE ~(sitePc[h] = "queued" /\ site[h].batch = b)
  <2>1. abandoned'[b] = abandoned[b]
    BY <1>4 DEF Hang, TypeInv, TypeOK, SiteRequests
  <2> QED BY <1>1, <1>2, <2>1, CallsKept
<1> QED
  BY <1>3, <1>4

LEMMA SiteCalls ==
  ASSUME TypeInv, TypeInv', QueuedOnce, NEW h \in SiteWorkers, NEW b \in Batches,
         CallsPaid(b), SiteWork(h) \/ SiteFailure(h)
  PROVE  CallsPaid(b)'
<1>t. /\ sitePc \in [SiteWorkers -> SitePcs] /\ site \in [SiteWorkers -> SiteRequests]
      /\ site[h] \in SiteRequests
  BY DEF TypeInv, TypeOK
<1>1. CASE PostCentral(h)
  <2>1. /\ sitePc[h] = "post" /\ sitePc'[h] = "queued"
        /\ site'[h].batch = site[h].batch /\ site'[h].try = site[h].try + 1
        /\ \A g \in SiteWorkers \ {h} : sitePc'[g] = sitePc[g] /\ site'[g] = site[g]
    BY <1>1, <1>t DEF PostCentral, SiteRequests
  <2>2. site[h].try \in Nat
    BY <1>t DEF SiteRequests
  <2>3. CallsLeft(b)' \subseteq CallsLeft(b)
    <3> SUFFICES ASSUME NEW p \in CallsLeft(b)' PROVE p \in CallsLeft(b)
      OBVIOUS
    <3>1. CASE p[1] = h
      BY <2>1, <2>2, <3>1 DEF CallsLeft
    <3>2. CASE p[1] # h
      BY <2>1, <3>2 DEF CallsLeft
    <3> QED BY <3>1, <3>2
  <2> QED
    BY <1>1, <2>3, CallsKept DEF PostCentral, atCentral, store, Unchecked
<1>2. CASE SiteStarves(h) \/ \E midway \in BOOLEAN : SiteTryFails(h, midway)
  <2>1. /\ Hang(h) /\ (TryAgain(h) \/ Finish(h, "error", FALSE)) /\ sitePc[h] # "idle"
        /\ UNCHANGED <<sends, centralPc, counted>>
    BY <1>2 DEF SiteStarves, SiteTryFails, store
  <2> QED
    BY <2>1, FailedTry, HangCalls
<1>3. CASE SiteAnswers(h)
  <2>1. /\ sitePc'[h] = "idle" /\ UNCHANGED <<sends, atCentral, abandoned, counted>>
        /\ \A g \in SiteWorkers \ {h} : sitePc'[g] = sitePc[g] /\ site'[g] = site[g]
    BY <1>3, <1>t DEF SiteAnswers, store
  <2>2. CallsLeft(b)' \subseteq CallsLeft(b)
    <3> SUFFICES ASSUME NEW p \in CallsLeft(b)' PROVE p \in CallsLeft(b)
      OBVIOUS
    <3> QED BY <2>1 DEF CallsLeft
  <2> QED
    BY <2>1, <2>2, CallsKept DEF atCentral, Unchecked
<1>4. CASE SenderTimeout(h)
  <2>1. /\ \A g \in SiteWorkers : /\ sitePc'[g] = sitePc[g]
                                  /\ site'[g].batch = site[g].batch
                                  /\ site'[g].try = site[g].try
        /\ UNCHANGED <<sends, atCentral, abandoned, counted>>
    BY <1>4, <1>t DEF SenderTimeout, SiteRequests, store
  <2>2. CallsLeft(b)' \subseteq CallsLeft(b)
    BY <2>1 DEF CallsLeft
  <2> QED
    BY <2>1, <2>2, CallsKept DEF atCentral, Unchecked
<1>5. CASE SiteKilled(h)
  <2>1. /\ Hang(h) /\ sitePc'[h] = "idle" /\ UNCHANGED <<sends, centralPc, counted>>
        /\ \A g \in SiteWorkers \ {h} : sitePc'[g] = sitePc[g] /\ site'[g] = site[g]
    BY <1>5, <1>t DEF SiteKilled, store
  <2> QED
    BY <2>1, HangCalls
<1> QED
  BY <1>1, <1>2, <1>3, <1>4, <1>5 DEF SiteWork, SiteFailure

LEMMA SendCalls ==
  ASSUME TypeInv, TypeInv', NEW h \in SiteWorkers, NEW b \in Batches, NEW c \in Batches,
         CallsPaid(b), Send(c, h)
  PROVE  CallsPaid(b)'
<1>1. /\ sitePc[h] = "idle" /\ sitePc'[h] = "post"
      /\ site'[h].batch = c /\ UNCHANGED <<atCentral, abandoned, counted>>
      /\ \A g \in SiteWorkers \ {h} : sitePc'[g] = sitePc[g] /\ site'[g] = site[g]
      /\ sends' = [sends EXCEPT ![c] = @ + 1]
  <2>1. site'[h] = [NoRequest EXCEPT !.batch = c, !.client = TRUE]
    BY DEF Send, TypeInv, TypeOK
  <2>2. site'[h].batch = c
    BY <2>1 DEF NoRequest
  <2> QED BY <2>2 DEF Send, Free, TypeInv, TypeOK, store
<1>2. Unchecked(b)' = Unchecked(b)
  BY <1>1 DEF atCentral, Unchecked
<1>3. CASE b = c
  <2>1. CallsLeft(b)' \subseteq CallsLeft(b) \cup ({h} \X (1 .. MaxTries))
    <3> SUFFICES ASSUME NEW p \in CallsLeft(b)', p[1] # h PROVE p \in CallsLeft(b)
      BY DEF CallsLeft
    <3> QED BY <1>1 DEF CallsLeft
  <2>2. /\ IsFiniteSet(CallsLeft(b)')
        /\ Cardinality(CallsLeft(b)') <= Cardinality(CallsLeft(b)) + MaxTries
        /\ Cardinality(CallsLeft(b)') \in Nat /\ Cardinality(CallsLeft(b)) \in Nat
    BY <2>1, GainsTries DEF CallsPaid
  <2>3. Cardinality(Unchecked(b)) \in Nat
    BY FS_CardinalityType DEF CallsPaid
  <2>4. sends[b] \in Nat /\ sends'[b] = sends[b] + 1
    BY <1>1, <1>3 DEF TypeInv, TypeOK
  <2>5. sends'[b] * MaxTries = sends[b] * MaxTries + MaxTries /\ sends[b] * MaxTries \in Nat
    BY <2>4
  <2>6. /\ counted[b] \in Nat /\ abandoned[b] \in Nat
        /\ counted'[b] = counted[b] /\ abandoned'[b] = abandoned[b]
    BY <1>1 DEF TypeInv, TypeOK
  <2> QED BY <1>2, <2>2, <2>3, <2>5, <2>6 DEF CallsPaid
<1>4. CASE b # c
  <2>1. CallsLeft(b)' \subseteq CallsLeft(b)
    <3> SUFFICES ASSUME NEW p \in CallsLeft(b)' PROVE p \in CallsLeft(b)
      OBVIOUS
    <3> QED BY <1>1, <1>4 DEF CallsLeft
  <2>2. sends'[b] = sends[b]
    BY <1>1, <1>4 DEF TypeInv, TypeOK
  <2> QED BY <1>1, <1>2, <2>1, <2>2, CallsKept
<1> QED
  BY <1>3, <1>4

(* Whoever gets an answer waits for it, and has no more posts left then. *)
LEMMA AnsweredCalls ==
  ASSUME TypeInv, AnswersMatchCalls, NEW b \in Batches, NEW c \in CentralWorkers,
         Reply(c) \/ CentralKilled(c)
  PROVE  CallsLeft(b)' \subseteq CallsLeft(b)
<1>t. central[c] \in CentralRequests
  BY DEF TypeInv, TypeOK
<1>1. CASE central[c].caller = Nobody
  BY <1>1 DEF Reply, CentralKilled, onSite, CallsLeft
<1>2. CASE central[c].caller # Nobody
  <2>1. PICK h \in SiteWorkers : h = central[c].caller
    BY <1>2, <1>t DEF CentralRequests
  <2>2. sitePc[h] = "served"
    BY <2>1 DEF Reply, CentralKilled, AnswersMatchCalls
  <2>3. /\ \A g \in SiteWorkers \ {h} : sitePc'[g] = sitePc[g] /\ site'[g] = site[g]
        /\ sitePc'[h] \in {"post", "answer"}
        /\ site'[h].batch = site[h].batch /\ site'[h].try = site[h].try
    <3>1. CASE Reply(c)
      <4>1. Finish(h, central[c].status, central[c].status = "later")
        BY <1>2, <2>1, <3>1 DEF Reply
      <4>2. central[c].status \in Statuses
        BY <1>t DEF CentralRequests
      <4> QED BY <4>1, <4>2, FinishType
    <3>2. CASE CentralKilled(c)
      <4>1. TryAgain(h)
        BY <1>2, <2>1, <3>2 DEF CentralKilled
      <4> QED BY <4>1, FailedTry
    <3> QED BY <3>1, <3>2
  <2> SUFFICES ASSUME NEW p \in CallsLeft(b)' PROVE p \in CallsLeft(b)
    OBVIOUS
  <2>5. CASE p[1] = h
    BY <2>2, <2>3, <2>5 DEF CallsLeft
  <2>6. CASE p[1] # h
    BY <2>3, <2>6 DEF CallsLeft
  <2> QED BY <2>5, <2>6
<1> QED
  BY <1>1, <1>2

LEMMA CentralCalls ==
  ASSUME TypeInv, TypeInv', QueuedOnce, AnswersMatchCalls,
         NEW b \in Batches, NEW c \in CentralWorkers,
         CallsPaid(b), CentralWork(c) \/ CentralFailure(c)
  PROVE  CallsPaid(b)'
<1>t. /\ centralPc \in [CentralWorkers -> CentralPcs]
      /\ central \in [CentralWorkers -> CentralRequests]
      /\ central[c] \in CentralRequests
      /\ sitePc \in [SiteWorkers -> SitePcs]
  BY DEF TypeInv, TypeOK
<1>n. /\ counted[b] \in Nat /\ abandoned[b] \in Nat /\ sends[b] * MaxTries \in Nat
      /\ Cardinality(Unchecked(b)) \in Nat /\ Cardinality(CallsLeft(b)) \in Nat
      /\ IsFiniteSet(Unchecked(b)) /\ IsFiniteSet(CallsLeft(b))
  <2>1. counted[b] \in Nat /\ abandoned[b] \in Nat /\ sends[b] * MaxTries \in Nat
    BY DEF TypeInv, TypeOK
  <2>2. IsFiniteSet(Unchecked(b)) /\ IsFiniteSet(CallsLeft(b))
    BY DEF CallsPaid
  <2> HIDE DEF TypeInv, Unchecked, CallsLeft
  <2> QED BY <2>1, <2>2, FS_CardinalityType
<1>1. ASSUME NEW h \in SiteWorkers, Accept(c, h) PROVE CallsPaid(b)'
  <2>1. /\ sitePc[h] = "queued" /\ sitePc' = [sitePc EXCEPT ![h] = "served"]
        /\ central'[c].batch = site[h].batch
        /\ \A d \in CentralWorkers \ {c} :
              central'[d] = central[d] /\ centralPc'[d] = centralPc[d]
        /\ UNCHANGED <<site, sends, abandoned, counted>>
    <3>1. central'[c] = [NoCall EXCEPT !.batch = site[h].batch, !.caller = h]
      BY <1>1, <1>t DEF Accept
    <3>2. central'[c].batch = site[h].batch
      BY <3>1 DEF NoCall
    <3> QED BY <1>1, <1>t, <3>2 DEF Accept, store
  <2>2. CallsLeft(b)' \subseteq CallsLeft(b)
    <3> SUFFICES ASSUME NEW p \in CallsLeft(b)' PROVE p \in CallsLeft(b)
      OBVIOUS
    <3> QED BY <1>t, <2>1 DEF CallsLeft
  <2>3. CASE site[h].batch = b
    <3> DEFINE p == <<h, site[h].try>>
    <3>1. site[h].try \in 1 .. MaxTries
      BY <2>1 DEF QueuedOnce, TypeInv, TypeOK, SiteRequests
    <3>2. p \in CallsLeft(b) /\ p \notin CallsLeft(b)'
      BY <1>t, <2>1, <2>3, <3>1 DEF CallsLeft
    <3> HIDE DEF p
    <3>3. /\ IsFiniteSet(CallsLeft(b)') /\ Cardinality(CallsLeft(b)') \in Nat
          /\ Cardinality(CallsLeft(b)') + 1 <= Cardinality(CallsLeft(b))
      BY <1>n, <2>2, <3>2, Loses
    <3>4. Unchecked(b)' \subseteq Unchecked(b) \cup {c}
      BY <2>1 DEF Unchecked
    <3>5. /\ IsFiniteSet(Unchecked(b)') /\ Cardinality(Unchecked(b)') \in Nat
          /\ Cardinality(Unchecked(b)') <= Cardinality(Unchecked(b)) + 1
      BY <1>n, <3>4, Gains
    <3> QED BY <1>n, <2>1, <3>3, <3>5 DEF CallsPaid
  <2>4. CASE site[h].batch # b
    <3>1. Unchecked(b)' \subseteq Unchecked(b)
      BY <2>1, <2>4 DEF Unchecked
    <3> QED BY <2>1, <2>2, <3>1, CallsKept
  <2> QED BY <2>3, <2>4
<1>2. ASSUME NEW a \in Batches, AcceptAbandoned(c, a) PROVE CallsPaid(b)'
  <2>1. /\ central'[c].batch = a /\ abandoned[a] > 0
        /\ abandoned' = [abandoned EXCEPT ![a] = @ - 1]
        /\ \A d \in CentralWorkers \ {c} :
              central'[d] = central[d] /\ centralPc'[d] = centralPc[d]
        /\ UNCHANGED <<onSite, sends, counted>>
    <3>1. central'[c] = [NoCall EXCEPT !.batch = a]
      BY <1>2, <1>t DEF AcceptAbandoned
    <3>2. central'[c].batch = a
      BY <3>1 DEF NoCall
    <3> QED BY <1>2, <1>t, <3>2 DEF AcceptAbandoned, store
  <2>2. CallsLeft(b)' = CallsLeft(b)
    BY <2>1 DEF onSite, CallsLeft
  <2>3. CASE a = b
    <3>1. Unchecked(b)' \subseteq Unchecked(b) \cup {c}
      BY <2>1 DEF Unchecked
    <3>2. /\ IsFiniteSet(Unchecked(b)') /\ Cardinality(Unchecked(b)') \in Nat
          /\ Cardinality(Unchecked(b)') <= Cardinality(Unchecked(b)) + 1
      BY <1>n, <3>1, Gains
    <3>3. abandoned'[b] = abandoned[b] - 1
      BY <2>1, <2>3 DEF TypeInv, TypeOK
    <3> QED BY <1>n, <2>1, <2>2, <3>2, <3>3 DEF CallsPaid
  <2>4. CASE a # b
    <3>1. Unchecked(b)' \subseteq Unchecked(b) /\ abandoned'[b] = abandoned[b]
      BY <2>1, <2>4 DEF Unchecked, TypeInv, TypeOK
    <3> QED BY <2>1, <2>2, <3>1, CallsKept
  <2> QED BY <2>3, <2>4
<1>3. CASE Admit(c)
  <2>1. /\ centralPc[c] = "auth" /\ centralPc'[c] = "post"
        /\ \A d \in CentralWorkers \ {c} : centralPc'[d] = centralPc[d]
        /\ counted' = [counted EXCEPT ![central[c].batch] = @ + 1]
        /\ UNCHANGED <<central, onSite, sends, abandoned>>
    BY <1>3, <1>t DEF Admit
  <2>2. CallsLeft(b)' = CallsLeft(b)
    BY <2>1 DEF onSite, CallsLeft
  <2>3. CASE central[c].batch = b
    <3>1. c \in Unchecked(b) /\ Unchecked(b)' \subseteq Unchecked(b) \ {c}
      BY <2>1, <2>3 DEF Unchecked
    <3>2. /\ IsFiniteSet(Unchecked(b)') /\ Cardinality(Unchecked(b)') \in Nat
          /\ Cardinality(Unchecked(b)') + 1 <= Cardinality(Unchecked(b))
      BY <1>n, <3>1, Loses
    <3>3. counted'[b] = counted[b] + 1
      BY <2>1, <2>3 DEF TypeInv, TypeOK
    <3> QED BY <1>n, <2>1, <2>2, <3>2, <3>3 DEF CallsPaid
  <2>4. CASE central[c].batch # b
    <3>1. Unchecked(b)' \subseteq Unchecked(b) /\ counted'[b] = counted[b]
      BY <2>1, <2>4 DEF Unchecked, TypeInv, TypeOK
    <3> QED BY <2>1, <2>2, <3>1, CallsKept
  <2> QED BY <2>3, <2>4
<1>4. ASSUME CallsLeft(b)' \subseteq CallsLeft(b), centralPc'[c] # "auth",
             UNCHANGED <<sends, counted, abandoned>>,
             \A d \in CentralWorkers \ {c} :
                central'[d] = central[d] /\ centralPc'[d] = centralPc[d]
      PROVE  CallsPaid(b)'
  <2>1. Unchecked(b)' \subseteq Unchecked(b)
    BY <1>4 DEF Unchecked
  <2> QED BY <1>4, <2>1, CallsKept
<1>5. CASE Reply(c) \/ CentralKilled(c)
  <2>1. /\ centralPc'[c] # "auth" /\ UNCHANGED <<sends, counted, abandoned>>
        /\ \A d \in CentralWorkers \ {c} :
              central'[d] = central[d] /\ centralPc'[d] = centralPc[d]
    BY <1>5, <1>t DEF Reply, CentralKilled, store
  <2> QED BY <1>4, <1>5, <2>1, AnsweredCalls
<1>6. CASE \/ Refuse(c) \/ StoreAccepts(c) \/ StoreRefuses(c)
           \/ \E status \in Statuses : StoreErrs(c, status)
           \/ \E taken, midway \in BOOLEAN : CentralTryFails(c, taken, midway)
  <2>1. /\ centralPc'[c] # "auth" /\ UNCHANGED <<onSite, sends, counted, abandoned>>
        /\ \A d \in CentralWorkers \ {c} :
              central'[d] = central[d] /\ centralPc'[d] = centralPc[d]
    BY <1>6, <1>t
    DEF Refuse, StoreAccepts, StoreRefuses, StoreErrs, CentralTryFails, store
  <2>2. CallsLeft(b)' = CallsLeft(b)
    BY <2>1 DEF onSite, CallsLeft
  <2> QED BY <1>4, <2>1, <2>2
<1> QED
  BY <1>1, <1>2, <1>3, <1>5, <1>6 DEF CentralWork, CentralFailure

LEMMA CallsStep ==
  ASSUME TypeInv, TypeInv', AnswersMatchCalls, RetryInv, [Next]_vars, NEW b \in Batches
  PROVE  CallsPaid(b)'
<1>1. QueuedOnce /\ CallsPaid(b)
  BY DEF RetryInv
<1>2. ASSUME UNCHANGED <<onSite, atCentral, sends, counted, abandoned>>
      PROVE  CallsPaid(b)'
  BY <1>1, <1>2 DEF onSite, atCentral, CallsPaid, CallsLeft, Unchecked
<1>3. ASSUME NEW c \in Batches, RegistryChange(c) PROVE CallsPaid(b)'
  BY <1>2, <1>3 DEF RegistryChange, store
<1>4. CASE UNCHANGED vars
  BY <1>2, <1>4 DEF vars, store
<1> QED
  BY <1>1, <1>3, <1>4, SendCalls, SiteCalls, CentralCalls DEF Next

LEMMA QueuedStep == TypeInv /\ QueuedOnce /\ AnswersMatchCalls /\ [Next]_vars => QueuedOnce'
<1> SUFFICES ASSUME TypeInv, QueuedOnce, AnswersMatchCalls, [Next]_vars,
                    NEW h \in SiteWorkers, sitePc'[h] = "queued"
             PROVE  site'[h].try > 0
  BY DEF QueuedOnce
<1>t. /\ sitePc \in [SiteWorkers -> SitePcs] /\ site \in [SiteWorkers -> SiteRequests]
      /\ \A g \in SiteWorkers : site[g] \in SiteRequests
      /\ central \in [CentralWorkers -> CentralRequests]
  BY DEF TypeInv, TypeOK
<1>k. ASSUME sitePc[h] = "queued", site'[h].try = site[h].try PROVE site'[h].try > 0
  BY <1>k DEF QueuedOnce
<1>u. ASSUME UNCHANGED onSite PROVE site'[h].try > 0
  BY <1>k, <1>u DEF onSite
<1>1. CASE \E c \in Batches, g \in SiteWorkers : Send(c, g)
  BY <1>1, <1>k, <1>t DEF Send
<1>2. ASSUME NEW g \in SiteWorkers, SiteWork(g) \/ SiteFailure(g) PROVE site'[h].try > 0
  <2>1. CASE PostCentral(g)
    <3>1. g # h => sitePc[h] = "queued" /\ site'[h] = site[h]
      BY <1>t, <2>1 DEF PostCentral
    <3>2. g = h => site'[h].try = site[h].try + 1 /\ site[h].try \in Nat
      BY <1>t, <2>1 DEF PostCentral, SiteRequests
    <3> QED BY <1>k, <3>1, <3>2
  <2>2. CASE SiteStarves(g) \/ \E midway \in BOOLEAN : SiteTryFails(g, midway)
    <3>1. TryAgain(g) \/ Finish(g, "error", FALSE)
      BY <2>2 DEF SiteStarves, SiteTryFails
    <3>2. g # h /\ sitePc[h] = sitePc'[h] /\ site'[h] = site[h]
      BY <3>1, FailedTry
    <3> QED BY <1>k, <3>2
  <2>3. CASE SiteAnswers(g) \/ SiteKilled(g)
    <3>1. g # h /\ sitePc[h] = sitePc'[h] /\ site'[h] = site[h]
      BY <1>t, <2>3 DEF SiteAnswers, SiteKilled
    <3> QED BY <1>k, <3>1
  <2>4. CASE SenderTimeout(g)
    <3>1. sitePc[h] = sitePc'[h] /\ site'[h].try = site[h].try
      BY <1>t, <2>4 DEF SenderTimeout, SiteRequests
    <3> QED BY <1>k, <3>1
  <2> QED BY <1>2, <2>1, <2>2, <2>3, <2>4 DEF SiteWork, SiteFailure
<1>3. ASSUME NEW c \in CentralWorkers, CentralWork(c) \/ CentralFailure(c)
      PROVE  site'[h].try > 0
  <2>1. ASSUME NEW g \in SiteWorkers, Accept(c, g) PROVE site'[h].try > 0
    BY <1>k, <1>t, <2>1 DEF Accept
  <2>2. CASE Reply(c) \/ CentralKilled(c)
    <3>1. CASE UNCHANGED onSite
      BY <1>u, <3>1
    <3>2. CASE ~ UNCHANGED onSite
      <4>1. PICK g \in SiteWorkers : g = central[c].caller
        BY <1>t, <2>2, <3>2 DEF Reply, CentralKilled, CentralRequests
      <4>2. central[c].status \in Statuses /\ g # Nobody
        BY <1>t DEF CentralRequests
      <4>3. \/ Finish(g, central[c].status, central[c].status = "later")
            \/ TryAgain(g)
        BY <2>2, <4>1, <4>2 DEF Reply, CentralKilled
      <4>4. \/ g # h /\ sitePc[h] = sitePc'[h] /\ site'[h] = site[h]
            \/ sitePc'[g] # "queued"
        <5>1. CASE TryAgain(g)
          BY <5>1, FailedTry
        <5>2. CASE Finish(g, central[c].status, central[c].status = "later")
          BY <4>2, <5>2, FinishType
        <5> QED BY <4>3, <5>1, <5>2
      <4>5. g # h => sitePc[h] = sitePc'[h] /\ site'[h] = site[h]
        <5>1. CASE TryAgain(g)
          BY <5>1, FailedTry
        <5>2. CASE Finish(g, central[c].status, central[c].status = "later")
          BY <4>2, <5>2, FinishType
        <5> QED BY <4>3, <5>1, <5>2
      <4> QED BY <1>k, <4>4, <4>5
    <3> QED BY <3>1, <3>2
  <2>3. CASE UNCHANGED onSite
    BY <1>u, <2>3
  <2> QED BY <1>3, <2>1, <2>2, <2>3
    DEF CentralWork, CentralFailure, AcceptAbandoned, Admit, Refuse, StoreAccepts,
        StoreErrs, StoreRefuses, CentralTryFails
<1>4. CASE (\E b \in Batches : RegistryChange(b)) \/ UNCHANGED vars
  BY <1>u, <1>4 DEF RegistryChange, vars
<1> QED
  BY <1>1, <1>2, <1>3, <1>4 DEF Next

(* A post to the store is spent when the store may have taken the batch. *)
LEMMA CopiesOfCentral ==
  ASSUME TypeInv, TypeInv', NEW b \in Batches, NEW c \in CentralWorkers,
         CopiesPaid(b), CentralWork(c) \/ CentralFailure(c)
  PROVE  CopiesPaid(b)'
<1>t. /\ centralPc \in [CentralWorkers -> CentralPcs]
      /\ central \in [CentralWorkers -> CentralRequests]
      /\ central[c] \in CentralRequests
      /\ central[c].try \in 0 .. MaxTries /\ central[c].batch \in Batches
      /\ counted \in [Batches -> Nat] /\ copies \in [Batches -> Nat]
  BY DEF TypeInv, TypeOK, CentralRequests
<1>n. /\ copies[b] \in Nat /\ counted[b] \in Nat
      /\ Cardinality(PostsLeft(b)) \in Nat /\ IsFiniteSet(PostsLeft(b))
  <2>1. IsFiniteSet(PostsLeft(b)) BY DEF CopiesPaid
  <2> HIDE DEF TypeInv, PostsLeft
  <2> QED BY <1>t, <2>1, FS_CardinalityType
<1>1. ASSUME UNCHANGED <<counted, copies>>, centralPc'[c] # "post",
             \A d \in CentralWorkers \ {c} :
                central'[d] = central[d] /\ centralPc'[d] = centralPc[d]
      PROVE  CopiesPaid(b)'
  <2>1. PostsLeft(b)' \subseteq PostsLeft(b)
    <3> SUFFICES ASSUME NEW p \in PostsLeft(b)' PROVE p \in PostsLeft(b)
      OBVIOUS
    <3> QED BY <1>1 DEF PostsLeft
  <2> QED BY <1>1, <2>1, CopiesKept
<1>2. CASE \/ \E h \in SiteWorkers : Accept(c, h)
           \/ \E a \in Batches : AcceptAbandoned(c, a)
           \/ Refuse(c) \/ Reply(c) \/ CentralKilled(c) \/ StoreRefuses(c)
  <2>1. /\ UNCHANGED <<counted, copies>> /\ centralPc'[c] # "post"
        /\ \A d \in CentralWorkers \ {c} :
              central'[d] = central[d] /\ centralPc'[d] = centralPc[d]
    BY <1>2, <1>t
    DEF Accept, AcceptAbandoned, Refuse, Reply, CentralKilled, StoreRefuses, store
  <2> QED BY <1>1, <2>1
<1>3. CASE Admit(c)
  <2>1. /\ centralPc[c] = "auth" /\ UNCHANGED <<central, copies>>
        /\ \A d \in CentralWorkers \ {c} : centralPc'[d] = centralPc[d]
        /\ counted' = [counted EXCEPT ![central[c].batch] = @ + 1]
    BY <1>3, <1>t DEF Admit
  <2>2. CASE central[c].batch = b
    <3>1. PostsLeft(b)' \subseteq PostsLeft(b) \cup ({c} \X (1 .. MaxTries))
      <4> SUFFICES ASSUME NEW p \in PostsLeft(b)', p[1] # c PROVE p \in PostsLeft(b)
        BY DEF PostsLeft
      <4> QED BY <2>1 DEF PostsLeft
    <3>2. /\ IsFiniteSet(PostsLeft(b)') /\ Cardinality(PostsLeft(b)') \in Nat
          /\ Cardinality(PostsLeft(b)') <= Cardinality(PostsLeft(b)) + MaxTries
      BY <1>n, <3>1, GainsTries
    <3>3. counted'[b] = counted[b] + 1
      BY <1>t, <2>1, <2>2
    <3>4. counted'[b] * MaxTries = counted[b] * MaxTries + MaxTries
      BY <1>n, <3>3
    <3>5. counted[b] * MaxTries \in Nat
      BY <1>n
    <3> QED BY <1>n, <2>1, <3>2, <3>4, <3>5 DEF CopiesPaid
  <2>3. CASE central[c].batch # b
    <3>1. counted'[b] = counted[b]
      BY <1>t, <2>1, <2>3
    <3>2. PostsLeft(b)' \subseteq PostsLeft(b)
      <4> SUFFICES ASSUME NEW p \in PostsLeft(b)' PROVE p \in PostsLeft(b)
        OBVIOUS
      <4>1. p[1] # c
        BY <2>1, <2>3 DEF PostsLeft
      <4> QED BY <2>1, <4>1 DEF PostsLeft
    <3> QED BY <2>1, <3>1, <3>2, CopiesKept
  <2> QED BY <2>2, <2>3
<1>4. ASSUME centralPc[c] = "post", centralPc'[c] \in {"post", "reply"},
             central'[c].batch = central[c].batch,
             central'[c].try = central[c].try + 1,
             \A d \in CentralWorkers \ {c} :
                central'[d] = central[d] /\ centralPc'[d] = centralPc[d],
             \/ UNCHANGED copies
             \/ copies' = [copies EXCEPT ![central[c].batch] = @ + 1],
             UNCHANGED counted
      PROVE  CopiesPaid(b)'
  <2>1. PostsLeft(b)' \subseteq PostsLeft(b)
    <3> SUFFICES ASSUME NEW p \in PostsLeft(b)' PROVE p \in PostsLeft(b)
      OBVIOUS
    <3>1. CASE p[1] = c
      BY <1>4, <1>t, <3>1 DEF PostsLeft
    <3>2. CASE p[1] # c
      BY <1>4, <3>2 DEF PostsLeft
    <3> QED BY <3>1, <3>2
  <2>2. CASE central[c].batch = b
    <3> DEFINE p == <<c, central[c].try + 1>>
    <3>1. central[c].try + 1 \in 1 .. MaxTries
      BY <1>4, <1>t DEF TypeInv, TriesOK
    <3>t. /\ central[c].try + 1 > central[c].try
          /\ ~ central[c].try + 1 > central'[c].try
      BY <1>4, <1>t
    <3>2. p \in PostsLeft(b) /\ p \notin PostsLeft(b)'
      <4>1. p[1] = c /\ p[2] = central[c].try + 1 /\ p \in CentralWorkers \X (1 .. MaxTries)
        BY <3>1
      <4>2. p \in PostsLeft(b)
        BY <1>4, <2>2, <3>t, <4>1 DEF PostsLeft
      <4>3. p \notin PostsLeft(b)'
        BY <3>t, <4>1 DEF PostsLeft
      <4> QED BY <4>2, <4>3
    <3> HIDE DEF p
    <3>3. /\ IsFiniteSet(PostsLeft(b)') /\ Cardinality(PostsLeft(b)') \in Nat
          /\ Cardinality(PostsLeft(b)') + 1 <= Cardinality(PostsLeft(b))
      BY <1>n, <2>1, <3>2, Loses
    <3>4. copies'[b] \in Nat /\ copies'[b] <= copies[b] + 1
      BY <1>4, <1>t, <2>2
    <3>5. counted[b] * MaxTries \in Nat
      BY <1>n
    <3> QED BY <1>4, <1>n, <3>3, <3>4, <3>5 DEF CopiesPaid
  <2>3. CASE central[c].batch # b
    <3>1. copies'[b] = copies[b]
      BY <1>4, <1>t, <2>3
    <3> QED BY <1>4, <2>1, <3>1, CopiesKept
  <2> QED BY <2>2, <2>3
<1>5. CASE \/ StoreAccepts(c) \/ \E status \in Statuses : StoreErrs(c, status)
           \/ \E taken, midway \in BOOLEAN : CentralTryFails(c, taken, midway)
  <2>1. /\ centralPc[c] = "post" /\ UNCHANGED counted
        /\ \/ UNCHANGED copies
           \/ copies' = [copies EXCEPT ![central[c].batch] = @ + 1]
    BY <1>5 DEF StoreAccepts, StoreErrs, CentralTryFails, store
  <2>2. PICK status \in Statuses :
           central' = [central EXCEPT ![c].status = status, ![c].try = @ + 1]
    BY <1>5 DEF StoreAccepts, StoreErrs, CentralTryFails, Statuses
  <2>3. /\ central'[c].batch = central[c].batch
        /\ central'[c].try = central[c].try + 1
        /\ \A d \in CentralWorkers \ {c} : central'[d] = central[d]
    BY <1>t, <2>2 DEF CentralRequests
  <2>4. /\ centralPc'[c] \in {"post", "reply"}
        /\ \A d \in CentralWorkers \ {c} : centralPc'[d] = centralPc[d]
    BY <1>5, <1>t, <2>1 DEF StoreAccepts, StoreErrs, CentralTryFails
  <2> QED BY <1>4, <2>1, <2>3, <2>4
<1> QED
  BY <1>2, <1>3, <1>5 DEF CentralWork, CentralFailure

LEMMA CopiesStep ==
  ASSUME TypeInv, TypeInv', RetryInv, [Next]_vars, NEW b \in Batches
  PROVE  CopiesPaid(b)'
<1>p. CopiesPaid(b)
  BY DEF RetryInv
<1>1. ASSUME UNCHANGED <<centralPc, counted, copies>>,
             \A c \in CentralWorkers : /\ central'[c].batch = central[c].batch
                                       /\ central'[c].try = central[c].try
      PROVE  CopiesPaid(b)'
  <2>1. PostsLeft(b)' = PostsLeft(b)
    BY <1>1 DEF PostsLeft
  <2> QED BY <1>p, <1>1, <2>1 DEF CopiesPaid
<1>2. ASSUME NEW h \in SiteWorkers, SiteWork(h) \/ SiteFailure(h) PROVE CopiesPaid(b)'
  <2>1. UNCHANGED <<centralPc, counted, copies>> /\ (UNCHANGED central \/ Hang(h))
    BY <1>2 DEF SiteWork, SiteFailure, PostCentral, SiteStarves, SiteAnswers,
                SenderTimeout, SiteKilled, SiteTryFails, atCentral, store
  <2>2. \A c \in CentralWorkers : /\ central'[c].batch = central[c].batch
                                   /\ central'[c].try = central[c].try
    BY <2>1, HangType
  <2> QED BY <1>1, <2>1, <2>2
<1>3. CASE \/ \E c \in Batches, h \in SiteWorkers : Send(c, h)
           \/ \E c \in Batches : RegistryChange(c)
           \/ UNCHANGED vars
  BY <1>1, <1>3 DEF Send, RegistryChange, vars, atCentral, store
<1> QED
  BY <1>p, <1>2, <1>3, CopiesOfCentral DEF Next

LEMMA RetryStep ==
  TypeInv /\ TypeInv' /\ AnswersMatchCalls /\ RetryInv /\ [Next]_vars => RetryInv'
<1> SUFFICES ASSUME TypeInv, TypeInv', AnswersMatchCalls, RetryInv, [Next]_vars
             PROVE  RetryInv'
  OBVIOUS
<1>1. QueuedOnce'
  BY QueuedStep DEF RetryInv
<1>2. \A b \in Batches : CallsPaid(b)' /\ CopiesPaid(b)'
  BY CallsStep, CopiesStep
<1> QED
  BY <1>1, <1>2 DEF RetryInv

LEMMA PaidIsBounded == TypeInv /\ RetryInv => RetriesBounded
<1> SUFFICES ASSUME TypeInv, RetryInv, NEW b \in Batches
             PROVE  counted[b] <= sends[b] * MaxTries /\ copies[b] <= counted[b] * MaxTries
  BY DEF RetriesBounded
<1>1. /\ counted[b] \in Nat /\ abandoned[b] \in Nat /\ copies[b] \in Nat
      /\ sends[b] * MaxTries \in Nat /\ counted[b] * MaxTries \in Nat
  BY DEF TypeInv, TypeOK
<1>2. CallsPaid(b) /\ CopiesPaid(b)
  BY DEF RetryInv
<1>3. /\ IsFiniteSet(CallsLeft(b)) /\ IsFiniteSet(Unchecked(b)) /\ IsFiniteSet(PostsLeft(b))
  BY <1>2 DEF CallsPaid, CopiesPaid
<1> HIDE DEF TypeInv
<1>4. /\ Cardinality(CallsLeft(b)) \in Nat /\ Cardinality(Unchecked(b)) \in Nat
      /\ Cardinality(PostsLeft(b)) \in Nat
  BY <1>3, FS_CardinalityType
<1> QED BY <1>1, <1>2, <1>4 DEF CallsPaid, CopiesPaid

(* Retries multiply by no more than the configured tries at each of the    *)
(* two proxies, over every timeout, lost connection, killed worker and     *)
(* abandoned call: `session' of both posts at most 1 + total times, and    *)
(* what it has posted and given up is never posted by anyone else.         *)
THEOREM RetriesAreBounded == Spec => []RetriesBounded
BY PaidIsBounded, DeliveryInv, RetryInit, RetryStep, PTL DEF Spec

---------------------------------------------------------------------------------
(* The refinement. *)

(* Who is going to be answered waits, and for one worker. *)
Serves(h) == sitePc[h] # "idle" /\ site[h].client
SendersWait ==
    \A h \in SiteWorkers : Serves(h) =>
        /\ sender[site[h].batch] = "waiting"
        /\ \A g \in SiteWorkers \ {h} : Serves(g) => site[g].batch # site[h].batch

(* A step that leaves the senders alone and gives no worker a client. *)
LEMMA StillServed ==
  ASSUME SendersWait, UNCHANGED sender,
         \A h \in SiteWorkers : Serves(h)' => Serves(h) /\ site'[h].batch = site[h].batch
  PROVE  SendersWait'
BY DEF SendersWait

(* A worker is done with its sender, which waits no longer. *)
LEMMA NotServed ==
  ASSUME TypeInv, SendersWait, NEW h \in SiteWorkers, Serves(h), ~ Serves(h)',
         NEW s, sender' = [sender EXCEPT ![site[h].batch] = s],
         \A g \in SiteWorkers \ {h} : sitePc'[g] = sitePc[g] /\ site'[g] = site[g]
  PROVE  SendersWait'
<1>1. /\ sender \in [Batches -> {"ready", "waiting", "accepted", "dropped"}]
      /\ \A g \in SiteWorkers : site[g].batch \in Batches
  BY DEF TypeInv, TypeOK, SiteRequests
<1>2. \A g \in SiteWorkers : Serves(g)' =>
        Serves(g) /\ g # h /\ site'[g] = site[g] /\ site[g].batch # site[h].batch
  BY DEF Serves, SendersWait
<1> QED
  BY <1>1, <1>2 DEF SendersWait

LEMMA WaitStep ==
  TypeInv /\ AnswersMatchCalls /\ SendersWait /\ [Next]_vars => SendersWait'
<1> SUFFICES ASSUME TypeInv, AnswersMatchCalls, SendersWait, [Next]_vars
             PROVE  SendersWait'
  OBVIOUS
<1>t. /\ sender \in [Batches -> {"ready", "waiting", "accepted", "dropped"}]
      /\ sitePc \in [SiteWorkers -> SitePcs] /\ site \in [SiteWorkers -> SiteRequests]
      /\ central \in [CentralWorkers -> CentralRequests]
      /\ \A h \in SiteWorkers : site[h].batch \in Batches
  BY DEF TypeInv, TypeOK, SiteRequests
<1>1. CASE UNCHANGED vars \/ \E b \in Batches : RegistryChange(b)
  BY <1>1, StillServed DEF vars, onSite, RegistryChange, Serves
<1>2. ASSUME NEW b \in Batches, NEW h \in SiteWorkers, Send(b, h) PROVE SendersWait'
  <2>1. /\ sender[b] = "ready" /\ sender' = [sender EXCEPT ![b] = "waiting"]
        /\ \A g \in SiteWorkers \ {h} : sitePc'[g] = sitePc[g] /\ site'[g] = site[g]
    BY <1>2, <1>t DEF Send
  <2>2. site'[h].batch = b
    BY <1>2, <1>t, NoRequestType DEF Send, SiteRequests
  <2>3. \A g \in SiteWorkers \ {h} :
            Serves(g)' => Serves(g) /\ site[g].batch # b /\ site'[g].batch = site[g].batch
    BY <2>1 DEF Serves, SendersWait
  <2> QED
    BY <1>t, <2>1, <2>2, <2>3 DEF SendersWait
<1>3. ASSUME NEW h \in SiteWorkers, SiteWork(h) \/ SiteFailure(h) PROVE SendersWait'
  <2>1. CASE PostCentral(h)
    <3>1. /\ UNCHANGED sender /\ sitePc[h] = "post" /\ site[h] \in SiteRequests
          /\ sitePc' = [sitePc EXCEPT ![h] = "queued"]
          /\ site' = [site EXCEPT ![h] = [site[h] EXCEPT !.try = @ + 1]]
      BY <2>1, <1>t DEF PostCentral
    <3>2. ASSUME NEW g \in SiteWorkers, Serves(g)'
          PROVE  Serves(g) /\ site'[g].batch = site[g].batch
      <4>1. CASE g = h
        <5>1. site'[h] = [site[h] EXCEPT !.try = @ + 1]
          BY <1>t, <3>1
        <5>2. site'[h].client = site[h].client /\ site'[h].batch = site[h].batch
          BY <3>1, <5>1 DEF SiteRequests
        <5> QED
          BY <3>1, <3>2, <4>1, <5>2 DEF Serves
      <4>2. CASE g # h
        BY <1>t, <3>1, <3>2, <4>2 DEF Serves
      <4> QED
        BY <4>1, <4>2
    <3> QED
      BY <3>1, <3>2, StillServed
  <2>2. CASE SiteStarves(h) \/ \E midway \in BOOLEAN : SiteTryFails(h, midway)
    <3>1. /\ (TryAgain(h) \/ Finish(h, "error", FALSE)) /\ UNCHANGED sender
          /\ sitePc[h] # "idle"
      BY <2>2 DEF SiteStarves, SiteTryFails
    <3> QED
      BY <3>1, FailedTry, StillServed DEF Serves
  <2>3. CASE \/ SiteAnswers(h) \/ SenderTimeout(h) \/ SiteKilled(h)
    <3>1. /\ \A g \in SiteWorkers \ {h} : sitePc'[g] = sitePc[g] /\ site'[g] = site[g]
          /\ ~ Serves(h)'
      BY <2>3, <1>t DEF SiteAnswers, SenderTimeout, SiteKilled, Serves, SiteRequests
    <3>2. CASE Serves(h)
      <4>1. \E s : sender' = [sender EXCEPT ![site[h].batch] = s]
        BY <2>3, <3>2 DEF SiteAnswers, SenderTimeout, SiteKilled, Serves
      <4> QED
        BY <3>1, <3>2, <4>1, NotServed
    <3>3. CASE ~ Serves(h)
      <4>1. UNCHANGED sender
        BY <2>3, <3>3 DEF SiteAnswers, SenderTimeout, SiteKilled, Serves
      <4> QED
        BY <3>1, <4>1, StillServed DEF Serves
    <3> QED
      BY <3>2, <3>3
  <2> QED
    BY <1>3, <2>1, <2>2, <2>3 DEF SiteWork, SiteFailure
<1>4. ASSUME NEW c \in CentralWorkers, CentralWork(c) \/ CentralFailure(c)
      PROVE  SendersWait'
  <2>1. ASSUME NEW h \in SiteWorkers, Accept(c, h) PROVE SendersWait'
    BY <2>1, <1>t, StillServed DEF Accept, Serves
  <2>2. CASE Reply(c) \/ CentralKilled(c)
    <3>1. CASE central[c].caller = Nobody
      BY <2>2, <3>1, StillServed DEF Reply, CentralKilled, onSite, Serves
    <3>2. CASE central[c].caller # Nobody
      <4>1. PICK h \in SiteWorkers : h = central[c].caller
        BY <1>t, <3>2 DEF CentralRequests
      <4>2. sitePc[h] # "idle" /\ UNCHANGED sender
        BY <2>2, <4>1 DEF Reply, CentralKilled, AnswersMatchCalls
      <4>3. \E status \in Statuses, again \in BOOLEAN : Finish(h, status, again)
        BY <2>2, <1>t, <3>2, <4>1 DEF Reply, CentralKilled, TryAgain, CentralRequests, Statuses
      <4>4. /\ \A g \in SiteWorkers \ {h} : sitePc'[g] = sitePc[g] /\ site'[g] = site[g]
            /\ site'[h].batch = site[h].batch /\ site'[h].client = site[h].client
        BY <4>3, FinishType
      <4> QED
        BY <4>2, <4>4, StillServed DEF Serves
    <3> QED
      BY <3>1, <3>2
  <2>3. CASE UNCHANGED <<sender, onSite>>
    BY <2>3, StillServed DEF onSite, Serves
  <2> QED
    BY <1>4, <2>1, <2>2, <2>3
    DEF CentralWork, CentralFailure, AcceptAbandoned, Admit, Refuse, StoreAccepts,
        StoreErrs, StoreRefuses, CentralTryFails
<1> QED
  BY <1>1, <1>2, <1>3, <1>4 DEF Next

LEMMA WaitInit == Init => SendersWait
BY DEF Init, SendersWait, Serves

LedgerInv == TypeInv /\ AnswersMatchCalls /\ StatusInv /\ RetryInv /\ SendersWait

(* Every step is one of the ledger's, or none of its business. *)
LEMMA LedgerStep ==
  LedgerInv /\ LedgerInv' /\ [Next]_vars => [Ledger!Next]_(Ledger!vars)
<1> SUFFICES ASSUME LedgerInv, LedgerInv', [Next]_vars
             PROVE  Ledger!Next \/ UNCHANGED <<sender, sends, counted, copies, refusable>>
  BY DEF Ledger!vars
<1>t. /\ sender \in [Batches -> {"ready", "waiting", "accepted", "dropped"}]
      /\ site \in [SiteWorkers -> SiteRequests] /\ sends \in [Batches -> 0 .. MaxSends]
      /\ central \in [CentralWorkers -> CentralRequests]
      /\ counted \in [Batches -> Nat] /\ copies \in [Batches -> Nat]
      /\ \A h \in SiteWorkers : site[h].batch \in Batches
      /\ \A c \in CentralWorkers : central[c].batch \in Batches
  BY DEF LedgerInv, TypeInv, TypeOK, SiteRequests, CentralRequests
(* What is counted or stored in a step was still to be paid for. *)
<1>b. RetriesBounded'
  <2>1. (TypeInv /\ RetryInv => RetriesBounded)'
    BY PaidIsBounded, PTL
  <2> QED
    BY <2>1 DEF LedgerInv
<1>h. ASSUME NEW h \in SiteWorkers, Serves(h),
             NEW outcome \in {"accepted", "dropped", "ready"},
             outcome = "accepted" => copies[site[h].batch] > 0,
             outcome = "dropped" => site[h].batch \in refusable,
             sender' = [sender EXCEPT ![site[h].batch] = outcome],
             UNCHANGED <<sends, counted, copies, refusable>>
      PROVE  Ledger!Next
  <2>1. Ledger!Hear(site[h].batch, outcome)
    BY <1>h DEF Ledger!Hear, LedgerInv, SendersWait
  <2> QED
    BY <1>t, <2>1 DEF Ledger!Next
<1>1. CASE UNCHANGED vars
  BY <1>1 DEF vars, store, registry
<1>2. ASSUME NEW b \in Batches, NEW h \in SiteWorkers, Send(b, h) PROVE Ledger!Next
  BY <1>2 DEF Send, store, registry, Ledger!Next, Ledger!Send
<1>3. ASSUME NEW b \in Batches, RegistryChange(b) PROVE Ledger!Next
  <2>1. Ledger!Condemn(Batches \ admitted')
    BY <1>3 DEF RegistryChange, store, Ledger!Condemn
  <2> QED
    BY <2>1 DEF Ledger!Next
<1>4. ASSUME NEW h \in SiteWorkers, SiteWork(h) \/ SiteFailure(h)
      PROVE  Ledger!Next \/ UNCHANGED <<sender, sends, counted, copies, refusable>>
  <2>1. CASE SiteAnswers(h) /\ Serves(h)
    <3> DEFINE outcome == CASE site[h].status = "ok" -> "accepted"
                            [] site[h].status = "refused" -> "dropped"
                            [] OTHER -> "ready"
    <3>1. /\ sender' = [sender EXCEPT ![site[h].batch] = outcome]
          /\ UNCHANGED <<sends, counted, copies, refusable>>
      BY <2>1 DEF SiteAnswers, Serves, store, registry
    <3>2. /\ outcome \in {"accepted", "dropped", "ready"}
          /\ outcome = "accepted" => site[h].status = "ok"
          /\ outcome = "dropped" => site[h].status = "refused"
      OBVIOUS
    <3>3. Justified(site[h].status, site[h].batch)
      BY <2>1 DEF SiteAnswers, LedgerInv, StatusInv, AnswersJustified
    <3> HIDE DEF outcome
    <3> QED
      BY <1>h, <2>1, <3>1, <3>2, <3>3 DEF Justified
  <2>2. CASE (SenderTimeout(h) \/ SiteKilled(h)) /\ Serves(h)
    BY <1>h, <2>2 DEF SenderTimeout, SiteKilled, Serves, store, registry
  <2>3. CASE \/ PostCentral(h) \/ SiteStarves(h)
             \/ \E midway \in BOOLEAN : SiteTryFails(h, midway)
             \/ (SiteAnswers(h) \/ SenderTimeout(h) \/ SiteKilled(h)) /\ ~ Serves(h)
    BY <2>3 DEF PostCentral, SiteStarves, SiteTryFails, SiteAnswers, SenderTimeout,
                SiteKilled, Serves, store, registry
  <2> QED
    BY <1>4, <2>1, <2>2, <2>3 DEF SiteWork, SiteFailure
<1>5. ASSUME NEW c \in CentralWorkers, CentralWork(c) \/ CentralFailure(c)
      PROVE  Ledger!Next \/ UNCHANGED <<sender, sends, counted, copies, refusable>>
  <2> DEFINE b == central[c].batch
  <2>1. CASE Admit(c)
    <3>1. /\ counted' = [counted EXCEPT ![b] = @ + 1]
          /\ UNCHANGED <<sender, sends, copies, refusable>>
      BY <2>1 DEF Admit, registry
    <3>2. counted[b] < sends[b] * MaxTries
      <4>1. counted'[b] = counted[b] + 1 /\ sends'[b] = sends[b] /\ counted[b] \in Nat
        BY <1>t, <3>1
      <4>2. sends[b] * MaxTries \in Nat /\ counted'[b] <= sends'[b] * MaxTries
        BY <1>t, <1>b DEF RetriesBounded
      <4> QED
        BY <4>1, <4>2
    <3>3. Ledger!LetThrough(b)
      BY <3>1, <3>2 DEF Ledger!LetThrough
    <3> QED
      BY <1>t, <3>3 DEF Ledger!Next
  <2>2. CASE \/ StoreAccepts(c)
             \/ \E midway \in BOOLEAN : CentralTryFails(c, TRUE, midway)
    <3>1. /\ copies' = [copies EXCEPT ![b] = @ + 1]
          /\ UNCHANGED <<sender, sends, counted, refusable>>
      BY <2>2 DEF StoreAccepts, CentralTryFails, registry
    <3>2. copies[b] < counted[b] * MaxTries
      <4>1. copies'[b] = copies[b] + 1 /\ counted'[b] = counted[b] /\ copies[b] \in Nat
        BY <1>t, <3>1
      <4>2. counted[b] * MaxTries \in Nat /\ copies'[b] <= counted'[b] * MaxTries
        BY <1>t, <1>b DEF RetriesBounded
      <4> QED
        BY <4>1, <4>2
    <3>3. Ledger!Store(b)
      BY <3>1, <3>2 DEF Ledger!Store
    <3> QED
      BY <1>t, <3>3 DEF Ledger!Next
  <2>3. CASE StoreRefuses(c)
    <3>1. Ledger!Condemn({b})
      BY <2>3 DEF StoreRefuses, store, Ledger!Condemn
    <3> QED
      BY <1>t, <3>1 DEF Ledger!Next
  <2>4. CASE UNCHANGED <<sender, sends, counted, copies, refusable>>
    BY <2>4
  <2> QED
    BY <1>5, <2>1, <2>2, <2>3, <2>4
    DEF CentralWork, CentralFailure, Accept, AcceptAbandoned, Refuse, StoreErrs,
        CentralTryFails, Reply, CentralKilled, registry, store
<1> QED
  BY <1>1, <1>2, <1>3, <1>4, <1>5 DEF Next

(* The views, `session' and gunicorn between them keep BatchLedger: what   *)
(* the sender of a batch may rely on, whatever fails.                      *)
THEOREM Refinement == Spec => KeepsLedger
<1>1. Init => Ledger!Init
  BY DEF Init, Ledger!Init
<1>2. Spec => []LedgerInv
  BY DeliveryInv, RetryInit, RetryStep, WaitInit, WaitStep, PTL DEF Spec, LedgerInv
<1> QED
  BY <1>1, <1>2, LedgerStep, PTL DEF Spec, KeepsLedger, Ledger!Spec
=================================================================================
