---------------------------- MODULE TelemetryProofs ----------------------------
(***************************************************************************)
(* Proofs about Telemetry, for any hotkeys, netuids, payloads and sets of  *)
(* signals: that the two proxies agree on what the owner of an item is,    *)
(* whatever attributes were there before, and that the store gets only     *)
(* what was vouched for.                                                   *)
(***************************************************************************)
EXTENDS Telemetry, FiniteSetTheorems, WellFoundedInduction, TLAPS

USE IdentityAssumption, DeploymentAssumption, PayloadsAssumption

Keys == {"hotkey", "netuid", "other"}
Vals == Hotkeys \cup Netuids \cup {Blank}

(* A request on its way is what the outbound view made of the one it got. *)
Handed == at = "outbound" => msg = sent /\ onSite
Forwarded == onSite =>
    /\ at \in {"wire", "upstream"} => OutboundStatus(sent) = 200
    /\ at = "wire" => msg = OutboundMessage(sent)
    /\ at = "upstream" => msg = UpstreamMessage(OutboundMessage(sent))
TelemetryInv == TypeOK /\ Handed /\ Forwarded

--------------------------------------------------------------------------------
(* Lists of pairs. *)

(* A set of naturals that is not empty has a least element: the intervals  *)
(* from zero to its elements are finite sets, among which inclusion is     *)
(* well founded.                                                           *)
LEMMA Least ==
    ASSUME NEW N \in SUBSET Nat, N # {}
    PROVE  \E n \in N : \A k \in N : n <= k
<1> DEFINE below == {0 .. n : n \in N}
<1>1. ASSUME NEW n \in N PROVE 0 .. n \in FiniteSubsetsOf(Nat)
  <2>1. 0 .. n \in SUBSET Nat /\ IsFiniteSet(0 .. n)
    BY FS_Interval
  <2> QED BY <2>1 DEF FiniteSubsetsOf
<1>2. below \subseteq FiniteSubsetsOf(Nat) /\ below # {}
  BY <1>1
<1>3. PICK x \in below : \A y \in below : <<y, x>> \notin StrictSubsetOrdering(Nat)
  <2> HIDE DEF below
  <2> QED BY <1>2, FS_StrictSubsetOrderingWellFounded, WFMin
<1>4. PICK n \in N : x = 0 .. n
  BY <1>3
<1>5. ASSUME NEW k \in N, k < n PROVE FALSE
  <2>1. 0 .. k \in below /\ 0 .. k \in SUBSET Nat /\ 0 .. n \in SUBSET Nat
    OBVIOUS
  <2>2. 0 .. k \subseteq 0 .. n /\ 0 .. k # 0 .. n
    BY <1>5
  <2> QED BY <1>3, <1>4, <2>1, <2>2 DEF StrictSubsetOrdering
<1> QED BY <1>5

(* A key that occurs has a first and a last occurrence. *)
LEMMA FirstOccurs ==
    ASSUME NEW pairs \in Seq(Pairs), NEW k, Occurs(pairs, k) # {}
    PROVE  First(pairs, k) \in Occurs(pairs, k)
<1>1. Occurs(pairs, k) \in SUBSET Nat
  BY DEF Occurs
<1>2. \E i \in Occurs(pairs, k) : \A j \in Occurs(pairs, k) : i <= j
  BY <1>1, Least
<1> QED BY <1>2 DEF First

LEMMA LastOccurs ==
    ASSUME NEW pairs \in Seq(Pairs), NEW k, Occurs(pairs, k) # {}
    PROVE  Last(pairs, k) \in Occurs(pairs, k)
<1> DEFINE N == {Len(pairs) - i : i \in Occurs(pairs, k)}
<1>1. \A i \in Occurs(pairs, k) : i \in 1 .. Len(pairs)
  BY DEF Occurs
<1>2. N \in SUBSET Nat /\ N # {}
  BY <1>1
<1>3. PICK n \in N : \A m \in N : n <= m
  <2> HIDE DEF N
  <2> QED BY <1>2, Least
<1>4. PICK i \in Occurs(pairs, k) : n = Len(pairs) - i
  BY <1>3
<1>5. \A j \in Occurs(pairs, k) : i >= j
  <2>1. \A j \in Occurs(pairs, k) : Len(pairs) - j \in N
    OBVIOUS
  <2>2. \A j \in Occurs(pairs, k) : n <= Len(pairs) - j
    BY <1>3, <2>1
  <2> QED BY <1>1, <1>4, <2>2
<1> QED BY <1>5 DEF Last

--------------------------------------------------------------------------------
(* The pairs of `new' are those of `old' in their places, but for values   *)
(* of the owner's keys and pairs added with such a key.                    *)
Extends(new, old) ==
    /\ \A j \in DOMAIN old : j \in DOMAIN new /\ new[j].key = old[j].key
    /\ \A j \in Occurs(new, "other") : j \in DOMAIN old /\ new[j] = old[j]

(* _upsert_string_attr: afterwards the first occurrence of the key has the *)
(* value, and the occurrences of any other key are what they were.         *)
LEMMA UpsertFacts ==
    ASSUME NEW pairs \in Seq(Pairs), NEW k \in Keys, NEW v \in Vals
    PROVE  /\ Upsert(pairs, k, v) \in Seq(Pairs)
           /\ Occurs(Upsert(pairs, k, v), k) # {}
           /\ Upsert(pairs, k, v)[First(Upsert(pairs, k, v), k)].val = v
           /\ \A l \in Keys \ {k} :
                 /\ Occurs(Upsert(pairs, k, v), l) = Occurs(pairs, l)
                 /\ \A i \in Occurs(pairs, l) : Upsert(pairs, k, v)[i] = pairs[i]
           /\ k # "other" => Extends(Upsert(pairs, k, v), pairs)
<1> DEFINE new == Upsert(pairs, k, v)
<1>1. CASE Occurs(pairs, k) = {}
  <2>1. new = Append(pairs, [key |-> k, val |-> v])
    BY <1>1 DEF Upsert
  <2>2. /\ new \in Seq(Pairs) /\ DOMAIN new = 1 .. Len(pairs) + 1
        /\ new[Len(pairs) + 1] = [key |-> k, val |-> v]
        /\ \A i \in DOMAIN pairs : new[i] = pairs[i]
    BY <2>1 DEF Pairs, Keys, Vals
  <2> HIDE DEF new
  <2>3. Occurs(new, k) = {Len(pairs) + 1}
    BY <1>1, <2>2 DEF Occurs
  <2>4. First(new, k) = Len(pairs) + 1
    BY <2>3 DEF First
  <2>5. \A l \in Keys \ {k} : Occurs(new, l) = Occurs(pairs, l)
    BY <2>2 DEF Occurs
  <2>6. \A l \in Keys \ {k} : \A i \in Occurs(pairs, l) : new[i] = pairs[i]
    BY <2>2 DEF Occurs
  <2>7. k # "other" => Extends(new, pairs)
    BY <2>2 DEF Extends, Occurs
  <2> QED BY <2>2, <2>3, <2>4, <2>5, <2>6, <2>7 DEF new
<1>2. CASE Occurs(pairs, k) # {}
  <2> DEFINE f == First(pairs, k)
  <2>1. f \in DOMAIN pairs /\ pairs[f].key = k
    BY <1>2, FirstOccurs DEF Occurs
  <2>2. new = [pairs EXCEPT ![f].val = v]
    BY <1>2 DEF Upsert
  <2> HIDE DEF f, new
  <2>3. pairs[f] \in Pairs
    BY <2>1
  <2>4. [pairs[f] EXCEPT !.val = v] = [key |-> k, val |-> v]
    BY <2>1, <2>3 DEF Pairs
  <2>5. /\ new \in Seq(Pairs) /\ DOMAIN new = DOMAIN pairs
        /\ new[f] = [key |-> k, val |-> v]
        /\ \A i \in DOMAIN pairs \ {f} : new[i] = pairs[i]
    <3>1. [key |-> k, val |-> v] \in Pairs
      BY DEF Pairs, Keys, Vals
    <3>2. new = [pairs EXCEPT ![f] = [key |-> k, val |-> v]]
      BY <2>2, <2>4
    <3> QED BY <2>1, <3>1, <3>2
  <2>6. Occurs(new, k) = Occurs(pairs, k)
    BY <2>1, <2>5 DEF Occurs
  <2>7. First(new, k) = f
    BY <2>6 DEF First, f
  <2>8. \A l \in Keys \ {k} : Occurs(new, l) = Occurs(pairs, l)
    BY <2>1, <2>5 DEF Occurs
  <2>9. \A l \in Keys \ {k} : \A i \in Occurs(pairs, l) : new[i] = pairs[i]
    BY <2>1, <2>5 DEF Occurs
  <2>10. k # "other" => Extends(new, pairs)
    BY <2>1, <2>5 DEF Extends, Occurs
  <2> QED BY <1>2, <2>5, <2>6, <2>7, <2>8, <2>9, <2>10 DEF new
<1> QED BY <1>1, <1>2

(* traces_outbound_proxy names the wallet as the owner of every resource,  *)
(* whatever attributes it had, and leaves those that name no owner alone.  *)
LEMMA TagFacts ==
    ASSUME NEW items \in Seq(Seq(Pairs))
    PROVE  /\ Tag(items) \in Seq(Seq(Pairs)) /\ DOMAIN Tag(items) = DOMAIN items
           /\ \A i \in DOMAIN items : /\ Attributed(Tag(items)[i], Wallet)
                                      /\ Extends(Tag(items)[i], items[i])
<1>1. ASSUME NEW i \in DOMAIN items
      PROVE  /\ Tag(items)[i] \in Seq(Pairs) /\ Attributed(Tag(items)[i], Wallet)
             /\ Extends(Tag(items)[i], items[i])
  <2> DEFINE p == Upsert(items[i], "hotkey", Wallet)
             q == Upsert(p, "netuid", OnSiteNetuid)
  <2>1. items[i] \in Seq(Pairs) /\ Wallet \in Vals /\ OnSiteNetuid \in Vals
    BY DEF Vals
  <2>2. /\ p \in Seq(Pairs) /\ Occurs(p, "hotkey") # {}
        /\ p[First(p, "hotkey")].val = Wallet /\ Extends(p, items[i])
    BY <2>1, UpsertFacts DEF Keys
  <2> HIDE DEF p
  <2>3. /\ q \in Seq(Pairs) /\ Occurs(q, "hotkey") = Occurs(p, "hotkey")
        /\ \A j \in Occurs(p, "hotkey") : q[j] = p[j]
        /\ Extends(q, p)
    BY <2>1, <2>2, UpsertFacts DEF Keys
  <2> HIDE DEF q
  <2>4. First(q, "hotkey") = First(p, "hotkey")
    BY <2>3 DEF First
  <2>5. First(p, "hotkey") \in Occurs(p, "hotkey")
    BY <2>2, FirstOccurs
  <2>6. Attributed(q, Wallet)
    BY <2>2, <2>3, <2>4, <2>5 DEF Attributed
  <2>7. Tag(items)[i] = q
    BY DEF Tag, p, q
  <2>8. Extends(q, items[i])
    BY <2>2, <2>3 DEF Extends, Occurs
  <2> QED BY <2>3, <2>6, <2>7, <2>8
<1>2. DOMAIN Tag(items) = 1 .. Len(items) /\ DOMAIN items = 1 .. Len(items)
  BY DEF Tag
<1>3. Tag(items) = [i \in 1 .. Len(items) |-> Tag(items)[i]]
  BY DEF Tag
<1>4. \A i \in 1 .. Len(items) : Tag(items)[i] \in Seq(Pairs)
  BY <1>1, <1>2
<1>5. Tag(items) \in Seq(Seq(Pairs))
  BY <1>3, <1>4
<1> QED BY <1>1, <1>2, <1>5

--------------------------------------------------------------------------------
(* What either view hands on is a message. *)
LEMMA OutboundType ==
    ASSUME NEW m \in Messages
    PROVE  OutboundMessage(m) \in Messages
<1>1. m.headers \in Headers /\ m.body \in Bodies
  BY DEF Messages
<1>2. Decompress(m) \in Bodies
  BY <1>1 DEF Decompress, Bodies, Codings
<1> DEFINE tagged == [Decompress(m) EXCEPT !.items = Tag(@)]
           stripped == [m.headers EXCEPT !.coding = "none", !.hop = FALSE]
<1>3. tagged \in Bodies
  <2>1. Tag(Decompress(m).items) \in Seq(Seq(Pairs))
    BY <1>2, TagFacts DEF Bodies
  <2> QED BY <1>2, <2>1 DEF Bodies
<1>4. stripped \in Headers
  BY <1>1 DEF Headers, Codings
<1>5. ASSUME NEW h \in Headers, NEW b \in Bodies
      PROVE  WithIdentity(h, b) \in Headers
  <2>1. Signed(Wallet, b) \in Signatures
    BY DEF Signed, Signatures
  <2> QED BY <2>1 DEF WithIdentity, Headers
<1>6. CASE signal = "metrics"
  BY <1>1, <1>5, <1>6 DEF OutboundMessage, Messages
<1>7. CASE signal # "metrics"
  <2>1. OutboundMessage(m) = [headers |-> WithIdentity(stripped, tagged), body |-> tagged]
    BY <1>7 DEF OutboundMessage
  <2> HIDE DEF tagged, stripped
  <2> QED BY <1>3, <1>4, <1>5, <2>1 DEF Messages
<1> QED BY <1>6, <1>7

LEMMA UpstreamType ==
    ASSUME NEW m \in Messages
    PROVE  UpstreamMessage(m) \in Messages
BY DEF UpstreamMessage, Messages, NoIdentity, Headers, Signatures, Codings

LEMMA NoMessageType == NoMessage \in Messages
BY DEF NoMessage, NoIdentity, Messages, Headers, Bodies, Signatures, Codings

LEMMA Statuses ==
    ASSUME NEW m
    PROVE  /\ OutboundStatus(m) \in {200, 400, 500}
           /\ InboundStatus(m) \in {200, 400, 403, 500}
BY DEF OutboundStatus, InboundStatus, AuthStatus, PayloadStatus

--------------------------------------------------------------------------------
(* The invariant. *)

LEMMA InitTelemetryInv == Init => TelemetryInv
BY NoMessageType DEF Init, TelemetryInv, TypeOK, Handed, Forwarded, Signals

LEMMA NextTelemetryInv ==
    ASSUME TelemetryInv, [Next]_vars
    PROVE  TelemetryInv'
<1> USE DEF TelemetryInv
<1>1. ASSUME NEW s \in Signals, NEW body \in InputBodies(Collected),
             NEW coding \in Codings, NEW hop \in BOOLEAN,
             at = "idle", Collect(s, body, coding, hop)
      PROVE  TelemetryInv'
  <2>1. body \in Bodies
    BY DEF InputBodies, Bodies
  <2>2. [NoIdentity EXCEPT !.coding = coding, !.hop = hop] \in Headers
    BY DEF NoIdentity, Headers, Signatures
  <2>3. msg' \in Messages
    BY <1>1, <2>1, <2>2 DEF Collect, Messages
  <2> QED BY <1>1, <2>3 DEF Collect, TypeOK, Handed, Forwarded
<1>2. ASSUME NEW s \in Signals, NEW body \in InputBodies(Posted),
             NEW hotkey \in Hotkeys \cup {Missing},
             NEW netuid \in Netuids \cup {Missing, Junk},
             NEW signature \in InputSignatures(body),
             at = "idle", Post(s, body, hotkey, netuid, signature)
      PROVE  TelemetryInv'
  <2>1. body \in Bodies
    BY DEF InputBodies, Bodies
  <2>2. signature \in Signatures
    <3>1. NoMessage.body \in Bodies
      BY NoMessageType DEF Messages
    <3> QED BY <2>1, <3>1 DEF InputSignatures, Signatures, Signed
  <2>3. [NoIdentity EXCEPT !.coding = body.coding, !.hotkey = hotkey,
            !.netuid = netuid, !.signature = signature] \in Headers
    BY <2>1, <2>2 DEF NoIdentity, Headers, Bodies
  <2>4. msg' \in Messages
    BY <1>2, <2>1, <2>3 DEF Post, Messages
  <2> QED BY <1>2, <2>4 DEF Post, TypeOK, Handed, Forwarded
<1>3. CASE Outbound
  <2>1. msg' \in Messages
    BY <1>3, OutboundType DEF Outbound, TypeOK
  <2>2. TypeOK' /\ Handed'
    BY <1>3, <2>1 DEF Outbound, TypeOK, Handed
  <2>3. Forwarded'
    BY <1>3 DEF Outbound, Handed, Forwarded, OutboundStatus, OutboundMessage
  <2> QED BY <2>2, <2>3
<1>4. CASE OutboundRefuses
  BY <1>4, Statuses DEF OutboundRefuses, Answer, TypeOK, Handed, Forwarded
<1>5. CASE Inbound
  <2>1. msg' \in Messages
    BY <1>5, UpstreamType DEF Inbound, TypeOK
  <2>2. TypeOK' /\ Handed'
    BY <1>5, <2>1 DEF Inbound, TypeOK, Handed
  <2>3. Forwarded'
    BY <1>5 DEF Inbound, Forwarded, OutboundStatus, OutboundMessage, UpstreamMessage
  <2> QED BY <2>2, <2>3
<1>6. CASE InboundRefuses
  BY <1>6, Statuses DEF InboundRefuses, Answer, TypeOK, Handed, Forwarded
<1>7. ASSUME NEW row \in Hotkeys \X Netuids, RegistryChange(row)
      PROVE  TelemetryInv'
  <2>1. active' \subseteq Hotkeys \X Netuids
    BY <1>7 DEF RegistryChange, TypeOK
  <2> QED BY <1>7, <2>1 DEF RegistryChange, TypeOK, Handed, Forwarded, OutboundStatus,
            OutboundMessage, UpstreamMessage
<1>8. CASE StoreAnswers
  BY <1>8 DEF StoreAnswers, Answer, TypeOK, Handed, Forwarded
<1>9. CASE Finish
  BY <1>9, NoMessageType DEF Finish, TypeOK, Signals, Handed, Forwarded
<1>10. CASE UNCHANGED vars
  BY <1>10 DEF vars, TypeOK, Handed, Forwarded, OutboundStatus, OutboundMessage,
     UpstreamMessage
<1> QED BY <1>1, <1>2, <1>3, <1>4, <1>5, <1>6, <1>7, <1>8, <1>9, <1>10 DEF Next, Arrives

(* The request on its way is a signed and, for traces, tagged copy of the  *)
(* one the outbound view got, until the inbound view drops its headers.    *)
THEOREM TelemetryInvariant == Spec => []TelemetryInv
<1>1. Init => TelemetryInv
  BY InitTelemetryInv
<1>2. TelemetryInv /\ [Next]_vars => TelemetryInv'
  BY NextTelemetryInv
<1> QED BY <1>1, <1>2, PTL DEF Spec

--------------------------------------------------------------------------------
(* The properties. *)

(* The variables stay in their sets: every answer is one of the codes the  *)
(* views give.                                                             *)
THEOREM TelemetryTypes == Spec => []TypeOK
BY TelemetryInvariant, PTL DEF TelemetryInv

(* validate_bittensor_request and the payload checks let through whatever  *)
(* the outbound views signed for a registered wallet.                      *)
THEOREM OwnPasses == Spec => []OwnTelemetryPasses
<1>1. TelemetryInv => OwnTelemetryPasses
  <2> SUFFICES ASSUME TelemetryInv, at = "wire", onSite, signal \in UpstreamSignals,
                      OnSiteNetuid \in Supported, <<Wallet, OnSiteNetuid>> \in active,
                      signal = "metrics" =>
                         /\ Parses(sent.body, "snappy")
                         /\ \A i \in DOMAIN sent.body.items :
                               Labelled(sent.body.items[i], Wallet)
               PROVE  InboundStatus(msg) = 200
    BY DEF OwnTelemetryPasses
  <2>1. /\ msg = OutboundMessage(sent) /\ OutboundStatus(sent) = 200
        /\ sent \in Messages /\ signal \in Signals
    BY DEF TelemetryInv, Forwarded, TypeOK
  <2>2. sent.headers \in Headers /\ sent.body \in Bodies
    BY <2>1 DEF Messages
  <2>3. /\ msg.headers.hotkey = Wallet /\ msg.headers.netuid = OnSiteNetuid
        /\ msg.headers.signature = Signed(Wallet, msg.body)
    BY <2>1, <2>2 DEF OutboundMessage, WithIdentity, Headers
  <2>4. AuthStatus(msg.headers, msg.body) = 200
    <3>1. Signed(Wallet, msg.body) # Missing
      <4>1. msg.body \in Bodies
        BY DEF TelemetryInv, TypeOK, Messages
      <4> QED BY <4>1, SignaturesAssumption DEF Signed
    <3> QED BY <2>3, <3>1 DEF AuthStatus
  <2>5. PayloadStatus(msg.body, Wallet) = 200
    <3>1. CASE signal = "metrics"
      <4>1. msg.body = sent.body
        BY <2>1, <3>1 DEF OutboundMessage
      <4> QED BY <3>1, <4>1 DEF PayloadStatus
    <3>2. CASE signal = "traces"
      <4>1. Parses(Decompress(sent), "none")
        BY <2>1, <3>2 DEF OutboundStatus
      <4>2. Decompress(sent) \in Bodies
        BY <2>2 DEF Decompress, Bodies, Codings
      <4>3. msg.body = [Decompress(sent) EXCEPT !.items = Tag(@)]
        BY <2>1, <3>2 DEF OutboundMessage
      <4>4. Parses(msg.body, "none") /\ msg.body.items = Tag(Decompress(sent).items)
        BY <4>1, <4>2, <4>3 DEF Parses, Bodies
      <4>5. \A i \in DOMAIN msg.body.items : Attributed(msg.body.items[i], Wallet)
        BY <4>2, <4>4, TagFacts DEF Bodies
      <4> QED BY <3>2, <4>4, <4>5 DEF PayloadStatus
    <3> QED BY <2>1, <3>1, <3>2 DEF Signals
  <2> QED BY <2>3, <2>4, <2>5 DEF InboundStatus
<1> QED BY <1>1, TelemetryInvariant, PTL

(* traces_outbound_proxy rewrites no resource but for its owner, and       *)
(* metrics_outbound_proxy nothing at all: what is signed is what the       *)
(* collector sent.                                                         *)
THEOREM NothingElse == Spec => []NothingElseChanges
<1>1. TelemetryInv => NothingElseChanges
  <2> SUFFICES ASSUME TelemetryInv, at = "wire", onSite
               PROVE  /\ DOMAIN msg.body.items = DOMAIN sent.body.items
                      /\ \A i \in DOMAIN msg.body.items :
                            Extends(msg.body.items[i], sent.body.items[i])
    BY DEF NothingElseChanges, Extends
  <2>1. msg = OutboundMessage(sent) /\ sent.headers \in Headers /\ sent.body \in Bodies
    BY DEF TelemetryInv, Forwarded, TypeOK, Messages
  <2>2. CASE signal = "metrics"
    <3>1. msg.body = sent.body
      BY <2>1, <2>2 DEF OutboundMessage
    <3> QED BY <3>1 DEF Extends, Occurs
  <2>3. CASE signal # "metrics"
    <3>1. Decompress(sent) \in Bodies /\ Decompress(sent).items = sent.body.items
      BY <2>1 DEF Decompress, Bodies, Codings
    <3>2. msg.body = [Decompress(sent) EXCEPT !.items = Tag(@)]
      BY <2>1, <2>3 DEF OutboundMessage
    <3>3. msg.body.items = Tag(sent.body.items)
      BY <3>1, <3>2 DEF Bodies
    <3>4. sent.body.items \in Seq(Seq(Pairs))
      BY <2>1 DEF Bodies
    <3> QED BY <3>3, <3>4, TagFacts
  <2> QED BY <2>2, <2>3
<1> QED BY <1>1, TelemetryInvariant, PTL

(* The outbound traces view drops Content-Encoding with the compression it *)
(* undoes, and no other view touches either.                               *)
THEOREM CodingHonest == Spec => []CodingIsHonest
<1>1. TelemetryInv => CodingIsHonest
  <2> SUFFICES ASSUME TelemetryInv, at \in {"wire", "upstream"}, onSite,
                      sent.headers.coding = sent.body.coding
               PROVE  msg.headers.coding = msg.body.coding
    BY DEF CodingIsHonest
  <2> DEFINE out == OutboundMessage(sent)
  <2>1. /\ OutboundStatus(sent) = 200 /\ sent \in Messages
        /\ at = "wire" => msg = out
        /\ at = "upstream" => msg = UpstreamMessage(out)
    BY DEF TelemetryInv, Forwarded, TypeOK
  <2>2. sent.headers \in Headers /\ sent.body \in Bodies
    BY <2>1 DEF Messages
  <2>3. CASE signal = "metrics"
    <3>1. out.body = sent.body /\ out.headers.coding = sent.headers.coding
      BY <2>2, <2>3 DEF OutboundMessage, WithIdentity, Headers
    <3> QED BY <2>1, <2>3, <3>1 DEF UpstreamMessage
  <2>4. CASE signal # "metrics"
    <3>1. signal = "traces"
      BY <2>4 DEF TelemetryInv, TypeOK, Signals
    <3>2. Decompress(sent) \in Bodies /\ Decompress(sent).coding = "none"
      BY <2>1, <2>2, <3>1 DEF OutboundStatus, Parses, Decompress, Bodies, Codings
    <3>3. out.body.coding = "none"
      BY <2>4, <3>2 DEF OutboundMessage, Bodies
    <3>4. out.headers.coding = "none"
      BY <2>2, <2>4 DEF OutboundMessage, WithIdentity, Headers
    <3> QED BY <2>1, <2>4, <3>3, <3>4 DEF UpstreamMessage, NoIdentity
  <2> QED BY <2>3, <2>4
<1> QED BY <1>1, TelemetryInvariant, PTL

(* A step in which a request reaches the store is the inbound view's. *)
LEMMA OnlyInboundStores ==
    ASSUME Next, at = "wire", at' = "upstream"
    PROVE  /\ AuthStatus(msg.headers, msg.body) = 200
           /\ PayloadStatus(msg.body, msg.headers.hotkey) = 200
           /\ msg' = UpstreamMessage(msg)
<1>1. Inbound
  BY DEF Next, Arrives, Outbound, OutboundRefuses, InboundRefuses, RegistryChange,
     StoreAnswers, Finish, Answer
<1> QED BY <1>1 DEF Inbound, InboundStatus

(* validate_bittensor_request: whatever the registry, nothing it refuses   *)
(* is stored, and what is stored is the body the signature is over.        *)
THEOREM StoredVouched == Spec => StoredIsVouchedFor
<1>1. ASSUME [Next]_vars, at' = "upstream", at = "wire"
      PROVE  /\ msg.headers.netuid \in Supported
             /\ <<msg.headers.hotkey, msg.headers.netuid>> \in active
             /\ msg.headers.signature = Signed(msg.headers.hotkey, msg'.body)
  <2>1. Next
    BY <1>1 DEF vars
  <2>2. AuthStatus(msg.headers, msg.body) = 200 /\ msg'.body = msg.body
    BY <1>1, <2>1, OnlyInboundStores DEF UpstreamMessage
  <2> QED BY <2>2 DEF AuthStatus
<1> QED BY <1>1, PTL DEF Spec, StoredIsVouchedFor

(* _validate_timeseries and _validate_trace_hotkeys read different         *)
(* occurrences of the key, but either is one the item has.                 *)
THEOREM StoredNamed == Spec => StoredNamesItsOwner
<1>1. ASSUME TelemetryInv, [Next]_vars, at' = "upstream" /\ at = "wire"
      PROVE  \A i \in DOMAIN msg'.body.items :
                \E j \in DOMAIN msg'.body.items[i] :
                   msg'.body.items[i][j] = [key |-> "hotkey", val |-> msg.headers.hotkey]
  <2> TAKE i \in DOMAIN msg'.body.items
  <2> DEFINE item == msg.body.items[i]
  <2>1. Next
    BY <1>1 DEF vars
  <2>2. PayloadStatus(msg.body, msg.headers.hotkey) = 200 /\ msg'.body = msg.body
    BY <1>1, <2>1, OnlyInboundStores DEF UpstreamMessage
  <2>3. item \in Seq(Pairs)
    <3>1. msg.body.items \in Seq(Seq(Pairs))
      BY <1>1 DEF TelemetryInv, TypeOK, Messages, Bodies
    <3> QED BY <1>1, <2>2, <3>1
  <2>4. Labelled(item, msg.headers.hotkey) \/ Attributed(item, msg.headers.hotkey)
    BY <1>1, <2>2 DEF PayloadStatus
  <2>5. PICK j \in Occurs(item, "hotkey") : item[j].val = msg.headers.hotkey
    BY <2>3, <2>4, FirstOccurs, LastOccurs DEF Labelled, Attributed
  <2>6. j \in DOMAIN item /\ item[j].key = "hotkey" /\ item[j] \in Pairs
    BY <2>3 DEF Occurs
  <2>7. item[j] = [key |-> "hotkey", val |-> msg.headers.hotkey]
    BY <2>5, <2>6 DEF Pairs
  <2> QED BY <2>2, <2>6, <2>7
<1> QED BY <1>1, TelemetryInvariant, PTL DEF Spec, StoredNamesItsOwner
================================================================================
