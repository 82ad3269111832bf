-------------------------------- MODULE Telemetry --------------------------------
(***************************************************************************)
(* What the two proxies do to one request's headers and body, and when the *)
(* central one lets it through.  A request comes to the outbound view from *)
(* the site's own collector or to the inbound view from anybody; the       *)
(* outbound view signs it, for traces after naming its owner on every      *)
(* resource, and the inbound view checks the signature against the         *)
(* registry and the owner named on every item.  Delivery has what happens  *)
(* to the calls themselves.                                                *)
(*                                                                         *)
(* The decimal text of a netuid is represented by the netuid, a signature  *)
(* by who signed what, a body by its coding and the labels or attributes   *)
(* of its items; an attribute that is not a string reads as Blank.         *)
(***************************************************************************)
EXTENDS Naturals, Sequences

CONSTANTS
    Hotkeys, Netuids,
    Blank,             \* the empty text
    Missing,           \* a header that is absent or empty
    Junk,              \* a netuid that is no number, a signature that is no hex
    Wallet,            \* the on-site wallet's hotkey
    OnSiteNetuid,      \* BITTENSOR_NETUID of the on-site proxy
    Supported,         \* BITTENSOR_NETUIDS of the central proxy
    CentralSignals,    \* signals with a CENTRAL_*_PROXY_URL on site
    UpstreamSignals,   \* signals with an UPSTREAM_*_URL at the central proxy
    Collected,         \* what the site's collector sends: items, each a list
                       \*   of pairs
    Posted             \* what anybody else sends to the inbound views

Signals == {"metrics", "traces"}
Codings == {"none", "gzip", "snappy"}
Pairs   == [key : {"hotkey", "netuid", "other"}, val : Hotkeys \cup Netuids \cup {Blank}]

ASSUME IdentityAssumption ==
    /\ Wallet \in Hotkeys /\ OnSiteNetuid \in Netuids
    /\ {Blank, Missing, Junk} \cap (Hotkeys \cup Netuids) = {}
    /\ Missing # Junk /\ Hotkeys \cap Netuids = {}
ASSUME DeploymentAssumption ==
    /\ Supported \subseteq Netuids
    /\ CentralSignals \subseteq Signals /\ UpstreamSignals \subseteq Signals
ASSUME PayloadsAssumption == Collected \cup Posted \subseteq Seq(Seq(Pairs))

VARIABLES
    active,   \* <<hotkey, netuid>> of the active rows of the registry
    at,       \* where the request is: "idle", "outbound", "wire", "upstream",
              \*   "answered"
    signal,   \* metrics or traces
    msg,      \* the request as it is on its current hop
    sent,     \* history: the request the outbound view got
    onSite,   \* the request has come through the outbound view
    status    \* of the answer

vars == <<active, at, signal, msg, sent, onSite, status>>

Bodies == [coding : Codings, wellFormed : BOOLEAN, items : Seq(Seq(Pairs))]
Signed(key, body) == [by |-> key, over |-> body]
Signatures == [by : Hotkeys, over : Bodies] \cup {Missing, Junk}
ASSUME SignaturesAssumption == {Missing, Junk} \cap [by : Hotkeys, over : Bodies] = {}

(* `coding': Content-Encoding; `hop': there are hop-by-hop headers. *)
Headers == [coding : Codings, hop : BOOLEAN, hotkey : Hotkeys \cup {Missing},
            netuid : Netuids \cup {Missing, Junk}, signature : Signatures]
Messages == [headers : Headers, body : Bodies]

NoIdentity == [coding |-> "none", hop |-> FALSE, hotkey |-> Missing,
               netuid |-> Missing, signature |-> Missing]
NoMessage  == [headers |-> NoIdentity,
               body |-> [coding |-> "none", wellFormed |-> FALSE, items |-> << >>]]

Init ==
    /\ active \in SUBSET (Hotkeys \X Netuids)
    /\ at = "idle"
    /\ signal = "metrics"
    /\ msg = NoMessage /\ sent = NoMessage
    /\ onSite = FALSE
    /\ status = 0

---------------------------------------------------------------------------------
(* Labels and attributes: lists of pairs in which a key may occur twice. *)

Occurs(pairs, k) == {i \in DOMAIN pairs : pairs[i].key = k}
First(pairs, k)  == CHOOSE i \in Occurs(pairs, k) : \A j \in Occurs(pairs, k) : i <= j
Last(pairs, k)   == CHOOSE i \in Occurs(pairs, k) : \A j \in Occurs(pairs, k) : i >= j

(* Variant: takes the loop's last pair for a new one. *)
Upsert_ReusesLast(pairs, k, v) ==
    IF Occurs(pairs, k) # {} THEN [pairs EXCEPT ![First(pairs, k)].val = v]
    ELSE IF pairs = << >> THEN << [key |-> k, val |-> v] >>
    ELSE [pairs EXCEPT ![Len(pairs)] = [key |-> k, val |-> v]]

(* Variant: always appends, in front of no reader that takes the first. *)
Upsert_Appends(pairs, k, v) == Append(pairs, [key |-> k, val |-> v])

(* _upsert_string_attr *)
Upsert(pairs, k, v) ==
    IF Occurs(pairs, k) = {} THEN Append(pairs, [key |-> k, val |-> v])
    ELSE [pairs EXCEPT ![First(pairs, k)].val = v]

Tag(items) ==
    [i \in DOMAIN items |->
        Upsert(Upsert(items[i], "hotkey", Wallet), "netuid", OnSiteNetuid)]

(* _validate_timeseries: the last label counts, and Blank is no hotkey. *)
Labelled(labels, key) ==
    /\ Occurs(labels, "hotkey") # {}
    /\ labels[Last(labels, "hotkey")].val = key

(* Variant: a resource without the attribute passes. *)
Attributed_OrNot(attrs, key) ==
    Occurs(attrs, "hotkey") # {} => attrs[First(attrs, "hotkey")].val = key

(* _validate_trace_hotkeys: the first attribute counts. *)
Attributed(attrs, key) ==
    /\ Occurs(attrs, "hotkey") # {}
    /\ attrs[First(attrs, "hotkey")].val = key

---------------------------------------------------------------------------------
(* The outbound views. *)

(* decompress_body fails on a coding other than gzip, or on no gzip at all. *)
Decodable(m) ==
    m.headers.coding \in {"none", "gzip"} \cap {"none", m.body.coding}
Decompress(m) ==
    IF m.headers.coding = "none" THEN m.body ELSE [m.body EXCEPT !.coding = "none"]

Parses(body, coding) == body.coding = coding /\ body.wellFormed

(* Variant: answers an unknown coding with a status of its own. *)
OutboundStatus_Unsupported(m) ==
    IF signal \notin CentralSignals THEN 500
    ELSE IF signal = "traces" /\ ~Decodable(m) THEN 415
    ELSE IF signal = "traces" /\ ~Parses(Decompress(m), "none") THEN 400
    ELSE 200

OutboundStatus(m) ==
    IF signal \notin CentralSignals THEN 500
    ELSE IF signal = "traces" /\ ~(Decodable(m) /\ Parses(Decompress(m), "none"))
    THEN 400
    ELSE 200

WithIdentity(headers, body) ==
    [headers EXCEPT !.hotkey = Wallet, !.netuid = OnSiteNetuid,
                    !.signature = Signed(Wallet, body)]

(* Variant: the headers of traces go on as they came. *)
OutboundMessage_KeepsHeaders(m) ==
    LET body == IF signal = "metrics" THEN m.body
                ELSE [Decompress(m) EXCEPT !.items = Tag(@)]
    IN  [headers |-> WithIdentity(m.headers, body), body |-> body]

(* Metrics go on as they came, with the identity headers put in; traces    *)
(* are decompressed and tagged, and lose what HEADERS_TO_STRIP names.      *)
OutboundMessage(m) ==
    IF signal = "metrics"
    THEN [headers |-> WithIdentity(m.headers, m.body), body |-> m.body]
    ELSE LET body == [Decompress(m) EXCEPT !.items = Tag(@)] IN
         [headers |-> WithIdentity([m.headers EXCEPT !.coding = "none", !.hop = FALSE],
                                   body),
          body |-> body]

---------------------------------------------------------------------------------
(* The inbound views. *)

(* Variant: any subnet's row will do. *)
AuthStatus_AnySubnet(h, body) ==
    IF Missing \in {h.hotkey, h.signature, h.netuid} THEN 400
    ELSE IF h.netuid = Junk THEN 400
    ELSE IF h.netuid \notin Supported THEN 403
    ELSE IF \A n \in Netuids : <<h.hotkey, n>> \notin active THEN 403
    ELSE IF h.signature # Signed(h.hotkey, body) THEN 400
    ELSE 200

(* validate_bittensor_request, in the order of its checks. *)
AuthStatus(h, body) ==
    IF Missing \in {h.hotkey, h.signature, h.netuid} THEN 400
    ELSE IF h.netuid = Junk THEN 400
    ELSE IF h.netuid \notin Supported THEN 403
    ELSE IF <<h.hotkey, h.netuid>> \notin active THEN 403
    ELSE IF h.signature # Signed(h.hotkey, body) THEN 400
    ELSE 200

PayloadStatus(body, key) ==
    IF ~Parses(body, IF signal = "metrics" THEN "snappy" ELSE "none") THEN 400
    ELSE IF \E i \in DOMAIN body.items :
               IF signal = "metrics" THEN ~Labelled(body.items[i], key)
               ELSE ~Attributed(body.items[i], key) THEN 403
    ELSE 200

InboundStatus(m) ==
    IF signal \notin UpstreamSignals THEN 500
    ELSE IF AuthStatus(m.headers, m.body) # 200 THEN AuthStatus(m.headers, m.body)
    ELSE PayloadStatus(m.body, m.headers.hotkey)

(* Metrics go to the store with all their headers, traces with none but a  *)
(* content type; the body is the signed one.                               *)
UpstreamMessage(m) ==
    IF signal = "metrics" THEN m ELSE [headers |-> NoIdentity, body |-> m.body]

---------------------------------------------------------------------------------
Answer(code) ==
    /\ at' = "answered" /\ status' = code
    /\ UNCHANGED <<active, signal, msg, sent, onSite>>

(* The site's collector: no identity of its own, any coding it may declare. *)
Collect(s, body, coding, hop) ==
    /\ at' = "outbound" /\ signal' = s /\ onSite' = TRUE
    /\ msg' = [headers |-> [NoIdentity EXCEPT !.coding = coding, !.hop = hop],
               body |-> body]
    /\ sent' = msg'
    /\ UNCHANGED <<active, status>>

Outbound ==
    /\ at = "outbound" /\ OutboundStatus(msg) = 200
    /\ at' = "wire" /\ msg' = OutboundMessage(msg)
    /\ UNCHANGED <<active, signal, sent, onSite, status>>

OutboundRefuses ==
    /\ at = "outbound" /\ OutboundStatus(msg) # 200
    /\ Answer(OutboundStatus(msg))

(* Somebody else posts to the inbound view. *)
Post(s, body, hotkey, netuid, signature) ==
    /\ at' = "wire" /\ signal' = s /\ onSite' = FALSE
    /\ msg' = [headers |-> [NoIdentity EXCEPT !.coding = body.coding,
                  !.hotkey = hotkey, !.netuid = netuid, !.signature = signature],
               body |-> body]
    /\ UNCHANGED <<active, sent, status>>

(* A synchronisation, or an operator, changes a row of the registry. *)
RegistryChange(row) ==
    /\ active' = IF row \in active THEN active \ {row} ELSE active \cup {row}
    /\ UNCHANGED <<at, signal, msg, sent, onSite, status>>

Inbound ==
    /\ at = "wire" /\ InboundStatus(msg) = 200
    /\ at' = "upstream" /\ msg' = UpstreamMessage(msg)
    /\ UNCHANGED <<active, signal, sent, onSite, status>>

InboundRefuses ==
    /\ at = "wire" /\ InboundStatus(msg) # 200
    /\ Answer(InboundStatus(msg))

StoreAnswers == at = "upstream" /\ Answer(200)

Finish ==
    /\ at = "answered"
    /\ at' = "idle" /\ signal' = "metrics" /\ status' = 0
    /\ msg' = NoMessage /\ sent' = NoMessage /\ onSite' = FALSE
    /\ UNCHANGED active

InputBodies(P) == [coding : Codings, wellFormed : BOOLEAN, items : P]
InputSignatures(body) ==
    {Missing, Junk} \cup {Signed(k, b) : k \in Hotkeys, b \in {body, NoMessage.body}}

(* One request at a time: another begins when this one is answered. *)
Arrives ==
    /\ at = "idle"
    /\ \/ \E s \in Signals, body \in InputBodies(Collected), coding \in Codings,
             hop \in BOOLEAN : Collect(s, body, coding, hop)
       \/ \E s \in Signals, body \in InputBodies(Posted),
             hotkey \in Hotkeys \cup {Missing}, netuid \in Netuids \cup {Missing, Junk} :
             \E signature \in InputSignatures(body) :
                Post(s, body, hotkey, netuid, signature)

Next ==
    \/ Arrives
    \/ Outbound \/ OutboundRefuses \/ Inbound \/ InboundRefuses
    \/ at = "wire" /\ \E row \in Hotkeys \X Netuids : RegistryChange(row)
    \/ StoreAnswers \/ Finish

Spec == Init /\ [][Next]_vars

---------------------------------------------------------------------------------
(* Properties. *)

TypeOK ==
    /\ active \subseteq Hotkeys \X Netuids
    /\ at \in {"idle", "outbound", "wire", "upstream", "answered"}
    /\ signal \in Signals
    /\ msg \in Messages /\ sent \in Messages
    /\ onSite \in BOOLEAN
    /\ status \in {0, 200, 400, 403, 500}

(* The two views agree: what the outbound view signs the inbound view lets *)
(* through, whatever the collector put on the items of a trace, as long as *)
(* the registry lets the wallet in.  Metrics are not tagged on the way:    *)
(* their labels have to name the wallet already.                           *)
OwnTelemetryPasses ==
    /\ at = "wire" /\ onSite
    /\ signal \in UpstreamSignals
    /\ OnSiteNetuid \in Supported /\ <<Wallet, OnSiteNetuid>> \in active
    /\ signal = "metrics" =>
          /\ Parses(sent.body, "snappy")
          /\ \A i \in DOMAIN sent.body.items : Labelled(sent.body.items[i], Wallet)
    => InboundStatus(msg) = 200

(* What reaches the store is, bit for bit, what a hotkey signed that the   *)
(* registry lets in, at that moment, for the supported subnet it claims.   *)
StoredIsVouchedFor ==
    [][at' = "upstream" /\ at = "wire" =>
        LET h == msg.headers IN
        /\ h.netuid \in Supported /\ <<h.hotkey, h.netuid>> \in active
        /\ h.signature = Signed(h.hotkey, msg'.body)]_vars

(* `Every time series contains the authenticated hotkey', `the             *)
(* authenticated hotkey on every OTLP resource' (README.md): items that    *)
(* name nobody, or only somebody else, never reach the store.              *)
StoredNamesItsOwner ==
    [][at' = "upstream" /\ at = "wire" =>
        \A i \in DOMAIN msg'.body.items :
           \E j \in DOMAIN msg'.body.items[i] :
              msg'.body.items[i][j] = [key |-> "hotkey", val |-> msg.headers.hotkey]]_vars

(* Tagging adds the owner and changes nothing else: items keep their       *)
(* number, their pairs stay in their places, and no pair of another key is *)
(* rewritten, dropped or added.                                            *)
NothingElseChanges ==
    at = "wire" /\ onSite =>
        /\ DOMAIN msg.body.items = DOMAIN sent.body.items
        /\ \A i \in DOMAIN msg.body.items :
              LET old == sent.body.items[i]
                  new == msg.body.items[i]
              IN  /\ \A j \in DOMAIN old : j \in DOMAIN new /\ new[j].key = old[j].key
                  /\ \A j \in Occurs(new, "other") : j \in DOMAIN old /\ new[j] = old[j]

(* A body is described by the headers it travels with on every hop, if it  *)
(* was on the first (`they no longer match the actual bytes sent').        *)
CodingIsHonest ==
    /\ at \in {"wire", "upstream"} /\ onSite
    /\ sent.headers.coding = sent.body.coding
    => msg.headers.coding = msg.body.coding

(* `Hop-by-hop headers must never cross a proxy boundary', in either       *)
(* direction (core/proxy_outbound.py).  The metrics views forward the      *)
(* request's headers as they are.                                          *)
HopByHopStays == at \in {"wire", "upstream"} => ~msg.headers.hop
=================================================================================
