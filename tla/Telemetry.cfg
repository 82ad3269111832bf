\* Everything the site's collector may hand to the outbound views, and
\* requests from anywhere at the inbound views; one subnet is unsupported.
SPECIFICATION Spec
CONSTANTS
    k1 = k1
    k2 = k2
    n1 = n1
    n2 = n2
    Hotkeys = {k1, k2}
    Netuids = {n1, n2}
    Blank = Blank
    Missing = Missing
    Junk = Junk
    Wallet = k1
    OnSiteNetuid = n1
    Supported = {n1}
    CentralSignals = {"metrics", "traces"}
    UpstreamSignals = {"metrics", "traces"}
    Collected <- ManyPayloads
    Posted <- FewPayloads
INVARIANTS
    TypeOK
    OwnTelemetryPasses
    NothingElseChanges
    CodingIsHonest
PROPERTIES
    StoredIsVouchedFor
    StoredNamesItsOwner
