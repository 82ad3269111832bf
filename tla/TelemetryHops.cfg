\* The comment on hop-by-hop headers, refuted by the metrics views.
SPECIFICATION Spec
CONSTANTS
    k1 = k1
    k2 = k2
    n1 = n1
    n2 = n2
    Hotkeys = {k1, k2}
    Netuids = {n1, n2}
    Blank = Blank
    Missing = Missing
    Junk = Junk
    Wallet = k1
    OnSiteNetuid = n1
    Supported = {n1, n2}
    CentralSignals = {"metrics", "traces"}
    UpstreamSignals = {"metrics", "traces"}
    Collected <- FewPayloads
    Posted = {}
INVARIANTS
    HopByHopStays
