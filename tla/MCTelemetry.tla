------------------------------- MODULE MCTelemetry -------------------------------
(* Small instances of Telemetry for TLC. *)
EXTENDS Telemetry, TLC

CONSTANTS k1, k2, n1, n2

Owner(k) == [key |-> "hotkey", val |-> k]
Net(n)   == [key |-> "netuid", val |-> n]
Other(v) == [key |-> "other", val |-> v]

(* Lists of at most two pairs, two keys missing, doubled or wrong, and a   *)
(* longer one; one item of each, and two items of which one may be wrong.  *)
PairChoice == {Owner(k1), Owner(k2), Owner(Blank), Net(n2), Other(k2)}
ShortLists ==
    {<< >>} \cup {<<p>> : p \in PairChoice} \cup {<<p, q>> : p, q \in PairChoice}
OneItem  == {<<l>> : l \in ShortLists \cup {<<Other(n1), Owner(k2), Net(n2), Owner(k1)>>}}
TwoItems == {<<<<Owner(k1)>>, l>> : l \in ShortLists}

ManyPayloads == {<< >>} \cup OneItem \cup TwoItems
FewPayloads  ==
    {<< >>, <<<<Owner(k1)>>>>, <<<<Owner(k2), Owner(k1)>>>>, <<<<Other(k1)>>>>,
     <<<<Owner(k1)>>, <<Owner(k2)>>>>}
=================================================================================
