---------------------------- MODULE MCEvaluation ----------------------------
(* Instances of Evaluation: every pair of small snapshots made of a handful of *)
(* services that share descriptions, instances, networks and VLANs.            *)
EXTENDS Evaluation, TLC

Lan1 == [host |-> "lan1.1", network |-> "lan1", p2p |-> FALSE]
Lan1Second == [host |-> "lan1.2", network |-> "lan1", p2p |-> FALSE]
Lan2 == [host |-> "lan2.1", network |-> "lan2", p2p |-> FALSE]
LinkNear == [host |-> "link.0", network |-> "link", p2p |-> TRUE]
LinkFar == [host |-> "link.1", network |-> "link", p2p |-> TRUE]
Garbled == [host |-> "?", network |-> Absent, p2p |-> FALSE]

Service(type, description, subtype, instances, addresses, vlans) ==
    [type |-> type, description |-> description, subtype |-> subtype, interface |-> "unit",
     instances |-> instances, addresses |-> addresses, vlans |-> vlans]

\* Services that differ in the rule that tells them apart.
Customer == Service("IPVPN", "cust", "unicast", <<"vrf1">>, <<Lan1>>, <<>>)
CustomerMvpn == Service("IPVPN", "cust", "mvpn", <<"vrf2">>, <<Lan2>>, <<>>)
Unnamed == Service("IPVPN", Absent, Absent, <<"vrf1">>, <<Lan2, Garbled>>, <<"v10">>)
Bridged == Service("IPVPN", Absent, Absent, <<>>, <<Lan1, Lan2>>, <<"v10", "v20">>)
NearEnd == Service("IPVPN", Absent, Absent, <<>>, <<LinkNear, Lan1>>, <<"v20">>)
FarEnd == Service("IPVPN", "cust", Absent, <<>>, <<LinkFar>>, <<"v10">>)
Lan == Service("E-LAN", "cust", Absent, <<"evpn">>, <<>>, <<"v10">>)

\* A unit with two addresses in one network.
Secondary == Service("IPVPN", Absent, Absent, <<>>, <<Lan1, Lan1Second>>, <<>>)

Portfolio == {Customer, CustomerMvpn, Unnamed, Bridged, NearEnd, FarEnd, Lan, Secondary}
AllSnapshots == [Scopes -> Portfolio]

Anything == [type |-> Absent, description |-> Absent, interface |-> Absent, instance |-> Absent]
Described == [Anything EXCEPT !.description = "cust", !.type = "IPVPN"]
InVrf(instance) == [Anything EXCEPT !.instance = instance]

Empty == [rules |-> <<>>, ignore |-> {}]
\* One rule that may hit several services of a side, one more precise, one service ignored.
Handwritten ==
    [rules |-> <<[baseline |-> Described, subject |-> InVrf("vrf1")],
                 [baseline |-> InVrf("vrf2"), subject |-> Described]>>,
     ignore |-> {[Anything EXCEPT !.type = "E-LAN", !.instance = "evpn"]}]

BothMappings == {Empty, Handwritten}
NoMapping == {Empty}
OnlyHandwritten == {Handwritten}

TypeFilters == {{"IPVPN", "E-LAN"}, {"E-LAN"}}

Interchangeable == Permutations(BaselineScopes) \cup Permutations(SubjectScopes)
=============================================================================
