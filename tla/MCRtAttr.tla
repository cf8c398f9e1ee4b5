------------------------------ MODULE MCRtAttr ------------------------------
(* Instances of RtAttr for TLC: VLANs with every choice of the optional    *)
(* attributes in the kernel's order, other kinds of links with lengths     *)
(* that are and are not divisible by 4, and the plain attributes of a link *)
(* message with the sizes the kernel gives them.                           *)
EXTENDS RtAttr

Field(type, values) == {<<[type |-> type, value |-> v]>> : v \in values}
Optional(type, values) == {<<>>} \cup Field(type, values)

VlanData ==
  {FlattenSeq(<<p, i, f, q, e>>) :
     p \in Field(IFLA_VLAN_PROTOCOL, {129, 43144}),
     i \in Field(IFLA_VLAN_ID, {0, 5, 4095}),
     f \in Optional(IFLA_VLAN_FLAGS, {1, 17}),
     q \in Optional(IFLA_VLAN_INGRESS_QOS, {5}),
     e \in Optional(IFLA_VLAN_EGRESS_QOS, {1, 2})}

Vlans == {[kind |-> "vlan", kindLen |-> 9, data |-> d] : d \in VlanData}

OtherKinds ==
  {[kind |-> "bridge", kindLen |-> 11, data |-> <<[type |-> 1, value |-> 6]>>],
   [kind |-> "macvlan", kindLen |-> 12, data |-> <<[type |-> 1, value |-> 4]>>],
   [kind |-> "dummy", kindLen |-> 10, data |-> <<>>]}

Kinds == Vlans \cup OtherKinds
KindsAndSlaves == Kinds \cup {[kind |-> "none", kindLen |-> 0, data |-> <<>>]}

LinkAttrs ==
  {[type |-> t[1], len |-> 4 + t[2]] :
     t \in {<<"IFNAME", 3>>, <<"ADDRESS", 0>>, <<"ADDRESS", 6>>, <<"BROADCAST", 6>>,
            <<"STATS64", 192>>, <<"STATS", 96>>, <<"MAP", 32>>, <<"PROMISCUITY", 4>>,
            <<"PROTO_DOWN", 1>>, <<"OPERSTATE", 1>>, <<"LINKMODE", 1>>, <<"CARRIER", 1>>,
            <<"NUM_TX_QUEUES", 4>>, <<"NUM_RX_QUEUES", 4>>, <<"MTU", 4>>, <<"LINK", 4>>,
            <<"GROUP", 4>>, <<"QDISC", 3>>, <<"QDISC", 8>>, <<"CARRIER_CHANGES", 4>>,
            <<"TXQLEN", 4>>, <<"AF_SPEC", 696>>, <<"WIRELESS", 8>>, <<"XDP", 8>>}}

=============================================================================
