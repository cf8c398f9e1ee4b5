--------------------------- MODULE MCIpReassembly ---------------------------
(* Files of seven or more records: a datagram in two fragments, one in     *)
(* four, one in five and one in seven (as in the repository's in.pcap),    *)
(* the last two more than the table has room for; datagrams with IP        *)
(* options in all fragments (source route), in the first alone (record     *)
(* route, which is not copied) or in the last alone; other packets,        *)
(* records that are cut or too long; and files that end early.             *)
EXTENDS IpReassembly

WithOptions(d, n, size, which) ==
  {[datagram |-> d, nr |-> k, count |-> n, ether_type |-> 2048,
    options |-> k \in which, size |-> size] : k \in 1 .. n}

Datagram(d, n, size) == WithOptions(d, n, size, {})

Two == Datagram("a", 2, "whole")
Four == Datagram("b", 4, "whole")
Five == Datagram("c", 5, "whole")
Seven == Datagram("d", 7, "whole")
Packet == Datagram("ip", 1, "whole")
Cut == Datagram("cut", 2, "cut")
Long == Datagram("long", 1, "long")
Other == {[datagram |-> "ip6", nr |-> 1, count |-> 1, ether_type |-> 34525,
           options |-> FALSE, size |-> "whole"]}
All == WithOptions("e", 3, "whole", 1 .. 3)
First == WithOptions("f", 4, "whole", {1})
Last == WithOptions("g", 3, "whole", {3})

MCFiles ==
  {Seven, Two \cup Five, Two \cup Four \cup Packet, Two \cup Five \cup Packet \cup Other,
   Four \cup Other \cup Cut, Five \cup Cut, Two \cup Four \cup Long, Seven \cup Two,
   All \cup First, First \cup Last, Two \cup All \cup Last}
    \cup SUBSET (Four \cup Packet)

=============================================================================
