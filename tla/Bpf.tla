-------------------------------- MODULE Bpf --------------------------------
(***************************************************************************)
(* bpf/: main.c loads the eBPF program t1 and runs it once on a packet in  *)
(* an array of bytes, although the program's argument is declared to be a  *)
(* struct rte_mbuf.  The programs t2 and t3 rewrite source addresses in    *)
(* the packets of whoever loads them.  Numbers are tuples of their bytes,  *)
(* the most significant first; memory holds them in network order, so the  *)
(* little-endian machine reads and writes them reversed.                   *)
(***************************************************************************)
EXTENDS Integers, Sequences, SequencesExt

CONSTANT Octet  \* the bytes an address may have

ASSUME BpfAssumption == {0, 2, 10, 20} \subseteq Octet

VARIABLES
  pc,   \* the next step of main(), or how it ended
  ret,  \* bpfret
  pkt   \* a packet that t2 and t3 get: ether_type and saddr in memory,
        \* and the bytes that are at the place of saddr if it is not IPv4

vars == <<pc, ret, pkt>>

Packet == [ether_type : {<<8, 0>>, <<0, 8>>, <<8, 6>>},
           saddr : {<<a, b, c, d>> : a, b, c, d \in Octet}]

Init == pc = "eal_init" /\ ret = 0 /\ pkt \in Packet

Load(bytes) == Reverse(bytes)
Store(v) == Reverse(v)
bswap(v) == Reverse(v)

-----------------------------------------------------------------------------
(* main(): rte_panic(), or NULL from mbuf_bpf_elf_load().                  *)
main_init ==
  /\ pc = "eal_init" /\ pc' \in {"load", "panicked"}
  /\ UNCHANGED <<ret, pkt>>

mbuf_bpf_elf_load ==
  /\ pc = "load" /\ pc' \in {"exec", "missed"}
  /\ UNCHANGED <<ret, pkt>>

XDP_DROP == 1

(* Mutant: it returns the type it finds in the bytes. *)
entry_Type == 2054

(* t1: it does not look at its argument.                                   *)
entry == XDP_DROP

(* rte_bpf_exec() on the bytes of pkt[]; the result is printed and the     *)
(* program destroyed.                                                      *)
rte_bpf_exec ==
  /\ pc = "exec" /\ pc' = "returned"
  /\ ret' = entry
  /\ UNCHANGED pkt

-----------------------------------------------------------------------------
Ipv4 == <<8, 0>>

(* Mutant: packets of other types are not left alone. *)
eentry_AnyType(p, from, to) ==
  IF bswap(Load(p.saddr)) = from
  THEN [p EXCEPT !.saddr = Store(bswap(to))] ELSE p

(* eentry() of t2.c and t3.c, which differ in the two addresses. *)
eentry(p, from, to) ==
  IF bswap(Load(p.ether_type)) = Ipv4 /\ bswap(Load(p.saddr)) = from
  THEN [p EXCEPT !.saddr = Store(bswap(to))] ELSE p

t2(p) == eentry(p, <<10, 0, 0, 2>>, <<10, 0, 0, 20>>)
t3(p) == eentry(p, <<10, 0, 0, 20>>, <<10, 0, 0, 2>>)

run_t2 == pkt' = t2(pkt) /\ UNCHANGED <<pc, ret>>
run_t3 == pkt' = t3(pkt) /\ UNCHANGED <<pc, ret>>

Next == main_init \/ mbuf_bpf_elf_load \/ rte_bpf_exec \/ run_t2 \/ run_t3

Spec == Init /\ [][Next]_vars

-----------------------------------------------------------------------------
(* Properties.                                                             *)

(* Type invariant: what the programs write is a packet again. *)
TypeOK ==
  /\ pc \in {"eal_init", "load", "exec", "returned", "panicked", "missed"}
  /\ ret \in {0, XDP_DROP}
  /\ pkt \in Packet

(* The host 10.0.0.2 and its alias 10.0.0.20, as the octets appear on the  *)
(* wire, in IPv4 packets (EtherType 08 00) and in these only.              *)
Renumbered(host, alias) ==
  [pkt EXCEPT !.saddr = IF pkt.ether_type = <<8, 0>> /\ @ = host THEN alias ELSE @]

(* t2 replaces the host's address by the alias and t3 the alias by the     *)
(* address, and neither touches anything else.  For t3 this is what the    *)
(* code does and not what is written above it: "MODIFY IP SRC FIELD to     *)
(* 10.0.0.20".                                                             *)
AliasOnTheWire ==
  /\ t2(pkt) = Renumbered(<<10, 0, 0, 2>>, <<10, 0, 0, 20>>)
  /\ t3(pkt) = Renumbered(<<10, 0, 0, 20>>, <<10, 0, 0, 2>>)

=============================================================================
