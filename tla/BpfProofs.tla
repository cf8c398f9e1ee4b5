----------------------------- MODULE BpfProofs -----------------------------
(***************************************************************************)
(* Theorems about the eBPF programs, whatever octets the addresses have.   *)
(***************************************************************************)
EXTENDS Bpf, SequenceLemmas

-----------------------------------------------------------------------------
(* Byte order.                                                             *)

LEMMA ReverseTwice ==
  ASSUME NEW S, NEW s \in Seq(S)
  PROVE  Reverse(Reverse(s)) = s
<1>1. PICK n \in Nat : n = Len(s)
  BY LenProperties
<1>2. s \in [1 .. n -> S]
  BY <1>1, LenProperties
<1>3. PICK r : r = Reverse(s)
  OBVIOUS
<1>4. r = [i \in 1 .. n |-> s[(n - i) + 1]]
  BY <1>1, <1>3 DEF Reverse
<1>5. r \in [1 .. n -> S]
  BY <1>2, <1>4
<1>6. r \in Seq(S) /\ Len(r) = n
  BY <1>5
<1>7. Reverse(r) = [i \in 1 .. n |-> r[(n - i) + 1]]
  BY <1>6 DEF Reverse
<1>8. ASSUME NEW i \in 1 .. n PROVE Reverse(r)[i] = s[i]
  <2>1. (n - i) + 1 \in 1 .. n /\ (n - ((n - i) + 1)) + 1 = i
    OBVIOUS
  <2>2. Reverse(r)[i] = r[(n - i) + 1]
    BY <1>7
  <2>3. r[(n - i) + 1] = s[(n - ((n - i) + 1)) + 1]
    BY <1>4, <2>1
  <2> QED BY <2>1, <2>2, <2>3
<1>9. Reverse(r) = s
  BY <1>2, <1>7, <1>8
<1> QED BY <1>3, <1>9

Address == {<<a, b, c, d>> : a, b, c, d \in Octet}

(* What a program loads and swaps are the bytes as they are on the wire,   *)
(* and what it swaps and stores are the bytes it means.                    *)
LEMMA WireOrder ==
  ASSUME NEW S, NEW s \in Seq(S)
  PROVE  bswap(Load(s)) = s /\ Store(bswap(s)) = s
BY ReverseTwice DEF bswap, Load, Store

LEMMA Rewrites ==
  ASSUME NEW p \in Packet, NEW from \in Address, NEW to \in Address
  PROVE  /\ eentry(p, from, to) =
              IF p.ether_type = <<8, 0>> /\ p.saddr = from
              THEN [p EXCEPT !.saddr = to] ELSE p
         /\ eentry(p, from, to) \in Packet
<1>1. p.ether_type \in {<<8, 0>>, <<0, 8>>, <<8, 6>>} /\ p.saddr \in Address
  BY DEF Packet, Address
<1>2. bswap(Load(p.ether_type)) = p.ether_type
  <2>1. p.ether_type \in Seq(Nat)
    <3>1. <<8, 0>> \in Seq(Nat) /\ <<0, 8>> \in Seq(Nat) /\ <<8, 6>> \in Seq(Nat)
      OBVIOUS
    <3> QED BY <1>1, <3>1, Zenon
  <2> QED BY <2>1, WireOrder
<1>3. ASSUME NEW x \in Address PROVE x \in Seq(Octet)
  <2>1. PICK a \in Octet, b \in Octet, c \in Octet, d \in Octet : x = <<a, b, c, d>>
    BY DEF Address
  <2>2. <<a, b, c, d>> \in Seq(Octet)
    OBVIOUS
  <2> QED BY <2>1, <2>2, Zenon
<1>4. bswap(Load(p.saddr)) = p.saddr /\ Store(bswap(to)) = to
  BY <1>1, <1>3, WireOrder
<1>5. eentry(p, from, to) =
        IF p.ether_type = <<8, 0>> /\ p.saddr = from THEN [p EXCEPT !.saddr = to] ELSE p
  BY <1>2, <1>4, Zenon DEF eentry, Ipv4
<1>6. [p EXCEPT !.saddr = to] \in Packet
  BY DEF Packet, Address
<1> QED BY <1>5, <1>6, Zenon

LEMMA HostAndAlias ==
  <<10, 0, 0, 2>> \in Address /\ <<10, 0, 0, 20>> \in Address
<1>1. 0 \in Octet /\ 2 \in Octet /\ 10 \in Octet /\ 20 \in Octet
  BY BpfAssumption
<1> QED BY <1>1 DEF Address

-----------------------------------------------------------------------------
(* The theorems.                                                           *)

(* t2 and t3 turn packets into packets, and main() ends with the drop of   *)
(* t1 as its result or without any.                                        *)
THEOREM BpfTypeCorrect == Spec => []TypeOK
<1>1. Init => TypeOK
  BY DEF Init, TypeOK
<1>2. TypeOK /\ [Next]_vars => TypeOK'
  <2> SUFFICES ASSUME TypeOK, [Next]_vars PROVE TypeOK'
    OBVIOUS
  <2> USE DEF TypeOK
  <2>1. CASE main_init
    BY <2>1 DEF main_init
  <2>2. CASE mbuf_bpf_elf_load
    BY <2>2 DEF mbuf_bpf_elf_load
  <2>3. CASE rte_bpf_exec
    BY <2>3 DEF rte_bpf_exec, entry
  <2>4. CASE run_t2
    <3>1. PICK p \in Packet : p = pkt
      OBVIOUS
    <3>2. t2(p) \in Packet
      BY HostAndAlias, Rewrites DEF t2
    <3>3. pkt' \in Packet /\ UNCHANGED <<pc, ret>>
      BY <2>4, <3>1, <3>2 DEF run_t2
    <3> QED BY <3>3
  <2>5. CASE run_t3
    <3>1. PICK p \in Packet : p = pkt
      OBVIOUS
    <3>2. t3(p) \in Packet
      BY HostAndAlias, Rewrites DEF t3
    <3>3. pkt' \in Packet /\ UNCHANGED <<pc, ret>>
      BY <2>5, <3>1, <3>2 DEF run_t3
    <3> QED BY <3>3
  <2>6. CASE UNCHANGED vars
    BY <2>6 DEF vars
  <2> QED BY <2>1, <2>2, <2>3, <2>4, <2>5, <2>6 DEF Next
<1> QED BY <1>1, <1>2, PTL DEF Spec

(* The comparisons and the stores of t2 and t3 on a little-endian machine  *)
(* amount to replacing the octets of the source address of IPv4 packets as *)
(* they are on the wire, and nothing else.                                 *)
THEOREM RewritesOnTheWire == Spec => []AliasOnTheWire
<1>1. TypeOK => AliasOnTheWire
  <2> SUFFICES ASSUME TypeOK PROVE AliasOnTheWire
    OBVIOUS
  <2>1. PICK p \in Packet : p = pkt
    BY DEF TypeOK
  <2>2. ASSUME NEW from \in Address, NEW to \in Address
        PROVE  eentry(p, from, to) =
                 [p EXCEPT !.saddr = IF p.ether_type = <<8, 0>> /\ @ = from THEN to ELSE @]
    <3>1. [p EXCEPT !.saddr = p.saddr] = p
      BY DEF Packet
    <3> QED BY <3>1, Rewrites
  <2> QED BY <2>1, <2>2, HostAndAlias DEF AliasOnTheWire, Renumbered, t2, t3
<1> QED BY <1>1, BpfTypeCorrect, PTL

=============================================================================
