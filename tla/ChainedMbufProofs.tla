------------------------- MODULE ChainedMbufProofs -------------------------
(***************************************************************************)
(* The three unchecked allocations of chained_mbuf never fail, for any     *)
(* pool that has three mbufs more than the receive queue takes; and what   *)
(* the driver takes over is the whole packet.                              *)
(***************************************************************************)
EXTENDS ChainedMbuf, SequenceLemmas

(***************************************************************************)
(* The inductive invariant: what is free before each allocation.  Until    *)
(* the packet is sent, only main() touches the pool.                       *)
(***************************************************************************)
Before == {"eal_init", "pool_create", "configure", "alloc_m0", "alloc_m1", "alloc_m2"}

Inv ==
  /\ pool \in [Mbuf -> Nat]
  /\ pc \in Before => tx = <<>>
  /\ pc = "configure" => Free = Mbuf
  /\ pc = "alloc_m0" => Cardinality(Free) >= 3
  /\ pc = "alloc_m1" => Cardinality(Free) >= 2
  /\ pc = "alloc_m2" => Cardinality(Free) >= 1
  /\ pc # "crashed"

LEMMA FreeIsFinite == IsFiniteSet(Free) /\ Cardinality(Free) \in Nat
<1>1. Free \subseteq Mbuf
  BY DEF Free
<1> QED BY <1>1, ChainedMbufAssumption, FS_Subset, FS_CardinalityType

(* The receive queue leaves three.                                         *)
LEMMA ConfigureStep ==
  ASSUME Inv, rte_eth_dev_configure_easy
  PROVE  Inv'
<1>1. pc = "configure" /\ tx' = tx /\ tx = <<>>
  BY DEF rte_eth_dev_configure_easy, Inv, Before
<1>2. CASE pc' = "exited" /\ UNCHANGED pool
  BY <1>1, <1>2 DEF Inv, Before
<1>3. ASSUME NEW taken \in SUBSET Free, Cardinality(taken) <= RxRingSize,
             pc' = "alloc_m0",
             pool' = [x \in Mbuf |-> pool[x] - (IF x \in taken THEN 1 ELSE 0)]
      PROVE  Inv'
  <2>1. Free = Mbuf /\ pool \in [Mbuf -> Nat]
    BY <1>1 DEF Inv
  <2>2. \A x \in Mbuf : pool[x] \in Nat /\ pool[x] > 0
    BY <2>1 DEF Free
  <2>3. pool' \in [Mbuf -> Nat]
    BY <1>3, <2>2
  <2>4. Mbuf \ taken \subseteq Free'
    BY <1>3, <2>2 DEF Free
  <2>5. Cardinality(Mbuf \ taken) = Cardinality(Mbuf) - Cardinality(taken)
    <3>1. Mbuf \cap taken = taken
      BY <2>1
    <3> QED BY <3>1, ChainedMbufAssumption, FS_Difference
  <2>6. /\ Cardinality(Mbuf \ taken) <= Cardinality(Free')
        /\ Cardinality(Free') \in Nat
    <3>1. Free' \subseteq Mbuf
      BY DEF Free
    <3> QED BY <2>4, <3>1, ChainedMbufAssumption, FS_Subset, FS_CardinalityType
  <2>7. Cardinality(taken) \in Nat /\ Cardinality(Mbuf) \in Nat
    BY <2>1, ChainedMbufAssumption, FS_Subset, FS_CardinalityType
  <2>8. Cardinality(Free') >= 3
    BY <1>3, <2>5, <2>6, <2>7, ChainedMbufAssumption
  <2> HIDE DEF Free
  <2> QED BY <1>1, <1>3, <2>3, <2>8 DEF Inv, Before
<1> QED BY <1>1, <1>2, <1>3 DEF rte_eth_dev_configure_easy

LEMMA AllocStep ==
  ASSUME Inv, NEW at, NEW k, NEW next, rte_pktmbuf_alloc_set(at, k, next),
         NEW n \in Nat, n >= 1, Cardinality(Free) >= n
  PROVE  /\ pc' = next /\ tx' = tx
         /\ pool' \in [Mbuf -> Nat]
         /\ Cardinality(Free') >= n - 1
<1>1. Free # {}
  BY FS_EmptySet
<1>2. PICK x \in Free : pool' = [pool EXCEPT ![x] = @ - 1] /\ pc' = next /\ tx' = tx
  BY <1>1 DEF rte_pktmbuf_alloc_set
<1>3. x \in Mbuf /\ pool[x] > 0 /\ pool[x] \in Nat
  BY DEF Free, Inv
<1>4. pool' \in [Mbuf -> Nat]
  BY <1>2, <1>3 DEF Inv
<1>5. Free \ {x} \subseteq Free'
  BY <1>2 DEF Free, Inv
<1>6. Cardinality(Free \ {x}) = Cardinality(Free) - 1
  BY FreeIsFinite, FS_RemoveElement
<1>7. IsFiniteSet(Free') /\ Free' \subseteq Mbuf
  <2>1. Free' \subseteq Mbuf
    BY DEF Free
  <2> QED BY <2>1, ChainedMbufAssumption, FS_Subset
<1>8. Cardinality(Free \ {x}) <= Cardinality(Free')
  BY <1>5, <1>7, FS_Subset
<1>9. Cardinality(Free') \in Nat /\ Cardinality(Free) \in Nat
  BY <1>7, FreeIsFinite, FS_CardinalityType
<1> QED BY <1>2, <1>4, <1>6, <1>8, <1>9

LEMMA AllocPacketStep ==
  ASSUME Inv, alloc_packet
  PROVE  Inv'
<1>1. CASE rte_pktmbuf_alloc_set("alloc_m0", 0, "alloc_m1")
  <2>1. Cardinality(Free) >= 3 /\ tx = <<>>
    BY <1>1 DEF Inv, Before, rte_pktmbuf_alloc_set
  <2>2. /\ pc' = "alloc_m1" /\ tx' = tx
        /\ pool' \in [Mbuf -> Nat]
        /\ Cardinality(Free') >= 3 - 1
    BY <1>1, <2>1, AllocStep
  <2> QED BY <2>1, <2>2 DEF Inv
<1>2. CASE rte_pktmbuf_alloc_set("alloc_m1", 1, "alloc_m2")
  <2>1. Cardinality(Free) >= 2 /\ tx = <<>>
    BY <1>2 DEF Inv, Before, rte_pktmbuf_alloc_set
  <2>2. /\ pc' = "alloc_m2" /\ tx' = tx
        /\ pool' \in [Mbuf -> Nat]
        /\ Cardinality(Free') >= 2 - 1
    BY <1>2, <2>1, AllocStep
  <2> QED BY <2>1, <2>2 DEF Inv
<1>3. CASE rte_pktmbuf_alloc_set("alloc_m2", 2, "chain_m1")
  <2>1. Cardinality(Free) >= 1
    BY <1>3 DEF Inv, rte_pktmbuf_alloc_set
  <2>2. pc' = "chain_m1" /\ pool' \in [Mbuf -> Nat]
    BY <1>3, <2>1, AllocStep
  <2> QED BY <2>2 DEF Inv, Before
<1> QED BY <1>1, <1>2, <1>3 DEF alloc_packet

(* What follows the allocations only puts mbufs back.                      *)
LEMMA FreedType ==
  ASSUME Inv, NEW s, Freed(s)
  PROVE  pool' \in [Mbuf -> Nat]
<1>1. \A x \in Mbuf : pool[x] + (IF x \in s THEN 1 ELSE 0) \in Nat
  <2> SUFFICES ASSUME NEW x \in Mbuf PROVE pool[x] + (IF x \in s THEN 1 ELSE 0) \in Nat
    OBVIOUS
  <2>1. pool[x] \in Nat
    BY DEF Inv
  <2>2. CASE x \in s
    BY <2>1, <2>2
  <2>3. CASE x \notin s
    BY <2>1, <2>3
  <2> QED BY <2>2, <2>3
<1> QED BY <1>1, Zenon DEF Freed

LEMMA InvStep == Inv /\ [Next]_vars => Inv'
<1> SUFFICES ASSUME Inv, [Next]_vars PROVE Inv'
  OBVIOUS
<1>1. CASE rte_eal_init
  BY <1>1 DEF rte_eal_init, Inv, Before
<1>2. CASE rte_pktmbuf_pool_create
  <2>1. pc = "pool_create" /\ tx' = <<>>
    BY <1>2 DEF rte_pktmbuf_pool_create, Inv, Before
  <2>2. CASE pc' = "exited" /\ UNCHANGED pool
    BY <2>1, <2>2 DEF Inv, Before
  <2>3. CASE pc' = "configure" /\ pool' = [x \in Mbuf |-> 1]
    <3>1. pool' \in [Mbuf -> Nat] /\ Free' = Mbuf
      BY <2>3 DEF Free
    <3> QED BY <2>1, <2>3, <3>1 DEF Inv, Before
  <2> QED BY <1>2, <2>2, <2>3 DEF rte_pktmbuf_pool_create
<1>3. CASE rte_eth_dev_configure_easy
  BY <1>3, ConfigureStep
<1>4. CASE alloc_packet
  BY <1>4, AllocPacketStep
<1>5. CASE rte_pktmbuf_chain
  BY <1>5 DEF rte_pktmbuf_chain, Inv, Before
<1>6. CASE rte_pktmbuf_linearize
  <2>1. pc' = "tx_burst"
    BY <1>6 DEF rte_pktmbuf_linearize
  <2>2. pool' \in [Mbuf -> Nat]
    BY <1>6 DEF rte_pktmbuf_linearize, Inv
  <2> QED BY <2>1, <2>2 DEF Inv, Before
<1>7. CASE rte_eth_tx_burst
  BY <1>7 DEF rte_eth_tx_burst, Inv, Before
<1>8. CASE rte_pktmbuf_free
  <2>1. pc' \in {"free_m1", "mempool_free"} /\ pool' \in [Mbuf -> Nat]
    BY <1>8, FreedType DEF rte_pktmbuf_free
  <2> QED BY <2>1 DEF Inv, Before
<1>9. CASE rte_mempool_free
  BY <1>9 DEF rte_mempool_free, Inv, Before
<1>10. CASE NicTransmit
  <2>1. pc' = pc /\ pc \notin Before /\ pc # "crashed"
    BY <1>10 DEF NicTransmit, Inv
  <2>2. pool' \in [Mbuf -> Nat]
    BY <1>10, FreedType DEF NicTransmit
  <2> QED BY <2>1, <2>2 DEF Inv, Before
<1>11. CASE UNCHANGED vars
  BY <1>11 DEF vars, Inv, Free
<1> QED BY <1>1, <1>2, <1>3, <1>4, <1>5, <1>6, <1>7, <1>8, <1>9, <1>10, <1>11 DEF Next

(* main() never writes through a NULL result of rte_pktmbuf_alloc(),       *)
(* whatever the sizes, if the pool has three mbufs more than the NIC may   *)
(* take for its receive queue.                                             *)
THEOREM AllocationsSucceed == Spec => []AllocSucceeds
<1>1. Init => Inv
  BY DEF Init, Inv, Before
<1>2. Inv => AllocSucceeds
  BY DEF Inv, AllocSucceeds
<1> QED BY <1>1, <1>2, InvStep, PTL DEF Spec

-----------------------------------------------------------------------------
(* How the mbufs are chained: not at all, m0 to m1, all three.             *)
Loose == \A x \in Mbuf : mb[x].next = NULL
Pair == \A x \in Mbuf : mb[x].next = IF x = m[0] THEN m[1] ELSE NULL
Chain == \A x \in Mbuf : mb[x].next = IF x = m[0] THEN m[1]
                                      ELSE IF x = m[1] THEN m[2] ELSE NULL

(* The recursive definition of Segs.  It defines a function as soon as     *)
(* some function satisfies it, as on mbufs that are not chained in a ring. *)
IsSegs(g) ==
  g = [x \in Mbuf |-> <<x>> \o (IF mb[x].next = NULL THEN <<>> ELSE g[mb[x].next])]

LEMMA SegsUnfold ==
  ASSUME NEW g, IsSegs(g)
  PROVE  IsSegs(Segs)
<1>1. Segs = CHOOSE s : IsSegs(s)
  BY DEF Segs, IsSegs
<1> QED BY <1>1

(* One step along the chain. *)
LEMMA SegsAt ==
  ASSUME IsSegs(Segs), NEW x \in Mbuf
  PROVE  /\ mb[x].next = NULL => Segs[x] = <<x>>
         /\ mb[x].next # NULL => Segs[x] = <<x>> \o Segs[mb[x].next]
<1>1. Segs[x] = <<x>> \o (IF mb[x].next = NULL THEN <<>> ELSE Segs[mb[x].next])
  BY DEF IsSegs
<1>2. <<x>> \o <<>> = <<x>>
  OBVIOUS
<1> QED BY <1>1, <1>2

(* The segments of a packet, for each way of chaining. *)
LEMMA LooseSegs ==
  ASSUME Loose, NEW x \in Mbuf
  PROVE  Segs[x] = <<x>>
<1> DEFINE g == [y \in Mbuf |-> <<y>>]
<1>1. IsSegs(g)
  <2>1. \A y \in Mbuf : <<y>> = <<y>> \o <<>>
    OBVIOUS
  <2>2. \A y \in Mbuf : g[y] = <<y>> \o (IF mb[y].next = NULL THEN <<>> ELSE g[mb[y].next])
    BY <2>1 DEF Loose
  <2> QED BY <2>2 DEF IsSegs
<1>2. IsSegs(Segs)
  BY <1>1, SegsUnfold
<1> QED BY <1>2, SegsAt DEF Loose

LEMMA ChainSegs ==
  ASSUME Chain, m[0] \in Mbuf, m[1] \in Mbuf, m[2] \in Mbuf,
         m[0] # m[1], m[0] # m[2], m[1] # m[2]
  PROVE  Segs[m[0]] = <<m[0], m[1], m[2]>>
<1> DEFINE g == [x \in Mbuf |-> IF x = m[0] THEN <<m[0], m[1], m[2]>>
                                ELSE IF x = m[1] THEN <<m[1], m[2]>> ELSE <<x>>]
<1>1. /\ <<m[0], m[1], m[2]>> = <<m[0]>> \o <<m[1], m[2]>>
      /\ <<m[1], m[2]>> = <<m[1]>> \o <<m[2]>>
      /\ \A x \in Mbuf : <<x>> = <<x>> \o <<>>
  OBVIOUS
<1>0. NULL \notin Mbuf
  BY ChainedMbufAssumption
<1>2. \A x \in Mbuf : g[x] = <<x>> \o (IF mb[x].next = NULL THEN <<>> ELSE g[mb[x].next])
  <2> SUFFICES ASSUME NEW x \in Mbuf
      PROVE g[x] = <<x>> \o (IF mb[x].next = NULL THEN <<>> ELSE g[mb[x].next])
    OBVIOUS
  <2>1. CASE x = m[0]
    <3>1. mb[x].next = m[1] /\ mb[x].next # NULL /\ g[m[1]] = <<m[1], m[2]>> /\ g[x] = <<m[0], m[1], m[2]>>
      BY <2>1, <1>0 DEF Chain
    <3> HIDE DEF g
    <3> QED BY <2>1, <3>1, <1>1
  <2>2. CASE x = m[1]
    <3>1. mb[x].next = m[2] /\ mb[x].next # NULL /\ g[m[2]] = <<m[2]>> /\ g[x] = <<m[1], m[2]>>
      BY <2>2, <1>0 DEF Chain
    <3> HIDE DEF g
    <3> QED BY <2>2, <3>1, <1>1
  <2>3. CASE x # m[0] /\ x # m[1]
    <3>1. mb[x].next = NULL /\ g[x] = <<x>>
      BY <2>3, <1>0 DEF Chain
    <3> HIDE DEF g
    <3> QED BY <3>1, <1>1
  <2> QED BY <2>1, <2>2, <2>3
<1>3. IsSegs(g)
  <2>1. g = [x \in Mbuf |-> g[x]]
    OBVIOUS
  <2> HIDE DEF g
  <2> QED BY <1>2, <2>1 DEF IsSegs
<1>4. IsSegs(Segs)
  BY <1>3, SegsUnfold
<1>5. /\ mb[m[0]].next = m[1] /\ mb[m[1]].next = m[2] /\ mb[m[2]].next = NULL
  BY DEF Chain
<1>6. Segs[m[2]] = <<m[2]>> /\ Segs[m[1]] = <<m[1]>> \o Segs[m[2]]
      /\ Segs[m[0]] = <<m[0]>> \o Segs[m[1]]
  BY <1>4, <1>5, <1>0, SegsAt
<1> QED BY <1>6, <1>1

LEMMA PairSegs ==
  ASSUME Pair, m[0] \in Mbuf, m[1] \in Mbuf, m[0] # m[1]
  PROVE  Segs[m[0]] = <<m[0], m[1]>>
<1> DEFINE g == [x \in Mbuf |-> IF x = m[0] THEN <<m[0], m[1]>> ELSE <<x>>]
<1>1. /\ <<m[0], m[1]>> = <<m[0]>> \o <<m[1]>>
      /\ \A x \in Mbuf : <<x>> = <<x>> \o <<>>
  OBVIOUS
<1>0. NULL \notin Mbuf
  BY ChainedMbufAssumption
<1>2. \A x \in Mbuf : g[x] = <<x>> \o (IF mb[x].next = NULL THEN <<>> ELSE g[mb[x].next])
  <2> SUFFICES ASSUME NEW x \in Mbuf
      PROVE g[x] = <<x>> \o (IF mb[x].next = NULL THEN <<>> ELSE g[mb[x].next])
    OBVIOUS
  <2>1. CASE x = m[0]
    <3>1. mb[x].next = m[1] /\ mb[x].next # NULL /\ g[m[1]] = <<m[1]>> /\ g[x] = <<m[0], m[1]>>
      BY <2>1, <1>0 DEF Pair
    <3> HIDE DEF g
    <3> QED BY <2>1, <3>1, <1>1
  <2>2. CASE x # m[0]
    <3>1. mb[x].next = NULL /\ g[x] = <<x>>
      BY <2>2, <1>0 DEF Pair
    <3> HIDE DEF g
    <3> QED BY <3>1, <1>1
  <2> QED BY <2>1, <2>2
<1>3. IsSegs(g)
  <2>1. g = [x \in Mbuf |-> g[x]]
    OBVIOUS
  <2> HIDE DEF g
  <2> QED BY <1>2, <2>1 DEF IsSegs
<1>4. IsSegs(Segs)
  BY <1>3, SegsUnfold
<1>5. /\ mb[m[0]].next = m[1] /\ mb[m[1]].next = NULL
  BY DEF Pair
<1>6. Segs[m[1]] = <<m[1]>> /\ Segs[m[0]] = <<m[0]>> \o Segs[m[1]]
  BY <1>4, <1>5, <1>0, SegsAt
<1> QED BY <1>6, <1>1

-----------------------------------------------------------------------------
(***************************************************************************)
(* The second invariant: what main() has built before each call.  From     *)
(* the allocations on the three mbufs are distinct, out of the pool and    *)
(* not in the receive queue; their lengths and segment counts are those of *)
(* a packet of one, two and three buffers; linearizing never succeeds,     *)
(* since three buffers are more than an mbuf has room for.                 *)
(***************************************************************************)
MbufType == [data_len : Nat, pkt_len : Nat, nb_segs : Nat \ {0}, next : Mbuf \cup {NULL}]

Label == {"eal_init", "pool_create", "configure", "alloc_m0", "alloc_m1",
          "alloc_m2", "chain_m1", "chain_m2",
          "linearize", "tx_burst", "free_m0", "free_m1", "mempool_free",
          "returned", "exited", "crashed"}

(* TypeOK but for its last conjunct, which Shape implies. *)
Typed ==
  /\ pc \in Label
  /\ pool \in [Mbuf -> Nat] /\ mb \in [Mbuf -> MbufType]
  /\ m \in [0 .. 2 -> Mbuf \cup {NULL}]
  /\ rx \subseteq Mbuf /\ tx \in Seq(Mbuf)

(* m[k] is a buffer of main()'s, with these fields. *)
Seg(k, len, n) ==
  /\ m[k] \in Mbuf /\ m[k] \notin rx /\ pool[m[k]] = 0
  /\ mb[m[k]].data_len = Buf /\ mb[m[k]].pkt_len = len /\ mb[m[k]].nb_segs = n

Distinct == m[0] # m[1] /\ m[0] # m[2] /\ m[1] # m[2]

(* No mbuf is in the pool twice, or there and in the receive queue. *)
RxOwned == \A x \in Mbuf : pool[x] <= 1 /\ (x \in rx => pool[x] = 0)

Pointers == m[0] \in Mbuf /\ m[1] \in Mbuf /\ m[2] \in Mbuf

(* The packet of three. *)
Built ==
  /\ Seg(0, 3 * Buf, 3) /\ Seg(1, Buf, 1) /\ Seg(2, Buf, 1) /\ Distinct /\ Chain

Shape ==
  /\ pc \in {"eal_init", "pool_create", "configure"} => Loose /\ rx = {} /\ tx = <<>>
  /\ pc = "configure" => \A x \in Mbuf : pool[x] = 1
  /\ pc = "alloc_m0" => Loose /\ tx = <<>> /\ RxOwned
  /\ pc = "alloc_m1" => Loose /\ tx = <<>> /\ RxOwned /\ Seg(0, Buf, 1)
  /\ pc = "alloc_m2" => Loose /\ tx = <<>> /\ RxOwned /\ Seg(0, Buf, 1) /\ Seg(1, Buf, 1)
                         /\ m[0] # m[1]
  /\ pc = "chain_m1" => Loose /\ tx = <<>> /\ Seg(0, Buf, 1) /\ Seg(1, Buf, 1) /\ Seg(2, Buf, 1)
                         /\ Distinct
  /\ pc = "chain_m2" => Pair /\ tx = <<>> /\ Seg(0, 2 * Buf, 2) /\ Seg(1, Buf, 1) /\ Seg(2, Buf, 1)
                         /\ Distinct
  /\ pc \in {"linearize", "tx_burst"} => tx = <<>> /\ Built
  /\ pc = "free_m0" => Pointers /\ \/ tx = <<m[0], m[1], m[2]>> /\ Built
                                   \/ tx = <<>> /\ Loose
  /\ pc \in {"free_m1", "mempool_free"} => Pointers /\ Loose

PacketInv == Typed /\ Shape

(* It holds initially. *)
LEMMA ShapeInit == Init => PacketInv
BY ChainedMbufAssumption DEF Init, PacketInv, Typed, Shape, Label, MbufType, Reset, Loose

(* Nothing is taken from the pool before the port is configured. *)
LEMMA EarlySteps ==
  ASSUME PacketInv, rte_eal_init \/ rte_pktmbuf_pool_create
  PROVE  PacketInv'
<1>1. CASE rte_eal_init
  BY <1>1 DEF PacketInv, Typed, Shape, Label, rte_eal_init, Loose
<1>2. CASE rte_pktmbuf_pool_create
  BY <1>2 DEF PacketInv, Typed, Shape, Label, rte_pktmbuf_pool_create, Loose
<1> QED BY <1>1, <1>2

(* The receive queue's mbufs are no longer in the pool. *)
LEMMA ConfigureShape ==
  ASSUME PacketInv, rte_eth_dev_configure_easy
  PROVE  PacketInv'
<1>1. CASE pc' = "exited"
  BY <1>1 DEF PacketInv, Typed, Shape, Label, rte_eth_dev_configure_easy
<1>2. CASE pc' # "exited"
  <2>1. PICK taken \in SUBSET Free :
             /\ rx' = taken
             /\ pool' = [x \in Mbuf |-> pool[x] - (IF x \in taken THEN 1 ELSE 0)]
    BY <1>2 DEF rte_eth_dev_configure_easy
  <2>2. pc = "configure" /\ pc' = "alloc_m0" /\ UNCHANGED <<mb, m, tx>>
    BY <1>2 DEF rte_eth_dev_configure_easy
  <2>3. \A x \in Mbuf : pool[x] = 1
    BY <2>2 DEF PacketInv, Shape
  <2>4. pool' \in [Mbuf -> Nat] /\ RxOwned'
    BY <2>1, <2>3 DEF RxOwned
  <2>5. taken \subseteq Mbuf
    BY DEF Free
  <2>6. Loose' /\ tx' = <<>>
    BY <2>2 DEF Loose, PacketInv, Shape
  <2> QED BY <2>1, <2>2, <2>4, <2>5, <2>6 DEF PacketInv, Typed, Shape, Label
<1> QED BY <1>1, <1>2

(* An allocation gives an mbuf that is none of those held so far. *)
LEMMA AllocKeeps ==
  ASSUME PacketInv, RxOwned, Loose, NEW at, NEW k \in 0 .. 2, NEW next \in Label,
         rte_pktmbuf_alloc_set(at, k, next), pc' # "crashed"
  PROVE  /\ Typed' /\ Loose' /\ RxOwned' /\ Seg(k, Buf, 1)' /\ pc' = next /\ tx' = tx
         /\ \A j \in 0 .. 2 : j # k => m'[j] = m[j]
         /\ \A j \in 0 .. 2 : j # k /\ Seg(j, Buf, 1) => Seg(j, Buf, 1)' /\ m'[j] # m'[k]
<1>1. PICK x \in Free :
            /\ pool' = [pool EXCEPT ![x] = @ - 1]
            /\ mb' = [mb EXCEPT ![x] = [Reset EXCEPT !.data_len = Buf, !.pkt_len = Buf]]
            /\ m' = [m EXCEPT ![k] = x]
            /\ pc' = next
            /\ UNCHANGED <<rx, tx>>
  BY DEF rte_pktmbuf_alloc_set
<1>2. x \in Mbuf /\ pool[x] > 0 /\ pool[x] \in Nat
  BY DEF Free, PacketInv, Typed
<1>3. pool[x] = 1 /\ x \notin rx
  BY <1>2 DEF RxOwned
<1> DEFINE new == [Reset EXCEPT !.data_len = Buf, !.pkt_len = Buf]
<1>4. /\ mb' = [mb EXCEPT ![x] = new] /\ new \in MbufType
      /\ new.data_len = Buf /\ new.pkt_len = Buf /\ new.nb_segs = 1 /\ new.next = NULL
  <2>1. Buf \in Nat
    BY ChainedMbufAssumption
  <2>2. Reset \in MbufType /\ Reset.nb_segs = 1 /\ Reset.next = NULL
    BY DEF Reset, MbufType
  <2>3. /\ new \in MbufType
        /\ new.data_len = Buf /\ new.pkt_len = Buf /\ new.nb_segs = 1 /\ new.next = NULL
    BY <2>1, <2>2 DEF MbufType
  <2> QED BY <1>1, <2>3
<1>5. Typed'
  <2> HIDE DEF new
  <2> QED BY <1>1, <1>2, <1>4 DEF PacketInv, Typed
<1> HIDE DEF new
<1>6. Loose'
  BY <1>2, <1>4 DEF Loose, PacketInv, Typed
<1>7. RxOwned'
  BY <1>1, <1>2, <1>3 DEF RxOwned, PacketInv, Typed
<1>8. Seg(k, Buf, 1)'
  <2>1. m'[k] = x /\ rx' = rx /\ pool'[x] = 0 /\ mb'[x] = new
    BY <1>1, <1>2, <1>3, <1>4 DEF PacketInv, Typed
  <2> QED BY <1>2, <1>3, <1>4, <2>1 DEF Seg
<1>9. \A j \in 0 .. 2 : j # k => m'[j] = m[j]
  BY <1>1 DEF PacketInv, Typed
<1>10. ASSUME NEW j \in 0 .. 2, j # k, Seg(j, Buf, 1)
       PROVE  Seg(j, Buf, 1)' /\ m'[j] # m'[k]
  <2>1. m[j] # x /\ m'[j] = m[j] /\ m'[k] = x
    BY <1>1, <1>3, <1>10 DEF Seg, PacketInv, Typed
  <2>2. pool'[m[j]] = pool[m[j]] /\ mb'[m[j]] = mb[m[j]] /\ rx' = rx
    BY <1>1, <1>10, <2>1 DEF Seg, PacketInv, Typed
  <2> QED BY <1>10, <2>1, <2>2 DEF Seg
<1> QED BY <1>1, <1>5, <1>6, <1>7, <1>8, <1>9, <1>10

(* The three allocations. *)
LEMMA AllocShape ==
  ASSUME PacketInv, alloc_packet
  PROVE  PacketInv'
<1>1. CASE pc' = "crashed"
  <2>1. UNCHANGED <<pool, mb, m, rx, tx>>
    BY <1>1 DEF alloc_packet, rte_pktmbuf_alloc_set
  <2> QED BY <1>1, <2>1 DEF PacketInv, Typed, Shape, Label
<1>2. CASE pc' # "crashed"
  <2>1. CASE rte_pktmbuf_alloc_set("alloc_m0", 0, "alloc_m1")
    <3>1. Loose /\ RxOwned /\ tx = <<>>
      BY <2>1 DEF PacketInv, Shape, rte_pktmbuf_alloc_set
    <3>2. Typed' /\ Loose' /\ RxOwned' /\ Seg(0, Buf, 1)' /\ pc' = "alloc_m1" /\ tx' = tx
      BY <1>2, <2>1, <3>1, AllocKeeps DEF Label
    <3> QED BY <3>1, <3>2 DEF PacketInv, Shape
  <2>2. CASE rte_pktmbuf_alloc_set("alloc_m1", 1, "alloc_m2")
    <3>1. Loose /\ RxOwned /\ tx = <<>> /\ Seg(0, Buf, 1)
      BY <2>2 DEF PacketInv, Shape, rte_pktmbuf_alloc_set
    <3>2. /\ Typed' /\ Loose' /\ RxOwned' /\ Seg(1, Buf, 1)' /\ pc' = "alloc_m2" /\ tx' = tx
          /\ Seg(0, Buf, 1)' /\ m'[0] # m'[1]
      BY <1>2, <2>2, <3>1, AllocKeeps DEF Label
    <3> QED BY <3>1, <3>2 DEF PacketInv, Shape
  <2>3. CASE rte_pktmbuf_alloc_set("alloc_m2", 2, "chain_m1")
    <3>1. Loose /\ RxOwned /\ tx = <<>> /\ Seg(0, Buf, 1) /\ Seg(1, Buf, 1) /\ m[0] # m[1]
      BY <2>3 DEF PacketInv, Shape, rte_pktmbuf_alloc_set
    <3>2. /\ Typed' /\ Loose' /\ Seg(2, Buf, 1)' /\ pc' = "chain_m1" /\ tx' = tx
          /\ Seg(0, Buf, 1)' /\ m'[0] # m'[2] /\ Seg(1, Buf, 1)' /\ m'[1] # m'[2]
          /\ m'[0] = m[0] /\ m'[1] = m[1]
      BY <1>2, <2>3, <3>1, AllocKeeps DEF Label
    <3> QED BY <3>1, <3>2 DEF PacketInv, Shape, Distinct
  <2> QED BY <2>1, <2>2, <2>3 DEF alloc_packet
<1> QED BY <1>1, <1>2

(* rte_pktmbuf_chain(): the fields of every mbuf afterwards. *)
LEMMA ChainedAt ==
  ASSUME mb \in [Mbuf -> MbufType], NEW h \in Mbuf, NEW t \in Mbuf, NEW l \in Mbuf,
         Last(Segs[h]) = l, h # t, l # t, mb' = Chained(h, t)
  PROVE  /\ mb' \in [Mbuf -> MbufType]
         /\ \A x \in Mbuf : /\ mb'[x].next = IF x = l THEN t ELSE mb[x].next
                            /\ mb'[x].data_len = mb[x].data_len
                            /\ mb'[x].nb_segs = IF x = h THEN mb[h].nb_segs + mb[t].nb_segs
                                                ELSE mb[x].nb_segs
                            /\ mb'[x].pkt_len = IF x = h THEN mb[h].pkt_len + mb[t].pkt_len
                                                ELSE IF x = t THEN mb[t].data_len
                                                ELSE mb[x].pkt_len
<1> DEFINE a == [mb EXCEPT ![l].next = t]
           b == [a EXCEPT ![h].nb_segs = @ + mb[t].nb_segs]
           c == [b EXCEPT ![h].pkt_len = @ + mb[t].pkt_len]
           d == [c EXCEPT ![t].pkt_len = mb[t].data_len]
<1>1. mb' = d
  BY DEF Chained
<1>2. \A x \in Mbuf : mb[x] \in MbufType
  OBVIOUS
<1>3. /\ a \in [Mbuf -> MbufType]
      /\ \A x \in Mbuf : /\ a[x].next = IF x = l THEN t ELSE mb[x].next
                         /\ a[x].data_len = mb[x].data_len
                         /\ a[x].nb_segs = mb[x].nb_segs /\ a[x].pkt_len = mb[x].pkt_len
  BY <1>2 DEF MbufType
<1> HIDE DEF a
<1>4. mb[t].nb_segs \in Nat \ {0} /\ mb[t].pkt_len \in Nat /\ mb[t].data_len \in Nat
      /\ mb[h].nb_segs \in Nat \ {0} /\ mb[h].pkt_len \in Nat
  BY <1>2 DEF MbufType
<1>5. /\ b \in [Mbuf -> MbufType]
      /\ \A x \in Mbuf : /\ b[x].next = a[x].next /\ b[x].data_len = a[x].data_len
                         /\ b[x].nb_segs = IF x = h THEN mb[h].nb_segs + mb[t].nb_segs
                                           ELSE a[x].nb_segs
                         /\ b[x].pkt_len = a[x].pkt_len
  <2>1. a[h].nb_segs + mb[t].nb_segs \in Nat \ {0} /\ a[h].nb_segs = mb[h].nb_segs
    BY <1>3, <1>4
  <2> QED BY <1>3, <2>1 DEF MbufType
<1> HIDE DEF b
<1>6. /\ c \in [Mbuf -> MbufType]
      /\ \A x \in Mbuf : /\ c[x].next = b[x].next /\ c[x].data_len = b[x].data_len
                         /\ c[x].nb_segs = b[x].nb_segs
                         /\ c[x].pkt_len = IF x = h THEN mb[h].pkt_len + mb[t].pkt_len
                                           ELSE b[x].pkt_len
  <2>1. b[h].pkt_len + mb[t].pkt_len \in Nat /\ b[h].pkt_len = mb[h].pkt_len
    BY <1>3, <1>4, <1>5
  <2> QED BY <1>5, <2>1 DEF MbufType
<1> HIDE DEF c
<1>7. /\ d \in [Mbuf -> MbufType]
      /\ \A x \in Mbuf : /\ d[x].next = c[x].next /\ d[x].data_len = c[x].data_len
                         /\ d[x].nb_segs = c[x].nb_segs
                         /\ d[x].pkt_len = IF x = t THEN mb[t].data_len ELSE c[x].pkt_len
  BY <1>4, <1>6 DEF MbufType
<1> HIDE DEF d
<1> QED BY <1>1, <1>3, <1>5, <1>6, <1>7

(* m1 and then m2 are chained to m0. *)
LEMMA ChainStep ==
  ASSUME PacketInv, rte_pktmbuf_chain
  PROVE  PacketInv'
<1>1. UNCHANGED <<pool, m, rx, tx>>
  BY DEF rte_pktmbuf_chain
<1>2. mb \in [Mbuf -> MbufType] /\ Buf \in Nat
  BY ChainedMbufAssumption DEF PacketInv, Typed
<1>3. CASE pc = "chain_m1" /\ mb' = Chained(m[0], m[1]) /\ pc' = "chain_m2"
  <2>1. /\ Loose /\ tx = <<>> /\ Seg(0, Buf, 1) /\ Seg(1, Buf, 1) /\ Seg(2, Buf, 1) /\ Distinct
    BY <1>3 DEF PacketInv, Shape
  <2>2. m[0] \in Mbuf /\ m[1] \in Mbuf /\ m[2] \in Mbuf
    BY <2>1 DEF Seg
  <2>3. Last(Segs[m[0]]) = m[0]
    <3>1. Segs[m[0]] = <<m[0]>>
      BY <2>1, <2>2, LooseSegs
    <3> QED BY <3>1 DEF Last
  <2>4. /\ mb' \in [Mbuf -> MbufType]
        /\ \A x \in Mbuf : /\ mb'[x].next = IF x = m[0] THEN m[1] ELSE mb[x].next
                           /\ mb'[x].data_len = mb[x].data_len
                           /\ mb'[x].nb_segs = IF x = m[0] THEN mb[m[0]].nb_segs + mb[m[1]].nb_segs
                                               ELSE mb[x].nb_segs
                           /\ mb'[x].pkt_len = IF x = m[0] THEN mb[m[0]].pkt_len + mb[m[1]].pkt_len
                                               ELSE IF x = m[1] THEN mb[m[1]].data_len
                                               ELSE mb[x].pkt_len
    BY <1>2, <1>3, <2>1, <2>2, <2>3, ChainedAt DEF Distinct
  <2>5. Pair'
    BY <1>1, <2>1, <2>4 DEF Pair, Loose
  <2>6. Seg(0, 2 * Buf, 2)' /\ Seg(1, Buf, 1)' /\ Seg(2, Buf, 1)' /\ Distinct'
    BY <1>1, <1>2, <2>1, <2>2, <2>4 DEF Seg, Distinct
  <2> QED BY <1>1, <1>3, <2>1, <2>4, <2>5, <2>6 DEF PacketInv, Typed, Shape, Label
<1>4. CASE pc = "chain_m2" /\ mb' = Chained(m[0], m[2]) /\ pc' = "linearize"
  <2>1. /\ Pair /\ tx = <<>> /\ Seg(0, 2 * Buf, 2) /\ Seg(1, Buf, 1) /\ Seg(2, Buf, 1) /\ Distinct
    BY <1>4 DEF PacketInv, Shape
  <2>2. m[0] \in Mbuf /\ m[1] \in Mbuf /\ m[2] \in Mbuf
    BY <2>1 DEF Seg
  <2>3. Last(Segs[m[0]]) = m[1]
    <3>1. Segs[m[0]] = <<m[0], m[1]>>
      BY <2>1, <2>2, PairSegs DEF Distinct
    <3> QED BY <3>1 DEF Last
  <2>4. /\ mb' \in [Mbuf -> MbufType]
        /\ \A x \in Mbuf : /\ mb'[x].next = IF x = m[1] THEN m[2] ELSE mb[x].next
                           /\ mb'[x].data_len = mb[x].data_len
                           /\ mb'[x].nb_segs = IF x = m[0] THEN mb[m[0]].nb_segs + mb[m[2]].nb_segs
                                               ELSE mb[x].nb_segs
                           /\ mb'[x].pkt_len = IF x = m[0] THEN mb[m[0]].pkt_len + mb[m[2]].pkt_len
                                               ELSE IF x = m[2] THEN mb[m[2]].data_len
                                               ELSE mb[x].pkt_len
    BY <1>2, <1>4, <2>1, <2>2, <2>3, ChainedAt DEF Distinct
  <2>5. Chain'
    BY <1>1, <2>1, <2>4 DEF Pair, Chain, Distinct
  <2>6. Seg(0, 3 * Buf, 3)' /\ Seg(1, Buf, 1)' /\ Seg(2, Buf, 1)' /\ Distinct'
    BY <1>1, <1>2, <2>1, <2>2, <2>4 DEF Seg, Distinct
  <2> QED BY <1>1, <1>4, <2>1, <2>4, <2>5, <2>6 DEF PacketInv, Typed, Shape, Label, Built
<1> QED BY <1>3, <1>4 DEF rte_pktmbuf_chain

(* Three buffers do not fit into one mbuf; what is sent is the chain. *)
LEMMA SendStep ==
  ASSUME PacketInv, rte_pktmbuf_linearize \/ rte_eth_tx_burst
  PROVE  PacketInv'
<1>1. tx = <<>> /\ Built
  BY DEF PacketInv, Shape, rte_pktmbuf_linearize, rte_eth_tx_burst
<1>2. Pointers /\ Distinct /\ Chain
  BY <1>1 DEF Built, Seg, Pointers
<1>3. CASE rte_pktmbuf_linearize
  <2>1. mb[m[0]].pkt_len = 3 * Buf
    BY <1>1 DEF Built, Seg
  <2>2. ~(mb[m[0]].pkt_len <= Room)
    BY <2>1, ChainedMbufAssumption
  <2>3. pc' = "tx_burst" /\ UNCHANGED <<pool, mb, m, rx, tx>>
    BY <1>3, <2>2 DEF rte_pktmbuf_linearize
  <2>4. Built'
    BY <1>1, <2>3 DEF Built, Seg, Distinct, Chain
  <2> QED BY <1>1, <2>3, <2>4 DEF PacketInv, Typed, Shape, Label
<1>4. CASE rte_eth_tx_burst
  <2>1. UNCHANGED <<pool, mb, m, rx>>
    BY <1>4 DEF rte_eth_tx_burst
  <2>2. Built' /\ Pointers'
    BY <1>1, <1>2, <2>1 DEF Built, Seg, Distinct, Chain, Pointers
  <2>3. CASE pc' = "exited" /\ UNCHANGED tx
    BY <2>1, <2>3 DEF PacketInv, Typed, Shape, Label
  <2>4. CASE pc' = "free_m0" /\ tx' = Segs[m[0]]
    <3>1. tx' = <<m'[0], m'[1], m'[2]>>
      BY <1>2, <2>1, <2>4, ChainSegs DEF Pointers, Distinct
    <3>2. tx' \in Seq(Mbuf)
      BY <2>2, <3>1 DEF Pointers
    <3> QED BY <2>1, <2>2, <2>4, <3>1, <3>2 DEF PacketInv, Typed, Shape, Label
  <2> QED BY <1>4, <2>3, <2>4 DEF rte_eth_tx_burst
<1> QED BY <1>3, <1>4

(* Putting segments back cuts them apart.                                  *)
LEMMA FreedShape ==
  ASSUME Typed, NEW s, Freed(s), \A x \in Mbuf : x \notin s => mb[x].next = NULL
  PROVE  pool' \in [Mbuf -> Nat] /\ mb' \in [Mbuf -> MbufType] /\ Loose'
<1>1. pool' \in [Mbuf -> Nat]
  <2>1. \A x \in Mbuf : pool[x] + (IF x \in s THEN 1 ELSE 0) \in Nat
    <3> SUFFICES ASSUME NEW x \in Mbuf PROVE pool[x] + (IF x \in s THEN 1 ELSE 0) \in Nat
      OBVIOUS
    <3>1. pool[x] \in Nat
      BY DEF Typed
    <3>2. CASE x \in s
      BY <3>1, <3>2
    <3>3. CASE x \notin s
      BY <3>1, <3>3
    <3> QED BY <3>2, <3>3
  <2> QED BY <2>1, Zenon DEF Freed
<1>2. ASSUME NEW x \in Mbuf
      PROVE  mb'[x] \in MbufType /\ mb'[x].next = NULL
  <2>1. mb[x] \in MbufType
    BY DEF Typed
  <2>2. CASE x \in s
    <3>1. mb'[x] = [mb[x] EXCEPT !.next = NULL, !.nb_segs = 1]
      BY <2>2 DEF Freed
    <3> DEFINE q == [mb[x] EXCEPT !.next = NULL]
               r == [q EXCEPT !.nb_segs = 1]
    <3>2. q \in MbufType /\ q.next = NULL
      BY <2>1 DEF MbufType
    <3> HIDE DEF q
    <3>3. r \in MbufType /\ r.next = NULL
      BY <3>2 DEF MbufType
    <3>4. mb'[x] = r
      BY <3>1 DEF q
    <3> QED BY <3>3, <3>4
  <2>3. CASE x \notin s
    <3>1. mb'[x] = mb[x]
      BY <2>3 DEF Freed
    <3> QED BY <2>1, <2>3, <3>1
  <2> QED BY <2>2, <2>3
<1>3. mb' = [x \in Mbuf |-> mb'[x]]
  BY Zenon DEF Freed
<1>4. Loose'
  BY <1>2 DEF Loose
<1>5. mb' \in [Mbuf -> MbufType]
  BY <1>2, <1>3
<1> QED BY <1>1, <1>4, <1>5

(* The segments of three, as a set. *)
LEMMA ThreeSet ==
  ASSUME NEW a, NEW b, NEW c
  PROVE  ToSet(<<a, b, c>>) = {a, b, c}
BY DEF ToSet

(* main() and the driver free the packet in either order. *)
LEMMA FreeSteps ==
  ASSUME PacketInv, rte_pktmbuf_free \/ NicTransmit
  PROVE  PacketInv'
<1>1. m' = m /\ rx' = rx
  BY DEF rte_pktmbuf_free, NicTransmit
<1>2. CASE rte_pktmbuf_free /\ pc = "free_m0"
  <2>1. Freed(ToSet(Segs[m[0]])) /\ pc' = "free_m1" /\ tx' = tx
    BY <1>2 DEF rte_pktmbuf_free
  <2>2. Pointers
    BY <1>2 DEF PacketInv, Shape
  <2>3. \A x \in Mbuf : x \notin ToSet(Segs[m[0]]) => mb[x].next = NULL
    <3>1. CASE Loose
      BY <3>1 DEF Loose
    <3>2. CASE Built
      <4>1. Segs[m[0]] = <<m[0], m[1], m[2]>> /\ Chain
        BY <2>2, <3>2, ChainSegs DEF Pointers, Distinct, Built
      <4>2. ToSet(Segs[m[0]]) = {m[0], m[1], m[2]}
        BY <4>1, ThreeSet
      <4> QED BY <4>1, <4>2 DEF Chain
    <3> QED BY <1>2, <3>1, <3>2 DEF PacketInv, Shape
  <2>4. pool' \in [Mbuf -> Nat] /\ mb' \in [Mbuf -> MbufType] /\ Loose'
    BY <2>1, <2>3, FreedShape DEF PacketInv
  <2> QED BY <1>1, <2>1, <2>2, <2>4 DEF PacketInv, Typed, Shape, Label, Pointers
<1>3. CASE rte_pktmbuf_free /\ pc = "free_m1"
  <2>1. Freed(ToSet(Segs[m[1]])) /\ pc' = "mempool_free" /\ tx' = tx
    BY <1>3 DEF rte_pktmbuf_free
  <2>2. Pointers /\ Loose
    BY <1>3 DEF PacketInv, Shape
  <2>4. pool' \in [Mbuf -> Nat] /\ mb' \in [Mbuf -> MbufType] /\ Loose'
    BY <2>1, <2>2, FreedShape DEF PacketInv, Loose
  <2> QED BY <1>1, <2>1, <2>2, <2>4 DEF PacketInv, Typed, Shape, Label, Pointers
<1>4. CASE NicTransmit
  <2>1. Freed(ToSet(tx)) /\ pc' = pc /\ tx' = <<>> /\ tx # <<>> /\ ~Ended
    BY <1>4 DEF NicTransmit
  <2>2. pc \in {"free_m0", "free_m1", "mempool_free"} /\ Pointers
    BY <2>1 DEF PacketInv, Shape, Typed, Label, Ended
  <2>3. \A x \in Mbuf : x \notin ToSet(tx) => mb[x].next = NULL
    <3>1. CASE Loose
      BY <3>1 DEF Loose
    <3>2. CASE Built /\ tx = <<m[0], m[1], m[2]>>
      <4>1. ToSet(tx) = {m[0], m[1], m[2]}
        BY <3>2, ThreeSet
      <4> QED BY <3>2, <4>1 DEF Built, Chain
    <3> QED BY <2>1, <2>2, <3>1, <3>2 DEF PacketInv, Shape
  <2>4. pool' \in [Mbuf -> Nat] /\ mb' \in [Mbuf -> MbufType] /\ Loose'
    BY <2>1, <2>3, FreedShape DEF PacketInv
  <2> QED BY <1>1, <2>1, <2>2, <2>4 DEF PacketInv, Typed, Shape, Pointers
<1> QED BY <1>2, <1>3, <1>4 DEF rte_pktmbuf_free

(* Every step preserves it. *)
LEMMA ShapeStep == PacketInv /\ [Next]_vars => PacketInv'
<1> SUFFICES ASSUME PacketInv, [Next]_vars PROVE PacketInv'
  OBVIOUS
<1>1. CASE rte_eal_init \/ rte_pktmbuf_pool_create
  BY <1>1, EarlySteps
<1>2. CASE rte_eth_dev_configure_easy
  BY <1>2, ConfigureShape
<1>3. CASE alloc_packet
  BY <1>3, AllocShape
<1>4. CASE rte_pktmbuf_chain
  BY <1>4, ChainStep
<1>5. CASE rte_pktmbuf_linearize \/ rte_eth_tx_burst
  BY <1>5, SendStep
<1>6. CASE rte_pktmbuf_free \/ NicTransmit
  BY <1>6, FreeSteps
<1>7. CASE rte_mempool_free
  BY <1>7 DEF rte_mempool_free, PacketInv, Typed, Shape, Label
<1>8. CASE UNCHANGED vars
  BY <1>8 DEF vars, PacketInv, Typed, Shape, Built, Seg, Distinct, RxOwned, Loose, Pair, Chain, Pointers
<1> QED BY <1>1, <1>2, <1>3, <1>4, <1>5, <1>6, <1>7, <1>8 DEF Next

(* Type correctness; in particular main() uses none of its three pointers  *)
(* before it is set.                                                       *)
THEOREM ChainedTypeCorrect == Spec => []TypeOK
<1>1. PacketInv => TypeOK
  <2> SUFFICES ASSUME PacketInv PROVE TypeOK
    OBVIOUS
  <2>1. pc \in {"chain_m1", "chain_m2", "linearize", "tx_burst", "free_m0", "free_m1"} =>
          Pointers
    BY DEF PacketInv, Shape, Seg, Pointers, Built
  <2>2. Pointers => NULL \notin {m[k] : k \in 0 .. 2}
    BY ChainedMbufAssumption DEF Pointers
  <2> QED BY <2>1, <2>2 DEF PacketInv, Typed, TypeOK, MbufType, Label
<1> QED BY <1>1, ShapeInit, ShapeStep, PTL DEF Spec

(* The sum over the segments, as a sum over their positions. *)
LEMMA FoldIsSum ==
  ASSUME NEW s
  PROVE  FoldSeq(LAMBDA x, n : mb[x].data_len + n, 0, s)
           = SumOf([i \in DOMAIN s |-> mb[s[i]].data_len], DOMAIN s)
BY Zenon DEF FoldSeq, FoldFunction, FoldFunctionOnSet, MapThenFoldSet, SumOf, SumFcn, Pick

(* The chain of three is what struct rte_mbuf describes. *)
LEMMA WholeThree ==
  ASSUME PacketInv, Built, NEW s, s = <<m[0], m[1], m[2]>>
  PROVE  IsWhole(s)
<1>1. Pointers /\ Distinct /\ Chain /\ Buf \in Nat
  BY ChainedMbufAssumption DEF Built, Seg, Pointers
<1>2. Segs[s[1]] = s
  BY <1>1, ChainSegs DEF Pointers, Distinct
<1>3. mb[s[1]].nb_segs = Len(s)
  BY DEF Built, Seg
<1> DEFINE F == [x \in Mbuf |-> mb[x].data_len]
           D == [i \in DOMAIN s |-> mb[s[i]].data_len]
<1>4. FoldSeq(LAMBDA x, n : mb[x].data_len + n, 0, s) = SumOf(D, DOMAIN s)
  BY FoldIsSum
<1>5. DOMAIN s = 1 .. 3 /\ D[1] = Buf /\ D[2] = Buf /\ D[3] = Buf
  BY DEF Built, Seg
<1>6. SumOf(D, 1 .. 3) = 3 * Buf
  <2> HIDE DEF D
  <2>1. SumOf(D, 1 .. 3) = D[1] + D[2] + D[3]
    BY <1>1, <1>5, SumThree
  <2> QED BY <1>1, <1>5, <2>1
<1>7. mb[s[1]].pkt_len = 3 * Buf
  BY DEF Built, Seg
<1> HIDE DEF D
<1>8. mb[s[1]].pkt_len = FoldSeq(LAMBDA x, n : mb[x].data_len + n, 0, s)
  BY <1>4, <1>5, <1>6, <1>7
<1> QED BY <1>2, <1>3, <1>8 DEF IsWhole

(* rte_eth_tx_burst() takes over one whole packet of the three buffers,    *)
(* none of them in the pool or in the receive queue, for any buffer and    *)
(* mbuf size for which linearizing has no room.                            *)
THEOREM WholePacketSent == Spec => []SentWhole
<1>1. PacketInv => SentWhole
  <2> SUFFICES ASSUME PacketInv, pc = "free_m0", tx # <<>>
               PROVE  /\ tx = <<m[0], m[1], m[2]>> /\ IsInjective(tx) /\ IsWhole(tx)
                      /\ ToSet(tx) \cap (Free \cup rx) = {}
    BY DEF SentWhole
  <2>1. Built /\ tx = <<m[0], m[1], m[2]>>
    BY DEF PacketInv, Shape
  <2>2. IsInjective(tx)
    BY <2>1 DEF Built, Distinct, IsInjective
  <2>3. IsWhole(tx)
    BY <2>1, WholeThree
  <2>4. ToSet(tx) = {m[0], m[1], m[2]}
    BY <2>1, ThreeSet
  <2>5. ToSet(tx) \cap (Free \cup rx) = {}
    BY <2>1, <2>4 DEF Built, Seg, Free
  <2> QED BY <2>1, <2>2, <2>3, <2>5
<1> QED BY <1>1, ShapeInit, ShapeStep, PTL DEF Spec

=============================================================================
