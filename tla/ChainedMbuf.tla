---------------------------- MODULE ChainedMbuf ----------------------------
(***************************************************************************)
(* chained_mbuf/main.c: three mbufs of a pool are filled, chained into one *)
(* packet, handed to the NIC and freed.  The NIC has taken mbufs of the    *)
(* same pool for its receive queue, which nobody polls, and gives back     *)
(* what it has sent at some time of its own.  DPDK's calls are modelled    *)
(* from the way main() uses them.  The pool counts how often each mbuf has *)
(* been put back: DPDK does not notice a second time.                      *)
(***************************************************************************)
EXTENDS Integers, Sequences, FiniteSets, FiniteSetsExt, SequencesExt

CONSTANTS
  Mbuf,         \* the mbufs of the pool (8192)
  NULL,
  RxRingSize,   \* rx_ring_size (128)
  Buf,          \* sizeof(buf0) (1000)
  Room          \* what an mbuf has room for (RTE_MBUF_DEFAULT_BUF_SIZE)

ASSUME ChainedMbufAssumption ==
  /\ NULL \notin Mbuf /\ IsFiniteSet(Mbuf)
  /\ {RxRingSize, Buf, Room} \subseteq Nat
  /\ Cardinality(Mbuf) >= RxRingSize + 3
  /\ 3 * Buf > Room   \* 3 * 1000 and 2048: the packet does not fit into one mbuf

VARIABLES
  pc,    \* the next call of main(), or how it ended
  pool,  \* how often each mbuf is in the pool
  mb,    \* struct rte_mbuf
  m,     \* m0, m1 and m2
  rx,    \* the mbufs of the receive queue
  tx     \* the segments of the packet the driver is to send

vars == <<pc, pool, mb, m, rx, tx>>

Free == {x \in Mbuf : pool[x] > 0}

(* The segments of a packet, by following next. *)
Segs[x \in Mbuf] ==
  <<x>> \o (IF mb[x].next = NULL THEN <<>> ELSE Segs[mb[x].next])

(* rte_pktmbuf_reset() *)
Reset == [data_len |-> 0, pkt_len |-> 0, nb_segs |-> 1, next |-> NULL]

Init ==
  /\ pc = "eal_init"
  /\ pool = [x \in Mbuf |-> 0] /\ mb = [x \in Mbuf |-> Reset]
  /\ m = [k \in 0 .. 2 |-> NULL]
  /\ rx = {} /\ tx = <<>>

-----------------------------------------------------------------------------
rte_eal_init ==
  /\ pc = "eal_init"
  /\ pc' \in {"pool_create", "exited"}
  /\ UNCHANGED <<pool, mb, m, rx, tx>>

rte_pktmbuf_pool_create ==
  /\ pc = "pool_create"
  /\ \/ pc' = "configure" /\ pool' = [x \in Mbuf |-> 1]
     \/ pc' = "exited" /\ UNCHANGED pool
  /\ UNCHANGED <<mb, m, rx, tx>>

(* Mutant: the loop makes one receive queue too many. *)
rte_eth_dev_configure_easy_OneMore ==
  /\ pc = "configure"
  /\ \/ pc' = "exited" /\ UNCHANGED <<pool, rx>>
     \/ /\ pc' = "alloc_m0"
        /\ \E taken \in SUBSET Free :
             /\ Cardinality(taken) <= 2 * RxRingSize
             /\ rx' = taken
             /\ pool' = [x \in Mbuf |-> pool[x] - (IF x \in taken THEN 1 ELSE 0)]
  /\ UNCHANGED <<mb, m, tx>>

(* Any of its calls may fail; rte_eth_dev_start() fills the one receive    *)
(* queue, if the driver works that way.                                    *)
rte_eth_dev_configure_easy ==
  /\ pc = "configure"
  /\ \/ pc' = "exited" /\ UNCHANGED <<pool, rx>>
     \/ /\ pc' = "alloc_m0"
        /\ \E taken \in SUBSET Free :
             /\ Cardinality(taken) <= RxRingSize
             /\ rx' = taken
             /\ pool' = [x \in Mbuf |-> pool[x] - (IF x \in taken THEN 1 ELSE 0)]
  /\ UNCHANGED <<mb, m, tx>>

(* Mutant: m2 is forgotten. *)
rte_pktmbuf_alloc_set_TwoOnly(at, k, next) ==
  /\ pc = at
  /\ IF Free = {} THEN pc' = "crashed" /\ UNCHANGED <<pool, mb, m>>
     ELSE \E x \in Free :
            /\ pool' = [pool EXCEPT ![x] = @ - 1]
            /\ mb' = [mb EXCEPT ![x] = [Reset EXCEPT !.data_len = Buf, !.pkt_len = Buf]]
            /\ m' = [m EXCEPT ![k] = x]
            /\ pc' = IF k = 1 THEN "chain_m1" ELSE next
  /\ UNCHANGED <<rx, tx>>

(* Nothing tests the result of rte_pktmbuf_alloc() before it is written    *)
(* through.                                                                *)
rte_pktmbuf_alloc_set(at, k, next) ==
  /\ pc = at
  /\ IF Free = {} THEN pc' = "crashed" /\ UNCHANGED <<pool, mb, m>>
     ELSE \E x \in Free :
            /\ pool' = [pool EXCEPT ![x] = @ - 1]
            /\ mb' = [mb EXCEPT ![x] = [Reset EXCEPT !.data_len = Buf, !.pkt_len = Buf]]
            /\ m' = [m EXCEPT ![k] = x]
            /\ pc' = next
  /\ UNCHANGED <<rx, tx>>

alloc_packet ==
  \/ rte_pktmbuf_alloc_set("alloc_m0", 0, "alloc_m1")
  \/ rte_pktmbuf_alloc_set("alloc_m1", 1, "alloc_m2")
  \/ rte_pktmbuf_alloc_set("alloc_m2", 2, "chain_m1")

(* rte_pktmbuf_chain(): what mb becomes. *)
Chained(head, tail) ==
  [mb EXCEPT ![Last(Segs[head])].next = tail,
             ![head].nb_segs = @ + mb[tail].nb_segs,
             ![head].pkt_len = @ + mb[tail].pkt_len,
             ![tail].pkt_len = mb[tail].data_len]

(* Mutant: m2 is chained to m1. *)
rte_pktmbuf_chain_ToLast ==
  /\ \/ pc = "chain_m1" /\ mb' = Chained(m[0], m[1]) /\ pc' = "chain_m2"
     \/ pc = "chain_m2" /\ mb' = Chained(m[1], m[2]) /\ pc' = "linearize"
  /\ UNCHANGED <<pool, m, rx, tx>>

rte_pktmbuf_chain ==
  /\ \/ pc = "chain_m1" /\ mb' = Chained(m[0], m[1]) /\ pc' = "chain_m2"
     \/ pc = "chain_m2" /\ mb' = Chained(m[0], m[2]) /\ pc' = "linearize"
  /\ UNCHANGED <<pool, m, rx, tx>>

(* rte_pktmbuf_free() and the driver put back every segment of s and cut   *)
(* them apart; their lengths stay.                                         *)
Freed(s) ==
  /\ pool' = [x \in Mbuf |-> pool[x] + (IF x \in s THEN 1 ELSE 0)]
  /\ mb' = [x \in Mbuf |-> IF x \in s THEN [mb[x] EXCEPT !.next = NULL, !.nb_segs = 1]
                                      ELSE mb[x]]

(* Copies all segments into the first one if there is room; there is not,  *)
(* and the result is ignored.                                              *)
rte_pktmbuf_linearize ==
  /\ pc = "linearize" /\ pc' = "tx_burst"
  /\ IF mb[m[0]].pkt_len <= Room
     THEN /\ pool' = [pool EXCEPT ![m[1]] = @ + 1, ![m[2]] = @ + 1]
          /\ mb' = [mb EXCEPT ![m[0]] = [@ EXCEPT !.data_len = mb[m[0]].pkt_len,
                                                  !.nb_segs = 1, !.next = NULL]]
     ELSE UNCHANGED <<pool, mb>>
  /\ UNCHANGED <<m, rx, tx>>

rte_eth_tx_burst ==
  /\ pc = "tx_burst"
  /\ \/ pc' = "free_m0" /\ tx' = Segs[m[0]]
     \/ pc' = "exited" /\ UNCHANGED tx
  /\ UNCHANGED <<pool, mb, m, rx>>

rte_pktmbuf_free ==
  /\ \/ pc = "free_m0" /\ Freed(ToSet(Segs[m[0]])) /\ pc' = "free_m1"
     \/ pc = "free_m1" /\ Freed(ToSet(Segs[m[1]])) /\ pc' = "mempool_free"
  /\ UNCHANGED <<m, rx, tx>>

(* rte_mempool_free() and the end of main(). *)
rte_mempool_free ==
  /\ pc = "mempool_free" /\ pc' = "returned"
  /\ UNCHANGED <<pool, mb, m, rx, tx>>

Ended == pc \in {"returned", "exited", "crashed"}

(* The NIC has sent the packet and the driver frees its segments. *)
NicTransmit ==
  /\ ~Ended /\ tx # <<>>
  /\ Freed(ToSet(tx)) /\ tx' = <<>>
  /\ UNCHANGED <<pc, m, rx>>

Next ==
  \/ rte_eal_init \/ rte_pktmbuf_pool_create \/ rte_eth_dev_configure_easy
  \/ alloc_packet \/ rte_pktmbuf_chain \/ rte_pktmbuf_linearize
  \/ rte_eth_tx_burst \/ rte_pktmbuf_free \/ rte_mempool_free
  \/ NicTransmit
  \/ Ended /\ UNCHANGED vars

Spec == Init /\ [][Next]_vars

-----------------------------------------------------------------------------
(* Properties.                                                             *)

(* Type invariant; all three pointers are set when they are first used.    *)
TypeOK ==
  /\ pc \in {"eal_init", "pool_create", "configure", "alloc_m0", "alloc_m1",
             "alloc_m2", "chain_m1", "chain_m2",
             "linearize", "tx_burst", "free_m0", "free_m1", "mempool_free",
             "returned", "exited", "crashed"}
  /\ pool \in [Mbuf -> Nat]
  /\ mb \in [Mbuf -> [data_len : Nat, pkt_len : Nat, nb_segs : Nat \ {0},
                      next : Mbuf \cup {NULL}]]
  /\ m \in [0 .. 2 -> Mbuf \cup {NULL}]
  /\ rx \subseteq Mbuf /\ tx \in Seq(Mbuf)
  /\ pc \in {"chain_m1", "chain_m2", "linearize", "tx_burst", "free_m0", "free_m1"} =>
       NULL \notin {m[k] : k \in 0 .. 2}

(* The unchecked rte_pktmbuf_alloc() never returns NULL: the receive queue *)
(* and the packet never need more than the pool has.                       *)
AllocSucceeds == pc # "crashed"

(* struct rte_mbuf: pkt_len is the sum over all segments, nb_segs their    *)
(* number.                                                                 *)
IsWhole(s) ==
  /\ Segs[s[1]] = s
  /\ mb[s[1]].nb_segs = Len(s)
  /\ mb[s[1]].pkt_len = FoldSeq(LAMBDA x, n : mb[x].data_len + n, 0, s)

(* What the driver takes over is one whole packet of the three buffers,    *)
(* and none of its mbufs is in the pool or in the receive queue.           *)
SentWhole ==
  pc = "free_m0" /\ tx # <<>> =>
    /\ tx = <<m[0], m[1], m[2]>> /\ IsInjective(tx) /\ IsWhole(tx)
    /\ ToSet(tx) \cap (Free \cup rx) = {}

(* As long as the driver has a packet, it is the whole packet that         *)
(* struct rte_mbuf describes.  main() frees it right after                 *)
(* rte_eth_tx_burst() and so cuts it to pieces.                            *)
QueuedPacketIsWhole == tx # <<>> => IsWhole(tx)
=============================================================================
