-------------------------------- MODULE Yak --------------------------------
(***************************************************************************)
(* YAK, yet another KNI model: a process that connects every DPDK port     *)
(* with a tap interface of the host.  Two threads share the ports:         *)
(*                                                                         *)
(*   tap_main   reads a frame from each port's tap in turn (a blocking     *)
(*              read) and puts it on the port's ring from_hostif;          *)
(*   fwd_main   polls each port in turn: it drains a burst from the ring   *)
(*              to the NIC, then writes a received burst to the tap.       *)
(*                                                                         *)
(* A frame travels in an mbuf.  Each port has its own pool of mbufs, used  *)
(* by tap_recv() and by the NIC's receive queue; freeing an mbuf returns   *)
(* it to the pool it came from.  The atomic steps are the calls that touch *)
(* state another thread, the NIC or the host can see.                      *)
(***************************************************************************)
EXTENDS YakPort, FiniteSets, Functions

CONSTANTS
  Mbuf,         \* all mbufs of the process
  PoolOf,       \* PoolOf[m]: the port whose pool m belongs to (m->pool)
  NoMbuf,       \* the NULL mbuf pointer
  RingSize,     \* ringsize of port_alloc(); the ring holds one less
  BURST_SIZE,   \* BURST_SIZE of fwd_main()
  RxRingSize,   \* rx_ring_size of port_configure()
  TxRingSize,   \* tx_ring_size of port_configure()
  Frame,        \* frame contents
  Forwarded,    \* those whose ether_type port_input() knows
  TapQueueLen   \* frames the kernel queues for a read of the tap

MbufsOf(p) == {m \in Mbuf : PoolOf[m] = p}

(* num_mbufs = 8191 and ringsize = 8192 in port_alloc(): a ring is larger  *)
(* than the pool that feeds it.                                            *)
ASSUME SizesAssumption ==
  /\ IsFiniteSet(Mbuf)
  /\ PoolOf \in [Mbuf -> Port]
  /\ NoMbuf \notin Mbuf
  /\ RingSize \in Nat
  /\ \A p \in Port : Cardinality(MbufsOf(p)) < RingSize
  /\ BURST_SIZE \in Nat \ {0}
  /\ RxRingSize \in Nat
  /\ TxRingSize \in Nat
  /\ Frame # {} /\ Forwarded \subseteq Frame
  /\ TapQueueLen \in Nat

VARIABLES
  pool,          \* the free mbufs, of all pools
  data,          \* data[m]: the frame last stored in m
  nicRx,         \* nicRx[p]: received mbufs the PMD has not handed out yet
  nicTx,         \* nicTx[p]: mbufs the PMD has accepted and not sent yet
  from_hostif,   \* from_hostif[p]: port p's ring
  fwdPc, fwdPid, \* fwd_main()'s control point and loop variable
  burst,         \* the rest of fwd_main()'s mbufs[] or bufs[] array
  tapPc, tapPid, \* tap_main()'s control point and loop variable
  tapM,          \* tap_main()'s m
  hostQ,         \* hostQ[p]: frames the host has sent and nobody has read
  hostif,        \* hostif[p]: the host's interface is "up", "down" or "gone"
  hostOut,       \* hostOut[p]: the frame last written to port p's tap
  wireOut        \* wireOut[p]: the frame last sent by port p's NIC

fwdVars  == <<fwdPc, fwdPid, burst>>
tapVars  == <<tapPc, tapPid, tapM>>
nicVars  == <<nicRx, nicTx, wireOut>>
hostVars == <<hostQ, hostif, hostOut>>
vars == <<portVars, pool, data, from_hostif, fwdVars, tapVars, nicVars, hostVars>>

FwdPc == {"none", "poll", "dequeue", "tx", "rx", "input"}
TapPc == {"none", "alloc", "read", "enqueue"}

NextPort(p) == (p + 1) % NumPorts
Least(a, b) == IF a < b THEN a ELSE b

(* s without its first n elements. *)
Rest(s, n) == SubSeq(s, n + 1, Len(s))

(* No frame has left yet: any value will do for hostOut and wireOut, and   *)
(* for the contents of a fresh mbuf.                                       *)
SomeFrame == CHOOSE f \in Frame : TRUE

Init ==
  /\ PortInit
  /\ pool = Mbuf
  /\ data = [m \in Mbuf |-> SomeFrame]
  /\ nicRx = [p \in Port |-> <<>>]
  /\ nicTx = [p \in Port |-> <<>>]
  /\ from_hostif = [p \in Port |-> <<>>]
  /\ fwdPc = "none" /\ fwdPid = 0 /\ burst = <<>>
  /\ tapPc = "none" /\ tapPid = 0 /\ tapM = NoMbuf
  /\ hostQ = [p \in Port |-> <<>>]
  /\ hostif = [p \in Port |-> "up"]
  /\ hostOut = [p \in Port |-> SomeFrame]
  /\ wireOut = [p \in Port |-> SomeFrame]

-----------------------------------------------------------------------------
(* main(): bring-up, then the forwarding thread, then the tap thread.  The *)
(* first thread is already running while the second one is created.        *)

main_port_alloc ==
  /\ PortNext
  /\ UNCHANGED <<pool, data, from_hostif, fwdVars, tapVars, nicVars, hostVars>>

main_create_fwd ==
  /\ proc = "running" /\ mainPc = "create_fwd"
  /\ mainPc' = "create_tap"
  /\ fwdPc' = "poll"
  /\ UNCHANGED <<proc, mainPid, at, pool, data, from_hostif, fwdPid, burst,
                 tapVars, nicVars, hostVars>>

main_create_tap ==
  /\ proc = "running" /\ mainPc = "create_tap"
  /\ mainPc' = "join"
  /\ tapPc' = "alloc"
  /\ UNCHANGED <<proc, mainPid, at, pool, data, from_hostif, fwdVars,
                 tapPid, tapM, nicVars, hostVars>>

(* pthread_create() fails: rte_exit(), also when the forwarding thread is  *)
(* already in its loop.                                                    *)
main_create_fail ==
  /\ proc = "running" /\ mainPc \in {"create_fwd", "create_tap"}
  /\ proc' = "exited"
  /\ UNCHANGED <<mainPc, mainPid, at, pool, data, from_hostif, fwdVars,
                 tapVars, nicVars, hostVars>>

main == main_port_alloc \/ main_create_fwd \/ main_create_tap \/ main_create_fail

-----------------------------------------------------------------------------
(* fwd_main().                                                             *)

FwdAt(pc) == proc = "running" /\ fwdPc = pc

(* Mutant: the ring is only looked at when it is empty. *)
fwd_poll_Inverted ==
  /\ FwdAt("poll")
  /\ fwdPc' = IF from_hostif[fwdPid] = <<>> THEN "dequeue" ELSE "rx"
  /\ UNCHANGED <<portVars, pool, data, from_hostif, fwdPid, burst, tapVars,
                 nicVars, hostVars>>

(* rte_ring_empty(): skip the dequeue when nothing is there. *)
fwd_poll ==
  /\ FwdAt("poll")
  /\ fwdPc' = IF from_hostif[fwdPid] = <<>> THEN "rx" ELSE "dequeue"
  /\ UNCHANGED <<portVars, pool, data, from_hostif, fwdPid, burst, tapVars,
                 nicVars, hostVars>>

(* rte_ring_dequeue_burst(): up to BURST_SIZE mbufs from the front. *)
fwd_dequeue ==
  /\ FwdAt("dequeue")
  /\ LET q == from_hostif[fwdPid]
         ndeq == Least(BURST_SIZE, Len(q))
     IN  /\ burst' = SubSeq(q, 1, ndeq)
         /\ from_hostif' = [from_hostif EXCEPT ![fwdPid] = Rest(q, ndeq)]
  /\ fwdPc' = "tx"
  /\ UNCHANGED <<portVars, pool, data, fwdPid, tapVars, nicVars, hostVars>>

(* Mutant: the mbuf is freed whether or not the PMD has taken it. *)
fwd_tx_FreesAlways ==
  /\ FwdAt("tx")
  /\ burst # <<>>
  /\ burst' = Tail(burst)
  /\ \/ /\ Len(nicTx[fwdPid]) < TxRingSize
        /\ nicTx' = [nicTx EXCEPT ![fwdPid] = Append(@, Head(burst))]
     \/ UNCHANGED nicTx
  /\ pool' = pool \cup {Head(burst)}
  /\ UNCHANGED <<portVars, data, from_hostif, fwdPc, fwdPid, tapVars, nicRx,
                 wireOut, hostVars>>

(* Mutant: the mbuf is not freed when the PMD does not take it. *)
fwd_tx_FreesNever ==
  /\ FwdAt("tx")
  /\ burst # <<>>
  /\ burst' = Tail(burst)
  /\ \/ /\ Len(nicTx[fwdPid]) < TxRingSize
        /\ nicTx' = [nicTx EXCEPT ![fwdPid] = Append(@, Head(burst))]
     \/ UNCHANGED nicTx
  /\ UNCHANGED <<portVars, pool, data, from_hostif, fwdPc, fwdPid, tapVars,
                 nicRx, wireOut, hostVars>>

(* rte_eth_tx_burst() of one mbuf, which the PMD may take if its queue has *)
(* room and which is freed if the PMD does not.                            *)
fwd_tx ==
  /\ FwdAt("tx")
  /\ burst # <<>>
  /\ burst' = Tail(burst)
  /\ \/ /\ Len(nicTx[fwdPid]) < TxRingSize
        /\ nicTx' = [nicTx EXCEPT ![fwdPid] = Append(@, Head(burst))]
        /\ UNCHANGED pool
     \/ /\ pool' = pool \cup {Head(burst)}
        /\ UNCHANGED nicTx
  /\ UNCHANGED <<portVars, data, from_hostif, fwdPc, fwdPid, tapVars, nicRx,
                 wireOut, hostVars>>

fwd_tx_done ==
  /\ FwdAt("tx")
  /\ burst = <<>>
  /\ fwdPc' = "rx"
  /\ UNCHANGED <<portVars, pool, data, from_hostif, fwdPid, burst, tapVars,
                 nicVars, hostVars>>

(* rte_eth_rx_burst(): `continue' with the next port if nothing came. *)
fwd_rx ==
  /\ FwdAt("rx")
  /\ LET q == nicRx[fwdPid]
         nb_rx == Least(BURST_SIZE, Len(q))
     IN  /\ burst' = SubSeq(q, 1, nb_rx)
         /\ nicRx' = [nicRx EXCEPT ![fwdPid] = Rest(q, nb_rx)]
         /\ IF nb_rx = 0
            THEN fwdPc' = "poll" /\ fwdPid' = NextPort(fwdPid)
            ELSE fwdPc' = "input" /\ UNCHANGED fwdPid
  /\ UNCHANGED <<portVars, pool, data, from_hostif, tapVars, nicTx, wireOut,
                 hostVars>>

(* Mutant: a frame that cannot be written to the tap is dropped instead of *)
(* ending the process.                                                     *)
port_input_DropsOnError ==
  /\ FwdAt("input")
  /\ burst # <<>>
  /\ IF data[Head(burst)] \in Forwarded /\ hostif[fwdPid] = "up"
     THEN hostOut' = [hostOut EXCEPT ![fwdPid] = data[Head(burst)]]
     ELSE UNCHANGED hostOut
  /\ pool' = pool \cup {Head(burst)}
  /\ burst' = Tail(burst)
  /\ UNCHANGED <<portVars, data, from_hostif, fwdPc, fwdPid, tapVars, nicVars,
                 hostQ, hostif>>

(* port_input() of the next received mbuf.  A known ether_type goes to     *)
(* tap_send(): write(), which fails unless the host's interface is up, and *)
(* then ends the process; any other frame is dropped.  Both free the mbuf. *)
port_input ==
  /\ FwdAt("input")
  /\ burst # <<>>
  /\ LET m == Head(burst)
     IN  \/ /\ data[m] \in Forwarded
            /\ hostif[fwdPid] = "up"
            /\ hostOut' = [hostOut EXCEPT ![fwdPid] = data[m]]
            /\ pool' = pool \cup {m}
            /\ burst' = Tail(burst)
            /\ UNCHANGED proc
         \/ /\ data[m] \in Forwarded
            /\ hostif[fwdPid] # "up"
            /\ proc' = "exited"
            /\ UNCHANGED <<hostOut, pool, burst>>
         \/ /\ data[m] \notin Forwarded
            /\ pool' = pool \cup {m}
            /\ burst' = Tail(burst)
            /\ UNCHANGED <<hostOut, proc>>
  /\ UNCHANGED <<mainPc, mainPid, at, data, from_hostif, fwdPc, fwdPid,
                 tapVars, nicVars, hostQ, hostif>>

fwd_next_port ==
  /\ FwdAt("input")
  /\ burst = <<>>
  /\ fwdPc' = "poll"
  /\ fwdPid' = NextPort(fwdPid)
  /\ UNCHANGED <<portVars, pool, data, from_hostif, burst, tapVars, nicVars,
                 hostVars>>

fwd_main ==
  \/ fwd_poll \/ fwd_dequeue \/ fwd_tx \/ fwd_tx_done
  \/ fwd_rx \/ port_input \/ fwd_next_port

-----------------------------------------------------------------------------
(* tap_main().                                                             *)

TapAt(pc) == proc = "running" /\ tapPc = pc

(* Mutant: all ports share one pool. *)
tap_recv_alloc_SharedPool ==
  /\ TapAt("alloc")
  /\ \/ \E m \in pool : tapM' = m /\ pool' = pool \ {m}
     \/ pool = {} /\ tapM' = NoMbuf /\ UNCHANGED pool
  /\ tapPc' = "read"
  /\ UNCHANGED <<portVars, data, from_hostif, fwdVars, tapPid, nicVars,
                 hostVars>>

(* tap_recv(), first half: rte_pktmbuf_alloc().  Its result is not checked *)
(* and rte_pktmbuf_mtod() dereferences it at once.                         *)
tap_recv_alloc ==
  /\ TapAt("alloc")
  /\ \/ \E m \in pool \cap MbufsOf(tapPid) :
          /\ tapM' = m
          /\ pool' = pool \ {m}
     \/ /\ pool \cap MbufsOf(tapPid) = {}
        /\ tapM' = NoMbuf
        /\ UNCHANGED pool
  /\ tapPc' = "read"
  /\ UNCHANGED <<portVars, data, from_hostif, fwdVars, tapPid, nicVars,
                 hostVars>>

(* Mutant: tap_recv() returns NULL when there is no mbuf. *)
tap_recv_read_ReturnsNull ==
  /\ TapAt("read")
  /\ \/ /\ tapM = NoMbuf
        /\ UNCHANGED <<proc, data, hostQ>>
     \/ /\ tapM # NoMbuf /\ hostif[tapPid] # "gone" /\ hostQ[tapPid] # <<>>
        /\ data' = [data EXCEPT ![tapM] = Head(hostQ[tapPid])]
        /\ hostQ' = [hostQ EXCEPT ![tapPid] = Tail(@)]
        /\ UNCHANGED proc
  /\ tapPc' = "enqueue"
  /\ UNCHANGED <<mainPc, mainPid, at, pool, from_hostif, fwdVars, tapPid,
                 tapM, nicVars, hostif, hostOut>>

(* tap_recv(), second half: rte_pktmbuf_mtod() of NULL kills the process;  *)
(* otherwise the read() blocks until the host has sent a frame or fails    *)
(* because the interface has been deleted, which is fatal.                 *)
tap_recv_read ==
  /\ TapAt("read")
  /\ \/ /\ tapM = NoMbuf
        /\ proc' = "crashed"
        /\ UNCHANGED <<tapPc, data, hostQ>>
     \/ /\ tapM # NoMbuf
        /\ hostif[tapPid] = "gone"
        /\ proc' = "exited"
        /\ UNCHANGED <<tapPc, data, hostQ>>
     \/ /\ tapM # NoMbuf
        /\ hostif[tapPid] # "gone"
        /\ hostQ[tapPid] # <<>>
        /\ data' = [data EXCEPT ![tapM] = Head(hostQ[tapPid])]
        /\ hostQ' = [hostQ EXCEPT ![tapPid] = Tail(@)]
        /\ tapPc' = "enqueue"
        /\ UNCHANGED proc
  /\ UNCHANGED <<mainPc, mainPid, at, pool, from_hostif, fwdVars, tapPid,
                 tapM, nicVars, hostif, hostOut>>

(* Mutant: a ring with room for one mbuf less. *)
RingFull_Short(p) == Len(from_hostif[p]) >= RingSize - 2

(* rte_ring_enqueue(), whose result is ignored: on a full ring the mbuf is *)
(* simply forgotten.  Then the loop goes to the next port.                 *)
RingFull(p) == Len(from_hostif[p]) >= RingSize - 1

(* Mutant: the mbuf goes to the ring of the port that is read next. *)
tap_enqueue_NextRing ==
  /\ TapAt("enqueue")
  /\ from_hostif' = IF RingFull(NextPort(tapPid))
                    THEN from_hostif
                    ELSE [from_hostif EXCEPT ![NextPort(tapPid)] = Append(@, tapM)]
  /\ tapM' = NoMbuf
  /\ tapPc' = "alloc"
  /\ tapPid' = NextPort(tapPid)
  /\ UNCHANGED <<portVars, pool, data, fwdVars, nicVars, hostVars>>

(* Mutant: the thread stays with a port as long as its host has frames. *)
tap_enqueue_DrainsPort ==
  /\ TapAt("enqueue")
  /\ from_hostif' = IF RingFull(tapPid)
                    THEN from_hostif
                    ELSE [from_hostif EXCEPT ![tapPid] = Append(@, tapM)]
  /\ tapM' = NoMbuf
  /\ tapPc' = "alloc"
  /\ tapPid' = IF hostQ[tapPid] = <<>> THEN NextPort(tapPid) ELSE tapPid
  /\ UNCHANGED <<portVars, pool, data, fwdVars, nicVars, hostVars>>

tap_enqueue ==
  /\ TapAt("enqueue")
  /\ from_hostif' = IF RingFull(tapPid)
                    THEN from_hostif
                    ELSE [from_hostif EXCEPT ![tapPid] = Append(@, tapM)]
  /\ tapM' = NoMbuf
  /\ tapPc' = "alloc"
  /\ tapPid' = NextPort(tapPid)
  /\ UNCHANGED <<portVars, pool, data, fwdVars, nicVars, hostVars>>

tap_main == tap_recv_alloc \/ tap_recv_read \/ tap_enqueue

-----------------------------------------------------------------------------
(* The NIC and its poll-mode driver, and the host (not under src/).        *)

(* A frame arrives on the wire and is stored in an mbuf of the port's      *)
(* pool; the NIC drops it if there is none or its queue is full.           *)
NicReceive(p, f) ==
  /\ proc = "running" /\ Done(p, "dev_start")
  /\ Len(nicRx[p]) < RxRingSize
  /\ \E m \in pool \cap MbufsOf(p) :
       /\ pool' = pool \ {m}
       /\ data' = [data EXCEPT ![m] = f]
       /\ nicRx' = [nicRx EXCEPT ![p] = Append(@, m)]
  /\ UNCHANGED <<portVars, from_hostif, fwdVars, tapVars, nicTx, wireOut,
                 hostVars>>

(* The NIC sends a frame and the driver frees its mbuf. *)
NicTransmit(p) ==
  /\ proc = "running"
  /\ nicTx[p] # <<>>
  /\ wireOut' = [wireOut EXCEPT ![p] = data[Head(nicTx[p])]]
  /\ pool' = pool \cup {Head(nicTx[p])}
  /\ nicTx' = [nicTx EXCEPT ![p] = Tail(@)]
  /\ UNCHANGED <<portVars, data, from_hostif, fwdVars, tapVars, nicRx,
                 hostVars>>

(* The host sends a frame through the tap interface. *)
HostSend(p, f) ==
  /\ proc = "running" /\ Done(p, "link_up")
  /\ hostif[p] = "up"
  /\ Len(hostQ[p]) < TapQueueLen
  /\ hostQ' = [hostQ EXCEPT ![p] = Append(@, f)]
  /\ UNCHANGED <<portVars, pool, data, from_hostif, fwdVars, tapVars, nicVars,
                 hostif, hostOut>>

(* The administrator brings the interface down or up, or deletes it. *)
HostSetLink(p, s) ==
  /\ proc = "running" /\ Done(p, "link_up")
  /\ hostif[p] \notin {"gone", s}
  /\ hostif' = [hostif EXCEPT ![p] = s]
  /\ UNCHANGED <<portVars, pool, data, from_hostif, fwdVars, tapVars, nicVars,
                 hostQ, hostOut>>

Environment ==
  \E p \in Port :
    \/ \E f \in Frame : NicReceive(p, f) \/ HostSend(p, f)
    \/ NicTransmit(p)
    \/ \E s \in {"up", "down", "gone"} : HostSetLink(p, s)

(* Nothing happens once the process has ended. *)
Terminated == proc # "running" /\ UNCHANGED vars

Next == main \/ fwd_main \/ tap_main \/ Environment \/ Terminated

Spec == Init /\ [][Next]_vars

(***************************************************************************)
(* main() and the two threads are scheduled by the operating system: each  *)
(* keeps taking steps while it can, tap_main() unless its read() has       *)
(* nothing to return.  The NIC keeps sending what it has accepted.  The    *)
(* host and the wire owe nothing.                                          *)
(***************************************************************************)
Fairness ==
  /\ WF_vars(main)
  /\ WF_vars(fwd_main)
  /\ WF_vars(tap_main)
  /\ \A p \in Port : WF_vars(NicTransmit(p))

FairSpec == Spec /\ Fairness

-----------------------------------------------------------------------------
(* Where an mbuf can be. *)

OnQueue(m, queue) == \E p \in Port : m \in Range(queue[p])

InPool(m)  == m \in pool
InRx(m)    == OnQueue(m, nicRx)
InTx(m)    == OnQueue(m, nicTx)
InRing(m)  == OnQueue(m, from_hostif)
InBurst(m) == m \in Range(burst)
InTap(m)   == m = tapM

(* Type invariant. *)
TypeOK ==
  /\ PortTypeOK
  /\ pool \subseteq Mbuf
  /\ data \in [Mbuf -> Frame]
  /\ nicRx \in [Port -> Seq(Mbuf)]
  /\ nicTx \in [Port -> Seq(Mbuf)]
  /\ from_hostif \in [Port -> Seq(Mbuf)]
  /\ fwdPc \in FwdPc /\ fwdPid \in Port /\ burst \in Seq(Mbuf)
  /\ tapPc \in TapPc /\ tapPid \in Port /\ tapM \in Mbuf \cup {NoMbuf}
  /\ hostQ \in [Port -> Seq(Frame)]
  /\ hostif \in [Port -> {"up", "down", "gone"}]
  /\ hostOut \in [Port -> Frame]
  /\ wireOut \in [Port -> Frame]

(* No mbuf is in two hands: the two threads, the driver and the pool never *)
(* hold the same mbuf, and no queue holds it twice.  This is what rules    *)
(* out a double rte_pktmbuf_free() and an mbuf that is sent while another  *)
(* frame is read into it.                                                  *)
NoAliasing ==
  /\ \A m \in Mbuf :
       /\ InPool(m) => ~(InRx(m) \/ InTx(m) \/ InRing(m) \/ InBurst(m) \/ InTap(m))
       /\ InRx(m) => ~(InTx(m) \/ InRing(m) \/ InBurst(m) \/ InTap(m))
       /\ InTx(m) => ~(InRing(m) \/ InBurst(m) \/ InTap(m))
       /\ InRing(m) => ~(InBurst(m) \/ InTap(m))
       /\ InBurst(m) => ~InTap(m)
  /\ \A p \in Port : IsInjective(nicRx[p]) /\ IsInjective(nicTx[p])
                       /\ IsInjective(from_hostif[p])
  /\ IsInjective(burst)

(* No mbuf is ever lost, although tap_main() ignores the result of         *)
(* rte_ring_enqueue() and fwd_main() has three different places that must  *)
(* free: every mbuf is in the pool or where some code will free it.        *)
NoLeak ==
  \A m \in Mbuf :
    InPool(m) \/ InRx(m) \/ InTx(m) \/ InRing(m) \/ InBurst(m) \/ InTap(m)

(* The unchecked rte_ring_enqueue() in tap_main() cannot fail: whenever    *)
(* the tap thread is about to enqueue, the ring has a free slot, because   *)
(* the ring is larger than the pool its mbufs come from.                   *)
RingHasRoom == tapPc = "enqueue" => ~RingFull(tapPid)

(* A port's queues only hold mbufs of the port's own pool, so a busy port  *)
(* can exhaust its own pool but never another port's.                      *)
PoolAffinity ==
  /\ \A p \in Port :
       Range(nicRx[p]) \cup Range(nicTx[p]) \cup Range(from_hostif[p])
         \subseteq MbufsOf(p)
  /\ Range(burst) \subseteq MbufsOf(fwdPid)
  /\ tapM \in MbufsOf(tapPid) \cup {NoMbuf}

(* No thread indexes port[] before every port_alloc() has returned.  The   *)
(* forwarding thread is already running while main() creates the tap       *)
(* thread, and nothing but the order in main() keeps it off a half-made    *)
(* port.                                                                   *)
ThreadsSeeReadyPorts ==
  fwdPc # "none" \/ tapPc # "none" => \A p \in Port : Ready(p)

(* The comment on rte_pktmbuf_mtod() in bpf/code/mbuf.h: before using it   *)
(* the user must ensure that the first segment is large enough for the     *)
(* data.  tap_recv() applies it to an mbuf it has not looked at.           *)
MtodOnMbuf == TapAt("read") => tapM # NoMbuf

-----------------------------------------------------------------------------
(* Liveness. *)

(* Every mbuf that leaves the pool comes back while the process lives,     *)
(* unless it is the one tap_main() holds while it waits for the host: the  *)
(* NIC's frames reach the host and the host's frames leave through the NIC *)
(* (or are dropped), however the two threads interleave.                   *)
BuffersRecycled ==
  \A m \in Mbuf :
    (~InPool(m) /\ ~InTap(m)) ~> (InPool(m) \/ proc # "running")

(* tap_main() blocks in read() on one port at a time.  It comes round to   *)
(* every port for ever provided that no port's host stays silent for ever. *)
TapServesAll ==
  (\A q \in Port : []<>(hostQ[q] # <<>>)) =>
    \A p \in Port : []<>(tapPid = p \/ proc # "running")

-----------------------------------------------------------------------------
(***************************************************************************)
(* Refinement.  A frame on its way from the host to the wire of port p is  *)
(* in the driver's queue, in the burst being sent, in the ring, in the tap *)
(* thread's hands or in the kernel, the oldest first; one on its way to    *)
(* the host is in the burst being delivered or in the receive queue.       *)
(***************************************************************************)
Contents(s) == [i \in 1 .. Len(s) |-> data[s[i]]]

Sending(p)    == IF fwdPid = p /\ fwdPc = "tx" THEN burst ELSE <<>>
Delivering(p) == IF fwdPid = p /\ fwdPc = "input" THEN burst ELSE <<>>
JustRead(p)   == IF tapPid = p /\ tapPc = "enqueue" THEN <<tapM>> ELSE <<>>

HostToWire(p) ==
  Contents(nicTx[p] \o Sending(p) \o from_hostif[p] \o JustRead(p)) \o hostQ[p]
WireToHost(p) == Contents(Delivering(p) \o nicRx[p])

CC == INSTANCE CrossConnect WITH
        up  <- (proc = "running"),
        h2w <- [p \in Port |-> HostToWire(p)],
        w2h <- [p \in Port |-> WireToHost(p)]

(* YAK implements the cross connect: per port and direction its frames     *)
(* keep their order, are neither duplicated nor altered nor moved to       *)
(* another port, and a known ether_type is never dropped on the way to the *)
(* host.                                                                   *)
ImplementsCrossConnect == CC!CSpec

=============================================================================
