----------------------------- MODULE YakProofs -----------------------------
(***************************************************************************)
(* Theorems about YAK for any number of ports, mbufs and frames and any    *)
(* sizes that satisfy SizesAssumption: types, the ownership of mbufs, the  *)
(* order in which threads start, and the cross connect it implements.      *)
(***************************************************************************)
EXTENDS Yak, SequenceLemmas

-----------------------------------------------------------------------------
(* Type correctness.                                                       *)

(* The next port is a port. *)
LEMMA NextPortIsPort == \A p \in Port : NextPort(p) \in Port
BY NumPortsAssumption DEF Port, NextPort

LEMMA ZeroIsPort == 0 \in Port
BY NumPortsAssumption DEF Port

(* A dequeue of at most n elements gives two queues of the same elements.  *)
LEMMA BurstType ==
  ASSUME NEW S, NEW q \in Seq(S), NEW b \in Nat
  PROVE  /\ Least(b, Len(q)) \in 0 .. Len(q)
         /\ SubSeq(q, 1, Least(b, Len(q))) \in Seq(S)
         /\ Rest(q, Least(b, Len(q))) \in Seq(S)
BY SMTT(30) DEF Least, Rest

(* What the threads have in their hands between two calls: tap_main() has  *)
(* an mbuf when it enqueues and none when it allocates, and fwd_main()'s   *)
(* array is used up when it polls.                                         *)
Hands ==
  /\ tapPc = "enqueue" => tapM # NoMbuf
  /\ tapPc \in {"none", "alloc"} => tapM = NoMbuf
  /\ fwdPc \notin {"tx", "input"} => burst = <<>>

(* main() starts the forwarding thread first and the tap thread last. *)
Started ==
  /\ mainPc \in {"port_alloc", "create_fwd"} => fwdPc = "none"
  /\ mainPc # "join" => tapPc = "none"

(* TypeOK alone is not inductive: tap_enqueue would put NULL on the ring.  *)
TypeInv == TypeOK /\ Hands /\ Started

LEMMA TypeInit == Init => TypeInv
<1> SUFFICES ASSUME Init PROVE TypeInv
  OBVIOUS
<1>1. SomeFrame \in Frame
  BY SizesAssumption DEF SomeFrame
<1>2. PortTypeOK
  BY ZeroIsPort DEF Init, PortInit, PortTypeOK, MainPc, BringUp
<1> QED BY <1>1, <1>2, ZeroIsPort DEF Init, PortInit, TypeInv, TypeOK, Hands, Started, FwdPc, TapPc

LEMMA TypeStep == TypeInv /\ [Next]_vars => TypeOK'
<1> SUFFICES ASSUME TypeInv, [Next]_vars PROVE TypeOK'
  OBVIOUS
<1> USE DEF TypeInv, TypeOK
<1>1. CASE main
  <2>1. CASE main_port_alloc
    <3>1. PortTypeOK'
      <4>1. Len(BringUp) = 12
        BY DEF BringUp
      <4>2. CASE port_alloc_step
        <5>1. at \in [Port -> 1 .. 13] /\ mainPid \in Port /\ at[mainPid] # 13
          BY <4>1, <4>2 DEF port_alloc_step, PortTypeOK, Ready
        <5>2. at[mainPid] + 1 \in 1 .. 13
          <6>1. \A i \in 1 .. 13 : i # 13 => i + 1 \in 1 .. 13
            OBVIOUS
          <6>2. at[mainPid] \in 1 .. 13
            BY <5>1
          <6> QED BY <5>1, <6>1, <6>2
        <5>3. at' \in [Port -> 1 .. 13]
          BY <4>2, <5>1, <5>2 DEF port_alloc_step
        <5> QED BY <4>1, <4>2, <5>3 DEF port_alloc_step, PortTypeOK
      <4>3. CASE port_alloc_fail
        BY <4>3 DEF port_alloc_fail, PortTypeOK
      <4>4. CASE main_next_port
        BY <4>4 DEF main_next_port, PortTypeOK, MainPc
      <4> QED BY <2>1, <4>2, <4>3, <4>4 DEF main_port_alloc, PortNext
    <3> QED BY <2>1, <3>1 DEF main_port_alloc, fwdVars, tapVars, nicVars, hostVars
  <2>2. CASE main_create_fwd
    BY <1>1, <2>2 DEF main_create_fwd, PortTypeOK, MainPc, FwdPc, tapVars, nicVars, hostVars
  <2>3. CASE main_create_tap
    BY <1>1, <2>3 DEF main_create_tap, PortTypeOK, MainPc, TapPc, fwdVars, nicVars, hostVars
  <2>4. CASE main_create_fail
    BY <1>1, <2>4 DEF main_create_fail, PortTypeOK, fwdVars, tapVars, nicVars, hostVars
  <2> QED BY <1>1, <2>1, <2>2, <2>3, <2>4 DEF main
<1>2. CASE fwd_main
  <2>1. CASE fwd_poll
    BY <2>1 DEF fwd_poll, PortTypeOK, portVars, FwdPc, tapVars, nicVars, hostVars
  <2>2. CASE fwd_dequeue
    <3>1. burst' \in Seq(Mbuf) /\ from_hostif' \in [Port -> Seq(Mbuf)]
      BY <2>2, BurstType, SizesAssumption DEF fwd_dequeue
    <3> QED BY <2>2, <3>1 DEF fwd_dequeue, PortTypeOK, portVars, FwdPc, tapVars, nicVars, hostVars
  <2>3. CASE fwd_tx
    <3>1. Head(burst) \in Mbuf /\ Tail(burst) \in Seq(Mbuf)
      BY <2>3 DEF fwd_tx
    <3>2. nicTx' \in [Port -> Seq(Mbuf)]
      <4>1. Append(nicTx[fwdPid], Head(burst)) \in Seq(Mbuf)
        BY <3>1
      <4> QED BY <2>3, <4>1 DEF fwd_tx
    <3> QED BY <2>3, <3>1, <3>2 DEF fwd_tx, PortTypeOK, portVars, tapVars, hostVars
  <2>4. CASE fwd_tx_done
    BY <2>4 DEF fwd_tx_done, PortTypeOK, portVars, FwdPc, tapVars, nicVars, hostVars
  <2>5. CASE fwd_rx
    <3>1. burst' \in Seq(Mbuf) /\ nicRx' \in [Port -> Seq(Mbuf)]
      BY <2>5, BurstType, SizesAssumption DEF fwd_rx
    <3> QED BY <2>5, <3>1, NextPortIsPort DEF fwd_rx, PortTypeOK, portVars, FwdPc, tapVars, hostVars
  <2>6. CASE port_input
    <3>1. Head(burst) \in Mbuf /\ Tail(burst) \in Seq(Mbuf)
      BY <2>6 DEF port_input
    <3> QED BY <2>6, <3>1 DEF port_input, FwdAt, PortTypeOK, portVars, tapVars, nicVars, hostVars
  <2>7. CASE fwd_next_port
    BY <2>7, NextPortIsPort DEF fwd_next_port, PortTypeOK, portVars, FwdPc, tapVars, nicVars, hostVars
  <2> QED BY <1>2, <2>1, <2>2, <2>3, <2>4, <2>5, <2>6, <2>7 DEF fwd_main
<1>3. CASE tap_main
  <2>1. CASE tap_recv_alloc
    BY <2>1 DEF tap_recv_alloc, PortTypeOK, portVars, TapPc, fwdVars, nicVars, hostVars, MbufsOf
  <2>2. CASE tap_recv_read
    <3>1. data' \in [Mbuf -> Frame] /\ hostQ' \in [Port -> Seq(Frame)]
      <4>1. CASE UNCHANGED <<tapPc, data, hostQ>>
        BY <4>1
      <4>2. CASE hostQ[tapPid] # <<>> /\ tapM # NoMbuf
                   /\ data' = [data EXCEPT ![tapM] = Head(hostQ[tapPid])]
                   /\ hostQ' = [hostQ EXCEPT ![tapPid] = Tail(@)]
        <5>1. Head(hostQ[tapPid]) \in Frame /\ Tail(hostQ[tapPid]) \in Seq(Frame)
          BY <4>2
        <5> QED BY <4>2, <5>1
      <4> QED BY <2>2, <4>1, <4>2 DEF tap_recv_read
    <3> QED BY <2>2, <3>1 DEF tap_recv_read, PortTypeOK, portVars, TapPc,
              fwdVars, nicVars, hostVars
  <2>3. CASE tap_enqueue
    <3>1. from_hostif' \in [Port -> Seq(Mbuf)]
      <4>1. tapM \in Mbuf
        BY <2>3 DEF tap_enqueue, TapAt, Hands
      <4> QED BY <2>3, <4>1 DEF tap_enqueue
    <3> QED BY <2>3, <3>1, NextPortIsPort DEF tap_enqueue, PortTypeOK, portVars,
              TapPc, fwdVars, nicVars, hostVars
  <2> QED BY <1>3, <2>1, <2>2, <2>3 DEF tap_main
<1>4. CASE Environment
  <2>1. ASSUME NEW p \in Port, NEW f \in Frame, NicReceive(p, f)
        PROVE  TypeOK'
    <3>1. nicRx' \in [Port -> Seq(Mbuf)] /\ data' \in [Mbuf -> Frame]
          /\ pool' \subseteq Mbuf
      BY <2>1 DEF NicReceive, MbufsOf
    <3> QED BY <2>1, <3>1 DEF NicReceive, PortTypeOK, portVars, fwdVars, tapVars, hostVars
  <2>2. ASSUME NEW p \in Port, NEW f \in Frame, HostSend(p, f)
        PROVE  TypeOK'
    <3>1. hostQ' \in [Port -> Seq(Frame)]
      BY <2>2 DEF HostSend
    <3> QED BY <2>2, <3>1 DEF HostSend, PortTypeOK, portVars, fwdVars, tapVars, nicVars
  <2>3. ASSUME NEW p \in Port, NicTransmit(p)
        PROVE  TypeOK'
    <3>1. Head(nicTx[p]) \in Mbuf /\ Tail(nicTx[p]) \in Seq(Mbuf)
      BY <2>3 DEF NicTransmit
    <3> QED BY <2>3, <3>1 DEF NicTransmit, PortTypeOK, portVars, fwdVars, tapVars, hostVars
  <2>4. ASSUME NEW p \in Port, NEW s \in {"up", "down", "gone"}, HostSetLink(p, s)
        PROVE  TypeOK'
    BY <2>4 DEF HostSetLink, PortTypeOK, portVars, fwdVars, tapVars, nicVars
  <2> QED BY <1>4, <2>1, <2>2, <2>3, <2>4 DEF Environment
<1>5. CASE Terminated \/ UNCHANGED vars
  BY <1>5 DEF Terminated, vars, PortTypeOK, portVars, fwdVars, tapVars, nicVars, hostVars
<1> QED BY <1>1, <1>2, <1>3, <1>4, <1>5 DEF Next

LEMMA StartedStep == TypeInv /\ [Next]_vars => Started'
<1> SUFFICES ASSUME TypeInv, [Next]_vars PROVE Started'
  OBVIOUS
<1> USE DEF TypeInv, Started
<1>1. CASE main
  <2>1. CASE main_port_alloc
    <3>1. CASE port_alloc_step \/ port_alloc_fail
      BY <2>1, <3>1 DEF main_port_alloc, port_alloc_step, port_alloc_fail, fwdVars, tapVars
    <3>2. CASE main_next_port
      BY <2>1, <3>2 DEF main_port_alloc, main_next_port, fwdVars, tapVars
    <3> QED BY <2>1, <3>1, <3>2 DEF main_port_alloc, PortNext
  <2>2. CASE main_create_fwd
    BY <2>2 DEF main_create_fwd, tapVars
  <2>3. CASE main_create_tap
    BY <2>3 DEF main_create_tap, fwdVars
  <2>4. CASE main_create_fail
    BY <2>4 DEF main_create_fail, fwdVars, tapVars
  <2> QED BY <1>1, <2>1, <2>2, <2>3, <2>4 DEF main
<1>2. CASE fwd_main
  BY <1>2 DEF fwd_main, fwd_poll, fwd_dequeue, fwd_tx, fwd_tx_done, fwd_rx,
     port_input, fwd_next_port, FwdAt, tapVars, portVars
<1>3. CASE tap_main
  BY <1>3 DEF tap_main, tap_recv_alloc, tap_recv_read, tap_enqueue, TapAt, fwdVars, portVars
<1>4. CASE Environment
  BY <1>4 DEF Environment, NicReceive, HostSend, NicTransmit, HostSetLink, portVars, fwdVars, tapVars
<1>5. CASE Terminated \/ UNCHANGED vars
  BY <1>5 DEF Terminated, vars, portVars, fwdVars, tapVars
<1> QED BY <1>1, <1>2, <1>3, <1>4, <1>5 DEF Next

LEMMA HandsStep == TypeInv /\ [Next]_vars => Hands'
<1> SUFFICES ASSUME TypeInv, [Next]_vars PROVE Hands'
  OBVIOUS
<1> USE DEF TypeInv, Hands
<1>1. CASE main
  BY <1>1 DEF main, main_port_alloc, main_create_fwd, main_create_tap,
     main_create_fail, Started, fwdVars, tapVars
<1>2. CASE fwd_main
  <2>1. UNCHANGED tapVars
    BY <1>2 DEF fwd_main, fwd_poll, fwd_dequeue, fwd_tx, fwd_tx_done, fwd_rx,
       port_input, fwd_next_port
  <2>2. fwdPc' \notin {"tx", "input"} => burst' = <<>>
    <3>1. CASE fwd_rx
      <4>1. nicRx[fwdPid] \in Seq(Mbuf)
        BY DEF TypeOK
      <4>2. Least(BURST_SIZE, Len(nicRx[fwdPid])) = 0
              => SubSeq(nicRx[fwdPid], 1, Least(BURST_SIZE, Len(nicRx[fwdPid]))) = <<>>
        BY <4>1
      <4> QED BY <3>1, <4>2 DEF fwd_rx
    <3> QED BY <1>2, <3>1 DEF fwd_main, fwd_poll, fwd_dequeue, fwd_tx, fwd_tx_done,
              port_input, fwd_next_port, FwdAt
  <2> QED BY <2>1, <2>2 DEF tapVars
<1>3. CASE tap_main
  <2>1. UNCHANGED fwdVars
    BY <1>3 DEF tap_main, tap_recv_alloc, tap_recv_read, tap_enqueue
  <2>2. CASE tap_recv_alloc
    BY <2>1, <2>2 DEF tap_recv_alloc, fwdVars
  <2>3. CASE tap_recv_read
    BY <2>1, <2>3 DEF tap_recv_read, TapAt, fwdVars
  <2>4. CASE tap_enqueue
    BY <2>1, <2>4 DEF tap_enqueue, fwdVars
  <2> QED BY <1>3, <2>2, <2>3, <2>4 DEF tap_main
<1>4. CASE Environment
  BY <1>4 DEF Environment, NicReceive, HostSend, NicTransmit, HostSetLink, fwdVars, tapVars
<1>5. CASE Terminated \/ UNCHANGED vars
  BY <1>5 DEF Terminated, vars, fwdVars, tapVars
<1> QED BY <1>1, <1>2, <1>3, <1>4, <1>5 DEF Next

(* Every variable keeps the type its C declaration and its use give it; in *)
(* particular only mbufs, never NULL, get onto the ring.                   *)
THEOREM TypeCorrect == Spec => []TypeOK
<1>1. Init => TypeInv
  BY TypeInit
<1>2. TypeInv /\ [Next]_vars => TypeInv'
  BY TypeStep, HandsStep, StartedStep DEF TypeInv
<1>3. TypeInv => TypeOK
  BY DEF TypeInv
<1> QED BY <1>1, <1>2, <1>3, PTL DEF Spec

-----------------------------------------------------------------------------
(* One mbuf queue per port: what an append, a removal of the head and a    *)
(* burst do to the queues, when each port's queue holds distinct mbufs of  *)
(* the port's own pool.                                                    *)

OwnQueues(queue) ==
  /\ queue \in [Port -> Seq(Mbuf)]
  /\ \A p \in Port : IsInjective(queue[p]) /\ Range(queue[p]) \subseteq MbufsOf(p)

(* The queues g are the queues f after an append of e, a removal of the    *)
(* head, and a burst s of at most b, each at port p.                       *)
Appended(f, p, e, g) == g = [f EXCEPT ![p] = Append(@, e)]
HeadTaken(f, p, g) == g = [f EXCEPT ![p] = Tail(@)]
BurstTaken(f, p, b, s, g) ==
  /\ s = SubSeq(f[p], 1, Least(b, Len(f[p])))
  /\ g = [f EXCEPT ![p] = Rest(f[p], Least(b, Len(f[p])))]

LEMMA PoolsDisjoint ==
  \A p, q \in Port : p # q => MbufsOf(p) \cap MbufsOf(q) = {}
BY DEF MbufsOf

LEMMA AppendAt ==
  ASSUME NEW f, OwnQueues(f), NEW p \in Port, NEW e \in MbufsOf(p),
         ~OnQueue(e, f),
         NEW g, Appended(f, p, e, g)
  PROVE  /\ OwnQueues(g)
         /\ \A m : OnQueue(m, g) <=> OnQueue(m, f) \/ m = e
<1>1. e \in Mbuf /\ f[p] \in Seq(Mbuf) /\ e \notin Range(f[p])
  BY DEF MbufsOf, OwnQueues, OnQueue
<1>2. /\ g[p] \in Seq(Mbuf)
      /\ Range(g[p]) = Range(f[p]) \cup {e}
      /\ IsInjective(g[p])
  BY <1>1, AppendQueue DEF OwnQueues, Appended
<1>3. /\ g \in [Port -> Seq(Mbuf)]
      /\ \A q \in Port : q # p => g[q] = f[q]
  BY <1>1, <1>2 DEF OwnQueues, Appended
<1>4. OwnQueues(g)
  BY <1>2, <1>3 DEF OwnQueues
<1>5. \A m : OnQueue(m, g) <=> OnQueue(m, f) \/ m = e
  BY <1>2, <1>3 DEF OnQueue
<1> QED BY <1>4, <1>5

LEMMA TailAt ==
  ASSUME NEW f, OwnQueues(f), NEW p \in Port, f[p] # <<>>,
         NEW g, HeadTaken(f, p, g)
  PROVE  /\ OwnQueues(g)
         /\ Head(f[p]) \in MbufsOf(p) /\ OnQueue(Head(f[p]), f)
         /\ \A m : OnQueue(m, g) <=> OnQueue(m, f) /\ m # Head(f[p])
<1> DEFINE e == Head(f[p])
<1>1. f[p] \in Seq(Mbuf) /\ IsInjective(f[p]) /\ Range(f[p]) \subseteq MbufsOf(p)
  BY DEF OwnQueues
<1>2. /\ Tail(f[p]) \in Seq(Mbuf)
      /\ e \in Range(f[p])
      /\ Range(Tail(f[p])) = Range(f[p]) \ {e}
      /\ IsInjective(Tail(f[p]))
  BY <1>1, TailQueue
<1> HIDE DEF e
<1>3. /\ g \in [Port -> Seq(Mbuf)]
      /\ g[p] = Tail(f[p])
      /\ \A q \in Port : q # p => g[q] = f[q]
  BY <1>2 DEF OwnQueues, HeadTaken
<1>4. OwnQueues(g)
  BY <1>1, <1>2, <1>3 DEF OwnQueues
<1>5. e \in MbufsOf(p) /\ OnQueue(e, f)
  BY <1>1, <1>2 DEF OnQueue
<1>6. \A q \in Port : q # p => e \notin Range(f[q])
  BY <1>5, PoolsDisjoint DEF OwnQueues
<1>7. \A m : OnQueue(m, g) <=> OnQueue(m, f) /\ m # e
  BY <1>2, <1>3, <1>6 DEF OnQueue
<1> QED BY <1>4, <1>5, <1>7 DEF e

LEMMA BurstAt ==
  ASSUME NEW f, OwnQueues(f), NEW p \in Port, NEW b \in Nat,
         NEW s, NEW g, BurstTaken(f, p, b, s, g)
  PROVE  /\ OwnQueues(g)
         /\ s \in Seq(Mbuf) /\ IsInjective(s) /\ Range(s) \subseteq MbufsOf(p)
         /\ \A m \in Range(s) : OnQueue(m, f)
         /\ \A m : OnQueue(m, g) <=> OnQueue(m, f) /\ m \notin Range(s)
<1> DEFINE n == Least(b, Len(f[p]))
           r == Rest(f[p], n)
<1>1. f[p] \in Seq(Mbuf) /\ IsInjective(f[p]) /\ Range(f[p]) \subseteq MbufsOf(p)
  BY DEF OwnQueues
<1>2. n \in 0 .. Len(f[p])
  BY <1>1, BurstType
<1>3. /\ s \in Seq(Mbuf) /\ r \in Seq(Mbuf)
      /\ Range(s) \cup Range(r) = Range(f[p])
      /\ Range(s) \cap Range(r) = {}
      /\ IsInjective(s) /\ IsInjective(r)
  BY <1>1, <1>2, SplitQueue DEF Rest, BurstTaken
<1>4. /\ g \in [Port -> Seq(Mbuf)]
      /\ g[p] = r
      /\ \A q \in Port : q # p => g[q] = f[q]
  BY <1>3 DEF OwnQueues, BurstTaken
<1> HIDE DEF r
<1>5. OwnQueues(g)
  BY <1>1, <1>3, <1>4 DEF OwnQueues
<1>6. Range(s) \subseteq MbufsOf(p)
  BY <1>1, <1>3
<1>7. \A m \in Range(s) : OnQueue(m, f)
  BY <1>3 DEF OnQueue
<1>8. \A m \in Range(s) : \A q \in Port : q # p => m \notin Range(f[q])
  BY <1>6, PoolsDisjoint DEF OwnQueues
<1>9. \A m : OnQueue(m, g) <=> OnQueue(m, f) /\ m \notin Range(s)
  BY <1>3, <1>4, <1>8 DEF OnQueue
<1> QED BY <1>3, <1>5, <1>6, <1>7, <1>9

-----------------------------------------------------------------------------
(* Ownership of the mbufs.                                                 *)

(* The first half of NoAliasing: nobody holds what another one holds. *)
Exclusive ==
  \A m \in Mbuf :
    /\ InPool(m) => ~(InRx(m) \/ InTx(m) \/ InRing(m) \/ InBurst(m) \/ InTap(m))
    /\ InRx(m) => ~(InTx(m) \/ InRing(m) \/ InBurst(m) \/ InTap(m))
    /\ InTx(m) => ~(InRing(m) \/ InBurst(m) \/ InTap(m))
    /\ InRing(m) => ~(InBurst(m) \/ InTap(m))
    /\ InBurst(m) => ~InTap(m)

(* Each queue is a queue of distinct mbufs of its port's pool. *)
Queues == OwnQueues(nicRx) /\ OwnQueues(nicTx) /\ OwnQueues(from_hostif)

(* So is fwd_main()'s array, and tap_main() holds an mbuf of its port. *)
Held ==
  /\ IsInjective(burst) /\ Range(burst) \subseteq MbufsOf(fwdPid)
  /\ tapM \in MbufsOf(tapPid) \cup {NoMbuf}

(* The inductive invariant: neither NoAliasing nor NoLeak is one by itself *)
(* (a queue must hold its own pool's mbufs for the ring to have room, and  *)
(* the ring must have room for no mbuf to be lost).                        *)
Ownership == Queues /\ Held /\ Exclusive /\ NoLeak

OwnInv == TypeInv /\ Ownership

LEMMA OwnershipImplies == OwnInv => NoAliasing /\ NoLeak /\ PoolAffinity
BY DEF OwnInv, Ownership, Queues, Held, OwnQueues, Exclusive, NoAliasing, PoolAffinity

(* The counting argument: a ring and the tap thread's hands together hold  *)
(* no more than the port's pool.                                           *)
LEMMA RoomOnRing == OwnInv => RingHasRoom
<1> SUFFICES ASSUME OwnInv, tapPc = "enqueue", RingFull(tapPid)
             PROVE  FALSE
  BY DEF RingHasRoom
<1> DEFINE q == from_hostif[tapPid]
           P == MbufsOf(tapPid)
<1>1. tapPid \in Port /\ tapM \in P
  BY DEF OwnInv, TypeInv, TypeOK, Hands, Ownership, Held
<1>2. q \in Seq(Mbuf) /\ IsInjective(q) /\ Range(q) \subseteq P
  BY <1>1 DEF OwnInv, Ownership, Queues, OwnQueues
<1>3. tapM \notin Range(q)
  BY <1>1 DEF OwnInv, Ownership, Exclusive, InRing, InTap, OnQueue, MbufsOf
<1>4. IsFiniteSet(P) /\ Cardinality(P) \in Nat /\ Cardinality(P) < RingSize
  <2>1. P \subseteq Mbuf
    BY DEF MbufsOf
  <2> QED BY <1>1, <2>1, FS_Subset, FS_CardinalityType, SizesAssumption
<1>5. IsFiniteSet(P \ {tapM}) /\ Cardinality(P \ {tapM}) = Cardinality(P) - 1
  BY <1>1, <1>4, FS_RemoveElement
<1>6. Len(q) <= Cardinality(P \ {tapM})
  <2>1. Range(q) \subseteq P \ {tapM}
    BY <1>2, <1>3
  <2> QED BY <1>2, <1>5, <2>1, QueueLength
<1>7. Len(q) \in Nat /\ Len(q) >= RingSize - 1
  BY <1>2 DEF RingFull
<1> QED BY <1>4, <1>5, <1>6, <1>7, SizesAssumption

LEMMA OwnInit == Init => Ownership
<1> SUFFICES ASSUME Init PROVE Ownership
  OBVIOUS
<1>1. <<>> \in Seq(Mbuf) /\ Range(<<>>) = {} /\ IsInjective(<<>>)
  BY EmptyQueue
<1>2. Queues
  BY <1>1 DEF Init, Queues, OwnQueues
<1>3. Held
  BY <1>1 DEF Init, Held
<1>4. \A m \in Mbuf : /\ InPool(m)
                      /\ ~InRx(m) /\ ~InTx(m) /\ ~InRing(m) /\ ~InBurst(m)
                      /\ ~InTap(m)
  BY <1>1, SizesAssumption DEF Init, InPool, InRx, InTx, InRing, InBurst, InTap, OnQueue
<1> QED BY <1>2, <1>3, <1>4 DEF Ownership, Exclusive, NoLeak

(* A step that touches no mbuf. *)
mbufVars == <<pool, nicRx, nicTx, from_hostif, burst, fwdPid, tapM, tapPid>>

LEMMA OwnStutter == Ownership /\ UNCHANGED mbufVars => Ownership'
BY DEF mbufVars, Ownership, Queues, Held, Exclusive, NoLeak, InPool, InRx, InTx,
   InRing, InBurst, InTap, OnQueue

LEMMA OwnMain == OwnInv /\ main => Ownership'
<1> SUFFICES ASSUME OwnInv, main PROVE Ownership'
  OBVIOUS
<1>1. UNCHANGED mbufVars
  BY DEF main, main_port_alloc, main_create_fwd, main_create_tap, main_create_fail,
     mbufVars, fwdVars, tapVars, nicVars
<1> QED BY <1>1, OwnStutter DEF OwnInv

LEMMA OwnFwd == OwnInv /\ fwd_main => Ownership'
<1> SUFFICES ASSUME OwnInv, fwd_main PROVE Ownership'
  OBVIOUS
<1> USE DEF OwnInv, Ownership, Queues
<1>1. CASE fwd_poll \/ fwd_tx_done
  BY <1>1, OwnStutter DEF fwd_poll, fwd_tx_done, mbufVars, tapVars, nicVars
<1>2. CASE fwd_dequeue
  <2>1. fwdPid \in Port /\ burst = <<>>
    BY <1>2 DEF fwd_dequeue, FwdAt, TypeInv, TypeOK, Hands
  <2>2. /\ OwnQueues(from_hostif')
        /\ IsInjective(burst') /\ Range(burst') \subseteq MbufsOf(fwdPid)
        /\ \A m \in Range(burst') : OnQueue(m, from_hostif)
        /\ \A m : OnQueue(m, from_hostif') <=>
                    OnQueue(m, from_hostif) /\ m \notin Range(burst')
    <3>1. BurstTaken(from_hostif, fwdPid, BURST_SIZE, burst', from_hostif')
      BY <1>2 DEF fwd_dequeue, BurstTaken
    <3> QED BY <2>1, <3>1, BurstAt, SizesAssumption
  <2>3. UNCHANGED <<pool, nicRx, nicTx, fwdPid, tapM, tapPid>>
    BY <1>2 DEF fwd_dequeue, tapVars, nicVars
  <2>4. Queues' /\ Held'
    BY <2>2, <2>3 DEF Held
  <2>5. \A m \in Mbuf : ~InBurst(m)
    BY <2>1, EmptyQueue DEF InBurst
  <2>6. \A m \in Mbuf : /\ InPool(m)' <=> InPool(m)
                        /\ InRx(m)' <=> InRx(m)
                        /\ InTx(m)' <=> InTx(m)
                        /\ InRing(m)' <=> InRing(m) /\ ~InBurst(m)'
                        /\ InBurst(m)' => InRing(m)
                        /\ InTap(m)' <=> InTap(m)
    BY <2>2, <2>3 DEF InPool, InRx, InTx, InRing, InBurst, InTap
  <2> QED BY <2>4, <2>5, <2>6 DEF Exclusive, NoLeak
<1>3. CASE fwd_tx
  <2> DEFINE e == Head(burst)
  <2>1. fwdPid \in Port /\ burst \in Seq(Mbuf) /\ burst # <<>>
    BY <1>3 DEF fwd_tx, TypeInv, TypeOK
  <2>2. /\ e \in Mbuf /\ e \in Range(burst)
        /\ Range(burst') = Range(burst) \ {e}
        /\ IsInjective(burst')
    BY <1>3, <2>1, TailQueue DEF fwd_tx, Held
  <2>3. e \in MbufsOf(fwdPid) /\ InBurst(e) /\ ~InTx(e)
    BY <2>2 DEF Held, InBurst, Exclusive
  <2>4. UNCHANGED <<nicRx, from_hostif, fwdPid, tapM, tapPid>>
    BY <1>3 DEF fwd_tx, tapVars
  <2>5. Held'
    BY <2>2, <2>4 DEF Held
  <2>6. \A m \in Mbuf : /\ InRx(m)' <=> InRx(m)
                        /\ InRing(m)' <=> InRing(m)
                        /\ InBurst(m)' <=> InBurst(m) /\ m # e
                        /\ InTap(m)' <=> InTap(m)
    BY <2>2, <2>4 DEF InRx, InRing, InBurst, InTap
  <2>7. CASE nicTx' = [nicTx EXCEPT ![fwdPid] = Append(@, e)] /\ UNCHANGED pool
    <3> HIDE DEF e
    <3>1. /\ OwnQueues(nicTx')
          /\ \A m : OnQueue(m, nicTx') <=> OnQueue(m, nicTx) \/ m = e
      <4>1. Appended(nicTx, fwdPid, e, nicTx')
        BY <2>7 DEF Appended
      <4> QED BY <2>1, <2>3, <4>1, AppendAt DEF InTx
    <3>2. \A m \in Mbuf : /\ InPool(m)' <=> InPool(m)
                          /\ InTx(m)' <=> InTx(m) \/ m = e
      BY <2>7, <3>1 DEF InPool, InTx
    <3>3. Queues'
      BY <2>4, <3>1
    <3> QED BY <2>3, <2>5, <2>6, <3>2, <3>3 DEF Exclusive, NoLeak
  <2>8. CASE pool' = pool \cup {e} /\ UNCHANGED nicTx
    <3> HIDE DEF e
    <3>1. \A m \in Mbuf : /\ InPool(m)' <=> InPool(m) \/ m = e
                          /\ InTx(m)' <=> InTx(m)
      BY <2>8 DEF InPool, InTx
    <3>2. Queues'
      BY <2>4, <2>8
    <3> QED BY <2>3, <2>5, <2>6, <3>1, <3>2 DEF Exclusive, NoLeak
  <2> QED BY <1>3, <2>7, <2>8 DEF fwd_tx
<1>4. CASE fwd_rx
  <2>1. fwdPid \in Port /\ burst = <<>>
    BY <1>4 DEF fwd_rx, FwdAt, TypeInv, TypeOK, Hands
  <2>2. /\ OwnQueues(nicRx')
        /\ IsInjective(burst') /\ Range(burst') \subseteq MbufsOf(fwdPid)
        /\ \A m \in Range(burst') : OnQueue(m, nicRx)
        /\ \A m : OnQueue(m, nicRx') <=> OnQueue(m, nicRx) /\ m \notin Range(burst')
    <3>1. BurstTaken(nicRx, fwdPid, BURST_SIZE, burst', nicRx')
      BY <1>4 DEF fwd_rx, BurstTaken
    <3> QED BY <2>1, <3>1, BurstAt, SizesAssumption
  <2>3. UNCHANGED <<pool, nicTx, from_hostif, tapM, tapPid>>
    BY <1>4 DEF fwd_rx, tapVars
  <2>4. Range(burst') \subseteq MbufsOf(fwdPid')
    <3>1. CASE fwdPid' = fwdPid
      BY <2>2, <3>1
    <3>2. CASE Least(BURST_SIZE, Len(nicRx[fwdPid])) = 0
      <4>1. burst' = <<>>
        BY <1>4, <2>1, <3>2 DEF fwd_rx, TypeInv, TypeOK
      <4> QED BY <4>1, EmptyQueue
    <3> QED BY <1>4, <3>1, <3>2 DEF fwd_rx
  <2>5. Queues' /\ Held'
    BY <2>2, <2>3, <2>4 DEF Held
  <2>6. \A m \in Mbuf : ~InBurst(m)
    BY <2>1, EmptyQueue DEF InBurst
  <2>7. \A m \in Mbuf : /\ InPool(m)' <=> InPool(m)
                        /\ InRx(m)' <=> InRx(m) /\ ~InBurst(m)'
                        /\ InTx(m)' <=> InTx(m)
                        /\ InRing(m)' <=> InRing(m)
                        /\ InBurst(m)' => InRx(m)
                        /\ InTap(m)' <=> InTap(m)
    BY <2>2, <2>3 DEF InPool, InRx, InTx, InRing, InBurst, InTap
  <2> QED BY <2>5, <2>6, <2>7 DEF Exclusive, NoLeak
<1>5. CASE port_input
  <2> DEFINE e == Head(burst)
  <2>1. burst \in Seq(Mbuf) /\ burst # <<>>
    BY <1>5 DEF port_input, TypeInv, TypeOK
  <2>2. UNCHANGED <<nicRx, nicTx, from_hostif, fwdPid, tapM, tapPid>>
    BY <1>5 DEF port_input, tapVars, nicVars
  <2>3. CASE UNCHANGED <<pool, burst>>
    BY <2>2, <2>3, OwnStutter DEF mbufVars
  <2>4. CASE pool' = pool \cup {e} /\ burst' = Tail(burst)
    <3>1. /\ e \in Range(burst)
          /\ Range(burst') = Range(burst) \ {e}
          /\ IsInjective(burst')
      BY <2>1, <2>4, TailQueue DEF Held
    <3>2. Queues' /\ Held'
      BY <2>2, <3>1 DEF Held
    <3> HIDE DEF e
    <3>3. InBurst(e) /\ \A m \in Mbuf :
            /\ InPool(m)' <=> InPool(m) \/ m = e
            /\ InRx(m)' <=> InRx(m)
            /\ InTx(m)' <=> InTx(m)
            /\ InRing(m)' <=> InRing(m)
            /\ InBurst(m)' <=> InBurst(m) /\ m # e
            /\ InTap(m)' <=> InTap(m)
      BY <2>2, <2>4, <3>1 DEF InPool, InRx, InTx, InRing, InBurst, InTap
    <3> QED BY <3>2, <3>3 DEF Exclusive, NoLeak
  <2> QED BY <1>5, <2>3, <2>4 DEF port_input
<1>6. CASE fwd_next_port
  <2>1. Range(burst) = {}
    BY <1>6, EmptyQueue DEF fwd_next_port
  <2>2. UNCHANGED <<pool, nicRx, nicTx, from_hostif, burst, tapM, tapPid>>
    BY <1>6 DEF fwd_next_port, tapVars, nicVars
  <2>3. Queues' /\ Held'
    BY <2>1, <2>2 DEF Held
  <2> QED BY <2>2, <2>3 DEF Exclusive, NoLeak, InPool, InRx, InTx, InRing, InBurst,
            InTap, OnQueue
<1> QED BY <1>1, <1>2, <1>3, <1>4, <1>5, <1>6 DEF fwd_main

LEMMA OwnTap == OwnInv /\ tap_main => Ownership'
<1> SUFFICES ASSUME OwnInv, tap_main PROVE Ownership'
  OBVIOUS
<1> USE DEF OwnInv, Ownership, Queues
<1>1. CASE tap_recv_alloc
  <2>1. UNCHANGED <<nicRx, nicTx, from_hostif, burst, fwdPid, tapPid>>
    BY <1>1 DEF tap_recv_alloc, fwdVars, nicVars
  <2>2. tapM = NoMbuf
    BY <1>1 DEF tap_recv_alloc, TapAt, TypeInv, Hands
  <2>3. CASE tapM' = NoMbuf /\ UNCHANGED pool
    BY <2>1, <2>2, <2>3, OwnStutter DEF mbufVars
  <2>4. CASE \E m \in pool \cap MbufsOf(tapPid) : tapM' = m /\ pool' = pool \ {m}
    <3>1. PICK e \in pool \cap MbufsOf(tapPid) : tapM' = e /\ pool' = pool \ {e}
      BY <2>4
    <3>2. Queues' /\ Held'
      BY <2>1, <3>1 DEF Held
    <3>3. InPool(e) /\ \A m \in Mbuf :
            /\ InPool(m)' <=> InPool(m) /\ m # e
            /\ InRx(m)' <=> InRx(m)
            /\ InTx(m)' <=> InTx(m)
            /\ InRing(m)' <=> InRing(m)
            /\ InBurst(m)' <=> InBurst(m)
            /\ InTap(m)' <=> m = e
            /\ ~InTap(m)
      BY <2>1, <2>2, <3>1, SizesAssumption
         DEF InPool, InRx, InTx, InRing, InBurst, InTap
    <3> QED BY <3>2, <3>3 DEF Exclusive, NoLeak
  <2> QED BY <1>1, <2>3, <2>4 DEF tap_recv_alloc
<1>2. CASE tap_recv_read
  BY <1>2, OwnStutter DEF tap_recv_read, mbufVars, fwdVars, nicVars
<1>3. CASE tap_enqueue
  <2>1. UNCHANGED <<pool, nicRx, nicTx, burst, fwdPid>>
    BY <1>3 DEF tap_enqueue, fwdVars, nicVars
  <2>2. tapPid \in Port /\ tapM \in MbufsOf(tapPid) /\ tapM' = NoMbuf
    BY <1>3 DEF tap_enqueue, TapAt, TypeInv, TypeOK, Hands, Held
  <2>3. tapM \in Mbuf /\ ~InRing(tapM)
    BY <2>2 DEF MbufsOf, Exclusive, InTap
  <2>4. ~RingFull(tapPid)
    BY <1>3, RoomOnRing DEF RingHasRoom, tap_enqueue, TapAt
  <2>5. /\ OwnQueues(from_hostif')
        /\ \A m : OnQueue(m, from_hostif') <=> OnQueue(m, from_hostif) \/ m = tapM
    <3>1. Appended(from_hostif, tapPid, tapM, from_hostif')
      BY <1>3, <2>4 DEF tap_enqueue, Appended
    <3> QED BY <2>2, <2>3, <3>1, AppendAt DEF InRing
  <2>6. Queues' /\ Held'
    BY <2>1, <2>2, <2>5 DEF Held
  <2>7. \A m \in Mbuf : /\ InPool(m)' <=> InPool(m)
                        /\ InRx(m)' <=> InRx(m)
                        /\ InTx(m)' <=> InTx(m)
                        /\ InRing(m)' <=> InRing(m) \/ InTap(m)
                        /\ InBurst(m)' <=> InBurst(m)
                        /\ ~InTap(m)'
    BY <2>1, <2>2, <2>5, SizesAssumption
       DEF InPool, InRx, InTx, InRing, InBurst, InTap
  <2> QED BY <2>6, <2>7 DEF Exclusive, NoLeak
<1> QED BY <1>1, <1>2, <1>3 DEF tap_main

LEMMA OwnEnvironment == OwnInv /\ Environment => Ownership'
<1> SUFFICES ASSUME OwnInv, Environment PROVE Ownership'
  OBVIOUS
<1> USE DEF OwnInv, Ownership, Queues
<1>1. ASSUME NEW p \in Port, NEW f \in Frame, NicReceive(p, f)
      PROVE  Ownership'
  <2>1. UNCHANGED <<nicTx, from_hostif, burst, fwdPid, tapM, tapPid>>
    BY <1>1 DEF NicReceive, fwdVars, tapVars
  <2>2. PICK e \in pool \cap MbufsOf(p) :
          pool' = pool \ {e} /\ nicRx' = [nicRx EXCEPT ![p] = Append(@, e)]
    BY <1>1 DEF NicReceive
  <2>3. e \in Mbuf /\ InPool(e) /\ ~InRx(e)
    BY <2>2 DEF MbufsOf, InPool, Exclusive
  <2>4. /\ OwnQueues(nicRx')
        /\ \A m : OnQueue(m, nicRx') <=> OnQueue(m, nicRx) \/ m = e
    <3>1. Appended(nicRx, p, e, nicRx')
      BY <2>2 DEF Appended
    <3>2. OwnQueues(nicRx) /\ ~OnQueue(e, nicRx) /\ e \in MbufsOf(p)
      BY <2>2, <2>3 DEF InRx
    <3> HIDE DEF OwnInv, Ownership, Queues
    <3> QED BY <3>1, <3>2, AppendAt
  <2>5. Queues' /\ Held'
    BY <2>1, <2>4 DEF Held
  <2>6. \A m \in Mbuf : /\ InPool(m)' <=> InPool(m) /\ m # e
                        /\ InRx(m)' <=> InRx(m) \/ m = e
                        /\ InTx(m)' <=> InTx(m)
                        /\ InRing(m)' <=> InRing(m)
                        /\ InBurst(m)' <=> InBurst(m)
                        /\ InTap(m)' <=> InTap(m)
    BY <2>1, <2>2, <2>4 DEF InPool, InRx, InTx, InRing, InBurst, InTap
  <2> QED BY <2>3, <2>5, <2>6 DEF Exclusive, NoLeak
<1>2. ASSUME NEW p \in Port, NicTransmit(p)
      PROVE  Ownership'
  <2> DEFINE e == Head(nicTx[p])
  <2>1. UNCHANGED <<nicRx, from_hostif, burst, fwdPid, tapM, tapPid>>
        /\ pool' = pool \cup {e}
    BY <1>2 DEF NicTransmit, fwdVars, tapVars
  <2>2. /\ OwnQueues(nicTx')
        /\ e \in MbufsOf(p) /\ OnQueue(e, nicTx)
        /\ \A m : OnQueue(m, nicTx') <=> OnQueue(m, nicTx) /\ m # e
    <3>1. HeadTaken(nicTx, p, nicTx') /\ nicTx[p] # <<>> /\ OwnQueues(nicTx)
      BY <1>2 DEF NicTransmit, HeadTaken
    <3> HIDE DEF OwnInv, Ownership, Queues
    <3> QED BY <3>1, TailAt
  <2> HIDE DEF e
  <2>3. Queues' /\ Held'
    BY <2>1, <2>2 DEF Held
  <2>4. e \in Mbuf /\ InTx(e) /\ \A m \in Mbuf :
          /\ InPool(m)' <=> InPool(m) \/ m = e
          /\ InRx(m)' <=> InRx(m)
          /\ InTx(m)' <=> InTx(m) /\ m # e
          /\ InRing(m)' <=> InRing(m)
          /\ InBurst(m)' <=> InBurst(m)
          /\ InTap(m)' <=> InTap(m)
    BY <2>1, <2>2 DEF InPool, InRx, InTx, InRing, InBurst, InTap, MbufsOf
  <2> QED BY <2>3, <2>4 DEF Exclusive, NoLeak
<1>3. ASSUME NEW p \in Port, NEW f \in Frame, HostSend(p, f)
      PROVE  Ownership'
  BY <1>3, OwnStutter DEF HostSend, mbufVars, fwdVars, tapVars, nicVars
<1>4. ASSUME NEW p \in Port, NEW s \in {"up", "down", "gone"}, HostSetLink(p, s)
      PROVE  Ownership'
  BY <1>4, OwnStutter DEF HostSetLink, mbufVars, fwdVars, tapVars, nicVars
<1> QED BY <1>1, <1>2, <1>3, <1>4 DEF Environment

LEMMA OwnStep == OwnInv /\ [Next]_vars => OwnInv'
<1> SUFFICES ASSUME OwnInv, [Next]_vars PROVE OwnInv'
  OBVIOUS
<1>1. TypeInv'
  BY TypeStep, HandsStep, StartedStep DEF OwnInv, TypeInv
<1>2. CASE Terminated \/ UNCHANGED vars
  BY <1>1, <1>2, OwnStutter
     DEF OwnInv, Terminated, vars, mbufVars, fwdVars, tapVars, nicVars
<1> QED BY <1>1, <1>2, OwnMain, OwnFwd, OwnTap, OwnEnvironment DEF OwnInv, Next

LEMMA OwnAlways == Spec => []OwnInv
<1>1. Init => OwnInv
  BY TypeInit, OwnInit DEF OwnInv
<1> QED BY <1>1, OwnStep, PTL DEF Spec

(* No mbuf is ever in two hands, whatever the two threads, the NIC and the *)
(* host do: no double free, and no frame read into an mbuf being sent.     *)
THEOREM MbufsExclusive == Spec => []NoAliasing
BY OwnAlways, OwnershipImplies, PTL

(* No mbuf is lost on any of the paths through the two threads. *)
THEOREM MbufsNotLost == Spec => []NoLeak
BY OwnAlways, OwnershipImplies, PTL

(* The mbufs of a port stay with the port. *)
THEOREM MbufsStayWithPort == Spec => []PoolAffinity
BY OwnAlways, OwnershipImplies, PTL

(* The rte_ring_enqueue() whose result tap_main() ignores always succeeds, *)
(* for any ring larger than its port's pool.                               *)
THEOREM EnqueueSucceeds == Spec => []RingHasRoom
BY OwnAlways, RoomOnRing, PTL

-----------------------------------------------------------------------------
(* Bring-up.                                                               *)

(* main()'s loop has finished the ports before mainPid, and all of them    *)
(* once it has left the loop.                                              *)
Upward ==
  IF mainPc = "port_alloc"
  THEN \A p \in Port : p < mainPid => Ready(p)
  ELSE \A p \in Port : Ready(p)

LEMMA UpwardInit == Init => Upward
BY NumPortsAssumption DEF Init, PortInit, Upward, Port

LEMMA UpwardStep == TypeInv /\ Upward /\ [Next]_vars => Upward'
<1> SUFFICES ASSUME TypeInv, Upward, [Next]_vars PROVE Upward'
  OBVIOUS
<1>1. CASE UNCHANGED <<mainPc, mainPid, at>>
  BY <1>1 DEF Upward, Ready
<1>2. CASE port_alloc_step
  <2>1. at' = [at EXCEPT ![mainPid] = @ + 1] /\ mainPc = "port_alloc"
    BY <1>2 DEF port_alloc_step
  <2>2. UNCHANGED <<mainPc, mainPid>>
    BY <1>2 DEF port_alloc_step
  <2>3. \A p \in Port : p < mainPid => at'[p] = at[p]
    BY <2>1, NumPortsAssumption DEF TypeInv, TypeOK, PortTypeOK, Port
  <2> QED BY <2>1, <2>2, <2>3 DEF Upward, Ready
<1>3. CASE main_next_port
  <2>1. mainPc = "port_alloc" /\ Ready(mainPid) /\ UNCHANGED at
    BY <1>3 DEF main_next_port
  <2>2. mainPid \in Port
    BY DEF TypeInv, TypeOK, PortTypeOK
  <2>3. \A p \in Port : p < mainPid + 1 => Ready(p)
    BY <2>1, <2>2, NumPortsAssumption DEF Upward, Port
  <2>4. CASE mainPid + 1 \in Port /\ mainPid' = mainPid + 1 /\ UNCHANGED mainPc
    BY <2>1, <2>3, <2>4 DEF Upward, Ready
  <2>5. CASE mainPid + 1 \notin Port /\ mainPc' = "create_fwd"
    <3>1. \A p \in Port : p < mainPid + 1
      BY <2>2, <2>5, NumPortsAssumption DEF Port
    <3> QED BY <2>1, <2>3, <2>5, <3>1 DEF Upward, Ready
  <2> QED BY <1>3, <2>4, <2>5 DEF main_next_port
<1>4. CASE main_create_fwd \/ main_create_tap
  BY <1>4 DEF main_create_fwd, main_create_tap, Upward, Ready
<1>5. CASE port_alloc_fail \/ main_create_fail
  BY <1>1, <1>5 DEF port_alloc_fail, main_create_fail
<1>6. CASE fwd_main
  BY <1>1, <1>6 DEF fwd_main, fwd_poll, fwd_dequeue, fwd_tx, fwd_tx_done, fwd_rx,
     port_input, fwd_next_port, portVars
<1>7. CASE tap_main
  BY <1>1, <1>7 DEF tap_main, tap_recv_alloc, tap_recv_read, tap_enqueue, portVars
<1>8. CASE Environment
  BY <1>1, <1>8 DEF Environment, NicReceive, HostSend, NicTransmit, HostSetLink, portVars
<1>9. CASE Terminated \/ UNCHANGED vars
  BY <1>1, <1>9 DEF Terminated, vars, portVars
<1> QED BY <1>2, <1>3, <1>4, <1>5, <1>6, <1>7, <1>8, <1>9
        DEF Next, main, main_port_alloc, PortNext

(* No thread runs before port_alloc() has returned for every port, though  *)
(* nothing but main()'s order of calls sees to it.                         *)
THEOREM ThreadsStartLast == Spec => []ThreadsSeeReadyPorts
<1>1. Init => TypeInv /\ Upward
  BY TypeInit, UpwardInit
<1>2. TypeInv /\ Upward /\ [Next]_vars => (TypeInv /\ Upward)'
  BY TypeStep, HandsStep, StartedStep, UpwardStep DEF TypeInv
<1>3. TypeInv /\ Upward => ThreadsSeeReadyPorts
  BY DEF TypeInv, Started, Upward, ThreadsSeeReadyPorts
<1> QED BY <1>1, <1>2, <1>3, PTL DEF Spec

-----------------------------------------------------------------------------
(***************************************************************************)
(* YAK implements the cross connect.  Every step of a thread, the NIC or   *)
(* the host moves at most one frame, at the end of a port's row, or none   *)
(* at all.  Two facts about mbufs carry the argument (OwnInv): nobody else *)
(* holds the mbuf a frame is stored in, and the ring has room for the mbuf *)
(* that tap_main() enqueues.                                               *)
(*                                                                         *)
(* Between the host and the wire a port's frames stand in a row: the       *)
(* driver's queue, the burst being sent, the ring, the tap thread's hands  *)
(* and the kernel's queue, all but the last in mbufs.  Each lemma says     *)
(* what one kind of step does to the row: an mbuf passed on from one queue *)
(* to the next changes nothing, an end taken off or put on changes the row *)
(* by that frame, and storing a frame in an mbuf that is in none           *)
(* of the queues changes nothing.                                          *)
(***************************************************************************)

-----------------------------------------------------------------------------
(* Facts about sequences of frames.                                        *)

(* The frames in the mbufs of s, when d[m] is the frame in m. *)
Mapped(d, s) == [i \in 1 .. Len(s) |-> d[s[i]]]

LEMMA MappedType ==
  ASSUME NEW d \in [Mbuf -> Frame], NEW s \in Seq(Mbuf)
  PROVE  /\ Mapped(d, s) \in Seq(Frame)
         /\ Len(Mapped(d, s)) = Len(s)
         /\ \A i \in 1 .. Len(s) : Mapped(d, s)[i] = d[s[i]]
<1>1. Len(s) \in Nat /\ \A i \in 1 .. Len(s) : s[i] \in Mbuf
  BY LenProperties, ElementOfSeq
<1>2. Mapped(d, s) \in [1 .. Len(s) -> Frame]
  BY <1>1 DEF Mapped
<1>3. Mapped(d, s) \in Seq(Frame) /\ Len(Mapped(d, s)) = Len(s)
  BY <1>1, <1>2
<1> QED BY <1>3 DEF Mapped

LEMMA MappedEmpty == \A d : Mapped(d, <<>>) = <<>>
BY DEF Mapped

LEMMA MappedConcat ==
  ASSUME NEW d \in [Mbuf -> Frame], NEW s \in Seq(Mbuf), NEW t \in Seq(Mbuf)
  PROVE  Mapped(d, s \o t) = Mapped(d, s) \o Mapped(d, t)
<1> DEFINE u == s \o t
           a == Mapped(d, s)
           b == Mapped(d, t)
<1>1. /\ u \in Seq(Mbuf)
      /\ Len(u) = Len(s) + Len(t)
      /\ \A i \in 1 .. Len(s) + Len(t) :
           u[i] = IF i <= Len(s) THEN s[i] ELSE t[i - Len(s)]
  BY ConcatProperties
<1>2. /\ a \in Seq(Frame) /\ Len(a) = Len(s) /\ \A i \in 1 .. Len(s) : a[i] = d[s[i]]
      /\ b \in Seq(Frame) /\ Len(b) = Len(t) /\ \A i \in 1 .. Len(t) : b[i] = d[t[i]]
  BY MappedType, Zenon
<1>3. /\ Mapped(d, u) \in Seq(Frame) /\ Len(Mapped(d, u)) = Len(u)
      /\ \A i \in 1 .. Len(u) : Mapped(d, u)[i] = d[u[i]]
  BY <1>1, MappedType, Zenon
<1>4. /\ a \o b \in Seq(Frame)
      /\ Len(a \o b) = Len(a) + Len(b)
      /\ \A i \in 1 .. Len(a) + Len(b) :
           (a \o b)[i] = IF i <= Len(a) THEN a[i] ELSE b[i - Len(a)]
  BY <1>2, ConcatProperties
<1>5. Len(s) \in Nat /\ Len(t) \in Nat
  BY LenProperties
<1> DEFINE v == a \o b
           w == Mapped(d, u)
<1> HIDE DEF u, a, b, v, w
<1>6. \A i \in 1 .. Len(s) + Len(t) : w[i] = v[i]
  <2> SUFFICES ASSUME NEW i \in 1 .. Len(s) + Len(t) PROVE w[i] = v[i]
    OBVIOUS
  <2>1. CASE i <= Len(s)
    BY <2>1, <1>1, <1>2, <1>3, <1>4, <1>5 DEF v, w
  <2>2. CASE ~(i <= Len(s))
    <3>1. i - Len(s) \in 1 .. Len(t)
      BY <2>2, <1>5
    <3>2. u[i] = t[i - Len(s)] /\ w[i] = d[u[i]]
      BY <2>2, <1>1, <1>3 DEF w
    <3>3. v[i] = b[i - Len(s)]
      BY <2>2, <1>2, <1>4, <1>5 DEF v
    <3>4. b[i - Len(s)] = d[t[i - Len(s)]]
      BY <3>1, <1>2
    <3> QED BY <3>2, <3>3, <3>4
  <2> QED BY <2>1, <2>2
<1>7. w = v
  BY <1>1, <1>2, <1>3, <1>4, <1>6, SeqEqual DEF v, w
<1> QED BY <1>7 DEF u, a, b, v, w

LEMMA MappedAppend ==
  ASSUME NEW d \in [Mbuf -> Frame], NEW s \in Seq(Mbuf), NEW e \in Mbuf
  PROVE  Mapped(d, Append(s, e)) = Append(Mapped(d, s), d[e])
<1>1. Mapped(d, <<e>>) = <<d[e]>>
  BY DEF Mapped
<1>2. Mapped(d, s) \in Seq(Frame) /\ d[e] \in Frame /\ <<e>> \in Seq(Mbuf)
  BY MappedType
<1>3. Append(s, e) = s \o <<e>> /\ Append(Mapped(d, s), d[e]) = Mapped(d, s) \o <<d[e]>>
  BY <1>2, AppendIsConcat
<1> QED BY <1>1, <1>2, <1>3, MappedConcat

LEMMA MappedHeadTail ==
  ASSUME NEW d \in [Mbuf -> Frame], NEW s \in Seq(Mbuf), s # <<>>
  PROVE  /\ Mapped(d, s) # <<>>
         /\ Head(Mapped(d, s)) = d[Head(s)]
         /\ Tail(Mapped(d, s)) = Mapped(d, Tail(s))
<1>1. Len(s) \in Nat \ {0} /\ Head(s) = s[1]
  BY EmptySeq
<1>2. /\ Mapped(d, s) \in Seq(Frame) /\ Len(Mapped(d, s)) = Len(s)
      /\ \A i \in 1 .. Len(s) : Mapped(d, s)[i] = d[s[i]]
  BY MappedType
<1>3. Mapped(d, s) # <<>> /\ Head(Mapped(d, s)) = d[Head(s)]
  <2>1. Mapped(d, s) # <<>>
    BY <1>1, <1>2, EmptySeq
  <2>2. Head(Mapped(d, s)) = Mapped(d, s)[1]
    BY <1>2, <2>1
  <2> QED BY <1>1, <1>2, <2>1, <2>2
<1> DEFINE m == Mapped(d, s)
           t == Tail(s)
<1>4. /\ t \in Seq(Mbuf) /\ Len(t) = Len(s) - 1
      /\ \A i \in 1 .. Len(t) : t[i] = s[i + 1]
  BY HeadTailProperties
<1> HIDE DEF t
<1>5. /\ Tail(m) \in Seq(Frame) /\ Len(Tail(m)) = Len(m) - 1
      /\ \A i \in 1 .. Len(Tail(m)) : Tail(m)[i] = m[i + 1]
  <2> HIDE DEF m
  <2> QED BY <1>2, <1>3, HeadTailProperties DEF m
<1>6. /\ Mapped(d, t) \in Seq(Frame) /\ Len(Mapped(d, t)) = Len(t)
      /\ \A i \in 1 .. Len(t) : Mapped(d, t)[i] = d[t[i]]
  BY <1>4, MappedType
<1>7. \A i \in 1 .. Len(t) : Tail(m)[i] = Mapped(d, t)[i]
  <2> SUFFICES ASSUME NEW i \in 1 .. Len(t) PROVE Tail(m)[i] = Mapped(d, t)[i]
    OBVIOUS
  <2>1. i + 1 \in 1 .. Len(s) /\ i \in 1 .. Len(Tail(m))
    BY <1>1, <1>2, <1>4, <1>5
  <2>2. Tail(m)[i] = m[i + 1] /\ m[i + 1] = d[s[i + 1]] /\ t[i] = s[i + 1]
    BY <1>2, <1>4, <1>5, <2>1
  <2> QED BY <1>6, <2>2
<1>8. Len(Tail(m)) = Len(t)
  BY <1>2, <1>4, <1>5
<1>9. Tail(m) = Mapped(d, t)
  <2> DEFINE x == Tail(m)
             y == Mapped(d, t)
  <2>1. x \in Seq(Frame) /\ y \in Seq(Frame) /\ Len(x) = Len(y)
        /\ \A i \in 1 .. Len(x) : x[i] = y[i]
    BY <1>5, <1>6, <1>7, <1>8
  <2> HIDE DEF x, y
  <2>2. x = y
    BY <2>1, SeqEqual
  <2> QED BY <2>2 DEF x, y
<1> QED BY <1>3, <1>9 DEF t

(* Storing a frame in an mbuf that is not in s does not change the frames. *)
LEMMA MappedElsewhere ==
  ASSUME NEW d \in [Mbuf -> Frame], NEW s \in Seq(Mbuf), NEW e \in Mbuf,
         e \notin Range(s), NEW f
  PROVE  Mapped([d EXCEPT ![e] = f], s) = Mapped(d, s)
<1>1. \A i \in 1 .. Len(s) : s[i] \in Mbuf /\ s[i] # e
  BY LenProperties, ElementOfSeq DEF Range
<1> QED BY <1>1 DEF Mapped

(* The end of a concatenation. *)
LEMMA ConcatAppend ==
  ASSUME NEW S, NEW s \in Seq(S), NEW t \in Seq(S), NEW e \in S
  PROVE  s \o Append(t, e) = Append(s \o t, e)
<1>1. <<e>> \in Seq(S) /\ s \o t \in Seq(S) /\ Append(t, e) = t \o <<e>>
  BY AppendIsConcat, ConcatProperties
<1>2. Append(s \o t, e) = (s \o t) \o <<e>>
  BY <1>1, AppendIsConcat
<1>3. (s \o t) \o <<e>> = s \o (t \o <<e>>)
  BY <1>1, ConcatAssociative
<1> QED BY <1>1, <1>2, <1>3

LEMMA PartOfSeq ==
  ASSUME NEW S, NEW u \in Seq(S), NEW m \in Nat \ {0}, NEW k \in Nat,
         m <= k + 1, k <= Len(u)
  PROVE  /\ SubSeq(u, m, k) \in Seq(S)
         /\ Len(SubSeq(u, m, k)) = k - m + 1
         /\ \A i \in 1 .. k - m + 1 : SubSeq(u, m, k)[i] = u[m + i - 1]
<1>1. \A i \in m .. k : u[i] \in S
  BY ElementOfSeq, LenProperties
<1>2. m \in Int /\ k \in Int
  OBVIOUS
<1> DEFINE t == SubSeq(u, m, k)
<1>3. /\ t \in Seq(S) /\ Len(t) = IF m <= k THEN k - m + 1 ELSE 0
      /\ \A i \in 1 .. k - m + 1 : t[i] = u[m + i - 1]
  <2>1. t \in Seq(S)
    BY <1>1, SubSeqProperties
  <2>2. Len(t) = IF m <= k THEN k - m + 1 ELSE 0
    BY <1>1, SubSeqProperties
  <2>3. \A i \in 1 .. k - m + 1 : t[i] = u[m + i - 1]
    BY <1>1, SubSeqProperties
  <2> QED BY <2>1, <2>2, <2>3
<1> HIDE DEF t
<1>4. Len(t) = k - m + 1
  BY <1>2, <1>3
<1> QED BY <1>3, <1>4 DEF t

(* Leaving out the element between a and the tail of z. *)
LEMMA WithoutAt ==
  ASSUME NEW S, NEW a \in Seq(S), NEW z \in Seq(S), z # <<>>
  PROVE  /\ Len(a) + 1 \in 1 .. Len(a \o z)
         /\ CC!Without(a \o z, Len(a) + 1) = a \o Tail(z)
<1> DEFINE u == a \o z
           n == Len(a)
           k == Len(u)
           x == SubSeq(u, 1, n)
           y == SubSeq(u, n + 2, k)
           t == Tail(z)
<1>1. /\ u \in Seq(S) /\ k = n + Len(z)
      /\ \A i \in 1 .. n + Len(z) : u[i] = IF i <= n THEN a[i] ELSE z[i - n]
  BY ConcatProperties
<1>2. n \in Nat /\ Len(z) \in Nat \ {0} /\ k \in Nat
  BY <1>1, EmptySeq, LenProperties
<1>3. t \in Seq(S) /\ Len(t) = Len(z) - 1 /\ \A i \in 1 .. Len(t) : t[i] = z[i + 1]
  BY HeadTailProperties
<1>4. CC!Without(u, n + 1) = x \o y
  <2>1. CC!Without(u, n + 1) = SubSeq(u, 1, (n + 1) - 1) \o SubSeq(u, (n + 1) + 1, Len(u))
    BY Zenon DEF CC!Without
  <2>2. (n + 1) - 1 = n /\ (n + 1) + 1 = n + 2
    BY <1>2
  <2> QED BY <2>1, <2>2
<1> HIDE DEF u, n, t, k
<1>5. x = a
  <2>1. x \in Seq(S) /\ Len(x) = n /\ \A i \in 1 .. n : x[i] = u[i]
    <3>1. /\ x \in Seq(S) /\ Len(x) = n - 1 + 1
          /\ \A i \in 1 .. n - 1 + 1 : x[i] = u[1 + i - 1]
      <4>1. 1 \in Nat \ {0} /\ n \in Nat /\ 1 <= n + 1 /\ n <= k
        BY <1>1, <1>2
      <4> QED BY <1>1, <4>1, PartOfSeq DEF k
    <3>2. n - 1 + 1 = n /\ \A i \in 1 .. n : 1 + i - 1 = i
      BY <1>2
    <3> QED BY <3>1, <3>2
  <2> HIDE DEF x
  <2>2. \A i \in 1 .. n : x[i] = a[i]
    <3>1. \A i \in 1 .. n : i <= n /\ i \in 1 .. n + Len(z)
      <4> DEFINE l == Len(z)
      <4>1. l \in Nat /\ n \in Nat
        BY <1>2
      <4> HIDE DEF l
      <4> QED BY <4>1
    <3>2. \A i \in 1 .. n : u[i] = a[i]
      BY <1>1, <3>1
    <3> QED BY <2>1, <3>2
  <2> QED BY <2>1, <2>2, SeqEqual DEF n
<1>6. y = t
  <2>1. /\ y \in Seq(S) /\ Len(y) = k - (n + 2) + 1
        /\ \A i \in 1 .. k - (n + 2) + 1 : y[i] = u[n + 2 + i - 1]
    <3>1. n + 2 \in Nat \ {0} /\ k \in Nat /\ n + 2 <= k + 1 /\ k <= k
      BY <1>1, <1>2
    <3> QED BY <1>1, <3>1, PartOfSeq DEF k
  <2> HIDE DEF y
  <2> DEFINE l == Len(z)
  <2>2. l \in Nat \ {0} /\ n \in Nat /\ k = n + l
    BY <1>1, <1>2
  <2> HIDE DEF l
  <2>3. k - (n + 2) + 1 = l - 1
    BY <2>2
  <2>4. \A i \in 1 .. l - 1 : /\ n + 2 + i - 1 \in 1 .. n + l
                              /\ ~(n + 2 + i - 1 <= n)
                              /\ n + 2 + i - 1 - n = i + 1
    BY <2>2
  <2>5. \A i \in 1 .. l - 1 : y[i] = u[n + 2 + i - 1]
    BY <2>1, <2>3
  <2>6. \A i \in 1 .. l - 1 : u[n + 2 + i - 1] = z[i + 1]
    <3> SUFFICES ASSUME NEW i \in 1 .. l - 1 PROVE u[n + 2 + i - 1] = z[i + 1]
      OBVIOUS
    <3>1. \A w \in 1 .. n + l : ~(w <= n) => u[w] = z[w - n]
      BY <1>1 DEF l
    <3>2. PICK w : w = n + 2 + i - 1
      OBVIOUS
    <3>3. w \in 1 .. n + l /\ ~(w <= n) /\ w - n = i + 1
      BY <2>2, <3>2
    <3> QED BY <3>1, <3>2, <3>3
  <2>7. \A i \in 1 .. l - 1 : t[i] = z[i + 1]
    BY <1>3 DEF l
  <2>8. Len(y) = Len(t) /\ Len(y) = l - 1
    BY <1>3, <2>1, <2>3 DEF l
  <2>9. \A i \in 1 .. Len(y) : y[i] = t[i]
    BY <2>5, <2>6, <2>7, <2>8
  <2> QED BY <1>3, <2>1, <2>8, <2>9, SeqEqual
<1>7. n + 1 \in 1 .. k
  <2> DEFINE l == Len(z)
  <2>1. l \in Nat \ {0} /\ n \in Nat /\ k = n + l
    BY <1>1, <1>2
  <2> HIDE DEF l
  <2> QED BY <2>1
<1> HIDE DEF x, y
<1> QED BY <1>4, <1>5, <1>6, <1>7 DEF u, n, t, k

-----------------------------------------------------------------------------
Associates(s, t, u) == (s \o t) \o u = s \o (t \o u)

LEMMA FramesAssociate ==
  ASSUME NEW s \in Seq(Frame), NEW t \in Seq(Frame), NEW u \in Seq(Frame)
  PROVE  Associates(s, t, u)
BY ConcatAssociative DEF Associates

(* Five queues, one behind the other. *)
InARow(A, B, R, J, q) == A \o (B \o (R \o (J \o q)))
LeftToRight(A, B, R, J, q) == (((A \o B) \o R) \o J) \o q

LEMMA Regroup ==
  ASSUME NEW A \in Seq(Frame), NEW B \in Seq(Frame), NEW R \in Seq(Frame),
         NEW J \in Seq(Frame), NEW q \in Seq(Frame)
  PROVE  LeftToRight(A, B, R, J, q) = InARow(A, B, R, J, q)
<1>1. PICK x \in Seq(Frame) : x = A \o B
  BY ConcatProperties
<1>2. PICK y \in Seq(Frame) : y = x \o R
  BY ConcatProperties
<1>3. PICK z \in Seq(Frame) : z = J \o q
  BY ConcatProperties
<1>4. PICK w \in Seq(Frame) : w = R \o z
  BY ConcatProperties
<1>5. Associates(y, J, q) /\ Associates(x, R, z) /\ Associates(A, B, w)
  BY FramesAssociate
<1>6. (y \o J) \o q = y \o (J \o q)
  BY <1>5, Zenon DEF Associates
<1>7. (x \o R) \o z = x \o (R \o z)
  BY <1>5, Zenon DEF Associates
<1>8. (A \o B) \o w = A \o (B \o w)
  BY <1>5, Zenon DEF Associates
<1> QED BY <1>1, <1>2, <1>3, <1>4, <1>6, <1>7, <1>8, Zenon DEF LeftToRight, InARow

(* The frames between the host and the wire, from the queues they are in:  *)
(* a is the driver's queue, b the burst being sent, r the ring, j what the *)
(* tap thread has just read and q what the host has sent.                  *)

Frames(d, a, b, r, j, q) == Mapped(d, a \o b \o r \o j) \o q

AreARow(d, a, b, r, j, q) ==
  Frames(d, a, b, r, j, q) =
    InARow(Mapped(d, a), Mapped(d, b), Mapped(d, r), Mapped(d, j), q)

LEMMA FramesSplit ==
  ASSUME NEW d \in [Mbuf -> Frame], NEW a \in Seq(Mbuf), NEW b \in Seq(Mbuf),
         NEW r \in Seq(Mbuf), NEW j \in Seq(Mbuf), NEW q \in Seq(Frame)
  PROVE  AreARow(d, a, b, r, j, q)
<1>1. a \o b \in Seq(Mbuf) /\ (a \o b) \o r \in Seq(Mbuf)
  BY ConcatProperties
<1>2. Mapped(d, ((a \o b) \o r) \o j) = Mapped(d, (a \o b) \o r) \o Mapped(d, j)
  BY <1>1, MappedConcat, Zenon
<1>3. Mapped(d, (a \o b) \o r) = Mapped(d, a \o b) \o Mapped(d, r)
  BY <1>1, MappedConcat, Zenon
<1>4. Mapped(d, a \o b) = Mapped(d, a) \o Mapped(d, b)
  BY MappedConcat, Zenon
<1>5. Frames(d, a, b, r, j, q) =
        LeftToRight(Mapped(d, a), Mapped(d, b), Mapped(d, r), Mapped(d, j), q)
  BY <1>2, <1>3, <1>4, Zenon DEF Frames, LeftToRight
<1>6. /\ Mapped(d, a) \in Seq(Frame) /\ Mapped(d, b) \in Seq(Frame)
      /\ Mapped(d, r) \in Seq(Frame) /\ Mapped(d, j) \in Seq(Frame)
  BY MappedType, Zenon
<1>7. LeftToRight(Mapped(d, a), Mapped(d, b), Mapped(d, r), Mapped(d, j), q)
        = InARow(Mapped(d, a), Mapped(d, b), Mapped(d, r), Mapped(d, j), q)
  BY <1>6, Regroup
<1> QED BY <1>5, <1>7, Zenon DEF AreARow

-----------------------------------------------------------------------------
(* What a step that moves a frame within or into or out of the five queues *)
(* does to the row.                                                        *)

LEMMA NothingBefore ==
  ASSUME NEW s \in Seq(Frame)
  PROVE  <<>> \o s = s
BY ConcatEmptySeq

(* A burst leaves the ring. *)
LEMMA RowDequeue ==
  ASSUME NEW A \in Seq(Frame), NEW B \in Seq(Frame), NEW R \in Seq(Frame),
         NEW J \in Seq(Frame), NEW q \in Seq(Frame)
  PROVE  InARow(A, B, R, J, q) = InARow(A, <<>>, B \o R, J, q)
<1>1. PICK x \in Seq(Frame) : x = J \o q
  BY ConcatProperties
<1>2. PICK c \in Seq(Frame) : c = B \o R
  BY ConcatProperties
<1>3. PICK y \in Seq(Frame) : y = c \o x
  BY ConcatProperties
<1>4. Associates(B, R, x)
  BY FramesAssociate
<1>5. c \o x = B \o (R \o x)
  BY <1>2, <1>4, Zenon DEF Associates
<1>6. <<>> \o y = y
  BY NothingBefore
<1> QED BY <1>1, <1>2, <1>3, <1>5, <1>6, Zenon DEF InARow

(* The driver accepts the first frame of the burst. *)
Accepts(A, B, R, J, q) ==
  InARow(Append(A, Head(B)), Tail(B), R, J, q) = InARow(A, B, R, J, q)

LEMMA RowAccept ==
  ASSUME NEW A \in Seq(Frame), NEW B \in Seq(Frame), NEW R \in Seq(Frame),
         NEW J \in Seq(Frame), NEW q \in Seq(Frame), B # <<>>
  PROVE  Accepts(A, B, R, J, q)
<1>1. PICK h, t \in Seq(Frame) :
        h = <<Head(B)>> /\ t = Tail(B) /\ B = h \o t /\ Head(B) \in Frame
  BY HeadAndRest
<1>2. Append(A, Head(B)) = A \o h
  BY <1>1, AppendIsConcat
<1>3. PICK x \in Seq(Frame) : x = R \o (J \o q)
  BY ConcatProperties
<1>4. PICK z \in Seq(Frame) : z = t \o x
  BY ConcatProperties
<1>5. Associates(A, h, z) /\ Associates(h, t, x)
  BY FramesAssociate
<1>6. (A \o h) \o z = A \o (h \o z) /\ (h \o t) \o x = h \o (t \o x)
  BY <1>5, Zenon DEF Associates
<1> QED BY <1>1, <1>2, <1>3, <1>4, <1>6, Zenon DEF InARow, Accepts

(* The driver does not: the frame is taken out of the row. *)
OneLost(s, t) == \E i \in 1 .. Len(s) : t = CC!Without(s, i)

Drops(A, B, R, J, q) == OneLost(InARow(A, B, R, J, q), InARow(A, Tail(B), R, J, q))

LEMMA RowDrop ==
  ASSUME NEW A \in Seq(Frame), NEW B \in Seq(Frame), NEW R \in Seq(Frame),
         NEW J \in Seq(Frame), NEW q \in Seq(Frame), B # <<>>
  PROVE  Drops(A, B, R, J, q)
<1>1. PICK x \in Seq(Frame) : x = R \o (J \o q)
  BY ConcatProperties
<1>2. PICK z \in Seq(Frame) : z = B \o x
  BY ConcatProperties
<1>3. z # <<>> /\ Tail(z) = Tail(B) \o x
  BY <1>2, ConcatHeadTail
<1>4. /\ Len(A) + 1 \in 1 .. Len(A \o z)
      /\ CC!Without(A \o z, Len(A) + 1) = A \o Tail(z)
  BY <1>3, WithoutAt
<1>5. InARow(A, B, R, J, q) = A \o z /\ InARow(A, Tail(B), R, J, q) = A \o Tail(z)
  BY <1>1, <1>2, <1>3, Zenon DEF InARow
<1> QED BY <1>4, <1>5, Zenon DEF Drops, OneLost

(* The tap thread puts what it has read on the ring. *)
LEMMA RowEnqueue ==
  ASSUME NEW A \in Seq(Frame), NEW B \in Seq(Frame), NEW R \in Seq(Frame),
         NEW f \in Frame, NEW q \in Seq(Frame)
  PROVE  InARow(A, B, Append(R, f), <<>>, q) = InARow(A, B, R, <<f>>, q)
<1>1. PICK h \in Seq(Frame) : h = <<f>>
  <2>1. <<f>> \in Seq(Frame)
    OBVIOUS
  <2> QED BY <2>1
<1>2. Append(R, f) = R \o h
  BY <1>1, AppendIsConcat
<1>3. Associates(R, h, q) /\ <<>> \o q = q
  BY FramesAssociate, NothingBefore
<1>4. (R \o h) \o q = R \o (h \o q)
  BY <1>3, Zenon DEF Associates
<1> QED BY <1>1, <1>2, <1>3, <1>4, Zenon DEF InARow

(* The tap thread reads what the host has sent. *)
LEMMA RowRead ==
  ASSUME NEW A \in Seq(Frame), NEW B \in Seq(Frame), NEW R \in Seq(Frame),
         NEW q \in Seq(Frame), q # <<>>
  PROVE  InARow(A, B, R, <<Head(q)>>, Tail(q)) = InARow(A, B, R, <<>>, q)
<1>1. q = <<Head(q)>> \o Tail(q) /\ <<>> \o q = q
  BY HeadAndRest, NothingBefore
<1> QED BY <1>1, Zenon DEF InARow

(* The NIC sends the first frame. *)
Sends(A, B, R, J, q) ==
  /\ InARow(A, B, R, J, q) # <<>>
  /\ Head(InARow(A, B, R, J, q)) = Head(A)
  /\ Tail(InARow(A, B, R, J, q)) = InARow(Tail(A), B, R, J, q)

LEMMA RowSend ==
  ASSUME NEW A \in Seq(Frame), NEW B \in Seq(Frame), NEW R \in Seq(Frame),
         NEW J \in Seq(Frame), NEW q \in Seq(Frame), A # <<>>
  PROVE  Sends(A, B, R, J, q)
<1>1. PICK z \in Seq(Frame) : z = B \o (R \o (J \o q))
  BY ConcatProperties
<1>2. A \o z # <<>> /\ Head(A \o z) = Head(A) /\ Tail(A \o z) = Tail(A) \o z
  BY ConcatHeadTail
<1> QED BY <1>1, <1>2, Zenon DEF InARow, Sends

-----------------------------------------------------------------------------
(* The same for the mbufs the frames are in. *)

LEMMA MappedTypes ==
  ASSUME NEW d \in [Mbuf -> Frame], NEW a \in Seq(Mbuf), NEW b \in Seq(Mbuf),
         NEW r \in Seq(Mbuf), NEW j \in Seq(Mbuf)
  PROVE  /\ Mapped(d, a) \in Seq(Frame) /\ Mapped(d, b) \in Seq(Frame)
         /\ Mapped(d, r) \in Seq(Frame) /\ Mapped(d, j) \in Seq(Frame)
BY MappedType, Zenon

LEMMA FramesDequeue ==
  ASSUME NEW d \in [Mbuf -> Frame], NEW a \in Seq(Mbuf), NEW b \in Seq(Mbuf),
         NEW r \in Seq(Mbuf), NEW j \in Seq(Mbuf), NEW q \in Seq(Frame)
  PROVE  Frames(d, a, b, r, j, q) = Frames(d, a, <<>>, b \o r, j, q)
<1>1. <<>> \in Seq(Mbuf) /\ b \o r \in Seq(Mbuf)
  BY ConcatProperties
<1>2. AreARow(d, a, b, r, j, q)
  BY FramesSplit
<1>3. AreARow(d, a, <<>>, b \o r, j, q)
  BY <1>1, FramesSplit
<1>4. Mapped(d, <<>>) = <<>> /\ Mapped(d, b \o r) = Mapped(d, b) \o Mapped(d, r)
  BY MappedEmpty, MappedConcat, Zenon
<1>5. InARow(Mapped(d, a), Mapped(d, b), Mapped(d, r), Mapped(d, j), q)
        = InARow(Mapped(d, a), <<>>, Mapped(d, b) \o Mapped(d, r), Mapped(d, j), q)
  BY MappedTypes, RowDequeue
<1> QED BY <1>2, <1>3, <1>4, <1>5, Zenon DEF AreARow

LEMMA FramesAccept ==
  ASSUME NEW d \in [Mbuf -> Frame], NEW a \in Seq(Mbuf), NEW b \in Seq(Mbuf),
         NEW r \in Seq(Mbuf), NEW j \in Seq(Mbuf), NEW q \in Seq(Frame), b # <<>>
  PROVE  Frames(d, Append(a, Head(b)), Tail(b), r, j, q) = Frames(d, a, b, r, j, q)
<1>1. Head(b) \in Mbuf /\ Tail(b) \in Seq(Mbuf) /\ Append(a, Head(b)) \in Seq(Mbuf)
  BY HeadTailProperties, AppendProperties
<1>2. AreARow(d, a, b, r, j, q)
  BY FramesSplit
<1>3. AreARow(d, Append(a, Head(b)), Tail(b), r, j, q)
  BY <1>1, FramesSplit
<1>4. Mapped(d, Append(a, Head(b))) = Append(Mapped(d, a), d[Head(b)])
  BY <1>1, MappedAppend, Zenon
<1>5. /\ Head(Mapped(d, b)) = d[Head(b)]
      /\ Mapped(d, Tail(b)) = Tail(Mapped(d, b)) /\ Mapped(d, b) # <<>>
  BY MappedHeadTail, Zenon
<1>6. Accepts(Mapped(d, a), Mapped(d, b), Mapped(d, r), Mapped(d, j), q)
  BY <1>5, MappedTypes, RowAccept
<1> QED BY <1>2, <1>3, <1>4, <1>5, <1>6, Zenon DEF AreARow, Accepts

LEMMA FramesDrop ==
  ASSUME NEW d \in [Mbuf -> Frame], NEW a \in Seq(Mbuf), NEW b \in Seq(Mbuf),
         NEW r \in Seq(Mbuf), NEW j \in Seq(Mbuf), NEW q \in Seq(Frame), b # <<>>
  PROVE  OneLost(Frames(d, a, b, r, j, q), Frames(d, a, Tail(b), r, j, q))
<1>1. Tail(b) \in Seq(Mbuf)
  BY HeadTailProperties
<1>2. AreARow(d, a, b, r, j, q)
  BY FramesSplit
<1>3. AreARow(d, a, Tail(b), r, j, q)
  BY <1>1, FramesSplit
<1>4. Mapped(d, Tail(b)) = Tail(Mapped(d, b)) /\ Mapped(d, b) # <<>>
  BY MappedHeadTail, Zenon
<1>5. Drops(Mapped(d, a), Mapped(d, b), Mapped(d, r), Mapped(d, j), q)
  BY <1>4, MappedTypes, RowDrop
<1> QED BY <1>2, <1>3, <1>4, <1>5, Zenon DEF AreARow, Drops

LEMMA FramesEnqueue ==
  ASSUME NEW d \in [Mbuf -> Frame], NEW a \in Seq(Mbuf), NEW b \in Seq(Mbuf),
         NEW r \in Seq(Mbuf), NEW e \in Mbuf, NEW q \in Seq(Frame)
  PROVE  Frames(d, a, b, Append(r, e), <<>>, q) = Frames(d, a, b, r, <<e>>, q)
<1>1. <<>> \in Seq(Mbuf) /\ <<e>> \in Seq(Mbuf) /\ Append(r, e) \in Seq(Mbuf)
      /\ d[e] \in Frame
  BY AppendProperties
<1>2. AreARow(d, a, b, r, <<e>>, q)
  BY <1>1, FramesSplit
<1>3. AreARow(d, a, b, Append(r, e), <<>>, q)
  BY <1>1, FramesSplit
<1>4. Mapped(d, <<e>>) = <<d[e]>>
  BY DEF Mapped
<1>5. Mapped(d, <<>>) = <<>> /\ Mapped(d, Append(r, e)) = Append(Mapped(d, r), d[e])
  BY MappedEmpty, MappedAppend, Zenon
<1>6. /\ Mapped(d, a) \in Seq(Frame) /\ Mapped(d, b) \in Seq(Frame)
      /\ Mapped(d, r) \in Seq(Frame)
  BY MappedType, Zenon
<1>7. InARow(Mapped(d, a), Mapped(d, b), Append(Mapped(d, r), d[e]), <<>>, q)
        = InARow(Mapped(d, a), Mapped(d, b), Mapped(d, r), <<d[e]>>, q)
  BY <1>1, <1>6, RowEnqueue
<1> QED BY <1>2, <1>3, <1>4, <1>5, <1>7, Zenon DEF AreARow

(* Storing f in e changes no frame of the row. *)
StoresElsewhere(d, e, f, a, b, r, j, q) ==
  Frames([d EXCEPT ![e] = f], a, b, r, j, q) = Frames(d, a, b, r, j, q)

LEMMA FramesElsewhere ==
  ASSUME NEW d \in [Mbuf -> Frame], NEW a \in Seq(Mbuf), NEW b \in Seq(Mbuf),
         NEW r \in Seq(Mbuf), NEW j \in Seq(Mbuf), NEW q \in Seq(Frame),
         NEW e \in Mbuf, NEW f \in Frame,
         e \notin Range(a), e \notin Range(b), e \notin Range(r), e \notin Range(j)
  PROVE  StoresElsewhere(d, e, f, a, b, r, j, q)
<1> DEFINE c == [d EXCEPT ![e] = f]
<1>1. c \in [Mbuf -> Frame]
  OBVIOUS
<1>2. /\ Mapped(c, a) = Mapped(d, a) /\ Mapped(c, b) = Mapped(d, b)
      /\ Mapped(c, r) = Mapped(d, r) /\ Mapped(c, j) = Mapped(d, j)
  BY MappedElsewhere, Zenon
<1> HIDE DEF c
<1>3. AreARow(c, a, b, r, j, q)
  BY <1>1, FramesSplit
<1>4. AreARow(d, a, b, r, j, q)
  BY FramesSplit
<1> QED BY <1>2, <1>3, <1>4, Zenon DEF c, AreARow, StoresElsewhere

(* The frame read into e is the first one of the host's. *)
ReadsFirst(d, e, a, b, r, q) ==
  Frames([d EXCEPT ![e] = Head(q)], a, b, r, <<e>>, Tail(q)) = Frames(d, a, b, r, <<>>, q)

LEMMA FramesRead ==
  ASSUME NEW d \in [Mbuf -> Frame], NEW a \in Seq(Mbuf), NEW b \in Seq(Mbuf),
         NEW r \in Seq(Mbuf), NEW q \in Seq(Frame), q # <<>>, NEW e \in Mbuf,
         e \notin Range(a), e \notin Range(b), e \notin Range(r)
  PROVE  ReadsFirst(d, e, a, b, r, q)
<1> DEFINE c == [d EXCEPT ![e] = Head(q)]
<1>1. Head(q) \in Frame /\ Tail(q) \in Seq(Frame)
  BY HeadTailProperties
<1>2. c \in [Mbuf -> Frame] /\ c[e] = Head(q)
  BY <1>1
<1>3. /\ Mapped(c, a) = Mapped(d, a) /\ Mapped(c, b) = Mapped(d, b)
      /\ Mapped(c, r) = Mapped(d, r)
  BY MappedElsewhere, Zenon
<1> HIDE DEF c
<1>4. <<>> \in Seq(Mbuf) /\ <<e>> \in Seq(Mbuf)
  OBVIOUS
<1>5. AreARow(c, a, b, r, <<e>>, Tail(q))
  BY <1>1, <1>2, <1>4, FramesSplit
<1>6. AreARow(d, a, b, r, <<>>, q)
  BY <1>4, FramesSplit
<1>7. Mapped(c, <<e>>) = <<Head(q)>>
  BY <1>2 DEF Mapped
<1>8. Mapped(d, <<>>) = <<>>
  BY MappedEmpty
<1>9. /\ Mapped(d, a) \in Seq(Frame) /\ Mapped(d, b) \in Seq(Frame)
      /\ Mapped(d, r) \in Seq(Frame)
  BY MappedType, Zenon
<1>10. InARow(Mapped(d, a), Mapped(d, b), Mapped(d, r), <<Head(q)>>, Tail(q))
         = InARow(Mapped(d, a), Mapped(d, b), Mapped(d, r), <<>>, q)
  BY <1>9, RowRead
<1> QED BY <1>3, <1>5, <1>6, <1>7, <1>8, <1>10, Zenon DEF c, AreARow, ReadsFirst

(* The frame sent is the first one of the row. *)
SendsFirst(d, a, b, r, j, q) ==
  /\ Frames(d, a, b, r, j, q) # <<>>
  /\ Head(Frames(d, a, b, r, j, q)) = d[Head(a)]
  /\ Tail(Frames(d, a, b, r, j, q)) = Frames(d, Tail(a), b, r, j, q)

LEMMA FramesSend ==
  ASSUME NEW d \in [Mbuf -> Frame], NEW a \in Seq(Mbuf), NEW b \in Seq(Mbuf),
         NEW r \in Seq(Mbuf), NEW j \in Seq(Mbuf), NEW q \in Seq(Frame), a # <<>>
  PROVE  SendsFirst(d, a, b, r, j, q)
<1>1. Tail(a) \in Seq(Mbuf)
  BY HeadTailProperties
<1>2. AreARow(d, a, b, r, j, q)
  BY FramesSplit
<1>3. AreARow(d, Tail(a), b, r, j, q)
  BY <1>1, FramesSplit
<1>4. /\ Mapped(d, Tail(a)) = Tail(Mapped(d, a)) /\ Mapped(d, a) # <<>>
      /\ Head(Mapped(d, a)) = d[Head(a)]
  BY MappedHeadTail, Zenon
<1>5. Sends(Mapped(d, a), Mapped(d, b), Mapped(d, r), Mapped(d, j), q)
  BY <1>4, MappedTypes, RowSend
<1> QED BY <1>2, <1>3, <1>4, <1>5, Zenon DEF AreARow, Sends, SendsFirst

(* The frame the host sends becomes the last one of the row. *)
AddsLast(d, a, b, r, j, q, f) ==
  Frames(d, a, b, r, j, Append(q, f)) = Append(Frames(d, a, b, r, j, q), f)

LEMMA FramesAppend ==
  ASSUME NEW d \in [Mbuf -> Frame], NEW a \in Seq(Mbuf), NEW b \in Seq(Mbuf),
         NEW r \in Seq(Mbuf), NEW j \in Seq(Mbuf), NEW q \in Seq(Frame), NEW f \in Frame
  PROVE  AddsLast(d, a, b, r, j, q, f)
<1>1. Mapped(d, a \o b \o r \o j) \in Seq(Frame)
  <2>1. ((a \o b) \o r) \o j \in Seq(Mbuf)
    BY ConcatProperties
  <2> QED BY <2>1, MappedType
<1> QED BY <1>1, ConcatAppend DEF Frames, AddsLast

-----------------------------------------------------------------------------
(* A burst is the front of a queue. *)
LEMMA BurstAndRest ==
  ASSUME NEW s \in Seq(Mbuf), NEW n \in 0 .. Len(s)
  PROVE  /\ SubSeq(s, 1, n) \in Seq(Mbuf) /\ Rest(s, n) \in Seq(Mbuf)
         /\ SubSeq(s, 1, n) \o Rest(s, n) = s
<1>1. Len(s) \in Nat
  BY LenProperties
<1>2. SubSeq(s, 1, n) \in Seq(Mbuf) /\ SubSeq(s, n + 1, Len(s)) \in Seq(Mbuf)
  <2>1. \A i \in 1 .. Len(s) : s[i] \in Mbuf
    BY ElementOfSeq, LenProperties
  <2>2. SubSeq(s, 1, n) \in Seq(Mbuf)
    BY <1>1, <2>1, SubSeqProperties
  <2>3. SubSeq(s, n + 1, Len(s)) \in Seq(Mbuf)
    BY <1>1, <2>1, SubSeqProperties
  <2> QED BY <2>2, <2>3
<1>3. SubSeq(s, 1, n) \o SubSeq(s, n + 1, Len(s)) = SubSeq(s, 1, Len(s))
  <2>1. 1 \in 1 .. Len(s) + 1 /\ n \in 1 - 1 .. Len(s) /\ Len(s) \in n .. Len(s)
    BY <1>1
  <2> QED BY <2>1, ConcatAdjacentSubSeq
<1>4. SubSeq(s, 1, Len(s)) = s
  BY SubSeqFull
<1> QED BY <1>2, <1>3, <1>4 DEF Rest

LEMMA FramesBurst ==
  ASSUME NEW d \in [Mbuf -> Frame], NEW a \in Seq(Mbuf), NEW r \in Seq(Mbuf),
         NEW j \in Seq(Mbuf), NEW q \in Seq(Frame), NEW n \in 0 .. Len(r)
  PROVE  Frames(d, a, SubSeq(r, 1, n), Rest(r, n), j, q) = Frames(d, a, <<>>, r, j, q)
<1>1. PICK b, t \in Seq(Mbuf) : b = SubSeq(r, 1, n) /\ t = Rest(r, n) /\ b \o t = r
  BY BurstAndRest
<1>2. Frames(d, a, b, t, j, q) = Frames(d, a, <<>>, b \o t, j, q)
  BY FramesDequeue
<1> QED BY <1>1, <1>2, Zenon

(* The frames from the wire to the host: b is the burst being delivered, r *)
(* the receive queue.                                                      *)

LEMMA WayInput ==
  ASSUME NEW d \in [Mbuf -> Frame], NEW b \in Seq(Mbuf), NEW r \in Seq(Mbuf), b # <<>>
  PROVE  /\ Mapped(d, b \o r) # <<>>
         /\ Head(Mapped(d, b \o r)) = d[Head(b)]
         /\ Tail(Mapped(d, b \o r)) = Mapped(d, Tail(b) \o r)
<1>1. /\ b \o r \in Seq(Mbuf) /\ b \o r # <<>>
      /\ Head(b \o r) = Head(b) /\ Tail(b \o r) = Tail(b) \o r
  BY ConcatHeadTail
<1>2. PICK u \in Seq(Mbuf) : u = b \o r
  BY <1>1
<1>3. /\ Mapped(d, u) # <<>> /\ Head(Mapped(d, u)) = d[Head(u)]
      /\ Tail(Mapped(d, u)) = Mapped(d, Tail(u))
  BY <1>1, <1>2, MappedHeadTail
<1> QED BY <1>1, <1>2, <1>3, Zenon

(* Storing f in e changes no frame on this way. *)
WayKept(d, e, f, b, r) == Mapped([d EXCEPT ![e] = f], b \o r) = Mapped(d, b \o r)

LEMMA WayElsewhere ==
  ASSUME NEW d \in [Mbuf -> Frame], NEW b \in Seq(Mbuf), NEW r \in Seq(Mbuf),
         NEW e \in Mbuf, NEW f \in Frame, e \notin Range(b), e \notin Range(r)
  PROVE  WayKept(d, e, f, b, r)
<1> DEFINE c == [d EXCEPT ![e] = f]
<1>1. c \in [Mbuf -> Frame]
  OBVIOUS
<1>2. Mapped(c, b) = Mapped(d, b) /\ Mapped(c, r) = Mapped(d, r)
  BY MappedElsewhere, Zenon
<1> HIDE DEF c
<1>3. Mapped(c, b \o r) = Mapped(c, b) \o Mapped(c, r)
  BY <1>1, MappedConcat
<1>4. Mapped(d, b \o r) = Mapped(d, b) \o Mapped(d, r)
  BY MappedConcat
<1> QED BY <1>2, <1>3, <1>4, Zenon DEF c, WayKept

LEMMA WayReceive ==
  ASSUME NEW d \in [Mbuf -> Frame], NEW b \in Seq(Mbuf), NEW r \in Seq(Mbuf),
         NEW e \in Mbuf, NEW f \in Frame, e \notin Range(b), e \notin Range(r)
  PROVE  Mapped([d EXCEPT ![e] = f], b \o Append(r, e)) = Append(Mapped(d, b \o r), f)
<1> DEFINE c == [d EXCEPT ![e] = f]
<1>1. c \in [Mbuf -> Frame] /\ c[e] = f
  OBVIOUS
<1>2. Mapped(c, b) = Mapped(d, b) /\ Mapped(c, r) = Mapped(d, r)
  BY MappedElsewhere, Zenon
<1> HIDE DEF c
<1>3. b \o Append(r, e) = Append(b \o r, e)
  BY ConcatAppend
<1>4. PICK u \in Seq(Mbuf) : u = b \o r
  BY ConcatProperties
<1>5. Mapped(c, Append(u, e)) = Append(Mapped(c, u), c[e])
  BY <1>1, MappedAppend, Zenon
<1>6. Mapped(c, b \o r) = Mapped(c, b) \o Mapped(c, r)
  BY <1>1, MappedConcat
<1>7. Mapped(d, b \o r) = Mapped(d, b) \o Mapped(d, r)
  BY MappedConcat
<1> QED BY <1>1, <1>2, <1>3, <1>4, <1>5, <1>6, <1>7, Zenon DEF c

-----------------------------------------------------------------------------
(* The refinement: what the steps do to the rows of the ports.             *)

(* Only port p's frames from the host change; only those from the wire. *)
OthersStill(p) ==
  /\ \A o \in Port \ {p} : HostToWire(o)' = HostToWire(o)
  /\ \A o \in Port \ {p} : WireToHost(o)' = WireToHost(o)

StaysUp == proc = "running" /\ proc' = "running"

LEMMA MapsToStutter ==
  ASSUME proc' = "running" <=> proc = "running",
         \A p \in Port : HostToWire(p)' = HostToWire(p),
         \A p \in Port : WireToHost(p)' = WireToHost(p),
         UNCHANGED <<wireOut, hostOut>>
  PROVE  UNCHANGED CC!cvars
BY Zenon DEF CC!cvars

LEMMA MapsToStop ==
  ASSUME proc = "running", proc' # "running",
         \A p \in Port : HostToWire(p)' = HostToWire(p),
         \A p \in Port : WireToHost(p)' = WireToHost(p),
         UNCHANGED <<wireOut, hostOut>>
  PROVE  CC!CNext
BY DEF CC!CNext, CC!Stop

LEMMA MapsToFromHost ==
  ASSUME NEW p \in Port, NEW f \in Frame, StaysUp, OthersStill(p),
         HostToWire(p)' = Append(HostToWire(p), f),
         WireToHost(p)' = WireToHost(p),
         UNCHANGED <<wireOut, hostOut>>
  PROVE  CC!CNext
<1>1. CC!FromHost(p, f)
  BY DEF CC!FromHost, OthersStill, StaysUp
<1> QED BY <1>1 DEF CC!CNext, StaysUp

LEMMA MapsToFromWire ==
  ASSUME NEW p \in Port, NEW f \in Frame, StaysUp, OthersStill(p),
         HostToWire(p)' = HostToWire(p),
         WireToHost(p)' = Append(WireToHost(p), f),
         UNCHANGED <<wireOut, hostOut>>
  PROVE  CC!CNext
<1>1. CC!FromWire(p, f)
  BY DEF CC!FromWire, OthersStill, StaysUp
<1> QED BY <1>1 DEF CC!CNext, StaysUp

LEMMA MapsToToWire ==
  ASSUME NEW p \in Port, StaysUp, OthersStill(p),
         HostToWire(p) # <<>>,
         HostToWire(p)' = Tail(HostToWire(p)),
         WireToHost(p)' = WireToHost(p),
         wireOut' = [wireOut EXCEPT ![p] = Head(HostToWire(p))],
         UNCHANGED hostOut
  PROVE  CC!CNext
<1>1. CC!ToWire(p)
  BY DEF CC!ToWire, OthersStill, StaysUp
<1> QED BY <1>1 DEF CC!CNext, StaysUp

LEMMA MapsToLose ==
  ASSUME NEW p \in Port, NEW i \in 1 .. Len(HostToWire(p)), StaysUp, OthersStill(p),
         HostToWire(p)' = CC!Without(HostToWire(p), i),
         WireToHost(p)' = WireToHost(p),
         UNCHANGED <<wireOut, hostOut>>
  PROVE  CC!CNext
<1>1. CC!LoseHostFrame(p, i)
  BY DEF CC!LoseHostFrame, OthersStill, StaysUp
<1> QED BY <1>1 DEF CC!CNext, StaysUp

LEMMA MapsToToHost ==
  ASSUME NEW p \in Port, StaysUp, OthersStill(p),
         WireToHost(p) # <<>>, Head(WireToHost(p)) \in Forwarded,
         HostToWire(p)' = HostToWire(p),
         WireToHost(p)' = Tail(WireToHost(p)),
         hostOut' = [hostOut EXCEPT ![p] = Head(WireToHost(p))],
         UNCHANGED wireOut
  PROVE  CC!CNext
<1>1. CC!ToHost(p)
  BY DEF CC!ToHost, OthersStill, StaysUp
<1> QED BY <1>1 DEF CC!CNext, StaysUp

LEMMA MapsToFilter ==
  ASSUME NEW p \in Port, StaysUp, OthersStill(p),
         WireToHost(p) # <<>>, Head(WireToHost(p)) \notin Forwarded,
         HostToWire(p)' = HostToWire(p),
         WireToHost(p)' = Tail(WireToHost(p)),
         UNCHANGED <<wireOut, hostOut>>
  PROVE  CC!CNext
<1>1. CC!FilterWireFrame(p)
  BY DEF CC!FilterWireFrame, OthersStill, StaysUp
<1> QED BY <1>1 DEF CC!CNext, StaysUp

-----------------------------------------------------------------------------
(* The rows of a state. *)

LEMMA TheRow ==
  ASSUME NEW p \in Port
  PROVE  /\ HostToWire(p) = Frames(data, nicTx[p], Sending(p), from_hostif[p],
                                   JustRead(p), hostQ[p])
         /\ HostToWire(p)' = Frames(data', nicTx'[p], Sending(p)', from_hostif'[p],
                                    JustRead(p)', hostQ'[p])
BY Zenon DEF HostToWire, Frames, Contents, Mapped

LEMMA TheWay ==
  ASSUME NEW p \in Port
  PROVE  /\ WireToHost(p) = Mapped(data, Delivering(p) \o nicRx[p])
         /\ WireToHost(p)' = Mapped(data', Delivering(p)' \o nicRx'[p])
BY Zenon DEF WireToHost, Contents, Mapped

LEMMA QueueTypes ==
  ASSUME TypeInv, NEW p \in Port
  PROVE  /\ data \in [Mbuf -> Frame] /\ nicTx[p] \in Seq(Mbuf)
         /\ nicRx[p] \in Seq(Mbuf)
         /\ from_hostif[p] \in Seq(Mbuf) /\ hostQ[p] \in Seq(Frame)
         /\ Sending(p) \in Seq(Mbuf) /\ Delivering(p) \in Seq(Mbuf)
         /\ JustRead(p) \in Seq(Mbuf)
<1>1. burst \in Seq(Mbuf)
  BY DEF TypeInv, TypeOK
<1>2. tapPc = "enqueue" => <<tapM>> \in Seq(Mbuf)
  BY DEF TypeInv, TypeOK, Hands
<1>3. /\ Sending(p) \in Seq(Mbuf) /\ Delivering(p) \in Seq(Mbuf)
      /\ JustRead(p) \in Seq(Mbuf)
  BY <1>1, <1>2 DEF Sending, Delivering, JustRead
<1> QED BY <1>3 DEF TypeInv, TypeOK

(* A row whose queues stay stays. *)
LEMMA SameRow ==
  ASSUME NEW p, data' = data, nicTx'[p] = nicTx[p], Sending(p)' = Sending(p),
         from_hostif'[p] = from_hostif[p], JustRead(p)' = JustRead(p),
         hostQ'[p] = hostQ[p]
  PROVE  HostToWire(p)' = HostToWire(p)
BY DEF HostToWire, Contents

LEMMA SameWay ==
  ASSUME NEW p, data' = data, Delivering(p)' = Delivering(p), nicRx'[p] = nicRx[p]
  PROVE  WireToHost(p)' = WireToHost(p)
BY DEF WireToHost, Contents

-----------------------------------------------------------------------------
(* Steps that move no frame. *)

CStep == [CC!CNext]_(CC!cvars)

(* What no frame can pass without. *)
queueVars == <<data, nicTx, from_hostif, hostQ, nicRx, wireOut, hostOut>>

HandsStill ==
  \A p \in Port : /\ Sending(p)' = Sending(p)
                  /\ Delivering(p)' = Delivering(p)
                  /\ JustRead(p)' = JustRead(p)

LEMMA NothingMoves ==
  ASSUME UNCHANGED queueVars, HandsStill
  PROVE  /\ \A p \in Port : HostToWire(p)' = HostToWire(p)
         /\ \A p \in Port : WireToHost(p)' = WireToHost(p)
         /\ UNCHANGED <<wireOut, hostOut>>
<1>1. ASSUME NEW p \in Port PROVE HostToWire(p)' = HostToWire(p)
  BY SameRow DEF queueVars, HandsStill
<1>2. ASSUME NEW p \in Port PROVE WireToHost(p)' = WireToHost(p)
  BY SameWay DEF queueVars, HandsStill
<1> QED BY <1>1, <1>2 DEF queueVars

LEMMA QuietStep ==
  ASSUME proc' = "running" <=> proc = "running", UNCHANGED queueVars, HandsStill
  PROVE  CStep
BY NothingMoves, MapsToStutter DEF CStep

LEMMA LastStep ==
  ASSUME proc = "running", proc' # "running", UNCHANGED queueVars, HandsStill
  PROVE  CStep
BY NothingMoves, MapsToStop DEF CStep

LEMMA HandsStay ==
  ASSUME UNCHANGED <<fwdVars, tapVars>>
  PROVE  HandsStill
BY DEF HandsStill, fwdVars, tapVars, Sending, Delivering, JustRead

LEMMA MainRefines ==
  ASSUME TypeInv, main
  PROVE  CStep
<1>1. UNCHANGED queueVars
  BY DEF main, main_port_alloc, main_create_fwd, main_create_tap, main_create_fail,
     queueVars, nicVars, hostVars
<1>2. CASE main_port_alloc
  <2>1. HandsStill
    BY <1>2, HandsStay DEF main_port_alloc
  <2>2. CASE port_alloc_step \/ main_next_port
    BY <1>1, <2>1, <2>2, QuietStep DEF port_alloc_step, main_next_port
  <2>3. CASE port_alloc_fail
    BY <1>1, <2>1, <2>3, LastStep DEF port_alloc_fail
  <2> QED BY <1>2, <2>2, <2>3 DEF main_port_alloc, PortNext
<1>3. CASE main_create_fwd
  <2>1. fwdPc = "none" /\ fwdPc' = "poll" /\ UNCHANGED tapVars /\ proc' = proc
    BY <1>3 DEF main_create_fwd, TypeInv, Started
  <2>2. HandsStill
    BY <2>1 DEF HandsStill, tapVars, Sending, Delivering, JustRead
  <2> QED BY <1>1, <2>1, <2>2, QuietStep
<1>4. CASE main_create_tap
  <2>1. tapPc = "none" /\ tapPc' = "alloc" /\ UNCHANGED fwdVars /\ proc' = proc
    BY <1>4 DEF main_create_tap, TypeInv, Started
  <2>2. HandsStill
    BY <2>1 DEF HandsStill, fwdVars, Sending, Delivering, JustRead
  <2> QED BY <1>1, <2>1, <2>2, QuietStep
<1>5. CASE main_create_fail
  <2>1. HandsStill
    BY <1>5, HandsStay DEF main_create_fail
  <2> QED BY <1>1, <1>5, <2>1, LastStep DEF main_create_fail
<1> QED BY <1>2, <1>3, <1>4, <1>5 DEF main

(* fwd_main() between two bursts. *)
LEMMA FwdQuietRefines ==
  ASSUME TypeInv, fwd_poll \/ fwd_tx_done \/ fwd_next_port
  PROVE  CStep
<1>1. UNCHANGED queueVars /\ proc' = proc /\ UNCHANGED tapVars
  BY DEF fwd_poll, fwd_tx_done, fwd_next_port, queueVars, nicVars, hostVars, portVars
<1>2. burst = <<>> /\ burst' = <<>>
  BY DEF fwd_poll, fwd_tx_done, fwd_next_port, TypeInv, Hands, FwdAt
<1>3. HandsStill
  BY <1>1, <1>2 DEF HandsStill, tapVars, Sending, Delivering, JustRead
<1> QED BY <1>1, <1>3, QuietStep

LEMMA TapAllocRefines ==
  ASSUME TypeInv, tap_recv_alloc
  PROVE  CStep
<1>1. UNCHANGED queueVars /\ proc' = proc /\ UNCHANGED fwdVars
  BY DEF tap_recv_alloc, queueVars, nicVars, hostVars, portVars
<1>2. tapPc = "alloc" /\ tapPc' = "read"
  BY DEF tap_recv_alloc, TapAt
<1>3. HandsStill
  BY <1>1, <1>2 DEF HandsStill, fwdVars, Sending, Delivering, JustRead
<1> QED BY <1>1, <1>3, QuietStep

LEMMA LinkRefines ==
  ASSUME NEW p \in Port, NEW s \in {"up", "down", "gone"}, HostSetLink(p, s)
  PROVE  CStep
<1>1. UNCHANGED queueVars /\ proc' = proc /\ UNCHANGED <<fwdVars, tapVars>>
  BY DEF HostSetLink, queueVars, nicVars, hostVars, portVars
<1> QED BY <1>1, HandsStay, QuietStep

LEMMA IdleRefines ==
  ASSUME UNCHANGED vars
  PROVE  CStep
<1>1. UNCHANGED queueVars /\ proc' = proc /\ UNCHANGED <<fwdVars, tapVars>>
  BY DEF vars, queueVars, nicVars, hostVars, portVars
<1> QED BY <1>1, HandsStay, QuietStep

-----------------------------------------------------------------------------
(* Steps of fwd_main() that move frames. *)

LEMMA FwdDequeueRefines ==
  ASSUME TypeInv, fwd_dequeue
  PROVE  CStep
<1>1. PICK p \in Port : p = fwdPid
  BY DEF TypeInv, TypeOK
<1>2. PICK n \in 0 .. Len(from_hostif[p]) : n = Least(BURST_SIZE, Len(from_hostif[p]))
  <2>1. Least(BURST_SIZE, Len(from_hostif[p])) \in 0 .. Len(from_hostif[p])
    BY BurstType, SizesAssumption DEF TypeInv, TypeOK
  <2> QED BY <2>1
<1>3. /\ fwdPc = "dequeue" /\ fwdPc' = "tx" /\ proc' = proc
      /\ burst' = SubSeq(from_hostif[p], 1, n)
      /\ from_hostif' = [from_hostif EXCEPT ![p] = Rest(from_hostif[p], n)]
      /\ UNCHANGED <<data, fwdPid, tapVars, nicTx, nicRx, wireOut, hostQ, hostOut>>
  BY <1>1, <1>2 DEF fwd_dequeue, FwdAt, portVars, nicVars, hostVars
<1>4. \A o \in Port : /\ Delivering(o)' = Delivering(o)
                      /\ JustRead(o)' = JustRead(o)
                      /\ o # p => Sending(o)' = Sending(o) /\ from_hostif'[o] = from_hostif[o]
  BY <1>1, <1>3 DEF Delivering, JustRead, Sending, tapVars, TypeInv, TypeOK
<1>5. HostToWire(p)' = HostToWire(p)
  <2>1. Sending(p) = <<>> /\ Sending(p)' = SubSeq(from_hostif[p], 1, n)
    BY <1>1, <1>3 DEF Sending
  <2>2. from_hostif'[p] = Rest(from_hostif[p], n)
    BY <1>3 DEF TypeInv, TypeOK
  <2>3. HostToWire(p)' = Frames(data, nicTx[p], SubSeq(from_hostif[p], 1, n),
                                Rest(from_hostif[p], n), JustRead(p), hostQ[p])
    BY <1>3, <1>4, <2>1, <2>2, TheRow
  <2>4. HostToWire(p) = Frames(data, nicTx[p], <<>>, from_hostif[p], JustRead(p), hostQ[p])
    BY <2>1, TheRow
  <2>5. /\ data \in [Mbuf -> Frame] /\ nicTx[p] \in Seq(Mbuf) /\ from_hostif[p] \in Seq(Mbuf)
        /\ JustRead(p) \in Seq(Mbuf) /\ hostQ[p] \in Seq(Frame)
    BY QueueTypes
  <2>6. Frames(data, nicTx[p], SubSeq(from_hostif[p], 1, n), Rest(from_hostif[p], n),
               JustRead(p), hostQ[p])
          = Frames(data, nicTx[p], <<>>, from_hostif[p], JustRead(p), hostQ[p])
    BY <2>5, FramesBurst
  <2> QED BY <2>3, <2>4, <2>6
<1>6. \A o \in Port : HostToWire(o)' = HostToWire(o)
  <2>1. ASSUME NEW o \in Port, o # p PROVE HostToWire(o)' = HostToWire(o)
    BY <1>3, <1>4, <2>1, SameRow
  <2> QED BY <1>5, <2>1
<1>7. \A o \in Port : WireToHost(o)' = WireToHost(o)
  <2>1. ASSUME NEW o \in Port PROVE WireToHost(o)' = WireToHost(o)
    BY <1>3, <1>4, SameWay
  <2> QED BY <2>1
<1> QED BY <1>3, <1>6, <1>7, MapsToStutter DEF CStep

LEMMA FwdTxRefines ==
  ASSUME TypeInv, fwd_tx
  PROVE  CStep
<1>1. PICK p \in Port : p = fwdPid
  BY DEF TypeInv, TypeOK
<1>2. /\ fwdPc = "tx" /\ fwdPc' = "tx" /\ proc = "running" /\ proc' = proc
      /\ burst # <<>> /\ burst' = Tail(burst)
      /\ UNCHANGED <<data, fwdPid, from_hostif, tapVars, nicRx, wireOut, hostQ, hostOut>>
  BY DEF fwd_tx, FwdAt, portVars, hostVars
<1>3. \A o \in Port : /\ Delivering(o)' = Delivering(o)
                      /\ JustRead(o)' = JustRead(o)
                      /\ o # p => Sending(o)' = Sending(o)
  BY <1>1, <1>2 DEF Delivering, JustRead, Sending, tapVars
<1>4. nicTx' = [nicTx EXCEPT ![p] = Append(@, Head(burst))] \/ nicTx' = nicTx
  BY <1>1 DEF fwd_tx
<1>5. \A o \in Port : o # p => nicTx'[o] = nicTx[o]
  BY <1>4 DEF TypeInv, TypeOK
<1>6. \A o \in Port : o # p => HostToWire(o)' = HostToWire(o)
  <2>1. ASSUME NEW o \in Port, o # p PROVE HostToWire(o)' = HostToWire(o)
    BY <1>2, <1>3, <1>5, <2>1, SameRow
  <2> QED BY <2>1
<1>7. \A o \in Port : WireToHost(o)' = WireToHost(o)
  <2>1. ASSUME NEW o \in Port PROVE WireToHost(o)' = WireToHost(o)
    BY <1>2, <1>3, SameWay
  <2> QED BY <2>1
<1>8. /\ HostToWire(p) =
           Frames(data, nicTx[p], burst, from_hostif[p], JustRead(p), hostQ[p])
      /\ HostToWire(p)' =
           Frames(data, nicTx'[p], Tail(burst), from_hostif[p], JustRead(p), hostQ[p])
  <2>1. Sending(p) = burst /\ Sending(p)' = Tail(burst)
    BY <1>1, <1>2 DEF Sending
  <2> QED BY <1>2, <1>3, <2>1, TheRow
<1>9. /\ data \in [Mbuf -> Frame] /\ nicTx[p] \in Seq(Mbuf) /\ from_hostif[p] \in Seq(Mbuf)
      /\ JustRead(p) \in Seq(Mbuf) /\ hostQ[p] \in Seq(Frame) /\ burst \in Seq(Mbuf)
  BY QueueTypes DEF TypeInv, TypeOK
<1>10. CASE nicTx' = [nicTx EXCEPT ![p] = Append(@, Head(burst))]
  <2>1. nicTx'[p] = Append(nicTx[p], Head(burst))
    BY <1>10 DEF TypeInv, TypeOK
  <2>2. Frames(data, Append(nicTx[p], Head(burst)), Tail(burst), from_hostif[p],
               JustRead(p), hostQ[p])
          = Frames(data, nicTx[p], burst, from_hostif[p], JustRead(p), hostQ[p])
    BY <1>2, <1>9, FramesAccept
  <2>3. HostToWire(p)' = HostToWire(p)
    BY <1>8, <2>1, <2>2
  <2> QED BY <1>2, <1>6, <1>7, <2>3, MapsToStutter DEF CStep
<1>11. CASE nicTx' = nicTx
  <2>1. OneLost(Frames(data, nicTx[p], burst, from_hostif[p], JustRead(p), hostQ[p]),
                Frames(data, nicTx[p], Tail(burst), from_hostif[p], JustRead(p), hostQ[p]))
    BY <1>2, <1>9, FramesDrop
  <2>2. PICK i \in 1 .. Len(HostToWire(p)) : HostToWire(p)' = CC!Without(HostToWire(p), i)
    BY <1>8, <1>11, <2>1, Zenon DEF OneLost
  <2>3. StaysUp /\ OthersStill(p)
    BY <1>2, <1>6, <1>7 DEF StaysUp, OthersStill
  <2>4. CC!CNext
    BY <1>2, <1>7, <2>2, <2>3, MapsToLose
  <2> QED BY <2>4 DEF CStep
<1> QED BY <1>4, <1>10, <1>11

LEMMA FwdRxRefines ==
  ASSUME TypeInv, fwd_rx
  PROVE  CStep
<1>1. PICK p \in Port : p = fwdPid
  BY DEF TypeInv, TypeOK
<1>2. PICK n \in 0 .. Len(nicRx[p]) : n = Least(BURST_SIZE, Len(nicRx[p]))
  <2>1. Least(BURST_SIZE, Len(nicRx[p])) \in 0 .. Len(nicRx[p])
    BY BurstType, SizesAssumption DEF TypeInv, TypeOK
  <2> QED BY <2>1
<1>3. /\ fwdPc = "rx" /\ proc' = proc
      /\ burst' = SubSeq(nicRx[p], 1, n)
      /\ nicRx' = [nicRx EXCEPT ![p] = Rest(nicRx[p], n)]
      /\ IF n = 0 THEN fwdPc' = "poll" ELSE fwdPc' = "input" /\ fwdPid' = p
      /\ UNCHANGED <<data, from_hostif, tapVars, nicTx, wireOut, hostQ, hostOut>>
  BY <1>1, <1>2 DEF fwd_rx, FwdAt, portVars, hostVars
<1>4. /\ data \in [Mbuf -> Frame] /\ nicRx[p] \in Seq(Mbuf) /\ Len(nicRx[p]) \in Nat
  BY QueueTypes, LenProperties
<1>5. PICK b, r \in Seq(Mbuf) :
        b = SubSeq(nicRx[p], 1, n) /\ r = Rest(nicRx[p], n) /\ b \o r = nicRx[p]
  BY <1>4, BurstAndRest
<1>6. n = 0 => b = <<>>
  BY <1>4, <1>5
<1>7. Delivering(p) = <<>> /\ Delivering(p)' = b
  BY <1>1, <1>3, <1>5, <1>6 DEF Delivering
<1>8. nicRx'[p] = r /\ \A o \in Port : o # p => nicRx'[o] = nicRx[o]
  BY <1>3, <1>5 DEF TypeInv, TypeOK
<1>9. \A o \in Port : /\ Sending(o)' = Sending(o)
                      /\ JustRead(o)' = JustRead(o)
                      /\ o # p => Delivering(o)' = Delivering(o)
  <2>1. fwdPc' # "tx"
    BY <1>3
  <2>2. ASSUME NEW o \in Port, o # p PROVE Delivering(o)' = Delivering(o)
    BY <1>1, <1>3, <2>2 DEF Delivering
  <2> QED BY <1>3, <2>1, <2>2 DEF Sending, JustRead, tapVars
<1>10. WireToHost(p)' = WireToHost(p)
  <2>1. <<>> \o nicRx[p] = nicRx[p]
    BY <1>4, ConcatEmptySeq
  <2> QED BY <1>3, <1>5, <1>7, <1>8, <2>1, TheWay
<1>11. \A o \in Port : WireToHost(o)' = WireToHost(o)
  <2>1. ASSUME NEW o \in Port, o # p PROVE WireToHost(o)' = WireToHost(o)
    BY <1>3, <1>8, <1>9, <2>1, SameWay
  <2> QED BY <1>10, <2>1
<1>12. \A o \in Port : HostToWire(o)' = HostToWire(o)
  <2>1. ASSUME NEW o \in Port PROVE HostToWire(o)' = HostToWire(o)
    BY <1>3, <1>9, SameRow
  <2> QED BY <2>1
<1> QED BY <1>3, <1>11, <1>12, MapsToStutter DEF CStep

LEMMA PortInputRefines ==
  ASSUME TypeInv, port_input
  PROVE  CStep
<1>1. PICK p \in Port : p = fwdPid
  BY DEF TypeInv, TypeOK
<1>2. /\ fwdPc = "input" /\ fwdPc' = "input" /\ proc = "running" /\ burst # <<>>
      /\ UNCHANGED <<data, fwdPid, from_hostif, tapVars, nicTx, nicRx, wireOut, hostQ>>
  BY DEF port_input, FwdAt, nicVars
<1>3. CASE proc' = "exited" /\ UNCHANGED <<hostOut, burst>>
  <2>1. HandsStill
    BY <1>2, <1>3 DEF HandsStill, Sending, Delivering, JustRead, tapVars
  <2>2. UNCHANGED queueVars
    BY <1>2, <1>3 DEF queueVars
  <2> QED BY <1>2, <1>3, <2>1, <2>2, LastStep
<1>4. CASE proc' = proc /\ burst' = Tail(burst)
  <2>1. \A o \in Port : /\ Sending(o)' = Sending(o)
                        /\ JustRead(o)' = JustRead(o)
                        /\ o # p => Delivering(o)' = Delivering(o)
    BY <1>1, <1>2, <1>4 DEF Delivering, JustRead, Sending, tapVars
  <2>2. \A o \in Port : HostToWire(o)' = HostToWire(o)
    <3>1. ASSUME NEW o \in Port PROVE HostToWire(o)' = HostToWire(o)
      BY <1>2, <2>1, SameRow
    <3> QED BY <3>1
  <2>3. \A o \in Port : o # p => WireToHost(o)' = WireToHost(o)
    <3>1. ASSUME NEW o \in Port, o # p PROVE WireToHost(o)' = WireToHost(o)
      BY <1>2, <2>1, <3>1, SameWay
    <3> QED BY <3>1
  <2>4. /\ WireToHost(p) = Mapped(data, burst \o nicRx[p])
        /\ WireToHost(p)' = Mapped(data, Tail(burst) \o nicRx[p])
    <3>1. Delivering(p) = burst /\ Delivering(p)' = Tail(burst)
      BY <1>1, <1>2, <1>4 DEF Delivering
    <3> QED BY <1>2, <3>1, TheWay
  <2>5. data \in [Mbuf -> Frame] /\ nicRx[p] \in Seq(Mbuf) /\ burst \in Seq(Mbuf)
    BY QueueTypes DEF TypeInv, TypeOK
  <2>6. /\ Mapped(data, burst \o nicRx[p]) # <<>>
        /\ Head(Mapped(data, burst \o nicRx[p])) = data[Head(burst)]
        /\ Tail(Mapped(data, burst \o nicRx[p])) = Mapped(data, Tail(burst) \o nicRx[p])
    BY <1>2, <2>5, WayInput
  <2>7. /\ WireToHost(p) # <<>> /\ Head(WireToHost(p)) = data[Head(burst)]
        /\ WireToHost(p)' = Tail(WireToHost(p))
    BY <2>4, <2>6
  <2>8. StaysUp /\ OthersStill(p)
    BY <1>2, <1>4, <2>2, <2>3 DEF StaysUp, OthersStill
  <2>9. CASE data[Head(burst)] \in Forwarded
             /\ hostOut' = [hostOut EXCEPT ![p] = data[Head(burst)]]
    <3>1. CC!CNext
      BY <1>2, <2>2, <2>7, <2>8, <2>9, MapsToToHost
    <3> QED BY <3>1 DEF CStep
  <2>10. CASE data[Head(burst)] \notin Forwarded /\ hostOut' = hostOut
    <3>1. CC!CNext
      BY <1>2, <2>2, <2>7, <2>8, <2>10, MapsToFilter
    <3> QED BY <3>1 DEF CStep
  <2> QED BY <1>1, <1>2, <1>4, <2>9, <2>10 DEF port_input
<1> QED BY <1>3, <1>4 DEF port_input

-----------------------------------------------------------------------------
(* Storing a frame in an mbuf of the pool, or in the one tap_main() has    *)
(* just allocated, changes no frame on its way: nobody else holds it.      *)
LEMMA OnNoWay ==
  ASSUME OwnInv, NEW e \in Mbuf, e \in pool \/ (e = tapM /\ tapPc = "read"), NEW o \in Port
  PROVE  /\ e \notin Range(nicTx[o]) /\ e \notin Range(Sending(o))
         /\ e \notin Range(from_hostif[o]) /\ e \notin Range(JustRead(o))
         /\ e \notin Range(Delivering(o)) /\ e \notin Range(nicRx[o])
<1>1. Exclusive
  BY DEF OwnInv, Ownership
<1>2. ~InRx(e) /\ ~InTx(e) /\ ~InRing(e) /\ ~InBurst(e)
  BY <1>1 DEF Exclusive, InPool, InTap
<1>3. e \notin Range(<<>>)
  BY EmptyQueue
<1>4. e \notin Range(JustRead(o))
  <2>1. CASE JustRead(o) = <<>>
    BY <1>3, <2>1
  <2>2. CASE JustRead(o) = <<tapM>> /\ tapPc = "enqueue"
    <3>1. Range(<<tapM>>) = {tapM}
      BY DEF Range
    <3>2. e # tapM
      BY <1>1, <2>2 DEF Exclusive, InPool, InTap
    <3> QED BY <2>2, <3>1, <3>2
  <2> QED BY <2>1, <2>2 DEF JustRead
<1> QED BY <1>2, <1>3, <1>4 DEF InRx, InTx, InRing, InBurst, OnQueue, Sending, Delivering

LEMMA StoreKeepsRow ==
  ASSUME OwnInv, NEW e \in Mbuf, e \in pool \/ (e = tapM /\ tapPc = "read"),
         NEW f \in Frame, data' = [data EXCEPT ![e] = f], NEW o \in Port,
         nicTx'[o] = nicTx[o], Sending(o)' = Sending(o),
         from_hostif'[o] = from_hostif[o], JustRead(o)' = JustRead(o),
         hostQ'[o] = hostQ[o]
  PROVE  HostToWire(o)' = HostToWire(o)
<1>1. /\ data \in [Mbuf -> Frame] /\ nicTx[o] \in Seq(Mbuf) /\ Sending(o) \in Seq(Mbuf)
      /\ from_hostif[o] \in Seq(Mbuf) /\ JustRead(o) \in Seq(Mbuf) /\ hostQ[o] \in Seq(Frame)
  BY QueueTypes DEF OwnInv
<1>2. PICK a, b, r, j \in Seq(Mbuf) :
        a = nicTx[o] /\ b = Sending(o) /\ r = from_hostif[o] /\ j = JustRead(o)
  BY <1>1
<1>3. PICK d \in [Mbuf -> Frame], q \in Seq(Frame) : d = data /\ q = hostQ[o]
  BY <1>1
<1>4. e \notin Range(a) /\ e \notin Range(b) /\ e \notin Range(r) /\ e \notin Range(j)
  BY <1>2, OnNoWay
<1>5. StoresElsewhere(d, e, f, a, b, r, j, q)
  BY <1>4, FramesElsewhere
<1> QED BY <1>2, <1>3, <1>5, TheRow DEF StoresElsewhere

LEMMA StoreKeepsWay ==
  ASSUME OwnInv, NEW e \in Mbuf, e \in pool \/ (e = tapM /\ tapPc = "read"),
         NEW f \in Frame, data' = [data EXCEPT ![e] = f], NEW o \in Port,
         Delivering(o)' = Delivering(o), nicRx'[o] = nicRx[o]
  PROVE  WireToHost(o)' = WireToHost(o)
<1>1. data \in [Mbuf -> Frame] /\ Delivering(o) \in Seq(Mbuf) /\ nicRx[o] \in Seq(Mbuf)
  BY QueueTypes DEF OwnInv
<1>2. PICK d \in [Mbuf -> Frame], b, r \in Seq(Mbuf) :
        d = data /\ b = Delivering(o) /\ r = nicRx[o]
  BY <1>1
<1>3. e \notin Range(b) /\ e \notin Range(r)
  BY <1>2, OnNoWay
<1>4. WayKept(d, e, f, b, r)
  BY <1>3, WayElsewhere
<1> QED BY <1>2, <1>4, TheWay DEF WayKept

-----------------------------------------------------------------------------
(* Steps of tap_main(). *)

LEMMA TapReadRefines ==
  ASSUME OwnInv, tap_recv_read
  PROVE  CStep
<1>1. PICK p \in Port : p = tapPid
  BY DEF OwnInv, TypeInv, TypeOK
<1>2. /\ tapPc = "read" /\ proc = "running" /\ tapPid' = tapPid /\ tapM' = tapM
      /\ UNCHANGED <<from_hostif, fwdVars, nicTx, nicRx, wireOut, hostOut>>
  BY DEF tap_recv_read, TapAt, nicVars
<1>3. CASE proc' \in {"crashed", "exited"} /\ UNCHANGED <<tapPc, data, hostQ>>
  <2>1. HandsStill
    BY <1>2, <1>3 DEF HandsStill, Sending, Delivering, JustRead, fwdVars
  <2>2. UNCHANGED queueVars
    BY <1>2, <1>3 DEF queueVars
  <2> QED BY <1>2, <1>3, <2>1, <2>2, LastStep
<1>4. CASE /\ tapM # NoMbuf /\ hostQ[p] # <<>> /\ tapPc' = "enqueue" /\ proc' = proc
           /\ data' = [data EXCEPT ![tapM] = Head(hostQ[p])]
           /\ hostQ' = [hostQ EXCEPT ![p] = Tail(@)]
  <2>1. PICK e \in Mbuf : e = tapM
    BY <1>4 DEF OwnInv, TypeInv, TypeOK
  <2>2. hostQ[p] \in Seq(Frame)
    BY QueueTypes DEF OwnInv
  <2>3. PICK f \in Frame : f = Head(hostQ[p])
    BY <1>4, <2>2, HeadTailProperties
  <2>4. data' = [data EXCEPT ![e] = f]
    BY <1>4, <2>1, <2>3
  <2>5. hostQ'[p] = Tail(hostQ[p]) /\ \A o \in Port : o # p => hostQ'[o] = hostQ[o]
    BY <1>4 DEF OwnInv, TypeInv, TypeOK
  <2>6. \A o \in Port : /\ Sending(o)' = Sending(o)
                        /\ Delivering(o)' = Delivering(o)
                        /\ o # p => JustRead(o)' = JustRead(o)
    BY <1>1, <1>2, <1>4 DEF Sending, Delivering, JustRead, fwdVars
  <2>7. JustRead(p) = <<>> /\ JustRead(p)' = <<e>>
    BY <1>1, <1>2, <1>4, <2>1 DEF JustRead
  <2>8. \A o \in Port : WireToHost(o)' = WireToHost(o)
    <3>1. ASSUME NEW o \in Port PROVE WireToHost(o)' = WireToHost(o)
      BY <1>2, <2>1, <2>4, <2>6, StoreKeepsWay
    <3> QED BY <3>1
  <2>9. \A o \in Port : o # p => HostToWire(o)' = HostToWire(o)
    <3>1. ASSUME NEW o \in Port, o # p PROVE HostToWire(o)' = HostToWire(o)
      BY <1>2, <2>1, <2>4, <2>5, <2>6, <3>1, StoreKeepsRow
    <3> QED BY <3>1
  <2>10. HostToWire(p)' = HostToWire(p)
    <3>1. /\ data \in [Mbuf -> Frame] /\ nicTx[p] \in Seq(Mbuf)
          /\ Sending(p) \in Seq(Mbuf) /\ from_hostif[p] \in Seq(Mbuf)
      BY QueueTypes DEF OwnInv
    <3>2. PICK a, b, r \in Seq(Mbuf) :
            a = nicTx[p] /\ b = Sending(p) /\ r = from_hostif[p]
      BY <3>1
    <3>3. PICK d \in [Mbuf -> Frame], q \in Seq(Frame) : d = data /\ q = hostQ[p]
      BY <2>2, <3>1
    <3>4. e \notin Range(a) /\ e \notin Range(b) /\ e \notin Range(r)
      BY <1>2, <2>1, <3>2, OnNoWay
    <3>5. HostToWire(p) = Frames(data, a, b, r, <<>>, q)
      BY <2>7, <3>2, <3>3, TheRow
    <3>6. HostToWire(p)' = Frames([data EXCEPT ![e] = Head(q)], a, b, r, <<e>>, Tail(q))
      BY <1>2, <2>3, <2>4, <2>5, <2>6, <2>7, <3>2, <3>3, TheRow
    <3>7. q # <<>>
      BY <1>4, <3>3
    <3>8. ReadsFirst(d, e, a, b, r, q)
      BY <3>4, <3>7, FramesRead
    <3> QED BY <3>3, <3>5, <3>6, <3>8 DEF ReadsFirst
  <2> QED BY <1>2, <1>4, <2>8, <2>9, <2>10, MapsToStutter DEF CStep
<1> QED BY <1>1, <1>3, <1>4 DEF tap_recv_read

LEMMA TapEnqueueRefines ==
  ASSUME OwnInv, tap_enqueue
  PROVE  CStep
<1>1. PICK p \in Port : p = tapPid
  BY DEF OwnInv, TypeInv, TypeOK
<1>2. PICK e \in Mbuf : e = tapM
  BY DEF tap_enqueue, TapAt, OwnInv, TypeInv, TypeOK, Hands
<1>3. /\ tapPc = "enqueue" /\ tapPc' = "alloc" /\ proc' = proc
      /\ UNCHANGED <<data, fwdVars, nicTx, nicRx, wireOut, hostQ, hostOut>>
  BY DEF tap_enqueue, TapAt, portVars, nicVars, hostVars
<1>4. from_hostif' = [from_hostif EXCEPT ![p] = Append(@, e)]
  <2>1. ~RingFull(p)
    BY <1>1, <1>3, RoomOnRing DEF RingHasRoom
  <2> QED BY <1>1, <1>2, <2>1 DEF tap_enqueue
<1>5. /\ from_hostif'[p] = Append(from_hostif[p], e)
      /\ \A o \in Port : o # p => from_hostif'[o] = from_hostif[o]
  BY <1>4 DEF OwnInv, TypeInv, TypeOK
<1>6. \A o \in Port : /\ Sending(o)' = Sending(o)
                      /\ Delivering(o)' = Delivering(o)
                      /\ o # p => JustRead(o)' = JustRead(o)
  BY <1>1, <1>3 DEF Sending, Delivering, JustRead, fwdVars
<1>7. JustRead(p) = <<e>> /\ JustRead(p)' = <<>>
  BY <1>1, <1>2, <1>3 DEF JustRead
<1>8. \A o \in Port : WireToHost(o)' = WireToHost(o)
  <2>1. ASSUME NEW o \in Port PROVE WireToHost(o)' = WireToHost(o)
    BY <1>3, <1>6, SameWay
  <2> QED BY <2>1
<1>9. \A o \in Port : o # p => HostToWire(o)' = HostToWire(o)
  <2>1. ASSUME NEW o \in Port, o # p PROVE HostToWire(o)' = HostToWire(o)
    BY <1>3, <1>5, <1>6, <2>1, SameRow
  <2> QED BY <2>1
<1>10. HostToWire(p)' = HostToWire(p)
  <2>1. HostToWire(p) = Frames(data, nicTx[p], Sending(p), from_hostif[p], <<e>>, hostQ[p])
    BY <1>7, TheRow
  <2>2. HostToWire(p)' = Frames(data, nicTx[p], Sending(p), Append(from_hostif[p], e),
                                <<>>, hostQ[p])
    BY <1>3, <1>5, <1>6, <1>7, TheRow
  <2>3. /\ data \in [Mbuf -> Frame] /\ nicTx[p] \in Seq(Mbuf) /\ Sending(p) \in Seq(Mbuf)
        /\ from_hostif[p] \in Seq(Mbuf) /\ hostQ[p] \in Seq(Frame)
    BY QueueTypes DEF OwnInv
  <2>4. Frames(data, nicTx[p], Sending(p), Append(from_hostif[p], e), <<>>, hostQ[p])
          = Frames(data, nicTx[p], Sending(p), from_hostif[p], <<e>>, hostQ[p])
    BY <2>3, FramesEnqueue
  <2> QED BY <2>1, <2>2, <2>4
<1> QED BY <1>3, <1>8, <1>9, <1>10, MapsToStutter DEF CStep

-----------------------------------------------------------------------------
(* Steps of the NIC and of the host. *)

LEMMA NicReceiveRefines ==
  ASSUME OwnInv, NEW p \in Port, NEW f \in Frame, NicReceive(p, f)
  PROVE  CStep
<1>1. PICK e \in Mbuf : /\ e \in pool
                        /\ data' = [data EXCEPT ![e] = f]
                        /\ nicRx' = [nicRx EXCEPT ![p] = Append(@, e)]
  BY DEF NicReceive, MbufsOf
<1>2. /\ proc = "running" /\ proc' = proc
      /\ UNCHANGED <<from_hostif, fwdVars, tapVars, nicTx, wireOut, hostQ, hostOut>>
  BY DEF NicReceive, portVars, hostVars
<1>3. nicRx'[p] = Append(nicRx[p], e) /\ \A o \in Port : o # p => nicRx'[o] = nicRx[o]
  BY <1>1 DEF OwnInv, TypeInv, TypeOK
<1>4. HandsStill
  BY <1>2, HandsStay
<1>5. \A o \in Port : HostToWire(o)' = HostToWire(o)
  <2>1. ASSUME NEW o \in Port PROVE HostToWire(o)' = HostToWire(o)
    BY <1>1, <1>2, <1>4, StoreKeepsRow DEF HandsStill
  <2> QED BY <2>1
<1>6. \A o \in Port : o # p => WireToHost(o)' = WireToHost(o)
  <2>1. ASSUME NEW o \in Port, o # p PROVE WireToHost(o)' = WireToHost(o)
    BY <1>1, <1>3, <1>4, <2>1, StoreKeepsWay DEF HandsStill
  <2> QED BY <2>1
<1>7. WireToHost(p)' = Append(WireToHost(p), f)
  <2>1. data \in [Mbuf -> Frame] /\ Delivering(p) \in Seq(Mbuf) /\ nicRx[p] \in Seq(Mbuf)
    BY QueueTypes DEF OwnInv
  <2>2. e \notin Range(Delivering(p)) /\ e \notin Range(nicRx[p])
    BY <1>1, OnNoWay
  <2>3. Mapped([data EXCEPT ![e] = f], Delivering(p) \o Append(nicRx[p], e))
          = Append(Mapped(data, Delivering(p) \o nicRx[p]), f)
    BY <2>1, <2>2, WayReceive
  <2>4. Delivering(p)' = Delivering(p)
    BY <1>4 DEF HandsStill
  <2>5. /\ WireToHost(p) = Mapped(data, Delivering(p) \o nicRx[p])
        /\ WireToHost(p)' = Mapped([data EXCEPT ![e] = f], Delivering(p) \o Append(nicRx[p], e))
    BY <1>1, <1>3, <2>4, TheWay
  <2> QED BY <2>3, <2>5
<1>8. StaysUp /\ OthersStill(p)
  BY <1>2, <1>5, <1>6 DEF StaysUp, OthersStill
<1>9. CC!CNext
  BY <1>2, <1>5, <1>7, <1>8, MapsToFromWire
<1> QED BY <1>9 DEF CStep

LEMMA NicTransmitRefines ==
  ASSUME TypeInv, NEW p \in Port, NicTransmit(p)
  PROVE  CStep
<1>1. /\ proc = "running" /\ proc' = proc /\ nicTx[p] # <<>>
      /\ wireOut' = [wireOut EXCEPT ![p] = data[Head(nicTx[p])]]
      /\ nicTx' = [nicTx EXCEPT ![p] = Tail(@)]
      /\ UNCHANGED <<data, from_hostif, fwdVars, tapVars, nicRx, hostQ, hostOut>>
  BY DEF NicTransmit, portVars, hostVars
<1>2. nicTx'[p] = Tail(nicTx[p]) /\ \A o \in Port : o # p => nicTx'[o] = nicTx[o]
  BY <1>1 DEF TypeInv, TypeOK
<1>3. HandsStill
  BY <1>1, HandsStay
<1>4. \A o \in Port : o # p => HostToWire(o)' = HostToWire(o)
  <2>1. ASSUME NEW o \in Port, o # p PROVE HostToWire(o)' = HostToWire(o)
    BY <1>1, <1>2, <1>3, <2>1, SameRow DEF HandsStill
  <2> QED BY <2>1
<1>5. \A o \in Port : WireToHost(o)' = WireToHost(o)
  <2>1. ASSUME NEW o \in Port PROVE WireToHost(o)' = WireToHost(o)
    BY <1>1, <1>3, SameWay DEF HandsStill
  <2> QED BY <2>1
<1>6. /\ HostToWire(p) # <<>> /\ Head(HostToWire(p)) = data[Head(nicTx[p])]
      /\ HostToWire(p)' = Tail(HostToWire(p))
  <2>1. /\ data \in [Mbuf -> Frame] /\ nicTx[p] \in Seq(Mbuf) /\ Sending(p) \in Seq(Mbuf)
        /\ from_hostif[p] \in Seq(Mbuf) /\ JustRead(p) \in Seq(Mbuf) /\ hostQ[p] \in Seq(Frame)
    BY QueueTypes
  <2>2. PICK a, b, r, j \in Seq(Mbuf) :
          a = nicTx[p] /\ b = Sending(p) /\ r = from_hostif[p] /\ j = JustRead(p)
    BY <2>1
  <2>3. PICK d \in [Mbuf -> Frame], q \in Seq(Frame) : d = data /\ q = hostQ[p]
    BY <2>1
  <2>4. HostToWire(p) = Frames(data, a, b, r, j, q)
    BY <2>2, <2>3, TheRow
  <2>5. HostToWire(p)' = Frames(data, Tail(a), b, r, j, q)
    BY <1>1, <1>2, <1>3, <2>2, <2>3, TheRow DEF HandsStill
  <2>6. a # <<>>
    BY <1>1, <2>2
  <2>7. SendsFirst(d, a, b, r, j, q)
    BY <2>6, FramesSend
  <2> QED BY <2>2, <2>3, <2>4, <2>5, <2>7 DEF SendsFirst
<1>7. StaysUp /\ OthersStill(p)
  BY <1>1, <1>4, <1>5 DEF StaysUp, OthersStill
<1>8. CC!CNext
  BY <1>1, <1>5, <1>6, <1>7, MapsToToWire
<1> QED BY <1>8 DEF CStep

LEMMA HostSendRefines ==
  ASSUME TypeInv, NEW p \in Port, NEW f \in Frame, HostSend(p, f)
  PROVE  CStep
<1>1. /\ proc = "running" /\ proc' = proc
      /\ hostQ' = [hostQ EXCEPT ![p] = Append(@, f)]
      /\ UNCHANGED <<data, from_hostif, fwdVars, tapVars, nicTx, nicRx, wireOut, hostOut>>
  BY DEF HostSend, portVars, nicVars
<1>2. hostQ'[p] = Append(hostQ[p], f) /\ \A o \in Port : o # p => hostQ'[o] = hostQ[o]
  BY <1>1 DEF TypeInv, TypeOK
<1>3. HandsStill
  BY <1>1, HandsStay
<1>4. \A o \in Port : o # p => HostToWire(o)' = HostToWire(o)
  <2>1. ASSUME NEW o \in Port, o # p PROVE HostToWire(o)' = HostToWire(o)
    BY <1>1, <1>2, <1>3, <2>1, SameRow DEF HandsStill
  <2> QED BY <2>1
<1>5. \A o \in Port : WireToHost(o)' = WireToHost(o)
  <2>1. ASSUME NEW o \in Port PROVE WireToHost(o)' = WireToHost(o)
    BY <1>1, <1>3, SameWay DEF HandsStill
  <2> QED BY <2>1
<1>6. HostToWire(p)' = Append(HostToWire(p), f)
  <2>1. /\ data \in [Mbuf -> Frame] /\ nicTx[p] \in Seq(Mbuf) /\ Sending(p) \in Seq(Mbuf)
        /\ from_hostif[p] \in Seq(Mbuf) /\ JustRead(p) \in Seq(Mbuf) /\ hostQ[p] \in Seq(Frame)
    BY QueueTypes
  <2>2. PICK a, b, r, j \in Seq(Mbuf) :
          a = nicTx[p] /\ b = Sending(p) /\ r = from_hostif[p] /\ j = JustRead(p)
    BY <2>1
  <2>3. PICK d \in [Mbuf -> Frame], q \in Seq(Frame) : d = data /\ q = hostQ[p]
    BY <2>1
  <2>4. HostToWire(p) = Frames(data, a, b, r, j, q)
    BY <2>2, <2>3, TheRow
  <2>5. HostToWire(p)' = Frames(data, a, b, r, j, Append(q, f))
    BY <1>1, <1>2, <1>3, <2>2, <2>3, TheRow DEF HandsStill
  <2>6. AddsLast(d, a, b, r, j, q, f)
    BY FramesAppend
  <2> QED BY <2>3, <2>4, <2>5, <2>6 DEF AddsLast
<1>7. StaysUp /\ OthersStill(p)
  BY <1>1, <1>4, <1>5 DEF StaysUp, OthersStill
<1>8. CC!CNext
  BY <1>1, <1>5, <1>6, <1>7, MapsToFromHost
<1> QED BY <1>8 DEF CStep

-----------------------------------------------------------------------------
(* The refinement. *)

LEMMA InitRefines == Init => CC!CInit
<1> SUFFICES ASSUME Init PROVE CC!CInit
  OBVIOUS
<1>1. SomeFrame \in Frame
  BY SizesAssumption DEF SomeFrame
<1>2. ASSUME NEW p \in Port PROVE HostToWire(p) = <<>> /\ WireToHost(p) = <<>>
  <2>1. /\ nicTx[p] = <<>> /\ nicRx[p] = <<>> /\ from_hostif[p] = <<>> /\ hostQ[p] = <<>>
        /\ fwdPc = "none" /\ tapPc = "none"
    BY DEF Init
  <2>2. Sending(p) = <<>> /\ Delivering(p) = <<>> /\ JustRead(p) = <<>>
    BY <2>1 DEF Sending, Delivering, JustRead
  <2>3. <<>> \o <<>> = <<>>
    OBVIOUS
  <2>4. HostToWire(p) = Mapped(data, <<>> \o <<>> \o <<>> \o <<>>) \o <<>>
        /\ WireToHost(p) = Mapped(data, <<>> \o <<>>)
    BY <2>1, <2>2, TheRow, TheWay DEF Frames
  <2> QED BY <2>3, <2>4, MappedEmpty
<1>3. proc = "running"
  BY DEF Init, PortInit
<1>4. wireOut \in [Port -> Frame] /\ hostOut \in [Port -> Frame]
  BY <1>1 DEF Init
<1> QED BY <1>2, <1>3, <1>4 DEF CC!CInit

LEMMA StepRefines == OwnInv /\ [Next]_vars => CStep
<1> SUFFICES ASSUME OwnInv, [Next]_vars PROVE CStep
  OBVIOUS
<1>1. TypeInv
  BY DEF OwnInv
<1>2. CASE main
  BY <1>1, <1>2, MainRefines
<1>3. CASE fwd_main
  <2>1. CASE fwd_poll \/ fwd_tx_done \/ fwd_next_port
    BY <1>1, <2>1, FwdQuietRefines
  <2> QED BY <1>1, <1>3, <2>1, FwdDequeueRefines, FwdTxRefines, FwdRxRefines,
             PortInputRefines DEF fwd_main
<1>4. CASE tap_main
  BY <1>1, <1>4, TapAllocRefines, TapReadRefines, TapEnqueueRefines DEF tap_main
<1>5. CASE Environment
  BY <1>1, <1>5, NicReceiveRefines, HostSendRefines, NicTransmitRefines, LinkRefines
     DEF Environment
<1>6. CASE Terminated \/ UNCHANGED vars
  BY <1>6, IdleRefines DEF Terminated
<1> QED BY <1>2, <1>3, <1>4, <1>5, <1>6 DEF Next

(* YAK implements the cross connect: on every port and in both directions  *)
(* frames keep their order, none is duplicated, altered or moved to        *)
(* another port, and only the NIC's refusal (towards the wire) or an       *)
(* unknown ether_type (towards the host) makes one disappear, however the  *)
(* two threads, the NIC and the host interleave.                           *)
THEOREM YakIsCrossConnect == Spec => ImplementsCrossConnect
<1>1. Init => CC!CInit
  BY InitRefines
<1>2. OwnInv /\ [Next]_vars => [CC!CNext]_(CC!cvars)
  BY StepRefines DEF CStep
<1> QED BY <1>1, <1>2, OwnAlways, PTL DEF Spec, ImplementsCrossConnect, CC!CSpec

=============================================================================
