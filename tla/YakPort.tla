------------------------------ MODULE YakPort ------------------------------
(***************************************************************************)
(* Bring-up of YAK's ports: the first half of main() in yak/main.c, which  *)
(* calls port_alloc() (yak/port.c) for every device in turn; port_alloc()  *)
(* calls port_configure() and tap_alloc() (yak/tap.c).  Every library or   *)
(* system call on the way is checked and a failure ends the process with   *)
(* rte_exit(), so bring-up is one straight line per port with an exit at   *)
(* each step.  The module is extended by Yak, which adds the two threads.  *)
(***************************************************************************)
EXTENDS Naturals, Sequences

CONSTANT NumPorts        \* rte_eth_dev_count(): the number of DPDK devices

ASSUME NumPortsAssumption == NumPorts \in Nat \ {0}

Port == 0 .. NumPorts - 1

(***************************************************************************)
(* The checked calls of port_alloc() in program order.  The unchecked ones *)
(* next to them (promiscuous mode, reading the MAC address, filling in the *)
(* port_t fields) belong to the step before.                               *)
(***************************************************************************)
BringUp ==
  << "malloc",            \* the port_t
     "pool_create",       \* port->mp
     "dev_configure",
     "rx_queue_setup",    \* hands port->mp to the receive queue
     "tx_queue_setup",
     "dev_start",         \* from here on the NIC receives
     "tun_open",          \* port->hostif_fd
     "tun_setiff",        \* creates the host interface ge-0-0-<pid>
     "set_hwaddr",
     "get_flags",         \* of the interface
     "link_up",           \* from here on the host can send
     "ring_create" >>     \* port->from_hostif

VARIABLES
  proc,       \* "running", "exited" (rte_exit) or "crashed" (signal)
  mainPc,     \* control point of main()
  mainPid,    \* main()'s loop variable i
  at          \* at[p]: index in BringUp of the next step of port_alloc(p)

portVars == <<proc, mainPc, mainPid, at>>

MainPc == {"port_alloc", "create_fwd", "create_tap", "join"}

(* The step s of port p's bring-up has been done. *)
Done(p, s) == \E i \in 1 .. at[p] - 1 : BringUp[i] = s

(* port_alloc(p) has returned. *)
Ready(p) == at[p] = Len(BringUp) + 1

PortInit ==
  /\ proc = "running"
  /\ mainPc = "port_alloc"
  /\ mainPid = 0
  /\ at = [p \in Port |-> 1]

(* One call of port_alloc() succeeds. *)
port_alloc_step ==
  /\ proc = "running"
  /\ mainPc = "port_alloc"
  /\ ~Ready(mainPid)
  /\ at' = [at EXCEPT ![mainPid] = @ + 1]
  /\ UNCHANGED <<proc, mainPc, mainPid>>

(* One call of port_alloc() fails: rte_exit(EXIT_FAILURE, ...).  The       *)
(* failure of the first call for the first port also stands for that of    *)
(* rte_eal_init() before it: nothing else has happened then either.        *)
port_alloc_fail ==
  /\ proc = "running"
  /\ mainPc = "port_alloc"
  /\ ~Ready(mainPid)
  /\ proc' = "exited"
  /\ UNCHANGED <<mainPc, mainPid, at>>

(* Mutant: the threads are created inside the loop, after the first port.  *)
main_next_port_StartsEarly ==
  /\ proc = "running"
  /\ mainPc = "port_alloc"
  /\ Ready(mainPid)
  /\ mainPc' = "create_fwd"
  /\ UNCHANGED <<proc, mainPid, at>>

(* port_alloc() returns and main()'s loop goes to the next port, or on to  *)
(* the threads after the last one.                                         *)
main_next_port ==
  /\ proc = "running"
  /\ mainPc = "port_alloc"
  /\ Ready(mainPid)
  /\ \/ /\ mainPid + 1 \in Port
        /\ mainPid' = mainPid + 1
        /\ UNCHANGED mainPc
     \/ /\ mainPid + 1 \notin Port
        /\ mainPc' = "create_fwd"
        /\ UNCHANGED mainPid
  /\ UNCHANGED <<proc, at>>

PortNext == port_alloc_step \/ port_alloc_fail \/ main_next_port

PortTypeOK ==
  /\ proc \in {"running", "exited", "crashed"}
  /\ mainPc \in MainPc
  /\ mainPid \in Port
  /\ at \in [Port -> 1 .. Len(BringUp) + 1]

=============================================================================
