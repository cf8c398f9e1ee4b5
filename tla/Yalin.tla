------------------------------- MODULE Yalin -------------------------------
(***************************************************************************)
(* YALIN, a monitor of the kernel's rtnetlink messages: main() opens a     *)
(* netlink socket for all groups (yalin/socket.h) and netlink_listen()     *)
(* (yalin/request.h) receives datagrams into one buffer, walks the         *)
(* messages of each and hands them to netlink_msg_dump() (yalin/dump.h),   *)
(* which walks the attributes of a message with the RTA_ macros.           *)
(*                                                                         *)
(* The buffer is never cleared, so what follows a message in it is what an *)
(* earlier datagram left there.  It is modelled as 4-byte words, of which  *)
(* only the lower half matters here: the half that is rta_len if a dumper  *)
(* takes the word for the head of an attribute.  Lengths are in bytes.     *)
(* The program is built with -fsanitize=address: touching a byte outside   *)
(* the buffer ends it.                                                     *)
(***************************************************************************)
EXTENDS Integers, Sequences, FiniteSets, SequencesExt

CONSTANTS
  BufLen,      \* sizeof(buf) of netlink_listen(), a multiple of 4
  Datagram,    \* what the kernel may send: non-empty sequences of messages
  Reach,       \* bytes from its head that an attribute's reader may look at,
               \* however short the attribute is: rtnl_link_stats64's 188, if
               \* there is a NUL among them where a string is read
  SockQLen,    \* datagrams the socket's receive buffer can hold
  StackWord    \* what the words of the buffer may hold at first

ASSUME BufLenAssumption ==
  /\ BufLen \in Nat /\ BufLen % 4 = 0 /\ BufLen >= 16
  /\ Reach \in Nat /\ Reach >= 4                   \* at least the head
  /\ StackWord \subseteq Nat

(***************************************************************************)
(* A message: its kind, the rta_len of its attributes, what all its other  *)
(* words hold, its address family, and whether rta_to_str() accepts its    *)
(* attributes (see module RtAttr).  rtn_type_to_str() knows every type of  *)
(* route there is.                                                         *)
(***************************************************************************)
Kind == {"link", "addr", "route", "neigh", "other"}

Align(n) == ((n + 3) \div 4) * 4                   \* NLMSG_ALIGN, RTA_ALIGN

HdrLen == 16                                       \* struct nlmsghdr

(* struct ifinfomsg, ifaddrmsg, rtmsg and ndmsg; for the other kinds a     *)
(* fixed part without attributes stands for whatever follows the header.   *)
FixedLen(kind) ==
  CASE kind = "link" -> 16
    [] kind = "addr" -> 8
    [] kind = "route" -> 12
    [] kind = "neigh" -> 12
    [] kind = "other" -> 12

Repeat(w, bytes) == [i \in 1 .. bytes \div 4 |-> w]

(* The kernel pads every attribute, the last one too. *)
AttrWords(m, len) == <<len>> \o Repeat(m.fill, Align(len) - 4)
AttrsWords(m) == FlattenSeq([j \in DOMAIN m.attrs |-> AttrWords(m, m.attrs[j])])

MsgLen(m) == HdrLen + FixedLen(m.kind) + 4 * Len(AttrsWords(m))      \* nlmsg_len

MsgWords(m) ==
  <<MsgLen(m)>> \o Repeat(m.fill, HdrLen + FixedLen(m.kind) - 4) \o AttrsWords(m)

DatagramWords(d) == FlattenSeq([i \in DOMAIN d |-> MsgWords(d[i])])
DatagramLen(d) == 4 * Len(DatagramWords(d))

(* Where the i-th message of d starts, in bytes, and where the last ends:  *)
(* a table, so that it is computed once.                                   *)
Starts == [d \in Datagram |-> [i \in 1 .. Len(d) + 1 |-> DatagramLen(SubSeq(d, 1, i - 1))]]
Start(d, i) == Starts[d][i]

(* The families that ifa_family_to_str() knows, from AF_UNSPEC to AF_MAX,  *)
(* which is 41 in the headers of the program's time.                       *)
KnownFamily == 0 .. 41

(* The kernel sends one message or more at a time, an attribute is never   *)
(* shorter than its head, and links and addresses are of families of       *)
(* interfaces.                                                             *)
ASSUME DatagramAssumption ==
  \A d \in Datagram :
    /\ d # <<>>
    /\ d \in Seq([kind : Kind, attrs : Seq(Nat), fill : Nat, family : Nat,
                  accepted : BOOLEAN])
    /\ \A i \in DOMAIN d :
         /\ \A j \in DOMAIN d[i].attrs : d[i].attrs[j] >= 4
         /\ d[i].kind \in {"link", "addr"} => d[i].family \in KnownFamily

(* The checked calls of netlink_open() in program order. *)
OpenSteps == <<"malloc", "socket", "sndbuf", "rcvbuf", "bind", "getsockname">>

VARIABLES
  proc,     \* "running" or how the process ended
  pc,       \* "open", "recv" (at recvmsg()) or "loop" (at the for loop)
  step,     \* index in OpenSteps of the next call
  sockQ,    \* datagrams in the socket's receive buffer
  overrun,  \* the kernel has dropped a datagram: ENOBUFS is pending
  buf,      \* buf[0 .. BufLen/4 - 1]
  status,   \* bytes of the datagram that are left, a signed int
  h,        \* offset of h in buf, in words
  truncated,\* msg.msg_flags & MSG_TRUNC
  dgram,    \* the datagram received last
  shown     \* the message shown last: what it was, where, what was shown

vars == <<proc, pc, step, sockQ, overrun, buf, status, h, truncated, dgram, shown>>

listenVars == <<buf, status, h, truncated, dgram, shown>>

Words == BufLen \div 4

Init ==
  /\ proc = "running" /\ pc = "open" /\ step = 1
  /\ sockQ = <<>> /\ overrun = FALSE
  /\ buf \in {[i \in 0 .. Words - 1 |-> w] : w \in StackWord}
  /\ status = 0 /\ h = 0 /\ truncated = FALSE /\ dgram = <<>>
  /\ shown = <<>>

-----------------------------------------------------------------------------
(* netlink_open() and main().                                              *)

At(c) == proc = "running" /\ pc = c

netlink_open_step ==
  /\ At("open")
  /\ step' = step + 1
  /\ pc' = IF step = Len(OpenSteps) THEN "recv" ELSE "open"
  /\ UNCHANGED <<proc, sockQ, overrun, listenVars>>

(* A call fails: NULL is returned and main() returns 1, but for malloc(),  *)
(* whose result goes to memset() unchecked.                                *)
netlink_open_fail ==
  /\ At("open")
  /\ proc' = IF OpenSteps[step] = "malloc" THEN "aborted" ELSE "failed"
  /\ UNCHANGED <<pc, step, sockQ, overrun, listenVars>>

-----------------------------------------------------------------------------
(* netlink_dump.                                                           *)

(* Mutant: NLMSG_PAYLOAD() of nothing, the fixed part is not taken off. *)
IFA_PAYLOAD_NoFixedPart(len) == len - HdrLen

(* IFA_PAYLOAD(): what is left of a message after a struct ifaddrmsg.  All *)
(* four dumpers use it, also those whose fixed part is longer.             *)
IFA_PAYLOAD(len) == len - HdrLen - 8

(***************************************************************************)
(* The walk for (rta; RTA_OK(rta, len); rta = RTA_NEXT(rta, len)) from     *)
(* word o of the buffer: the attributes it shows.  A walk that has to look *)
(* at a word behind the buffer ends there with an "attribute" of length 0. *)
(* In the code rta_len is unsigned and RTA_NEXT() could wrap it below 0.   *)
(* It never does: it starts as a multiple of 4, messages being padded, so  *)
(* an attribute that fits also fits with its padding.                      *)
(***************************************************************************)
RTA_OK(p, n) == n >= 4 /\ buf[p] >= 4 /\ buf[p] <= n

Walk(o, len) ==
  LET left(p) == len - 4 * (p - o)         \* rta_len goes down as rta goes up
      walk[p \in Nat] ==
        IF p >= Words
        THEN IF left(p) >= 4 THEN <<[at |-> p, len |-> 0]>> ELSE <<>>
        ELSE IF RTA_OK(p, left(p))
        THEN <<[at |-> p, len |-> buf[p]]>> \o walk[p + Align(buf[p]) \div 4]
        ELSE <<>>
  IN  walk[o]

(* Mutant: IFA_RTA() for every kind of message. *)
Dump_IfaRta(kind, o, len) ==
  IF kind = "other" THEN <<>> ELSE Walk(o + (HdrLen + 8) \div 4, IFA_PAYLOAD(len))

(* netlink_msg_dump(): the attributes shown for the message of this kind   *)
(* and length at word o.                                                   *)
Dump(kind, o, len) ==
  IF kind = "other" THEN <<>>
  ELSE Walk(o + (HdrLen + FixedLen(kind)) \div 4, IFA_PAYLOAD(len))

(* Mutant: the family is shown for every message. *)
Known_AllKinds(m) == m.accepted /\ m.family \in KnownFamily

(* Nothing in the message makes a function exit(1) or fail an assertion.   *)
(* The family of neighbours is shown as a number, and only the header of   *)
(* other messages is looked at.                                            *)
Known(m) ==
  m.accepted /\ (m.kind \in {"link", "addr", "route"} => m.family \in KnownFamily)

(* That may also be the fate of stale bytes taken for an attribute. *)
MayRefuse(m, attrs) ==
  ~Known(m) \/ \E j \in Len(m.attrs) + 1 .. Len(attrs) : attrs[j].at < Words

(* Showing a message reads behind the buffer: its fixed part, the head of  *)
(* an attribute or, when hexdump() shows all of it, any byte of it.        *)
LeavesBuffer(kind, o, len, attrs) ==
  \/ 4 * o + HdrLen + FixedLen(kind) > BufLen
  \/ \E j \in DOMAIN attrs : attrs[j].at >= Words
  \/ kind = "other" /\ 4 * o + len > BufLen

(* What rta_to_str() reads depends on the attribute's type: nothing, the   *)
(* payload, a struct of fixed size, or a string.  The string of an         *)
(* IFLA_IFNAME is read up to its NUL; also where the number means another  *)
(* attribute, a NUL is taken to come within Reach.                         *)
MayLeaveBuffer(attrs) ==
  \E j \in DOMAIN attrs :
    \/ 4 * attrs[j].at + attrs[j].len > BufLen
    \/ 4 * attrs[j].at + Reach > BufLen

-----------------------------------------------------------------------------
(* netlink_listen().                                                       *)

(* Mutant: iov_len is not the size of the buffer, and recvmsg() writes the *)
(* end of a large datagram behind it.                                      *)
recvmsg_ok_IovLen ==
  /\ At("recv")
  /\ ~overrun /\ sockQ # <<>>
  /\ LET d == Head(sockQ)
         words == DatagramWords(d)
         top == IF Len(words) > Words THEN Len(words) ELSE Words
     IN  /\ buf' = [i \in 0 .. top - 1 |->
                      IF i < Len(words) THEN words[i + 1] ELSE buf[i]]
         /\ status' = DatagramLen(d)
         /\ dgram' = d
  /\ truncated' = FALSE
  /\ h' = 0
  /\ sockQ' = Tail(sockQ)
  /\ pc' = "loop"
  /\ UNCHANGED <<proc, step, overrun, shown>>

(* recvmsg() returns a datagram, or as much of it as the buffer can hold.  *)
recvmsg_ok ==
  /\ At("recv")
  /\ ~overrun /\ sockQ # <<>>
  /\ LET d == Head(sockQ)
         words == DatagramWords(d)
         len == DatagramLen(d)
     IN  /\ buf' = [i \in 0 .. Words - 1 |->
                      IF i < Len(words) THEN words[i + 1] ELSE buf[i]]
         /\ status' = IF len <= BufLen THEN len ELSE BufLen
         /\ truncated' = (len > BufLen)
         /\ dgram' = d
  /\ h' = 0
  /\ sockQ' = Tail(sockQ)
  /\ pc' = "loop"
  /\ UNCHANGED <<proc, step, overrun, shown>>

(* ENOBUFS (EINTR and EAGAIN alike): try again. *)
recvmsg_retry ==
  /\ At("recv")
  /\ overrun
  /\ overrun' = FALSE
  /\ UNCHANGED <<proc, pc, step, sockQ, listenVars>>

(* Any other error, or end of file: main() returns 1. *)
recvmsg_fail ==
  /\ At("recv")
  /\ proc' = "failed"
  /\ UNCHANGED <<pc, step, sockQ, overrun, listenVars>>

(* The comparison with sizeof is unsigned: a negative status passes. *)
AnotherMessage == status < 0 \/ status >= HdrLen

(* Mutant: h stays at the first message. *)
listen_message_SameHeader ==
  /\ At("loop")
  /\ AnotherMessage
  /\ \E i \in DOMAIN dgram :
       /\ Start(dgram, i) = 4 * h
       /\ Known(dgram[i])
       /\ status' = status - Align(buf[h])
       /\ shown' = [msg |-> dgram[i], at |-> h, attrs |-> Dump(dgram[i].kind, h, buf[h])]
  /\ UNCHANGED <<proc, pc, step, sockQ, overrun, buf, h, truncated, dgram>>

(* Mutant: neither h nor status moves on. *)
listen_message_Stuck ==
  /\ At("loop")
  /\ AnotherMessage
  /\ \E i \in DOMAIN dgram :
       /\ Start(dgram, i) = 4 * h
       /\ shown' = [msg |-> dgram[i], at |-> h, attrs |-> Dump(dgram[i].kind, h, buf[h])]
  /\ UNCHANGED <<proc, pc, step, sockQ, overrun, buf, status, h, truncated, dgram>>

(* One round of the loop: the handler dumps the message at h, then status  *)
(* and h move on by its aligned length.                                    *)
listen_message ==
  /\ At("loop")
  /\ AnotherMessage
  /\ 4 * h + HdrLen <= BufLen
  /\ \E i \in DOMAIN dgram :
       LET m == dgram[i]
           len == buf[h]
           attrs == Dump(m.kind, h, len)
       IN  /\ Start(dgram, i) = 4 * h
           /\ \/ /\ MayRefuse(m, attrs)
                 /\ proc' = "unknown"
                 /\ UNCHANGED <<status, h, shown>>
              \/ /\ Known(m)
                 /\ LeavesBuffer(m.kind, h, len, attrs) \/ MayLeaveBuffer(attrs)
                 /\ proc' = "aborted"
                 /\ UNCHANGED <<status, h, shown>>
              \/ /\ Known(m)
                 /\ ~LeavesBuffer(m.kind, h, len, attrs)
                 /\ status' = status - Align(len)
                 /\ h' = h + Align(len) \div 4
                 /\ shown' = [msg |-> m, at |-> h, attrs |-> attrs]
                 /\ UNCHANGED proc
  /\ UNCHANGED <<pc, step, sockQ, overrun, buf, truncated, dgram>>

(* h points behind the buffer, or so close to its end that a header does   *)
(* not fit.                                                                *)
listen_off ==
  /\ At("loop")
  /\ AnotherMessage
  /\ 4 * h + HdrLen > BufLen
  /\ proc' = "aborted"
  /\ UNCHANGED <<pc, step, sockQ, overrun, listenVars>>

(* Mutant: the check for a remnant comes before that for truncation. *)
listen_end_RemnantFirst ==
  /\ At("loop")
  /\ ~AnotherMessage
  /\ IF status = 0
     THEN pc' = "recv" /\ UNCHANGED proc
     ELSE proc' = "remnant" /\ UNCHANGED pc
  /\ UNCHANGED <<step, sockQ, overrun, listenVars>>

(* After the loop: a truncated datagram is left, and a rest that is no     *)
(* message ends the process.                                               *)
listen_end ==
  /\ At("loop")
  /\ ~AnotherMessage
  /\ IF truncated \/ status = 0
     THEN pc' = "recv" /\ UNCHANGED proc
     ELSE proc' = "remnant" /\ UNCHANGED pc   \* exit(1)
  /\ UNCHANGED <<step, sockQ, overrun, listenVars>>

yalin ==
  \/ netlink_open_step \/ netlink_open_fail
  \/ recvmsg_ok \/ recvmsg_retry \/ recvmsg_fail
  \/ listen_message \/ listen_off \/ listen_end

-----------------------------------------------------------------------------
(* The kernel (not under src/).                                            *)

(* A datagram is sent to the groups the socket is bound to; it is dropped, *)
(* and the socket told so, when the receive buffer is full.                *)
KernelSend(d) ==
  /\ proc = "running"
  /\ step > 5                            \* bind() has been called
  /\ IF Len(sockQ) < SockQLen
     THEN sockQ' = Append(sockQ, d) /\ UNCHANGED overrun
     ELSE overrun' = TRUE /\ UNCHANGED sockQ
  /\ UNCHANGED <<proc, pc, step, listenVars>>

Kernel == \E d \in Datagram : KernelSend(d)

(* Nothing happens once the process has ended. *)
Terminated == proc # "running" /\ UNCHANGED vars

Next == yalin \/ Kernel \/ Terminated

Spec == Init /\ [][Next]_vars

(* The process runs; the kernel owes no message. *)
FairSpec == Spec /\ WF_vars(netlink_open_step) /\ WF_vars(recvmsg_ok)
              /\ WF_vars(listen_message \/ listen_off \/ listen_end)

-----------------------------------------------------------------------------
(* Properties.                                                             *)

Message == UNION {{d[i] : i \in DOMAIN d} : d \in Datagram}

(* Type invariant. *)
TypeOK ==
  /\ proc \in {"running", "failed", "unknown", "remnant", "aborted"}
  /\ pc \in {"open", "recv", "loop"}
  /\ step \in 1 .. Len(OpenSteps) + 1
  /\ sockQ \in Seq(Datagram)
  /\ overrun \in BOOLEAN /\ truncated \in BOOLEAN
  /\ buf \in [0 .. Words - 1 -> Nat]
  /\ status \in Int /\ h \in Nat
  /\ dgram \in Datagram \cup {<<>>}

(* How far a dumper reads beyond its message: the fixed parts are longer   *)
(* than the struct ifaddrmsg that IFA_PAYLOAD() takes off.                 *)
Slack(kind) == FixedLen(kind) - 8

(* A dump starts with the attributes of the message, all of them and in    *)
(* order, whatever earlier datagrams have left in the buffer.  What may    *)
(* follow are stale bytes taken for attributes: none for an address        *)
(* message, and never more than the slack of the other kinds.              *)
DumpShowsMessage ==
  shown # <<>> /\ shown.msg.kind # "other" =>
    LET own == shown.msg.attrs
        seen == shown.attrs
        end == 4 * shown.at + MsgLen(shown.msg)
    IN  /\ Len(own) <= Len(seen)
        /\ \A i \in DOMAIN own : seen[i].len = own[i]
        /\ \A i \in Len(own) + 1 .. Len(seen) :
             /\ 4 * seen[i].at >= end
             /\ 4 * seen[i].at + Align(seen[i].len) <= end + Slack(shown.msg.kind)

(* The messages of a datagram fill it exactly: the listener never finds a  *)
(* remnant, also when it was cut off.                                      *)
NoRemnant == proc # "remnant"

(* The program only touches a byte outside its buffer when a datagram does *)
(* not fit or fills the buffer but for what a reader may look at: the last *)
(* attribute, real or stale, starts at most 4 bytes behind the message.    *)
BufferHolds ==
  proc = "aborted" /\ pc = "loop" => DatagramLen(dgram) + 4 + Reach > BufLen

(* The loop leaves a truncated datagram where its bytes end, so that the   *)
(* branch behind it, "Message truncated", goes on with the next one: it    *)
(* never looks for another header behind the buffer.                       *)
TruncatedEndsLoop ==
  truncated /\ pc = "loop" /\ proc = "aborted" => 4 * h + HdrLen <= BufLen

(* Stale bytes behind the message at word o look like an attribute. *)
StaleAttribute(m, o) ==
  \E k \in 0 .. Slack(m.kind) \div 4 - 1 :
    LET w == o + MsgLen(m) \div 4 + k
    IN  w < Words /\ buf[w] \in 4 .. Slack(m.kind) - 4 * k

(* A value that is not known only ends the monitor when a route of another *)
(* family is shown (the kernel's multicast routes have such families) or   *)
(* an attribute is not accepted, or when an earlier datagram has left what *)
(* looks like an attribute behind a message that is not about an address.  *)
RefusalHasCause ==
  proc = "unknown" =>
    \E i \in DOMAIN dgram :
      LET m == dgram[i]
      IN  /\ Start(dgram, i) = 4 * h
          /\ \/ m.kind = "route" /\ m.family \notin KnownFamily
             \/ ~m.accepted
             \/ m.kind # "other" /\ StaleAttribute(m, h)

(* The listener always gets back to recvmsg(), unless it ends: no datagram *)
(* keeps it in its loop.                                                   *)
BackToRecv == (pc = "loop") ~> (pc = "recv" \/ proc # "running")

(***************************************************************************)
(* Refinement: pending are the messages of the datagram in the buffer that *)
(* are left and then those of the socket's queue.                          *)
(***************************************************************************)
Whole(d, i) == Start(d, i + 1) <= BufLen

Tagged(d) == [i \in DOMAIN d |-> [msg |-> d[i], whole |-> Whole(d, i)]]

(* Messages of the datagram that start before h have been dumped. *)
InBuffer ==
  LET dumped == {i \in DOMAIN dgram : Start(dgram, i) < 4 * h}
  IN  IF pc = "loop"
      THEN SubSeq(Tagged(dgram), Cardinality(dumped) + 1, Len(dgram))
      ELSE <<>>

M == INSTANCE Monitor WITH
       NoMessage <- <<>>,
       up <- (proc = "running"),
       pending <- InBuffer \o FlattenSeq([i \in DOMAIN sockQ |-> Tagged(sockQ[i])]),
       onShow <- IF shown = <<>> THEN <<>> ELSE shown.msg

(* Every message the kernel has queued is dumped once and in order, the    *)
(* tail of a datagram that was cut off excepted, until the process ends.   *)
ImplementsMonitor == M!MSpec

=============================================================================
