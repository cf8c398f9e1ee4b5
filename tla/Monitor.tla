------------------------------ MODULE Monitor ------------------------------
(***************************************************************************)
(* What YALIN promises as a monitor of the kernel's rtnetlink messages:    *)
(* it shows the messages of its groups in the order the kernel sends them  *)
(* and each of them once.  Messages the kernel could not queue never       *)
(* become pending.  A message that did not fit into a receive is the only  *)
(* one that may be passed over.  Once the monitor has stopped it shows     *)
(* nothing more.                                                           *)
(***************************************************************************)
EXTENDS Naturals, Sequences

CONSTANTS
  Message,     \* rtnetlink messages
  NoMessage    \* what is on show before the first message

VARIABLES
  up,          \* the monitor has not stopped
  pending,     \* messages on their way: [msg, whole], the oldest first
  onShow       \* the message shown last

mvars == <<up, pending, onShow>>

Pending == [msg : Message, whole : BOOLEAN]

MInit ==
  /\ up = TRUE
  /\ pending = <<>>
  /\ onShow = NoMessage

(* The kernel sends a datagram of one or more messages. *)
Arrive ==
  /\ Len(pending') > Len(pending)
  /\ SubSeq(pending', 1, Len(pending)) = pending
  /\ UNCHANGED <<up, onShow>>

Show ==
  /\ pending # <<>>
  /\ onShow' = Head(pending).msg
  /\ pending' = Tail(pending)
  /\ UNCHANGED up

(* The messages that were cut off at the end of a receive are passed over. *)
PassOver(n) ==
  /\ \A i \in 1 .. n : ~pending[i].whole
  /\ pending' = SubSeq(pending, n + 1, Len(pending))
  /\ UNCHANGED <<up, onShow>>

MStop ==
  /\ up' = FALSE
  /\ UNCHANGED <<pending, onShow>>

MNext ==
  /\ up
  /\ Arrive \/ Show \/ MStop \/ \E n \in 1 .. Len(pending) : PassOver(n)

MSpec == MInit /\ [][MNext]_mvars

=============================================================================
