---------------------------- MODULE IpReassembly ----------------------------
(***************************************************************************)
(* ip_reassembly/main.c: seven records of a capture file are copied into   *)
(* mbufs; IPv4 fragments go to DPDK's fragment table, everything else is   *)
(* forgotten.  A file is the set of its records, read in any order.  An    *)
(* mbuf is the record it holds, and `lost' counts those nobody holds any   *)
(* more.  DPDK's table is modelled from the way recvpkt() uses it: it has  *)
(* room for MaxFrag fragments of a datagram and drops a datagram that has  *)
(* more.                                                                   *)
(***************************************************************************)
EXTENDS Integers, FiniteSets

CONSTANTS
  Files,     \* what in.pcap may hold: sets of records, each with its datagram,
             \* which of `count' fragments it is, the EtherType, whether its IP
             \* header has options, and whether it is "whole", "cut" (caplen <
             \* len, behind the headers) or "long" (more than an mbuf takes)
  PoolSize,  \* number of mbufs (8192)
  MaxFrag    \* RTE_LIBRTE_IP_FRAG_MAX_FRAG (4)

Record == UNION Files

(* The calls of recvpkt() in main(). *)
NumCalls == 7

ASSUME IpReassemblyAssumption ==
  /\ \A r \in Record : r.count \in Nat \ {0} /\ r.nr \in 1 .. r.count
                        /\ r.options \in BOOLEAN
  /\ PoolSize \in Nat /\ PoolSize >= NumCalls
  /\ MaxFrag \in Nat

(* The records of a datagram agree on what it is, and a file has each of   *)
(* its fragments at most once.                                             *)
ASSUME FilesAssumption ==
  \A f \in Files : \A r, s \in f :
    r.datagram = s.datagram =>
      /\ r.count = s.count /\ r.ether_type = s.ether_type
      /\ r.nr = s.nr => r = s

VARIABLES
  pc,      \* the next call of main(), or how it ended
  calls,   \* calls of recvpkt() made
  file,    \* the records of in.pcap
  read,    \* those that pcap_next() has returned
  eof,     \* pcap_next() has returned NULL
  free,    \* mbufs in the pool
  tbl,     \* the fragments in the table
  dr,      \* those on its death row
  lost,    \* mbufs that are nowhere
  shown    \* the datagrams reported as reassembled

vars == <<pc, calls, file, read, eof, free, tbl, dr, lost, shown>>

Init ==
  /\ pc = "eal_init" /\ calls = 0
  /\ file \in Files /\ read = {} /\ eof = FALSE
  /\ free = PoolSize /\ tbl = {} /\ dr = {} /\ lost = 0
  /\ shown = {}

Setup == [eal_init |-> "pool_create", pool_create |-> "table_create",
          table_create |-> "open", open |-> "recvpkt"]

(* The steps of main() before the file is read.  Each may fail. *)
main_setup ==
  /\ pc \in DOMAIN Setup
  /\ pc' \in {Setup[pc], "exited"}
  /\ UNCHANGED <<calls, file, read, eof, free, tbl, dr, lost, shown>>

-----------------------------------------------------------------------------
IsIpv4(r) == r.ether_type = 2048

(* Mutant: no packet is taken for one that is no fragment. *)
IsFragmented_Always(r) == TRUE

IsFragmented(r) == r.count > 1

Of(r) == {s \in tbl : s.datagram = r.datagram}

(* Mutant: l3_len is not set, and every header counts. *)
Stretched_NoL3Len(frags) == \E s \in frags : s.nr # s.count

(* recvpkt() sets l3_len to the 20 bytes of a header without options, and  *)
(* DPDK takes what is left of the total length for the payload.  Options   *)
(* count as payload then: with some in a fragment other than the last, the *)
(* lengths add up to more than the datagram has.                           *)
Stretched(frags) == \E s \in frags : s.nr # s.count /\ s.options

(* rte_ipv4_frag_reassemble_packet() and what recvpkt() does with its      *)
(* result.  The table has a slot for the first and the last fragment each; *)
(* without one for another fragment in between all go to the death row.    *)
(* So they do when their lengths add up to more than the last one says,    *)
(* which stretched ones reach with the last missing fragment or earlier;   *)
(* they may as well hide the gap that a missing one leaves.  Which of it   *)
(* happens depends on the lengths, which are not modelled.  Nothing but a  *)
(* reassembled packet is returned, and that is not freed.                  *)
reassemble_packet(r) ==
  LET all == Of(r) \cup {r}
      middle == {s \in all : s.nr \notin {1, s.count}}
      first == \E s \in all : s.nr = 1
      last == \E s \in all : s.nr = s.count
      complete == Cardinality(all) = r.count
      keep == tbl' = tbl \cup {r} /\ UNCHANGED <<dr, lost, shown>>
      drop == dr' = dr \cup all /\ tbl' = tbl \ all /\ UNCHANGED <<lost, shown>>
      report == /\ tbl' = tbl \ all /\ lost' = lost + Cardinality(all)
                /\ shown' = shown \cup {r.datagram} /\ UNCHANGED dr
  IN  IF Cardinality(middle) > MaxFrag - 2 THEN drop
      ELSE \/ complete /\ ~Stretched(all) /\ report
           \/ ~complete /\ keep
           \/ last /\ Stretched(all) /\ drop
           \/ ~complete /\ first /\ last /\ Stretched(all) /\ report

(* The packet that recvpkt() has copied into its mbuf. *)
packet(r) ==
  IF IsIpv4(r) /\ IsFragmented(r) THEN reassemble_packet(r)
  ELSE lost' = lost + 1 /\ UNCHANGED <<tbl, dr, shown>>

(* Mutant: the mbuf is freed when nothing has been reassembled. *)
recvpkt_record_FreesOnNull ==
  \E r \in file \ read :
    /\ read' = read \cup {r} /\ UNCHANGED <<file, eof>>
    /\ IF free = 0 THEN pc' = "crashed" /\ UNCHANGED <<free, tbl, dr, lost, shown>>
       ELSE /\ \/ packet(r) /\ r.size # "long" /\ UNCHANGED pc
               \/ /\ r.size \in {"cut", "long"}
                  /\ pc' = IF r.size = "cut" THEN "crashed" ELSE "damaged"
                  /\ lost' = lost + 1 /\ UNCHANGED <<tbl, dr, shown>>
            /\ free' = IF lost' = lost THEN free ELSE free - 1

(* A record is read.  Its length is that on the wire: a cut one is read    *)
(* behind what libpcap has, a long one overwrites what follows the mbuf,   *)
(* and nothing is said of the program from then on.                        *)
recvpkt_record ==
  \E r \in file \ read :
    /\ read' = read \cup {r} /\ UNCHANGED <<file, eof>>
    /\ IF free = 0 THEN pc' = "crashed" /\ UNCHANGED <<free, tbl, dr, lost, shown>>
       ELSE /\ free' = free - 1
            /\ \/ packet(r) /\ r.size # "long" /\ UNCHANGED pc
               \/ /\ r.size \in {"cut", "long"}
                  /\ pc' = IF r.size = "cut" THEN "crashed" ELSE "damaged"
                  /\ lost' = lost + 1 /\ UNCHANGED <<tbl, dr, shown>>

(* pcap_next() returns NULL and leaves the header as it is, the length     *)
(* that is read from it unset: NULL is read, unless the length is zero.    *)
recvpkt_eof ==
  /\ read = file /\ eof' = TRUE
  /\ \/ pc' = "crashed" /\ UNCHANGED <<free, lost>>
     \/ free > 0 /\ free' = free - 1 /\ lost' = lost + 1 /\ UNCHANGED pc
  /\ UNCHANGED <<file, read, tbl, dr, shown>>

(* Mutant: one call too many. *)
recvpkt_OneMore ==
  /\ pc = "recvpkt" /\ calls <= NumCalls
  /\ calls' = calls + 1
  /\ recvpkt_record \/ recvpkt_eof

recvpkt ==
  /\ pc = "recvpkt" /\ calls < NumCalls
  /\ calls' = calls + 1
  /\ recvpkt_record \/ recvpkt_eof

(* The end of main(): the fragments still in the table are freed with it. *)
(* Those on the death row and the lost ones are not, until the pool itself *)
(* is freed.                                                               *)
main_end ==
  /\ pc = "recvpkt" /\ calls = NumCalls
  /\ pc' = "returned"
  /\ tbl' = {} /\ free' = free + Cardinality(tbl)
  /\ UNCHANGED <<calls, file, read, eof, dr, lost, shown>>

Ended == pc \in {"returned", "exited", "crashed", "damaged"}

Next == main_setup \/ recvpkt \/ main_end \/ (Ended /\ UNCHANGED vars)

Spec == Init /\ [][Next]_vars

-----------------------------------------------------------------------------
(* Properties.                                                             *)

(* Type invariant. *)
TypeOK ==
  /\ pc \in DOMAIN Setup \cup {"recvpkt", "returned", "exited", "crashed", "damaged"}
  /\ calls \in Nat
  /\ file \in Files /\ read \subseteq file
  /\ tbl \subseteq read /\ dr \subseteq read
  /\ eof \in BOOLEAN
  /\ free \in 0 .. PoolSize /\ lost \in 0 .. PoolSize
  /\ shown \subseteq {r.datagram : r \in {s \in read : s.count > 1}}

(* Every mbuf is in one place: what waits in the table or on the death row *)
(* is not in the pool.                                                     *)
MbufsAccounted == free + Cardinality(tbl) + Cardinality(dr) + lost = PoolSize

(* recvpkt() tests nothing it is given; it only fails on a file with fewer *)
(* records than calls or with one that is cut or too long.  In particular  *)
(* the pool lasts although recvpkt() frees nothing.                        *)
FailsOnBadFile ==
  pc \in {"crashed", "damaged"} =>
    eof \/ \E r \in read : r.size # "whole"

(* When main() returns, it has reported exactly the datagrams of which all *)
(* fragments were read, if the table has room for them and none but the    *)
(* last has IP options.  Of a datagram with options before that nothing is *)
(* promised: it is not reported when it is complete.                       *)
CompleteAreShown ==
  pc = "returned" =>
    \A r \in file :
      (\A s \in read : s.datagram = r.datagram /\ s.nr # s.count => ~s.options) =>
        (r.datagram \in shown <=>
           /\ r.ether_type = 2048 /\ r.count \in 2 .. MaxFrag
           /\ \A k \in 1 .. r.count :
                \E s \in read : s.datagram = r.datagram /\ s.nr = k)

=============================================================================
