------------------------- MODULE IpReassemblyProofs -------------------------
(***************************************************************************)
(* Theorems about ip_reassembly, for any files and any size of the table.  *)
(***************************************************************************)
EXTENDS IpReassembly, FiniteSetTheorems, TLAPS

Running == DOMAIN Setup \cup {"recvpkt"}

(***************************************************************************)
(* A call takes one mbuf, and there are not more calls than mbufs.         *)
(***************************************************************************)
CallsInv ==
  /\ calls \in Nat /\ free \in Nat
  /\ pc \in Running => free = PoolSize - calls
  /\ FailsOnBadFile

(***************************************************************************)
(* Where the mbufs are.                                                    *)
(***************************************************************************)
MbufInv ==
  /\ tbl \subseteq read /\ dr \subseteq read /\ tbl \cap dr = {}
  /\ IsFiniteSet(tbl) /\ IsFiniteSet(dr)
  /\ free \in Nat /\ lost \in Nat
  /\ MbufsAccounted

IpInv == CallsInv /\ MbufInv

LEMMA Sizes == PoolSize \in Nat /\ PoolSize >= 7 /\ NumCalls = 7
BY IpReassemblyAssumption DEF NumCalls

LEMMA IpInit == Init => IpInv
<1> SUFFICES ASSUME Init PROVE IpInv
  OBVIOUS
<1>1. IsFiniteSet({}) /\ Cardinality({}) = 0
  BY FS_EmptySet
<1>2. CallsInv
  BY Sizes DEF Init, CallsInv, Running, Setup, FailsOnBadFile
<1>3. MbufInv
  BY <1>1, Sizes DEF Init, MbufInv, MbufsAccounted
<1> QED BY <1>2, <1>3 DEF IpInv

(* recvpkt() moves as many fragments as it takes from the table.           *)
LEMMA PacketStep ==
  ASSUME MbufInv, NEW r, r \notin read, read' = read \cup {r}, packet(r)
  PROVE  /\ tbl' \subseteq read' /\ dr' \subseteq read' /\ tbl' \cap dr' = {}
         /\ IsFiniteSet(tbl') /\ IsFiniteSet(dr') /\ lost' \in Nat
         /\ Cardinality(tbl') + Cardinality(dr') + lost'
              = Cardinality(tbl) + Cardinality(dr) + lost + 1
<1> DEFINE all == Of(r) \cup {r}
           middle == {s \in all : s.nr \notin {1, s.count}}
<1>1. /\ Of(r) \subseteq tbl /\ r \notin tbl /\ r \notin dr
      /\ IsFiniteSet(Of(r))
      /\ Cardinality(Of(r)) \in Nat /\ Cardinality(tbl) \in Nat
      /\ Cardinality(dr) \in Nat /\ lost \in Nat
  <2>1. Of(r) \subseteq tbl /\ r \notin tbl /\ r \notin dr
    BY DEF Of, MbufInv
  <2> QED BY <2>1, FS_Subset, FS_CardinalityType DEF MbufInv
<1>2. IsFiniteSet(all) /\ Cardinality(all) = Cardinality(Of(r)) + 1
  <2>1. r \notin Of(r)
    BY <1>1
  <2> QED BY <1>1, <2>1, FS_AddElement
<1>3. /\ IsFiniteSet(tbl \ all)
      /\ Cardinality(tbl \ all) = Cardinality(tbl) - Cardinality(Of(r))
  <2>1. tbl \cap all = Of(r)
    BY <1>1
  <2> QED BY <2>1, FS_Difference DEF MbufInv
<1>4. /\ IsFiniteSet(dr \cup all)
      /\ Cardinality(dr \cup all) = Cardinality(dr) + Cardinality(all)
  <2>1. dr \cap all = {}
    BY <1>1 DEF MbufInv
  <2>2. Cardinality(dr \cap all) = 0
    BY <2>1, FS_EmptySet
  <2>3. IsFiniteSet(dr) /\ IsFiniteSet(all)
    BY <1>2 DEF MbufInv
  <2>4. /\ IsFiniteSet(dr \cup all)
        /\ Cardinality(dr \cup all) =
             Cardinality(dr) + Cardinality(all) - Cardinality(dr \cap all)
    BY <2>3, FS_Union
  <2> HIDE DEF all
  <2> QED BY <1>1, <1>2, <2>2, <2>4
<1>5. /\ IsFiniteSet(tbl \cup {r})
      /\ Cardinality(tbl \cup {r}) = Cardinality(tbl) + 1
  BY <1>1, FS_AddElement DEF MbufInv
<1>6. CASE dr' = dr \cup all /\ tbl' = tbl \ all /\ UNCHANGED <<lost, shown>>
  <2>1. tbl' \subseteq read' /\ dr' \subseteq read' /\ tbl' \cap dr' = {}
    BY <1>1, <1>6 DEF MbufInv
  <2> HIDE DEF all
  <2> QED BY <1>1, <1>2, <1>3, <1>4, <1>6, <2>1
<1>7. CASE /\ tbl' = tbl \ all /\ lost' = lost + Cardinality(all)
           /\ UNCHANGED dr
  <2>1. tbl' \subseteq read' /\ dr' \subseteq read' /\ tbl' \cap dr' = {}
    BY <1>7 DEF MbufInv
  <2>2. IsFiniteSet(dr')
    BY <1>7 DEF MbufInv
  <2> HIDE DEF all
  <2> QED BY <1>1, <1>2, <1>3, <1>7, <2>1, <2>2
<1>8. CASE tbl' = tbl \cup {r} /\ UNCHANGED <<dr, lost, shown>>
  <2>1. tbl' \subseteq read' /\ dr' \subseteq read' /\ tbl' \cap dr' = {}
    BY <1>1, <1>8 DEF MbufInv
  <2>2. IsFiniteSet(dr')
    BY <1>8 DEF MbufInv
  <2> QED BY <1>1, <1>5, <1>8, <2>1, <2>2
<1>9. CASE lost' = lost + 1 /\ UNCHANGED <<tbl, dr, shown>>
  BY <1>1, <1>9 DEF MbufInv
<1> QED BY <1>6, <1>7, <1>8, <1>9, Zenon DEF packet, reassemble_packet

LEMMA RecordStep ==
  ASSUME IpInv, pc = "recvpkt", calls < NumCalls, calls' = calls + 1, recvpkt_record
  PROVE  IpInv'
<1>1. PICK r \in file \ read :
        /\ read' = read \cup {r} /\ UNCHANGED <<file, eof>>
        /\ IF free = 0
           THEN pc' = "crashed" /\ UNCHANGED <<free, tbl, dr, lost, shown>>
           ELSE /\ free' = free - 1
                /\ \/ packet(r) /\ r.size # "long" /\ UNCHANGED pc
                   \/ /\ r.size \in {"cut", "long"}
                      /\ pc' = IF r.size = "cut" THEN "crashed" ELSE "damaged"
                      /\ lost' = lost + 1 /\ UNCHANGED <<tbl, dr, shown>>
  BY Zenon DEF recvpkt_record
<1>2. /\ calls \in Nat /\ calls' \in Nat /\ free \in Nat /\ free > 0
      /\ free = PoolSize - calls
  BY Sizes DEF IpInv, CallsInv, Running
<1>3. free' = free - 1 /\ free' \in Nat /\ free' = PoolSize - calls'
  BY <1>1, <1>2, Sizes
<1>4. Cardinality(tbl) \in Nat /\ Cardinality(dr) \in Nat
  BY FS_CardinalityType DEF IpInv, MbufInv
<1>5. CASE packet(r) /\ UNCHANGED pc
  <2>1. CallsInv'
    BY <1>1, <1>2, <1>3, <1>5 DEF CallsInv, FailsOnBadFile
  <2>2. /\ tbl' \subseteq read' /\ dr' \subseteq read' /\ tbl' \cap dr' = {}
        /\ IsFiniteSet(tbl') /\ IsFiniteSet(dr') /\ lost' \in Nat
        /\ Cardinality(tbl') + Cardinality(dr') + lost'
             = Cardinality(tbl) + Cardinality(dr) + lost + 1
    BY <1>1, <1>5, PacketStep DEF IpInv
  <2>3. Cardinality(tbl') \in Nat /\ Cardinality(dr') \in Nat
    BY <2>2, FS_CardinalityType
  <2>4. MbufsAccounted'
    BY <1>2, <1>3, <1>4, <2>2, <2>3 DEF IpInv, MbufInv, MbufsAccounted
  <2> QED BY <1>3, <2>1, <2>2, <2>4 DEF IpInv, MbufInv
<1>6. CASE /\ r.size \in {"cut", "long"}
           /\ pc' = IF r.size = "cut" THEN "crashed" ELSE "damaged"
           /\ lost' = lost + 1 /\ UNCHANGED <<tbl, dr, shown>>
  <2>1. r.size # "whole" /\ r \in read' /\ pc' \notin Running
    BY <1>1, <1>6 DEF Running, Setup
  <2>2. CallsInv'
    BY <1>2, <1>3, <2>1 DEF CallsInv, FailsOnBadFile
  <2>3. MbufsAccounted'
    BY <1>2, <1>3, <1>4, <1>6 DEF IpInv, MbufInv, MbufsAccounted
  <2> QED BY <1>1, <1>3, <1>6, <2>2, <2>3 DEF IpInv, MbufInv
<1> QED BY <1>1, <1>2, <1>5, <1>6

LEMMA EofStep ==
  ASSUME IpInv, pc = "recvpkt", calls < NumCalls, calls' = calls + 1, recvpkt_eof
  PROVE  IpInv'
<1>1. /\ calls \in Nat /\ calls' \in Nat /\ free \in Nat /\ free > 0
      /\ free = PoolSize - calls /\ eof' = TRUE
      /\ tbl' = tbl /\ dr' = dr /\ read' = read
  BY Sizes DEF IpInv, CallsInv, Running, recvpkt_eof
<1>2. Cardinality(tbl) \in Nat /\ Cardinality(dr) \in Nat
  BY FS_CardinalityType DEF IpInv, MbufInv
<1>3. CASE pc' = "crashed" /\ UNCHANGED <<free, lost>>
  BY <1>1, <1>3 DEF IpInv, CallsInv, MbufInv, MbufsAccounted, FailsOnBadFile, Running, Setup
<1>4. CASE free' = free - 1 /\ lost' = lost + 1 /\ UNCHANGED pc
  <2>1. free' \in Nat /\ free' = PoolSize - calls'
    BY <1>1, <1>4, Sizes
  <2>2. CallsInv'
    BY <1>1, <2>1 DEF CallsInv, FailsOnBadFile
  <2>3. MbufsAccounted'
    BY <1>1, <1>2, <1>4 DEF IpInv, MbufInv, MbufsAccounted
  <2> QED BY <1>1, <1>4, <2>1, <2>2, <2>3 DEF IpInv, MbufInv
<1> QED BY <1>3, <1>4 DEF recvpkt_eof

LEMMA IpStep == IpInv /\ [Next]_vars => IpInv'
<1> SUFFICES ASSUME IpInv, [Next]_vars PROVE IpInv'
  OBVIOUS
<1>1. CASE main_setup
  <2>1. pc \in Running /\ pc' \in Running \cup {"exited"}
    BY <1>1 DEF main_setup, Setup, Running
  <2>2. /\ calls' = calls /\ free' = free /\ lost' = lost /\ read' = read
        /\ tbl' = tbl /\ dr' = dr /\ eof' = eof
    BY <1>1 DEF main_setup
  <2>3. pc' \notin {"crashed", "damaged"}
    BY <2>1 DEF Running, Setup
  <2> QED BY <2>1, <2>2, <2>3 DEF IpInv, CallsInv, MbufInv, MbufsAccounted, FailsOnBadFile
<1>2. CASE recvpkt
  BY <1>2, RecordStep, EofStep DEF recvpkt
<1>3. CASE main_end
  <2>1. /\ pc' = "returned" /\ tbl' = {} /\ free' = free + Cardinality(tbl)
        /\ calls' = calls /\ dr' = dr /\ read' = read /\ lost' = lost
    BY <1>3 DEF main_end
  <2>2. /\ Cardinality(tbl) \in Nat /\ Cardinality(dr) \in Nat
        /\ IsFiniteSet(tbl') /\ Cardinality(tbl') = 0
    BY <2>1, FS_EmptySet, FS_CardinalityType DEF IpInv, MbufInv
  <2>3. CallsInv'
    BY <2>1, <2>2 DEF IpInv, CallsInv, FailsOnBadFile, Running, Setup
  <2>4. MbufsAccounted'
    BY <2>1, <2>2 DEF IpInv, MbufInv, MbufsAccounted
  <2> QED BY <2>1, <2>2, <2>3, <2>4 DEF IpInv, MbufInv
<1>4. CASE UNCHANGED vars
  BY <1>4 DEF vars, IpInv, CallsInv, MbufInv, MbufsAccounted, FailsOnBadFile
<1> QED BY <1>1, <1>2, <1>3, <1>4 DEF Next

(* Nothing that recvpkt() leaves in the table or on the death row is ever  *)
(* in the pool as well, whatever the file.                                 *)
THEOREM MbufsInOnePlace == Spec => []MbufsAccounted
<1>1. IpInv => MbufsAccounted
  BY DEF IpInv, MbufInv
<1> QED BY <1>1, IpInit, IpStep, PTL DEF Spec

(* The unchecked calls only harm a program that reads a short, cut or too  *)
(* long capture: a pool of as many mbufs as there are calls is enough.     *)
THEOREM OnlyBadFilesFail == Spec => []FailsOnBadFile
<1>1. IpInv => FailsOnBadFile
  BY DEF IpInv, CallsInv
<1> QED BY <1>1, IpInit, IpStep, PTL DEF Spec

-----------------------------------------------------------------------------
(* A record is told from the others of its datagram by its number, so      *)
(* there are as many fragments as numbers.                                 *)
LEMMA Numbers ==
  ASSUME NEW f \in Files, NEW A \in SUBSET f, NEW a \in Int, NEW b \in Int,
         \A s, t \in A : s.datagram = t.datagram,
         \A s \in A : s.nr \in a .. b
  PROVE  /\ IsFiniteSet(A)
         /\ Cardinality(A) <= Cardinality(a .. b)
         /\ Cardinality(A) = Cardinality(a .. b) <=> \A k \in a .. b : \E s \in A : s.nr = k
<1> DEFINE nr == [s \in A |-> s.nr]
<1>1. nr \in Injection(A, a .. b)
  <2>1. \A s, t \in A : nr[s] = nr[t] => s = t
    BY FilesAssumption
  <2>2. nr \in [A -> a .. b]
    OBVIOUS
  <2> QED BY <2>1, <2>2 DEF Injection, IsInjective
<1>2. IsFiniteSet(a .. b)
  BY FS_Interval
<1>3. nr \in Surjection(A, a .. b) <=> \A k \in a .. b : \E s \in A : s.nr = k
  <2>1. nr \in [A -> a .. b]
    OBVIOUS
  <2> QED BY <2>1 DEF Surjection
<1> HIDE DEF nr
<1> QED BY <1>1, <1>2, <1>3, FS_Injection

(* What the property says, for one record of a datagram that has no        *)
(* options before its last fragment: if it is reported, all fragments were *)
(* read; if it is not and the table has room for it, one is missing, and   *)
(* the others are in the table until main() frees that.                    *)
Fragment(r) == IsIpv4(r) /\ IsFragmented(r)

Covered(r) ==
  \A k \in 1 .. r.count : \E s \in read : s.datagram = r.datagram /\ s.nr = k

Plain(r) ==
  \A s \in read : s.datagram = r.datagram /\ s.nr # s.count => ~s.options

Handled(r) ==
  Plain(r) =>
    /\ r.datagram \in shown => Fragment(r) /\ r.count <= MaxFrag /\ Covered(r)
    /\ r.datagram \notin shown /\ Fragment(r) /\ r.count <= MaxFrag =>
         ~Covered(r) /\ (pc \in Running => r \in tbl)

(***************************************************************************)
(* The datagrams.  Every record that was read is in the right place as     *)
(* long as recvpkt() has not crashed.                                      *)
(***************************************************************************)
ShownInv ==
  /\ pc \in Running \cup {"returned", "exited", "crashed", "damaged"}
  /\ eof \in BOOLEAN
  /\ file \in Files /\ read \subseteq file
  /\ shown \subseteq {r.datagram : r \in {s \in read : s.count > 1}}
  /\ pc \notin {"crashed", "damaged"} => \A r \in read : Handled(r)

(* The records of a datagram agree. *)
LEMMA OfFile ==
  ASSUME NEW f \in Files, NEW r \in f
  PROVE  /\ r.count \in Nat /\ r.count >= 1 /\ r.nr \in 1 .. r.count
         /\ \A s \in f : s.datagram = r.datagram =>
              s.count = r.count /\ (IsIpv4(s) <=> IsIpv4(r)) /\ s.nr \in 1 .. r.count
<1>1. f \subseteq Record
  BY DEF Record
<1> QED BY <1>1, IpReassemblyAssumption, FilesAssumption DEF IsIpv4

(* recvpkt() passes a record on: what becomes of its datagram.             *)
LEMMA PacketHandled ==
  ASSUME IpInv, ShownInv, \A q \in read : Handled(q), pc = "recvpkt", pc' = pc,
         NEW r \in file, r \notin read, read' = read \cup {r}, UNCHANGED file, packet(r)
  PROVE  /\ \A q \in read' : Handled(q)'
         /\ shown' \subseteq {q.datagram : q \in {s \in read' : s.count > 1}}
<1> DEFINE all == Of(r) \cup {r}
           middle == {s \in all : s.nr \notin {1, s.count}}
           n == r.count
<1>0. pc \in Running /\ pc' \in Running
  BY DEF Running
<1>1. file \in Files /\ read \subseteq file /\ tbl \subseteq read /\ MaxFrag \in Nat
  BY IpReassemblyAssumption DEF ShownInv, IpInv, MbufInv
<1>2. /\ n \in Nat /\ n >= 1 /\ r.nr \in 1 .. n
      /\ \A s \in file : s.datagram = r.datagram =>
           s.count = n /\ (IsIpv4(s) <=> IsIpv4(r)) /\ s.nr \in 1 .. n
  BY <1>1, OfFile
<1>3. ASSUME NEW q \in read', q.datagram = r.datagram, Plain(q)'
      PROVE  r.datagram \notin shown /\ \A t \in read : t.datagram = r.datagram => Plain(t)
  <2>1. \A t \in read : t.datagram = r.datagram => Plain(t)
    BY <1>3 DEF Plain
  <2> SUFFICES ASSUME r.datagram \in shown PROVE FALSE
    BY <2>1
  <2>2. PICK t \in read : t.datagram = r.datagram
    BY DEF ShownInv
  <2>3. Covered(t) /\ t.count = n
    BY <1>1, <1>2, <2>1, <2>2 DEF Handled
  <2>4. PICK s \in read : s.datagram = r.datagram /\ s.nr = r.nr
    BY <1>2, <2>2, <2>3 DEF Covered
  <2>5. s = r
    BY <1>1, <2>4, FilesAssumption
  <2> QED BY <2>4, <2>5
<1>4. /\ all \in SUBSET file /\ \A s \in all : s.datagram = r.datagram
      /\ \A s \in all : s.count = n /\ s.nr \in 1 .. n
  BY <1>1, <1>2 DEF Of
<1>5. /\ Cardinality(1 .. n) = n
      /\ Cardinality(all) = n <=> \A k \in 1 .. n : \E s \in all : s.nr = k
  <2>1. Cardinality(1 .. n) = n
    BY <1>2, FS_Interval
  <2>2. \A s, t \in all : s.datagram = t.datagram
    BY <1>4
  <2>3. 1 \in Int /\ n \in Int /\ \A s \in all : s.nr \in 1 .. n
    BY <1>2, <1>4
  <2> HIDE DEF all, n
  <2>4. Cardinality(all) = Cardinality(1 .. n) <=> \A k \in 1 .. n : \E s \in all : s.nr = k
    BY <1>1, <1>4, <2>2, <2>3, Numbers
  <2> QED BY <2>1, <2>4
<1>6. ASSUME IsFragmented(r)
      PROVE  /\ Cardinality(middle) \in Nat /\ Cardinality(middle) <= n - 2
             /\ Cardinality(all) = n => Cardinality(middle) = n - 2
  <2>1. n >= 2 /\ 2 \in Int /\ n - 1 \in Int
    BY <1>2, <1>6 DEF IsFragmented
  <2>2. Cardinality(2 .. n - 1) = n - 2
    BY <1>2, <2>1, FS_Interval
  <2>3. /\ middle \in SUBSET file /\ \A s, t \in middle : s.datagram = t.datagram
        /\ \A s \in middle : s.nr \in 2 .. n - 1
    BY <1>2, <1>4
  <2>4. (\A k \in 1 .. n : \E s \in all : s.nr = k) =>
          \A k \in 2 .. n - 1 : \E s \in middle : s.nr = k
    <3> SUFFICES ASSUME \A k \in 1 .. n : \E s \in all : s.nr = k, NEW k \in 2 .. n - 1
                 PROVE  \E s \in middle : s.nr = k
      OBVIOUS
    <3>1. k \in 1 .. n /\ k # 1 /\ k # n
      BY <1>2
    <3>2. PICK s \in all : s.nr = k
      BY <3>1
    <3>3. s \in middle
      BY <1>4, <3>1, <3>2
    <3> QED BY <3>2, <3>3
  <2> HIDE DEF middle, all, n
  <2>5. /\ IsFiniteSet(middle)
        /\ Cardinality(middle) <= Cardinality(2 .. n - 1)
        /\ Cardinality(middle) = Cardinality(2 .. n - 1) <=>
             \A k \in 2 .. n - 1 : \E s \in middle : s.nr = k
    BY <1>1, <2>1, <2>3, Numbers
  <2>6. Cardinality(middle) \in Nat
    BY <2>5, FS_CardinalityType
  <2> QED BY <1>5, <2>2, <2>4, <2>5, <2>6
<1>7. /\ all \subseteq read'
      /\ \A q \in read : q.datagram # r.datagram => q \notin all
  BY <1>1 DEF Of
(* The other datagrams keep what they have.                                *)
<1>8. ASSUME NEW q \in read, q.datagram # r.datagram, tbl \ all \subseteq tbl',
             q.datagram \in shown' <=> q.datagram \in shown
      PROVE  Handled(q)'
  <2>1. (Covered(q)' <=> Covered(q)) /\ (Plain(q)' <=> Plain(q))
    BY <1>8 DEF Covered, Plain
  <2>2. q \in tbl => q \in tbl'
    BY <1>7, <1>8
  <2>3. Fragment(q)' <=> Fragment(q)
    BY DEF Fragment, IsIpv4, IsFragmented
  <2> HIDE DEF all
  <2> QED BY <1>0, <1>8, <2>1, <2>2, <2>3 DEF Handled
<1>9. Stretched(all) => \A q \in read' : q.datagram = r.datagram => ~Plain(q)'
  BY <1>4, <1>7 DEF Stretched, Plain
<1>10. CASE /\ ~Fragment(r) /\ UNCHANGED <<tbl, dr, shown>>
  <2>1. ASSUME NEW q \in read', q.datagram = r.datagram
        PROVE  Handled(q)'
    <3> SUFFICES ASSUME Plain(q)' PROVE Handled(q)'
      BY DEF Handled
    <3>1. q.datagram \notin shown'
      BY <1>3, <1>10, <2>1
    <3>2. ~Fragment(q)'
      BY <1>1, <1>2, <1>10, <2>1 DEF Fragment, IsIpv4, IsFragmented
    <3> QED BY <3>1, <3>2 DEF Handled
  <2>2. \A q \in read : q.datagram # r.datagram => Handled(q)'
    BY <1>8, <1>10
  <2> QED BY <1>10, <2>1, <2>2 DEF ShownInv
<1>11. CASE /\ Fragment(r) /\ Cardinality(middle) > MaxFrag - 2
            /\ tbl' = tbl \ all /\ UNCHANGED <<lost, shown>>
  <2>1. n > MaxFrag
    <3> HIDE DEF middle, all, n
    <3> QED BY <1>1, <1>2, <1>6, <1>11 DEF Fragment
  <2>2. ASSUME NEW q \in read', q.datagram = r.datagram
        PROVE  Handled(q)'
    <3> SUFFICES ASSUME Plain(q)' PROVE Handled(q)'
      BY DEF Handled
    <3>1. q.count = n /\ q.datagram \notin shown'
      BY <1>1, <1>2, <1>3, <1>11, <2>2
    <3>2. ~(q.count <= MaxFrag)
      BY <1>1, <1>2, <2>1, <3>1
    <3> QED BY <3>1, <3>2 DEF Handled
  <2>3. \A q \in read : q.datagram # r.datagram => Handled(q)'
    BY <1>8, <1>11
  <2> QED BY <1>11, <2>2, <2>3 DEF ShownInv
<1>12. CASE /\ Fragment(r) /\ ~(Cardinality(middle) > MaxFrag - 2) /\ Cardinality(all) = n
            /\ tbl' = tbl \ all /\ shown' = shown \cup {r.datagram}
  <2>1. n <= MaxFrag /\ n > 1
    <3>1. IsFragmented(r)
      BY <1>12 DEF Fragment
    <3>2. Cardinality(middle) = n - 2
      BY <1>6, <1>12, <3>1
    <3>3. n > 1
      BY <3>1 DEF IsFragmented
    <3> HIDE DEF middle, all, n
    <3> QED BY <1>1, <1>2, <1>12, <3>2, <3>3
  <2>2. \A k \in 1 .. n : \E s \in all : s.nr = k
    BY <1>5, <1>12
  <2>3. ASSUME NEW q \in read', q.datagram = r.datagram
        PROVE  Handled(q)'
    <3>1. q.count = n /\ Fragment(q)' /\ q.datagram \in shown'
      BY <1>1, <1>2, <1>12, <2>3 DEF Fragment, IsIpv4, IsFragmented
    <3>2. Covered(q)'
      BY <1>4, <1>7, <2>2, <2>3, <3>1 DEF Covered
    <3> HIDE DEF all, middle
    <3> QED BY <2>1, <3>1, <3>2 DEF Handled
  <2>4. \A q \in read : q.datagram # r.datagram => Handled(q)'
    BY <1>8, <1>12
  <2>5. shown' \subseteq {q.datagram : q \in {s \in read' : s.count > 1}}
    BY <1>12, <2>1 DEF ShownInv
  <2> QED BY <2>3, <2>4, <2>5
<1>13. CASE /\ Fragment(r) /\ ~(Cardinality(all) = n)
            /\ tbl' = tbl \cup {r} /\ UNCHANGED <<dr, lost, shown>>
  <2>1. PICK k \in 1 .. n : \A s \in all : s.nr # k
    BY <1>5, <1>13
  <2>2. ASSUME NEW q \in read', q.datagram = r.datagram
        PROVE  Handled(q)'
    <3> SUFFICES ASSUME Plain(q)', q.count <= MaxFrag PROVE Handled(q)'
      BY <1>3, <1>13, <2>2 DEF Handled
    <3>1. q.count = n /\ q.datagram \notin shown' /\ q.datagram \notin shown
      BY <1>1, <1>2, <1>3, <1>13, <2>2
    <3>2. ASSUME NEW s \in read, s.datagram = r.datagram
          PROVE  s \in tbl
      <4>1. Fragment(s) /\ s.count <= MaxFrag
        BY <1>1, <1>2, <1>13, <3>1, <3>2 DEF Fragment, IsFragmented
      <4> QED BY <1>0, <1>3, <2>2, <3>1, <3>2, <4>1 DEF Handled
    <3>3. q \in tbl'
      BY <1>13, <2>2, <3>2
    <3>4. ~Covered(q)'
      <4>1. \A s \in read' : s.datagram = q.datagram => s \in all
        BY <2>2, <3>2 DEF Of
      <4> HIDE DEF all
      <4> QED BY <2>1, <3>1, <4>1 DEF Covered
    <3> HIDE DEF all
    <3> QED BY <3>1, <3>3, <3>4 DEF Handled
  <2>3. \A q \in read : q.datagram # r.datagram => Handled(q)'
    BY <1>8, <1>13
  <2> QED BY <1>13, <2>2, <2>3 DEF ShownInv
(* Options that count as payload: the datagram is not plain any more.      *)
<1>14. CASE /\ Fragment(r) /\ Stretched(all) /\ tbl' = tbl \ all
            /\ shown' \in {shown, shown \cup {r.datagram}}
  <2>1. \A q \in read' : q.datagram = r.datagram => Handled(q)'
    BY <1>9, <1>14 DEF Handled
  <2>2. \A q \in read : q.datagram # r.datagram => Handled(q)'
    BY <1>8, <1>14
  <2>3. shown' \subseteq {q.datagram : q \in {s \in read' : s.count > 1}}
    BY <1>14 DEF ShownInv, Fragment, IsFragmented
  <2> QED BY <2>1, <2>2, <2>3
<1> HIDE DEF n
<1>15. ASSUME Fragment(r), reassemble_packet(r)
       PROVE  \/ /\ Cardinality(middle) > MaxFrag - 2
                 /\ tbl' = tbl \ all /\ UNCHANGED <<lost, shown>>
              \/ /\ ~(Cardinality(middle) > MaxFrag - 2) /\ Cardinality(all) = n
                 /\ tbl' = tbl \ all /\ shown' = shown \cup {r.datagram}
              \/ /\ ~(Cardinality(all) = n)
                 /\ tbl' = tbl \cup {r} /\ UNCHANGED <<dr, lost, shown>>
              \/ /\ Stretched(all) /\ tbl' = tbl \ all
                 /\ shown' \in {shown, shown \cup {r.datagram}}
  BY <1>15, Zenon DEF reassemble_packet, n
<1> HIDE DEF all, middle
<1> QED BY <1>10, <1>11, <1>12, <1>13, <1>14, <1>15, Zenon DEF packet, Fragment

(* Every step preserves it; only recvpkt() changes it. *)
LEMMA ShownStep == IpInv /\ ShownInv /\ [Next]_vars => ShownInv'
<1> SUFFICES ASSUME IpInv, ShownInv, [Next]_vars PROVE ShownInv'
  OBVIOUS
<1> DEFINE Same == UNCHANGED <<file, read, shown>> /\ eof' \in BOOLEAN
<1>1. ASSUME Same, pc \in Running, pc' \in Running => UNCHANGED tbl,
             pc' \in Running \cup {"returned", "exited", "crashed", "damaged"}
      PROVE  ShownInv'
  <2>1. \A r \in read : Handled(r)
    BY <1>1 DEF ShownInv, Running, Setup
  <2>2. ASSUME NEW r \in read' PROVE Handled(r)'
    <3>1. /\ Covered(r)' <=> Covered(r)
          /\ Plain(r)' <=> Plain(r)
          /\ Fragment(r)' <=> Fragment(r)
      BY <1>1 DEF Covered, Plain, Fragment, IsIpv4, IsFragmented
    <3> QED BY <1>1, <2>1, <2>2, <3>1 DEF Handled
  <2> QED BY <1>1, <2>2 DEF ShownInv
<1>2. CASE main_setup
  <2>1. pc \in Running /\ pc' \in Running \cup {"exited"}
    BY <1>2 DEF main_setup, Setup, Running
  <2>2. Same /\ UNCHANGED tbl
    BY <1>2 DEF main_setup, ShownInv
  <2> QED BY <1>1, <2>1, <2>2
<1>3. CASE main_end
  <2>1. pc \in Running /\ pc' = "returned" /\ pc' \notin Running
    BY <1>3 DEF main_end, Setup, Running
  <2>2. Same
    BY <1>3 DEF main_end, ShownInv
  <2> QED BY <1>1, <2>1, <2>2
<1>4. CASE recvpkt /\ recvpkt_eof
  <2>1. UNCHANGED <<file, read, tbl, shown>> /\ eof' = TRUE /\ pc = "recvpkt"
        /\ pc' \in {"recvpkt", "crashed"}
    BY <1>4 DEF recvpkt, recvpkt_eof
  <2>2. pc \in Running /\ pc' \in Running \cup {"crashed"}
    BY <2>1 DEF Running
  <2> QED BY <1>1, <2>1, <2>2
<1>5. CASE recvpkt /\ recvpkt_record
  <2>1. PICK r \in file \ read :
        /\ read' = read \cup {r} /\ UNCHANGED <<file, eof>>
        /\ IF free = 0
           THEN pc' = "crashed" /\ UNCHANGED <<free, tbl, dr, lost, shown>>
           ELSE /\ free' = free - 1
                /\ \/ packet(r) /\ r.size # "long" /\ UNCHANGED pc
                   \/ /\ r.size \in {"cut", "long"}
                      /\ pc' = IF r.size = "cut" THEN "crashed" ELSE "damaged"
                      /\ lost' = lost + 1 /\ UNCHANGED <<tbl, dr, shown>>
    BY <1>5, Zenon DEF recvpkt_record
  <2>2. CASE pc' \in {"crashed", "damaged"} /\ UNCHANGED shown
    BY <2>1, <2>2 DEF ShownInv
  <2>3. CASE packet(r) /\ UNCHANGED pc
    <3>1. pc = "recvpkt" /\ \A q \in read : Handled(q)
      BY <1>5 DEF recvpkt, ShownInv
    <3>2. /\ \A q \in read' : Handled(q)'
          /\ shown' \subseteq {q.datagram : q \in {s \in read' : s.count > 1}}
      BY <2>1, <2>3, <3>1, PacketHandled
    <3>3. file' = file /\ eof' = eof /\ read' \subseteq file'
      BY <2>1 DEF ShownInv
    <3> QED BY <2>3, <3>1, <3>2, <3>3 DEF ShownInv
  <2> QED BY <2>1, <2>2, <2>3
<1>6. CASE UNCHANGED vars
  BY <1>6 DEF vars, ShownInv, Handled, Covered, Plain, Fragment, IsIpv4, IsFragmented
<1> QED BY <1>2, <1>3, <1>4, <1>5, <1>6 DEF Next, recvpkt

(* Nothing has been read initially. *)
LEMMA ShownInit == Init => ShownInv
BY DEF Init, ShownInv, Running, Setup

(* Type correctness, for any files, pool and table.                        *)
THEOREM IpTypeCorrect == Spec => []TypeOK
<1>1. IpInv /\ ShownInv => TypeOK
  <2> SUFFICES ASSUME IpInv, ShownInv PROVE TypeOK
    OBVIOUS
  <2>1. Cardinality(tbl) \in Nat /\ Cardinality(dr) \in Nat
    BY FS_CardinalityType DEF IpInv, MbufInv
  <2>2. free \in 0 .. PoolSize /\ lost \in 0 .. PoolSize
    BY <2>1, Sizes DEF IpInv, MbufInv, MbufsAccounted
  <2>3. calls \in Nat /\ tbl \subseteq read /\ dr \subseteq read
    BY DEF IpInv, CallsInv, MbufInv
  <2> QED BY <2>2, <2>3 DEF ShownInv, TypeOK, Running
<1> QED BY <1>1, IpInit, IpStep, ShownInit, ShownStep, PTL DEF Spec

(* main() reports exactly the complete datagrams of up to MaxFrag          *)
(* fragments, in whatever order the records come, among those without IP   *)
(* options before the last fragment.                                       *)
THEOREM CompleteDatagramsShown == Spec => []CompleteAreShown
<1>1. IpInv /\ ShownInv => CompleteAreShown
  <2> SUFFICES ASSUME IpInv, ShownInv, pc = "returned", NEW r \in file, Plain(r)
               PROVE  r.datagram \in shown <=>
                        /\ r.ether_type = 2048 /\ r.count \in 2 .. MaxFrag
                        /\ Covered(r)
    BY Zenon DEF CompleteAreShown, Plain, Covered
  <2>1. file \in Files /\ read \subseteq file /\ MaxFrag \in Nat
        /\ \A q \in read : Handled(q)
    BY IpReassemblyAssumption DEF ShownInv
  <2>2. /\ r.count \in Nat /\ r.count >= 1 /\ r.nr \in 1 .. r.count
        /\ \A s \in file : s.datagram = r.datagram =>
              s.count = r.count /\ (IsIpv4(s) <=> IsIpv4(r)) /\ s.nr \in 1 .. r.count
    BY <2>1, OfFile
  <2>3. ASSUME r.datagram \in shown
        PROVE  r.ether_type = 2048 /\ r.count \in 2 .. MaxFrag /\ Covered(r)
    <3>1. PICK q \in read : q.datagram = r.datagram
      BY <2>3 DEF ShownInv
    <3>2. Plain(q)
      BY <3>1 DEF Plain
    <3>3. Fragment(q) /\ q.count <= MaxFrag /\ Covered(q) /\ q.count = r.count
          /\ (IsIpv4(q) <=> IsIpv4(r))
      BY <2>1, <2>2, <2>3, <3>1, <3>2 DEF Handled
    <3>4. Covered(r)
      BY <3>1, <3>3 DEF Covered
    <3>5. IsIpv4(r) /\ r.count > 1 /\ r.count <= MaxFrag
      BY <3>3 DEF Fragment, IsFragmented
    <3> QED BY <2>1, <2>2, <3>4, <3>5 DEF IsIpv4
  <2>4. ASSUME r.ether_type = 2048, r.count \in 2 .. MaxFrag, Covered(r), r.datagram \notin shown
        PROVE  FALSE
    <3>1. PICK t \in read : t.datagram = r.datagram /\ t.nr = r.nr
      BY <2>2, <2>4 DEF Covered
    <3>2. r \in read
      BY <2>1, <3>1, FilesAssumption
    <3>3. Fragment(r) /\ r.count <= MaxFrag
      BY <2>1, <2>2, <2>4 DEF Fragment, IsIpv4, IsFragmented
    <3> QED BY <2>1, <2>4, <3>2, <3>3 DEF Handled
  <2> QED BY <2>3, <2>4
<1> QED BY <1>1, IpInit, IpStep, ShownInit, ShownStep, PTL DEF Spec

=============================================================================
