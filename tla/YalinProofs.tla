---------------------------- MODULE YalinProofs ----------------------------
(***************************************************************************)
(* Theorems about YALIN's listener for a buffer of any size, whatever it   *)
(* holds at first, and any datagrams the kernel can build.                 *)
(*                                                                         *)
(* The argument: how messages are laid out in a datagram (FlattenSeq), how *)
(* the walk over the attributes of a message goes from one to the next in  *)
(* the buffer, what a dump shows because of that, the invariant of the     *)
(* listener, by which every dump starts at a message, and the step of the  *)
(* monitor that each of its steps is.                                      *)
(***************************************************************************)
EXTENDS Yalin, SequenceLemmas

-----------------------------------------------------------------------------
(* The layout of messages.                                                 *)

(* The messages of DatagramAssumption. *)
Msgs ==
  {m \in [kind : Kind, attrs : Seq(Nat), fill : Nat, family : Nat, accepted : BOOLEAN] :
     \A j \in DOMAIN m.attrs : m.attrs[j] >= 4}

(* Rounding up to words. *)
LEMMA AlignType ==
  ASSUME NEW n \in Nat
  PROVE  /\ Align(n) \in Nat /\ Align(n) \div 4 \in Nat /\ 4 * (Align(n) \div 4) = Align(n)
         /\ n <= Align(n) /\ (n >= 1 => Align(n) >= 4)
         /\ \A k \in Nat : n <= 4 * k => Align(n) <= 4 * k
BY DEF Align

LEMMA AlignPositive ==
  \A n \in Nat : n >= 4 => Align(n) \div 4 \in Nat /\ Align(n) \div 4 >= 1
BY DEF Align

LEMMA FixedType ==
  ASSUME NEW kind \in Kind
  PROVE  /\ FixedLen(kind) \in {8, 12, 16}
         /\ Slack(kind) \in {0, 4, 8} /\ Slack(kind) = FixedLen(kind) - 8
BY DEF Kind, FixedLen, Slack

LEMMA MsgsOfDatagram ==
  ASSUME NEW d \in Datagram
  PROVE  d \in Seq(Msgs) /\ Len(d) \in Nat /\ Len(d) >= 1 /\ DOMAIN d = 1 .. Len(d)
<1> DEFINE R == [kind : Kind, attrs : Seq(Nat), fill : Nat, family : Nat, accepted : BOOLEAN]
<1>1. /\ d # <<>> /\ d \in Seq(R)
      /\ \A i \in DOMAIN d : \A j \in DOMAIN d[i].attrs : d[i].attrs[j] >= 4
  BY DatagramAssumption
<1>2. \A i \in DOMAIN d : d[i] \in Msgs
  <2>1. \A m \in R : (\A j \in DOMAIN m.attrs : m.attrs[j] >= 4) => m \in Msgs
    BY DEF Msgs
  <2> HIDE DEF R
  <2>2. \A i \in DOMAIN d : d[i] \in R
    BY <1>1
  <2> QED BY <1>1, <2>1, <2>2
<1> HIDE DEF R
<1>3. d \in Seq(Msgs)
  BY <1>1, <1>2
<1>4. Len(d) \in Nat /\ Len(d) >= 1 /\ DOMAIN d = 1 .. Len(d)
  BY <1>1
<1> QED BY <1>3, <1>4

(* The attributes of a message as words, one sequence for each. *)
AttrSeqs(m) == [j \in DOMAIN m.attrs |-> AttrWords(m, m.attrs[j])]

(* The words of the attributes of m before the j-th. *)
AttrAt(m, j) == Len(FlattenSeq(SubSeq(AttrSeqs(m), 1, j - 1)))

LEMMA AttrType ==
  ASSUME NEW m \in Msgs, NEW n \in Nat, n >= 4
  PROVE  /\ AttrWords(m, n) \in Seq(Nat)
         /\ 4 * Len(AttrWords(m, n)) = Align(n)
         /\ AttrWords(m, n)[1] = n
<1>1. m.fill \in Nat
  BY DEF Msgs
<1>2. PICK k \in Nat : k = (Align(n) - 4) \div 4 /\ Align(n) = 4 * k + 4
  <2>1. PICK a \in Nat : a = Align(n) /\ a = 4 * (a \div 4) /\ a >= 4
    BY AlignType
  <2>2. (a - 4) \div 4 \in Nat /\ a = 4 * ((a - 4) \div 4) + 4
    BY <2>1
  <2> QED BY <2>1, <2>2
<1>3. PICK r \in Seq(Nat) : r = Repeat(m.fill, Align(n) - 4) /\ Len(r) = k
  <2>1. [i \in 1 .. k |-> m.fill] \in Seq(Nat)
    BY <1>1
  <2>2. Len([i \in 1 .. k |-> m.fill]) = k
    OBVIOUS
  <2> QED BY <1>2, <2>1, <2>2 DEF Repeat
<1>4. AttrWords(m, n) = <<n>> \o r
  BY <1>3 DEF AttrWords
<1>5. <<n>> \o r \in Seq(Nat) /\ Len(<<n>> \o r) = 1 + k /\ (<<n>> \o r)[1] = n
  BY <1>3
<1>6. PICK w \in Seq(Nat) : w = AttrWords(m, n) /\ Len(w) = 1 + k /\ w[1] = n
  BY <1>4, <1>5
<1>7. 4 * Len(w) = Align(n)
  <2>1. Align(n) = 4 * k + 4 /\ Len(w) = 1 + k
    BY <1>2, <1>6
  <2> QED BY <2>1
<1> QED BY <1>6, <1>7

LEMMA AttrSeqsType ==
  ASSUME NEW m \in Msgs
  PROVE  /\ m.kind \in Kind /\ m.fill \in Nat /\ m.attrs \in Seq(Nat) /\ Len(m.attrs) \in Nat
         /\ \A j \in 1 .. Len(m.attrs) : m.attrs[j] \in Nat /\ m.attrs[j] >= 4
         /\ AttrSeqs(m) \in Seq(Seq(Nat)) /\ Len(AttrSeqs(m)) = Len(m.attrs)
         /\ \A j \in 1 .. Len(m.attrs) : AttrSeqs(m)[j] = AttrWords(m, m.attrs[j])
         /\ AttrsWords(m) = FlattenSeq(AttrSeqs(m)) /\ AttrsWords(m) \in Seq(Nat)
<1>1. /\ m.kind \in Kind /\ m.fill \in Nat /\ m.attrs \in Seq(Nat) /\ Len(m.attrs) \in Nat
      /\ DOMAIN m.attrs = 1 .. Len(m.attrs)
      /\ \A j \in 1 .. Len(m.attrs) : m.attrs[j] \in Nat /\ m.attrs[j] >= 4
  BY DEF Msgs
<1>2. \A j \in 1 .. Len(m.attrs) : AttrWords(m, m.attrs[j]) \in Seq(Nat)
  BY <1>1, AttrType
<1>3. AttrSeqs(m) = [j \in 1 .. Len(m.attrs) |-> AttrWords(m, m.attrs[j])]
  BY <1>1 DEF AttrSeqs
<1>4. AttrSeqs(m) \in Seq(Seq(Nat)) /\ Len(AttrSeqs(m)) = Len(m.attrs)
  BY <1>1, <1>2, <1>3
<1>5. \A j \in 1 .. Len(m.attrs) : AttrSeqs(m)[j] = AttrWords(m, m.attrs[j])
  BY <1>3
<1>6. AttrsWords(m) = FlattenSeq(AttrSeqs(m)) /\ AttrsWords(m) \in Seq(Nat)
  BY <1>4, FlattenType DEF AttrsWords, AttrSeqs
<1> QED BY <1>1, <1>4, <1>5, <1>6

(* Attributes follow each other and each begins with its length. *)
LEMMA AttrLayout ==
  ASSUME NEW m \in Msgs
  PROVE  /\ Len(AttrsWords(m)) \in Nat
         /\ AttrAt(m, 1) = 0 /\ AttrAt(m, Len(m.attrs) + 1) = Len(AttrsWords(m))
         /\ \A j \in 1 .. Len(m.attrs) :
              /\ AttrAt(m, j) \in Nat /\ AttrAt(m, j + 1) \in Nat
              /\ 4 * AttrAt(m, j + 1) = 4 * AttrAt(m, j) + Align(m.attrs[j])
              /\ AttrAt(m, j + 1) <= Len(AttrsWords(m))
              /\ AttrsWords(m)[AttrAt(m, j) + 1] = m.attrs[j]
<1> DEFINE ss == AttrSeqs(m)
           L == Len(m.attrs)
<1>1. /\ L \in Nat /\ ss \in Seq(Seq(Nat)) /\ Len(ss) = L
      /\ \A j \in 1 .. L : ss[j] = AttrWords(m, m.attrs[j])
      /\ \A j \in 1 .. L : m.attrs[j] \in Nat /\ m.attrs[j] >= 4
      /\ AttrsWords(m) = FlattenSeq(ss) /\ AttrsWords(m) \in Seq(Nat)
  BY AttrSeqsType
<1> HIDE DEF ss, L
<1>2. AttrAt(m, 1) = 0
  <2>1. SubSeq(ss, 1, 1 - 1) = <<>>
    BY SubSeqEmpty
  <2>2. Len(FlattenSeq(<<>>)) = 0
    BY FlattenEmpty
  <2> QED BY <2>1, <2>2, Zenon DEF AttrAt, ss
<1>3. AttrAt(m, L + 1) = Len(AttrsWords(m))
  <2>1. (L + 1) - 1 = Len(ss)
    BY <1>1
  <2>2. SubSeq(ss, 1, (L + 1) - 1) = ss
    BY <1>1, <2>1, SubSeqFull
  <2> QED BY <1>1, <2>2 DEF AttrAt, ss
<1>4. ASSUME NEW j \in 1 .. L
      PROVE  /\ AttrAt(m, j) \in Nat /\ AttrAt(m, j + 1) \in Nat
             /\ 4 * AttrAt(m, j + 1) = 4 * AttrAt(m, j) + Align(m.attrs[j])
             /\ AttrAt(m, j + 1) <= Len(AttrsWords(m))
             /\ AttrsWords(m)[AttrAt(m, j) + 1] = m.attrs[j]
  <2>1. PICK w \in Seq(Nat) :
          /\ w = ss[j] /\ 4 * Len(w) = Align(m.attrs[j]) /\ w[1] = m.attrs[j] /\ Len(w) >= 1
    <3>1. PICK n \in Nat : n = m.attrs[j] /\ n >= 4
      BY <1>1
    <3>2. PICK w \in Seq(Nat) : w = AttrWords(m, n) /\ 4 * Len(w) = Align(n) /\ w[1] = n
      BY <3>1, AttrType
    <3>3. Align(n) \in Nat /\ n <= Align(n)
      BY AlignType
    <3>4. Len(w) >= 1
      BY <3>1, <3>2, <3>3
    <3> QED BY <1>1, <3>1, <3>2, <3>4
  <2>2. (j + 1) - 1 = j /\ j \in 1 .. Len(ss) /\ 1 \in 1 .. Len(w)
    BY <1>1, <2>1
  <2>3. PICK a \in Seq(Nat) : a = FlattenSeq(SubSeq(ss, 1, j - 1))
    BY <1>1, <2>2, FlattenSplit
  <2>4. PICK b \in Seq(Nat) : b = FlattenSeq(SubSeq(ss, 1, j))
    BY <1>1, <2>2, FlattenSplit
  <2>5. PICK f \in Seq(Nat) : f = FlattenSeq(ss) /\ f = AttrsWords(m)
    BY <1>1
  <2>7. /\ Len(b) = Len(a) + Len(w) /\ Len(b) <= Len(f)
        /\ \A i \in 1 .. Len(w) : f[Len(a) + i] = w[i]
    <3>1. ss \in Seq(Seq(Nat))
      BY <1>1
    <3>2. /\ Len(FlattenSeq(SubSeq(ss, 1, j))) = Len(FlattenSeq(SubSeq(ss, 1, j - 1))) + Len(ss[j])
          /\ Len(FlattenSeq(SubSeq(ss, 1, j))) <= Len(FlattenSeq(ss))
          /\ \A i \in 1 .. Len(ss[j]) :
               FlattenSeq(ss)[Len(FlattenSeq(SubSeq(ss, 1, j - 1))) + i] = ss[j][i]
      BY <2>2, <3>1, FlattenSplit
    <3> QED BY <2>1, <2>3, <2>4, <2>5, <3>2
  <2>6. AttrAt(m, j) = Len(a) /\ AttrAt(m, j + 1) = Len(b)
    BY <2>2, <2>3, <2>4 DEF AttrAt, ss
  <2>8. f[Len(a) + 1] = w[1]
    BY <2>2, <2>7
  <2>9. 4 * Len(b) = 4 * Len(a) + 4 * Len(w)
    BY <2>7
  <2>10. AttrAt(m, j) \in Nat /\ AttrAt(m, j + 1) \in Nat
    BY <2>6
  <2>11. 4 * AttrAt(m, j + 1) = 4 * AttrAt(m, j) + Align(m.attrs[j])
    BY <2>1, <2>6, <2>9
  <2>12. /\ AttrAt(m, j + 1) <= Len(AttrsWords(m))
         /\ AttrsWords(m)[AttrAt(m, j) + 1] = m.attrs[j]
    BY <2>1, <2>5, <2>6, <2>7, <2>8
  <2> QED BY <2>10, <2>11, <2>12
<1> QED BY <1>1, <1>2, <1>3, <1>4 DEF L

(* Words before the attributes of a message. *)
HeadWords(m) == (HdrLen + FixedLen(m.kind)) \div 4

(* A message begins with its length, and its attributes follow the fixed   *)
(* part.                                                                   *)
LEMMA MsgLayout ==
  ASSUME NEW m \in Msgs
  PROVE  /\ MsgWords(m) \in Seq(Nat)
         /\ MsgLen(m) \in Nat /\ MsgLen(m) = 4 * Len(MsgWords(m))
         /\ MsgWords(m)[1] = MsgLen(m)
         /\ HeadWords(m) \in Nat /\ 4 * HeadWords(m) = HdrLen + FixedLen(m.kind)
         /\ HeadWords(m) >= 6
         /\ Len(MsgWords(m)) = HeadWords(m) + Len(AttrsWords(m))
         /\ \A q \in 1 .. Len(AttrsWords(m)) :
              MsgWords(m)[HeadWords(m) + q] = AttrsWords(m)[q]
<1>1. PICK a \in Seq(Nat) : a = AttrsWords(m)
  BY AttrSeqsType
<1>2. PICK k \in Nat : /\ HeadWords(m) = k + 1 /\ k >= 5
                       /\ (HdrLen + FixedLen(m.kind) - 4) \div 4 = k
                       /\ HdrLen + FixedLen(m.kind) = 4 * (k + 1)
  <2>1. FixedLen(m.kind) \in {8, 12, 16}
    BY AttrSeqsType, FixedType
  <2> QED BY <2>1 DEF HeadWords, HdrLen
<1>3. PICK r \in Seq(Nat) : r = Repeat(m.fill, HdrLen + FixedLen(m.kind) - 4) /\ Len(r) = k
  <2>1. [i \in 1 .. k |-> m.fill] \in Seq(Nat)
    BY AttrSeqsType
  <2>2. Len([i \in 1 .. k |-> m.fill]) = k
    OBVIOUS
  <2> QED BY <1>2, <2>1, <2>2 DEF Repeat
<1>4. PICK l \in Nat : l = MsgLen(m) /\ l = 4 * (k + 1) + 4 * Len(a)
  BY <1>1, <1>2 DEF MsgLen
<1>5. MsgWords(m) = <<l>> \o r \o a
  BY <1>1, <1>3, <1>4 DEF MsgWords
<1>6. /\ <<l>> \o r \in Seq(Nat) /\ Len(<<l>> \o r) = k + 1 /\ (<<l>> \o r)[1] = l
  BY <1>3
<1>7. PICK b \in Seq(Nat) : b = <<l>> \o r /\ Len(b) = k + 1 /\ b[1] = l
  BY <1>6
<1>8. PICK w \in Seq(Nat) :
        /\ w = b \o a /\ Len(w) = k + 1 + Len(a) /\ w[1] = l
        /\ \A q \in 1 .. Len(a) : w[k + 1 + q] = a[q]
  <2>0. Len(b) = k + 1 /\ b[1] = l
    BY <1>7
  <2>1. b \o a \in Seq(Nat) /\ Len(b \o a) = k + 1 + Len(a)
    BY <2>0, ConcatProperties
  <2>2. (b \o a)[1] = l
    BY <2>0
  <2>3. \A q \in 1 .. Len(a) : (b \o a)[k + 1 + q] = a[q]
    BY <2>0
  <2> QED BY <2>1, <2>2, <2>3
<1>9. w = MsgWords(m)
  BY <1>5, <1>7, <1>8
<1>10. l = 4 * Len(w) /\ Len(w) = (k + 1) + Len(a) /\ k + 1 \in Nat /\ k + 1 >= 6
  BY <1>2, <1>4, <1>8
<1> QED BY <1>1, <1>2, <1>4, <1>8, <1>9, <1>10

(* The messages of a datagram as words, one sequence for each. *)
MsgSeqs(d) == [i \in DOMAIN d |-> MsgWords(d[i])]

LEMMA MsgSeqsType ==
  ASSUME NEW d \in Seq(Msgs)
  PROVE  /\ MsgSeqs(d) \in Seq(Seq(Nat)) /\ Len(MsgSeqs(d)) = Len(d)
         /\ \A i \in 1 .. Len(d) : MsgSeqs(d)[i] = MsgWords(d[i])
         /\ DatagramWords(d) = FlattenSeq(MsgSeqs(d)) /\ DatagramWords(d) \in Seq(Nat)
<1>1. Len(d) \in Nat /\ DOMAIN d = 1 .. Len(d) /\ \A i \in 1 .. Len(d) : d[i] \in Msgs
  OBVIOUS
<1>2. \A i \in 1 .. Len(d) : MsgWords(d[i]) \in Seq(Nat)
  BY <1>1, MsgLayout
<1>3. MsgSeqs(d) = [i \in 1 .. Len(d) |-> MsgWords(d[i])]
  BY <1>1 DEF MsgSeqs
<1>4. MsgSeqs(d) \in Seq(Seq(Nat)) /\ Len(MsgSeqs(d)) = Len(d)
  BY <1>1, <1>2, <1>3
<1>5. \A i \in 1 .. Len(d) : MsgSeqs(d)[i] = MsgWords(d[i])
  BY <1>3
<1>6. DatagramWords(d) = FlattenSeq(MsgSeqs(d)) /\ DatagramWords(d) \in Seq(Nat)
  BY <1>4, FlattenType DEF DatagramWords, MsgSeqs
<1> QED BY <1>4, <1>5, <1>6

(* A message starts where the words of those before it end. *)
LEMMA StartIs ==
  ASSUME NEW d \in Datagram, NEW i \in 1 .. Len(d) + 1
  PROVE  Start(d, i) = 4 * Len(FlattenSeq(SubSeq(MsgSeqs(d), 1, i - 1)))
<1>1. d \in Seq(Msgs) /\ Len(d) \in Nat /\ i - 1 \in Nat /\ i - 1 <= Len(d)
  BY MsgsOfDatagram
<1>2. Start(d, i) = DatagramLen(SubSeq(d, 1, i - 1))
  BY DEF Start, Starts
<1>3. PICK k \in Nat : k = i - 1 /\ k <= Len(d)
  BY <1>1
<1>4. PICK e \in Seq(Msgs) :
        e = SubSeq(d, 1, k) /\ Len(e) = k /\ \A j \in 1 .. k : e[j] = d[j]
  <2>1. k <= Len(d)
    BY <1>3
  <2>2. /\ SubSeq(d, 1, k) \in Seq(Msgs) /\ Len(SubSeq(d, 1, k)) = k
        /\ \A j \in 1 .. k : SubSeq(d, 1, k)[j] = d[j]
    BY <1>1, <2>1, Prefix
  <2> QED BY <2>2
<1>5. MsgSeqs(e) = SubSeq(MsgSeqs(d), 1, k)
  <2>1. /\ MsgSeqs(e) \in Seq(Seq(Nat)) /\ Len(MsgSeqs(e)) = k
        /\ \A j \in 1 .. k : MsgSeqs(e)[j] = MsgWords(e[j])
    BY <1>4, MsgSeqsType
  <2>2. PICK ss \in Seq(Seq(Nat)) :
          ss = MsgSeqs(d) /\ Len(ss) = Len(d) /\ \A j \in 1 .. Len(d) : ss[j] = MsgWords(d[j])
    BY <1>1, MsgSeqsType
  <2>3. \A j \in 1 .. k : ss[j] \in Seq(Nat) /\ ss[j] = MsgWords(d[j])
    BY <1>1, <1>3, <2>2
  <2>4. PICK tt \in Seq(Seq(Nat)) :
          tt = SubSeq(ss, 1, k) /\ Len(tt) = k /\ \A j \in 1 .. k : tt[j] = ss[j]
    <3>1. k <= Len(ss)
      BY <1>3, <2>2
    <3>2. /\ SubSeq(ss, 1, k) \in Seq(Seq(Nat)) /\ Len(SubSeq(ss, 1, k)) = k
          /\ \A j \in 1 .. k : SubSeq(ss, 1, k)[j] = ss[j]
      BY <3>1, Prefix
    <3> QED BY <3>2
  <2>5. \A j \in 1 .. k : MsgSeqs(e)[j] = tt[j]
    BY <1>4, <2>1, <2>3, <2>4
  <2>6. MsgSeqs(e) = tt
    BY <2>1, <2>4, <2>5, SeqEqual
  <2> QED BY <2>2, <2>4, <2>6
<1>6. DatagramLen(e) = 4 * Len(FlattenSeq(MsgSeqs(e)))
  BY MsgSeqsType DEF DatagramLen
<1> QED BY <1>2, <1>3, <1>4, <1>5, <1>6

(* The messages of a datagram follow each other from its start to its end. *)
LEMMA Layout ==
  ASSUME NEW d \in Datagram
  PROVE  /\ DatagramWords(d) \in Seq(Nat) /\ Len(DatagramWords(d)) \in Nat
         /\ DatagramLen(d) = 4 * Len(DatagramWords(d)) /\ DatagramLen(d) \in Nat
         /\ Len(d) \in Nat /\ Len(d) >= 1 /\ DOMAIN d = 1 .. Len(d)
         /\ Start(d, 1) = 0 /\ Start(d, Len(d) + 1) = DatagramLen(d)
<1>1. /\ d \in Seq(Msgs) /\ Len(d) \in Nat /\ Len(d) >= 1 /\ DOMAIN d = 1 .. Len(d)
  BY MsgsOfDatagram
<1>2. PICK ss \in Seq(Seq(Nat)) :
        ss = MsgSeqs(d) /\ Len(ss) = Len(d) /\ DatagramWords(d) = FlattenSeq(ss)
  BY <1>1, MsgSeqsType
<1>3. PICK w \in Seq(Nat) : w = DatagramWords(d) /\ DatagramLen(d) = 4 * Len(w)
  BY <1>1, MsgSeqsType DEF DatagramLen
<1>4. Start(d, 1) = 0
  <2>1. SubSeq(ss, 1, 1 - 1) = <<>>
    BY SubSeqEmpty
  <2>2. Len(FlattenSeq(<<>>)) = 0
    BY FlattenEmpty
  <2>3. 1 \in 1 .. Len(d) + 1
    BY <1>1
  <2>4. Start(d, 1) = 4 * Len(FlattenSeq(SubSeq(MsgSeqs(d), 1, 1 - 1)))
    BY <2>3, StartIs
  <2>5. Start(d, 1) = 4 * 0
    BY <1>2, <2>1, <2>2, <2>4
  <2> QED BY <2>5
<1>5. Start(d, Len(d) + 1) = DatagramLen(d)
  <2>1. (Len(d) + 1) - 1 = Len(ss) /\ Len(d) + 1 \in 1 .. Len(d) + 1
    BY <1>1, <1>2
  <2>2. SubSeq(ss, 1, (Len(d) + 1) - 1) = ss
    BY <2>1, SubSeqFull
  <2> QED BY <1>2, <1>3, <2>1, <2>2, StartIs
<1> QED BY <1>1, <1>3, <1>4, <1>5

LEMMA MessageAt ==
  ASSUME NEW d \in Datagram, NEW i \in 1 .. Len(d)
  PROVE  /\ d[i] \in Msgs
         /\ Start(d, i) \in Nat /\ Start(d, i + 1) \in Nat
         /\ Start(d, i + 1) = Start(d, i) + MsgLen(d[i])
         /\ Start(d, i + 1) <= DatagramLen(d)
         /\ MsgLen(d[i]) \in Nat /\ MsgLen(d[i]) >= 24 /\ MsgLen(d[i]) % 4 = 0
         /\ \A s \in Nat : Start(d, i) = 4 * s =>
              \A k \in 1 .. Len(MsgWords(d[i])) : DatagramWords(d)[s + k] = MsgWords(d[i])[k]
<1>1. d \in Seq(Msgs) /\ Len(d) \in Nat /\ d[i] \in Msgs
  BY MsgsOfDatagram
<1>2. PICK ss \in Seq(Seq(Nat)) :
        /\ ss = MsgSeqs(d) /\ Len(ss) = Len(d) /\ DatagramWords(d) = FlattenSeq(ss)
        /\ ss[i] = MsgWords(d[i])
  BY <1>1, MsgSeqsType
<1>3. PICK w \in Seq(Nat) : w = MsgWords(d[i])
  BY <1>1, MsgLayout
<1>4. PICK l \in Nat : l = MsgLen(d[i]) /\ l = 4 * Len(w) /\ Len(w) >= 6
  <2>1. /\ MsgLen(d[i]) \in Nat /\ MsgLen(d[i]) = 4 * Len(w)
        /\ HeadWords(d[i]) \in Nat /\ HeadWords(d[i]) >= 6
        /\ Len(w) = HeadWords(d[i]) + Len(AttrsWords(d[i]))
    BY <1>1, <1>3, MsgLayout
  <2>2. Len(AttrsWords(d[i])) \in Nat
    BY <1>1, AttrLayout
  <2> QED BY <2>1, <2>2
<1>5. i \in 1 .. Len(ss) /\ (i + 1) - 1 = i /\ i \in 1 .. Len(d) + 1 /\ i + 1 \in 1 .. Len(d) + 1
  BY <1>1, <1>2
<1>6. PICK a \in Seq(Nat) : a = FlattenSeq(SubSeq(ss, 1, i - 1))
  BY <1>5, FlattenSplit
<1>7. PICK b \in Seq(Nat) : b = FlattenSeq(SubSeq(ss, 1, i))
  BY <1>5, FlattenSplit
<1>8. PICK f \in Seq(Nat) : f = FlattenSeq(ss)
  BY FlattenType
<1>9. /\ Len(b) = Len(a) + Len(w) /\ Len(b) <= Len(f)
      /\ \A k \in 1 .. Len(w) : f[Len(a) + k] = w[k]
  <2>1. /\ Len(FlattenSeq(SubSeq(ss, 1, i))) = Len(FlattenSeq(SubSeq(ss, 1, i - 1))) + Len(ss[i])
        /\ Len(FlattenSeq(SubSeq(ss, 1, i))) <= Len(FlattenSeq(ss))
        /\ \A k \in 1 .. Len(ss[i]) :
             FlattenSeq(ss)[Len(FlattenSeq(SubSeq(ss, 1, i - 1))) + k] = ss[i][k]
    BY <1>5, FlattenSplit
  <2> QED BY <1>2, <1>3, <1>6, <1>7, <1>8, <2>1
<1>10. Start(d, i) = 4 * Len(a) /\ Start(d, i + 1) = 4 * Len(b) /\ DatagramLen(d) = 4 * Len(f)
  <2>1. Start(d, i) = 4 * Len(a)
    BY <1>2, <1>5, <1>6, StartIs
  <2>2. Start(d, i + 1) = 4 * Len(b)
    BY <1>2, <1>5, <1>7, StartIs
  <2>3. DatagramLen(d) = 4 * Len(f)
    BY <1>2, <1>8 DEF DatagramLen
  <2> QED BY <2>1, <2>2, <2>3
<1>11. /\ 4 * Len(a) \in Nat /\ 4 * Len(b) \in Nat /\ 4 * Len(b) = 4 * Len(a) + l
       /\ 4 * Len(b) <= 4 * Len(f) /\ l >= 24 /\ l % 4 = 0
  <2>1. /\ Len(b) = Len(a) + Len(w) /\ Len(b) <= Len(f)
        /\ l = 4 * Len(w) /\ Len(w) >= 6
    BY <1>4, <1>9
  <2>2. PICK x, y, z, v \in Nat : x = Len(a) /\ y = Len(b) /\ z = Len(f) /\ v = Len(w)
    OBVIOUS
  <2>3. y = x + v /\ y <= z /\ l = 4 * v /\ v >= 6
    BY <2>1, <2>2
  <2>4. 4 * x \in Nat /\ 4 * y \in Nat /\ 4 * y = 4 * x + l /\ 4 * y <= 4 * z /\ l >= 24
    BY <2>3
  <2>5. l % 4 = 0
    BY <2>3
  <2> QED BY <2>2, <2>4, <2>5
<1>12. \A s \in Nat : 4 * Len(a) = 4 * s => s = Len(a)
  OBVIOUS
<1>13. ASSUME NEW s \in Nat, Start(d, i) = 4 * s, NEW k \in 1 .. Len(w)
       PROVE  f[s + k] = w[k]
  BY <1>9, <1>10, <1>12, <1>13
<1> QED BY <1>1, <1>2, <1>3, <1>4, <1>8, <1>10, <1>11, <1>13

-----------------------------------------------------------------------------
(* The walk over the attributes.                                           *)

Left(o, len, p) == len - 4 * (p - o)
Attribute == [at : Nat, len : Nat]

(* One step of the walk at word p, if g is what the walk shows from a word *)
(* on.                                                                     *)
WalkStep(o, len, g, p) ==
  IF p >= Words
  THEN IF Left(o, len, p) >= 4 THEN <<[at |-> p, len |-> 0]>> ELSE <<>>
  ELSE IF RTA_OK(p, Left(o, len, p))
  THEN <<[at |-> p, len |-> buf[p]]>> \o g[p + Align(buf[p]) \div 4]
  ELSE <<>>

IsWalk(o, len, g) == g = [p \in Nat |-> WalkStep(o, len, g, p)]

WalkFcn(o, len) == CHOOSE g : IsWalk(o, len, g)

LEMMA WalkIs == \A o, len : Walk(o, len) = WalkFcn(o, len)[o]
BY DEF Walk, WalkFcn, IsWalk, WalkStep, Left

LEMMA WordsType == Words \in Nat /\ 4 * Words = BufLen
BY BufLenAssumption DEF Words

LEMMA WalkStepType ==
  ASSUME buf \in [0 .. Words - 1 -> Nat], NEW o \in Nat, NEW len \in Nat,
         NEW g \in [Nat -> Seq(Attribute)], NEW p \in Nat
  PROVE  WalkStep(o, len, g, p) \in Seq(Attribute)
<1> DEFINE l == Left(o, len, p)
<1>1. CASE p >= Words /\ l >= 4
  <2>1. [at |-> p, len |-> 0] \in Attribute
    BY DEF Attribute
  <2>2. WalkStep(o, len, g, p) = <<[at |-> p, len |-> 0]>>
    BY <1>1 DEF WalkStep
  <2> QED BY <2>1, <2>2
<1>2. CASE p >= Words /\ ~(l >= 4)
  BY <1>2 DEF WalkStep
<1>3. CASE ~(p >= Words) /\ RTA_OK(p, l)
  <2>1. buf[p] \in Nat /\ buf[p] >= 4
    BY <1>3, WordsType DEF RTA_OK
  <2>2. PICK a \in Nat : a = Align(buf[p]) \div 4
    BY <2>1, AlignPositive, Zenon
  <2>3. PICK r \in Seq(Attribute) : r = g[p + a]
    OBVIOUS
  <2>4. [at |-> p, len |-> buf[p]] \in Attribute
    BY <2>1 DEF Attribute
  <2>5. PICK e \in Attribute : e = [at |-> p, len |-> buf[p]]
    BY <2>4
  <2>6. WalkStep(o, len, g, p) = <<e>> \o r
    BY <1>3, <2>2, <2>3, <2>5 DEF WalkStep
  <2>7. <<e>> \o r \in Seq(Attribute)
    OBVIOUS
  <2> QED BY <2>6, <2>7
<1>4. CASE ~(p >= Words) /\ ~RTA_OK(p, l)
  BY <1>4 DEF WalkStep
<1> QED BY <1>1, <1>2, <1>3, <1>4

(* A step of the walk only depends on what it shows further on. *)
SameBehind(f, g, p) == \A q \in Nat : q > p => f[q] = g[q]

LEMMA WalkStepSame ==
  ASSUME buf \in [0 .. Words - 1 -> Nat], NEW o \in Nat, NEW len \in Nat,
         NEW p \in Nat
  PROVE  \A u, v : SameBehind(u, v, p) => WalkStep(o, len, u, p) = WalkStep(o, len, v, p)
<1> SUFFICES ASSUME NEW u, NEW v, SameBehind(u, v, p)
             PROVE  WalkStep(o, len, u, p) = WalkStep(o, len, v, p)
  OBVIOUS
<1>1. CASE ~(p >= Words) /\ RTA_OK(p, Left(o, len, p))
  <2>1. buf[p] \in Nat /\ buf[p] >= 4
    BY <1>1, WordsType DEF RTA_OK
  <2>2. PICK a \in Nat : a = Align(buf[p]) \div 4 /\ a >= 1
    BY <2>1, AlignPositive, Zenon
  <2>3. p + a \in Nat /\ p + a > p
    <3>1. a >= 1
      BY <2>2
    <3> QED BY <3>1
  <2>4. u[p + a] = v[p + a]
    BY <2>3 DEF SameBehind
  <2> QED BY <1>1, <2>2, <2>4 DEF WalkStep
<1>2. CASE ~(~(p >= Words) /\ RTA_OK(p, Left(o, len, p)))
  BY <1>2 DEF WalkStep
<1> QED BY <1>1, <1>2

(* The recursion ends at the end of the buffer: by induction from there, a *)
(* function satisfies the equation for the last k words.                   *)
LEMMA WalkExists ==
  ASSUME buf \in [0 .. Words - 1 -> Nat], NEW o \in Nat, NEW len \in Nat
  PROVE  /\ WalkFcn(o, len) \in [Nat -> Seq(Attribute)]
         /\ \A p \in Nat : WalkFcn(o, len)[p] = WalkStep(o, len, WalkFcn(o, len), p)
<1> DEFINE F == [Nat -> Seq(Attribute)]
           Eq(g, p) == g[p] = WalkStep(o, len, g, p)
           K == {k \in Nat : \E g \in F : \A p \in Nat : p + k >= Words => Eq(g, p)}
<1>1. Words \in Nat
  BY WordsType
<1>2. ASSUME NEW k \in Nat, NEW g \in F, \A p \in Nat : p + k > Words => Eq(g, p)
      PROVE  \E f \in F : \A p \in Nat : p + k >= Words => Eq(f, p)
  <2> DEFINE f == [p \in Nat |-> IF p + k = Words THEN WalkStep(o, len, g, p) ELSE g[p]]
  <2>1. \A p \in Nat : WalkStep(o, len, g, p) \in Seq(Attribute)
    BY WalkStepType
  <2>2. f \in F
    BY <2>1
  <2>3. ASSUME NEW p \in Nat, p + k >= Words PROVE Eq(f, p)
    <3>1. \A q \in Nat : q > p => f[q] = g[q]
      <4>1. \A q \in Nat : q > p => q + k # Words
        BY <1>1, <2>3
      <4> QED BY <4>1
    <3>2. WalkStep(o, len, f, p) = WalkStep(o, len, g, p)
      <4> HIDE DEF f
      <4>1. PICK e : e = f
        OBVIOUS
      <4>2. SameBehind(e, g, p)
        BY <3>1, <4>1 DEF SameBehind
      <4>3. WalkStep(o, len, e, p) = WalkStep(o, len, g, p)
        <5>0. buf \in [0 .. Words - 1 -> Nat]
          OBVIOUS
        <5>1. \A u, v : SameBehind(u, v, p) => WalkStep(o, len, u, p) = WalkStep(o, len, v, p)
          BY <5>0, WalkStepSame, Zenon
        <5> QED BY <4>2, <5>1, Zenon
      <4> QED BY <4>1, <4>3
    <3>3. CASE p + k = Words
      BY <3>2, <3>3
    <3>4. CASE p + k # Words
      <4>1. p + k > Words
        BY <1>1, <2>3, <3>4
      <4>2. f[p] = g[p] /\ g[p] = WalkStep(o, len, g, p)
        BY <1>2, <3>4, <4>1
      <4> QED BY <3>2, <4>2
    <3> QED BY <3>3, <3>4
  <2> HIDE DEF f, Eq, F
  <2> QED BY <2>2, <2>3
<1>3. 0 \in K
  <2> DEFINE g == [p \in Nat |-> WalkStep(o, len, [q \in Nat |-> <<>>], p)]
  <2>1. [q \in Nat |-> <<>>] \in F
    OBVIOUS
  <2>2. g \in F
    BY <2>1, WalkStepType
  <2>3. ASSUME NEW p \in Nat, p + 0 > Words PROVE Eq(g, p)
    <3>1. p >= Words
      BY <1>1, <2>3
    <3>2. WalkStep(o, len, g, p) = WalkStep(o, len, [q \in Nat |-> <<>>], p)
      BY <3>1 DEF WalkStep
    <3> QED BY <3>2
  <2>4. \E f \in F : \A p \in Nat : p + 0 >= Words => Eq(f, p)
    <3> HIDE DEF F, Eq, g
    <3> QED BY <1>2, <2>2, <2>3
  <2> HIDE DEF F, Eq, g
  <2> QED BY <2>4
<1>4. ASSUME NEW k \in Nat, k \in K PROVE k + 1 \in K
  <2> HIDE DEF F, Eq
  <2>1. PICK g \in F : \A p \in Nat : p + k >= Words => Eq(g, p)
    BY <1>4
  <2>2. \A p \in Nat : p + (k + 1) > Words => p + k >= Words
    BY <1>1
  <2>3. \A p \in Nat : p + (k + 1) > Words => Eq(g, p)
    BY <2>1, <2>2
  <2>4. k + 1 \in Nat
    OBVIOUS
  <2>5. \E f \in F : \A p \in Nat : p + (k + 1) >= Words => Eq(f, p)
    BY <1>2, <2>3, <2>4
  <2> QED BY <2>4, <2>5
<1>5. Words \in K
  <2> HIDE DEF K
  <2>1. Nat \subseteq K
    BY <1>3, <1>4, InductionOnSet
  <2> QED BY <1>1, <2>1
<1>6. PICK g \in F : \A p \in Nat : Eq(g, p)
  <2> HIDE DEF F, Eq
  <2>1. \A p \in Nat : p + Words >= Words
    BY <1>1
  <2> QED BY <1>5, <2>1
<1>7. IsWalk(o, len, g)
  BY <1>6 DEF IsWalk
<1>8. IsWalk(o, len, WalkFcn(o, len))
  <2> HIDE DEF IsWalk
  <2> QED BY <1>7 DEF WalkFcn
<1> DEFINE f == WalkFcn(o, len)
<1>9. f = [p \in Nat |-> WalkStep(o, len, f, p)]
  BY <1>8 DEF IsWalk
<1> HIDE DEF f
<1>10. \A p \in Nat : f[p] = WalkStep(o, len, f, p)
  BY <1>9
<1>11. f = g
  <2> DEFINE Same(p) == f[p] = g[p]
             J == {k \in Nat : \A p \in Nat : p + k >= Words => Same(p)}
  <2> HIDE DEF Same
  <2>1. 0 \in J
    <3> SUFFICES ASSUME NEW p \in Nat, p + 0 >= Words PROVE Same(p)
      OBVIOUS
    <3>1. p >= Words
      BY <1>1
    <3>2. f[p] = WalkStep(o, len, f, p) /\ g[p] = WalkStep(o, len, g, p)
      BY <1>6, <1>10
    <3>3. WalkStep(o, len, f, p) = WalkStep(o, len, g, p)
      BY <3>1 DEF WalkStep
    <3> QED BY <3>2, <3>3 DEF Same
  <2>2. ASSUME NEW k \in Nat, k \in J PROVE k + 1 \in J
    <3> SUFFICES ASSUME NEW p \in Nat, p + (k + 1) >= Words PROVE Same(p)
      OBVIOUS
    <3>1. \A q \in Nat : q > p => Same(q)
      <4>1. \A q \in Nat : q > p => q + k >= Words
        BY <1>1
      <4> QED BY <2>2, <4>1
    <3>2. WalkStep(o, len, f, p) = WalkStep(o, len, g, p)
      <4>1. PICK e : e = f
        OBVIOUS
      <4>2. SameBehind(e, g, p)
        BY <3>1, <4>1 DEF Same, SameBehind
      <4>3. WalkStep(o, len, e, p) = WalkStep(o, len, g, p)
        <5>0. buf \in [0 .. Words - 1 -> Nat]
          OBVIOUS
        <5>1. \A u, v : SameBehind(u, v, p) => WalkStep(o, len, u, p) = WalkStep(o, len, v, p)
          BY <5>0, WalkStepSame, Zenon
        <5> QED BY <4>2, <5>1, Zenon
      <4> QED BY <4>1, <4>3
    <3>3. f[p] = WalkStep(o, len, f, p) /\ g[p] = WalkStep(o, len, g, p)
      BY <1>6, <1>10
    <3> QED BY <3>2, <3>3 DEF Same
  <2>3. Nat \subseteq J
    <3> HIDE DEF J
    <3> QED BY <2>1, <2>2, InductionOnSet
  <2>4. \A p \in Nat : p + Words >= Words /\ Words \in Nat
    BY <1>1
  <2>5. \A p \in Nat : Same(p)
    BY <2>3, <2>4
  <2>6. f = [p \in Nat |-> f[p]]
    BY <1>9, Zenon
  <2>7. g = [p \in Nat |-> g[p]]
    OBVIOUS
  <2> QED BY <2>5, <2>6, <2>7, Zenon DEF Same
<1> QED BY <1>10, <1>11 DEF f

(* What an element of a walk from word p on is. *)
Shows(o, len, p, e) ==
  /\ e.at \in Nat /\ e.at >= p /\ Left(o, len, e.at) >= 4
  /\ e.at < Words => e.len = buf[e.at] /\ e.len >= 4 /\ e.len <= Left(o, len, e.at)
  /\ e.at >= Words => e.len = 0

LEMMA Prepend ==
  \A e \in Attribute, r \in Seq(Attribute) :
    /\ Len(<<e>> \o r) = Len(r) + 1 /\ (<<e>> \o r)[1] = e
    /\ DOMAIN (<<e>> \o r) = 1 .. Len(r) + 1 /\ DOMAIN r = 1 .. Len(r)
    /\ \A k \in 1 .. Len(r) + 1 :
         k # 1 => k - 1 \in 1 .. Len(r) /\ (<<e>> \o r)[k] = r[k - 1]
    /\ \A k \in 1 .. Len(r) :
         k + 1 \in 1 .. Len(r) + 1 /\ (<<e>> \o r)[k + 1] = r[k]
OBVIOUS

LEMMA WalkElements ==
  ASSUME buf \in [0 .. Words - 1 -> Nat], NEW o \in Nat, NEW len \in Nat,
         NEW g \in [Nat -> Seq(Attribute)], \A p \in Nat : g[p] = WalkStep(o, len, g, p)
  PROVE  \A p \in Nat : \A j \in DOMAIN g[p] : Shows(o, len, p, g[p][j])
<1> DEFINE Good(p) == \A j \in DOMAIN g[p] : Shows(o, len, p, g[p][j])
           K == {k \in Nat : \A p \in Nat : p + k >= Words => Good(p)}
<1>1. Words \in Nat
  BY WordsType
<1>2. ASSUME NEW p \in Nat, \A q \in Nat : q > p /\ p < Words => Good(q) PROVE Good(p)
  <2> DEFINE l == Left(o, len, p)
  <2>0. g[p] = WalkStep(o, len, g, p)
    OBVIOUS
  <2>1. CASE p >= Words /\ l >= 4
    <3>1. PICK e \in Attribute : e = [at |-> p, len |-> 0]
      BY DEF Attribute
    <3>2. g[p] = <<e>>
      BY <2>0, <2>1, <3>1 DEF WalkStep
    <3>3. Shows(o, len, p, e)
      BY <1>1, <2>1, <3>1 DEF Shows
    <3>4. ASSUME NEW j \in DOMAIN g[p] PROVE g[p][j] = e
      BY <3>2, <3>4
    <3> QED BY <3>3, <3>4
  <2>2. CASE ~(p >= Words) /\ RTA_OK(p, l)
    <3>1. p \in 0 .. Words - 1 /\ buf[p] \in Nat /\ buf[p] >= 4 /\ buf[p] <= l /\ l >= 4 /\ p < Words
      BY <1>1, <2>2 DEF RTA_OK
    <3>2. PICK a \in Nat : a = Align(buf[p]) \div 4 /\ a >= 1
      BY <3>1, AlignPositive, Zenon
    <3>3. p + a \in Nat /\ p + a > p
      <4>1. a >= 1
        BY <3>2
      <4> QED BY <4>1
    <3>4. PICK e \in Attribute : e = [at |-> p, len |-> buf[p]]
      BY <3>1 DEF Attribute
    <3>5. PICK r \in Seq(Attribute) : r = g[p + a]
      BY <3>3
    <3>6. g[p] = <<e>> \o r
      BY <2>0, <2>2, <3>2, <3>4, <3>5 DEF WalkStep
    <3>7. Shows(o, len, p, e)
      BY <1>1, <3>1, <3>4 DEF Shows
    <3>8. ASSUME NEW i \in DOMAIN r PROVE Shows(o, len, p, r[i])
      <4>1. Shows(o, len, p + a, r[i])
        BY <1>2, <3>1, <3>3, <3>5, <3>8
      <4>2. r[i].at \in Nat /\ r[i].at >= p + a
        BY <4>1 DEF Shows
      <4>3. r[i].at >= p
        <5>1. PICK y \in Nat : y = r[i].at /\ y >= p + a
          BY <4>2
        <5>2. y >= p + a
          BY <5>1
        <5>3. y >= p
          BY <5>2
        <5> QED BY <5>1, <5>3
      <4> QED BY <4>1, <4>3 DEF Shows
    <3>9. ASSUME NEW j \in DOMAIN g[p] PROVE g[p][j] = e \/ \E i \in DOMAIN r : g[p][j] = r[i]
      <4>1. /\ Len(<<e>> \o r) = Len(r) + 1 /\ (<<e>> \o r)[1] = e
            /\ DOMAIN (<<e>> \o r) = 1 .. Len(r) + 1 /\ DOMAIN r = 1 .. Len(r)
            /\ \A k \in 1 .. Len(r) + 1 :
                 k # 1 => k - 1 \in 1 .. Len(r) /\ (<<e>> \o r)[k] = r[k - 1]
            /\ \A k \in 1 .. Len(r) :
                 k + 1 \in 1 .. Len(r) + 1 /\ (<<e>> \o r)[k + 1] = r[k]
        BY Prepend, Zenon
      <4>2. PICK t : t = <<e>> \o r
        OBVIOUS
      <4>3. j \in 1 .. Len(r) + 1 /\ g[p][j] = t[j]
        BY <3>6, <3>9, <4>1, <4>2
      <4>4. t[1] = e /\ (j # 1 => j - 1 \in DOMAIN r /\ t[j] = r[j - 1])
        BY <4>1, <4>2, <4>3
      <4> QED BY <4>3, <4>4
    <3> QED BY <3>7, <3>8, <3>9
  <2>3. CASE g[p] = <<>>
    BY <2>3
  <2>4. (~(p >= Words /\ l >= 4) /\ ~(~(p >= Words) /\ RTA_OK(p, l))) => g[p] = <<>>
    BY <2>0 DEF WalkStep
  <2> QED BY <2>1, <2>2, <2>3, <2>4
<1> HIDE DEF Good
<1>3. 0 \in K
  <2>1. ASSUME NEW p \in Nat, p + 0 >= Words PROVE Good(p)
    <3>1. ~(p < Words)
      BY <1>1, <2>1
    <3> QED BY <1>2, <3>1
  <2> QED BY <2>1
<1>4. ASSUME NEW k \in Nat, k \in K PROVE k + 1 \in K
  <2>1. ASSUME NEW p \in Nat, p + (k + 1) >= Words PROVE Good(p)
    <3>1. \A q \in Nat : q > p => q + k >= Words
      BY <1>1, <2>1
    <3>2. \A q \in Nat : q > p => Good(q)
      BY <1>4, <3>1
    <3> QED BY <1>2, <3>2
  <2> QED BY <2>1
<1>5. Nat \subseteq K
  <2> HIDE DEF K
  <2> QED BY <1>3, <1>4, InductionOnSet
<1>6. \A p \in Nat : p + Words >= Words
  BY <1>1
<1>7. \A p \in Nat : Good(p)
  BY <1>1, <1>5, <1>6
<1> QED BY <1>7 DEF Good

(* n attributes of the lengths own[1], ..., own[n] stand one behind the    *)
(* other at the words at[1], ..., at[n] of the buffer, as far as it goes.  *)
OwnAt(o, len, n, at, own) ==
  /\ at \in [1 .. n + 1 -> Nat] /\ own \in [1 .. n -> Nat]
  /\ \A j \in 1 .. n :
       /\ own[j] >= 4 /\ own[j] <= Left(o, len, at[j])
       /\ at[j + 1] = at[j] + Align(own[j]) \div 4
       /\ at[j] < Words => buf[at[j]] = own[j]

(* A walk shows these attributes first, unless it leaves the buffer. *)
OwnFirst(s, n, at) ==
  /\ \A k \in DOMAIN s :
       /\ k <= n => s[k].at = at[k]
       /\ k > n => s[k].at >= at[n + 1]
  /\ n <= Len(s) \/ \E k \in DOMAIN s : s[k].at >= Words

LEMMA WalkOwn ==
  ASSUME buf \in [0 .. Words - 1 -> Nat], NEW o \in Nat, NEW len \in Nat,
         NEW g \in [Nat -> Seq(Attribute)], \A p \in Nat : g[p] = WalkStep(o, len, g, p),
         NEW n \in Nat, NEW at, NEW own, OwnAt(o, len, n, at, own)
  PROVE  OwnFirst(g[at[1]], n, at)
<1> /\ at \in [1 .. n + 1 -> Nat] /\ own \in [1 .. n -> Nat]
    /\ \A j \in 1 .. n :
         /\ own[j] >= 4 /\ own[j] <= Left(o, len, at[j])
         /\ at[j + 1] = at[j] + Align(own[j]) \div 4
         /\ at[j] < Words => buf[at[j]] = own[j]
  BY DEF OwnAt
<1> DEFINE s(j) == g[at[j]]
           First(j) == \A k \in DOMAIN s(j) :
                         /\ k <= n + 1 - j => s(j)[k].at = at[j + k - 1]
                         /\ k > n + 1 - j => s(j)[k].at >= at[n + 1]
           All(j) == n + 1 - j <= Len(s(j)) \/ \E k \in DOMAIN s(j) : s(j)[k].at >= Words
           K == {k \in Nat : k <= n => First(n + 1 - k) /\ All(n + 1 - k)}
<1>1. First(n + 1) /\ All(n + 1)
  <2>1. PICK p \in Nat : p = at[n + 1]
    OBVIOUS
  <2>2. PICK t \in Seq(Attribute) : t = g[p]
    OBVIOUS
  <2>3. \A k \in DOMAIN t : t[k].at \in Nat /\ t[k].at >= p
    <3>1. \A k \in DOMAIN t : Shows(o, len, p, t[k])
      BY <2>2, WalkElements
    <3> QED BY <3>1 DEF Shows
  <2>4. \A k \in DOMAIN t : ~(k <= n + 1 - (n + 1))
    BY <2>2
  <2>5. n + 1 - (n + 1) <= Len(t)
    OBVIOUS
  <2> QED BY <2>1, <2>2, <2>3, <2>4, <2>5
<1>2. ASSUME NEW j \in 1 .. n, First(j + 1), All(j + 1) PROVE First(j) /\ All(j)
  <2>1. PICK p \in Nat : p = at[j]
    OBVIOUS
  <2>2. PICK q \in Nat : q = at[j + 1]
    OBVIOUS
  <2>3. PICK x \in Nat : /\ x = own[j] /\ x >= 4 /\ x <= Left(o, len, p)
                         /\ q = p + Align(x) \div 4
                         /\ p < Words => buf[p] = x
    BY <2>1, <2>2
  <2>4. PICK t \in Seq(Attribute) : t = g[p]
    OBVIOUS
  <2>5. PICK r \in Seq(Attribute) : r = g[q]
    OBVIOUS
  <2>6. t = WalkStep(o, len, g, p)
    BY <2>4
  <2>7. Left(o, len, p) >= 4
    BY <2>3 DEF Left
  <2>8. CASE p >= Words
    <3>1. PICK e \in Attribute : e = [at |-> p, len |-> 0]
      BY DEF Attribute
    <3>2. t = <<e>>
      BY <2>6, <2>7, <2>8, <3>1 DEF WalkStep
    <3>3. DOMAIN t = {1} /\ t[1].at = p /\ Len(t) = 1
      BY <3>1, <3>2
    <3>4. 1 <= n + 1 - j /\ j + 1 - 1 = j
      OBVIOUS
    <3>5. First(j)
      BY <2>1, <2>4, <3>3, <3>4
    <3>6. All(j)
      BY <2>1, <2>4, <2>8, <3>3
    <3> QED BY <3>5, <3>6
  <2>9. CASE ~(p >= Words)
    <3>1. buf[p] = x /\ RTA_OK(p, Left(o, len, p))
      BY <2>3, <2>7, <2>9, WordsType DEF RTA_OK
    <3>2. PICK e \in Attribute : e = [at |-> p, len |-> x]
      BY DEF Attribute
    <3>3. t = <<e>> \o r
      BY <2>3, <2>5, <2>6, <2>9, <3>1, <3>2 DEF WalkStep
    <3>4. /\ Len(t) = Len(r) + 1 /\ t[1].at = p
          /\ \A k \in DOMAIN t : k # 1 => k - 1 \in DOMAIN r /\ t[k] = r[k - 1]
          /\ \A k \in DOMAIN r : k + 1 \in DOMAIN t /\ t[k + 1] = r[k]
      <4>1. /\ Len(<<e>> \o r) = Len(r) + 1 /\ (<<e>> \o r)[1] = e
            /\ DOMAIN (<<e>> \o r) = 1 .. Len(r) + 1 /\ DOMAIN r = 1 .. Len(r)
            /\ \A k \in 1 .. Len(r) + 1 :
                 k # 1 => k - 1 \in 1 .. Len(r) /\ (<<e>> \o r)[k] = r[k - 1]
            /\ \A k \in 1 .. Len(r) :
                 k + 1 \in 1 .. Len(r) + 1 /\ (<<e>> \o r)[k + 1] = r[k]
        BY Prepend, Zenon
      <4>2. e.at = p
        BY <3>2
      <4> QED BY <3>3, <4>1, <4>2, Zenon
    <3>5. /\ \A k \in DOMAIN r :
               /\ k <= n + 1 - (j + 1) => r[k].at = at[j + 1 + k - 1]
               /\ k > n + 1 - (j + 1) => r[k].at >= at[n + 1]
      BY <1>2, <2>2, <2>5
    <3>6. n + 1 - (j + 1) <= Len(r) \/ \E k \in DOMAIN r : r[k].at >= Words
      BY <1>2, <2>2, <2>5
    <3>7. ASSUME NEW k \in DOMAIN t
          PROVE  /\ k <= n + 1 - j => t[k].at = at[j + k - 1]
                 /\ k > n + 1 - j => t[k].at >= at[n + 1]
      <4>0. k \in 1 .. Len(t) /\ Len(t) \in Nat
        BY <3>7, LenProperties
      <4>1. CASE k = 1
        <5>1. j + k - 1 = j /\ ~(k > n + 1 - j)
          BY <4>1
        <5> QED BY <2>1, <3>4, <4>1, <5>1
      <4>2. CASE k # 1
        <5>0. PICK c \in Nat : c = k
          BY <4>0
        <5>1. k - 1 \in DOMAIN r /\ t[k] = r[k - 1]
          BY <3>4, <4>2
        <5>2. j + 1 + (k - 1) - 1 = j + k - 1
          BY <5>0
        <5>3. /\ c <= n + 1 - j => c - 1 <= n + 1 - (j + 1)
              /\ c > n + 1 - j => c - 1 > n + 1 - (j + 1)
          OBVIOUS
        <5>4. /\ k - 1 <= n + 1 - (j + 1) => r[k - 1].at = at[j + 1 + (k - 1) - 1]
              /\ k - 1 > n + 1 - (j + 1) => r[k - 1].at >= at[n + 1]
          BY <3>5, <5>1
        <5> QED BY <5>0, <5>1, <5>2, <5>3, <5>4
      <4> QED BY <4>1, <4>2
    <3>8. First(j)
      BY <2>1, <2>4, <3>7
    <3>9. All(j)
      <4>1. CASE n + 1 - (j + 1) <= Len(r)
        <5>1. n + 1 - j <= Len(t)
          BY <3>4, <4>1
        <5> QED BY <2>1, <2>4, <5>1
      <4>2. CASE \E k \in DOMAIN r : r[k].at >= Words
        <5>1. \E k \in DOMAIN t : t[k].at >= Words
          BY <3>4, <4>2
        <5> QED BY <2>1, <2>4, <5>1
      <4> QED BY <3>6, <4>1, <4>2
    <3> QED BY <3>8, <3>9
  <2> QED BY <2>8, <2>9
<1>3. First(1) /\ All(1)
  <2> HIDE DEF First, All
  <2>1. 0 \in K
    BY <1>1
  <2>2. ASSUME NEW k \in Nat, k \in K PROVE k + 1 \in K
    <3> SUFFICES ASSUME k + 1 <= n PROVE First(n + 1 - (k + 1)) /\ All(n + 1 - (k + 1))
      OBVIOUS
    <3>1. PICK j \in 1 .. n : j = n + 1 - (k + 1) /\ j + 1 = n + 1 - k
      OBVIOUS
    <3>2. First(n + 1 - k) /\ All(n + 1 - k)
      BY <2>2
    <3> QED BY <1>2, <3>1, <3>2
  <2>3. Nat \subseteq K
    <3> HIDE DEF K
    <3> QED BY <2>1, <2>2, InductionOnSet
  <2>4. n + 1 - n = 1 /\ n <= n
    OBVIOUS
  <2> QED BY <2>3, <2>4
<1>4. n + 1 - 1 = n /\ \A k \in DOMAIN g[at[1]] : 1 + k - 1 = k
  <2>1. at[1] \in Nat
    OBVIOUS
  <2>2. PICK t \in Seq(Attribute) : t = g[at[1]]
    BY <2>1
  <2>3. \A k \in DOMAIN t : 1 + k - 1 = k
    OBVIOUS
  <2> QED BY <2>2, <2>3
<1> QED BY <1>3, <1>4 DEF OwnFirst

-----------------------------------------------------------------------------
(* What the dumpers show of a message in the buffer.                       *)

(* The words of d stand at the start of the buffer, as far as they fit. *)
InPlace(d) ==
  \A k \in 0 .. Words - 1 :
    k < Len(DatagramWords(d)) => buf[k] = DatagramWords(d)[k + 1]

LEMMA DumpArith ==
  \A x, a, u, v, al, sw, b \in Nat :
    v = u + a /\ x <= 4 * a /\ x >= 4 /\ v <= al =>
      /\ x <= 4 * (b + al + sw) - 4 * (b + u)
      /\ u + 1 \in 1 .. al
OBVIOUS

LEMMA NatPlus == \A x, y \in Nat : x + y \in Nat
OBVIOUS

LEMMA LengthRead ==
  ASSUME buf \in [0 .. Words - 1 -> Nat], NEW d \in Datagram, InPlace(d),
         NEW i \in 1 .. Len(d), NEW o \in Nat, Start(d, i) = 4 * o, 4 * o + HdrLen <= BufLen
  PROVE  o \in 0 .. Words - 1 /\ buf[o] = MsgLen(d[i])
<1>1. d[i] \in Msgs /\ MsgWords(d[i])[1] = MsgLen(d[i]) /\ MsgLen(d[i]) = 4 * Len(MsgWords(d[i]))
  BY MessageAt, MsgLayout
<1>2. PICK w \in Seq(Nat) : w = MsgWords(d[i])
  BY <1>1, MsgLayout
<1>3. PICK l \in Nat : l = MsgLen(d[i]) /\ l = 4 * Len(w) /\ l >= 24
  BY <1>1, <1>2, MessageAt
<1>4. PICK n \in Nat : n = Len(DatagramWords(d)) /\ DatagramLen(d) = 4 * n
  BY Layout
<1>5. 4 * o + l <= 4 * n
  <2>1. Start(d, i + 1) = Start(d, i) + MsgLen(d[i]) /\ Start(d, i + 1) <= DatagramLen(d)
    BY MessageAt
  <2> QED BY <1>3, <1>4, <2>1
<1>6. o \in 0 .. Words - 1
  BY WordsType DEF HdrLen
<1>7. o < n /\ 1 \in 1 .. Len(w)
  <2>1. PICK c \in Nat : c = Len(w)
    OBVIOUS
  <2>2. l = 4 * c /\ l >= 24 /\ 4 * o + l <= 4 * n
    BY <1>3, <1>5, <2>1
  <2>3. c >= 1 /\ o < n
    BY <2>2
  <2> QED BY <2>1, <2>3
<1>8. DatagramWords(d)[o + 1] = w[1]
  BY <1>2, <1>7, MessageAt
<1>9. buf[o] = DatagramWords(d)[o + 1]
  BY <1>4, <1>6, <1>7 DEF InPlace
<1> QED BY <1>1, <1>2, <1>6, <1>8, <1>9

(* An element of the dump of message m at word o, the k-th one. *)
DumpElement(m, o, k, e) ==
  /\ e.at \in Nat /\ 4 * e.at + 4 <= 4 * o + MsgLen(m) + Slack(m.kind)
  /\ e.at >= Words => e.len = 0
  /\ e.at < Words =>
       /\ e.len = buf[e.at] /\ e.len \in Nat /\ e.len >= 4
       /\ 4 * e.at + Align(e.len) <= 4 * o + MsgLen(m) + Slack(m.kind)
       /\ k <= Len(m.attrs) => e.len = m.attrs[k]
  /\ k > Len(m.attrs) => 4 * e.at >= 4 * o + MsgLen(m)

LEMMA DumpShows ==
  ASSUME buf \in [0 .. Words - 1 -> Nat], NEW d \in Datagram, InPlace(d),
         NEW i \in 1 .. Len(d), NEW o \in Nat, Start(d, i) = 4 * o, 4 * o + HdrLen <= BufLen,
         NEW m, m = d[i], NEW s, s = Dump(m.kind, o, MsgLen(m)), m.kind # "other"
  PROVE  /\ s \in Seq(Attribute)
         /\ Len(m.attrs) <= Len(s) \/ \E k \in DOMAIN s : s[k].at >= Words
         /\ \A k \in DOMAIN s : DumpElement(m, o, k, s[k])
<1>1. m \in Msgs
  BY MessageAt
<1>2. /\ m.attrs \in Seq(Nat) /\ m.kind \in Kind
      /\ \A j \in 1 .. Len(m.attrs) : m.attrs[j] \in Nat /\ m.attrs[j] >= 4
  BY <1>1, AttrSeqsType
<1>3. PICK n \in Nat : n = Len(m.attrs)
  BY <1>2
<1>4. PICK sw \in 0 .. 2 : Slack(m.kind) = 4 * sw /\ FixedLen(m.kind) = 8 + 4 * sw
  BY <1>2, FixedType
<1>5. PICK hw \in Nat : hw = HeadWords(m) /\ hw = 6 + sw
  <2>1. HeadWords(m) \in Nat /\ 4 * HeadWords(m) = 16 + (8 + 4 * sw)
    BY <1>1, <1>4, MsgLayout DEF HdrLen
  <2> QED BY <2>1
<1>6. PICK al \in Nat : al = Len(AttrsWords(m))
  BY <1>1, AttrLayout
<1>7. PICK l \in Nat : l = MsgLen(m) /\ l = 24 + 4 * sw + 4 * al
  BY <1>4, <1>6 DEF MsgLen, HdrLen
<1>8. PICK len \in Nat : len = IFA_PAYLOAD(MsgLen(m)) /\ len = 4 * sw + 4 * al
  BY <1>7 DEF IFA_PAYLOAD, HdrLen
<1>9. PICK b \in Nat : b = o + hw
  OBVIOUS
<1>0. sw \in Nat /\ b = o + 6 + sw /\ 4 * o + l = 4 * (b + al)
  BY <1>5, <1>7, <1>9
<1>10. s = Walk(b, len)
  BY <1>5, <1>8, <1>9 DEF Dump, HeadWords
<1>11. PICK g \in [Nat -> Seq(Attribute)] :
         g = WalkFcn(b, len) /\ \A p \in Nat : g[p] = WalkStep(b, len, g, p)
  BY WalkExists
<1>12. s = g[b]
  BY <1>10, <1>11, WalkIs
<1>13. \A p \in Nat : Left(b, len, p) = 4 * (b + al + sw) - 4 * p
  <2>1. len = 4 * sw + 4 * al /\ sw \in Nat
    BY <1>0, <1>8
  <2>2. \A p \in Nat : (4 * sw + 4 * al) - 4 * (p - b) = 4 * (b + al + sw) - 4 * p
    BY <2>1
  <2> QED BY <2>1, <2>2 DEF Left
<1> DEFINE at == [j \in 1 .. n + 1 |-> b + AttrAt(m, j)]
           own == [j \in 1 .. n |-> m.attrs[j]]
<1>14. /\ AttrAt(m, 1) = 0 /\ AttrAt(m, n + 1) = al
       /\ \A j \in 1 .. n :
            /\ AttrAt(m, j) \in Nat /\ AttrAt(m, j + 1) \in Nat
            /\ 4 * AttrAt(m, j + 1) = 4 * AttrAt(m, j) + Align(m.attrs[j])
            /\ AttrAt(m, j + 1) <= al
            /\ AttrsWords(m)[AttrAt(m, j) + 1] = m.attrs[j]
  BY <1>1, <1>3, <1>6, AttrLayout
<1>15. at \in [1 .. n + 1 -> Nat] /\ own \in [1 .. n -> Nat]
  <2>1. \A j \in 1 .. n + 1 : AttrAt(m, j) \in Nat
    <3> SUFFICES ASSUME NEW j \in 1 .. n + 1 PROVE AttrAt(m, j) \in Nat
      OBVIOUS
    <3>0. j \in 1 .. n \/ j = n + 1
      OBVIOUS
    <3>1. CASE j \in 1 .. n
      BY <1>14, <3>1
    <3>2. CASE j = n + 1
      BY <1>14, <3>2
    <3> QED BY <3>0, <3>1, <3>2
  <2>2. \A j \in 1 .. n + 1 : b + AttrAt(m, j) \in Nat
    BY <2>1, NatPlus, Zenon
  <2>3. \A j \in 1 .. n : m.attrs[j] \in Nat
    BY <1>2, <1>3
  <2> QED BY <2>2, <2>3
<1>16. at[1] = b /\ at[n + 1] = b + al
  <2>1. 1 \in 1 .. n + 1 /\ n + 1 \in 1 .. n + 1
    OBVIOUS
  <2>2. at[1] = b + 0 /\ at[n + 1] = b + al
    BY <1>14, <2>1
  <2> QED BY <2>2
<1>17. ASSUME NEW j \in 1 .. n
       PROVE  /\ own[j] >= 4 /\ own[j] <= Left(b, len, at[j])
              /\ at[j + 1] = at[j] + Align(own[j]) \div 4
              /\ at[j] < Words => buf[at[j]] = own[j]
  <2>1. PICK x \in Nat : x = own[j] /\ x = m.attrs[j] /\ x >= 4
    BY <1>2, <1>3
  <2>2. PICK u, v \in Nat : u = AttrAt(m, j) /\ v = AttrAt(m, j + 1)
    BY <1>14
  <2>3. at[j] = b + u /\ at[j + 1] = b + v
    <3>1. j \in 1 .. n + 1 /\ j + 1 \in 1 .. n + 1
      OBVIOUS
    <3> QED BY <2>2, <3>1
  <2>4. PICK a \in Nat : 4 * a = Align(x) /\ a = Align(x) \div 4
    BY AlignType
  <2>5. v <= al /\ AttrsWords(m)[u + 1] = x
    BY <1>14, <2>1, <2>2
  <2>6. v = u + a /\ x <= 4 * a /\ x >= 4
    <3>1. 4 * v = 4 * u + Align(x)
      BY <1>14, <2>1, <2>2
    <3>2. x <= Align(x)
      BY AlignType
    <3>3. 4 * v = 4 * u + 4 * a /\ x <= 4 * a
      BY <2>4, <3>1, <3>2
    <3> QED BY <2>1, <3>3
  <2>7. x <= Left(b, len, at[j])
    <3>1. Left(b, len, b + u) = 4 * (b + al + sw) - 4 * (b + u)
      BY <1>13
    <3>2. v <= al
      BY <2>5
    <3>3. x <= 4 * (b + al + sw) - 4 * (b + u)
      <4>1. sw \in Nat
        BY <1>0
      <4> QED BY <2>6, <3>2, <4>1, DumpArith, Zenon
    <3> QED BY <2>3, <3>1, <3>3
  <2>8. at[j + 1] = at[j] + Align(own[j]) \div 4
    <3>1. b + v = (b + u) + a
      BY <2>6
    <3> QED BY <2>1, <2>3, <2>4, <3>1
  <2>9. ASSUME at[j] < Words PROVE buf[at[j]] = x
    <3>1. PICK w \in Seq(Nat) :
            /\ w = MsgWords(m) /\ Len(w) = hw + al
            /\ \A q \in 1 .. al : w[hw + q] = AttrsWords(m)[q]
      <4>1. /\ MsgWords(m) \in Seq(Nat)
            /\ Len(MsgWords(m)) = HeadWords(m) + Len(AttrsWords(m))
            /\ \A q \in 1 .. Len(AttrsWords(m)) :
                 MsgWords(m)[HeadWords(m) + q] = AttrsWords(m)[q]
        BY <1>1, MsgLayout
      <4>2. hw = HeadWords(m) /\ al = Len(AttrsWords(m))
        BY <1>5, <1>6
      <4> QED BY <4>1, <4>2, Zenon
    <3>2. u + 1 \in 1 .. al
      <4>1. v <= al
        BY <2>5
      <4>2. sw \in Nat
        BY <1>0
      <4> QED BY <2>6, <4>1, <4>2, DumpArith, Zenon
    <3>3. w[hw + (u + 1)] = x
      BY <2>5, <3>1, <3>2
    <3>4. hw + (u + 1) \in 1 .. Len(w)
      <4>1. Len(w) = hw + al
        BY <3>1
      <4> QED BY <3>2, <4>1
    <3>5. DatagramWords(d)[o + (hw + (u + 1))] = x
      BY <3>1, <3>3, <3>4, MessageAt
    <3>6. PICK dw \in Nat : dw = Len(DatagramWords(d)) /\ DatagramLen(d) = 4 * dw
      BY Layout
    <3>7. 4 * o + l <= 4 * dw
      <4>1. Start(d, i + 1) = Start(d, i) + MsgLen(d[i]) /\ Start(d, i + 1) <= DatagramLen(d)
        BY MessageAt
      <4>2. l = MsgLen(d[i])
        BY <1>7
      <4>3. DatagramLen(d) = 4 * dw
        BY <3>6
      <4> QED BY <4>1, <4>2, <4>3
    <3>8. b + u < dw
      BY <1>0, <3>2, <3>7
    <3>9. o + (hw + (u + 1)) = (b + u) + 1
      BY <1>9
    <3>10. b + u \in 0 .. Words - 1
      BY <2>3, <2>9, WordsType
    <3>11. buf[b + u] = DatagramWords(d)[(b + u) + 1]
      BY <3>6, <3>8, <3>10 DEF InPlace
    <3> QED BY <2>3, <3>5, <3>9, <3>11
  <2> QED BY <2>1, <2>7, <2>8, <2>9
<1> HIDE DEF at, own
<1>18. /\ \A k \in DOMAIN s :
            /\ k <= n => s[k].at = at[k]
            /\ k > n => s[k].at >= at[n + 1]
       /\ n <= Len(s) \/ \E k \in DOMAIN s : s[k].at >= Words
  <2>1. buf \in [0 .. Words - 1 -> Nat] /\ \A p \in Nat : g[p] = WalkStep(b, len, g, p)
    BY <1>11
  <2>2. \A j \in 1 .. n :
          /\ own[j] >= 4 /\ own[j] <= Left(b, len, at[j])
          /\ at[j + 1] = at[j] + Align(own[j]) \div 4
          /\ at[j] < Words => buf[at[j]] = own[j]
    BY <1>17
  <2>3. OwnAt(b, len, n, at, own)
    BY <1>15, <2>2 DEF OwnAt
  <2>4. OwnFirst(g[at[1]], n, at)
    BY <2>1, <2>3, WalkOwn
  <2>5. g[at[1]] = s
    BY <1>12, <1>16
  <2> QED BY <2>4, <2>5, Zenon DEF OwnFirst
<1>19. s \in Seq(Attribute)
  BY <1>12
<1>20. \A k \in DOMAIN s : Shows(b, len, b, s[k])
  BY <1>11, <1>12, WalkElements
<1>21. ASSUME NEW k \in DOMAIN s PROVE DumpElement(m, o, k, s[k])
  <2>1. PICK e \in Attribute : e = s[k]
    BY <1>19
  <2>2. PICK p \in Nat : p = e.at
    BY DEF Attribute
  <2>3. PICK x \in Nat : x = e.len
    BY DEF Attribute
  <2>4. PICK c \in Nat : c = b + al + sw
    BY <1>0
  <2>12. PICK z \in Nat : z = 4 * c
    OBVIOUS
  <2>5. z = 4 * o + MsgLen(m) + Slack(m.kind)
    <3>1. MsgLen(m) = l /\ Slack(m.kind) = 4 * sw
      BY <1>4, <1>7
    <3>2. z = 4 * o + l + 4 * sw
      BY <1>0, <2>4, <2>12
    <3> QED BY <3>1, <3>2
  <2>6. Left(b, len, p) = z - 4 * p
    BY <1>13, <2>4, <2>12
  <2>7. /\ z - 4 * p >= 4 /\ (p < Words => x = buf[p] /\ x >= 4 /\ x <= z - 4 * p)
        /\ p >= Words => x = 0
    BY <1>20, <2>1, <2>2, <2>3, <2>6 DEF Shows
  <2>8. 4 * p + 4 <= z
    BY <2>7
  <2>9. p < Words => 4 * p + Align(x) <= z
    <3> SUFFICES ASSUME p < Words PROVE 4 * p + Align(x) <= z
      OBVIOUS
    <3>1. x <= z - 4 * p
      BY <2>7
    <3>2. PICK y \in Nat : z - 4 * p = 4 * y
      <4>1. z - 4 * p = 4 * (c - p) /\ c - p \in Nat
        BY <2>8, <2>12
      <4> QED BY <4>1
    <3>3. Align(x) <= 4 * y /\ Align(x) \in Nat
      BY <3>1, <3>2, AlignType
    <3> QED BY <3>2, <3>3
  <2>10. k <= n /\ p < Words => x = m.attrs[k]
    <3> SUFFICES ASSUME k <= n, p < Words PROVE x = m.attrs[k]
      OBVIOUS
    <3>1. k \in 1 .. n
      <4>1. k \in 1 .. Len(s) /\ Len(s) \in Nat
        BY <1>19, LenProperties
      <4> QED BY <4>1
    <3>2. p = at[k]
      BY <1>18, <2>1, <2>2
    <3>3. buf[at[k]] = own[k]
      BY <1>17, <3>1, <3>2
    <3> QED BY <2>7, <3>1, <3>2, <3>3 DEF own
  <2>11. k > n => 4 * p >= 4 * o + l
    <3> SUFFICES ASSUME k > n PROVE 4 * p >= 4 * o + l
      OBVIOUS
    <3>1. p >= b + al
      BY <1>16, <1>18, <2>1, <2>2
    <3> QED BY <1>0, <3>1
  <2> QED BY <1>3, <1>7, <2>1, <2>2, <2>3, <2>5, <2>7, <2>8, <2>9, <2>10, <2>11
          DEF DumpElement
<1> QED BY <1>3, <1>18, <1>19, <1>21

-----------------------------------------------------------------------------
(* Why a dump ends the process, and what it has shown when it does not.    *)

(* The message in front of the i-th start of d, as numbers. *)
LEMMA MessageEnds ==
  ASSUME NEW d \in Datagram, NEW i \in 1 .. Len(d), NEW o \in Nat, Start(d, i) = 4 * o
  PROVE  /\ MsgLen(d[i]) \in Nat /\ DatagramLen(d) \in Nat
         /\ MsgLen(d[i]) >= 24 /\ MsgLen(d[i]) >= HdrLen + FixedLen(d[i].kind)
         /\ 4 * o + MsgLen(d[i]) <= DatagramLen(d)
         /\ Slack(d[i].kind) \in {0, 4, 8} /\ FixedLen(d[i].kind) \in Nat
<1>1. d[i] \in Msgs /\ d[i].kind \in Kind
  BY MessageAt, AttrSeqsType
<1>2. PICK sw \in 0 .. 2 : Slack(d[i].kind) = 4 * sw /\ FixedLen(d[i].kind) = 8 + 4 * sw
  BY <1>1, FixedType
<1>3. PICK al \in Nat : al = Len(AttrsWords(d[i]))
  BY <1>1, AttrLayout
<1>4. MsgLen(d[i]) = HdrLen + FixedLen(d[i].kind) + 4 * al
  BY <1>3 DEF MsgLen
<1>5. DatagramLen(d) \in Nat
  BY Layout
<1>6. /\ Start(d, i + 1) = Start(d, i) + MsgLen(d[i]) /\ Start(d, i + 1) <= DatagramLen(d)
      /\ MsgLen(d[i]) >= 24
  BY MessageAt
<1>7. MsgLen(d[i]) \in Nat /\ MsgLen(d[i]) >= HdrLen + FixedLen(d[i].kind)
  BY <1>2, <1>3, <1>4 DEF HdrLen
<1>8. Slack(d[i].kind) \in {0, 4, 8} /\ FixedLen(d[i].kind) \in Nat
  BY <1>2
<1> QED BY <1>5, <1>6, <1>7, <1>8

LEMMA BehindArith ==
  \A p, e, D, r, W \in Nat :
    r >= 4 /\ e <= D + 8 /\ 4 * p + 4 <= e =>
      /\ p >= W => D + 4 + r > 4 * W
      /\ 4 * p + r > 4 * W => D + 4 + r > 4 * W
      /\ e > 4 * W => D + 4 + r > 4 * W
OBVIOUS

LEMMA AbortCause ==
  ASSUME buf \in [0 .. Words - 1 -> Nat], NEW d \in Datagram, InPlace(d),
         NEW i \in 1 .. Len(d), NEW o \in Nat, Start(d, i) = 4 * o, 4 * o + HdrLen <= BufLen,
         NEW m, m = d[i], NEW s, s = Dump(m.kind, o, MsgLen(m)),
         LeavesBuffer(m.kind, o, MsgLen(m), s) \/ MayLeaveBuffer(s)
  PROVE  DatagramLen(d) + 4 + Reach > BufLen
<1>1. /\ MsgLen(m) \in Nat /\ DatagramLen(d) \in Nat
      /\ MsgLen(m) >= HdrLen + FixedLen(m.kind)
      /\ 4 * o + MsgLen(m) <= DatagramLen(d)
      /\ Slack(m.kind) \in {0, 4, 8} /\ FixedLen(m.kind) \in Nat
  BY MessageEnds
<1>2. BufLen \in Nat /\ Reach \in Nat /\ Reach >= 4
  BY BufLenAssumption
<1>3. CASE 4 * o + HdrLen + FixedLen(m.kind) > BufLen \/ 4 * o + MsgLen(m) > BufLen
  <2>1. 4 * o + MsgLen(m) > BufLen
    BY <1>1, <1>2, <1>3 DEF HdrLen
  <2> QED BY <1>1, <1>2, <2>1
<1>4. CASE m.kind = "other" /\ ~(4 * o + HdrLen + FixedLen(m.kind) > BufLen \/ 4 * o + MsgLen(m) > BufLen)
  <2>1. s = <<>>
    BY <1>4 DEF Dump
  <2>2. DOMAIN s = {}
    BY <2>1
  <2> QED BY <1>4, <2>2 DEF LeavesBuffer, MayLeaveBuffer
<1>5. CASE m.kind # "other" /\ ~(4 * o + HdrLen + FixedLen(m.kind) > BufLen \/ 4 * o + MsgLen(m) > BufLen)
  <2>1. PICK j \in DOMAIN s :
          \/ s[j].at >= Words
          \/ 4 * s[j].at + s[j].len > BufLen
          \/ 4 * s[j].at + Reach > BufLen
    BY <1>5 DEF LeavesBuffer, MayLeaveBuffer
  <2>2. DumpElement(m, o, j, s[j])
    BY <1>5, DumpShows
  <2>3. PICK e \in Nat : e = 4 * o + MsgLen(m) + Slack(m.kind)
    BY <1>1
  <2>4. e <= DatagramLen(d) + 8
    BY <1>1, <2>3
  <2>5. PICK p \in Nat : p = s[j].at /\ 4 * p + 4 <= e
    BY <2>2, <2>3 DEF DumpElement
  <2>6. BufLen = 4 * Words /\ Words \in Nat
    BY WordsType
  <2>7. p >= Words \/ 4 * p + Reach > 4 * Words \/ e > 4 * Words
    <3> SUFFICES ASSUME p < Words PROVE 4 * p + Reach > 4 * Words \/ e > 4 * Words
      BY <2>6
    <3>1. PICK x \in Nat : x = s[j].len /\ 4 * p + Align(x) <= e
      BY <2>2, <2>3, <2>5 DEF DumpElement
    <3>2. Align(x) \in Nat /\ x <= Align(x)
      BY AlignType
    <3>3. 4 * p + x > 4 * Words \/ 4 * p + Reach > 4 * Words
      BY <2>1, <2>5, <2>6, <3>1
    <3> QED BY <2>6, <3>1, <3>2, <3>3
  <2>8. /\ p >= Words => DatagramLen(d) + 4 + Reach > 4 * Words
        /\ 4 * p + Reach > 4 * Words => DatagramLen(d) + 4 + Reach > 4 * Words
        /\ e > 4 * Words => DatagramLen(d) + 4 + Reach > 4 * Words
    <3>1. DatagramLen(d) \in Nat /\ Reach \in Nat /\ Words \in Nat
      BY <1>1, <1>2, <2>6
    <3>2. Reach >= 4 /\ e <= DatagramLen(d) + 8 /\ 4 * p + 4 <= e
      BY <1>2, <2>4, <2>5
    <3> QED BY <3>1, <3>2, BehindArith, Zenon
  <2> QED BY <2>6, <2>7, <2>8
<1> QED BY <1>3, <1>4, <1>5

LEMMA StaleArith ==
  ASSUME NEW p \in Nat, NEW o \in Nat, NEW q \in Nat, NEW sw \in Nat, NEW x \in Nat,
         p >= o + q, x >= 4, 4 * p + x <= 4 * o + 4 * q + 4 * sw
  PROVE  \E k \in 0 .. sw - 1 : p = o + q + k /\ x \in 4 .. 4 * sw - 4 * k
<1>1. PICK k \in Nat : p = o + q + k
  <2>1. p - (o + q) \in Nat
    OBVIOUS
  <2> QED BY <2>1
<1>2. 4 * k + x <= 4 * sw
  BY <1>1
<1>3. k \in 0 .. sw - 1 /\ x \in 4 .. 4 * sw - 4 * k
  BY <1>2
<1> QED BY <1>1, <1>3

LEMMA RefusalCause ==
  ASSUME buf \in [0 .. Words - 1 -> Nat], NEW d \in Datagram, InPlace(d),
         NEW i \in 1 .. Len(d), NEW o \in Nat, Start(d, i) = 4 * o, 4 * o + HdrLen <= BufLen,
         NEW m, m = d[i], NEW s, s = Dump(m.kind, o, MsgLen(m)), MayRefuse(m, s)
  PROVE  \/ m.kind = "route" /\ m.family \notin KnownFamily
         \/ ~m.accepted
         \/ m.kind # "other" /\ StaleAttribute(m, o)
<1>1. CASE ~Known(m)
  <2>1. m.kind \in {"link", "addr"} => m.family \in KnownFamily
    <3>1. i \in DOMAIN d
      BY MsgsOfDatagram, LenProperties
    <3> QED BY <3>1, DatagramAssumption
  <2> QED BY <1>1, <2>1 DEF Known
<1>2. CASE \E j \in Len(m.attrs) + 1 .. Len(s) : s[j].at < Words
  <2>1. PICK j \in Len(m.attrs) + 1 .. Len(s) : s[j].at < Words
    BY <1>2
  <2>2. m \in Msgs /\ m.attrs \in Seq(Nat) /\ m.kind \in Kind
    BY MessageAt, AttrSeqsType
  <2>3. PICK n \in Nat : n = Len(m.attrs)
    BY <2>2
  <2>4. m.kind # "other"
    <3> SUFFICES ASSUME m.kind = "other" PROVE FALSE
      OBVIOUS
    <3>1. s = <<>>
      BY DEF Dump
    <3>2. Len(s) = 0
      BY <3>1
    <3> QED BY <2>1, <2>3, <3>2
  <2>5. s \in Seq(Attribute) /\ \A k \in DOMAIN s : DumpElement(m, o, k, s[k])
    BY <2>4, DumpShows
  <2>6. PICK c \in Nat : c = Len(s) /\ DOMAIN s = 1 .. c
    BY <2>5, LenProperties
  <2>7. j \in DOMAIN s /\ j > n /\ j \in Nat
    BY <2>1, <2>3, <2>6
  <2>8. DumpElement(m, o, j, s[j])
    BY <2>5, <2>7
  <2>9. PICK sw \in Nat : Slack(m.kind) = 4 * sw /\ Slack(m.kind) \div 4 = sw
    <3>1. Slack(m.kind) \in {0, 4, 8}
      BY <2>2, FixedType
    <3>2. PICK v \in 0 .. 2 : Slack(m.kind) = 4 * v
      BY <3>1
    <3> QED BY <3>2
  <2>10. PICK q \in Nat : MsgLen(m) = 4 * q /\ MsgLen(m) \div 4 = q
    <3>1. PICK v \in Nat : MsgLen(m) = 4 * v
      BY <2>2, MsgLayout
    <3> QED BY <3>1
  <2>11. PICK p \in Nat : p = s[j].at /\ p < Words /\ 4 * p >= 4 * o + 4 * q
    BY <2>1, <2>3, <2>7, <2>8, <2>10 DEF DumpElement
  <2>12. PICK x \in Nat : /\ x = buf[p] /\ x >= 4
                          /\ 4 * p + Align(x) <= 4 * o + 4 * q + 4 * sw
    BY <2>8, <2>9, <2>10, <2>11 DEF DumpElement
  <2>13. p >= o + q
    BY <2>11
  <2>14. 4 * p + x <= 4 * o + 4 * q + 4 * sw
    <3>1. Align(x) \in Nat /\ x <= Align(x)
      BY AlignType
    <3> QED BY <2>12, <3>1
  <2>15. PICK k \in 0 .. sw - 1 : p = o + q + k /\ x \in 4 .. 4 * sw - 4 * k
    BY <2>12, <2>13, <2>14, StaleArith
  <2>16. p = o + MsgLen(m) \div 4 + k /\ buf[p] \in 4 .. Slack(m.kind) - 4 * k
    BY <2>9, <2>10, <2>12, <2>15
  <2>17. k \in 0 .. Slack(m.kind) \div 4 - 1
    BY <2>9
  <2> QED BY <2>4, <2>11, <2>16, <2>17 DEF StaleAttribute
<1> QED BY <1>1, <1>2 DEF MayRefuse

(* What DumpShowsMessage says of the dump s of message m at word o. *)
RightDump(m, o, s) ==
  /\ Len(m.attrs) <= Len(s)
  /\ \A k \in DOMAIN m.attrs : s[k].len = m.attrs[k]
  /\ \A k \in Len(m.attrs) + 1 .. Len(s) :
       /\ 4 * s[k].at >= 4 * o + MsgLen(m)
       /\ 4 * s[k].at + Align(s[k].len) <= 4 * o + MsgLen(m) + Slack(m.kind)

LEMMA DumpIsRight ==
  ASSUME buf \in [0 .. Words - 1 -> Nat], NEW d \in Datagram, InPlace(d),
         NEW i \in 1 .. Len(d), NEW o \in Nat, Start(d, i) = 4 * o, 4 * o + HdrLen <= BufLen,
         NEW m, m = d[i], NEW s, s = Dump(m.kind, o, MsgLen(m)), m.kind # "other",
         ~LeavesBuffer(m.kind, o, MsgLen(m), s)
  PROVE  RightDump(m, o, s)
<1>1. m \in Msgs /\ m.attrs \in Seq(Nat)
  BY MessageAt, AttrSeqsType
<1>2. PICK n \in Nat : n = Len(m.attrs) /\ DOMAIN m.attrs = 1 .. n
  BY <1>1, LenProperties
<1>3. /\ s \in Seq(Attribute)
      /\ Len(m.attrs) <= Len(s) \/ \E k \in DOMAIN s : s[k].at >= Words
      /\ \A k \in DOMAIN s : DumpElement(m, o, k, s[k])
  BY DumpShows
<1>4. PICK c \in Nat : c = Len(s) /\ DOMAIN s = 1 .. c
  BY <1>3, LenProperties
<1>5. \A k \in DOMAIN s : ~(s[k].at >= Words)
  BY DEF LeavesBuffer
<1>6. \A k \in 1 .. c : s[k].at \in Nat /\ s[k].at < Words
  <2> SUFFICES ASSUME NEW k \in 1 .. c PROVE s[k].at \in Nat /\ s[k].at < Words
    OBVIOUS
  <2>1. PICK p \in Nat : p = s[k].at
    BY <1>3, <1>4 DEF DumpElement
  <2>2. ~(p >= Words)
    BY <1>4, <1>5, <2>1
  <2> QED BY <2>1, <2>2, WordsType
<1>7. n <= c
  BY <1>2, <1>3, <1>4, <1>5
<1>8. \A k \in 1 .. n : s[k].len = m.attrs[k]
  <2> SUFFICES ASSUME NEW k \in 1 .. n PROVE s[k].len = m.attrs[k]
    OBVIOUS
  <2>1. k \in 1 .. c /\ k <= n
    BY <1>7
  <2>2. DumpElement(m, o, k, s[k])
    BY <1>3, <1>4, <2>1
  <2>3. s[k].at < Words => (k <= Len(m.attrs) => s[k].len = m.attrs[k])
    BY <2>2, Zenon DEF DumpElement
  <2> QED BY <1>2, <1>6, <2>1, <2>3
<1>9. \A k \in n + 1 .. c :
        /\ 4 * s[k].at >= 4 * o + MsgLen(m)
        /\ 4 * s[k].at + Align(s[k].len) <= 4 * o + MsgLen(m) + Slack(m.kind)
  <2> SUFFICES ASSUME NEW k \in n + 1 .. c
               PROVE  /\ 4 * s[k].at >= 4 * o + MsgLen(m)
                      /\ 4 * s[k].at + Align(s[k].len) <= 4 * o + MsgLen(m) + Slack(m.kind)
    OBVIOUS
  <2>1. k \in 1 .. c /\ k > n
    OBVIOUS
  <2>2. DumpElement(m, o, k, s[k])
    BY <1>3, <1>4, <2>1
  <2>3. /\ s[k].at < Words =>
             4 * s[k].at + Align(s[k].len) <= 4 * o + MsgLen(m) + Slack(m.kind)
        /\ k > Len(m.attrs) => 4 * s[k].at >= 4 * o + MsgLen(m)
    BY <2>2, Zenon DEF DumpElement
  <2> QED BY <1>2, <1>6, <2>1, <2>3
<1> QED BY <1>2, <1>4, <1>7, <1>8, <1>9 DEF RightDump

-----------------------------------------------------------------------------
(* The inductive invariant.                                                *)

(* netlink_open() has calls left as long as it has not returned. *)
TypeInv == TypeOK /\ (pc = "open" => step <= Len(OpenSteps))

(* h is at a message of the datagram or at its end. *)
AtMessage == \E i \in 1 .. Len(dgram) + 1 : Start(dgram, i) = 4 * h

(* The bytes of d that recvmsg() returns. *)
Received(d) == IF DatagramLen(d) <= BufLen THEN DatagramLen(d) ELSE BufLen

(* None of the four properties is inductive: the buffer must hold the      *)
(* datagram, status must be what is left of it from h on, and h must be    *)
(* where a message starts, which is so because the length that h moves on  *)
(* by is the one in the buffer.                                            *)
Following ==
  pc = "loop" =>
    /\ dgram \in Datagram /\ InPlace(dgram) /\ AtMessage
    /\ truncated = (DatagramLen(dgram) > BufLen)
    /\ status = Received(dgram) - 4 * h

ListenInv ==
  TypeInv /\ Following /\ NoRemnant /\ DumpShowsMessage /\ BufferHolds /\ RefusalHasCause

LEMMA OpenLength == Len(OpenSteps) = 6
BY DEF OpenSteps

LEMMA ReceivedType ==
  ASSUME NEW d \in Datagram
  PROVE  Received(d) \in Nat
BY Layout, BufLenAssumption DEF Received

LEMMA ListenInit == Init => ListenInv
<1> SUFFICES ASSUME Init PROVE ListenInv
  OBVIOUS
<1>1. buf \in [0 .. Words - 1 -> Nat]
  BY BufLenAssumption DEF Init
<1>2. TypeOK /\ step <= Len(OpenSteps)
  <2>1. sockQ \in Seq(Datagram)
    BY DEF Init
  <2>2. step \in 1 .. Len(OpenSteps) + 1 /\ step <= Len(OpenSteps)
    BY OpenLength DEF Init
  <2>3. status \in Int /\ h \in Nat /\ dgram \in Datagram \cup {<<>>}
    BY DEF Init
  <2>4. /\ proc \in {"running", "failed", "unknown", "remnant", "aborted"}
        /\ pc \in {"open", "recv", "loop"}
        /\ overrun \in BOOLEAN /\ truncated \in BOOLEAN
    BY DEF Init
  <2> QED BY <1>1, <2>1, <2>2, <2>3, <2>4 DEF TypeOK
<1>3. DumpShowsMessage /\ BufferHolds /\ RefusalHasCause /\ NoRemnant
  BY DEF Init, DumpShowsMessage, BufferHolds, RefusalHasCause, NoRemnant
<1> QED BY <1>2, <1>3 DEF Init, ListenInv, TypeInv, Following

(* Outside the loop nothing is promised but types and the last dump. *)
LEMMA OutOfLoop ==
  ASSUME ListenInv, TypeInv', pc' # "loop", UNCHANGED shown, proc' \in {"running", "failed", "aborted"}
  PROVE  ListenInv'
<1>1. DumpShowsMessage'
  BY DEF ListenInv, DumpShowsMessage
<1> QED BY <1>1 DEF ListenInv, Following, NoRemnant, BufferHolds, RefusalHasCause

LEMMA OpenStep ==
  ASSUME ListenInv, netlink_open_step \/ netlink_open_fail
  PROVE  ListenInv'
<1>1. CASE netlink_open_step
  <2>1. step' \in 1 .. 7 /\ (pc' = "open" => step' <= 6) /\ pc' \in {"open", "recv"}
    BY <1>1, OpenLength DEF netlink_open_step, At, ListenInv, TypeInv, TypeOK
  <2>2. TypeInv'
    BY <1>1, <2>1, OpenLength DEF netlink_open_step, listenVars, ListenInv, TypeInv, TypeOK
  <2> QED BY <1>1, <2>1, <2>2, OutOfLoop DEF netlink_open_step, At, listenVars
<1>2. CASE netlink_open_fail
  <2>1. TypeInv'
    BY <1>2 DEF netlink_open_fail, listenVars, ListenInv, TypeInv, TypeOK
  <2> QED BY <1>2, <2>1, OutOfLoop DEF netlink_open_fail, At, listenVars
<1> QED BY <1>1, <1>2

LEMMA RetryStep ==
  ASSUME ListenInv, recvmsg_retry \/ recvmsg_fail
  PROVE  ListenInv'
<1>1. TypeInv'
  BY DEF recvmsg_retry, recvmsg_fail, listenVars, ListenInv, TypeInv, TypeOK
<1> QED BY <1>1, OutOfLoop DEF recvmsg_retry, recvmsg_fail, At, listenVars

LEMMA ReceiveStep ==
  ASSUME ListenInv, recvmsg_ok
  PROVE  ListenInv'
<1>1. PICK d \in Datagram : d = Head(sockQ)
  BY DEF recvmsg_ok, ListenInv, TypeInv, TypeOK
<1>2. PICK w \in Seq(Nat) : w = DatagramWords(d) /\ DatagramLen(d) = 4 * Len(w)
  BY Layout
<1>3. /\ buf' = [i \in 0 .. Words - 1 |-> IF i < Len(w) THEN w[i + 1] ELSE buf[i]]
      /\ status' = Received(d)
      /\ truncated' = (DatagramLen(d) > BufLen)
      /\ dgram' = d /\ h' = 0 /\ sockQ' = Tail(sockQ) /\ pc' = "loop" /\ proc' = "running"
      /\ UNCHANGED <<step, overrun, shown>>
  BY <1>1, <1>2 DEF recvmsg_ok, Received, At
<1>4. buf' \in [0 .. Words - 1 -> Nat]
  <2>1. \A i \in 0 .. Words - 1 : buf[i] \in Nat
    BY DEF ListenInv, TypeInv, TypeOK
  <2>2. \A i \in 0 .. Words - 1 : i < Len(w) => w[i + 1] \in Nat
    BY WordsType
  <2> QED BY <1>3, <2>1, <2>2
<1>5. sockQ' \in Seq(Datagram)
  BY <1>3 DEF recvmsg_ok, ListenInv, TypeInv, TypeOK
<1>6. DatagramLen(d) \in Nat /\ status' \in Int /\ truncated' \in BOOLEAN
  BY <1>2, <1>3, BufLenAssumption, ReceivedType
<1>7. TypeInv'
  BY <1>3, <1>4, <1>5, <1>6 DEF ListenInv, TypeInv, TypeOK
<1>8. Following'
  <2>1. InPlace(d)'
    BY <1>2, <1>3 DEF InPlace, Words
  <2>2. AtMessage'
    <3>1. 1 \in 1 .. Len(d) + 1 /\ Start(d, 1) = 4 * 0
      BY Layout
    <3> QED BY <1>3, <3>1 DEF AtMessage
  <2>3. status' = Received(d) - 4 * 0
    BY <1>3, ReceivedType
  <2> QED BY <1>3, <2>1, <2>2, <2>3 DEF Following, InPlace
<1>9. DumpShowsMessage'
  BY <1>3 DEF ListenInv, DumpShowsMessage
<1> QED BY <1>3, <1>7, <1>8, <1>9 DEF ListenInv, NoRemnant, BufferHolds, RefusalHasCause

(* The listener at a message: what a round of the loop starts from. *)
LEMMA AtRound ==
  ASSUME ListenInv, listen_message,
         NEW i \in DOMAIN dgram, Start(dgram, i) = 4 * h
  PROVE  /\ buf \in [0 .. Words - 1 -> Nat]
         /\ dgram \in Datagram /\ InPlace(dgram) /\ i \in 1 .. Len(dgram)
         /\ h \in Nat /\ 4 * h + HdrLen <= BufLen
         /\ buf[h] = MsgLen(dgram[i])
<1>1. buf \in [0 .. Words - 1 -> Nat] /\ h \in Nat
  BY DEF ListenInv, TypeInv, TypeOK
<1>2. PICK d \in Datagram : d = dgram
  BY DEF listen_message, At, ListenInv, Following
<1>3. PICK o \in Nat : o = h
  BY <1>1
<1>4. InPlace(d)
  BY <1>2 DEF listen_message, At, ListenInv, Following, InPlace
<1>5. i \in 1 .. Len(d) /\ Start(d, i) = 4 * o
  BY <1>2, <1>3, Layout
<1>6. 4 * o + HdrLen <= BufLen
  BY <1>3 DEF listen_message
<1>7. o \in 0 .. Words - 1 /\ buf[o] = MsgLen(d[i])
  BY <1>1, <1>4, <1>5, <1>6, LengthRead
<1> QED BY <1>1, <1>2, <1>3, <1>4, <1>5, <1>6, <1>7 DEF InPlace

(* A round of the loop takes h from one message to the next. *)
LEMMA RoundArith ==
  ASSUME NEW o \in Nat, NEW l \in Nat, l % 4 = 0
  PROVE  /\ Align(l) = l /\ l \div 4 \in Nat /\ 4 * (o + l \div 4) = 4 * o + l
BY DEF Align

LEMMA MessageStep ==
  ASSUME ListenInv, listen_message
  PROVE  ListenInv'
<1>1. PICK i \in DOMAIN dgram :
        LET m == dgram[i]
            len == buf[h]
            attrs == Dump(m.kind, h, len)
        IN  /\ Start(dgram, i) = 4 * h
            /\ \/ /\ MayRefuse(m, attrs)
                  /\ proc' = "unknown"
                  /\ UNCHANGED <<status, h, shown>>
               \/ /\ Known(m)
                  /\ LeavesBuffer(m.kind, h, len, attrs) \/ MayLeaveBuffer(attrs)
                  /\ proc' = "aborted"
                  /\ UNCHANGED <<status, h, shown>>
               \/ /\ Known(m)
                  /\ ~LeavesBuffer(m.kind, h, len, attrs)
                  /\ status' = status - Align(len)
                  /\ h' = h + Align(len) \div 4
                  /\ shown' = [msg |-> m, at |-> h, attrs |-> attrs]
                  /\ UNCHANGED proc
  BY DEF listen_message
<1>2. /\ pc = "loop" /\ pc' = "loop" /\ proc = "running"
      /\ UNCHANGED <<step, sockQ, overrun, buf, truncated, dgram>>
  BY DEF listen_message, At
<1>3. buf \in [0 .. Words - 1 -> Nat]
  BY DEF ListenInv, TypeInv, TypeOK
<1>4. PICK d \in Datagram : d = dgram
  BY <1>2 DEF ListenInv, Following
<1>5. PICK o \in Nat : o = h
  BY DEF ListenInv, TypeInv, TypeOK
<1>6. PICK m : m = d[i]
  OBVIOUS
<1>7. /\ InPlace(d) /\ i \in 1 .. Len(d) /\ 4 * o + HdrLen <= BufLen /\ Start(d, i) = 4 * o
      /\ buf[h] = MsgLen(m)
  BY <1>1, <1>4, <1>5, <1>6, AtRound
<1>8. PICK s : s = Dump(m.kind, o, MsgLen(m))
  OBVIOUS
<1>9. Dump(dgram[i].kind, h, buf[h]) = s /\ dgram[i] = m
  BY <1>4, <1>5, <1>6, <1>7, <1>8
<1>10. CASE MayRefuse(m, s) /\ proc' = "unknown" /\ UNCHANGED <<status, h, shown>>
  <2>1. TypeInv' /\ Following'
    BY <1>2, <1>10 DEF ListenInv, TypeInv, TypeOK, Following, InPlace, AtMessage
  <2>2. DumpShowsMessage'
    BY <1>10 DEF ListenInv, DumpShowsMessage
  <2>3. \/ m.kind = "route" /\ m.family \notin KnownFamily
        \/ ~m.accepted
        \/ m.kind # "other" /\ StaleAttribute(m, o)
    BY <1>3, <1>6, <1>7, <1>8, <1>10, RefusalCause
  <2>4. StaleAttribute(m, o) => StaleAttribute(m, h)'
    BY <1>2, <1>5, <1>10 DEF StaleAttribute
  <2>5. RefusalHasCause'
    BY <1>2, <1>4, <1>5, <1>6, <1>7, <1>10, <2>3, <2>4 DEF RefusalHasCause, StaleAttribute
  <2> QED BY <1>10, <2>1, <2>2, <2>5 DEF ListenInv, NoRemnant, BufferHolds
<1>11. CASE /\ LeavesBuffer(m.kind, o, MsgLen(m), s) \/ MayLeaveBuffer(s)
            /\ proc' = "aborted" /\ UNCHANGED <<status, h, shown>>
  <2>1. TypeInv' /\ Following'
    BY <1>2, <1>11 DEF ListenInv, TypeInv, TypeOK, Following, InPlace, AtMessage
  <2>2. DumpShowsMessage'
    BY <1>11 DEF ListenInv, DumpShowsMessage
  <2>3. DatagramLen(d) + 4 + Reach > BufLen
    BY <1>3, <1>6, <1>7, <1>8, <1>11, AbortCause
  <2>4. BufferHolds'
    BY <1>2, <1>4, <2>3 DEF BufferHolds
  <2> QED BY <1>11, <2>1, <2>2, <2>4 DEF ListenInv, NoRemnant, RefusalHasCause
<1>12. CASE /\ ~LeavesBuffer(m.kind, o, MsgLen(m), s)
            /\ status' = status - Align(MsgLen(m)) /\ h' = o + Align(MsgLen(m)) \div 4
            /\ shown' = [msg |-> m, at |-> o, attrs |-> s] /\ UNCHANGED proc
  <2>1. PICK l \in Nat : l = MsgLen(m) /\ l % 4 = 0 /\ Start(d, i + 1) = 4 * o + l
    BY <1>6, <1>7, MessageAt
  <2>2. Align(l) = l /\ l \div 4 \in Nat /\ 4 * (o + l \div 4) = 4 * o + l
    BY <2>1, RoundArith
  <2>3. status' = status - l /\ h' = o + l \div 4
    BY <1>12, <2>1, <2>2
  <2>4. PICK r \in Nat : r = Received(d)
    BY ReceivedType
  <2>5. status = r - 4 * o
    BY <1>2, <1>4, <1>5, <2>4 DEF ListenInv, Following
  <2>6. status' \in Int /\ h' \in Nat /\ status' = r - 4 * h'
    BY <2>2, <2>3, <2>5
  <2>7. TypeInv'
    BY <1>2, <1>12, <2>6 DEF ListenInv, TypeInv, TypeOK
  <2>8. AtMessage'
    <3>1. i + 1 \in 1 .. Len(d) + 1
      BY <1>7, Layout
    <3>2. Start(d, i + 1) = 4 * h'
      BY <2>1, <2>2, <2>3
    <3> QED BY <1>2, <1>4, <3>1, <3>2 DEF AtMessage
  <2>9. Following'
    <3>1. InPlace(dgram)'
      BY <1>2, <1>4, <1>7 DEF InPlace
    <3>2. dgram' \in Datagram /\ truncated' = (DatagramLen(dgram') > BufLen)
      BY <1>2, <1>4 DEF ListenInv, Following
    <3>3. status' = Received(dgram') - 4 * h'
      BY <1>2, <1>4, <2>4, <2>6
    <3> QED BY <2>8, <3>1, <3>2, <3>3 DEF Following
  <2>10. DumpShowsMessage'
    <3>1. m.kind # "other" => RightDump(m, o, s)
      BY <1>3, <1>6, <1>7, <1>8, <1>12, DumpIsRight
    <3> QED BY <1>12, <3>1 DEF DumpShowsMessage, RightDump
  <2> QED BY <1>2, <1>12, <2>7, <2>9, <2>10 DEF ListenInv, NoRemnant, BufferHolds, RefusalHasCause
<1> QED BY <1>1, <1>5, <1>7, <1>9, <1>10, <1>11, <1>12

(* After the loop nothing is left of a datagram that was not cut off, and  *)
(* the loop only leaves the buffer when one was.                           *)
LEMMA EndStep ==
  ASSUME ListenInv, listen_off \/ listen_end
  PROVE  ListenInv'
<1>0. pc = "loop" /\ proc = "running"
  BY DEF listen_off, listen_end, At
<1>1. PICK d \in Datagram : d = dgram
  BY <1>0 DEF ListenInv, Following
<1>2. PICK o \in Nat : o = h
  BY DEF ListenInv, TypeInv, TypeOK
<1>3. PICK n \in Nat : n = DatagramLen(d)
  BY Layout
<1>4. BufLen \in Nat
  BY BufLenAssumption
<1>5. /\ truncated = (n > BufLen)
      /\ status = (IF n <= BufLen THEN n ELSE BufLen) - 4 * o
  BY <1>0, <1>1, <1>2, <1>3 DEF ListenInv, Following, Received
<1>6. CASE listen_off
  <2>1. AnotherMessage /\ 4 * o + 16 > BufLen
    BY <1>2, <1>6 DEF listen_off, HdrLen
  <2>2. PICK i \in 1 .. Len(d) + 1 : Start(d, i) = 4 * o
    BY <1>0, <1>1, <1>2 DEF ListenInv, Following, AtMessage
  <2>3. 4 * o <= n
    <3>1. CASE i = Len(d) + 1
      BY <1>3, <2>2, <3>1, Layout
    <3>2. CASE i \in 1 .. Len(d)
      BY <1>3, <2>2, <3>2, MessageEnds
    <3>3. i = Len(d) + 1 \/ i \in 1 .. Len(d)
      BY Layout
    <3> QED BY <3>1, <3>2, <3>3
  <2>4. n > BufLen
    <3> SUFFICES ASSUME n <= BufLen PROVE FALSE
      BY <1>4
    <3>1. status = n - 4 * o
      BY <1>5
    <3>2. status < 0 \/ status >= 16
      BY <2>1 DEF AnotherMessage, HdrLen
    <3> QED BY <1>4, <2>1, <2>3, <3>1, <3>2
  <2>5. DatagramLen(d) + 4 + Reach > BufLen
    BY <1>3, <1>4, <2>4, BufLenAssumption
  <2>6. /\ proc' = "aborted" /\ UNCHANGED <<pc, step, sockQ, overrun, listenVars>>
    BY <1>6 DEF listen_off
  <2>7. TypeInv' /\ Following' /\ DumpShowsMessage'
    BY <2>6 DEF listenVars, ListenInv, TypeInv, TypeOK, Following, InPlace, AtMessage, DumpShowsMessage
  <2>8. BufferHolds'
    BY <1>1, <2>5, <2>6 DEF BufferHolds, listenVars
  <2> QED BY <2>6, <2>7, <2>8 DEF ListenInv, NoRemnant, RefusalHasCause
<1>7. CASE listen_end
  <2>1. truncated \/ status = 0
    <3> SUFFICES ASSUME ~truncated PROVE status = 0
      OBVIOUS
    <3>0. n <= BufLen
      <4>1. ~(n > BufLen)
        BY <1>5
      <4> QED BY <1>4, <4>1
    <3>1. status = n - 4 * o
      BY <1>5, <3>0
    <3>2. ~(status >= 16)
      BY <1>7 DEF listen_end, AnotherMessage, HdrLen
    <3>3. PICK i \in 1 .. Len(d) + 1 : Start(d, i) = 4 * o
      BY <1>0, <1>1, <1>2 DEF ListenInv, Following, AtMessage
    <3>4. CASE i = Len(d) + 1
      BY <1>3, <3>1, <3>3, <3>4, Layout
    <3>5. CASE i \in 1 .. Len(d)
      <4>1. PICK l \in Nat : l >= 24 /\ 4 * o + l <= n
        BY <1>3, <3>3, <3>5, MessageEnds
      <4> QED BY <3>1, <3>2, <4>1
    <3>6. i = Len(d) + 1 \/ i \in 1 .. Len(d)
      BY Layout
    <3> QED BY <3>4, <3>5, <3>6
  <2>2. pc' = "recv" /\ proc' = proc /\ UNCHANGED <<step, sockQ, overrun, listenVars>>
    BY <1>7, <2>1 DEF listen_end
  <2>3. TypeInv'
    BY <2>2 DEF listenVars, ListenInv, TypeInv, TypeOK
  <2> QED BY <1>0, <2>2, <2>3, OutOfLoop DEF listenVars
<1> QED BY <1>6, <1>7

LEMMA KernelStep ==
  ASSUME ListenInv, Kernel
  PROVE  ListenInv'
<1>1. PICK d \in Datagram : KernelSend(d)
  BY DEF Kernel
<1>2. sockQ' \in Seq(Datagram) /\ overrun' \in BOOLEAN
  <2>1. sockQ \in Seq(Datagram) /\ overrun \in BOOLEAN
    BY DEF ListenInv, TypeInv, TypeOK
  <2>2. Append(sockQ, d) \in Seq(Datagram)
    BY <2>1
  <2> QED BY <1>1, <2>1, <2>2 DEF KernelSend
<1>3. UNCHANGED <<proc, pc, step, listenVars>> /\ proc = "running"
  BY <1>1 DEF KernelSend
<1>4. TypeInv' /\ Following'
  BY <1>2, <1>3 DEF listenVars, ListenInv, TypeInv, TypeOK, Following, InPlace, AtMessage
<1>5. DumpShowsMessage'
  BY <1>3 DEF listenVars, ListenInv, DumpShowsMessage
<1> QED BY <1>3, <1>4, <1>5 DEF ListenInv, NoRemnant, BufferHolds, RefusalHasCause

LEMMA ListenStep == ListenInv /\ [Next]_vars => ListenInv'
<1> SUFFICES ASSUME ListenInv, [Next]_vars PROVE ListenInv'
  OBVIOUS
<1>1. CASE Terminated \/ UNCHANGED vars
  <2>1. TypeInv' /\ Following' /\ NoRemnant'
    BY <1>1 DEF Terminated, vars, ListenInv, TypeInv, TypeOK, Following, InPlace, AtMessage, NoRemnant
  <2>2. DumpShowsMessage' /\ BufferHolds'
    BY <1>1 DEF Terminated, vars, ListenInv, DumpShowsMessage, BufferHolds
  <2>3. RefusalHasCause'
    BY <1>1 DEF Terminated, vars, ListenInv, RefusalHasCause, StaleAttribute
  <2> QED BY <2>1, <2>2, <2>3 DEF ListenInv
<1> QED BY <1>1, OpenStep, ReceiveStep, RetryStep, MessageStep, EndStep, KernelStep
        DEF Next, yalin

LEMMA ListenAlways == Spec => []ListenInv
BY ListenInit, ListenStep, PTL DEF Spec

-----------------------------------------------------------------------------
(* The listener implements the monitor.                                    *)

(* Where messages start only goes up. *)
LEMMA StartsIncrease ==
  ASSUME NEW d \in Datagram
  PROVE  \A j \in 1 .. Len(d) + 1 : \A i \in 1 .. j - 1 : Start(d, i) + 24 <= Start(d, j)
<1> DEFINE Up(j) == \A i \in 1 .. j - 1 : Start(d, i) + 24 <= Start(d, j)
           K == {k \in Nat : k + 1 \in 1 .. Len(d) + 1 => Up(k + 1)}
<1>0. Len(d) \in Nat
  BY Layout
<1>1. 0 \in K
  OBVIOUS
<1>2. ASSUME NEW k \in Nat, k \in K PROVE k + 1 \in K
  <2> SUFFICES ASSUME k + 2 \in 1 .. Len(d) + 1, NEW i \in 1 .. k + 1
               PROVE  Start(d, i) + 24 <= Start(d, k + 2)
    OBVIOUS
  <2>1. k + 1 \in 1 .. Len(d)
    BY <1>0
  <2>2. PICK a \in Nat : a = Start(d, k + 1)
    BY <2>1, MessageAt
  <2>3. PICK l \in Nat : l = MsgLen(d[k + 1]) /\ l >= 24
    BY <2>1, MessageAt
  <2>4. Start(d, k + 2) = a + l
    <3>1. Start(d, (k + 1) + 1) = Start(d, k + 1) + MsgLen(d[k + 1])
      BY <2>1, MessageAt
    <3>2. (k + 1) + 1 = k + 2
      OBVIOUS
    <3> QED BY <2>2, <2>3, <3>1, <3>2
  <2>5. CASE i = k + 1
    BY <2>2, <2>3, <2>4, <2>5
  <2>6. CASE i \in 1 .. k
    <3>1. Start(d, i) + 24 <= Start(d, k + 1)
      BY <1>2, <2>1, <2>6
    <3>2. i \in 1 .. Len(d)
      BY <1>0, <2>1, <2>6
    <3>3. Start(d, i) \in Nat
      BY <3>2, MessageAt
    <3> QED BY <2>2, <2>3, <2>4, <3>1, <3>3
  <2> QED BY <2>5, <2>6
<1>3. \A k \in Nat : k \in K
  <2>1. K \subseteq Nat
    OBVIOUS
  <2> HIDE DEF K
  <2> QED BY <1>1, <1>2, <2>1, InductionOnSet
<1>4. ASSUME NEW j \in 1 .. Len(d) + 1 PROVE Up(j)
  <2>1. j - 1 \in Nat /\ (j - 1) + 1 = j
    BY <1>0
  <2>2. (j - 1) + 1 \in 1 .. Len(d) + 1 => Up((j - 1) + 1)
    BY <1>3, <2>1
  <2> QED BY <2>1, <2>2
<1> QED BY <1>4

(* The messages in front of the i-th one are those that start before it. *)
LEMMA DumpedBefore ==
  ASSUME NEW d \in Datagram, NEW i \in 1 .. Len(d) + 1
  PROVE  Cardinality({j \in DOMAIN d : Start(d, j) < Start(d, i)}) + 1 = i
<1>0. Len(d) \in Nat /\ DOMAIN d = 1 .. Len(d)
  BY Layout
<1>1. \A j \in 1 .. Len(d) + 1 : Start(d, j) \in Nat
  <2> SUFFICES ASSUME NEW j \in 1 .. Len(d) + 1 PROVE Start(d, j) \in Nat
    OBVIOUS
  <2>1. CASE j \in 1 .. Len(d)
    BY <2>1, MessageAt
  <2>2. CASE j = Len(d) + 1
    BY <2>2, Layout
  <2> QED BY <1>0, <2>1, <2>2
<1>2. ASSUME NEW j \in 1 .. Len(d) PROVE Start(d, j) < Start(d, i) <=> j \in 1 .. i - 1
  <2>1. j \in 1 .. Len(d) + 1
    BY <1>0
  <2>2. PICK a, b \in Nat : a = Start(d, i) /\ b = Start(d, j)
    BY <1>1, <2>1
  <2>3. CASE j \in 1 .. i - 1
    BY <2>2, <2>3, StartsIncrease
  <2>4. CASE j = i
    BY <2>2, <2>4
  <2>5. CASE i \in 1 .. j - 1
    <3>1. a + 24 <= b
      BY <2>1, <2>2, <2>5, StartsIncrease
    <3> QED BY <2>2, <2>5, <3>1
  <2> QED BY <1>0, <2>3, <2>4, <2>5
<1>3. {j \in DOMAIN d : Start(d, j) < Start(d, i)} = 1 .. i - 1
  BY <1>0, <1>2
<1>4. Cardinality(1 .. i - 1) = i - 1
  <2>1. Cardinality(1 .. i - 1) = IF 1 > i - 1 THEN 0 ELSE (i - 1) - 1 + 1
    BY <1>0, FS_Interval
  <2> QED BY <1>0, <2>1
<1>5. Cardinality({j \in DOMAIN d : Start(d, j) < Start(d, i)}) = i - 1
  BY <1>3, <1>4, Zenon
<1>6. (i - 1) + 1 = i
  BY <1>0
<1> QED BY <1>5, <1>6

(* The messages on their way, with their tags. *)
Tag == UNION {{Tagged(d)[i] : i \in DOMAIN d} : d \in Datagram}

LEMMA TaggedType ==
  ASSUME NEW d \in Datagram
  PROVE  /\ Tagged(d) \in Seq(Tag) /\ Len(Tagged(d)) = Len(d) /\ Len(d) \in Nat /\ Len(d) >= 1
         /\ \A i \in 1 .. Len(d) : Tagged(d)[i] = [msg |-> d[i], whole |-> Whole(d, i)]
<1>1. Len(d) \in Nat /\ Len(d) >= 1 /\ DOMAIN d = 1 .. Len(d)
  BY Layout
<1>2. \A i \in 1 .. Len(d) : Tagged(d)[i] \in Tag
  BY <1>1 DEF Tag
<1>3. Tagged(d) = [i \in 1 .. Len(d) |-> [msg |-> d[i], whole |-> Whole(d, i)]]
  BY <1>1 DEF Tagged
<1>4. Tagged(d) \in [1 .. Len(d) -> Tag]
  BY <1>2, <1>3
<1> QED BY <1>1, <1>3, <1>4

(* What is queued at the socket. *)
Tags(q) == [i \in DOMAIN q |-> Tagged(q[i])]
Queued(q) == FlattenSeq(Tags(q))

LEMMA TagsType ==
  ASSUME NEW q \in Seq(Datagram)
  PROVE  /\ Tags(q) \in Seq(Seq(Tag)) /\ Len(Tags(q)) = Len(q) /\ Len(q) \in Nat
         /\ \A i \in 1 .. Len(q) : Tags(q)[i] = Tagged(q[i])
         /\ Queued(q) \in Seq(Tag)
<1>1. Len(q) \in Nat /\ DOMAIN q = 1 .. Len(q) /\ \A i \in 1 .. Len(q) : q[i] \in Datagram
  BY LenProperties, ElementOfSeq
<1>2. \A i \in 1 .. Len(q) : Tagged(q[i]) \in Seq(Tag)
  BY <1>1, TaggedType
<1>3. Tags(q) = [i \in 1 .. Len(q) |-> Tagged(q[i])]
  BY <1>1 DEF Tags
<1>4. Tags(q) \in [1 .. Len(q) -> Seq(Tag)]
  BY <1>2, <1>3
<1>5. Tags(q) \in Seq(Seq(Tag)) /\ Len(Tags(q)) = Len(q)
  BY <1>1, <1>4
<1>6. Queued(q) \in Seq(Tag)
  BY <1>5, FlattenType DEF Queued
<1> QED BY <1>1, <1>3, <1>5, <1>6

LEMMA QueuedAppend ==
  ASSUME NEW q \in Seq(Datagram), NEW d \in Datagram
  PROVE  Queued(Append(q, d)) = Queued(q) \o Tagged(d)
<1> DEFINE r == Append(q, d)
<1>1. /\ r \in Seq(Datagram) /\ Len(r) = Len(q) + 1 /\ Len(q) \in Nat
      /\ \A i \in 1 .. Len(q) : r[i] = q[i]
      /\ r[Len(q) + 1] = d
  BY AppendProperties, LenProperties
<1> HIDE DEF r
<1>2. /\ Tags(q) \in Seq(Seq(Tag)) /\ Len(Tags(q)) = Len(q)
      /\ \A i \in 1 .. Len(q) : Tags(q)[i] = Tagged(q[i])
  BY TagsType
<1>3. /\ Tags(r) \in Seq(Seq(Tag)) /\ Len(Tags(r)) = Len(r)
      /\ \A i \in 1 .. Len(r) : Tags(r)[i] = Tagged(r[i])
  BY <1>1, TagsType
<1>4. PICK s \in Seq(Tag) : s = Tagged(d)
  BY TaggedType
<1>5. PICK t \in Seq(Seq(Tag)) : t = Append(Tags(q), s)
  BY <1>2, AppendProperties
<1>6. /\ Len(t) = Len(q) + 1 /\ t[Len(q) + 1] = s
      /\ \A i \in 1 .. Len(q) : t[i] = Tags(q)[i]
  BY <1>2, <1>5, AppendProperties
<1>7. ASSUME NEW i \in 1 .. Len(q) + 1 PROVE Tags(r)[i] = t[i]
  <2>1. CASE i \in 1 .. Len(q)
    <3>1. Tags(r)[i] = Tagged(r[i])
      BY <1>1, <1>3
    <3> QED BY <1>1, <1>2, <1>6, <2>1, <3>1
  <2>2. CASE i = Len(q) + 1
    <3>1. Tags(r)[i] = Tagged(r[i])
      BY <1>1, <1>3
    <3> QED BY <1>1, <1>4, <1>6, <2>2, <3>1
  <2> QED BY <1>1, <2>1, <2>2
<1>8. Tags(r) = t
  BY <1>1, <1>3, <1>6, <1>7, SeqEqual
<1>9. FlattenSeq(t) = FlattenSeq(Tags(q)) \o s
  BY <1>2, <1>5, FlattenAppend
<1> QED BY <1>4, <1>8, <1>9 DEF Queued, r

LEMMA FlattenOne ==
  ASSUME NEW S, NEW s \in Seq(S)
  PROVE  FlattenSeq(<<s>>) = s
<1>1. <<>> \in Seq(Seq(S)) /\ Append(<<>>, s) = <<s>>
  OBVIOUS
<1>2. FlattenSeq(Append(<<>>, s)) = FlattenSeq(<<>>) \o s
  BY <1>1, FlattenAppend
<1>3. <<>> \o s = s
  BY ConcatEmptySeq
<1> QED BY <1>1, <1>2, <1>3, FlattenEmpty

LEMMA QueuedHead ==
  ASSUME NEW q \in Seq(Datagram), q # <<>>
  PROVE  Queued(q) = Tagged(Head(q)) \o Queued(Tail(q))
<1>1. PICK d \in Datagram : d = Head(q)
  BY HeadTailProperties
<1>2. PICK t \in Seq(Datagram) : t = Tail(q)
  BY HeadTailProperties
<1>3. /\ Len(q) \in Nat /\ Len(q) >= 1 /\ Len(t) = Len(q) - 1 /\ q[1] = d
      /\ \A i \in 1 .. Len(t) : t[i] = q[i + 1]
  BY <1>1, <1>2, HeadTailProperties, EmptySeq
<1>4. PICK s \in Seq(Tag) : s = Tagged(d)
  BY TaggedType
<1>5. /\ Tags(q) \in Seq(Seq(Tag)) /\ Len(Tags(q)) = Len(q)
      /\ \A i \in 1 .. Len(q) : Tags(q)[i] = Tagged(q[i])
  BY TagsType
<1>6. /\ Tags(t) \in Seq(Seq(Tag)) /\ Len(Tags(t)) = Len(t)
      /\ \A i \in 1 .. Len(t) : Tags(t)[i] = Tagged(t[i])
  BY TagsType
<1>7. <<s>> \in Seq(Seq(Tag)) /\ Len(<<s>>) = 1 /\ <<s>>[1] = s
  OBVIOUS
<1>8. PICK u \in Seq(Seq(Tag)) : u = <<s>> \o Tags(t)
  BY <1>6, <1>7, ConcatProperties
<1>9. /\ Len(u) = 1 + Len(t)
      /\ \A i \in 1 .. 1 + Len(t) : u[i] = IF i <= 1 THEN <<s>>[i] ELSE Tags(t)[i - 1]
  BY <1>6, <1>7, <1>8, ConcatProperties
<1>10. ASSUME NEW i \in 1 .. Len(q) PROVE Tags(q)[i] = u[i]
  <2>0. Tags(q)[i] = Tagged(q[i]) /\ i \in 1 .. 1 + Len(t)
    BY <1>3, <1>5
  <2>1. CASE i = 1
    BY <1>3, <1>4, <1>7, <1>9, <2>0, <2>1
  <2>2. CASE i # 1
    <3>1. i - 1 \in 1 .. Len(t) /\ (i - 1) + 1 = i
      BY <1>3, <2>2
    <3>2. t[i - 1] = q[i]
      BY <1>3, <3>1
    <3>3. u[i] = Tags(t)[i - 1]
      BY <1>9, <2>0, <2>2
    <3> QED BY <1>6, <2>0, <3>1, <3>2, <3>3
  <2> QED BY <2>1, <2>2
<1>11. Len(u) = Len(q)
  BY <1>3, <1>9
<1>12. Tags(q) = u
  BY <1>5, <1>8, <1>10, <1>11, SeqEqual
<1>13. FlattenSeq(u) = FlattenSeq(<<s>>) \o FlattenSeq(Tags(t))
  BY <1>6, <1>7, <1>8, FlattenConcat
<1>14. FlattenSeq(<<s>>) = s
  BY FlattenOne
<1> QED BY <1>1, <1>2, <1>4, <1>12, <1>13, <1>14 DEF Queued

(* What is left of datagram d from its i-th message on. *)
Rest(d, i) == SubSeq(Tagged(d), i, Len(d))

LEMMA RestIs ==
  ASSUME NEW d \in Datagram, NEW i \in 1 .. Len(d) + 1
  PROVE  /\ Rest(d, i) \in Seq(Tag)
         /\ Len(Rest(d, i)) = Len(d) - i + 1
         /\ \A k \in 1 .. Len(d) - i + 1 : Rest(d, i)[k] = Tagged(d)[i + k - 1]
         /\ Rest(d, 1) = Tagged(d)
         /\ Rest(d, Len(d) + 1) = <<>>
         /\ i <= Len(d) => /\ Rest(d, i) # <<>> /\ Head(Rest(d, i)).msg = d[i]
                           /\ Tail(Rest(d, i)) = Rest(d, i + 1)
<1>1. PICK s \in Seq(Tag) : s = Tagged(d)
  BY TaggedType
<1>2. PICK n \in Nat : n = Len(d) /\ n = Len(s) /\ n >= 1
  BY <1>1, TaggedType
<1>3. i \in 1 .. n + 1
  BY <1>2
<1>4. Rest(d, i) = SubSeq(s, i, n) /\ Rest(d, i + 1) = SubSeq(s, i + 1, n)
  BY <1>1, <1>2 DEF Rest
<1>5. \A k \in i .. n : s[k] \in Tag
  BY <1>2, <1>3, ElementOfSeq
<1>6. /\ SubSeq(s, i, n) \in Seq(Tag)
      /\ Len(SubSeq(s, i, n)) = IF i <= n THEN n - i + 1 ELSE 0
      /\ \A k \in 1 .. n - i + 1 : SubSeq(s, i, n)[k] = s[i + k - 1]
  BY <1>3, <1>5, SubSeqProperties
<1>7. Len(SubSeq(s, i, n)) = n - i + 1
  BY <1>3, <1>6
<1>8. Rest(d, 1) = Tagged(d)
  BY <1>1, <1>2, SubSeqFull DEF Rest
<1>9. Rest(d, Len(d) + 1) = <<>>
  BY <1>1, <1>2, SubSeqEmpty DEF Rest
<1>10. ASSUME i <= n
       PROVE  /\ Rest(d, i) # <<>> /\ Head(Rest(d, i)).msg = d[i]
              /\ Tail(Rest(d, i)) = Rest(d, i + 1)
  <2>1. i \in 1 .. Len(s) /\ n \in i .. Len(s)
    BY <1>2, <1>3, <1>10
  <2>2. Head(SubSeq(s, i, n)) = s[i] /\ Tail(SubSeq(s, i, n)) = SubSeq(s, i + 1, n)
    BY <2>1, HeadTailOfSubSeq
  <2>3. s[i] = [msg |-> d[i], whole |-> Whole(d, i)]
    BY <1>1, <1>2, <2>1, TaggedType
  <2>4. SubSeq(s, i, n) # <<>>
    <3>1. Len(SubSeq(s, i, n)) >= 1
      BY <1>3, <1>7, <1>10
    <3>2. Len(<<>>) = 0
      BY EmptySeq
    <3>3. ~(0 >= 1)
      OBVIOUS
    <3> QED BY <3>1, <3>2, <3>3, Zenon
  <2>5. Rest(d, i) # <<>> /\ Head(Rest(d, i)) = s[i] /\ Tail(Rest(d, i)) = Rest(d, i + 1)
    BY <1>4, <2>2, <2>4, Zenon
  <2>6. s[i].msg = d[i]
    BY <2>3
  <2> QED BY <2>5, <2>6, Zenon
<1> QED BY <1>1, <1>2, <1>4, <1>6, <1>7, <1>8, <1>9, <1>10

(* The messages on their way and the one on show, as M is given them. *)
OnTheWay == InBuffer \o Queued(sockQ)
OnShow == IF shown = <<>> THEN <<>> ELSE shown.msg

MStep == [M!MNext]_(M!mvars)

LEMMA MapsToNothing ==
  ASSUME UNCHANGED <<proc, shown>>, OnTheWay' = OnTheWay
  PROVE  MStep
<1>1. OnShow' = OnShow
  BY DEF OnShow
<1> QED BY <1>1 DEF MStep, M!mvars, OnTheWay, OnShow, Queued, Tags

LEMMA MapsToMStop ==
  ASSUME proc = "running", proc' # "running", UNCHANGED shown, OnTheWay' = OnTheWay
  PROVE  MStep
<1>1. OnShow' = OnShow
  BY DEF OnShow
<1> QED BY <1>1 DEF MStep, M!MNext, M!MStop, OnTheWay, OnShow, Queued, Tags

LEMMA MapsToArrive ==
  ASSUME proc = "running", UNCHANGED <<proc, shown>>, Len(OnTheWay') > Len(OnTheWay),
         SubSeq(OnTheWay', 1, Len(OnTheWay)) = OnTheWay
  PROVE  MStep
<1>1. OnShow' = OnShow
  BY DEF OnShow
<1> QED BY <1>1 DEF MStep, M!MNext, M!Arrive, OnTheWay, OnShow, Queued, Tags

LEMMA MapsToShow ==
  ASSUME proc = "running", UNCHANGED proc, OnTheWay # <<>>, OnShow' = Head(OnTheWay).msg,
         OnTheWay' = Tail(OnTheWay)
  PROVE  MStep
BY DEF MStep, M!MNext, M!Show, OnTheWay, OnShow, Queued, Tags

LEMMA MapsToPassOver ==
  ASSUME proc = "running", UNCHANGED <<proc, shown>>,
         NEW n \in 1 .. Len(OnTheWay), \A i \in 1 .. n : ~OnTheWay[i].whole,
         OnTheWay' = SubSeq(OnTheWay, n + 1, Len(OnTheWay))
  PROVE  MStep
<1>1. OnShow' = OnShow
  BY DEF OnShow
<1> QED BY <1>1 DEF MStep, M!MNext, M!PassOver, OnTheWay, OnShow, Queued, Tags

(* InBuffer is what is left from the message at h. *)
LEMMA LeftInBuffer ==
  ASSUME NEW d \in Datagram, NEW o \in Nat, NEW i \in 1 .. Len(d) + 1, Start(d, i) = 4 * o
  PROVE  SubSeq(Tagged(d), Cardinality({j \in DOMAIN d : Start(d, j) < 4 * o}) + 1, Len(d))
           = Rest(d, i)
<1>1. Cardinality({j \in DOMAIN d : Start(d, j) < 4 * o}) + 1 = i
  BY DumpedBefore
<1> QED BY <1>1, Zenon DEF Rest

LEMMA WayInLoop ==
  ASSUME NEW d \in Datagram, NEW o \in Nat, NEW i \in 1 .. Len(d) + 1, Start(d, i) = 4 * o
  PROVE  /\ pc = "loop" /\ dgram = d /\ h = o => OnTheWay = Rest(d, i) \o Queued(sockQ)
         /\ pc' = "loop" /\ dgram' = d /\ h' = o => OnTheWay' = Rest(d, i) \o Queued(sockQ')
<1>1. SubSeq(Tagged(d), Cardinality({j \in DOMAIN d : Start(d, j) < 4 * o}) + 1, Len(d))
        = Rest(d, i)
  BY LeftInBuffer
<1>2. ASSUME pc = "loop", dgram = d, h = o PROVE OnTheWay = Rest(d, i) \o Queued(sockQ)
  BY <1>1, <1>2 DEF OnTheWay, InBuffer
<1>3. ASSUME pc' = "loop", dgram' = d, h' = o PROVE OnTheWay' = Rest(d, i) \o Queued(sockQ')
  BY <1>1, <1>3 DEF OnTheWay, InBuffer, Queued, Tags
<1> QED BY <1>2, <1>3

LEMMA WayElsewhere ==
  ASSUME NEW q \in Seq(Datagram)
  PROVE  /\ pc # "loop" /\ sockQ = q => OnTheWay = Queued(q)
         /\ pc' # "loop" /\ sockQ' = q => OnTheWay' = Queued(q)
<1>1. <<>> \o Queued(q) = Queued(q)
  BY TagsType, ConcatEmptySeq
<1>2. ASSUME pc # "loop", sockQ = q PROVE OnTheWay = Queued(q)
  BY <1>1, <1>2 DEF OnTheWay, InBuffer
<1>3. ASSUME pc' # "loop", sockQ' = q PROVE OnTheWay' = Queued(q)
  BY <1>1, <1>3 DEF OnTheWay, InBuffer, Queued, Tags
<1> QED BY <1>2, <1>3

LEMMA WayStays ==
  ASSUME UNCHANGED <<pc, dgram, h, sockQ>>
  PROVE  OnTheWay' = OnTheWay
BY DEF OnTheWay, InBuffer, Queued, Tags

LEMMA InBufferType ==
  ASSUME ListenInv
  PROVE  InBuffer \in Seq(Tag)
<1>1. CASE pc = "loop"
  <2>1. PICK d \in Datagram : d = dgram
    BY <1>1 DEF ListenInv, Following
  <2>2. PICK o \in Nat : o = h
    BY DEF ListenInv, TypeInv, TypeOK
  <2>3. PICK i \in 1 .. Len(d) + 1 : Start(d, i) = 4 * o
    BY <1>1, <2>1, <2>2 DEF ListenInv, Following, AtMessage
  <2>4. InBuffer = Rest(d, i)
    BY <1>1, <2>1, <2>2, <2>3, LeftInBuffer DEF InBuffer
  <2> QED BY <2>4, RestIs
<1>2. CASE pc # "loop"
  BY <1>2 DEF InBuffer
<1> QED BY <1>1, <1>2

-----------------------------------------------------------------------------
LEMMA OpenRefines ==
  ASSUME ListenInv, netlink_open_step \/ netlink_open_fail
  PROVE  MStep
<1>1. PICK q \in Seq(Datagram) : q = sockQ
  BY DEF ListenInv, TypeInv, TypeOK
<1>2. CASE netlink_open_step
  <2>1. /\ pc # "loop" /\ pc' # "loop" /\ sockQ' = q /\ UNCHANGED <<proc, shown>>
    BY <1>1, <1>2 DEF netlink_open_step, At, listenVars
  <2>2. OnTheWay' = OnTheWay
    BY <1>1, <2>1, WayElsewhere
  <2> QED BY <2>1, <2>2, MapsToNothing
<1>3. CASE netlink_open_fail
  <2>1. /\ proc = "running" /\ proc' # "running" /\ UNCHANGED <<pc, dgram, h, sockQ, shown>>
    BY <1>3 DEF netlink_open_fail, At, listenVars
  <2> QED BY <2>1, WayStays, MapsToMStop
<1> QED BY <1>2, <1>3

LEMMA RetryRefines ==
  ASSUME recvmsg_retry \/ recvmsg_fail \/ listen_off
  PROVE  MStep
<1>1. CASE recvmsg_retry
  BY <1>1, WayStays, MapsToNothing DEF recvmsg_retry, listenVars
<1>2. CASE recvmsg_fail \/ listen_off
  <2>1. /\ proc = "running" /\ proc' # "running" /\ UNCHANGED <<pc, dgram, h, sockQ, shown>>
    BY <1>2 DEF recvmsg_fail, listen_off, At, listenVars
  <2> QED BY <2>1, WayStays, MapsToMStop
<1> QED BY <1>1, <1>2

(* Received messages were on their way before. *)
LEMMA ReceiveRefines ==
  ASSUME ListenInv, recvmsg_ok
  PROVE  MStep
<1>1. PICK q \in Seq(Datagram) : q = sockQ /\ q # <<>>
  BY DEF recvmsg_ok, ListenInv, TypeInv, TypeOK
<1>2. PICK d \in Datagram : d = Head(q)
  BY <1>1
<1>3. PICK t \in Seq(Datagram) : t = Tail(q)
  BY <1>1, HeadTailProperties
<1>4. /\ pc # "loop" /\ pc' = "loop" /\ dgram' = d /\ h' = 0 /\ sockQ' = t
      /\ UNCHANGED <<proc, shown>>
  BY <1>1, <1>2, <1>3 DEF recvmsg_ok, At
<1>5. OnTheWay = Queued(q)
  BY <1>1, <1>4, WayElsewhere
<1>6. 0 \in Nat /\ 1 \in 1 .. Len(d) + 1 /\ Start(d, 1) = 4 * 0
  BY Layout
<1>7. OnTheWay' = Rest(d, 1) \o Queued(t)
  BY <1>4, <1>6, WayInLoop
<1>8. Rest(d, 1) = Tagged(d)
  BY <1>6, RestIs
<1>9. Queued(q) = Tagged(d) \o Queued(t)
  BY <1>1, <1>2, <1>3, QueuedHead
<1> QED BY <1>4, <1>5, <1>7, <1>8, <1>9, MapsToNothing

(* A dump shows the message that was on its way first. *)
LEMMA MessageRefines ==
  ASSUME ListenInv, listen_message
  PROVE  MStep
<1>1. PICK i \in DOMAIN dgram :
        /\ Start(dgram, i) = 4 * h
        /\ \/ proc' \in {"unknown", "aborted"} /\ UNCHANGED <<h, shown>>
           \/ /\ h' = h + Align(buf[h]) \div 4
              /\ \E s : shown' = [msg |-> dgram[i], at |-> h, attrs |-> s]
              /\ UNCHANGED proc
  BY DEF listen_message
<1>2. /\ pc = "loop" /\ pc' = "loop" /\ proc = "running"
      /\ UNCHANGED <<sockQ, buf, dgram>>
  BY DEF listen_message, At
<1>3. CASE proc' \in {"unknown", "aborted"} /\ UNCHANGED <<h, shown>>
  BY <1>2, <1>3, WayStays, MapsToMStop
<1>4. CASE /\ h' = h + Align(buf[h]) \div 4
           /\ \E s : shown' = [msg |-> dgram[i], at |-> h, attrs |-> s]
           /\ UNCHANGED proc
  <2>1. PICK d \in Datagram : d = dgram
    BY <1>2 DEF ListenInv, Following
  <2>2. PICK o \in Nat : o = h
    BY DEF ListenInv, TypeInv, TypeOK
  <2>3. PICK q \in Seq(Datagram) : q = sockQ
    BY DEF ListenInv, TypeInv, TypeOK
  <2>4. i \in 1 .. Len(d) /\ Start(d, i) = 4 * o /\ buf[h] = MsgLen(d[i])
    BY <1>1, <2>1, <2>2, AtRound
  <2>5. PICK l \in Nat : l = MsgLen(d[i]) /\ l % 4 = 0 /\ Start(d, i + 1) = 4 * o + l
    BY <2>4, MessageAt
  <2>6. Align(l) = l /\ l \div 4 \in Nat /\ 4 * (o + l \div 4) = 4 * o + l
    BY <2>5, RoundArith
  <2>7. PICK p \in Nat : p = h' /\ Start(d, i + 1) = 4 * p
    <3>1. h' = o + l \div 4
      BY <1>4, <2>2, <2>4, <2>5, <2>6
    <3> QED BY <2>5, <2>6, <3>1
  <2>8. i \in 1 .. Len(d) + 1 /\ i + 1 \in 1 .. Len(d) + 1 /\ i <= Len(d)
    BY <2>4, Layout
  <2>9. OnTheWay = Rest(d, i) \o Queued(q)
    BY <1>2, <2>1, <2>2, <2>3, <2>4, <2>8, WayInLoop
  <2>10. OnTheWay' = Rest(d, i + 1) \o Queued(q)
    BY <1>2, <2>1, <2>3, <2>7, <2>8, WayInLoop
  <2>11. /\ Rest(d, i) \in Seq(Tag) /\ Rest(d, i) # <<>> /\ Head(Rest(d, i)).msg = d[i]
         /\ Tail(Rest(d, i)) = Rest(d, i + 1)
    BY <2>8, RestIs
  <2>12. Queued(q) \in Seq(Tag)
    BY TagsType
  <2>13. /\ OnTheWay # <<>> /\ Head(OnTheWay) = Head(Rest(d, i))
         /\ Tail(OnTheWay) = Tail(Rest(d, i)) \o Queued(q)
    BY <2>9, <2>11, <2>12, ConcatHeadTail
  <2>14. OnShow' = d[i]
    <3>1. PICK s : shown' = [msg |-> d[i], at |-> o, attrs |-> s]
      BY <1>4, <2>1, <2>2
    <3>2. shown' # <<>> /\ shown'.msg = d[i]
      <4>1. "msg" \in DOMAIN [msg |-> d[i], at |-> o, attrs |-> s]
        OBVIOUS
      <4>2. "msg" \notin DOMAIN <<>>
        OBVIOUS
      <4> QED BY <3>1, <4>1, <4>2
    <3> QED BY <3>2 DEF OnShow
  <2> QED BY <1>2, <1>4, <2>10, <2>11, <2>13, <2>14, MapsToShow
<1> QED BY <1>1, <1>3, <1>4

(* The loop is left at the end of the datagram, or where it was cut off. *)
LEMMA EndRefines ==
  ASSUME ListenInv, listen_end
  PROVE  MStep
<1>0. pc = "loop" /\ proc = "running" /\ ~AnotherMessage /\ UNCHANGED <<sockQ, dgram, h, shown>>
  BY DEF listen_end, At, listenVars
<1>1. CASE pc' = pc
  <2>1. proc' # "running"
    BY <1>0, <1>1 DEF listen_end
  <2> QED BY <1>0, <1>1, <2>1, WayStays, MapsToMStop
<1>2. CASE pc' = "recv" /\ UNCHANGED proc
  <2>1. PICK d \in Datagram : d = dgram
    BY <1>0 DEF ListenInv, Following
  <2>2. PICK o \in Nat : o = h
    BY DEF ListenInv, TypeInv, TypeOK
  <2>3. PICK q \in Seq(Datagram) : q = sockQ
    BY DEF ListenInv, TypeInv, TypeOK
  <2>4. PICK i \in 1 .. Len(d) + 1 : Start(d, i) = 4 * o
    BY <1>0, <2>1, <2>2 DEF ListenInv, Following, AtMessage
  <2>5. OnTheWay = Rest(d, i) \o Queued(q)
    BY <1>0, <2>1, <2>2, <2>3, <2>4, WayInLoop
  <2>6. OnTheWay' = Queued(q)
    BY <1>0, <1>2, <2>3, WayElsewhere
  <2>7. Queued(q) \in Seq(Tag) /\ Rest(d, i) \in Seq(Tag)
    BY <2>4, RestIs, TagsType
  <2>8. PICK n \in Nat : n = Len(d)
    BY Layout
  <2>9. CASE i = n + 1
    <3>1. Rest(d, i) = <<>>
      BY <2>8, <2>9, RestIs
    <3>2. OnTheWay = Queued(q)
      BY <2>5, <2>7, <3>1, ConcatEmptySeq
    <3> QED BY <1>0, <1>2, <2>6, <3>2, MapsToNothing
  <2>10. CASE i <= n
    <3>1. PICK c \in Nat : c = n - i + 1 /\ c >= 1
      BY <2>4, <2>8, <2>10
    <3>2. /\ Len(Rest(d, i)) = c
          /\ \A k \in 1 .. c : Rest(d, i)[k] = Tagged(d)[i + k - 1]
      BY <2>4, <2>8, <3>1, RestIs
    <3>3. PICK r \in Nat : r = Len(Queued(q))
      BY <2>7, LenProperties
    <3>4. /\ OnTheWay \in Seq(Tag) /\ Len(OnTheWay) = c + r
          /\ \A k \in 1 .. c + r :
               OnTheWay[k] = IF k <= c THEN Rest(d, i)[k] ELSE Queued(q)[k - c]
      BY <2>5, <2>7, <3>2, <3>3, ConcatProperties
    <3>5. \A k \in 1 .. c : ~OnTheWay[k].whole
      <4> SUFFICES ASSUME NEW k \in 1 .. c PROVE ~OnTheWay[k].whole
        OBVIOUS
      <4>1. PICK j \in 1 .. n : j = i + k - 1 /\ j >= i
        BY <2>4, <2>8, <3>1
      <4>2. OnTheWay[k] = Tagged(d)[j]
        BY <3>2, <3>3, <3>4, <4>1
      <4>3. Tagged(d)[j].whole = Whole(d, j)
        <5>1. Tagged(d)[j] = [msg |-> d[j], whole |-> Whole(d, j)]
          BY <2>8, <4>1, TaggedType
        <5> QED BY <5>1
      <4>4. PICK l \in Nat : l = DatagramLen(d) /\ 4 * o + 24 <= l
        <5>1. i \in 1 .. Len(d)
          BY <2>4, <2>8, <2>10
        <5> QED BY <2>4, <5>1, MessageEnds
      <4>5. BufLen \in Nat
        BY BufLenAssumption
      <4>6. status = (IF l <= BufLen THEN l ELSE BufLen) - 4 * o
        BY <1>0, <2>1, <2>2, <4>4 DEF ListenInv, Following, Received
      <4>7. status >= 0 /\ status < 16
        <5>1. status \in Int /\ ~(status < 0) /\ ~(status >= 16)
          BY <1>0 DEF AnotherMessage, HdrLen, ListenInv, TypeInv, TypeOK
        <5> QED BY <5>1
      <4>8. BufLen < 4 * o + 16
        BY <4>4, <4>5, <4>6, <4>7
      <4>9. PICK a \in Nat : a = Start(d, j + 1) /\ 4 * o + 24 <= a
        <5>1. j + 1 \in 1 .. Len(d) + 1 /\ i \in 1 .. (j + 1) - 1 /\ j \in 1 .. Len(d)
          BY <2>4, <2>8, <4>1
        <5>2. Start(d, i) + 24 <= Start(d, j + 1)
          BY <5>1, StartsIncrease
        <5>3. Start(d, j + 1) \in Nat
          BY <5>1, MessageAt
        <5> QED BY <2>4, <5>2, <5>3
      <4>10. ~Whole(d, j)
        BY <4>5, <4>8, <4>9 DEF Whole
      <4> QED BY <4>2, <4>3, <4>10
    <3>6. SubSeq(OnTheWay, c + 1, Len(OnTheWay)) = Queued(q)
      <4>1. CASE r = 0
        <5>1. Queued(q) = <<>>
          BY <2>7, <3>3, <4>1, EmptySeq
        <5> QED BY <3>1, <3>4, <4>1, <5>1, SubSeqEmpty
      <4>2. CASE r # 0
        <5>1. c + 1 \in c + 1 .. c + r /\ c + r \in c + 1 .. c + r
          BY <4>2
        <5>2. SubSeq(OnTheWay, c + 1, c + r) = SubSeq(Queued(q), (c + 1) - c, (c + r) - c)
          <6>1. PICK u, v \in Seq(Tag) : u = Rest(d, i) /\ v = Queued(q)
            BY <2>7
          <6>2. c = Len(u) /\ r = Len(v) /\ OnTheWay = u \o v
            BY <2>5, <3>2, <3>3, <6>1
          <6>3. SubSeq(u \o v, c + 1, c + r) = SubSeq(v, (c + 1) - c, (c + r) - c)
            BY <5>1, <6>2, SubSeqOfConcat2
          <6> QED BY <6>1, <6>2, <6>3
        <5>3. (c + 1) - c = 1 /\ (c + r) - c = r
          OBVIOUS
        <5>4. SubSeq(Queued(q), 1, r) = Queued(q)
          BY <2>7, <3>3, SubSeqFull
        <5> QED BY <3>4, <5>2, <5>3, <5>4
      <4> QED BY <4>1, <4>2
    <3>7. c \in 1 .. Len(OnTheWay)
      BY <3>1, <3>4
    <3> QED BY <1>0, <1>2, <2>6, <3>5, <3>6, <3>7, MapsToPassOver
  <2> QED BY <2>4, <2>8, <2>9, <2>10
<1> QED BY <1>0, <1>1, <1>2 DEF listen_end

LEMMA KernelRefines ==
  ASSUME ListenInv, Kernel
  PROVE  MStep
<1>1. PICK d \in Datagram : KernelSend(d)
  BY DEF Kernel
<1>2. PICK q \in Seq(Datagram) : q = sockQ
  BY DEF ListenInv, TypeInv, TypeOK
<1>3. proc = "running" /\ UNCHANGED <<proc, pc, dgram, h, shown>>
  BY <1>1 DEF KernelSend, listenVars
<1>4. CASE sockQ' = sockQ
  BY <1>3, <1>4, WayStays, MapsToNothing
<1>5. CASE sockQ' = Append(sockQ, d)
  <2>1. PICK b \in Seq(Tag) : b = InBuffer
    BY InBufferType
  <2>2. InBuffer' = b
    BY <1>3, <2>1 DEF InBuffer
  <2>3. PICK f \in Seq(Tag) : f = Queued(q)
    BY TagsType
  <2>4. PICK t \in Seq(Tag) : t = Tagged(d) /\ Len(t) >= 1 /\ Len(t) \in Nat
    BY TaggedType
  <2>5. OnTheWay' = b \o (f \o t)
    <3>1. Queued(Append(q, d)) = f \o t
      BY <2>3, <2>4, QueuedAppend
    <3>2. OnTheWay' = b \o Queued(Append(q, d))
      BY <1>2, <1>5, <2>2 DEF OnTheWay, Queued, Tags
    <3> QED BY <3>1, <3>2
  <2>6. PICK w \in Seq(Tag) : w = OnTheWay /\ w = b \o f
    BY <1>2, <2>1, <2>3, ConcatProperties DEF OnTheWay
  <2>7. OnTheWay' = w \o t
    BY <2>5, <2>6, ConcatAssociative
  <2>8. Len(w) \in Nat /\ Len(w \o t) = Len(w) + Len(t)
    BY ConcatProperties, LenProperties
  <2>9. Len(OnTheWay') > Len(OnTheWay)
    <3>1. Len(w) + Len(t) > Len(w)
      BY <2>4, <2>8
    <3> QED BY <2>6, <2>7, <2>8, <3>1
  <2>10. SubSeq(w \o t, 1, Len(w)) = w
    <3>1. CASE Len(w) = 0
      <4>1. w = <<>>
        BY <3>1, EmptySeq
      <4>2. SubSeq(w \o t, 1, 0) = <<>>
        BY SubSeqEmpty
      <4> QED BY <3>1, <4>1, <4>2
    <3>2. CASE Len(w) # 0
      <4>1. 1 \in 1 .. Len(w) /\ Len(w) \in 1 .. Len(w)
        BY <2>8, <3>2
      <4>2. SubSeq(w \o t, 1, Len(w)) = SubSeq(w, 1, Len(w))
        BY <4>1, SubSeqOfConcat1
      <4> QED BY <4>2, SubSeqFull
    <3> QED BY <3>1, <3>2
  <2> QED BY <1>3, <2>6, <2>7, <2>9, <2>10, MapsToArrive
<1> QED BY <1>1, <1>4, <1>5 DEF KernelSend

LEMMA MonitorInit == Init => M!MInit
<1> SUFFICES ASSUME Init PROVE M!MInit
  OBVIOUS
<1>1. proc = "running" /\ pc = "open" /\ sockQ = <<>> /\ shown = <<>>
  BY DEF Init
<1>2. Queued(<<>>) = <<>>
  <2>1. Tags(<<>>) = <<>>
    BY DEF Tags
  <2> QED BY <2>1, FlattenEmpty DEF Queued
<1>3. InBuffer \o Queued(sockQ) = <<>>
  <2>1. InBuffer = <<>>
    BY <1>1 DEF InBuffer
  <2>2. <<>> \o <<>> = <<>>
    OBVIOUS
  <2> QED BY <1>1, <1>2, <2>1, <2>2
<1> QED BY <1>1, <1>3 DEF M!MInit, Queued, Tags

LEMMA MonitorStep == ListenInv /\ [Next]_vars => MStep
<1> SUFFICES ASSUME ListenInv, [Next]_vars PROVE MStep
  OBVIOUS
<1>1. CASE Terminated \/ UNCHANGED vars
  BY <1>1, WayStays, MapsToNothing DEF Terminated, vars
<1> QED BY <1>1, OpenRefines, ReceiveRefines, RetryRefines, MessageRefines, EndRefines,
           KernelRefines DEF Next, yalin

-----------------------------------------------------------------------------
(* The theorems.                                                           *)

(* Every variable keeps its type: in particular the buffer only holds what *)
(* the kernel or the stack has put there.                                  *)
THEOREM ListenerTypeCorrect == Spec => []TypeOK
<1>1. ListenInv => TypeOK
  BY DEF ListenInv, TypeInv
<1> QED BY <1>1, ListenAlways, PTL

(* netlink_listen() never finds a remnant, whatever the size of its buffer *)
(* and the datagrams: the messages of one that was not cut off fill it,    *)
(* and for one that was the loop is left with truncated set or not at all. *)
THEOREM RemnantsNeverFound == Spec => []NoRemnant
<1>1. ListenInv => NoRemnant
  BY DEF ListenInv
<1> QED BY <1>1, ListenAlways, PTL

(* The dump of a message shows its attributes, all of them and in order,   *)
(* and what it may show behind them are stale bytes within the slack of    *)
(* IFA_PAYLOAD(), for any datagrams before and any buffer.                 *)
THEOREM DumpsShowMessages == Spec => []DumpShowsMessage
<1>1. ListenInv => DumpShowsMessage
  BY DEF ListenInv
<1> QED BY <1>1, ListenAlways, PTL

(* netlink_listen() and the dumpers stay inside the buffer as long as the  *)
(* datagram leaves 4 bytes and the reach of a reader free in it.           *)
THEOREM BufferIsEnough == Spec => []BufferHolds
<1>1. ListenInv => BufferHolds
  BY DEF ListenInv
<1> QED BY <1>1, ListenAlways, PTL

(* A dumper only refuses a route of a family that is not known, a message  *)
(* with an attribute that is not accepted, or stale bytes that look like   *)
(* an attribute within the slack of IFA_PAYLOAD().                         *)
THEOREM RefusalsHaveCause == Spec => []RefusalHasCause
<1>1. ListenInv => RefusalHasCause
  BY DEF ListenInv
<1> QED BY <1>1, ListenAlways, PTL

(* YALIN implements the monitor, for a buffer and a queue of any size and  *)
(* any datagrams: the messages the kernel has queued are dumped once and   *)
(* in order, and only those that recvmsg() cut off are passed over, until  *)
(* the process ends.                                                       *)
THEOREM YalinIsMonitor == Spec => ImplementsMonitor
<1>1. Init => M!MInit
  BY MonitorInit
<1>2. ListenInv /\ [Next]_vars => [M!MNext]_(M!mvars)
  BY MonitorStep DEF MStep
<1> QED BY <1>1, <1>2, ListenAlways, PTL DEF Spec, ImplementsMonitor, M!MSpec

=============================================================================
