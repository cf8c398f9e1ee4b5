---------------------------- MODULE RtAttrProofs ----------------------------
(***************************************************************************)
(* Theorems about how YALIN shows an attribute of a link message, for any  *)
(* attributes that the kernel can send.  The walk over the description of  *)
(* a VLAN is always at the head of one of its fields, knows how much is    *)
(* left behind it, and has stored the fields in front of it.               *)
(***************************************************************************)
EXTENDS RtAttr, SequenceLemmas

-----------------------------------------------------------------------------
(* The words of an attribute.                                              *)

W == [len : Nat, type : Nat]
Field == [type : 1 .. 5, value : Nat]

LEMMA AlignUp ==
  ASSUME NEW n \in Nat
  PROVE  /\ align(n) \in Nat /\ align(n) \div 4 \in Nat /\ 4 * (align(n) \div 4) = align(n)
         /\ n <= align(n)
BY DEF align

LEMMA WordType ==
  ASSUME NEW a \in Nat, NEW b \in Nat
  PROVE  Word(a, b) \in W /\ Word(a, b).len = a /\ Word(a, b).type = b
BY DEF Word, W

LEMMA StringWords ==
  ASSUME NEW t \in Nat, NEW n \in Nat, n >= 4
  PROVE  /\ String(t, n) \in Seq(W) /\ String(t, n)[1] = Word(n, t)
         /\ Len(String(t, n)) = 1 + align(n - 4) \div 4
<1>1. PICK k \in Nat : k = align(n - 4) \div 4
  BY AlignUp
<1>2. PICK r : r = [i \in 1 .. k |-> Word(1, 1)]
  OBVIOUS
<1>3. r \in Seq(W) /\ Len(r) = k
  <2>1. Word(1, 1) \in W
    BY WordType
  <2> QED BY <1>2, <2>1
<1>4. PICK w \in W : w = Word(n, t)
  BY WordType
<1>5. <<w>> \in Seq(W) /\ Len(<<w>>) = 1 /\ <<w>>[1] = w
  OBVIOUS
<1>6. /\ <<w>> \o r \in Seq(W) /\ Len(<<w>> \o r) = 1 + k
      /\ \A i \in 1 .. 1 + k : (<<w>> \o r)[i] = IF i <= 1 THEN <<w>>[i] ELSE r[i - 1]
  BY <1>3, <1>5, ConcatProperties
<1>7. (<<w>> \o r)[1] = w
  BY <1>5, <1>6
<1>8. String(t, n) = <<w>> \o r
  BY <1>1, <1>2, <1>4 DEF String
<1> QED BY <1>1, <1>4, <1>6, <1>7, <1>8

LEMMA NestWords ==
  ASSUME NEW t \in Nat, NEW s \in Seq(W)
  PROVE  /\ Nest(t, s) \in Seq(W) /\ Len(Nest(t, s)) = 1 + Len(s) /\ Len(s) \in Nat
         /\ Nest(t, s)[1] = Word(4 + 4 * Len(s), t)
         /\ \A k \in 1 .. Len(s) : Nest(t, s)[1 + k] = s[k]
<1>1. PICK n \in Nat : n = Len(s)
  BY LenProperties
<1>2. PICK w \in W : w = Word(4 + 4 * n, t)
  BY WordType
<1>3. <<w>> \in Seq(W) /\ Len(<<w>>) = 1 /\ <<w>>[1] = w
  OBVIOUS
<1>4. /\ <<w>> \o s \in Seq(W) /\ Len(<<w>> \o s) = 1 + n
      /\ \A i \in 1 .. 1 + n : (<<w>> \o s)[i] = IF i <= 1 THEN <<w>>[i] ELSE s[i - 1]
  BY <1>1, <1>3, ConcatProperties
<1>5. (<<w>> \o s)[1] = w
  BY <1>3, <1>4
<1>6. ASSUME NEW k \in 1 .. n PROVE (<<w>> \o s)[1 + k] = s[k]
  <2>1. 1 + k \in 1 .. 1 + n /\ ~(1 + k <= 1) /\ (1 + k) - 1 = k
    OBVIOUS
  <2> QED BY <1>4, <2>1
<1>7. Nest(t, s) = <<w>> \o s
  BY <1>1, <1>2 DEF Nest
<1> QED BY <1>1, <1>2, <1>4, <1>5, <1>6, <1>7

(* The length in the head of a field, and its words. *)
HeadLen(type) ==
  IF type \in {1, 5} THEN 6 ELSE IF type = 2 THEN 12 ELSE 16

LEMMA FieldWords ==
  ASSUME NEW a \in Field
  PROVE  /\ VlanWords(a) \in Seq(W)
         /\ 4 * Len(VlanWords(a)) = align(HeadLen(a.type))
         /\ VlanWords(a)[1] = Word(HeadLen(a.type), a.type)
         /\ a.type \in {1, 2, 5} => VlanWords(a)[2] = Word(a.value, 0)
         /\ Len(VlanWords(a)) \in 2 .. 4 /\ (a.type = 2 => Len(VlanWords(a)) = 3)
<1> USE DEF IFLA_VLAN_ID, IFLA_VLAN_PROTOCOL, IFLA_VLAN_FLAGS, IFLA_VLAN_EGRESS_QOS,
            IFLA_VLAN_INGRESS_QOS
<1>1. PICK t \in 1 .. 5 : t = a.type
  BY DEF Field
<1>2. PICK v \in Nat : v = a.value
  BY DEF Field
<1>3. PICK w \in W : w = Word(v, 0)
  BY WordType
<1>4. CASE t \in {1, 5}
  <2>1. VlanWords(a) = <<Word(6, t), w>>
    BY <1>1, <1>2, <1>3, <1>4 DEF VlanWords
  <2>2. Word(6, t) \in W
    BY WordType
  <2>3. HeadLen(t) = 6 /\ align(6) = 8
    BY <1>4 DEF HeadLen, align
  <2> QED BY <1>1, <1>2, <1>3, <1>4, <2>1, <2>2, <2>3
<1>5. CASE t = 2
  <2>1. VlanWords(a) = <<Word(12, t), w, Word(2, 2)>>
    BY <1>1, <1>2, <1>3, <1>5 DEF VlanWords
  <2>2. Word(12, t) \in W /\ Word(2, 2) \in W
    BY WordType
  <2>3. HeadLen(t) = 12 /\ align(12) = 12
    BY <1>5 DEF HeadLen, align
  <2> QED BY <1>1, <1>2, <1>3, <1>5, <2>1, <2>2, <2>3
<1>6. CASE t \in {3, 4}
  <2>1. PICK u \in W : u = Word(12, 1)
    BY WordType
  <2>2. PICK s : s = <<u, w, w>>
    OBVIOUS
  <2>3. s \in Seq(W) /\ Len(s) = 3
    BY <2>2
  <2>4. VlanWords(a) = Nest(t, s)
    BY <1>1, <1>2, <1>3, <1>6, <2>1, <2>2 DEF VlanWords
  <2>5. t \in Nat
    OBVIOUS
  <2>6. /\ VlanWords(a) \in Seq(W) /\ Len(VlanWords(a)) = 1 + Len(s)
        /\ VlanWords(a)[1] = Word(4 + 4 * Len(s), t)
    <3>1. /\ Nest(t, s) \in Seq(W) /\ Len(Nest(t, s)) = 1 + Len(s)
          /\ Nest(t, s)[1] = Word(4 + 4 * Len(s), t)
      BY <2>3, <2>5, NestWords, Zenon
    <3> QED BY <2>4, <3>1, Zenon
  <2>7. HeadLen(t) = 16 /\ align(16) = 16
    BY <1>6 DEF HeadLen, align
  <2>8. Len(VlanWords(a)) = 4 /\ 4 + 4 * Len(s) = 16
    BY <2>3, <2>6
  <2>9. VlanWords(a)[1] = Word(16, t)
    BY <2>6, <2>8, Zenon
  <2>10. 4 * Len(VlanWords(a)) = align(HeadLen(t)) /\ Len(VlanWords(a)) \in 2 .. 4
    BY <2>7, <2>8
  <2>11. ~(t \in {1, 2, 5}) /\ t # 2
    BY <1>6
  <2> QED BY <1>1, <2>6, <2>7, <2>9, <2>10, <2>11
<1> QED BY <1>1, <1>4, <1>5, <1>6

-----------------------------------------------------------------------------
(* The words of an IFLA_LINKINFO.                                          *)

FieldSeqs(info) == [i \in DOMAIN info.data |-> VlanWords(info.data[i])]
FieldsWords(info) == FlattenSeq(FieldSeqs(info))

(* The words of the fields in front of the j-th. *)
FieldAt(info, j) == Len(FlattenSeq(SubSeq(FieldSeqs(info), 1, j - 1)))

LEMMA FieldSeqsType ==
  ASSUME NEW info \in LinkInfo
  PROVE  /\ info.data \in Seq(Field) /\ Len(info.data) \in Nat
         /\ DOMAIN info.data = 1 .. Len(info.data)
         /\ \A j \in 1 .. Len(info.data) : info.data[j] \in Field
         /\ FieldSeqs(info) \in Seq(Seq(W)) /\ Len(FieldSeqs(info)) = Len(info.data)
         /\ \A j \in 1 .. Len(info.data) : FieldSeqs(info)[j] = VlanWords(info.data[j])
         /\ FieldsWords(info) \in Seq(W) /\ Len(FieldsWords(info)) \in Nat
<1>1. info.data \in Seq(Field)
  BY LinkInfoAssumption DEF Field
<1>2. PICK d \in Seq(Field) : d = info.data
  BY <1>1
<1>3. Len(d) \in Nat /\ DOMAIN d = 1 .. Len(d) /\ \A j \in 1 .. Len(d) : d[j] \in Field
  BY LenProperties, ElementOfSeq
<1>4. \A j \in 1 .. Len(d) : VlanWords(d[j]) \in Seq(W)
  BY <1>3, FieldWords
<1>5. FieldSeqs(info) = [j \in 1 .. Len(d) |-> VlanWords(d[j])]
  BY <1>2, <1>3 DEF FieldSeqs
<1>6. FieldSeqs(info) \in [1 .. Len(d) -> Seq(W)]
  BY <1>4, <1>5
<1>7. FieldSeqs(info) \in Seq(Seq(W)) /\ Len(FieldSeqs(info)) = Len(d)
  BY <1>3, <1>6
<1>8. FieldsWords(info) \in Seq(W)
  BY <1>7, FlattenType DEF FieldsWords
<1>9. Len(FieldsWords(info)) \in Nat
  BY <1>8, LenProperties
<1> QED BY <1>2, <1>3, <1>5, <1>7, <1>8, <1>9

LEMMA FieldLayout ==
  ASSUME NEW info \in LinkInfo
  PROVE  /\ FieldAt(info, 1) = 0
         /\ FieldAt(info, Len(info.data) + 1) = Len(FieldsWords(info))
         /\ \A j \in 1 .. Len(info.data) :
              /\ FieldAt(info, j) \in Nat /\ FieldAt(info, j + 1) \in Nat
              /\ FieldAt(info, j + 1) = FieldAt(info, j) + Len(VlanWords(info.data[j]))
              /\ FieldAt(info, j + 1) <= Len(FieldsWords(info))
              /\ \A k \in 1 .. Len(VlanWords(info.data[j])) :
                   FieldsWords(info)[FieldAt(info, j) + k] = VlanWords(info.data[j])[k]
<1>1. PICK ss \in Seq(Seq(W)) : ss = FieldSeqs(info) /\ Len(ss) = Len(info.data)
  BY FieldSeqsType
<1>2. PICK n \in Nat : n = Len(ss)
  BY LenProperties
<1>3. PICK f \in Seq(W) : f = FlattenSeq(ss) /\ f = FieldsWords(info)
  BY <1>1, FieldSeqsType DEF FieldsWords
<1>4. FieldAt(info, 1) = 0
  <2>1. SubSeq(ss, 1, 1 - 1) = <<>>
    BY SubSeqEmpty
  <2>2. Len(FlattenSeq(<<>>)) = 0
    BY FlattenEmpty
  <2> QED BY <1>1, <2>1, <2>2, Zenon DEF FieldAt
<1>5. FieldAt(info, n + 1) = Len(f)
  <2>1. (n + 1) - 1 = Len(ss)
    BY <1>2
  <2>2. SubSeq(ss, 1, Len(ss)) = ss
    BY SubSeqFull
  <2> QED BY <1>1, <1>3, <2>1, <2>2, Zenon DEF FieldAt
<1>6. ASSUME NEW j \in 1 .. n
      PROVE  /\ FieldAt(info, j) \in Nat /\ FieldAt(info, j + 1) \in Nat
             /\ FieldAt(info, j + 1) = FieldAt(info, j) + Len(VlanWords(info.data[j]))
             /\ FieldAt(info, j + 1) <= Len(f)
             /\ \A k \in 1 .. Len(VlanWords(info.data[j])) :
                  f[FieldAt(info, j) + k] = VlanWords(info.data[j])[k]
  <2>1. j \in 1 .. Len(ss) /\ (j + 1) - 1 = j
    BY <1>2
  <2>2. PICK w : w = ss[j] /\ w = VlanWords(info.data[j])
    BY <1>1, <2>1, FieldSeqsType
  <2>3. PICK a \in Seq(W) : a = FlattenSeq(SubSeq(ss, 1, j - 1))
    BY <2>1, FlattenSplit
  <2>4. PICK b \in Seq(W) : b = FlattenSeq(SubSeq(ss, 1, j))
    BY <2>1, FlattenSplit
  <2>5. /\ Len(FlattenSeq(SubSeq(ss, 1, j))) = Len(FlattenSeq(SubSeq(ss, 1, j - 1))) + Len(ss[j])
        /\ Len(FlattenSeq(SubSeq(ss, 1, j))) <= Len(FlattenSeq(ss))
        /\ \A k \in 1 .. Len(ss[j]) :
             FlattenSeq(ss)[Len(FlattenSeq(SubSeq(ss, 1, j - 1))) + k] = ss[j][k]
    BY <2>1, FlattenSplit
  <2>6. FieldAt(info, j) = Len(a) /\ FieldAt(info, j + 1) = Len(b)
    BY <1>1, <2>1, <2>3, <2>4, Zenon DEF FieldAt
  <2>7. Len(a) \in Nat /\ Len(b) \in Nat
    BY LenProperties
  <2>8. /\ Len(b) = Len(a) + Len(w) /\ Len(b) <= Len(f)
        /\ \A k \in 1 .. Len(w) : f[Len(a) + k] = w[k]
    BY <1>3, <2>2, <2>3, <2>4, <2>5, Zenon
  <2> QED BY <2>2, <2>6, <2>7, <2>8
<1>7. n = Len(info.data)
  BY <1>1, <1>2
<1> QED BY <1>3, <1>4, <1>5, <1>6, <1>7

(* The attribute as a whole, and where its parts are in that of a VLAN. *)
LEMMA InfoWords ==
  ASSUME NEW info \in LinkInfo
  PROVE  LinkInfoWords(info) \in Seq(W) /\ Len(LinkInfoWords(info)) \in Nat
         /\ Len(LinkInfoWords(info)) >= 1
<1>1. info.kindLen \in Nat /\ (info.kind # "none" => info.kindLen >= 5)
  BY LinkInfoAssumption
<1>2. CASE info.kind = "none"
  <2>1. LinkInfoWords(info) = String(4, 11)
    BY <1>2 DEF LinkInfoWords, IFLA_INFO_SLAVE_KIND
  <2>2. String(4, 11) \in Seq(W) /\ Len(String(4, 11)) = 1 + align(11 - 4) \div 4
    BY StringWords
  <2>3. align(11 - 4) \div 4 = 2
    BY DEF align
  <2> QED BY <2>1, <2>2, <2>3
<1>3. CASE info.kind # "none"
  <2>1. PICK k \in Seq(W) : k = String(1, info.kindLen) /\ Len(k) >= 1
    <3>1. PICK n \in Nat : n = info.kindLen /\ n >= 5
      BY <1>1, <1>3
    <3>2. String(1, n) \in Seq(W) /\ Len(String(1, n)) = 1 + align(n - 4) \div 4
      BY <3>1, StringWords
    <3>3. align(n - 4) \div 4 \in Nat
      BY <3>1, AlignUp
    <3> QED BY <3>1, <3>2, <3>3
  <2>2. PICK d \in Seq(W) :
          d = IF info.data = <<>> THEN <<>> ELSE Nest(2, FieldsWords(info))
    <3>1. Nest(2, FieldsWords(info)) \in Seq(W)
      BY FieldSeqsType, NestWords
    <3>2. <<>> \in Seq(W)
      OBVIOUS
    <3> QED BY <3>1, <3>2, Zenon
  <2>3. LinkInfoWords(info) = k \o d
    BY <1>3, <2>1, <2>2
       DEF LinkInfoWords, FieldsWords, FieldSeqs, IFLA_INFO_KIND, IFLA_INFO_DATA
  <2>4. k \o d \in Seq(W) /\ Len(k \o d) = Len(k) + Len(d)
    BY ConcatProperties
  <2>5. Len(k) \in Nat /\ Len(d) \in Nat
    BY LenProperties
  <2> QED BY <2>1, <2>3, <2>4, <2>5
<1> QED BY <1>2, <1>3

LEMMA VlanInfoWords ==
  ASSUME NEW info \in LinkInfo, info.kind = "vlan"
  PROVE  LET w == LinkInfoWords(info)
             f == FieldsWords(info)
         IN  /\ Len(w) = 4 + Len(f) /\ 16 + 4 * Len(f) < SizeT
             /\ w[1] = Word(9, IFLA_INFO_KIND)
             /\ w[4] = Word(4 + 4 * Len(f), IFLA_INFO_DATA)
             /\ \A k \in 1 .. Len(f) : w[4 + k] = f[k]
<1>1. info.kindLen = 9 /\ info.data # <<>>
  BY LinkInfoAssumption
<1>2. PICK k \in Seq(W) : k = String(1, 9) /\ Len(k) = 3 /\ k[1] = Word(9, 1)
  <2>1. String(1, 9) \in Seq(W) /\ Len(String(1, 9)) = 1 + align(9 - 4) \div 4
        /\ String(1, 9)[1] = Word(9, 1)
    BY StringWords
  <2>2. 1 + align(9 - 4) \div 4 = 3
    BY DEF align
  <2> QED BY <2>1, <2>2, Zenon
<1>3. PICK f \in Seq(W) : f = FieldsWords(info)
  BY FieldSeqsType
<1>4. PICK n \in Nat : n = Len(f)
  BY LenProperties
<1>5. PICK d \in Seq(W) : /\ d = Nest(2, f) /\ Len(d) = 1 + n
                           /\ d[1] = Word(4 + 4 * n, 2)
                           /\ \A j \in 1 .. n : d[1 + j] = f[j]
  <2>1. /\ Nest(2, f) \in Seq(W) /\ Len(Nest(2, f)) = 1 + Len(f)
        /\ Nest(2, f)[1] = Word(4 + 4 * Len(f), 2)
        /\ \A j \in 1 .. Len(f) : Nest(2, f)[1 + j] = f[j]
    <3>1. 2 \in Nat
      OBVIOUS
    <3> QED BY <3>1, NestWords, Zenon
  <2> QED BY <1>4, <2>1, Zenon
<1>6. LinkInfoWords(info) = k \o d
  BY <1>1, <1>2, <1>3, <1>5
     DEF LinkInfoWords, FieldsWords, FieldSeqs, IFLA_INFO_KIND, IFLA_INFO_DATA
<1>7. PICK w \in Seq(W) : w = k \o d
  BY ConcatProperties
<1>8. /\ Len(w) = 3 + (1 + n)
      /\ \A i \in 1 .. 3 + (1 + n) : w[i] = IF i <= 3 THEN k[i] ELSE d[i - 3]
  <2>1. /\ Len(w) = Len(k) + Len(d)
        /\ \A i \in 1 .. Len(k) + Len(d) : w[i] = IF i <= Len(k) THEN k[i] ELSE d[i - Len(k)]
    BY <1>7, ConcatProperties
  <2>2. Len(k) = 3 /\ Len(d) = 1 + n
    BY <1>2, <1>5
  <2> QED BY <2>1, <2>2
<1>9. w[1] = k[1] /\ w[4] = d[1]
  <2>1. 1 \in 1 .. 3 + (1 + n) /\ 4 \in 1 .. 3 + (1 + n)
    OBVIOUS
  <2>2. w[1] = IF 1 <= 3 THEN k[1] ELSE d[1 - 3]
    BY <1>8, <2>1, Zenon
  <2>3. w[4] = IF 4 <= 3 THEN k[4] ELSE d[4 - 3]
    BY <1>8, <2>1, Zenon
  <2> QED BY <2>2, <2>3
<1>10. ASSUME NEW j \in 1 .. n PROVE w[4 + j] = f[j]
  <2>1. 4 + j \in 1 .. 3 + (1 + n) /\ ~(4 + j <= 3) /\ (4 + j) - 3 = 1 + j
    OBVIOUS
  <2> QED BY <1>5, <1>8, <2>1
<1>11. 4 * Len(w) < SizeT
  BY <1>6, <1>7, LinkInfoAssumption
<1>12. Len(w) = 4 + n /\ 16 + 4 * n < SizeT
  BY <1>8, <1>11, SizeTAssumption
<1> QED BY <1>2, <1>3, <1>4, <1>5, <1>6, <1>7, <1>9, <1>10, <1>12
        DEF IFLA_INFO_KIND, IFLA_INFO_DATA

-----------------------------------------------------------------------------
(* What the fields in front of the j-th say.                               *)

Saying(info, type, j) == {i \in 1 .. j - 1 : info.data[i].type = type}

SaidBy(info, given) ==
  IF given = {} THEN 0 ELSE info.data[CHOOSE i \in given : TRUE].value

SaidBefore(info, type, j) == SaidBy(info, Saying(info, type, j))

LEMMA SaidStep ==
  ASSUME NEW info \in LinkInfo, info.kind = "vlan", NEW type \in 1 .. 5,
         NEW j \in 1 .. Len(info.data)
  PROVE  SaidBefore(info, type, j + 1) =
           IF info.data[j].type = type THEN info.data[j].value ELSE SaidBefore(info, type, j)
<1>1. /\ DOMAIN info.data = 1 .. Len(info.data) /\ Len(info.data) \in Nat
      /\ \A i, k \in 1 .. Len(info.data) : info.data[i].type = info.data[k].type => i = k
  BY FieldSeqsType, LinkInfoAssumption
<1>2. (j + 1) - 1 = j /\ 1 .. j = (1 .. j - 1) \cup {j} /\ 1 .. j \subseteq 1 .. Len(info.data)
  BY <1>1
<1>3. Saying(info, type, j + 1) = {i \in 1 .. j : info.data[i].type = type}
  BY <1>2, Zenon DEF Saying
<1>4. CASE info.data[j].type = type
  <2>1. j \in 1 .. j
    OBVIOUS
  <2>2. Saying(info, type, j + 1) = {j}
    <3>1. ASSUME NEW i \in Saying(info, type, j + 1) PROVE i = j
      <4>1. i \in 1 .. j /\ info.data[i].type = info.data[j].type
        BY <1>3, <1>4, <3>1
      <4>2. i \in 1 .. Len(info.data)
        BY <1>2, <4>1
      <4> QED BY <1>1, <4>1, <4>2
    <3>2. j \in Saying(info, type, j + 1)
      BY <1>3, <1>4, <2>1
    <3> QED BY <3>1, <3>2, Zenon
  <2>3. (CHOOSE i \in {j} : TRUE) = j
    OBVIOUS
  <2>4. SaidBefore(info, type, j + 1) = info.data[j].value
    <3>1. SaidBefore(info, type, j + 1) = SaidBy(info, {j})
      BY <2>2, Zenon DEF SaidBefore
    <3> QED BY <2>3, <3>1, Zenon DEF SaidBy
  <2> QED BY <1>4, <2>4, Zenon
<1>5. CASE info.data[j].type # type
  <2>1. Saying(info, type, j + 1) = Saying(info, type, j)
    BY <1>2, <1>3, <1>5, Zenon DEF Saying
  <2>2. SaidBefore(info, type, j + 1) = SaidBefore(info, type, j)
    BY <2>1, Zenon DEF SaidBefore
  <2> QED BY <1>5, <2>2, Zenon
<1> QED BY <1>4, <1>5, Zenon

LEMMA SaidEnds ==
  ASSUME NEW info \in LinkInfo, NEW type
  PROVE  /\ SaidBefore(info, type, 1) = 0
         /\ SaidBefore(info, type, Len(info.data) + 1) = Said(info, type)
<1>1. DOMAIN info.data = 1 .. Len(info.data) /\ Len(info.data) \in Nat
  BY FieldSeqsType
<1>2. Saying(info, type, 1) = {}
  <2>1. 1 .. 1 - 1 = {}
    OBVIOUS
  <2> QED BY <2>1, Zenon DEF Saying
<1>3. (Len(info.data) + 1) - 1 = Len(info.data)
  BY <1>1
<1>4. Saying(info, type, Len(info.data) + 1) = {i \in DOMAIN info.data : info.data[i].type = type}
  BY <1>1, <1>3, Zenon DEF Saying
<1>5. Said(info, type) = SaidBy(info, {i \in DOMAIN info.data : info.data[i].type = type})
  BY DEF Said, SaidBy
<1>6. SaidBefore(info, type, 1) = SaidBy(info, {})
  BY <1>2, Zenon DEF SaidBefore
<1>7. SaidBy(info, {}) = 0
  BY DEF SaidBy
<1> QED BY <1>4, <1>5, <1>6, <1>7, Zenon DEF SaidBefore

-----------------------------------------------------------------------------
(* The inductive invariant.                                                *)

(* The walk is at the j-th field: it knows where that is and what is left, *)
(* and has stored what the fields in front of it say.                      *)
AtField(j) ==
  /\ nrta = 5 + FieldAt(attr, j)
  /\ nbuflen = 4 * Len(FieldsWords(attr)) - 4 * FieldAt(attr, j)
  /\ vlan.id = SaidBefore(attr, IFLA_VLAN_ID, j)
  /\ vlan.proto = SaidBefore(attr, IFLA_VLAN_PROTOCOL, j)
  /\ vlan.flags[1] = SaidBefore(attr, IFLA_VLAN_FLAGS, j)

Walking ==
  /\ attr \in LinkInfo => words = LinkInfoWords(attr)
  /\ pc \in {"kind", "data", "vlan"} => attr \in LinkInfo
  /\ pc \in {"data", "vlan"} => attr.kind = "vlan"
  /\ pc \in {"entry", "kind", "data"} => vlan = [id |-> 0, proto |-> 0, flags |-> <<0, 0>>]
  /\ pc = "vlan" => \E j \in 1 .. Len(attr.data) : AtField(j)

AttrInv == TypeOK /\ Walking /\ VlanShown /\ ReadsInside

(* The two sorts of attributes are told apart. *)
LEMMA SortsDiffer == LinkInfo \cap LinkAttr = {}
<1> SUFFICES ASSUME NEW a \in LinkInfo, a \in LinkAttr PROVE FALSE
  OBVIOUS
<1>1. a \in [kind : STRING, kindLen : Nat, data : Seq([type : 1 .. 5, value : Nat])]
  BY LinkInfoAssumption
<1>2. a \in [type : STRING, len : Nat]
  BY LinkAttrAssumption
<1>3. "kind" \in DOMAIN a
  BY <1>1
<1>4. "kind" \notin DOMAIN a
  BY <1>2
<1> QED BY <1>3, <1>4

LEMMA AttrInit == Init => AttrInv
<1> SUFFICES ASSUME Init PROVE AttrInv
  OBVIOUS
<1>1. /\ pc = "entry" /\ out = "nothing" /\ nrta = 0 /\ nbuflen = 0
      /\ vlan = [id |-> 0, proto |-> 0, flags |-> <<0, 0>>] /\ reach = 4
  BY DEF Init, NULL
<1>2. attr \in LinkInfo \cup LinkAttr /\ words \in Seq(W) /\ Len(words) \in Nat
  <2>1. CASE attr \in LinkInfo /\ words = LinkInfoWords(attr)
    <3>1. PICK a \in LinkInfo : a = attr
      BY <2>1
    <3> QED BY <2>1, <3>1, InfoWords
  <2>2. CASE attr \in LinkAttr /\ words = <<>>
    BY <2>2
  <2> QED BY <2>1, <2>2 DEF Init
<1>3. nrta \in 0 .. Len(words) /\ nbuflen \in Int /\ reach \in Nat
  BY <1>1, <1>2
<1>4. vlan \in [id : Nat, proto : Nat, flags : Nat \X Nat]
  BY <1>1
<1>5. TypeOK
  BY <1>1, <1>2, <1>3, <1>4 DEF TypeOK, W
<1>6. Walking
  <2>1. attr \in LinkInfo => words = LinkInfoWords(attr)
    BY SortsDiffer DEF Init
  <2> QED BY <1>1, <2>1 DEF Walking
<1>7. ReadsInside
  <2>1. CASE attr \in LinkInfo
    BY <1>1, <1>2, <2>1 DEF ReadsInside
  <2>2. CASE attr \notin LinkInfo
    <3>1. PICK a \in LinkAttr : a = attr
      BY <1>2, <2>2
    <3>2. PICK n \in Nat : n = a.len /\ n >= 4
      <4>1. LeastPayload(a.type) \in Nat
        BY DEF LeastPayload
      <4>2. PICK p \in Nat : p = LeastPayload(a.type)
        BY <4>1
      <4>3. PICK n \in Nat : n = a.len /\ n >= 4 + p
        BY <4>2, LinkAttrAssumption
      <4> QED BY <4>3
    <3>3. align(n) \in Nat /\ n <= align(n)
      BY AlignUp
    <3> QED BY <1>1, <2>2, <3>1, <3>2, <3>3 DEF ReadsInside
  <2> QED BY <2>1, <2>2
<1> QED BY <1>1, <1>5, <1>6, <1>7 DEF AttrInv, VlanShown

-----------------------------------------------------------------------------
(* The steps.                                                              *)

LEMMA AtType ==
  ASSUME words \in Seq(W)
  PROVE  \A p : At(p) \in W /\ At(p).len \in Nat /\ At(p).type \in Nat
<1> TAKE p
<1>1. At(p) \in W
  <2>1. CASE p \in DOMAIN words
    <3>1. PICK w \in Seq(W) : w = words
      OBVIOUS
    <3>2. p \in 1 .. Len(w)
      BY <2>1, <3>1, LenProperties
    <3>3. w[p] \in W
      BY <3>2, ElementOfSeq
    <3> QED BY <2>1, <3>1, <3>3 DEF At
  <2>2. CASE p \notin DOMAIN words
    <3>1. Word(0, 0) \in W
      BY WordType
    <3> QED BY <2>2, <3>1 DEF At
  <2> QED BY <2>1, <2>2
<1> QED BY <1>1 DEF W

LEMMA FurthestBound ==
  ASSUME NEW a \in Nat, NEW b \in Nat, NEW m \in Nat, a <= m, b <= m
  PROVE  Furthest(a, b) \in Nat /\ Furthest(a, b) <= m
BY DEF Furthest

(* No reader of a struct or a number looks behind an attribute of its size. *)
LEMMA PayloadInside ==
  ASSUME NEW type \in STRING, NEW n \in Nat, n >= 4 + LeastPayload(type)
  PROVE  PayloadRead(type, n - 4) \in Nat /\ 4 + PayloadRead(type, n - 4) <= align(n)
<1>1. PICK p \in Nat : p = LeastPayload(type)
  <2>1. LeastPayload(type) \in Nat
    BY DEF LeastPayload
  <2> QED BY <2>1
<1>2. n >= 4 + p
  BY <1>1
<1>3. PICK m \in Nat : m = align(n) /\ n <= m
  BY AlignUp
<1>4. CASE type = "STATS64"
  BY <1>1, <1>2, <1>3, <1>4 DEF LeastPayload, PayloadRead
<1>5. CASE type = "STATS"
  BY <1>1, <1>2, <1>3, <1>5 DEF LeastPayload, PayloadRead
<1>6. CASE type = "MAP"
  BY <1>1, <1>2, <1>3, <1>6 DEF LeastPayload, PayloadRead
<1>7. CASE type \in {"PROTO_DOWN", "OPERSTATE", "LINKMODE", "CARRIER"}
  BY <1>1, <1>2, <1>3, <1>7 DEF LeastPayload, PayloadRead
<1>8. CASE type \in {"PROMISCUITY", "NUM_TX_QUEUES", "NUM_RX_QUEUES", "MTU", "LINK",
                     "GROUP", "CARRIER_CHANGES", "TXQLEN"}
  BY <1>1, <1>2, <1>3, <1>8 DEF LeastPayload, PayloadRead
<1>9. CASE type = "QDISC"
  <2>1. p = 2 /\ PayloadRead(type, n - 4) = 4
    BY <1>1, <1>9 DEF LeastPayload, PayloadRead
  <2>2. align(n) >= 8
    BY <1>2, <2>1 DEF align
  <2>3. 4 \in Nat /\ 4 + 4 <= align(n)
    BY <2>2
  <2> QED BY <2>1, <2>3, Zenon
<1>10. CASE type = "AF_SPEC"
  <2>1. PayloadRead(type, n - 4) = 0
    BY <1>10 DEF PayloadRead
  <2>2. 0 \in Nat /\ 4 + 0 <= m
    BY <1>2, <1>3
  <2> QED BY <1>3, <2>1, <2>2, Zenon
<1>11. CASE type \notin {"STATS64", "STATS", "MAP", "PROTO_DOWN", "OPERSTATE", "LINKMODE",
                          "CARRIER", "PROMISCUITY", "NUM_TX_QUEUES", "NUM_RX_QUEUES", "MTU",
                          "LINK", "GROUP", "CARRIER_CHANGES", "TXQLEN", "QDISC", "AF_SPEC"}
  <2>1. PayloadRead(type, n - 4) = n - 4
    BY <1>11 DEF PayloadRead
  <2>2. n - 4 \in Nat /\ 4 + (n - 4) <= m
    BY <1>2, <1>3
  <2> QED BY <1>3, <2>1, <2>2, Zenon
<1> QED BY <1>4, <1>5, <1>6, <1>7, <1>8, <1>9, <1>10, <1>11

LEMMA EntryStep == AttrInv /\ rta_to_str => AttrInv'
<1> SUFFICES ASSUME AttrInv, rta_to_str PROVE AttrInv'
  OBVIOUS
<1>1. TypeOK /\ Walking /\ ReadsInside /\ pc = "entry"
  BY DEF AttrInv, rta_to_str
<1>2. UNCHANGED <<attr, words, nrta, nbuflen, vlan>>
  BY DEF rta_to_str
<1>3. CASE attr \in LinkInfo /\ pc' = "kind" /\ UNCHANGED <<out, reach>>
  <2>1. TypeOK'
    BY <1>1, <1>2, <1>3 DEF TypeOK
  <2>2. Walking'
    BY <1>1, <1>2, <1>3 DEF Walking
  <2>3. VlanShown'
    BY <1>3 DEF VlanShown
  <2>4. ReadsInside'
    BY <1>1, <1>2, <1>3 DEF ReadsInside
  <2> QED BY <2>1, <2>2, <2>3, <2>4 DEF AttrInv
<1>4. CASE /\ attr \in LinkAttr /\ pc' = "done" /\ out' = "shown"
           /\ LooksAt(1, PayloadRead(attr.type, attr.len - 4))
  <2>1. attr \notin LinkInfo
    BY <1>4, SortsDiffer
  <2>2. PICK a \in LinkAttr : a = attr
    BY <1>4
  <2>3. a.type \in STRING /\ a.len \in Nat /\ a.len >= 4 + LeastPayload(a.type)
    BY LinkAttrAssumption
  <2>4. PICK m \in Nat : m = align(a.len)
    BY <2>3, AlignUp
  <2>5. PICK r \in Nat : r = PayloadRead(a.type, a.len - 4) /\ 4 + r <= m
    BY <2>3, <2>4, PayloadInside
  <2>6. PICK b \in Nat : b = reach /\ b <= m
    BY <1>1, <2>1, <2>2, <2>4 DEF TypeOK, ReadsInside
  <2>7. reach' \in Nat /\ reach' <= m
    <3>1. 4 * 1 + r \in Nat /\ 4 * 1 + r <= m
      BY <2>5
    <3>2. Furthest(b, 4 * 1 + r) \in Nat /\ Furthest(b, 4 * 1 + r) <= m
      BY <2>6, <3>1, FurthestBound
    <3> QED BY <1>4, <2>2, <2>5, <2>6, <3>2, Zenon DEF LooksAt
  <2>8. TypeOK'
    BY <1>1, <1>2, <1>4, <2>7 DEF TypeOK
  <2>9. Walking'
    BY <1>1, <1>2, <1>4 DEF Walking
  <2>10. VlanShown' /\ ReadsInside'
    BY <1>2, <2>1, <2>2, <2>4, <2>7 DEF VlanShown, ReadsInside
  <2> QED BY <2>8, <2>9, <2>10 DEF AttrInv
<1> QED BY <1>3, <1>4 DEF rta_to_str

(* The words of the kind, and of a VLAN its whole description. *)
LEMMA KindStep == AttrInv /\ linkinfo_kind => AttrInv'
<1> SUFFICES ASSUME AttrInv, linkinfo_kind PROVE AttrInv'
  OBVIOUS
<1>1. TypeOK /\ Walking /\ ReadsInside /\ pc = "kind"
  BY DEF AttrInv, linkinfo_kind
<1>2. UNCHANGED <<attr, words, nrta, nbuflen, vlan>>
  BY DEF linkinfo_kind
<1>3. PICK i \in LinkInfo : i = attr /\ words = LinkInfoWords(i)
  BY <1>1 DEF Walking
<1>4. PICK n \in Nat : n = Len(words) /\ n >= 1
  BY <1>3, InfoWords
<1>5. PICK b \in Nat : b = reach /\ b <= 4 + 4 * n
  BY <1>1, <1>3, <1>4 DEF TypeOK, ReadsInside
<1>6. PICK h \in Nat : h = At(1).len
  BY <1>1, AtType DEF TypeOK, W
<1>7. i.kind = "vlan" => At(1).type = 1 /\ h = 9 /\ rtattr_payload_len(1) = 5 /\ n >= 4
  <2> SUFFICES ASSUME i.kind = "vlan"
               PROVE  At(1).type = 1 /\ h = 9 /\ rtattr_payload_len(1) = 5 /\ n >= 4
    OBVIOUS
  <2>1. words[1] = Word(9, 1) /\ n = 4 + Len(FieldsWords(i)) /\ Len(FieldsWords(i)) \in Nat
    BY <1>3, <1>4, VlanInfoWords, FieldSeqsType DEF IFLA_INFO_KIND
  <2>2. 1 \in DOMAIN words
    <3>1. PICK w \in Seq(W) : w = words
      BY <1>1 DEF TypeOK, W
    <3>2. DOMAIN w = 1 .. Len(w)
      BY LenProperties
    <3> QED BY <1>4, <3>1, <3>2
  <2>3. At(1) = Word(9, 1)
    BY <2>1, <2>2 DEF At
  <2>4. At(1).len = 9 /\ At(1).type = 1
    BY <2>3 DEF Word
  <2>5. (9 - 4) % SizeT = 5
    BY SizeTAssumption
  <2>6. n >= 4
    BY <2>1
  <2> QED BY <1>6, <2>4, <2>5, <2>6 DEF rtattr_payload_len
<1>8. /\ pc' \in {"done", "data"} /\ out' \in {"asserted", "exited", "unknown kind", out}
      /\ i.kind = "vlan" => pc' = "data"
      /\ pc' = "data" => i.kind = "vlan"
      /\ \E k \in {4, 4 * n, h} : LooksAt(1, k) /\ (k = h => i.kind = "vlan" \/ k = 4 \/ k = 4 * n)
  <2>1. CASE At(1).type # 1 /\ pc' = "done" /\ out' = "asserted" /\ LooksAt(1, 4)
    BY <1>7, <2>1
  <2>2. CASE /\ rtattr_payload_len(1) > 100
             /\ pc' = "done" /\ out' = "exited" /\ LooksAt(1, 4)
    BY <1>7, <2>2
  <2>3. CASE /\ attr.kind # "vlan" /\ pc' = "done" /\ out' = "unknown kind"
             /\ LooksAt(1, 4 * Len(words))
    BY <1>3, <1>4, <2>3
  <2>4. CASE attr.kind = "vlan" /\ pc' = "data" /\ UNCHANGED out /\ LooksAt(1, At(1).len)
    BY <1>3, <1>6, <2>4
  <2> QED BY <2>1, <2>2, <2>3, <2>4, Zenon DEF linkinfo_kind, IFLA_INFO_KIND
<1>9. reach' \in Nat /\ reach' <= 4 + 4 * n
  <2>1. PICK k \in {4, 4 * n, h} :
              LooksAt(1, k) /\ (k = h => i.kind = "vlan" \/ k = 4 \/ k = 4 * n)
    BY <1>8
  <2>2. 4 * 1 + k \in Nat /\ 4 * 1 + k <= 4 + 4 * n /\ 4 + 4 * n \in Nat
    BY <1>4, <1>7, <2>1
  <2>3. Furthest(b, 4 * 1 + k) \in Nat /\ Furthest(b, 4 * 1 + k) <= 4 + 4 * n
    BY <1>5, <2>2, FurthestBound
  <2> QED BY <1>5, <2>1, <2>3, Zenon DEF LooksAt
<1>10. TypeOK'
  BY <1>1, <1>2, <1>8, <1>9 DEF TypeOK
<1>11. Walking'
  BY <1>1, <1>2, <1>3, <1>8 DEF Walking
<1>12. VlanShown' /\ ReadsInside'
  BY <1>2, <1>3, <1>4, <1>8, <1>9 DEF VlanShown, ReadsInside
<1> QED BY <1>10, <1>11, <1>12 DEF AttrInv

LEMMA WordAt ==
  ASSUME NEW w \in Seq(W), w = words, NEW p \in 1 .. Len(w)
  PROVE  At(p) = w[p]
<1>1. DOMAIN w = 1 .. Len(w)
  BY LenProperties
<1> QED BY <1>1 DEF At

(* The words of the j-th field are where the walk looks for them. *)
LEMMA WordsOfField ==
  ASSUME NEW info \in LinkInfo, info.kind = "vlan", words = LinkInfoWords(info),
         NEW j \in 1 .. Len(info.data), NEW p, p = 5 + FieldAt(info, j)
  PROVE  /\ p \in Nat /\ info.data[j] \in Field
         /\ p + Len(VlanWords(info.data[j])) <= 1 + Len(words)
         /\ At(p) = Word(HeadLen(info.data[j].type), info.data[j].type)
         /\ info.data[j].type \in {1, 2, 5} => At(p + 1) = Word(info.data[j].value, 0)
<1>1. PICK w \in Seq(W) : w = words
  BY InfoWords
<1>2. PICK f \in Seq(W) : f = FieldsWords(info)
  BY FieldSeqsType
<1>3. PICK n \in Nat : n = Len(f)
  BY LenProperties
<1>4. Len(w) = 4 + n /\ \A k \in 1 .. n : w[4 + k] = f[k]
  BY <1>1, <1>2, <1>3, VlanInfoWords
<1>5. PICK a \in Field : a = info.data[j]
  BY FieldSeqsType
<1>6. PICK v \in Seq(W) : /\ v = VlanWords(a) /\ Len(v) \in 2 .. 4
                          /\ v[1] = Word(HeadLen(a.type), a.type)
                          /\ (a.type \in {1, 2, 5} => v[2] = Word(a.value, 0))
  BY FieldWords
<1>7. PICK q \in Nat : q = FieldAt(info, j)
  BY FieldLayout
<1>8. q + Len(v) <= n /\ \A k \in 1 .. Len(v) : f[q + k] = v[k]
  <2>1. /\ FieldAt(info, j + 1) = FieldAt(info, j) + Len(VlanWords(info.data[j]))
        /\ FieldAt(info, j + 1) <= Len(FieldsWords(info))
        /\ \A k \in 1 .. Len(VlanWords(info.data[j])) :
             FieldsWords(info)[FieldAt(info, j) + k] = VlanWords(info.data[j])[k]
    BY FieldLayout
  <2>2. FieldAt(info, j + 1) = q + Len(v) /\ FieldAt(info, j + 1) <= n
    BY <1>2, <1>3, <1>5, <1>6, <1>7, <2>1, Zenon
  <2>3. \A k \in 1 .. Len(v) : f[q + k] = v[k]
    BY <1>2, <1>5, <1>6, <1>7, <2>1, Zenon
  <2> QED BY <2>2, <2>3, Zenon
<1>9. PICK l \in 2 .. 4 : l = Len(v)
  BY <1>6
<1>10. p = 5 + q
  BY <1>7, Zenon
<1>11. q + l <= n
  BY <1>8, <1>9
<1>12. ASSUME NEW k \in 1 .. l PROVE At(p + (k - 1)) = v[k]
  <2>1. /\ q + k \in 1 .. n /\ 4 + (q + k) \in 1 .. Len(w) /\ k \in Nat
        /\ 4 + (q + k) = p + (k - 1)
    <3>1. k \in Nat /\ q + k \in 1 .. n
      BY <1>11
    <3>2. 4 + (q + k) \in 1 .. 4 + n
      BY <3>1
    <3>3. Len(w) = 4 + n
      BY <1>4, Zenon
    <3>4. 4 + (q + k) = (5 + q) + (k - 1)
      OBVIOUS
    <3> QED BY <1>10, <3>1, <3>2, <3>3, <3>4, Zenon
  <2>2. w[4 + (q + k)] = f[q + k] /\ f[q + k] = v[k]
    BY <1>4, <1>8, <1>9, <2>1
  <2>3. At(4 + (q + k)) = w[4 + (q + k)]
    BY <1>1, <2>1, WordAt
  <2> QED BY <2>1, <2>2, <2>3
<1>13. At(p) = v[1] /\ At(p + 1) = v[2]
  <2>1. 1 \in 1 .. l /\ 2 \in 1 .. l /\ p \in Nat /\ p + (1 - 1) = p /\ p + (2 - 1) = p + 1
    BY <1>10
  <2>2. At(p + (1 - 1)) = v[1] /\ At(p + (2 - 1)) = v[2]
    BY <1>12, <2>1, Zenon
  <2> QED BY <2>1, <2>2, Zenon
<1>14. p \in Nat /\ p + Len(v) <= 1 + Len(w)
  BY <1>4, <1>9, <1>10, <1>11
<1> QED BY <1>1, <1>5, <1>6, <1>13, <1>14, Zenon

LEMMA DataStep == AttrInv /\ linkinfo_data => AttrInv'
<1> SUFFICES ASSUME AttrInv, linkinfo_data PROVE AttrInv'
  OBVIOUS
<1>1. TypeOK /\ Walking /\ ReadsInside /\ pc = "data"
  BY DEF AttrInv, linkinfo_data
<1>2. UNCHANGED <<attr, words, vlan>>
  BY DEF linkinfo_data
<1>3. PICK i \in LinkInfo : i = attr /\ words = LinkInfoWords(i) /\ i.kind = "vlan"
  BY <1>1 DEF Walking
<1>4. PICK w \in Seq(W) : w = words
  BY <1>3, InfoWords
<1>5. PICK n \in Nat : n = Len(FieldsWords(i))
  BY FieldSeqsType
<1>6. /\ Len(w) = 4 + n /\ 16 + 4 * n < SizeT
      /\ w[1] = Word(9, 1) /\ w[4] = Word(4 + 4 * n, 2)
  BY <1>3, <1>4, <1>5, VlanInfoWords DEF IFLA_INFO_KIND, IFLA_INFO_DATA
<1>7. At(1) = Word(9, 1) /\ At(4) = Word(4 + 4 * n, 2)
  <2>1. 1 \in 1 .. Len(w) /\ 4 \in 1 .. Len(w)
    BY <1>6
  <2>2. At(1) = w[1] /\ At(4) = w[4]
    BY <1>4, <2>1, WordAt
  <2> QED BY <1>6, <2>2
<1>8. At(1).len = 9 /\ At(4).len = 4 + 4 * n /\ At(4).type = 2
  BY <1>7 DEF Word
<1>9. rtattr_next(1, At(1).len) = 4
  <2>1. align(9) = 12
    BY DEF align
  <2>2. ~((9 - 12) % SizeT <= 4)
    BY SizeTAssumption
  <2>3. ~(9 <= 0) /\ ~(12 <= 0) /\ 1 + 12 \div 4 = 4
    OBVIOUS
  <2> QED BY <1>8, <2>1, <2>2, <2>3, Zenon DEF rtattr_next
<1>10. rtattr_payload_len(4) = 4 * n
  <2>1. ((4 + 4 * n) - 4) % SizeT = 4 * n
    BY <1>6, SizeTAssumption
  <2> QED BY <1>8, <2>1, Zenon DEF rtattr_payload_len
<1>11. /\ pc' = "vlan" /\ out' = out /\ nrta' = 5 /\ nbuflen' = 4 * n
       /\ LooksAt(4, 4)
  <2>1. 4 # NULL /\ IFLA_INFO_DATA = 2 /\ 4 + 1 = 5
    BY DEF NULL, IFLA_INFO_DATA
  <2> QED BY <1>8, <1>9, <1>10, <2>1, Zenon DEF linkinfo_data
<1>12. 1 \in 1 .. Len(i.data) /\ n >= 2
  <2>1. Len(i.data) \in Nat /\ i.data \in Seq(Field)
    BY FieldSeqsType
  <2>2. i.data # <<>>
    BY <1>3, LinkInfoAssumption
  <2>3. Len(i.data) # 0
    BY <2>1, <2>2, EmptySeq
  <2>4. 1 \in 1 .. Len(i.data)
    BY <2>1, <2>3
  <2>5. PICK a \in Field : a = i.data[1]
    BY <2>4, FieldSeqsType
  <2>6. PICK k \in 2 .. 4 : k = Len(VlanWords(a))
    BY FieldWords
  <2>7. FieldAt(i, 1 + 1) = FieldAt(i, 1) + k /\ FieldAt(i, 1 + 1) <= n /\ FieldAt(i, 1) = 0
    <3>1. /\ FieldAt(i, 1 + 1) = FieldAt(i, 1) + Len(VlanWords(i.data[1]))
          /\ FieldAt(i, 1 + 1) <= Len(FieldsWords(i)) /\ FieldAt(i, 1) = 0
      BY <2>4, FieldLayout, Zenon
    <3> QED BY <1>5, <2>5, <2>6, <3>1, Zenon
  <2>8. n >= 2
    <3>1. 0 + k <= n
      BY <2>7, Zenon
    <3> QED BY <3>1
  <2> QED BY <2>4, <2>8
<1>13. reach' \in Nat /\ reach' <= 4 + 4 * Len(w)
  <2>1. PICK b \in Nat : b = reach /\ b <= 4 + 4 * Len(w)
    BY <1>1, <1>3, <1>4 DEF TypeOK, ReadsInside
  <2>2. 4 * 4 + 4 \in Nat /\ 4 * 4 + 4 <= 4 + 4 * Len(w) /\ 4 + 4 * Len(w) \in Nat
    BY <1>6
  <2>3. Furthest(b, 4 * 4 + 4) \in Nat /\ Furthest(b, 4 * 4 + 4) <= 4 + 4 * Len(w)
    BY <2>1, <2>2, FurthestBound
  <2> QED BY <1>11, <2>1, <2>3, Zenon DEF LooksAt
<1>14. TypeOK'
  <2>1. nrta' \in 0 .. Len(w) /\ nbuflen' \in Int
    BY <1>6, <1>11, <1>12
  <2> QED BY <1>1, <1>2, <1>4, <1>11, <1>13, <2>1 DEF TypeOK
<1>15. AtField(1)'
  <2>1. FieldAt(i, 1) = 0
    BY FieldLayout
  <2>2. nrta' = 5 + FieldAt(i, 1) /\ nbuflen' = 4 * n - 4 * FieldAt(i, 1)
    BY <1>11, <2>1
  <2>3. vlan.id = 0 /\ vlan.proto = 0 /\ vlan.flags[1] = 0
    BY <1>1 DEF Walking
  <2>4. \A t : SaidBefore(i, t, 1) = 0
    BY SaidEnds
  <2> QED BY <1>2, <1>3, <1>5, <2>2, <2>3, <2>4, Zenon DEF AtField
<1>16. Walking'
  <2>1. (\E j \in 1 .. Len(attr.data) : AtField(j))'
    BY <1>2, <1>3, <1>12, <1>15
  <2>2. attr' \in LinkInfo /\ words' = LinkInfoWords(attr') /\ attr'.kind = "vlan"
    BY <1>2, <1>3
  <2> QED BY <1>11, <2>1, <2>2 DEF Walking
<1>17. VlanShown' /\ ReadsInside'
  BY <1>2, <1>3, <1>4, <1>11, <1>13 DEF VlanShown, ReadsInside
<1> QED BY <1>14, <1>16, <1>17 DEF AttrInv

(* The reader of a field finds the payload it expects, stores what the     *)
(* field says and stays within the field.                                  *)
LEMMA FieldFits ==
  ASSUME NEW t \in 1 .. 5, NEW p, At(p) = Word(HeadLen(t), t)
  PROVE  /\ HeadLen(t) \in 6 .. 16
         /\ rtattr_payload_len(p) <= FieldLen(At(p).type)
         /\ rtattr_payload_len(p) \in Int /\ FieldLen(At(p).type) \in Int
         /\ FieldRead(p) \in Nat /\ FieldRead(p) <= align(HeadLen(t))
<1>1. PICK h \in 6 .. 16 : /\ h = HeadLen(t)
                           /\ (t \in {1, 5} => h = 6) /\ (t = 2 => h = 12)
                           /\ (t \in {3, 4} => h = 16)
  BY DEF HeadLen
<1>2. At(p).len = h /\ At(p).type = t
  BY <1>1 DEF Word
<1>3. (h - 4) % SizeT = h - 4
  BY SizeTAssumption
<1>4. rtattr_payload_len(p) = h - 4
  BY <1>2, <1>3, Zenon DEF rtattr_payload_len
<1>5. PICK f \in Nat : /\ f = FieldLen(t) /\ (t \in {1, 5} => f = 2) /\ (t = 2 => f = 8)
                       /\ (t \in {3, 4} => f = SizeT)
  BY SizeTAssumption DEF FieldLen, IFLA_VLAN_ID, IFLA_VLAN_PROTOCOL, IFLA_VLAN_FLAGS
<1>6. h - 4 <= f /\ h - 4 \in Int /\ f \in Int
  BY <1>1, <1>5, SizeTAssumption
<1>7. PICK r \in Nat : r = FieldRead(p) /\ r = (IF f = SizeT THEN 4 ELSE 4 + f)
  BY <1>2, <1>5 DEF FieldRead
<1>8. r <= h
  BY <1>1, <1>5, <1>7, SizeTAssumption
<1>9. h <= align(h) /\ align(h) \in Nat
  BY AlignUp
<1>10. r <= align(h)
  BY <1>8, <1>9
<1> QED BY <1>1, <1>2, <1>4, <1>5, <1>6, <1>7, <1>10, Zenon

(* What a field says is stored, the rest of the struct stays. *)
LEMMA FieldStored ==
  ASSUME NEW info \in LinkInfo, info.kind = "vlan", words = LinkInfoWords(info),
         vlan \in [id : Nat, proto : Nat, flags : Nat \X Nat],
         NEW j \in 1 .. Len(info.data), NEW p, p = 5 + FieldAt(info, j),
         vlan.id = SaidBefore(info, 1, j), vlan.proto = SaidBefore(info, 5, j),
         vlan.flags[1] = SaidBefore(info, 2, j)
  PROVE  /\ VlanField(p) \in [id : Nat, proto : Nat, flags : Nat \X Nat]
         /\ VlanField(p).id = SaidBefore(info, 1, j + 1)
         /\ VlanField(p).proto = SaidBefore(info, 5, j + 1)
         /\ VlanField(p).flags[1] = SaidBefore(info, 2, j + 1)
<1>1. PICK a \in Field : a = info.data[j]
  BY WordsOfField
<1>2. PICK t \in 1 .. 5 : t = a.type
  BY DEF Field
<1>3. PICK v \in Nat : v = a.value
  BY DEF Field
<1>4. At(p).type = t /\ (t \in {1, 2, 5} => At(p + 1).len = v)
  <2>1. At(p) = Word(HeadLen(t), t) /\ (t \in {1, 2, 5} => At(p + 1) = Word(v, 0))
    BY <1>1, <1>2, <1>3, WordsOfField, Zenon
  <2> QED BY <2>1 DEF Word
<1>5. At(p + 2).len \in Nat
  BY InfoWords, AtType
<1>6. ASSUME NEW y \in 1 .. 5
      PROVE  SaidBefore(info, y, j + 1) = IF t = y THEN v ELSE SaidBefore(info, y, j)
  BY <1>1, <1>2, <1>3, SaidStep, Zenon
<1>7. 1 \in 1 .. 5 /\ 2 \in 1 .. 5 /\ 5 \in 1 .. 5
  OBVIOUS
<1>8. /\ SaidBefore(info, 1, j + 1) = IF t = 1 THEN v ELSE SaidBefore(info, 1, j)
      /\ SaidBefore(info, 5, j + 1) = IF t = 5 THEN v ELSE SaidBefore(info, 5, j)
      /\ SaidBefore(info, 2, j + 1) = IF t = 2 THEN v ELSE SaidBefore(info, 2, j)
  BY <1>6, <1>7, Zenon
<1> USE DEF IFLA_VLAN_ID, IFLA_VLAN_PROTOCOL, IFLA_VLAN_FLAGS
<1>9. CASE t = 1
  <2>1. VlanField(p) = [vlan EXCEPT !.id = v]
    BY <1>4, <1>9 DEF VlanField
  <2> QED BY <1>8, <1>9, <2>1
<1>10. CASE t = 5
  <2>1. VlanField(p) = [vlan EXCEPT !.proto = v]
    BY <1>4, <1>10 DEF VlanField
  <2> QED BY <1>8, <1>10, <2>1
<1>11. CASE t = 2
  <2>1. PICK u \in Nat : u = At(p + 2).len
    BY <1>5
  <2>2. VlanField(p) = [vlan EXCEPT !.flags = <<v, u>>]
    BY <1>4, <1>11, <2>1 DEF VlanField
  <2> QED BY <1>8, <1>11, <2>2
<1>12. CASE t \in {3, 4}
  <2>1. VlanField(p) = vlan
    BY <1>4, <1>12 DEF VlanField
  <2> QED BY <1>8, <1>12, <2>1
<1> QED BY <1>9, <1>10, <1>11, <1>12

LEMMA WalkStep == AttrInv /\ linkinfo_vlan => AttrInv'
<1> SUFFICES ASSUME AttrInv, linkinfo_vlan PROVE AttrInv'
  OBVIOUS
<1>1. TypeOK /\ Walking /\ ReadsInside /\ pc = "vlan"
  BY DEF AttrInv, linkinfo_vlan
<1>2. UNCHANGED <<attr, words>>
  BY DEF linkinfo_vlan
<1>3. PICK i \in LinkInfo : i = attr /\ words = LinkInfoWords(i) /\ i.kind = "vlan"
  BY <1>1 DEF Walking
<1>4. PICK j \in 1 .. Len(i.data) : AtField(j)
  BY <1>1, <1>3 DEF Walking
<1>5. PICK n \in Nat : n = Len(FieldsWords(i))
  BY FieldSeqsType
<1>6. PICK m \in Nat : m = Len(i.data)
  BY FieldSeqsType
<1>7. Len(words) = 4 + n /\ 16 + 4 * n < SizeT
  BY <1>3, <1>5, VlanInfoWords
<1>8. PICK q \in Nat : q = FieldAt(i, j)
  BY FieldLayout
<1>9. PICK a \in Field : a = i.data[j]
  BY FieldSeqsType
<1>10. PICK t \in 1 .. 5 : t = a.type
  BY DEF Field
<1>11. PICK l \in 2 .. 4 : l = Len(VlanWords(a)) /\ 4 * l = align(HeadLen(t))
  BY <1>10, FieldWords
<1>12. FieldAt(i, j + 1) = q + l /\ q + l <= n
  <2>1. /\ FieldAt(i, j + 1) = FieldAt(i, j) + Len(VlanWords(i.data[j]))
        /\ FieldAt(i, j + 1) <= Len(FieldsWords(i))
    BY FieldLayout, Zenon
  <2> QED BY <1>5, <1>8, <1>9, <1>11, <2>1, Zenon
<1>13. PICK p \in Nat : p = 5 + q
  OBVIOUS
<1>14. /\ nrta = p /\ nbuflen = 4 * n - 4 * q
       /\ vlan.id = SaidBefore(i, 1, j) /\ vlan.proto = SaidBefore(i, 5, j)
       /\ vlan.flags[1] = SaidBefore(i, 2, j)
  BY <1>3, <1>4, <1>5, <1>8, <1>13, Zenon
     DEF AtField, IFLA_VLAN_ID, IFLA_VLAN_PROTOCOL, IFLA_VLAN_FLAGS
<1>15. At(p) = Word(HeadLen(t), t)
  <2>1. p = 5 + FieldAt(i, j)
    BY <1>8, <1>13, Zenon
  <2> QED BY <1>3, <1>9, <1>10, <2>1, WordsOfField, Zenon
<1>16. PICK h \in 6 .. 16 : h = HeadLen(t)
  BY <1>15, FieldFits
<1>17. At(p).len = h
  BY <1>15, <1>16 DEF Word
<1>18. /\ VlanField(p) \in [id : Nat, proto : Nat, flags : Nat \X Nat]
       /\ VlanField(p).id = SaidBefore(i, 1, j + 1)
       /\ VlanField(p).proto = SaidBefore(i, 5, j + 1)
       /\ VlanField(p).flags[1] = SaidBefore(i, 2, j + 1)
  <2>1. p = 5 + FieldAt(i, j)
    BY <1>8, <1>13, Zenon
  <2>2. vlan \in [id : Nat, proto : Nat, flags : Nat \X Nat]
    BY <1>1 DEF TypeOK
  <2> QED BY <1>3, <1>14, <2>1, <2>2, FieldStored, Zenon
<1>19. /\ vlan' = VlanField(p) /\ LooksAt(p, FieldRead(p))
       /\ nrta' = rtattr_next(p, nbuflen)
       /\ nbuflen' = IF nrta' = NULL THEN nbuflen ELSE nbuflen - align(At(p).len)
       /\ IF nrta' = NULL \/ nbuflen' <= 0
          THEN pc' = "done" /\ out' = "vlan" ELSE UNCHANGED <<pc, out>>
  <2>1. ~(rtattr_payload_len(p) > FieldLen(At(p).type))
    <3>1. PICK x \in Int : x = rtattr_payload_len(p)
      BY <1>15, FieldFits
    <3>2. PICK y \in Int : y = FieldLen(At(p).type) /\ x <= y
      BY <1>15, <3>1, FieldFits
    <3>3. ~(x > y)
      BY <3>2
    <3> QED BY <3>1, <3>2, <3>3
  <2> QED BY <1>14, <2>1, Zenon DEF linkinfo_vlan
<1>20. reach' \in Nat /\ reach' <= 4 + 4 * Len(words)
  <2>1. PICK b \in Nat : b = reach /\ b <= 4 + 4 * (4 + n)
    BY <1>1, <1>3, <1>7 DEF TypeOK, ReadsInside
  <2>2. PICK r \in Nat : r = FieldRead(p) /\ r <= 4 * l
    BY <1>11, <1>15, FieldFits
  <2>3. 4 * p + r \in Nat /\ 4 * p + r <= 4 + 4 * (4 + n) /\ 4 + 4 * (4 + n) \in Nat
    BY <1>12, <1>13, <2>2
  <2>4. Furthest(b, 4 * p + r) \in Nat /\ Furthest(b, 4 * p + r) <= 4 + 4 * (4 + n)
    BY <2>1, <2>3, FurthestBound
  <2> QED BY <1>7, <1>19, <2>1, <2>2, <2>4, Zenon DEF LooksAt
<1>21. align(At(p).len) = 4 * l
  BY <1>11, <1>16, <1>17, Zenon
<1>22. PICK r \in Nat : r = 4 * (n - (q + l))
  BY <1>12
<1>23. /\ nbuflen - 4 * l = r /\ r % SizeT = r /\ ~(nbuflen <= 0) /\ ~(4 * l <= 0)
       /\ (4 * l) \div 4 = l
  <2>1. q + l <= n
    BY <1>12, Zenon
  <2>2. 4 * n - 4 * q \in Nat
    BY <2>1
  <2>3. PICK x \in Nat : x = nbuflen /\ x = 4 * n - 4 * q
    BY <1>14, <2>2, Zenon
  <2>4. 16 + 4 * n < SizeT
    BY <1>7, Zenon
  <2>5. x - 4 * l = r /\ r < SizeT /\ x > 0
    BY <1>22, <2>1, <2>3, <2>4, SizeTAssumption
  <2>6. r % SizeT = r
    BY <2>5, SizeTAssumption
  <2>7. (4 * l) \div 4 = l /\ 4 * l > 0
    OBVIOUS
  <2> QED BY <2>3, <2>5, <2>6, <2>7
<1>24. rtattr_next(p, nbuflen) = IF r <= 4 THEN 0 ELSE p + l
  BY <1>21, <1>23, Zenon DEF rtattr_next, NULL
<1>25. CASE j = m
  <2>1. r = 0
    <3>1. q + l = n
      BY <1>5, <1>6, <1>12, <1>25, FieldLayout, Zenon
    <3> QED BY <1>22, <3>1
  <2>2. nrta' = 0 /\ nbuflen' = nbuflen /\ pc' = "done" /\ out' = "vlan"
    <3>1. r <= 4
      BY <2>1
    <3> QED BY <1>19, <1>24, <3>1, Zenon DEF NULL
  <2>3. TypeOK'
    <3>1. 0 \in 0 .. Len(words)
      BY <1>7
    <3> QED BY <1>1, <1>2, <1>18, <1>19, <1>20, <2>2, <3>1 DEF TypeOK
  <2>4. Walking'
    BY <1>1, <1>2, <2>2 DEF Walking
  <2>5. VlanShown'
    <3>1. \A y : SaidBefore(i, y, j + 1) = Said(i, y)
      BY <1>6, <1>25, SaidEnds
    <3> QED BY <1>2, <1>3, <1>18, <1>19, <2>2, <3>1
            DEF VlanShown, IFLA_VLAN_ID, IFLA_VLAN_PROTOCOL, IFLA_VLAN_FLAGS
  <2>6. ReadsInside'
    BY <1>2, <1>3, <1>20 DEF ReadsInside
  <2> QED BY <2>3, <2>4, <2>5, <2>6 DEF AttrInv
<1>26. CASE j # m
  <2>1. j + 1 \in 1 .. m
    BY <1>6, <1>26
  <2>2. r >= 8
    <3>1. j + 1 \in 1 .. Len(i.data)
      BY <1>6, <2>1
    <3>2. PICK c \in Field : c = i.data[j + 1]
      BY <3>1, FieldSeqsType
    <3>3. PICK k \in 2 .. 4 : k = Len(VlanWords(c))
      BY FieldWords
    <3>4. FieldAt(i, (j + 1) + 1) = (q + l) + k /\ FieldAt(i, (j + 1) + 1) <= n
      <4>1. /\ FieldAt(i, (j + 1) + 1) = FieldAt(i, j + 1) + Len(VlanWords(i.data[j + 1]))
            /\ FieldAt(i, (j + 1) + 1) <= Len(FieldsWords(i))
        BY <3>1, FieldLayout, Zenon
      <4> QED BY <1>5, <1>12, <3>2, <3>3, <4>1, Zenon
    <3>5. (q + l) + k <= n
      BY <3>4, Zenon
    <3> QED BY <1>22, <3>5
  <2>3. nrta' = p + l /\ nbuflen' = r /\ pc' = pc /\ out' = out
    <3>1. ~(r <= 4) /\ p + l # 0 /\ ~(r <= 0)
      BY <2>2
    <3>2. nrta' = p + l
      BY <1>19, <1>24, <3>1, Zenon
    <3>3. nbuflen' = r
      BY <1>19, <1>21, <1>23, <3>1, <3>2, Zenon DEF NULL
    <3> QED BY <1>19, <3>1, <3>2, <3>3, Zenon DEF NULL
  <2>4. p + l \in 0 .. 4 + n /\ r \in Int
    BY <1>13, <1>22, <2>2
  <2>5. TypeOK'
    BY <1>1, <1>2, <1>7, <1>18, <1>19, <1>20, <2>3, <2>4 DEF TypeOK
  <2>6. AtField(j + 1)'
    <3>1. p + l = 5 + (q + l) /\ r = 4 * n - 4 * (q + l)
      BY <1>13, <1>22
    <3> QED BY <1>2, <1>3, <1>5, <1>12, <1>18, <1>19, <2>3, <3>1, Zenon
            DEF AtField, IFLA_VLAN_ID, IFLA_VLAN_PROTOCOL, IFLA_VLAN_FLAGS
  <2>7. Walking'
    <3>1. (\E k \in 1 .. Len(attr.data) : AtField(k))'
      BY <1>2, <1>3, <1>6, <2>1, <2>6
    <3>2. attr' \in LinkInfo /\ words' = LinkInfoWords(attr') /\ attr'.kind = "vlan"
      BY <1>2, <1>3
    <3> QED BY <1>1, <2>3, <3>1, <3>2 DEF Walking
  <2>8. VlanShown' /\ ReadsInside'
    BY <1>1, <1>2, <1>3, <1>20, <2>3 DEF VlanShown, ReadsInside
  <2> QED BY <2>5, <2>7, <2>8 DEF AttrInv
<1> QED BY <1>25, <1>26

-----------------------------------------------------------------------------
(* The theorems.                                                           *)

LEMMA AttrNext == AttrInv /\ [Next]_vars => AttrInv'
<1> SUFFICES ASSUME AttrInv, [Next]_vars PROVE AttrInv'
  OBVIOUS
<1>1. CASE UNCHANGED vars
  BY <1>1 DEF AttrInv, TypeOK, Walking, AtField, VlanShown, ReadsInside, vars
<1>2. CASE Next
  <2>1. CASE Done
    BY <1>1, <2>1 DEF Done
  <2> QED BY <1>2, <2>1, EntryStep, KindStep, DataStep, WalkStep DEF Next
<1> QED BY <1>1, <1>2

LEMMA AttrInvariant == Spec => []AttrInv
BY AttrInit, AttrNext, PTL DEF Spec

(* rta_to_str() and the walk of rta_to_str_IFLA_LINKINFO() keep pointers   *)
(* to words of the attribute only, whatever attribute of a link they show. *)
THEOREM AttrTypeCorrect == Spec => []TypeOK
<1>1. AttrInv => TypeOK
  BY DEF AttrInv
<1> QED BY <1>1, AttrInvariant, PTL

(* Whichever attributes describe a VLAN and in whichever order, the walk   *)
(* ends with the id, the protocol and the flags that the kernel has sent.  *)
THEOREM VlansAreShown == Spec => []VlanShown
<1>1. AttrInv => VlanShown
  BY DEF AttrInv
<1> QED BY <1>1, AttrInvariant, PTL

(* The readers of rta_to_str() and the walk never look behind the          *)
(* attribute, although rtattr_next() compares unsigned differences and no  *)
(* reader of a number or a struct compares its size with rta_len.          *)
THEOREM ReadsStayInside == Spec => []ReadsInside
<1>1. AttrInv => ReadsInside
  BY DEF AttrInv
<1> QED BY <1>1, AttrInvariant, PTL

=============================================================================
