---------------------------- MODULE FlagsProofs ----------------------------
(***************************************************************************)
(* Theorems about the flag strings, for any buffer size and any set of     *)
(* messages.                                                               *)
(***************************************************************************)
EXTENDS Flags, SequenceLemmas

Fields == [hdr : SUBSET (0 .. 15), link : BOOLEAN, ifi : SUBSET (0 .. 31)]

LongestName == 20

LEMMA NamesAreShort ==
  ASSUME NEW c \in Call
  PROVE  /\ Len(NameLen[c]) \in 0 .. 12
         /\ \A b \in 0 .. Len(NameLen[c]) - 1 :
              NameLen[c][b + 1] \in 1 .. LongestName
<1>1. CASE c = "get"
  BY <1>1 DEF NameLen, LongestName
<1>2. CASE c = "new"
  BY <1>2 DEF NameLen, LongestName
<1>3. CASE c = "ifi"
  BY <1>3 DEF NameLen, LongestName
<1> QED BY <1>1, <1>2, <1>3 DEF Call

LEMMA LoopBound ==
  ASSUME NEW c \in Call
  PROVE  n_loop(c) = Len(NameLen[c])
<1> DEFINE L == Len(NameLen[c])
<1>1. L \in 0 .. 12
  BY NamesAreShort
<1>2. n_loop(c) = IF L < 32 THEN L ELSE 32
  BY Zenon DEF n_loop
<1>3. n_loop(c) = L
  <2> HIDE DEF L
  <2> QED BY <1>1, <1>2
<1> QED BY <1>3

(* The bits named are finitely many; the next bit makes one more.          *)
Below(s, n) == {b \in s : b < n}

LEMMA NamedFinite ==
  ASSUME NEW s \in SUBSET (0 .. 31), NEW n \in Nat
  PROVE  /\ Cardinality(Below(s, n)) \in Nat
         /\ Cardinality(Below(s, 0)) = 0
         /\ n \in s => Cardinality(Below(s, n + 1)) = Cardinality(Below(s, n)) + 1
         /\ n \notin s => Cardinality(Below(s, n + 1)) = Cardinality(Below(s, n))
<1>1. \A b \in s : b \in Nat /\ b \in 0 .. 31
  OBVIOUS
<1>2. IsFiniteSet(Below(s, n))
  <2>1. 0 \in Int /\ 31 \in Int
    OBVIOUS
  <2>2. IsFiniteSet(0 .. 31)
    BY ONLY <2>1, FS_Interval
  <2>3. Below(s, n) \in SUBSET (0 .. 31)
    BY <1>1 DEF Below
  <2> QED BY ONLY <2>2, <2>3, FS_Subset
<1>3. Cardinality(Below(s, n)) \in Nat
  BY <1>2, FS_CardinalityType
<1>4. Cardinality(Below(s, 0)) = 0
  <2>1. \A b \in s : ~(b < 0)
    BY <1>1
  <2>2. Below(s, 0) = {}
    BY <2>1, Zenon DEF Below
  <2> QED BY <2>2, FS_EmptySet
<1>5. ASSUME n \in s
      PROVE  Cardinality(Below(s, n + 1)) = Cardinality(Below(s, n)) + 1
  <2>1. (\A b \in s : b < n + 1 <=> b < n \/ b = n) /\ ~(n < n)
    BY <1>1
  <2>2. Below(s, n + 1) = Below(s, n) \cup {n} /\ n \notin Below(s, n)
    BY <1>5, <2>1, Zenon DEF Below
  <2> QED BY <1>2, <2>2, FS_AddElement
<1>6. ASSUME n \notin s
      PROVE  Below(s, n + 1) = Below(s, n)
  <2>1. \A b \in s : b < n + 1 <=> b < n
    BY <1>1, <1>6
  <2> QED BY <2>1, Zenon DEF Below
<1> QED BY <1>3, <1>4, <1>5, <1>6

(***************************************************************************)
(* The inductive invariant: an empty string before the first name, and an  *)
(* end only for one that does not fit.                                     *)
(***************************************************************************)
Bounded ==
  LET k == Cardinality(Named)
  IN  /\ k \in Nat
      /\ first => used = 0
      /\ proc = "aborted" => used >= BufSize

FlagsInv == TypeOK /\ Bounded

LEMMA FlagsAreBits ==
  ASSUME msg \in Message, NEW c
  PROVE  FlagsOf(c) \in SUBSET (0 .. 31)
<1>1. msg \in Fields
  BY FlagsAssumption DEF Fields
<1>2. msg.hdr \in SUBSET (0 .. 15) /\ msg.ifi \in SUBSET (0 .. 31)
  BY <1>1 DEF Fields
<1>3. \A n \in 0 .. 15 : n \in 0 .. 31
  OBVIOUS
<1> QED BY <1>2, <1>3 DEF FlagsOf

LEMMA FlagsInit == Init => FlagsInv
<1> SUFFICES ASSUME Init PROVE FlagsInv
  OBVIOUS
<1>1. Len(NameLen["get"]) \in 0 .. 12 /\ "get" \in Call
  BY NamesAreShort DEF Call
<1>2. TypeOK
  BY <1>1 DEF Init, TypeOK
<1>3. Cardinality(Named) = 0
  <2>1. Named = Below(FlagsOf(call), 0)
    BY DEF Init, Named, Below
  <2> QED BY <1>2, <2>1, FlagsAreBits, NamedFinite DEF TypeOK
<1> QED BY <1>2, <1>3 DEF Init, FlagsInv, Bounded

LEMMA BitStep ==
  ASSUME FlagsInv, NEW c \in Call, snprintflags_long_bit(c)
  PROVE  FlagsInv'
<1> DEFINE k == Cardinality(Named)
<1>1. /\ call = c /\ proc = "running" /\ i \in Nat /\ used \in Nat
      /\ i <= Len(NameLen[c]) - 1 /\ Len(NameLen[c]) \in Nat
  BY NamesAreShort, LoopBound DEF FlagsInv, TypeOK, snprintflags_long_bit, At
<1>2. Appended(c) \in Nat
  <2>1. NameLen[c][i + 1] \in 1 .. LongestName
    BY <1>1, NamesAreShort
  <2> QED BY <2>1 DEF Appended, LongestName
<1>3. TypeOK'
  <2>1. call' = c /\ msg' = msg /\ i' = i + 1
    BY <1>1 DEF snprintflags_long_bit
  <2>2. used' \in Nat /\ first' \in BOOLEAN /\ proc' \in {"running", "aborted"}
    <3>1. CASE i \in FlagsOf(c)
      <4>1. used' = used + Appended(c) /\ first' = FALSE
        BY <3>1 DEF snprintflags_long_bit
      <4>2. proc' = proc \/ proc' = "aborted"
        BY <3>1, Zenon DEF snprintflags_long_bit
      <4>3. used' \in Nat
        <5> HIDE DEF Appended
        <5> QED BY ONLY <1>1, <1>2, <4>1
      <4>4. proc' \in {"running", "aborted"}
        BY ONLY <1>1, <4>2, Zenon
      <4> QED BY <4>1, <4>3, <4>4
    <3>2. CASE i \notin FlagsOf(c)
      BY <1>1, <3>2 DEF FlagsInv, TypeOK, snprintflags_long_bit
    <3> QED BY <3>1, <3>2
  <2> QED BY <1>1, <2>1, <2>2 DEF FlagsInv, TypeOK
<1>4. /\ k \in Nat
      /\ i \in FlagsOf(c) => k' = k + 1
      /\ i \notin FlagsOf(c) => k' = k
  <2>1. /\ Named = Below(FlagsOf(c), i)
        /\ Named' = Below(FlagsOf(c), i + 1)
    BY <1>1 DEF Named, FlagsOf, Below, snprintflags_long_bit
  <2>2. FlagsOf(c) \in SUBSET (0 .. 31)
    BY FlagsAreBits DEF FlagsInv, TypeOK
  <2> QED BY <1>1, <2>1, <2>2, NamedFinite
<1>5. CASE i \in FlagsOf(c)
  <2>1. used' = used + Appended(c) /\ first' = FALSE /\ k' = k + 1
    BY <1>4, <1>5 DEF snprintflags_long_bit
  <2>2. proc' = "aborted" => used' >= BufSize
    BY <1>1, <1>2, <1>5, <2>1, FlagsAssumption DEF snprintflags_long_bit
  <2> QED BY <1>3, <1>4, <2>1, <2>2 DEF FlagsInv, Bounded
<1>6. CASE i \notin FlagsOf(c)
  BY <1>1, <1>3, <1>4, <1>6 DEF FlagsInv, Bounded, snprintflags_long_bit
<1> QED BY <1>5, <1>6

LEMMA NextCallStep ==
  ASSUME FlagsInv, NEW c \in Call, NEW n \in Call \cup {"done"}, next_call(c, n)
  PROVE  FlagsInv'
<1>1. /\ call' = n /\ i' = 0 /\ first' = TRUE /\ used' = 0
      /\ proc' = "running" /\ msg' = msg
  BY DEF next_call, At
<1>2. TypeOK'
  <2>1. n \in Call => 0 <= Len(NameLen[n])
    BY NamesAreShort
  <2> QED BY <1>1, <2>1 DEF FlagsInv, TypeOK
<1>3. Cardinality(Named') = 0
  <2>1. Named' = Below(FlagsOf(n), 0)
    BY <1>1 DEF Named, FlagsOf, Below
  <2> QED BY <2>1, FlagsAreBits, NamedFinite DEF FlagsInv, TypeOK
<1> QED BY <1>1, <1>2, <1>3 DEF FlagsInv, Bounded

LEMMA FlagsStep == FlagsInv /\ [Next]_vars => FlagsInv'
<1> SUFFICES ASSUME FlagsInv, [Next]_vars PROVE FlagsInv'
  OBVIOUS
<1>1. CASE nlmsg_flags_to_str_get
  BY <1>1, BitStep, NextCallStep DEF nlmsg_flags_to_str_get, Call
<1>2. CASE nlmsg_flags_to_str_new
  BY <1>2, BitStep, NextCallStep DEF nlmsg_flags_to_str_new, Call
<1>3. CASE ifi_flags_to_str
  BY <1>3, BitStep, NextCallStep DEF ifi_flags_to_str, Call
<1>4. CASE Done \/ UNCHANGED vars
  <2>1. UNCHANGED vars
    BY <1>4 DEF Done
  <2>2. /\ proc' = proc /\ msg' = msg /\ call' = call
        /\ i' = i /\ first' = first /\ used' = used
    BY <2>1 DEF vars
  <2>3. Named' = Named
    BY <2>2 DEF Named, FlagsOf
  <2>4. TypeOK'
    BY <2>2 DEF FlagsInv, TypeOK
  <2> HIDE DEF Named
  <2> QED BY <2>2, <2>3, <2>4 DEF FlagsInv, Bounded
<1> QED BY <1>1, <1>2, <1>3, <1>4 DEF Next

(* Type correctness; in particular the loop never reads behind a table of  *)
(* names.                                                                  *)
THEOREM FlagsTypeCorrect == Spec => []TypeOK
<1>1. FlagsInv => TypeOK
  BY DEF FlagsInv
<1> QED BY <1>1, FlagsInit, FlagsStep, PTL DEF Spec

-----------------------------------------------------------------------------
(* The names of bits, as the sum that MapThenSumSet() expands to.          *)
Lens(c) == [b \in 0 .. 31 |-> IF b < Len(NameLen[c]) THEN NameLen[c][b + 1] ELSE 0]

(* The names' lengths as a sum over the bits. *)
LEMMA SumIsSumOf ==
  ASSUME NEW c \in Call, NEW S \in SUBSET (0 .. Len(NameLen[c]) - 1)
  PROVE  MapThenSumSet(LAMBDA b : NameLen[c][b + 1], S) = SumOf(Lens(c), S)
<1> DEFINE N == NameLen[c]
           F == Lens(c)
           P(g) == g = [s \in SUBSET S |-> IF s = {} THEN 0 ELSE N[Pick(s) + 1] + g[s \ {Pick(s)}]]
           Q(g) == g = [s \in SUBSET S |-> IF s = {} THEN 0 ELSE F[Pick(s)] + g[s \ {Pick(s)}]]
<1>1. MapThenSumSet(LAMBDA b : NameLen[c][b + 1], S) = (CHOOSE g : P(g))[S]
  BY Zenon DEF MapThenSumSet, MapThenFoldSet, Pick
<1>2. SumOf(Lens(c), S) = (CHOOSE g : Q(g))[S]
  BY Zenon DEF SumOf, SumFcn
<1>3. \A s \in SUBSET S : s # {} => F[Pick(s)] = N[Pick(s) + 1]
  <2>1. \A b \in S : F[b] = N[b + 1]
    <3>1. Len(N) \in 0 .. 12
      BY NamesAreShort
    <3>2. \A b \in S : b \in 0 .. Len(N) - 1
      OBVIOUS
    <3>3. \A b \in 0 .. Len(N) - 1 : b \in 0 .. 31 /\ b < Len(N)
      <4> DEFINE L == Len(N)
      <4>1. L \in 0 .. 12
        BY <3>1
      <4> HIDE DEF L
      <4>2. \A b \in 0 .. L - 1 : b \in 0 .. 31 /\ b < L
        BY <4>1
      <4> QED BY <4>2 DEF L
    <3> QED BY <3>2, <3>3 DEF Lens
  <2> HIDE DEF F, N
  <2> QED BY <2>1, PickIn
<1>4. \A g : P(g) <=> Q(g)
  <2> HIDE DEF F, N
  <2> QED BY <1>3
<1>5. (CHOOSE g : P(g)) = (CHOOSE g : Q(g))
  <2> HIDE DEF P, Q
  <2> QED BY <1>4, Zenon
<1> QED BY <1>1, <1>2, <1>5

(* One name more.                                                          *)
LEMMA NeededStep ==
  ASSUME NEW c \in Call, NEW s \in SUBSET (0 .. 31), NEW n \in 0 .. Len(NameLen[c]) - 1
  PROVE  /\ Needed(c, Below(s, n)) \in Nat
         /\ Below(s, n) # {} => Needed(c, Below(s, n)) >= 1
         /\ n \notin s => Below(s, n + 1) = Below(s, n)
         /\ n \in s => /\ Below(s, n + 1) # {}
                       /\ Needed(c, Below(s, n + 1)) =
                            Needed(c, Below(s, n)) + NameLen[c][n + 1]
                              + (IF Below(s, n) = {} THEN 0 ELSE 1)
<1> DEFINE B == Below(s, n)
           F == Lens(c)
           L == Len(NameLen[c])
<1>1. L \in 0 .. 12 /\ n \in Nat /\ \A b \in s : b \in Nat
  <2>1. L \in 0 .. 12
    BY NamesAreShort, Zenon
  <2>2. n \in 0 .. L - 1
    OBVIOUS
  <2>3. \A b \in s : b \in Nat
    OBVIOUS
  <2> HIDE DEF L
  <2> QED BY <2>1, <2>2, <2>3
<1>2. B \in SUBSET (0 .. L - 1) /\ n \notin B
  <2>1. \A b \in s : b < n => b \in 0 .. L - 1
    <3> HIDE DEF L
    <3>1. n \in 0 .. L - 1
      BY DEF L
    <3> QED BY <1>1, <3>1
  <2>2. ~(n < n)
    BY <1>1
  <2> QED BY <2>1, <2>2, Zenon DEF Below
<1>3. \A b \in 0 .. L - 1 : F[b] = NameLen[c][b + 1] /\ F[b] \in Nat /\ F[b] >= 1
  <2>1. \A b \in 0 .. L - 1 : b \in 0 .. 31 /\ b < L
    <3> HIDE DEF L
    <3> QED BY <1>1
  <2>2. \A b \in 0 .. L - 1 : NameLen[c][b + 1] \in 1 .. LongestName
    BY NamesAreShort
  <2>3. \A b \in 0 .. L - 1 : F[b] = NameLen[c][b + 1]
    BY <2>1 DEF Lens
  <2> HIDE DEF F, L
  <2>4. \A x \in 1 .. LongestName : x \in Nat /\ x >= 1
    BY DEF LongestName
  <2> QED BY <2>2, <2>3, <2>4
<1>4. IsFiniteSet(B) /\ Cardinality(B) \in Nat /\ (B = {} <=> Cardinality(B) = 0)
  <2>1. IsFiniteSet(0 .. L - 1)
    <3>1. 0 \in Int /\ L - 1 \in Int
      <4> HIDE DEF L
      <4> QED BY <1>1
    <3> QED BY ONLY <3>1, FS_Interval
  <2> HIDE DEF B
  <2>2. IsFiniteSet(B)
    BY <1>2, <2>1, FS_Subset
  <2> QED BY <2>2, FS_CardinalityType, FS_EmptySet
<1> HIDE DEF F
<1>5. /\ SumOf(F, B \cup {n}) = F[n] + SumOf(F, B) /\ SumOf(F, B) \in Nat
  <2>1. \A b \in B \cup {n} : F[b] \in Nat
    <3>1. \A b \in B \cup {n} : b \in 0 .. L - 1
      BY <1>2
    <3> HIDE DEF B, L
    <3> QED BY <1>3, <3>1
  <2> HIDE DEF B
  <2> QED BY <1>2, <1>4, <2>1, SumAdd
<1>6. Needed(c, B) = IF B = {} THEN 0 ELSE SumOf(F, B) + Cardinality(B) - 1
  <2>1. MapThenSumSet(LAMBDA b : NameLen[c][b + 1], B) = SumOf(F, B)
    <3> HIDE DEF B
    <3> QED BY <1>2, SumIsSumOf DEF F
  <2> HIDE DEF B
  <2> QED BY <2>1, Zenon DEF Needed
<1>7. ASSUME B # {}
      PROVE  Needed(c, B) \in Nat /\ Needed(c, B) >= 1
  <2>1. PICK b \in B : TRUE
    BY <1>7
  <2>2. \A x \in B : F[x] \in Nat
    <3> HIDE DEF B, L
    <3> QED BY <1>2, <1>3
  <2>3. B \in SUBSET B
    OBVIOUS
  <2> HIDE DEF B
  <2>4. SumOf(F, B) = F[b] + SumFcn(F, B)[B \ {b}]
    BY <1>4, <2>1, <2>2, <2>3, SumAny DEF SumOf
  <2>5. SumFcn(F, B)[B \ {b}] \in Nat
    <3>1. SumFcn(F, B) \in [SUBSET B -> Nat] /\ B \ {b} \in SUBSET B
      BY <1>4, <2>2, SumExists
    <3> QED BY <3>1
  <2>6. F[b] \in Nat /\ F[b] >= 1
    <3> HIDE DEF L
    <3> QED BY <1>2, <1>3, <2>1
  <2> QED BY <1>4, <1>6, <1>7, <2>4, <2>5, <2>6
<1>8. n \notin s => Below(s, n + 1) = B
  <2>1. \A b \in s : n \notin s => (b < n + 1 <=> b < n)
    BY <1>1
  <2> QED BY <2>1, Zenon DEF Below
<1>9. ASSUME n \in s
      PROVE  /\ Below(s, n + 1) # {}
             /\ Needed(c, Below(s, n + 1)) =
                  Needed(c, B) + NameLen[c][n + 1] + (IF B = {} THEN 0 ELSE 1)
  <2> DEFINE D == Below(s, n + 1)
  <2>1. D = B \cup {n}
    <3>1. \A b \in s : b < n + 1 <=> b < n \/ b = n
      BY <1>1
    <3> QED BY <1>9, <3>1, Zenon DEF Below
  <2>2. D \in SUBSET (0 .. L - 1) /\ D # {}
    <3> HIDE DEF D, B
    <3> QED BY <1>2, <2>1
  <2>3. MapThenSumSet(LAMBDA b : NameLen[c][b + 1], D) = SumOf(F, D)
    <3> HIDE DEF D
    <3> QED BY <2>2, SumIsSumOf DEF F
  <2>4. Needed(c, D) = SumOf(F, D) + Cardinality(D) - 1
    <3> HIDE DEF D
    <3> QED BY <2>2, <2>3, Zenon DEF Needed
  <2>5. Cardinality(D) = Cardinality(B) + 1
    <3> HIDE DEF D, B
    <3> QED BY <1>2, <1>4, <2>1, FS_AddElement
  <2>6. PICK a, x \in Nat : a = SumOf(F, B) /\ x = F[n] /\ x = NameLen[c][n + 1]
    <3>1. n \in 0 .. L - 1
      OBVIOUS
    <3> HIDE DEF L
    <3> QED BY <1>3, <1>5, <3>1
  <2>7. SumOf(F, D) = x + a
    BY <1>5, <2>1, <2>6
  <2> HIDE DEF D, B
  <2>8. CASE B = {}
    <3>1. Cardinality(B) = 0 /\ a = 0
      BY <1>4, <2>6, <2>8, SumEmpty
    <3> QED BY <1>6, <2>2, <2>4, <2>5, <2>6, <2>7, <2>8, <3>1 DEF D
  <2>9. CASE B # {}
    BY <1>4, <1>6, <2>2, <2>4, <2>5, <2>6, <2>7, <2>9 DEF D
  <2> QED BY <2>8, <2>9 DEF D
<1>10. Needed(c, B) \in Nat
  BY <1>6, <1>7
<1> QED BY <1>7, <1>8, <1>9, <1>10

-----------------------------------------------------------------------------
(***************************************************************************)
(* The string so far, exactly.                                             *)
(***************************************************************************)
Exact ==
  call \in Call =>
    /\ used = Needed(call, Named)
    /\ first <=> Named = {}
    /\ proc = "aborted" <=> used >= BufSize

(* The empty string. *)
LEMMA NeededNone == \A c : Needed(c, {}) = 0
BY DEF Needed

(* The first call starts with the empty string. *)
LEMMA ExactInit == Init => Exact
<1> SUFFICES ASSUME Init PROVE Exact
  OBVIOUS
<1>1. msg \in Message /\ i = 0
  BY DEF Init
<1>2. Named = {}
  <2>1. \A b \in 0 .. 31 : ~(b < 0)
    OBVIOUS
  <2>2. FlagsOf(call) \in SUBSET (0 .. 31)
    BY <1>1, FlagsAreBits
  <2> QED BY <1>1, <2>1, <2>2, Zenon DEF Named
<1>3. Needed(call, Named) = 0
  BY <1>2, NeededNone
<1> HIDE DEF Named
<1> QED BY <1>2, <1>3, FlagsAssumption DEF Init, Exact

(* What a round of the loop does, in terms of the bits passed.             *)
LEMMA BitFacts ==
  ASSUME FlagsInv, NEW c \in Call, snprintflags_long_bit(c)
  PROVE  /\ call = c /\ call' = c /\ proc = "running" /\ i \in Nat /\ used \in Nat
         /\ i \in 0 .. Len(NameLen[c]) - 1 /\ i' = i + 1
         /\ FlagsOf(c) \in SUBSET (0 .. 31)
         /\ Named = Below(FlagsOf(c), i) /\ Named' = Below(FlagsOf(c), i + 1)
         /\ NameLen[c][i + 1] \in Nat
         /\ first \in BOOLEAN /\ msg' = msg /\ msg \in Message
<1>1. /\ call = c /\ proc = "running" /\ i \in Nat /\ used \in Nat /\ first \in BOOLEAN
      /\ i <= Len(NameLen[c]) - 1 /\ Len(NameLen[c]) \in Nat /\ msg \in Message
  BY NamesAreShort, LoopBound DEF FlagsInv, TypeOK, snprintflags_long_bit, At
<1>2. call' = c /\ i' = i + 1 /\ msg' = msg
  BY <1>1 DEF snprintflags_long_bit
<1>3. Named = Below(FlagsOf(c), i) /\ Named' = Below(FlagsOf(c), i + 1)
  BY <1>1, <1>2 DEF Named, FlagsOf, Below
<1>4. i \in 0 .. Len(NameLen[c]) - 1
  <2> DEFINE L == Len(NameLen[c])
  <2>1. i <= L - 1 /\ L \in Nat
    BY <1>1
  <2> HIDE DEF L
  <2>2. i \in 0 .. L - 1
    BY <1>1, <2>1
  <2> QED BY <2>2 DEF L
<1>5. FlagsOf(c) \in SUBSET (0 .. 31)
  BY <1>1, FlagsAreBits
<1>6. NameLen[c][i + 1] \in Nat
  <2>1. NameLen[c][i + 1] \in 1 .. LongestName
    BY <1>4, NamesAreShort
  <2>2. \A y \in 1 .. LongestName : y \in Nat
    BY DEF LongestName
  <2> QED BY <2>1, <2>2
<1> QED BY <1>1, <1>2, <1>3, <1>4, <1>5, <1>6

(* A round of the loop appends the one name. *)
LEMMA ExactBit ==
  ASSUME FlagsInv, Exact, NEW c \in Call, snprintflags_long_bit(c)
  PROVE  Exact'
<1> DEFINE s == FlagsOf(c)
           x == NameLen[c][i + 1]
<1>1. /\ call = c /\ call' = c /\ proc = "running" /\ i \in Nat /\ used \in Nat
      /\ i \in 0 .. Len(NameLen[c]) - 1
      /\ s \in SUBSET (0 .. 31)
      /\ Named = Below(s, i) /\ Named' = Below(s, i + 1)
      /\ x \in Nat /\ first \in BOOLEAN
  BY BitFacts
<1>2. /\ i \notin s => Below(s, i + 1) = Below(s, i)
      /\ i \in s => /\ Below(s, i + 1) # {}
                    /\ Needed(c, Below(s, i + 1)) =
                         Needed(c, Below(s, i)) + x + (IF Below(s, i) = {} THEN 0 ELSE 1)
  <2> HIDE DEF s
  <2> QED BY <1>1, NeededStep
<1>3. used = Needed(c, Below(s, i)) /\ (first <=> Below(s, i) = {}) /\ ~(used >= BufSize)
  <2>1. proc # "aborted"
    BY <1>1
  <2> HIDE DEF s
  <2> QED BY <1>1, <2>1, Zenon DEF Exact
<1>4. CASE i \in s
  <2>1. /\ used' = used + (IF first THEN 0 ELSE 1) + x /\ first' = FALSE
        /\ proc' = IF used' < BufSize THEN proc ELSE "aborted"
    <3>1. /\ used' = used + Appended(c) /\ first' = FALSE
          /\ proc' = IF used' < BufSize THEN proc ELSE "aborted"
      BY <1>4 DEF snprintflags_long_bit
    <3>2. used + Appended(c) = used + (IF first THEN 0 ELSE 1) + x
      <4>1. Appended(c) = (IF first THEN 0 ELSE 1) + x
        BY DEF Appended
      <4> HIDE DEF x
      <4> QED BY <1>1, <4>1
    <3> QED BY <3>1, <3>2
  <2> HIDE DEF s, x
  <2>3. used' = Needed(c, Named') /\ used' \in Nat /\ Named' # {}
    BY <1>1, <1>2, <1>3, <1>4, <2>1
  <2>4. proc' = "aborted" <=> used' >= BufSize
    BY <1>1, <2>1, <2>3, FlagsAssumption
  <2> HIDE DEF Named
  <2> QED BY <1>1, <2>1, <2>3, <2>4 DEF Exact
<1>5. CASE i \notin s
  <2>1. UNCHANGED <<used, first, proc>>
    BY <1>5 DEF snprintflags_long_bit
  <2>2. Named' = Named
    BY <1>1, <1>2, <1>5
  <2> HIDE DEF Named, s
  <2> QED BY <1>1, <2>1, <2>2 DEF Exact
<1> QED BY <1>4, <1>5

(* The next call clears the buffer. *)
LEMMA ExactCall ==
  ASSUME FlagsInv, NEW c \in Call, NEW n \in Call \cup {"done"}, next_call(c, n)
  PROVE  Exact'
<1>1. /\ call' = n /\ i' = 0 /\ first' = TRUE /\ used' = 0
      /\ proc' = "running" /\ msg' = msg
  BY DEF next_call, At
<1>2. Named' = {}
  <2>1. \A b \in 0 .. 31 : ~(b < 0)
    OBVIOUS
  <2>2. FlagsOf(n) \in SUBSET (0 .. 31)
    BY FlagsAreBits DEF FlagsInv, TypeOK
  <2>3. Named' = {b \in FlagsOf(n) : b < 0}
    BY <1>1 DEF Named, FlagsOf
  <2> QED BY <2>1, <2>2, <2>3, Zenon
<1>3. Needed(n, {}) = 0
  BY NeededNone
<1> HIDE DEF Named
<1> QED BY <1>1, <1>2, <1>3, FlagsAssumption DEF Exact

(* Every step preserves it. *)
LEMMA ExactStep == FlagsInv /\ Exact /\ [Next]_vars => Exact'
<1> SUFFICES ASSUME FlagsInv, Exact, [Next]_vars PROVE Exact'
  OBVIOUS
<1>1. CASE nlmsg_flags_to_str_get
  BY <1>1, ExactBit, ExactCall DEF nlmsg_flags_to_str_get, Call
<1>2. CASE nlmsg_flags_to_str_new
  BY <1>2, ExactBit, ExactCall DEF nlmsg_flags_to_str_new, Call
<1>3. CASE ifi_flags_to_str
  BY <1>3, ExactBit, ExactCall DEF ifi_flags_to_str, Call
<1>4. CASE Done \/ UNCHANGED vars
  <2>1. /\ proc' = proc /\ msg' = msg /\ call' = call
        /\ i' = i /\ first' = first /\ used' = used
    BY <1>4 DEF Done, vars
  <2>2. Named' = Named
    BY <2>1 DEF Named, FlagsOf
  <2> HIDE DEF Named
  <2> QED BY <2>1, <2>2 DEF Exact
<1> QED BY <1>1, <1>2, <1>3, <1>4 DEF Next

(* At every moment the string is the names of the bits passed, whatever    *)
(* the buffer and the messages.                                            *)
THEOREM StringsAreNames == Spec => []StringIsNames
<1>1. FlagsInv /\ Exact => StringIsNames
  <2> SUFFICES ASSUME Exact, call \in Call
               PROVE  /\ used = Needed(call, Named)
                      /\ proc = "aborted" <=> Needed(call, Named) >= BufSize
    BY DEF StringIsNames
  <2>1. used = Needed(call, Named) /\ (proc = "aborted" <=> used >= BufSize)
    BY Zenon DEF Exact
  <2> QED BY <2>1, Zenon
<1> QED BY <1>1, FlagsInit, FlagsStep, ExactInit, ExactStep, PTL DEF Spec

-----------------------------------------------------------------------------
(***************************************************************************)
(* The strings of the header's flags, and of few flags of an interface.    *)
(***************************************************************************)
(* The bits of nlmsg_flags in the kernel's messages. *)
KernelBits == {1, 4, 5, 8, 9, 10, 11}

(* What the names of the bits below n exceed 16 by, in the table of        *)
(* interface flags.                                                        *)
Excess(n) ==
  (IF n > 4 THEN 1 ELSE 0) + (IF n > 8 THEN 4 ELSE 0)
    + (IF n > 9 THEN 3 ELSE 0) + (IF n > 11 THEN 4 ELSE 0)

(* The names of the kernel's bits below n, each with a separator or NUL. *)
HeaderLen(n) ==
  (IF n > 1 THEN 12 ELSE 0) + (IF n > 4 THEN 16 ELSE 0) + (IF n > 5 THEN 20 ELSE 0)
    + (IF n > 8 THEN 13 ELSE 0) + (IF n > 9 THEN 13 ELSE 0)

(* The string with its NUL is at most that long. *)
Fits ==
  LET len == used + (IF first THEN 0 ELSE 1)
  IN  /\ call = "ifi" => len <= 17 * Cardinality(Named) + Excess(i)
      /\ call \in {"get", "new"} => len <= HeaderLen(i)
      /\ call = "done" => used = 0

(* The tables keep to the two bounds. *)
LEMMA IfiName ==
  ASSUME NEW n \in 0 .. Len(NameLen["ifi"]) - 1
  PROVE  NameLen["ifi"][n + 1] + 1 + Excess(n) <= 17 + Excess(n + 1)
<1>1. n \in 0 .. 11
  BY DEF NameLen
<1>2. n \in {0, 1, 2, 3, 4, 5, 6, 7, 8, 9, 10, 11}
  BY <1>1
<1> QED BY <1>2 DEF NameLen, Excess

LEMMA HeaderName ==
  ASSUME NEW c \in {"get", "new"}, NEW n \in 0 .. Len(NameLen[c]) - 1
  PROVE  /\ n \in KernelBits => NameLen[c][n + 1] + 1 + HeaderLen(n) <= HeaderLen(n + 1)
         /\ HeaderLen(n) <= HeaderLen(n + 1)
<1>1. CASE c = "get"
  <2>1. n \in 0 .. 8
    BY <1>1 DEF NameLen
  <2>2. n \in {0, 1, 2, 3, 4, 5, 6, 7, 8}
    BY <2>1
  <2> QED BY <1>1, <2>2 DEF NameLen, HeaderLen, KernelBits
<1>2. CASE c = "new"
  <2>1. n \in 0 .. 9
    BY <1>2 DEF NameLen
  <2>2. n \in {0, 1, 2, 3, 4, 5, 6, 7, 8, 9}
    BY <2>1
  <2> QED BY <1>2, <2>2 DEF NameLen, HeaderLen, KernelBits
<1> QED BY <1>1, <1>2

(* A round of the loop keeps to them. *)
LEMMA FitsBit ==
  ASSUME \A x \in Message : x.hdr \subseteq KernelBits,
         FlagsInv, Fits, NEW c \in Call, snprintflags_long_bit(c)
  PROVE  Fits'
<1> DEFINE k == Cardinality(Named)
           x == NameLen[c][i + 1]
<1>1. /\ call = c /\ call' = c /\ i \in Nat /\ used \in Nat
      /\ i \in 0 .. Len(NameLen[c]) - 1 /\ i' = i + 1
      /\ FlagsOf(c) \in SUBSET (0 .. 31)
      /\ Named = Below(FlagsOf(c), i) /\ Named' = Below(FlagsOf(c), i + 1)
      /\ x \in Nat /\ first \in BOOLEAN /\ msg \in Message
  BY BitFacts
<1>2. /\ k \in Nat
      /\ i \in FlagsOf(c) => k' = k + 1
      /\ i \notin FlagsOf(c) => k' = k
  BY <1>1, NamedFinite
<1>3. /\ i \in FlagsOf(c) =>
           used' + (IF first' THEN 0 ELSE 1) = used + (IF first THEN 0 ELSE 1) + x + 1
      /\ i \notin FlagsOf(c) => used' = used /\ first' = first
  <2>1. i \notin FlagsOf(c) => used' = used /\ first' = first
    BY DEF snprintflags_long_bit
  <2>2. i \in FlagsOf(c) => used' = used + ((IF first THEN 0 ELSE 1) + x) /\ first' = FALSE
    BY DEF snprintflags_long_bit, Appended
  <2> HIDE DEF x
  <2> QED BY <1>1, <2>1, <2>2
<1>4. x \in Nat
  BY <1>1
<1>5. CASE c = "ifi"
  <2>1. x + 1 + Excess(i) <= 17 + Excess(i + 1) /\ Excess(i) <= Excess(i + 1)
        /\ Excess(i) \in Nat /\ Excess(i + 1) \in Nat
    <3>1. x + 1 + Excess(i) <= 17 + Excess(i + 1)
      BY <1>1, <1>5, IfiName
    <3>2. Excess(i) <= Excess(i + 1) /\ Excess(i) \in Nat /\ Excess(i + 1) \in Nat
      BY <1>1 DEF Excess
    <3> QED BY <3>1, <3>2
  <2>2. used + (IF first THEN 0 ELSE 1) <= 17 * k + Excess(i)
    BY <1>1, <1>5 DEF Fits
  <2> DEFINE u == used + (IF first THEN 0 ELSE 1)
             v == used' + (IF first' THEN 0 ELSE 1)
  <2> HIDE DEF x, k
  <2>3. u \in Nat /\ u <= 17 * k + Excess(i)
    BY <1>1, <2>2
  <2>4. v = (IF i \in FlagsOf(c) THEN u + x + 1 ELSE u)
    BY <1>3
  <2> HIDE DEF u, v
  <2>5. v <= 17 * k' + Excess(i + 1)
    BY <1>2, <1>4, <2>1, <2>3, <2>4
  <2>6. used' + (IF first' THEN 0 ELSE 1) <= 17 * k' + Excess(i + 1)
    BY <2>5 DEF v
  <2> QED BY <1>1, <1>5, <2>6 DEF Fits, k
<1>6. CASE c \in {"get", "new"}
  <2>1. /\ i \in KernelBits => x + 1 + HeaderLen(i) <= HeaderLen(i + 1)
        /\ HeaderLen(i) <= HeaderLen(i + 1)
    BY <1>1, <1>6, HeaderName
  <2>2. HeaderLen(i) \in Nat /\ HeaderLen(i + 1) \in Nat
    BY <1>1 DEF HeaderLen
  <2>3. i \in FlagsOf(c) => i \in KernelBits
    BY <1>1, <1>6 DEF FlagsOf
  <2>4. used + (IF first THEN 0 ELSE 1) <= HeaderLen(i)
    BY <1>1, <1>6 DEF Fits
  <2> HIDE DEF x
  <2>5. used' + (IF first' THEN 0 ELSE 1) <= HeaderLen(i + 1)
    BY <1>1, <1>3, <1>4, <2>1, <2>2, <2>3, <2>4
  <2> QED BY <1>1, <1>6, <2>5 DEF Fits
<1> QED BY <1>5, <1>6 DEF Call

(* And so does the start of a call. *)
LEMMA FitsCall ==
  ASSUME FlagsInv, NEW c \in Call, NEW n \in Call \cup {"done"}, next_call(c, n)
  PROVE  Fits'
<1>1. /\ call' = n /\ i' = 0 /\ first' = TRUE /\ used' = 0
      /\ msg' = msg
  BY DEF next_call, At
<1>2. Cardinality(Named') \in Nat
  <2>1. FlagsInv'
    BY NextCallStep
  <2> QED BY <2>1 DEF FlagsInv, Bounded
<1>3. Excess(0) = 0 /\ HeaderLen(0) = 0
  BY DEF Excess, HeaderLen
<1> HIDE DEF Named
<1> QED BY <1>1, <1>2, <1>3 DEF Fits

(* And every step. *)
LEMMA FitsStep ==
  ASSUME \A x \in Message : x.hdr \subseteq KernelBits
  PROVE  FlagsInv /\ Fits /\ [Next]_vars => Fits'
<1> SUFFICES ASSUME FlagsInv, Fits, [Next]_vars PROVE Fits'
  OBVIOUS
<1>1. CASE nlmsg_flags_to_str_get
  BY <1>1, FitsBit, FitsCall DEF nlmsg_flags_to_str_get, Call
<1>2. CASE nlmsg_flags_to_str_new
  BY <1>2, FitsBit, FitsCall DEF nlmsg_flags_to_str_new, Call
<1>3. CASE ifi_flags_to_str
  BY <1>3, FitsBit, FitsCall DEF ifi_flags_to_str, Call
<1>4. CASE Done \/ UNCHANGED vars
  <2>1. /\ proc' = proc /\ msg' = msg /\ call' = call
        /\ i' = i /\ first' = first /\ used' = used
    BY <1>4 DEF Done, vars
  <2>2. Named' = Named
    BY <2>1 DEF Named, FlagsOf
  <2> HIDE DEF Named
  <2> QED BY <2>1, <2>2 DEF Fits
<1> QED BY <1>1, <1>2, <1>3, <1>4 DEF Next

(* With 100 bytes or more, the flags the kernel sets in headers always     *)
(* fit, and so do any five flags of an interface.                          *)
THEOREM FiveFlagsFit ==
  ASSUME BufSize >= 100, \A x \in Message : x.hdr \subseteq KernelBits
  PROVE  Spec => []SixFlagsNeeded
<1>1. Init => Fits
  <2> SUFFICES ASSUME Init PROVE Fits
    OBVIOUS
  <2>1. call = "get" /\ used = 0 /\ first = TRUE /\ i = 0
    BY DEF Init
  <2>2. HeaderLen(0) = 0
    BY DEF HeaderLen
  <2> QED BY <2>1, <2>2 DEF Fits
<1>2. FlagsInv /\ Fits /\ [Next]_vars => Fits'
  BY FitsStep
<1>3. FlagsInv /\ Fits => SixFlagsNeeded
  <2> DEFINE k == Cardinality(Named)
  <2> SUFFICES ASSUME FlagsInv, Fits, proc = "aborted"
               PROVE  call = "ifi" /\ k >= 6
    BY DEF SixFlagsNeeded
  <2>1. /\ used \in Nat /\ used >= BufSize /\ first \in BOOLEAN /\ i \in Nat /\ k \in Nat
        /\ call \in Call \cup {"done"} /\ (first => used = 0)
    BY DEF FlagsInv, TypeOK, Bounded
  <2>2. used >= 100 /\ ~first
    BY <2>1, FlagsAssumption
  <2>3. call # "done" /\ call \notin {"get", "new"}
    <3>1. HeaderLen(i) <= 74 /\ HeaderLen(i) \in Nat
      BY <2>1 DEF HeaderLen
    <3> QED BY <2>1, <2>2, <3>1 DEF Fits
  <2>4. used + 1 <= 17 * k + Excess(i) /\ call = "ifi"
    BY <2>1, <2>2, <2>3 DEF Fits, Call
  <2>5. Excess(i) <= 12 /\ Excess(i) \in Nat
    BY <2>1 DEF Excess
  <2> HIDE DEF k
  <2> QED BY <2>1, <2>2, <2>4, <2>5
<1> QED BY <1>1, <1>2, <1>3, FlagsInit, FlagsStep, PTL DEF Spec

=============================================================================
