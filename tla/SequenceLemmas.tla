--------------------------- MODULE SequenceLemmas ---------------------------
(***************************************************************************)
(* Facts about the data structures of the models, used by the proofs about *)
(* them: queues of distinct elements, induction over the naturals, sums    *)
(* over finite sets, concatenated and flattened sequences.                 *)
(***************************************************************************)
EXTENDS Integers, Sequences, FiniteSets, Functions, SequencesExt,
        FiniteSetTheorems, SequenceTheorems, WellFoundedInduction, TLAPS

-----------------------------------------------------------------------------
(* Queues of distinct elements, kept as sequences: what a queue holds      *)
(* after an append, after its head is taken, and after it is split in two, *)
(* and how long it can get.                                                *)

(* The empty queue holds nothing. *)
LEMMA EmptyQueue == Range(<<>>) = {} /\ IsInjective(<<>>)
BY DEF Range, IsInjective

(* What a queue holds are members of the set it is a queue over. *)
LEMMA RangeInSet ==
  ASSUME NEW S, NEW s \in Seq(S)
  PROVE  Range(s) \subseteq S
BY DEF Range

(* A queue that holds something is not empty, and the other way round. *)
LEMMA HeadInRange ==
  ASSUME NEW S, NEW s \in Seq(S), s # <<>>
  PROVE  Head(s) \in Range(s)
<1>1. 1 \in DOMAIN s /\ Head(s) = s[1]
  OBVIOUS
<1> QED BY <1>1 DEF Range

(* Appending adds the one element, and keeps the elements distinct if the  *)
(* element is new.                                                         *)
LEMMA AppendQueue ==
  ASSUME NEW S, NEW s \in Seq(S), NEW e \in S
  PROVE  /\ Append(s, e) \in Seq(S)
         /\ Range(Append(s, e)) = Range(s) \cup {e}
         /\ IsInjective(s) /\ e \notin Range(s) => IsInjective(Append(s, e))
<1> DEFINE t == Append(s, e)
<1>1. /\ t \in Seq(S)
      /\ DOMAIN s = 1 .. Len(s)
      /\ DOMAIN t = 1 .. Len(s) + 1
      /\ Len(s) \in Nat
      /\ \A i \in 1 .. Len(s) : t[i] = s[i]
      /\ t[Len(s) + 1] = e
  BY AppendProperties
<1>2. Range(t) = Range(s) \cup {e}
  <2>1. ASSUME NEW x \in Range(t) PROVE x \in Range(s) \cup {e}
    <3>1. PICK i \in 1 .. Len(s) + 1 : x = t[i]
      BY <1>1, <2>1 DEF Range
    <3>2. CASE i \in 1 .. Len(s)
      BY <3>1, <3>2, <1>1 DEF Range
    <3>3. CASE i = Len(s) + 1
      BY <3>1, <3>3, <1>1
    <3> QED BY <3>2, <3>3, <1>1
  <2>2. ASSUME NEW x \in Range(s) PROVE x \in Range(t)
    <3>1. PICK i \in 1 .. Len(s) : x = s[i]
      BY <1>1, <2>2 DEF Range
    <3>2. i \in DOMAIN t /\ x = t[i]
      BY <3>1, <1>1
    <3> QED BY <3>2 DEF Range
  <2>3. e \in Range(t)
    <3>1. Len(s) + 1 \in DOMAIN t
      BY <1>1
    <3> QED BY <3>1, <1>1 DEF Range
  <2> QED BY <2>1, <2>2, <2>3
<1>3. ASSUME IsInjective(s), e \notin Range(s) PROVE IsInjective(t)
  <2> SUFFICES ASSUME NEW i \in 1 .. Len(s) + 1, NEW j \in 1 .. Len(s) + 1,
                      t[i] = t[j]
               PROVE  i = j
    BY <1>1 DEF IsInjective
  <2>1. \A k \in 1 .. Len(s) : s[k] # e
    BY <1>1, <1>3 DEF Range
  <2>2. CASE i \in 1 .. Len(s) /\ j \in 1 .. Len(s)
    BY <2>2, <1>1, <1>3 DEF IsInjective
  <2>3. CASE i = Len(s) + 1 \/ j = Len(s) + 1
    BY <2>1, <2>3, <1>1
  <2> QED BY <2>2, <2>3, <1>1
<1> QED BY <1>1, <1>2, <1>3

(* A contiguous part of a queue: its elements are the ones at its indices, *)
(* and they are distinct if the queue's are.                               *)
LEMMA PartOfQueue ==
  ASSUME NEW S, NEW s \in Seq(S), NEW m \in Nat, NEW n \in Nat,
         1 <= m, n <= Len(s)
  PROVE  /\ SubSeq(s, m, n) \in Seq(S)
         /\ Range(SubSeq(s, m, n)) = {s[i] : i \in m .. n}
         /\ IsInjective(s) => IsInjective(SubSeq(s, m, n))
<1> DEFINE t == SubSeq(s, m, n)
           len == IF m <= n THEN n - m + 1 ELSE 0
<1>1. /\ t \in Seq(S)
      /\ DOMAIN s = 1 .. Len(s)
      /\ DOMAIN t = 1 .. len
      /\ \A i \in 1 .. len : t[i] = s[m + i - 1]
      /\ Len(s) \in Nat
  BY SubSeqProperties
<1>2. Range(t) = {s[i] : i \in m .. n}
  <2>1. ASSUME NEW x \in Range(t) PROVE x \in {s[i] : i \in m .. n}
    <3>1. PICK k \in 1 .. len : x = t[k]
      BY <1>1, <2>1 DEF Range
    <3>2. m + k - 1 \in m .. n /\ x = s[m + k - 1]
      BY <3>1, <1>1
    <3> QED BY <3>2
  <2>2. ASSUME NEW i \in m .. n PROVE s[i] \in Range(t)
    <3>1. i - m + 1 \in 1 .. len /\ t[i - m + 1] = s[m + (i - m + 1) - 1]
      BY <1>1, <2>2
    <3>2. m + (i - m + 1) - 1 = i
      BY <2>2
    <3> QED BY <3>1, <3>2, <1>1 DEF Range
  <2> QED BY <2>1, <2>2
<1>3. ASSUME IsInjective(s) PROVE IsInjective(t)
  <2> SUFFICES ASSUME NEW i \in 1 .. len, NEW j \in 1 .. len, t[i] = t[j]
               PROVE  i = j
    BY <1>1 DEF IsInjective
  <2>1. m + i - 1 \in 1 .. Len(s) /\ m + j - 1 \in 1 .. Len(s)
    BY <1>1
  <2>2. s[m + i - 1] = s[m + j - 1]
    BY <1>1
  <2>3. m + i - 1 = m + j - 1
    BY <2>1, <2>2, <1>1, <1>3 DEF IsInjective
  <2> QED BY <2>3
<1> QED BY <1>1, <1>2, <1>3

(* Cutting a queue of distinct elements in two: the parts hold what the    *)
(* queue held, and nothing twice.                                          *)
LEMMA SplitQueue ==
  ASSUME NEW S, NEW s \in Seq(S), NEW n \in 0 .. Len(s), IsInjective(s)
  PROVE  LET a == SubSeq(s, 1, n)
             b == SubSeq(s, n + 1, Len(s))
         IN  /\ a \in Seq(S) /\ b \in Seq(S)
             /\ Range(a) \cup Range(b) = Range(s)
             /\ Range(a) \cap Range(b) = {}
             /\ IsInjective(a) /\ IsInjective(b)
<1> DEFINE a == SubSeq(s, 1, n)
           b == SubSeq(s, n + 1, Len(s))
<1>1. Len(s) \in Nat /\ DOMAIN s = 1 .. Len(s) /\ n \in Nat
  OBVIOUS
<1>2. a \in Seq(S) /\ Range(a) = {s[i] : i \in 1 .. n} /\ IsInjective(a)
  BY <1>1, PartOfQueue
<1>3. b \in Seq(S) /\ Range(b) = {s[i] : i \in n + 1 .. Len(s)} /\ IsInjective(b)
  BY <1>1, PartOfQueue
<1>4. Range(s) = {s[i] : i \in 1 .. Len(s)}
  BY <1>1 DEF Range
<1>5. Range(a) \cup Range(b) = Range(s)
  <2>1. 1 .. Len(s) = (1 .. n) \cup (n + 1 .. Len(s))
    BY <1>1
  <2> QED BY <2>1, <1>2, <1>3, <1>4
<1>6. Range(a) \cap Range(b) = {}
  <2> SUFFICES ASSUME NEW i \in 1 .. n, NEW j \in n + 1 .. Len(s), s[i] = s[j]
               PROVE  FALSE
    BY <1>2, <1>3
  <2> QED BY <1>1 DEF IsInjective
<1> QED BY <1>2, <1>3, <1>5, <1>6

(* Taking the head of a queue of distinct elements leaves the others. *)
LEMMA TailQueue ==
  ASSUME NEW S, NEW s \in Seq(S), s # <<>>, IsInjective(s)
  PROVE  /\ Tail(s) \in Seq(S)
         /\ Head(s) \in S
         /\ Head(s) \in Range(s)
         /\ Range(Tail(s)) = Range(s) \ {Head(s)}
         /\ IsInjective(Tail(s))
<1>1. Len(s) \in Nat /\ DOMAIN s = 1 .. Len(s) /\ 1 \in 1 .. Len(s)
      /\ Head(s) = s[1]
  BY HeadTailProperties, EmptySeq
<1>2. Tail(s) = SubSeq(s, 2, Len(s))
  BY TailIsSubSeq
<1>3. /\ Tail(s) \in Seq(S)
      /\ Range(Tail(s)) = {s[i] : i \in 2 .. Len(s)}
      /\ IsInjective(Tail(s))
  <2> DEFINE t == SubSeq(s, 2, Len(s))
  <2>1. /\ t \in Seq(S)
        /\ Range(t) = {s[i] : i \in 2 .. Len(s)}
        /\ IsInjective(s) => IsInjective(t)
    BY <1>1, PartOfQueue
  <2>2. Tail(s) = t
    BY <1>2
  <2> HIDE DEF t
  <2> QED BY <2>1, <2>2
<1>4. Range(s) = {s[i] : i \in 1 .. Len(s)}
  BY <1>1 DEF Range
<1>5. \A i \in 2 .. Len(s) : s[i] # s[1]
  BY <1>1 DEF IsInjective
<1>6. 1 .. Len(s) = {1} \cup (2 .. Len(s))
  BY <1>1
<1> QED BY <1>1, <1>3, <1>4, <1>5, <1>6

(* A queue of distinct elements of a finite set is no longer than the set  *)
(* is large.                                                               *)
LEMMA QueueLength ==
  ASSUME NEW S, IsFiniteSet(S), NEW R, NEW s \in Seq(R), IsInjective(s),
         Range(s) \subseteq S
  PROVE  Len(s) <= Cardinality(S)
<1>1. Len(s) \in Nat /\ DOMAIN s = 1 .. Len(s)
  OBVIOUS
<1>2. s \in [1 .. Len(s) -> S]
  BY <1>1 DEF Range
<1>3. s \in Injection(1 .. Len(s), S)
  BY <1>1, <1>2 DEF Injection, IsInjective
<1>4. Cardinality(1 .. Len(s)) <= Cardinality(S)
  BY <1>3, FS_Injection
<1>5. Cardinality(1 .. Len(s)) = Len(s)
  BY <1>1, FS_Interval
<1> QED BY <1>4, <1>5

-----------------------------------------------------------------------------
(* Induction over the naturals: a set with 0 that is closed under          *)
(* successor has them all.  Taking a set, not a predicate, it can be cited *)
(* with any set of one's own.                                              *)
LEMMA InductionOnSet ==
  ASSUME NEW S, 0 \in S, \A n \in Nat : n \in S => n + 1 \in S
  PROVE  Nat \subseteq S
<1> DEFINE T == Nat \ S
           R == OpToRel(<, Nat)
<1> SUFFICES ASSUME T # {} PROVE FALSE
  OBVIOUS
<1>1. PICK x \in T : \A y \in T : ~(<<y, x>> \in R)
  <2>1. IsWellFoundedOn(R, Nat)
    BY NatLessThanWellFounded
  <2>2. T \subseteq Nat
    OBVIOUS
  <2> HIDE DEF T, R
  <2> QED BY <2>1, <2>2, WFMin
<1>2. x \in Nat /\ x # 0 /\ x - 1 \in Nat /\ x - 1 < x
  OBVIOUS
<1>3. x - 1 \in T
  <2>1. x - 1 \in S => (x - 1) + 1 \in S
    BY <1>2
  <2>2. (x - 1) + 1 = x
    BY <1>2
  <2> QED BY <1>2, <2>1, <2>2
<1>4. <<x - 1, x>> \in R
  BY <1>2 DEF OpToRel
<1> QED BY <1>1, <1>3, <1>4

-----------------------------------------------------------------------------
(* Sums over finite sets.  SumOf(F, S), the sum of F[x] over all x of S,   *)
(* is what MapThenSumSet() and FoldSeq() expand to: a recursive function   *)
(* on the subsets of S that takes off one arbitrary element at a time.     *)
Pick(s) == CHOOSE x \in s : TRUE

(* The recursive definition, at s. *)
IsSum(F, s, g) == g[s] = IF s = {} THEN 0 ELSE F[Pick(s)] + g[s \ {Pick(s)}]

SumFcn(F, S) ==
  CHOOSE g : g = [s \in SUBSET S |->
                    IF s = {} THEN 0 ELSE F[Pick(s)] + g[s \ {Pick(s)}]]

SumOf(F, S) == SumFcn(F, S)[S]

(* Taking an element off a finite set. *)
LEMMA OneLess ==
  ASSUME NEW S, IsFiniteSet(S), NEW T \in SUBSET S, NEW x \in T
  PROVE  /\ T \ {x} \in SUBSET S
         /\ Cardinality(T) \in Nat /\ Cardinality(T) > 0
         /\ Cardinality(T \ {x}) = Cardinality(T) - 1
         /\ Cardinality(T \ {x}) \in Nat
<1>1. IsFiniteSet(T)
  BY FS_Subset
<1>2. IsFiniteSet(T \ {x}) /\ Cardinality(T \ {x}) = Cardinality(T) - 1
  BY <1>1, FS_RemoveElement
<1>3. Cardinality(T) \in Nat /\ Cardinality(T \ {x}) \in Nat
  BY <1>1, <1>2, FS_CardinalityType
<1> QED BY <1>2, <1>3

(* The arbitrary element is one of the set. *)
LEMMA PickIn == \A s : s # {} => Pick(s) \in s
BY DEF Pick

(* The recursive definition defines a function of naturals: by induction   *)
(* on the size, a function that satisfies it on all subsets up to that     *)
(* size exists.                                                            *)
LEMMA SumExists ==
  ASSUME NEW S, IsFiniteSet(S), NEW F, \A x \in S : F[x] \in Nat
  PROVE  /\ SumFcn(F, S) \in [SUBSET S -> Nat]
         /\ \A s \in SUBSET S : IsSum(F, s, SumFcn(F, S))
<1> DEFINE Small(k) == {s \in SUBSET S : Cardinality(s) <= k}
           K == {k \in Nat : \E g \in [SUBSET S -> Nat] : \A s \in Small(k) : IsSum(F, s, g)}
<1>1. \A s \in SUBSET S : Cardinality(s) \in Nat /\ (s # {} => Cardinality(s) > 0)
  <2> SUFFICES ASSUME NEW s \in SUBSET S
               PROVE  Cardinality(s) \in Nat /\ (s # {} => Cardinality(s) > 0)
    OBVIOUS
  <2>1. IsFiniteSet(s)
    BY FS_Subset
  <2> QED BY <2>1, FS_CardinalityType, FS_EmptySet
<1>2. 0 \in K
  <2> DEFINE g == [s \in SUBSET S |-> 0]
  <2>1. \A s \in Small(0) : s = {}
    BY <1>1
  <2>2. \A s \in Small(0) : IsSum(F, s, g)
    BY <2>1 DEF IsSum
  <2>3. g \in [SUBSET S -> Nat]
    OBVIOUS
  <2> QED BY <2>2, <2>3
<1>3. ASSUME NEW k \in Nat, k \in K
      PROVE  k + 1 \in K
  <2>1. PICK g \in [SUBSET S -> Nat] : \A s \in Small(k) : IsSum(F, s, g)
    BY <1>3
  <2> DEFINE gg == [s \in SUBSET S |->
                      IF s = {} THEN 0 ELSE F[Pick(s)] + g[s \ {Pick(s)}]]
  <2>2. \A s \in Small(k) : gg[s] = g[s]
    BY <2>1 DEF IsSum
  <2>3. gg \in [SUBSET S -> Nat]
    <3>1. \A s \in SUBSET S : s # {} => F[Pick(s)] \in Nat /\ g[s \ {Pick(s)}] \in Nat
      BY PickIn
    <3> QED BY <3>1
  <2>4. ASSUME NEW s \in Small(k + 1)
        PROVE  IsSum(F, s, gg)
    <3>1. CASE s = {}
      BY <3>1 DEF IsSum
    <3>2. CASE s # {}
      <4>1. Pick(s) \in s /\ s \in SUBSET S
        BY <3>2, PickIn
      <4>2. s \ {Pick(s)} \in SUBSET S /\ Cardinality(s \ {Pick(s)}) = Cardinality(s) - 1
        BY <4>1, OneLess
      <4>3. s \ {Pick(s)} \in Small(k)
        BY <1>1, <4>1, <4>2
      <4>4. gg[s \ {Pick(s)}] = g[s \ {Pick(s)}]
        BY <2>2, <4>3
      <4>5. gg[s] = F[Pick(s)] + g[s \ {Pick(s)}]
        BY <3>2, <4>1
      <4> HIDE DEF gg
      <4> QED BY <3>2, <4>4, <4>5 DEF IsSum
    <3> QED BY <3>1, <3>2
  <2> HIDE DEF gg
  <2> QED BY <2>3, <2>4
<1>4. Nat \subseteq K
  <2> HIDE DEF K
  <2> QED BY <1>2, <1>3, InductionOnSet
<1>5. Cardinality(S) \in Nat /\ Small(Cardinality(S)) = SUBSET S
  <2>1. Cardinality(S) \in Nat
    BY FS_CardinalityType
  <2>2. \A s \in SUBSET S : Cardinality(s) <= Cardinality(S)
    BY FS_Subset
  <2> QED BY <2>1, <2>2
<1>6. PICK g \in [SUBSET S -> Nat] : \A s \in SUBSET S : IsSum(F, s, g)
  BY <1>4, <1>5
<1> DEFINE P(q) == q = [s \in SUBSET S |->
                          IF s = {} THEN 0 ELSE F[Pick(s)] + q[s \ {Pick(s)}]]
<1>7. P(g)
  BY <1>6 DEF IsSum
<1>8. P(SumFcn(F, S))
  <2>1. SumFcn(F, S) = CHOOSE q : P(q)
    BY DEF SumFcn
  <2> HIDE DEF P
  <2> QED BY <1>7, <2>1
<1> DEFINE f == SumFcn(F, S)
<1>9. \A s \in SUBSET S : IsSum(F, s, f)
  <2> HIDE DEF f
  <2>1. P(f)
    BY <1>8 DEF f
  <2> QED BY <2>1 DEF IsSum
<1>10. f \in [SUBSET S -> Nat]
  <2> DEFINE L == {k \in Nat : \A s \in Small(k) : f[s] \in Nat}
  <2> HIDE DEF f
  <2>1. 0 \in L
    <3>1. \A s \in Small(0) : s = {} /\ s \in SUBSET S
      BY <1>1
    <3> QED BY <1>9, <3>1 DEF IsSum
  <2>2. ASSUME NEW k \in Nat, k \in L PROVE k + 1 \in L
    <3> SUFFICES ASSUME NEW s \in Small(k + 1) PROVE f[s] \in Nat
      OBVIOUS
    <3>1. CASE s = {}
      <4>1. IsSum(F, {}, f)
        BY <1>9
      <4> QED BY <3>1, <4>1 DEF IsSum
    <3>2. CASE s # {}
      <4>1. Pick(s) \in s /\ s \in SUBSET S
        BY <3>2, PickIn
      <4>2. s \ {Pick(s)} \in SUBSET S /\ Cardinality(s \ {Pick(s)}) = Cardinality(s) - 1
        BY <4>1, OneLess
      <4>3. s \ {Pick(s)} \in Small(k)
        BY <1>1, <4>1, <4>2
      <4>4. f[s \ {Pick(s)}] \in Nat /\ F[Pick(s)] \in Nat
        BY <2>2, <4>1, <4>3
      <4>5. f[s] = F[Pick(s)] + f[s \ {Pick(s)}]
        BY <1>9, <3>2, <4>1 DEF IsSum
      <4> QED BY <4>4, <4>5
    <3> QED BY <3>1, <3>2
  <2>3. Nat \subseteq L
    <3> HIDE DEF L
    <3> QED BY <2>1, <2>2, InductionOnSet
  <2>4. \A s \in SUBSET S : f[s] \in Nat
    BY <1>5, <2>3
  <2>5. f = [s \in SUBSET S |-> f[s]]
    <3>1. P(f)
      BY <1>8 DEF f
    <3> QED BY <3>1
  <2> QED BY <2>4, <2>5
<1> QED BY <1>9, <1>10

(* The sum does not depend on the order in which the elements are taken. *)
LEMMA SumAny ==
  ASSUME NEW S, IsFiniteSet(S), NEW F, \A x \in S : F[x] \in Nat,
         NEW U \in SUBSET S, NEW y \in U
  PROVE  SumFcn(F, S)[U] = F[y] + SumFcn(F, S)[U \ {y}]
<1> DEFINE g == SumFcn(F, S)
<1> g \in [SUBSET S -> Nat] /\ \A s \in SUBSET S : IsSum(F, s, g)
  BY SumExists
<1> HIDE DEF g
<1> DEFINE OK(T) == \A x \in T : g[T] = F[x] + g[T \ {x}]
           K == {k \in Nat : \A T \in SUBSET S : Cardinality(T) <= k => OK(T)}
<1>1. 0 \in K
  <2> SUFFICES ASSUME NEW T \in SUBSET S, Cardinality(T) <= 0, NEW x \in T
               PROVE  FALSE
    OBVIOUS
  <2>1. Cardinality(T) \in Nat /\ Cardinality(T) > 0
    BY OneLess
  <2> QED BY <2>1
<1>2. ASSUME NEW k \in Nat, k \in K PROVE k + 1 \in K
  <2> SUFFICES ASSUME NEW T \in SUBSET S, Cardinality(T) <= k + 1, NEW x \in T
               PROVE  g[T] = F[x] + g[T \ {x}]
    OBVIOUS
  <2> DEFINE p == Pick(T)
  <2>1. p \in T /\ g[T] = F[p] + g[T \ {p}]
    BY PickIn DEF IsSum
  <2> HIDE DEF p
  <2>2. CASE x = p
    BY <2>1, <2>2
  <2>3. CASE x # p
    <3>1. /\ T \ {p} \in SUBSET S /\ T \ {x} \in SUBSET S
          /\ Cardinality(T \ {p}) <= k /\ Cardinality(T \ {x}) <= k
      BY <2>1, OneLess
    <3>2. OK(T \ {p}) /\ OK(T \ {x})
      BY <1>2, <3>1
    <3>3. g[T \ {p}] = F[x] + g[(T \ {p}) \ {x}]
      BY <2>3, <3>2
    <3>4. g[T \ {x}] = F[p] + g[(T \ {x}) \ {p}]
      BY <2>1, <2>3, <3>2
    <3>5. (T \ {p}) \ {x} = (T \ {x}) \ {p} /\ (T \ {p}) \ {x} \in SUBSET S
      OBVIOUS
    <3>6. F[x] \in Nat /\ F[p] \in Nat /\ g[(T \ {p}) \ {x}] \in Nat
      BY <2>1, <3>5
    <3>7. PICK a, b, c \in Nat : a = F[x] /\ b = F[p] /\ c = g[(T \ {p}) \ {x}]
      BY <3>6
    <3>8. g[T] = b + (a + c) /\ g[T \ {x}] = b + c
      BY <2>1, <3>3, <3>4, <3>5, <3>7
    <3>9. b + (a + c) = a + (b + c)
      BY <3>7
    <3> QED BY <3>7, <3>8, <3>9
  <2> QED BY <2>2, <2>3
<1>3. Nat \subseteq K
  <2> HIDE DEF K
  <2> QED BY <1>1, <1>2, InductionOnSet
<1>4. Cardinality(U) \in Nat
  BY FS_Subset, FS_CardinalityType
<1>5. OK(U)
  BY <1>3, <1>4
<1> QED BY <1>5 DEF g

(* Nor does it depend on what is not in the set. *)
LEMMA SumSame ==
  ASSUME NEW S, IsFiniteSet(S), NEW F, \A x \in S : F[x] \in Nat,
         NEW T \in SUBSET S, NEW G, \A x \in T : G[x] = F[x]
  PROVE  SumOf(G, T) = SumFcn(F, S)[T]
<1> DEFINE f == SumFcn(F, S)
           g == SumFcn(G, T)
           K == {k \in Nat : \A s \in SUBSET T : Cardinality(s) <= k => g[s] = f[s]}
<1>1. IsFiniteSet(T) /\ Cardinality(T) \in Nat
  BY FS_Subset, FS_CardinalityType
<1>2. \A s \in SUBSET S : IsSum(F, s, f)
  BY SumExists
<1>3. \A s \in SUBSET T : IsSum(G, s, g)
  BY <1>1, SumExists
<1> HIDE DEF f, g
<1>4. 0 \in K
  <2> SUFFICES ASSUME NEW s \in SUBSET T, Cardinality(s) <= 0 PROVE g[s] = f[s]
    OBVIOUS
  <2>1. s = {}
    <3> SUFFICES ASSUME NEW x \in s PROVE FALSE
      OBVIOUS
    <3>1. Cardinality(s) \in Nat /\ Cardinality(s) > 0
      BY <1>1, OneLess
    <3> QED BY <3>1
  <2>2. IsSum(F, {}, f) /\ IsSum(G, {}, g)
    BY <1>2, <1>3
  <2> QED BY <2>1, <2>2 DEF IsSum
<1>5. ASSUME NEW k \in Nat, k \in K PROVE k + 1 \in K
  <2> SUFFICES ASSUME NEW s \in SUBSET T, Cardinality(s) <= k + 1 PROVE g[s] = f[s]
    OBVIOUS
  <2>1. IsSum(F, s, f) /\ IsSum(G, s, g)
    BY <1>2, <1>3
  <2>2. CASE s = {}
    BY <2>1, <2>2 DEF IsSum
  <2>3. CASE s # {}
    <3>1. Pick(s) \in s
      BY <2>3, PickIn
    <3>2. s \ {Pick(s)} \in SUBSET T /\ Cardinality(s \ {Pick(s)}) <= k
      BY <1>1, <3>1, OneLess
    <3>3. g[s \ {Pick(s)}] = f[s \ {Pick(s)}] /\ G[Pick(s)] = F[Pick(s)]
      BY <1>5, <3>1, <3>2
    <3> QED BY <2>1, <2>3, <3>3 DEF IsSum
  <2> QED BY <2>2, <2>3
<1>6. Nat \subseteq K
  <2> HIDE DEF K
  <2> QED BY <1>4, <1>5, InductionOnSet
<1>7. g[T] = f[T]
  BY <1>1, <1>6
<1> QED BY <1>7 DEF f, g, SumOf

(* The empty sum. *)
LEMMA SumEmpty == \A F : SumOf(F, {}) = 0
<1> SUFFICES ASSUME NEW F PROVE SumOf(F, {}) = 0
  OBVIOUS
<1>1. IsFiniteSet({})
  BY FS_EmptySet
<1>2. IsSum(F, {}, SumFcn(F, {}))
  BY <1>1, SumExists
<1> QED BY <1>2 DEF IsSum, SumOf

(* A sum with one more element, when F may have changed elsewhere.         *)
LEMMA SumAdd ==
  ASSUME NEW S, IsFiniteSet(S), NEW x, x \notin S,
         NEW F, \A y \in S \cup {x} : F[y] \in Nat,
         NEW G, \A y \in S : G[y] = F[y]
  PROVE  /\ SumOf(F, S \cup {x}) = F[x] + SumOf(G, S)
         /\ SumOf(G, S) \in Nat
<1> DEFINE T == S \cup {x}
           f == SumFcn(F, T)
<1>1. IsFiniteSet(T)
  BY FS_AddElement
<1>2. f \in [SUBSET T -> Nat] /\ \A s \in SUBSET T : IsSum(F, s, f)
  BY <1>1, SumExists
<1>3. SumOf(G, S) = f[S] /\ SumOf(F, T) = f[T]
  <2>1. S \in SUBSET T
    OBVIOUS
  <2>2. SumOf(G, S) = SumFcn(F, T)[S]
    <3> HIDE DEF T
    <3>1. \A y \in T : F[y] \in Nat
      BY DEF T
    <3> QED BY <1>1, <2>1, <3>1, SumSame
  <2> QED BY <2>2 DEF SumOf
<1> HIDE DEF f
<1>4. f[T] = F[x] + f[T \ {x}]
  <2>1. T \in SUBSET T /\ x \in T
    OBVIOUS
  <2> HIDE DEF T
  <2>2. \A y \in T : F[y] \in Nat
    BY DEF T
  <2> QED BY <1>1, <2>1, <2>2, SumAny DEF f
<1>5. T \ {x} = S
  OBVIOUS
<1> QED BY <1>2, <1>3, <1>4, <1>5

(* A sum of three.                                                         *)
LEMMA SumThree ==
  ASSUME NEW F, F[1] \in Nat, F[2] \in Nat, F[3] \in Nat
  PROVE  SumOf(F, 1 .. 3) = F[1] + F[2] + F[3]
<1>1. IsFiniteSet({}) /\ IsFiniteSet({1}) /\ IsFiniteSet({1, 2})
  <2>1. IsFiniteSet({}) /\ IsFiniteSet({1})
    BY FS_EmptySet, FS_Singleton
  <2>2. IsFiniteSet({1} \cup {2})
    BY <2>1, FS_AddElement
  <2>3. {1} \cup {2} = {1, 2}
    OBVIOUS
  <2> QED BY <2>1, <2>2, <2>3
<1>2. SumOf(F, {} \cup {1}) = F[1] + SumOf(F, {})
  BY <1>1, SumAdd
<1>3. SumOf(F, {1} \cup {2}) = F[2] + SumOf(F, {1})
  BY <1>1, SumAdd
<1>4. SumOf(F, {1, 2} \cup {3}) = F[3] + SumOf(F, {1, 2})
  BY <1>1, SumAdd
<1>5. {} \cup {1} = {1} /\ {1} \cup {2} = {1, 2} /\ {1, 2} \cup {3} = 1 .. 3
  OBVIOUS
<1>6. SumOf(F, {}) = 0
  BY SumEmpty
<1>7. PICK a, b, c \in Nat : a = F[1] /\ b = F[2] /\ c = F[3]
  OBVIOUS
<1>8. SumOf(F, 1 .. 3) = c + (b + (a + 0))
  BY <1>2, <1>3, <1>4, <1>5, <1>6, <1>7
<1> QED BY <1>7, <1>8

-----------------------------------------------------------------------------
(* Heads and tails.                                                        *)

(* A sequence is its head followed by its tail. *)
LEMMA HeadAndRest ==
  ASSUME NEW S, NEW s \in Seq(S), s # <<>>
  PROVE  /\ Head(s) \in S /\ Tail(s) \in Seq(S) /\ <<Head(s)>> \in Seq(S)
         /\ s = <<Head(s)>> \o Tail(s)
<1>1. Len(s) \in Nat \ {0}
  BY EmptySeq
<1>2. SubSeq(s, 1, Len(s)) = <<s[1]>> \o SubSeq(s, 1 + 1, Len(s))
  <2>1. 1 \in 1 .. Len(s) /\ Len(s) \in 1 .. Len(s)
    BY <1>1
  <2> QED BY <2>1, SubSeqRecursiveFirst
<1>3. s[1] = Head(s) /\ SubSeq(s, 1, Len(s)) = s /\ SubSeq(s, 1 + 1, Len(s)) = Tail(s)
  BY SubSeqFull, TailIsSubSeq
<1>4. Head(s) \in S /\ Tail(s) \in Seq(S)
  BY HeadTailProperties
<1> QED BY <1>2, <1>3, <1>4

(* The front of a concatenation. *)
LEMMA ConcatHeadTail ==
  ASSUME NEW S, NEW s \in Seq(S), NEW t \in Seq(S), s # <<>>
  PROVE  /\ s \o t \in Seq(S) /\ s \o t # <<>>
         /\ Head(s \o t) = Head(s)
         /\ Tail(s \o t) = Tail(s) \o t
<1>1. Tail(s) \in Seq(S) /\ Head(s) \in S /\ s = <<Head(s)>> \o Tail(s)
  BY HeadAndRest
<1>2. s \o t \in Seq(S) /\ Len(s \o t) = Len(s) + Len(t)
      /\ \A i \in 1 .. Len(s) + Len(t) :
           (s \o t)[i] = IF i <= Len(s) THEN s[i] ELSE t[i - Len(s)]
  BY ConcatProperties
<1>3. Len(s) \in Nat \ {0} /\ Len(t) \in Nat
  BY EmptySeq, LenProperties
<1> DEFINE u == s \o t
<1>4. u # <<>> /\ Head(u) = Head(s)
  <2>1. u # <<>>
    BY ConcatEqualIffEmpty
  <2>2. Head(u) = u[1] /\ Head(s) = s[1]
    BY <1>2, <2>1
  <2>3. u[1] = s[1]
    BY <1>2, <1>3
  <2> QED BY <2>1, <2>2, <2>3
<1>5. u = <<Head(s)>> \o (Tail(s) \o t)
  BY <1>1, ConcatAssociative
<1>6. Tail(s) \o t \in Seq(S)
  BY <1>1, ConcatProperties
<1>7. \A x \in S : \A y \in Seq(S) : Tail(<<x>> \o y) = y
  <2> SUFFICES ASSUME NEW x \in S, NEW y \in Seq(S) PROVE Tail(<<x>> \o y) = y
    OBVIOUS
  <2> DEFINE z == <<x>> \o y
  <2>1. z \in Seq(S) /\ Len(z) = 1 + Len(y)
        /\ \A i \in 1 .. 1 + Len(y) : z[i] = IF i <= 1 THEN x ELSE y[i - 1]
    <3>1. <<x>> \in Seq(S) /\ Len(<<x>>) = 1 /\ <<x>>[1] = x
      OBVIOUS
    <3>2. \A i \in 1 .. 1 + Len(y) : z[i] = IF i <= 1 THEN <<x>>[i] ELSE y[i - 1]
      BY <3>1, ConcatProperties
    <3>3. \A i \in 1 .. 1 + Len(y) : i <= 1 => i = 1
      BY LenProperties
    <3> QED BY <3>1, <3>2, <3>3, ConcatProperties
  <2>2. Len(y) \in Nat
    BY LenProperties
  <2> HIDE DEF z
  <2>3. z # <<>>
    BY <2>1, <2>2, EmptySeq
  <2>4. Tail(z) \in Seq(S) /\ Len(Tail(z)) = Len(z) - 1
        /\ \A i \in 1 .. Len(Tail(z)) : Tail(z)[i] = z[i + 1]
    BY <2>1, <2>3, HeadTailProperties
  <2>5. Len(Tail(z)) = Len(y) /\ \A i \in 1 .. Len(Tail(z)) : Tail(z)[i] = y[i]
    BY <2>1, <2>2, <2>4
  <2>6. Tail(z) = y
    BY <2>4, <2>5, SeqEqual
  <2> QED BY <2>6 DEF z
<1> QED BY <1>1, <1>2, <1>4, <1>5, <1>6, <1>7

-----------------------------------------------------------------------------
(* Flattening a sequence of sequences.                                     *)

IsFlat(ss, g) ==
  g = [i \in 1 .. Len(ss) |-> IF i = 1 THEN ss[i] ELSE g[i - 1] \o ss[i]]

FlatFcn(ss) == CHOOSE g : IsFlat(ss, g)

(* The recursive function of FlattenSeq exists: by induction a function    *)
(* satisfies its equation for the first k elements.                        *)
LEMMA FlatExists ==
  ASSUME NEW S, NEW ss \in Seq(Seq(S))
  PROVE  /\ FlatFcn(ss) \in [1 .. Len(ss) -> Seq(S)]
         /\ 1 <= Len(ss) => FlatFcn(ss)[1] = ss[1]
         /\ \A i \in 1 .. Len(ss) :
              i # 1 => FlatFcn(ss)[i] = FlatFcn(ss)[i - 1] \o ss[i]
<1> DEFINE n == Len(ss)
           F == [1 .. n -> Seq(S)]
           Eq(g, i) == g[i] = IF i = 1 THEN ss[i] ELSE g[i - 1] \o ss[i]
           K == {k \in Nat : \E g \in F : \A i \in 1 .. n : i <= k => Eq(g, i)}
<1>1. n \in Nat /\ \A i \in 1 .. n : ss[i] \in Seq(S)
  OBVIOUS
<1>2. 0 \in K
  <2>1. [i \in 1 .. n |-> <<>>] \in F
    OBVIOUS
  <2>2. \A i \in 1 .. n : ~(i <= 0)
    BY <1>1
  <2> QED BY <2>1, <2>2
<1>3. ASSUME NEW k \in Nat, k \in K PROVE k + 1 \in K
  <2>1. PICK g \in F : \A i \in 1 .. n : i <= k => Eq(g, i)
    BY <1>3
  <2>2. CASE k + 1 \notin 1 .. n
    <3>1. \A i \in 1 .. n : i <= k + 1 => i <= k
      BY <1>1, <2>2
    <3>2. \A i \in 1 .. n : i <= k + 1 => Eq(g, i)
      BY <2>1, <3>1, Zenon
    <3> HIDE DEF Eq, F
    <3> QED BY <3>2
  <2>3. CASE k + 1 \in 1 .. n
    <3> DEFINE v == IF k + 1 = 1 THEN ss[k + 1] ELSE g[k] \o ss[k + 1]
               f == [g EXCEPT ![k + 1] = v]
    <3>1. v \in Seq(S)
      <4>1. CASE k = 0
        BY <1>1, <2>3, <4>1
      <4>2. CASE k # 0
        <5>1. k \in 1 .. n /\ k + 1 \in 1 .. n
          BY <1>1, <2>3, <4>2
        <5>2. g[k] \in Seq(S) /\ ss[k + 1] \in Seq(S)
          BY <1>1, <5>1
        <5> QED BY <4>2, <5>2
      <4> QED BY <4>1, <4>2
    <3>2. f \in F
      BY <3>1
    <3>3. ASSUME NEW i \in 1 .. n, i <= k + 1 PROVE Eq(f, i)
      <4>1. CASE i = k + 1
        <5>1. f[i] = v
          BY <4>1
        <5>2. CASE k = 0
          BY <4>1, <5>1, <5>2
        <5>3. CASE k # 0
          <6>1. f[i - 1] = g[k]
            BY <2>3, <4>1, <5>3
          <6> QED BY <4>1, <5>1, <5>3, <6>1
        <5> QED BY <5>2, <5>3
      <4>2. CASE i # k + 1
        <5>1. f[i] = g[i] /\ i <= k
          BY <3>3, <4>2
        <5>2. i # 1 => f[i - 1] = g[i - 1]
          BY <3>3, <4>2
        <5> QED BY <2>1, <5>1, <5>2
      <4> QED BY <4>1, <4>2
    <3> HIDE DEF Eq, F, f
    <3> QED BY <3>2, <3>3
  <2> QED BY <2>2, <2>3
<1>4. n \in K
  <2> HIDE DEF K
  <2>1. Nat \subseteq K
    BY <1>2, <1>3, InductionOnSet
  <2> QED BY <1>1, <2>1
<1>5. PICK g \in F : \A i \in 1 .. n : Eq(g, i)
  BY <1>1, <1>4
<1>6. IsFlat(ss, g)
  BY <1>5 DEF IsFlat
<1>7. IsFlat(ss, FlatFcn(ss))
  <2> HIDE DEF IsFlat
  <2> QED BY <1>6 DEF FlatFcn
<1> DEFINE f == FlatFcn(ss)
<1>8. /\ f = [i \in 1 .. n |-> IF i = 1 THEN ss[i] ELSE f[i - 1] \o ss[i]]
  BY <1>7 DEF IsFlat
<1> HIDE DEF f
<1>9. \A i \in 1 .. n : Eq(f, i)
  BY <1>8
<1>10. \A i \in 1 .. n : f[i] \in Seq(S)
  <2> DEFINE J == {j \in Nat : \A i \in 1 .. n : i <= j => f[i] \in Seq(S)}
  <2>1. 0 \in J
    BY <1>1
  <2>2. ASSUME NEW j \in Nat, j \in J PROVE j + 1 \in J
    <3> SUFFICES ASSUME NEW i \in 1 .. n, i <= j + 1 PROVE f[i] \in Seq(S)
      OBVIOUS
    <3>1. CASE i = 1
      BY <1>1, <1>9, <3>1
    <3>2. CASE i # 1
      <4>1. i - 1 \in 1 .. n /\ i - 1 <= j
        BY <3>2
      <4>2. f[i - 1] \in Seq(S)
        BY <2>2, <4>1
      <4>3. f[i] = f[i - 1] \o ss[i] /\ ss[i] \in Seq(S)
        BY <1>1, <1>9, <3>2
      <4> QED BY <4>2, <4>3
    <3> QED BY <3>1, <3>2
  <2>3. Nat \subseteq J
    <3> HIDE DEF J
    <3> QED BY <2>1, <2>2, InductionOnSet
  <2>4. \A i \in 1 .. n : i \in Nat /\ i <= i
    BY <1>1
  <2> HIDE DEF n
  <2> QED BY <2>3, <2>4
<1>11. f \in F
  <2>1. DOMAIN f = 1 .. n /\ f = [i \in 1 .. n |-> f[i]]
    BY <1>8, Zenon
  <2> QED BY <1>10, <2>1
<1>12. /\ 1 <= n => f[1] = ss[1]
       /\ \A i \in 1 .. n : i # 1 => f[i] = f[i - 1] \o ss[i]
  <2>1. 1 <= n => 1 \in 1 .. n
    BY <1>1
  <2>2. \A i \in 1 .. n : f[i] = IF i = 1 THEN ss[i] ELSE f[i - 1] \o ss[i]
    BY <1>9
  <2> QED BY <2>1, <2>2, Zenon
<1> QED BY <1>11, <1>12 DEF f

LEMMA FlattenIs ==
  ASSUME NEW S, NEW ss \in Seq(Seq(S)), Len(ss) # 0
  PROVE  FlattenSeq(ss) = FlatFcn(ss)[Len(ss)]
BY DEF FlattenSeq, FlatFcn, IsFlat

LEMMA FlattenType ==
  ASSUME NEW S, NEW ss \in Seq(Seq(S))
  PROVE  FlattenSeq(ss) \in Seq(S)
<1>1. CASE Len(ss) = 0
  <2>1. FlattenSeq(ss) = ss
    BY <1>1 DEF FlattenSeq
  <2>2. ss = <<>>
    BY <1>1
  <2> QED BY <2>1, <2>2
<1>2. CASE Len(ss) # 0
  <2>1. Len(ss) \in 1 .. Len(ss)
    BY <1>2
  <2>2. FlatFcn(ss) \in [1 .. Len(ss) -> Seq(S)]
    BY FlatExists
  <2>3. FlatFcn(ss)[Len(ss)] \in Seq(S)
    BY <2>1, <2>2, Zenon
  <2> QED BY <1>2, <2>3, FlattenIs
<1> QED BY <1>1, <1>2

LEMMA FlattenEmpty == FlattenSeq(<<>>) = <<>>
BY DEF FlattenSeq

(* One more element at the end. *)
LEMMA FlattenAppend ==
  ASSUME NEW S, NEW ss \in Seq(Seq(S)), NEW s \in Seq(S)
  PROVE  FlattenSeq(Append(ss, s)) = FlattenSeq(ss) \o s
<1> DEFINE n == Len(ss)
           tt == Append(ss, s)
           f == FlatFcn(ss)
           g == FlatFcn(tt)
<1>1. /\ n \in Nat /\ tt \in Seq(Seq(S)) /\ Len(tt) = n + 1 /\ tt[n + 1] = s
      /\ \A i \in 1 .. n : tt[i] = ss[i]
  BY AppendProperties
<1>2. /\ g[1] = tt[1]
      /\ \A i \in 1 .. n + 1 : i # 1 => g[i] = g[i - 1] \o tt[i]
  <2> HIDE DEF tt
  <2>1. 1 <= n + 1
    BY <1>1
  <2> QED BY <1>1, <2>1, FlatExists
<1>3. FlattenSeq(tt) = g[n + 1]
  <2> HIDE DEF tt
  <2>1. n + 1 # 0
    BY <1>1
  <2> QED BY <1>1, <2>1, FlattenIs
<1>4. CASE n = 0
  <2>1. ss = <<>> /\ FlattenSeq(ss) = <<>>
    BY <1>4, FlattenEmpty
  <2>2. FlattenSeq(tt) = s
    BY <1>1, <1>2, <1>3, <1>4
  <2> QED BY <2>1, <2>2, ConcatEmptySeq
<1>5. CASE n # 0
  <2>1. /\ f[1] = ss[1]
        /\ \A i \in 1 .. n : i # 1 => f[i] = f[i - 1] \o ss[i]
    <3>1. 1 <= n
      BY <1>1, <1>5
    <3> QED BY <3>1, FlatExists
  <2> DEFINE Same(i) == g[i] = f[i]
             J == {j \in Nat : \A i \in 1 .. n : i <= j => Same(i)}
  <2> HIDE DEF n, f, g, tt, Same
  <2>2. 0 \in J
    BY <1>1
  <2>3. ASSUME NEW j \in Nat, j \in J PROVE j + 1 \in J
    <3> SUFFICES ASSUME NEW i \in 1 .. n, i <= j + 1 PROVE Same(i)
      OBVIOUS
    <3>1. CASE i = 1
      BY <1>1, <1>2, <2>1, <3>1 DEF Same
    <3>2. CASE i # 1
      <4>1. i - 1 \in 1 .. n /\ i - 1 <= j /\ i \in 1 .. n + 1
        BY <1>1, <3>2
      <4>2. Same(i - 1)
        BY <2>3, <4>1
      <4>3. g[i] = g[i - 1] \o tt[i] /\ f[i] = f[i - 1] \o ss[i] /\ tt[i] = ss[i]
        BY <1>1, <1>2, <2>1, <3>2, <4>1
      <4> QED BY <4>2, <4>3 DEF Same
    <3> QED BY <3>1, <3>2
  <2>4. Nat \subseteq J
    <3> HIDE DEF J
    <3> QED BY <2>2, <2>3, InductionOnSet
  <2>5. g[n] = f[n]
    <3>1. n \in Nat /\ n # 0
      BY <1>1, <1>5
    <3>2. n \in 1 .. n /\ n <= n
      BY <3>1
    <3> QED BY <2>4, <3>1, <3>2, Zenon DEF Same
  <2>6. g[n + 1] = g[n] \o s
    <3>1. n + 1 \in 1 .. n + 1 /\ n + 1 # 1 /\ (n + 1) - 1 = n
      BY <1>1, <1>5
    <3> QED BY <1>1, <1>2, <3>1
  <2>7. FlattenSeq(ss) = f[n]
    BY <1>5, FlattenIs DEF f, n
  <2> QED BY <1>3, <2>5, <2>6, <2>7 DEF g, tt
<1> QED BY <1>4, <1>5

(* The first elements of a sequence. *)
LEMMA Prefix ==
  ASSUME NEW S, NEW s \in Seq(S), NEW k \in Nat, k <= Len(s)
  PROVE  /\ SubSeq(s, 1, k) \in Seq(S) /\ Len(SubSeq(s, 1, k)) = k
         /\ \A i \in 1 .. k : SubSeq(s, 1, k)[i] = s[i]
<1>1. \A i \in 1 .. k : s[i] \in S
  OBVIOUS
<1>2. SubSeq(s, 1, k) \in Seq(S) /\ Len(SubSeq(s, 1, k)) = k
  <2>1. Len(SubSeq(s, 1, k)) = IF 1 <= k THEN k - 1 + 1 ELSE 0
    BY <1>1, SubSeqProperties
  <2>2. SubSeq(s, 1, k) \in Seq(S)
    BY <1>1, SubSeqProperties
  <2> QED BY <2>1, <2>2
<1>3. \A i \in 1 .. k : SubSeq(s, 1, k)[i] = s[i]
  BY <1>1, SubSeqProperties
<1> QED BY <1>2, <1>3

(* A sequence is its first elements and one more. *)
LEMMA PrefixStep ==
  ASSUME NEW S, NEW s \in Seq(S), NEW k \in Nat, k + 1 <= Len(s)
  PROVE  /\ SubSeq(s, 1, k) \in Seq(S) /\ s[k + 1] \in S
         /\ SubSeq(s, 1, k + 1) = Append(SubSeq(s, 1, k), s[k + 1])
<1>1. \A i \in 1 .. k + 1 : s[i] \in S
  OBVIOUS
<1>2. SubSeq(s, 1, k) \in Seq(S) /\ SubSeq(s, 1, k + 1) \in Seq(S)
  BY <1>1, SubSeqProperties
<1>3. SubSeq(s, 1, k + 1) = Append(SubSeq(s, 1, k), s[k + 1])
  <2> DEFINE u == SubSeq(s, 1, k)
             v == SubSeq(s, 1, k + 1)
  <2>1. /\ Len(u) = k /\ Len(v) = k + 1
        /\ \A i \in 1 .. k : u[i] = s[i]
        /\ \A i \in 1 .. k + 1 : v[i] = s[i]
    BY <1>1, SubSeqProperties
  <2>2. /\ Append(u, s[k + 1]) \in Seq(S) /\ Len(Append(u, s[k + 1])) = k + 1
        /\ \A i \in 1 .. k + 1 : Append(u, s[k + 1])[i] = s[i]
    <3> HIDE DEF u, v
    <3>1. s[k + 1] \in S /\ u \in Seq(S)
      BY <1>1, <1>2 DEF u
    <3> QED BY <2>1, <3>1
  <2> HIDE DEF u, v
  <2>3. v \in Seq(S)
    BY <1>2 DEF v
  <2>4. v = Append(u, s[k + 1])
    BY <2>1, <2>2, <2>3, SeqEqual
  <2> QED BY <2>4 DEF u, v
<1> QED BY <1>1, <1>2, <1>3

(* Flattening commutes with concatenation: by induction over the second    *)
(* sequence.                                                               *)
LEMMA FlattenConcat ==
  ASSUME NEW S, NEW ss \in Seq(Seq(S)), NEW tt \in Seq(Seq(S))
  PROVE  FlattenSeq(ss \o tt) = FlattenSeq(ss) \o FlattenSeq(tt)
<1> DEFINE F(k) == SubSeq(tt, 1, k)
           Holds(k) == FlattenSeq(ss \o F(k)) = FlattenSeq(ss) \o FlattenSeq(F(k))
           K == {k \in Nat : k <= Len(tt) => Holds(k)}
<1>0. Len(tt) \in Nat /\ FlattenSeq(ss) \in Seq(S)
  BY FlattenType
<1>1. Holds(0)
  <2>1. F(0) = <<>>
    BY SubSeqEmpty
  <2>2. ss \o <<>> = ss /\ FlattenSeq(ss) \o <<>> = FlattenSeq(ss)
    BY <1>0, ConcatEmptySeq
  <2> QED BY <2>1, <2>2, FlattenEmpty
<1>2. ASSUME NEW k \in Nat, k + 1 <= Len(tt), Holds(k) PROVE Holds(k + 1)
  <2>1. PICK u \in Seq(Seq(S)) : u = F(k)
    BY <1>2, PrefixStep
  <2>2. PICK x \in Seq(S) : x = tt[k + 1]
    BY <1>2, PrefixStep
  <2>3. F(k + 1) = Append(u, x)
    BY <1>2, <2>1, <2>2, PrefixStep
  <2>4. ss \o Append(u, x) = Append(ss \o u, x) /\ ss \o u \in Seq(Seq(S))
    OBVIOUS
  <2>5. FlattenSeq(Append(ss \o u, x)) = FlattenSeq(ss \o u) \o x
    BY <2>4, FlattenAppend
  <2>6. FlattenSeq(Append(u, x)) = FlattenSeq(u) \o x
    BY FlattenAppend
  <2>7. FlattenSeq(ss \o u) = FlattenSeq(ss) \o FlattenSeq(u)
    BY <1>2, <2>1
  <2>8. (FlattenSeq(ss) \o FlattenSeq(u)) \o x = FlattenSeq(ss) \o (FlattenSeq(u) \o x)
    <3>1. FlattenSeq(u) \in Seq(S)
      BY FlattenType
    <3> QED BY <1>0, <3>1, ConcatAssociative
  <2> HIDE DEF F
  <2> QED BY <2>3, <2>4, <2>5, <2>6, <2>7, <2>8
<1>3. Nat \subseteq K
  <2> HIDE DEF Holds
  <2>1. 0 \in K
    BY <1>1
  <2>2. \A k \in Nat : k \in K => k + 1 \in K
    BY <1>0, <1>2
  <2> HIDE DEF K
  <2> QED BY <2>1, <2>2, InductionOnSet
<1>4. Holds(Len(tt))
  <2> HIDE DEF Holds
  <2> QED BY <1>0, <1>3
<1>5. F(Len(tt)) = tt
  BY SubSeqFull
<1> QED BY <1>4, <1>5

(* Where the k-th element begins in the flattened sequence, and what is    *)
(* there.                                                                  *)
LEMMA FlattenSplit ==
  ASSUME NEW S, NEW ss \in Seq(Seq(S)), NEW k \in 1 .. Len(ss)
  PROVE  LET a == FlattenSeq(SubSeq(ss, 1, k - 1))
             b == FlattenSeq(SubSeq(ss, 1, k))
             f == FlattenSeq(ss)
         IN  /\ a \in Seq(S) /\ b \in Seq(S) /\ f \in Seq(S)
             /\ Len(b) = Len(a) + Len(ss[k]) /\ Len(b) <= Len(f)
             /\ \A j \in 1 .. Len(ss[k]) : f[Len(a) + j] = ss[k][j]
<1> DEFINE n == Len(ss)
           u == SubSeq(ss, 1, k - 1)
           v == SubSeq(ss, k + 1, n)
<1>1. k - 1 \in Nat /\ (k - 1) + 1 = k /\ k <= n /\ n \in Nat
  OBVIOUS
<1>2. /\ u \in Seq(Seq(S)) /\ ss[k] \in Seq(S)
      /\ SubSeq(ss, 1, k) = Append(u, ss[k])
  BY <1>1, PrefixStep
<1>3. v \in Seq(Seq(S))
  <2>1. \A i \in k + 1 .. n : ss[i] \in Seq(S)
    OBVIOUS
  <2> QED BY <1>1, <2>1, SubSeqProperties
<1>4. ss = SubSeq(ss, 1, k) \o v
  <2>1. SubSeq(ss, 1, n) = ss
    BY SubSeqFull
  <2>2. SubSeq(ss, 1, k) \o SubSeq(ss, k + 1, n) = SubSeq(ss, 1, n)
    BY <1>1, ConcatAdjacentSubSeq
  <2> QED BY <2>1, <2>2
<1>5. PICK x \in Seq(S) : x = ss[k]
  BY <1>2
<1>6. PICK a \in Seq(S) : a = FlattenSeq(u)
  BY <1>2, FlattenType
<1>7. PICK c \in Seq(S) : c = FlattenSeq(v)
  BY <1>3, FlattenType
<1>8. FlattenSeq(SubSeq(ss, 1, k)) = a \o x
  BY <1>2, <1>5, <1>6, FlattenAppend
<1>9. FlattenSeq(ss) = (a \o x) \o c
  <2>1. SubSeq(ss, 1, k) \in Seq(Seq(S))
    BY <1>2
  <2>2. FlattenSeq(SubSeq(ss, 1, k) \o v) = FlattenSeq(SubSeq(ss, 1, k)) \o FlattenSeq(v)
    BY <1>3, <2>1, FlattenConcat
  <2> QED BY <1>4, <1>7, <1>8, <2>2
<1>10. /\ a \o x \in Seq(S) /\ (a \o x) \o c \in Seq(S)
       /\ Len(a \o x) = Len(a) + Len(x) /\ Len(a \o x) <= Len((a \o x) \o c)
       /\ \A j \in 1 .. Len(x) : ((a \o x) \o c)[Len(a) + j] = x[j]
  OBVIOUS
<1> QED BY <1>5, <1>6, <1>8, <1>9, <1>10

=============================================================================
