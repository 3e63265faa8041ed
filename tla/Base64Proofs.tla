----------------------------- MODULE Base64Proofs -----------------------------
(***************************************************************************)
(* The decoder of base64 parts, for every text and every way to cut it:    *)
(* what it hands on is what decoding in one piece gives.                   *)
(***************************************************************************)
EXTENDS Base64Decoder, Integers, SequenceTheorems, FiniteSetTheorems, WellFoundedInduction, TLAPS

-----------------------------------------------------------------------------
(* Numbers.                                                                *)

(* A set of numbers that is not empty has a least one.                     *)
LEMMA LeastNumber ==
  ASSUME NEW T \in SUBSET Nat, T # {}
  PROVE  \E m \in T : \A k \in T : m <= k
<1> DEFINE Intervals == {1..k : k \in T}
<1>1. \A k \in T : k \in Nat /\ IsFiniteSet(1..k) /\ 1..k \subseteq Nat
  BY FS_Interval
<1>2. Intervals \subseteq FiniteSubsetsOf(Nat) /\ Intervals # {}
  BY <1>1 DEF FiniteSubsetsOf
<1>3. PICK x \in Intervals : \A y \in Intervals : <<y, x>> \notin StrictSubsetOrdering(Nat)
  BY <1>2, FS_StrictSubsetOrderingWellFounded, WFMin, Zenon
<1>4. PICK m \in T : x = 1..m
  OBVIOUS
<1>5. ASSUME NEW k \in T, k < m PROVE FALSE
  <2>1. k \in Nat /\ m \in Nat /\ 1..k \subseteq 1..m /\ m \in 1..m /\ m \notin 1..k
    BY <1>5
  <2>2. <<1..k, x>> \in StrictSubsetOrdering(Nat)
    BY <1>1, <1>4, <2>1 DEF StrictSubsetOrdering
  <2> QED
    BY <1>3, <2>2
<1> QED
  BY <1>5

(* Induction, said of a set.                                               *)
LEMMA EveryNumber ==
  ASSUME NEW T \in SUBSET Nat, 0 \in T, \A n \in T : n + 1 \in T
  PROVE  T = Nat
<1> SUFFICES ASSUME Nat \ T # {} PROVE FALSE
  OBVIOUS
<1>1. PICK m \in Nat \ T : \A k \in Nat \ T : m <= k
  BY LeastNumber
<1>2. m - 1 \in Nat /\ (m - 1) + 1 = m /\ ~(m <= m - 1)
  OBVIOUS
<1> QED
  BY <1>1, <1>2

LEMMA SizeOfInterval ==
  ASSUME NEW n \in Nat
  PROVE  Cardinality(1..n) = n
BY FS_Interval

(* Groups of four.                                                         *)
LEMMA WholeGroups ==
  ASSUME NEW h \in Nat, NEW n \in Nat, h % 4 = 0
  PROVE  /\ (h + n) % 4 = n % 4
         /\ (h + n) \div 4 = h \div 4 + n \div 4
         /\ (3 * (h + n)) \div 4 = 3 * (h \div 4) + (3 * n) \div 4
OBVIOUS

LEMMA LessThanGroup ==
  ASSUME NEW h \in Nat, NEW n \in 0..3, h % 4 = 0
  PROVE  ((h + n) \div 4) * 4 = h /\ (n % 4 = 0 => n = 0)
OBVIOUS

LEMMA NextGroup ==
  ASSUME NEW m \in Nat, NEW n \in Nat, m % 4 = 0, n % 4 = 0, m < n
  PROVE  m + 4 <= n
OBVIOUS

-----------------------------------------------------------------------------
(* White space.                                                            *)
Coded == Character \ {SPACE}

(* What is kept of s, character by character.                              *)
Follows(f, s) ==
  /\ DOMAIN f = 0..Len(s)
  /\ f[0] = <<>>
  /\ \A n \in 1..Len(s) : f[n] = IF s[n] = SPACE THEN f[n - 1] ELSE Append(f[n - 1], s[n])

Strips(f, s) == f \in [0..Len(s) -> Seq(Coded)] /\ Follows(f, s)

LEMMA StripsExist ==
  ASSUME NEW s \in Seq(Character)
  PROVE  \E f : Strips(f, s)
<1> DEFINE Upto(f, m) ==
             /\ f \in [0..m -> Seq(Coded)]
             /\ f[0] = <<>>
             /\ \A n \in 1..m :
                  f[n] = IF s[n] = SPACE THEN f[n - 1] ELSE Append(f[n - 1], s[n])
           T == {m \in Nat : m <= Len(s) => \E f : Upto(f, m)}
<1>1. Len(s) \in Nat /\ \A n \in 1..Len(s) : s[n] \in Character
  BY LenProperties
<1>2. 0 \in T
  <2>1. Upto([n \in 0..0 |-> <<>>], 0)
    OBVIOUS
  <2> QED
    BY <2>1
<1>3. ASSUME NEW m \in T PROVE m + 1 \in T
  <2>1. m \in Nat /\ m + 1 \in Nat
    OBVIOUS
  <2> HIDE DEF Upto
  <2> SUFFICES ASSUME m + 1 <= Len(s) PROVE \E f : Upto(f, m + 1)
    BY <2>1
  <2>0. \E f : Upto(f, m)
    BY <1>1, <2>1
  <2> USE DEF Upto
  <2>2. PICK f : Upto(f, m)
    BY <2>0
  <2> DEFINE next == IF s[m + 1] = SPACE THEN f[m] ELSE Append(f[m], s[m + 1])
             g == [n \in 0..(m + 1) |-> IF n = m + 1 THEN next ELSE f[n]]
  <2>3. next \in Seq(Coded)
    <3>1. f[m] \in Seq(Coded) /\ s[m + 1] \in Character
      BY <1>1, <2>1, <2>2
    <3>2. s[m + 1] # SPACE => s[m + 1] \in Coded
      BY <3>1 DEF Coded
    <3> QED
      BY <3>1, <3>2, AppendProperties
  <2> HIDE DEF next
  <2>4. g \in [0..(m + 1) -> Seq(Coded)] /\ g[0] = <<>> /\ g[m + 1] = next
    <3>1. 0 \in 0..(m + 1) /\ 0 # m + 1 /\ m + 1 \in 0..(m + 1)
      BY <2>1
    <3>2. \A n \in 0..(m + 1) : n # m + 1 => n \in 0..m
      BY <2>1
    <3>3. \A n \in 0..(m + 1) : n # m + 1 => f[n] \in Seq(Coded)
      BY <2>2, <3>2
    <3> QED
      BY <2>2, <2>3, <3>1, <3>3
  <2>5. ASSUME NEW n \in 1..(m + 1)
        PROVE  g[n] = IF s[n] = SPACE THEN g[n - 1] ELSE Append(g[n - 1], s[n])
    <3>1. CASE n = m + 1
      <4>1. g[n] = next /\ n - 1 = m /\ m \in 0..(m + 1) /\ m # m + 1
        BY <2>1, <2>4, <3>1
      <4>2. g[m] = f[m]
        BY <4>1
      <4> QED
        BY <3>1, <4>1, <4>2 DEF next
    <3>2. CASE n # m + 1
      <4>1. n \in 1..m /\ n \in 0..(m + 1) /\ n - 1 \in 0..(m + 1) /\ n - 1 # m + 1
        BY <2>1, <3>2
      <4>2. g[n] = f[n] /\ g[n - 1] = f[n - 1]
        BY <3>2, <4>1
      <4> QED
        BY <2>2, <4>1, <4>2
    <3> QED
      BY <3>1, <3>2
  <2> HIDE DEF g
  <2> QED
    BY <2>4, <2>5
<1>4. T = Nat
  <2>1. T \in SUBSET Nat
    OBVIOUS
  <2> HIDE DEF T
  <2> QED
    BY <1>2, <1>3, <2>1, EveryNumber
<1> HIDE DEF Upto
<1>5. \E f : Upto(f, Len(s))
  BY <1>1, <1>4
<1> USE DEF Upto
<1> QED
  BY <1>5 DEF Strips, Follows

(* Two such functions agree as far as the texts do.                        *)
LEMMA StripsAgree ==
  ASSUME NEW s \in Seq(Character), NEW t \in Seq(Character), NEW f, NEW g,
         NEW m \in 0..Len(s), m <= Len(t), \A n \in 1..m : s[n] = t[n],
         Follows(f, s), Follows(g, t)
  PROVE  \A n \in 0..m : f[n] = g[n]
<1> DEFINE T == {n \in Nat : n <= m => f[n] = g[n]}
<1>1. Len(s) \in Nat /\ Len(t) \in Nat /\ m \in Nat
  BY LenProperties
<1>2. T \in SUBSET Nat /\ 0 \in T
  BY DEF Follows
<1>3. ASSUME NEW n \in T PROVE n + 1 \in T
  <2>1. n \in Nat /\ n + 1 \in Nat /\ (n + 1) - 1 = n
    OBVIOUS
  <2> SUFFICES ASSUME n + 1 <= m PROVE f[n + 1] = g[n + 1]
    BY <2>1
  <2>2. /\ n + 1 \in 1..Len(s) /\ n + 1 \in 1..Len(t) /\ n + 1 \in 1..m
        /\ f[n] = g[n]
    BY <1>1, <2>1
  <2>3. s[n + 1] = t[n + 1]
    BY <2>2
  <2>4. f[n + 1] = IF s[n + 1] = SPACE THEN f[(n + 1) - 1] ELSE Append(f[(n + 1) - 1], s[n + 1])
    BY <2>2 DEF Follows
  <2>5. g[n + 1] = IF t[n + 1] = SPACE THEN g[(n + 1) - 1] ELSE Append(g[(n + 1) - 1], t[n + 1])
    BY <2>2 DEF Follows
  <2> QED
    BY <2>1, <2>2, <2>3, <2>4, <2>5
<1> HIDE DEF T
<1>4. T = Nat
  BY <1>2, <1>3, EveryNumber
<1> USE DEF T
<1> QED
  BY <1>1, <1>4

LEMMA StrippedIsLast ==
  ASSUME NEW s \in Seq(Character)
  PROVE  \E f : Strips(f, s) /\ Stripped(s) = f[Len(s)]
<1> DEFINE Recursion(f) ==
             f = [n \in 0..Len(s) |-> IF n = 0 THEN <<>>
                                      ELSE IF s[n] = SPACE THEN f[n - 1]
                                      ELSE Append(f[n - 1], s[n])]
           kept == CHOOSE f : Recursion(f)
<1>0. Len(s) \in Nat
  BY LenProperties
<1>1. PICK f : Strips(f, s)
  BY StripsExist
<1>2. Recursion(f)
  <2>1. DOMAIN f = 0..Len(s) /\ f = [n \in 0..Len(s) |-> f[n]]
    BY <1>1 DEF Strips, Follows
  <2>2. \A n \in 0..Len(s) :
          f[n] = IF n = 0 THEN <<>>
                 ELSE IF s[n] = SPACE THEN f[n - 1] ELSE Append(f[n - 1], s[n])
    <3>1. \A n \in 0..Len(s) : n = 0 \/ (n # 0 /\ n \in 1..Len(s))
      BY <1>0, SMTT(30)
    <3> QED
      BY <1>1, <3>1, Zenon DEF Strips, Follows
  <2> QED
    BY <2>1, <2>2
<1>3. Recursion(kept)
  BY <1>2
<1>4. Stripped(s) = kept[Len(s)]
  BY DEF Stripped
<1> HIDE DEF kept
<1>5. /\ DOMAIN kept = 0..Len(s)
      /\ kept = [n \in 0..Len(s) |-> kept[n]]
      /\ \A n \in 0..Len(s) :
           kept[n] = IF n = 0 THEN <<>>
                     ELSE IF s[n] = SPACE THEN kept[n - 1] ELSE Append(kept[n - 1], s[n])
  BY <1>3
<1> HIDE DEF Recursion
<1>6. Follows(kept, s)
  BY <1>0, <1>5 DEF Follows
<1>7. \A n \in 0..Len(s) : f[n] = kept[n]
  <2>1. Len(s) \in 0..Len(s) /\ Len(s) <= Len(s) /\ Follows(f, s)
    BY <1>0, <1>1 DEF Strips
  <2> QED
    BY <1>6, <2>1, StripsAgree
<1>8. Len(s) \in 0..Len(s)
  BY <1>0
<1> QED
  BY <1>1, <1>4, <1>7, <1>8

LEMMA StrippedType ==
  ASSUME NEW s \in Seq(Character)
  PROVE  Stripped(s) \in Seq(Coded)
<1>1. PICK f : Strips(f, s) /\ Stripped(s) = f[Len(s)]
  BY StrippedIsLast
<1>2. Len(s) \in 0..Len(s)
  BY LenProperties
<1> QED
  BY <1>1, <1>2 DEF Strips

LEMMA StrippedEmpty == Stripped(<<>>) = <<>>
<1>1. <<>> \in Seq(Character) /\ Len(<<>>) = 0
  OBVIOUS
<1>2. PICK f : Strips(f, <<>>) /\ Stripped(<<>>) = f[Len(<<>>)]
  BY <1>1, StrippedIsLast
<1> QED
  BY <1>1, <1>2 DEF Strips, Follows

LEMMA StrippedAppend ==
  ASSUME NEW s \in Seq(Character), NEW c \in Character
  PROVE  Stripped(Append(s, c)) = IF c = SPACE THEN Stripped(s) ELSE Append(Stripped(s), c)
<1> DEFINE t == Append(s, c)
<1>1. /\ t \in Seq(Character) /\ Len(t) = Len(s) + 1 /\ t[Len(s) + 1] = c
      /\ \A n \in 1..Len(s) : t[n] = s[n]
      /\ Len(s) \in Nat
  BY AppendProperties, LenProperties
<1> HIDE DEF t
<1>2. PICK f : Strips(f, s) /\ Stripped(s) = f[Len(s)]
  BY StrippedIsLast
<1>3. PICK g : Strips(g, t) /\ Stripped(t) = g[Len(t)]
  BY <1>1, StrippedIsLast
<1>4. f[Len(s)] = g[Len(s)]
  <2>1. /\ Len(s) \in 0..Len(s) /\ Len(s) <= Len(t) /\ \A n \in 1..Len(s) : s[n] = t[n]
        /\ Follows(f, s) /\ Follows(g, t)
    BY <1>1, <1>2, <1>3 DEF Strips
  <2> QED
    BY <1>1, <2>1, StripsAgree
<1>5. g[Len(t)] = IF t[Len(t)] = SPACE THEN g[Len(t) - 1] ELSE Append(g[Len(t) - 1], t[Len(t)])
  <2>1. Len(t) \in 1..Len(t)
    BY <1>1
  <2> QED
    BY <1>3, <2>1 DEF Strips, Follows
<1>6. Len(t) - 1 = Len(s)
  BY <1>1
<1>7. g[Len(t)] = IF c = SPACE THEN g[Len(s)] ELSE Append(g[Len(s)], c)
  BY <1>1, <1>5, <1>6
<1> QED
  BY <1>2, <1>3, <1>4, <1>7 DEF t

(* White space is removed from a text piece by piece.                      *)
LEMMA StrippedConcat ==
  ASSUME NEW s \in Seq(Character), NEW t \in Seq(Character)
  PROVE  Stripped(s \o t) = Stripped(s) \o Stripped(t)
<1> DEFINE Splits(u) == Stripped(s \o u) = Stripped(s) \o Stripped(u)
           T == {n \in Nat : \A u \in Seq(Character) : Len(u) = n => Splits(u)}
<1>1. 0 \in T
  <2>1. ASSUME NEW u \in Seq(Character), Len(u) = 0 PROVE Splits(u)
    <3>1. u = <<>>
      BY <2>1, EmptySeq
    <3>2. s \o <<>> = s /\ Stripped(s) \o <<>> = Stripped(s)
      BY StrippedType, ConcatEmptySeq
    <3> QED
      BY <3>1, <3>2, StrippedEmpty
  <2> QED
    BY <2>1
<1>2. ASSUME NEW n \in T PROVE n + 1 \in T
  <2>1. n \in Nat /\ n + 1 \in Nat
    OBVIOUS
  <2>2. ASSUME NEW u \in Seq(Character), Len(u) = n + 1 PROVE Splits(u)
    <3> DEFINE v == SubSeq(u, 1, n)
               c == u[n + 1]
    <3>1. v \in Seq(Character) /\ Len(v) = n /\ \A i \in 1..n : v[i] = u[i]
      <4>1. \A i \in 1..n : u[i] \in Character
        BY <2>1, <2>2, LenProperties
      <4> QED
        BY <2>1, <4>1, SubSeqProperties
    <3>2. c \in Character
      BY <2>1, <2>2, LenProperties
    <3> HIDE DEF v, c
    <3>3. u = Append(v, c)
      <4>1. /\ Append(v, c) \in Seq(Character) /\ Len(Append(v, c)) = n + 1
            /\ \A i \in 1..n : Append(v, c)[i] = v[i]
            /\ Append(v, c)[n + 1] = c
        BY <3>1, <3>2, AppendProperties
      <4>2. \A i \in 1..(n + 1) : i \in 1..n \/ i = n + 1
        BY <2>1
      <4>3. \A i \in 1..(n + 1) : Append(v, c)[i] = u[i]
        BY <3>1, <4>1, <4>2 DEF c
      <4> QED
        BY <2>2, <4>1, <4>3, SeqEqual
    <3>4. s \o Append(v, c) = Append(s \o v, c) /\ s \o v \in Seq(Character)
      BY <3>1, <3>2, ConcatProperties
    <3>5. Stripped(s \o v) = Stripped(s) \o Stripped(v)
      BY <2>1, <3>1
    <3>6. Stripped(u) = IF c = SPACE THEN Stripped(v) ELSE Append(Stripped(v), c)
      BY <3>1, <3>2, <3>3, StrippedAppend
    <3>7. Stripped(s \o u)
            = IF c = SPACE THEN Stripped(s) \o Stripped(v)
                           ELSE Append(Stripped(s) \o Stripped(v), c)
      BY <3>2, <3>3, <3>4, <3>5, StrippedAppend
    <3>8. c # SPACE =>
            Append(Stripped(s) \o Stripped(v), c) = Stripped(s) \o Append(Stripped(v), c)
      <4> DEFINE a == Stripped(s)
                 b == Stripped(v)
      <4>1. a \in Seq(Coded) /\ b \in Seq(Coded)
        BY <3>1, StrippedType
      <4>2. c # SPACE => c \in Coded
        BY <3>2 DEF Coded
      <4> HIDE DEF a, b
      <4>3. c # SPACE => Append(a \o b, c) = a \o Append(b, c)
        <5> SUFFICES ASSUME c \in Coded PROVE Append(a \o b, c) = a \o Append(b, c)
          BY <4>2
        <5>1. a \o b \in Seq(Coded) /\ <<c>> \in Seq(Coded)
          BY <4>1, ConcatProperties
        <5>2. Append(a \o b, c) = (a \o b) \o <<c>> /\ Append(b, c) = b \o <<c>>
          BY <4>1, <5>1, AppendIsConcat
        <5> QED
          BY <4>1, <5>1, <5>2, ConcatAssociative, SMTT(30)
      <4> QED
        BY <4>3 DEF a, b
    <3> QED
      BY <3>6, <3>7, <3>8
  <2> QED
    BY <2>1, <2>2
<1>3. T = Nat
  <2>1. T \in SUBSET Nat
    OBVIOUS
  <2> HIDE DEF T
  <2> QED
    BY <1>1, <1>2, <2>1, EveryNumber
<1> HIDE DEF Splits
<1>4. Len(t) \in Nat
  BY LenProperties
<1>5. Splits(t)
  BY <1>3, <1>4
<1> QED
  BY <1>5 DEF Splits

(* What has been fed and what comes next of a text.                        *)
LEMMA StrippedExtends ==
  ASSUME NEW t \in Seq(Character), NEW p \in 0..Len(t), NEW q \in p..Len(t)
  PROVE  /\ Stripped(SubSeq(t, 1, p)) \in Seq(Coded)
         /\ Stripped(SubSeq(t, p + 1, q)) \in Seq(Coded)
         /\ Stripped(SubSeq(t, 1, q))
              = Stripped(SubSeq(t, 1, p)) \o Stripped(SubSeq(t, p + 1, q))
<1>1. /\ Len(t) \in Nat /\ p \in Nat /\ q \in Nat /\ p + 1 \in Int
      /\ \A i \in 1..Len(t) : t[i] \in Character
  BY LenProperties
<1>2. /\ \A i \in 1..p : t[i] \in Character
      /\ \A i \in (p + 1)..q : t[i] \in Character
  BY <1>1
<1>3. SubSeq(t, 1, p) \in Seq(Character) /\ SubSeq(t, p + 1, q) \in Seq(Character)
  BY <1>1, <1>2, SubSeqProperties
<1>4. 1 \in 1..(Len(t) + 1) /\ p \in (1 - 1)..Len(t)
  BY <1>1
<1>5. SubSeq(t, 1, p) \o SubSeq(t, p + 1, q) = SubSeq(t, 1, q)
  BY <1>4, ConcatAdjacentSubSeq
<1> QED
  BY <1>3, <1>5, StrippedType, StrippedConcat

-----------------------------------------------------------------------------
(* Padding and the length of what is decoded.                              *)

LEMMA DigitIsNoPadding == DIGIT # PAD
<1> SUFFICES ASSUME DIGIT = PAD PROVE FALSE
  OBVIOUS
<1>1. Character = ({DIGIT} \cup {SPACE}) \cup {INVALID}
  BY DEF Character
<1>2. IsFiniteSet({DIGIT}) /\ Cardinality({DIGIT}) = 1
  BY FS_Singleton
<1>3. IsFiniteSet({DIGIT} \cup {SPACE}) /\ Cardinality({DIGIT} \cup {SPACE}) \in {1, 2}
  BY <1>2, FS_AddElement
<1>4. Cardinality(({DIGIT} \cup {SPACE}) \cup {INVALID}) \in {1, 2, 3}
  BY <1>3, FS_AddElement
<1> QED
  BY <1>1, <1>4, CharacterAssumption

LEMMA FirstPadding ==
  ASSUME NEW s \in Seq(Character), PaddingIn(s) # {}
  PROVE  /\ FirstIn(PaddingIn(s)) \in PaddingIn(s)
         /\ \A i \in PaddingIn(s) : FirstIn(PaddingIn(s)) <= i
         /\ FirstIn(PaddingIn(s)) \in 1..Len(s)
<1>1. PaddingIn(s) \in SUBSET Nat /\ PaddingIn(s) \subseteq 1..Len(s)
  BY LenProperties DEF PaddingIn
<1>2. \E m \in PaddingIn(s) : \A k \in PaddingIn(s) : m <= k
  BY <1>1, LeastNumber
<1> QED
  BY <1>1, <1>2 DEF FirstIn

LEMMA FirstIsUnique ==
  ASSUME NEW s \in Seq(Character), NEW k \in PaddingIn(s), \A i \in PaddingIn(s) : k <= i
  PROVE  FirstIn(PaddingIn(s)) = k
<1>1. PaddingIn(s) \subseteq Nat
  BY LenProperties DEF PaddingIn
<1>2. FirstIn(PaddingIn(s)) <= k /\ k <= FirstIn(PaddingIn(s)) /\ FirstIn(PaddingIn(s)) \in Nat
  BY <1>1, FirstPadding
<1> QED
  BY <1>1, <1>2

(* What decodes is made of groups, but for padding that is skipped.        *)
LEMMA GroupsOrPadding ==
  ASSUME NEW s \in Seq(Character), Decodable(s)
  PROVE  \/ Len(s) % 4 = 0
         \/ /\ PaddingIn(s) # {} /\ lenient
            /\ FirstIn(PaddingIn(s)) % 4 = 1 /\ FirstIn(PaddingIn(s)) > 1
BY DEF Decodable, PaddingFits

LEMMA DigitsDecode ==
  ASSUME NEW s \in Seq(Character), Len(s) % 4 = 0, \A i \in 1..Len(s) : s[i] = DIGIT
  PROVE  PaddingIn(s) = {} /\ Decodable(s) /\ DecodedLength(s) = 3 * (Len(s) \div 4)
<1>1. Len(s) \in Nat
  BY LenProperties
<1>2. PaddingIn(s) = {}
  BY DigitIsNoPadding DEF PaddingIn
<1>3. {i \in 1..Len(s) : s[i] = DIGIT} = 1..Len(s)
  OBVIOUS
<1>4. Cardinality(1..Len(s)) = Len(s)
  BY <1>1, SizeOfInterval
<1>5. (3 * Len(s)) \div 4 = 3 * (Len(s) \div 4)
  BY <1>1
<1> QED
  BY <1>2, <1>3, <1>4, <1>5 DEF Decodable, DecodedLength

(* Of a text with padding, all that is before the padding counts.          *)
LEMMA PaddedLength ==
  ASSUME NEW s \in Seq(Character), NEW k \in 1..Len(s),
         PaddingIn(s) = k..Len(s), \A i \in 1..Len(s) : s[i] \in {DIGIT, PAD}
  PROVE  FirstIn(PaddingIn(s)) = k /\ DecodedLength(s) = (3 * (k - 1)) \div 4
<1>1. Len(s) \in Nat /\ k \in Nat
  BY LenProperties
<1>2. k \in PaddingIn(s) /\ \A i \in PaddingIn(s) : k <= i
  BY <1>1
<1>3. {i \in 1..Len(s) : s[i] = DIGIT} = 1..(k - 1)
  <2>1. \A i \in 1..Len(s) : s[i] = PAD <=> i \in k..Len(s)
    BY DEF PaddingIn
  <2>2. \A i \in 1..Len(s) : i \in k..Len(s) <=> ~(i \in 1..(k - 1))
    BY <1>1
  <2>3. \A i \in 1..(k - 1) : i \in 1..Len(s)
    BY <1>1
  <2> QED
    BY <2>1, <2>2, <2>3, DigitIsNoPadding
<1>4. Cardinality(1..(k - 1)) = k - 1
  BY <1>1, SizeOfInterval
<1> QED
  BY <1>2, <1>3, <1>4, FirstIsUnique DEF DecodedLength

(* Groups of digits before a text change nothing in its padding.           *)
LEMMA DigitsBefore ==
  ASSUME NEW s \in Seq(Character), NEW t \in Seq(Character), NEW h \in Nat, h % 4 = 0,
         Len(t) = h + Len(s), \A i \in 1..h : t[i] = DIGIT,
         \A i \in 1..Len(s) : t[h + i] = s[i],
         Decodable(s), PaddingIn(s) # {}
  PROVE  /\ Decodable(t) /\ PaddingIn(t) # {}
         /\ DecodedLength(t) = 3 * (h \div 4) + DecodedLength(s)
<1> DEFINE k == FirstIn(PaddingIn(s))
<1>1. k \in 1..Len(s) /\ Len(s) \in Nat /\ Len(t) \in Nat
  BY FirstPadding, LenProperties
<1>2. /\ PaddingIn(s) = k..Len(s) /\ k > 1
      /\ (Len(s) % 4 = 0 /\ Len(s) - k <= 1) \/ (lenient /\ k % 4 = 1)
      /\ \A i \in 1..Len(s) : s[i] \in {DIGIT, PAD}
  BY DEF Decodable, PaddingFits
<1> HIDE DEF k
<1>3. \A i \in 1..Len(t) : (i \in 1..h \/ (i - h \in 1..Len(s) /\ i = h + (i - h)))
  BY <1>1
<1>4. \A i \in 1..Len(t) : t[i] \in {DIGIT, PAD}
  BY <1>2, <1>3
<1>5. PaddingIn(t) = (h + k)..Len(t)
  <2>1. ASSUME NEW i \in 1..Len(t) PROVE t[i] = PAD <=> i \in (h + k)..Len(t)
    <3>1. CASE i \in 1..h
      BY <1>1, <3>1, DigitIsNoPadding
    <3>2. CASE i - h \in 1..Len(s)
      <4>1. t[i] = s[i - h]
        BY <1>3, <3>2
      <4>2. s[i - h] = PAD <=> i - h \in k..Len(s)
        BY <1>2, <3>2 DEF PaddingIn
      <4> QED
        <5>1. i - h \in k..Len(s) <=> i \in (h + k)..Len(t)
          BY <1>1, <3>2
        <5> QED
          BY <4>1, <4>2, <5>1
    <3> QED
      BY <1>3, <3>1, <3>2
  <2>2. \A i \in (h + k)..Len(t) : i \in 1..Len(t)
    BY <1>1
  <2> QED
    BY <2>1, <2>2 DEF PaddingIn
<1>6. h + k \in 1..Len(t)
  BY <1>1
<1>7. /\ FirstIn(PaddingIn(t)) = h + k /\ DecodedLength(t) = (3 * ((h + k) - 1)) \div 4
      /\ DecodedLength(s) = (3 * (k - 1)) \div 4
  <2>1. FirstIn(PaddingIn(t)) = h + k /\ DecodedLength(t) = (3 * ((h + k) - 1)) \div 4
    <3> DEFINE m == h + k
    <3>1. m \in 1..Len(t) /\ PaddingIn(t) = m..Len(t)
      BY <1>5, <1>6
    <3> HIDE DEF m
    <3>2. FirstIn(PaddingIn(t)) = m /\ DecodedLength(t) = (3 * (m - 1)) \div 4
      BY <1>4, <3>1, PaddedLength
    <3> QED
      BY <3>2 DEF m
  <2>2. DecodedLength(s) = (3 * (k - 1)) \div 4
    BY <1>1, <1>2, PaddedLength
  <2> QED
    BY <2>1, <2>2
<1>8. (3 * ((h + k) - 1)) \div 4 = 3 * (h \div 4) + (3 * (k - 1)) \div 4
  <2>1. k - 1 \in Nat /\ (h + k) - 1 = h + (k - 1)
    BY <1>1
  <2> QED
    BY <2>1, WholeGroups
<1>9. /\ Len(t) % 4 = Len(s) % 4 /\ (h + k) % 4 = k % 4
      /\ Len(t) - (h + k) = Len(s) - k /\ h + k > 1
  <2>1. (h + k) % 4 = k % 4 /\ (h + Len(s)) % 4 = Len(s) % 4
    <3>1. k \in Nat
      BY <1>1
    <3> QED
      BY <1>1, <3>1, WholeGroups
  <2> QED
    BY <1>1, <1>2, <2>1
<1>10. PaddingFits(t)
  <2>1. (Len(t) % 4 = 0 /\ Len(t) - (h + k) <= 1) \/ (lenient /\ (h + k) % 4 = 1)
    BY <1>2, <1>9
  <2> QED
    BY <1>5, <1>7, <1>9, <2>1 DEF PaddingFits
<1>11. PaddingIn(t) # {}
  BY <1>5, <1>6
<1>12. Decodable(t)
  BY <1>4, <1>10, <1>11 DEF Decodable
<1> QED
  BY <1>7, <1>8, <1>11, <1>12

(* Two characters after the first padding sign are too many, unless they   *)
(* are all of a group of padding and the library skips it.                 *)
LEMMA TooMuchPadding ==
  ASSUME NEW s \in Seq(Character), NEW k \in 1..Len(s), s[k] = PAD,
         \A i \in 1..(k - 1) : s[i] # PAD,
         k + 2 <= Len(s), Decodable(s)
  PROVE  PaddingIn(s) # {} /\ lenient /\ FirstIn(PaddingIn(s)) % 4 = 1
<1>1. Len(s) \in Nat /\ k \in Nat
  BY LenProperties
<1>2. k \in PaddingIn(s) /\ \A i \in PaddingIn(s) : k <= i
  BY <1>1 DEF PaddingIn
<1>3. FirstIn(PaddingIn(s)) = k
  BY <1>2, FirstIsUnique
<1> QED
  BY <1>1, <1>2, <1>3, SMTT(30) DEF Decodable, PaddingFits

-----------------------------------------------------------------------------
(* The decoder has handed on all of Fed that is not in its buffer: digits  *)
(* only, or a text that ends with its padding.                             *)
Handed == Len(Fed) - Len(buffer)

Held ==
  /\ Len(buffer) \in 0..3 /\ Handed \in Nat /\ Handed % 4 = 0
  /\ \A i \in 1..Len(buffer) : Fed[Handed + i] = buffer[i]

HandedOn ==
  IF paddingComplete
  THEN /\ buffer = <<>>
       /\ Decodable(Fed) /\ PaddingIn(Fed) # {}
       /\ decoded = DecodedLength(Fed)
  ELSE /\ \A i \in 1..Handed : Fed[i] = DIGIT
       /\ decoded = 3 * (Handed \div 4)

DecoderInv ==
  /\ text \in Seq(Character) /\ position \in 0..Len(text)
  /\ paddingComplete \in BOOLEAN /\ buffer \in Seq(Coded)
  /\ phase \in {"open", "failed", "finished"}
  /\ phase = "open" => Held /\ HandedOn
  /\ ChunksDecodeAsOne

LEMMA InitKeeps == Init => DecoderInv
<1> SUFFICES ASSUME Init PROVE DecoderInv
  OBVIOUS
<1>1. text \in Seq(Character) /\ Len(text) \in Nat
  BY TextsAssumption, LenProperties DEF Init
<1>2. Fed = <<>>
  <2>1. SubSeq(text, 1, 0) = <<>>
    BY SubSeqEmpty
  <2> QED
    BY <2>1, StrippedEmpty DEF Fed, Init
<1>3. buffer = <<>> /\ Len(buffer) = 0 /\ Len(Fed) = 0 /\ Handed = 0
  BY <1>2 DEF Init, Handed
<1>4. buffer \in Seq(Coded) /\ position \in 0..Len(text)
  BY <1>1 DEF Init
<1>5. Held /\ HandedOn
  BY <1>3 DEF Init, Held, HandedOn
<1> QED
  BY <1>1, <1>4, <1>5 DEF Init, DecoderInv, ChunksDecodeAsOne

(* What a chunk adds to what has been fed, and what is yet to come.        *)
LEMMA FeedReads ==
  ASSUME DecoderInv, phase = "open", NEW upto \in (position + 1)..Len(text)
  PROVE  LET data == Stripped(SubSeq(text, position + 1, upto))
             fed == Stripped(SubSeq(text, 1, upto))
             extended == buffer \o data
         IN  /\ data \in Seq(Coded) /\ extended \in Seq(Coded)
             /\ Fed \in Seq(Coded) /\ fed \in Seq(Coded) /\ Encoded \in Seq(Coded)
             /\ Len(fed) = Handed + Len(extended)
             /\ Len(extended) = Len(buffer) + Len(data)
             /\ \A i \in 1..Handed : fed[i] = Fed[i]
             /\ \A i \in 1..Len(Fed) : fed[i] = Fed[i]
             /\ \A i \in 1..Len(extended) : fed[Handed + i] = extended[i]
             /\ Len(fed) <= Len(Encoded)
             /\ \A i \in 1..Len(fed) : Encoded[i] = fed[i]
             /\ (data = <<>> => fed = Fed)
<1> DEFINE data == Stripped(SubSeq(text, position + 1, upto))
           fed == Stripped(SubSeq(text, 1, upto))
           rest == Stripped(SubSeq(text, upto + 1, Len(text)))
           extended == buffer \o data
<1>1. /\ text \in Seq(Character) /\ Len(text) \in Nat /\ position \in 0..Len(text)
      /\ upto \in position..Len(text) /\ upto \in 0..Len(text) /\ Len(text) \in upto..Len(text)
      /\ buffer \in Seq(Coded) /\ Held
  BY LenProperties DEF DecoderInv
<1>2. Fed \in Seq(Coded) /\ data \in Seq(Coded) /\ fed = Fed \o data
  BY <1>1, StrippedExtends DEF Fed
<1>3. fed \in Seq(Coded) /\ rest \in Seq(Coded) /\ Encoded = fed \o rest
  <2>1. SubSeq(text, 1, Len(text)) = text
    BY <1>1, SubSeqFull
  <2> QED
    BY <1>1, <2>1, StrippedExtends DEF Encoded
<1> HIDE DEF data, fed, rest
<1>4. /\ extended \in Seq(Coded) /\ Len(extended) = Len(buffer) + Len(data)
      /\ \A i \in 1..Len(extended) :
           extended[i] = IF i <= Len(buffer) THEN buffer[i] ELSE data[i - Len(buffer)]
  BY <1>1, <1>2, ConcatProperties
<1>5. /\ Len(fed) = Len(Fed) + Len(data)
      /\ \A i \in 1..Len(fed) : fed[i] = IF i <= Len(Fed) THEN Fed[i] ELSE data[i - Len(Fed)]
  BY <1>2, ConcatProperties
<1>6. /\ Encoded \in Seq(Coded) /\ Len(Encoded) = Len(fed) + Len(rest)
      /\ \A i \in 1..Len(Encoded) :
           Encoded[i] = IF i <= Len(fed) THEN fed[i] ELSE rest[i - Len(fed)]
  BY <1>3, ConcatProperties
<1> HIDE DEF extended
<1>7. /\ Len(buffer) \in Nat /\ Len(data) \in Nat /\ Len(Fed) \in Nat /\ Len(fed) \in Nat
      /\ Len(rest) \in Nat /\ Handed \in Nat /\ Handed + Len(buffer) = Len(Fed)
  BY <1>1, <1>2, <1>3, LenProperties DEF Held, Handed
<1>8. Len(fed) = Handed + Len(extended)
  <2>1. Len(extended) = Len(buffer) + Len(data) /\ Len(fed) = Len(Fed) + Len(data)
    BY <1>4, <1>5
  <2> QED
    BY <1>7, <2>1
<1>9. \A i \in 1..Len(Fed) : fed[i] = Fed[i]
  BY <1>5, <1>7
<1>10. \A i \in 1..Handed : fed[i] = Fed[i]
  BY <1>7, <1>9
<1>11. ASSUME NEW i \in 1..Len(extended) PROVE fed[Handed + i] = extended[i]
  <2>1. CASE i <= Len(buffer)
    <3>1. Handed + i \in 1..Len(Fed) /\ i \in 1..Len(buffer)
      BY <1>7, <2>1
    <3> QED
      BY <1>1, <1>4, <1>9, <2>1, <3>1 DEF Held
  <2>2. CASE ~(i <= Len(buffer))
    <3>1. /\ Handed + i \in 1..Len(fed) /\ ~(Handed + i <= Len(Fed))
          /\ (Handed + i) - Len(Fed) = i - Len(buffer)
      <4>1. i \in Nat /\ 1 <= i /\ i <= Len(extended) /\ Len(extended) \in Nat
        BY <1>4, LenProperties
      <4> QED
        BY <1>7, <1>8, <2>2, <4>1
    <3>2. fed[Handed + i] = data[(Handed + i) - Len(Fed)]
      BY <1>5, <3>1
    <3>3. extended[i] = data[i - Len(buffer)]
      BY <1>4, <2>2
    <3> QED
      BY <3>1, <3>2, <3>3
  <2> QED
    BY <2>1, <2>2
<1>12. Len(fed) <= Len(Encoded) /\ \A i \in 1..Len(fed) : Encoded[i] = fed[i]
  BY <1>6, <1>7, SMTT(30)
<1>13. data = <<>> => fed = Fed
  BY <1>2, ConcatEmptySeq
<1> QED
  BY <1>2, <1>3, <1>4, <1>6, <1>8, <1>9, <1>10, <1>11, <1>12, <1>13
  DEF data, fed, extended

LEMMA LengthIsNumber ==
  ASSUME NEW s \in Seq(Character)
  PROVE  DecodedLength(s) \in Nat
<1> DEFINE digits == {i \in 1..Len(s) : s[i] = DIGIT}
<1>1. IsFiniteSet(1..Len(s)) /\ digits \subseteq 1..Len(s)
  BY LenProperties, FS_Interval
<1>2. Cardinality(digits) \in Nat
  BY <1>1, FS_Subset, FS_CardinalityType
<1> QED
  BY <1>2 DEF DecodedLength

-----------------------------------------------------------------------------
(* Every way out of feed, for what is extended by a chunk.                 *)

(* What is known of the texts at a feed that does not only see white       *)
(* space: the digits handed on, then what the buffer has become.           *)
Reads(fed, extended) ==
  /\ extended \in Seq(Coded) /\ fed \in Seq(Coded) /\ Encoded \in Seq(Coded)
  /\ Handed \in Nat /\ Handed % 4 = 0
  /\ Len(fed) = Handed + Len(extended) /\ Len(fed) <= Len(Encoded)
  /\ \A i \in 1..Handed : fed[i] = DIGIT /\ Encoded[i] = DIGIT
  /\ \A i \in 1..Len(extended) :
       fed[Handed + i] = extended[i] /\ Encoded[Handed + i] = extended[i]

(* A text with a character that is no base64 is refused in one piece, too. *)
LEMMA BadCharacter ==
  ASSUME NEW fed, NEW extended, Reads(fed, extended),
         NEW i \in 1..Len(extended), extended[i] \notin {DIGIT, PAD}
  PROVE  ~Decodable(Encoded)
<1>1. Handed + i \in 1..Len(Encoded)
  BY LenProperties DEF Reads
<1>2. Encoded[Handed + i] = extended[i]
  BY DEF Reads
<1> QED
  BY <1>1, <1>2 DEF Decodable

(* Padding with two characters behind it.                                  *)
LEMMA PaddingTooEarly ==
  ASSUME NEW fed, NEW extended, Reads(fed, extended), PaddingIn(extended) # {},
         Handed + FirstIn(PaddingIn(extended)) + 2 <= Len(Encoded)
  PROVE  ~Decodable(Encoded) \/ HasPaddingGroup
<1> SUFFICES ASSUME Decodable(Encoded) PROVE HasPaddingGroup
  OBVIOUS
<1> DEFINE k == FirstIn(PaddingIn(extended))
<1>1. /\ extended \in Seq(Character) /\ Encoded \in Seq(Character)
      /\ Len(extended) \in Nat /\ Len(Encoded) \in Nat /\ Handed \in Nat
  BY SeqMonotonic, LenProperties DEF Reads, Coded
<1>2. k \in PaddingIn(extended) /\ k \in 1..Len(extended) /\ \A i \in PaddingIn(extended) : k <= i
  BY <1>1, FirstPadding
<1>3. extended[k] = PAD /\ Handed + k + 2 <= Len(Encoded)
  BY <1>2 DEF PaddingIn
<1> HIDE DEF k
<1>4. Handed + k \in 1..Len(Encoded) /\ Encoded[Handed + k] = PAD
  <2>1. Encoded[Handed + k] = extended[k]
    BY <1>2 DEF Reads
  <2> QED
    BY <1>1, <1>2, <1>3, <2>1
<1>5. ASSUME NEW i \in 1..((Handed + k) - 1) PROVE Encoded[i] # PAD
  <2>1. CASE i \in 1..Handed
    BY <2>1, DigitIsNoPadding DEF Reads
  <2>2. CASE i - Handed \in 1..Len(extended) /\ ~(k <= i - Handed)
    <3>1. Encoded[Handed + (i - Handed)] = extended[i - Handed] /\ Handed + (i - Handed) = i
      BY <1>1, <2>2 DEF Reads
    <3>2. extended[i - Handed] # PAD
      BY <1>2, <2>2 DEF PaddingIn
    <3> QED
      BY <3>1, <3>2
  <2>3. i \in 1..Handed \/ (i - Handed \in 1..Len(extended) /\ ~(k <= i - Handed))
    BY <1>1, <1>2
  <2> QED
    BY <2>1, <2>2, <2>3
<1>6. (Handed + k) + 2 <= Len(Encoded)
  BY <1>3
<1> DEFINE m == Handed + k
<1> HIDE DEF m
<1>7. /\ m \in 1..Len(Encoded) /\ Encoded[m] = PAD /\ m + 2 <= Len(Encoded)
      /\ \A i \in 1..(m - 1) : Encoded[i] # PAD
  BY <1>4, <1>5, <1>6 DEF m
<1>8. PaddingIn(Encoded) # {} /\ lenient /\ FirstIn(PaddingIn(Encoded)) % 4 = 1
  BY <1>1, <1>7, TooMuchPadding
<1> QED
  BY <1>8 DEF HasPaddingGroup

(* Padding with something else behind it.                                  *)
LEMMA PaddingInterrupted ==
  ASSUME NEW fed, NEW extended, Reads(fed, extended), PaddingIn(extended) # {},
         PaddingIn(extended) # FirstIn(PaddingIn(extended))..Len(extended)
  PROVE  ~Decodable(Encoded)
<1> SUFFICES ASSUME Decodable(Encoded) PROVE FALSE
  OBVIOUS
<1> DEFINE k == FirstIn(PaddingIn(extended))
           f == FirstIn(PaddingIn(Encoded))
<1>1. /\ extended \in Seq(Character) /\ Encoded \in Seq(Character)
      /\ Len(extended) \in Nat /\ Len(Encoded) \in Nat /\ Handed \in Nat
  BY SeqMonotonic, LenProperties DEF Reads, Coded
<1>2. k \in PaddingIn(extended) /\ k \in 1..Len(extended) /\ \A i \in PaddingIn(extended) : k <= i
  BY <1>1, FirstPadding
<1>3. PaddingIn(extended) \subseteq k..Len(extended)
  BY <1>1, <1>2 DEF PaddingIn
<1>4. PICK i \in k..Len(extended) : i \notin PaddingIn(extended)
  BY <1>3
<1> HIDE DEF k
<1>5. i \in 1..Len(extended) /\ extended[i] # PAD /\ extended[k] = PAD /\ k <= i
  BY <1>1, <1>2, <1>4 DEF PaddingIn
<1>6. /\ Handed + k \in 1..Len(Encoded) /\ Encoded[Handed + k] = PAD
      /\ Handed + i \in 1..Len(Encoded) /\ Encoded[Handed + i] # PAD
  BY <1>1, <1>2, <1>5 DEF Reads
<1>7. Handed + k \in PaddingIn(Encoded) /\ Handed + i \notin PaddingIn(Encoded)
  BY <1>6 DEF PaddingIn
<1>8. f \in 1..Len(Encoded) /\ f <= Handed + k /\ PaddingIn(Encoded) = f..Len(Encoded)
  BY <1>1, <1>7, FirstPadding DEF Decodable, PaddingFits
<1> HIDE DEF f
<1>9. Handed + i \in f..Len(Encoded)
  BY <1>1, <1>2, <1>5, <1>6, <1>8
<1> QED
  BY <1>7, <1>8, <1>9

(* After padding nothing may come.                                         *)
LEMMA ExcessIsRefused ==
  ASSUME NEW fed, fed \in Seq(Coded), Fed \in Seq(Coded), Encoded \in Seq(Coded),
         Decodable(Fed), PaddingIn(Fed) # {}, Len(Fed) % 4 = 0,
         Len(Fed) < Len(fed), Len(fed) <= Len(Encoded),
         \A i \in 1..Len(Fed) : Encoded[i] = Fed[i]
  PROVE  ~Decodable(Encoded) \/ HasPaddingGroup
<1> SUFFICES ASSUME Decodable(Encoded) PROVE HasPaddingGroup
  OBVIOUS
<1> DEFINE k == FirstIn(PaddingIn(Fed))
<1>1. /\ Fed \in Seq(Character) /\ Encoded \in Seq(Character)
      /\ Len(Fed) \in Nat /\ Len(fed) \in Nat /\ Len(Encoded) \in Nat
  BY SeqMonotonic, LenProperties DEF Coded
<1>2. k \in PaddingIn(Fed) /\ k \in 1..Len(Fed) /\ \A i \in PaddingIn(Fed) : k <= i
  BY <1>1, FirstPadding
<1> HIDE DEF k
<1>3. k \in 1..Len(Encoded) /\ Encoded[k] = PAD
  BY <1>1, <1>2 DEF PaddingIn
<1>4. ASSUME NEW i \in 1..(k - 1) PROVE Encoded[i] # PAD
  <2>1. i \in 1..Len(Fed) /\ ~(k <= i)
    BY <1>1, <1>2
  <2> QED
    BY <1>2, <2>1 DEF PaddingIn
<1>5. CASE Len(Encoded) % 4 = 0
  <2>1. Len(Fed) + 4 <= Len(Encoded)
    BY <1>1, <1>5, NextGroup
  <2>2. k \in Nat /\ k <= Len(Fed)
    BY <1>1, <1>2
  <2>3. k + 2 <= Len(Encoded)
    BY <1>1, <2>1, <2>2
  <2> QED
    BY <1>1, <1>3, <1>4, <2>3, TooMuchPadding DEF HasPaddingGroup
<1>6. CASE Len(Encoded) % 4 # 0
  BY <1>1, <1>6, GroupsOrPadding DEF HasPaddingGroup
<1> QED
  BY <1>5, <1>6

(* The groups of digits at the front of the buffer.                        *)
LEMMA DigitGroups ==
  ASSUME NEW fed, NEW extended, Reads(fed, extended),
         NEW complete \in 0..Len(extended), complete % 4 = 0,
         PaddingIn(SubSeq(extended, 1, complete)) = {}
  PROVE  LET candidate == SubSeq(extended, 1, complete)
         IN  IF Decodable(candidate)
             THEN /\ \A i \in 1..(Handed + complete) : fed[i] = DIGIT
                  /\ DecodedLength(candidate) = 3 * (complete \div 4)
             ELSE ~Decodable(Encoded)
<1> DEFINE candidate == SubSeq(extended, 1, complete)
<1>1. Len(extended) \in Nat /\ Handed \in Nat /\ \A i \in 1..complete : extended[i] \in Character
  <2>1. Len(extended) \in Nat /\ \A i \in 1..Len(extended) : extended[i] \in Coded
    BY LenProperties DEF Reads
  <2>2. \A i \in 1..complete : i \in 1..Len(extended)
    BY <2>1
  <2> QED
    BY <2>1, <2>2 DEF Reads, Coded
<1>2. /\ candidate \in Seq(Character) /\ Len(candidate) = complete
      /\ \A i \in 1..complete : candidate[i] = extended[i]
  BY <1>1, SubSeqProperties
<1> HIDE DEF candidate
<1>3. \A i \in 1..complete : candidate[i] # PAD
  BY <1>2 DEF PaddingIn, candidate
<1>4. CASE \A i \in 1..complete : candidate[i] = DIGIT
  <2>1. Decodable(candidate) /\ DecodedLength(candidate) = 3 * (complete \div 4)
    BY <1>2, <1>4, DigitsDecode
  <2>2. ASSUME NEW i \in 1..(Handed + complete) PROVE fed[i] = DIGIT
    <3>1. CASE i \in 1..Handed
      BY <3>1 DEF Reads
    <3>2. CASE i - Handed \in 1..complete
      <4>1. i - Handed \in 1..Len(extended) /\ Handed + (i - Handed) = i
        BY <1>1, <3>2
      <4>2. fed[Handed + (i - Handed)] = extended[i - Handed]
        BY <4>1 DEF Reads
      <4> QED
        BY <1>2, <1>4, <3>2, <4>1, <4>2
    <3>3. i \in 1..Handed \/ i - Handed \in 1..complete
      BY <1>1
    <3> QED
      BY <3>1, <3>2, <3>3
  <2> QED
    BY <2>1, <2>2 DEF candidate
<1>5. CASE \E i \in 1..complete : candidate[i] # DIGIT
  <2>1. PICK i \in 1..complete : candidate[i] \notin {DIGIT, PAD}
    BY <1>3, <1>5
  <2>2. i \in 1..Len(extended) /\ extended[i] \notin {DIGIT, PAD}
    BY <1>1, <1>2, <2>1
  <2>3. ~Decodable(Encoded)
    BY <2>2, BadCharacter
  <2>4. ~Decodable(candidate)
    BY <1>2, <2>1 DEF Decodable
  <2> QED
    BY <2>3, <2>4 DEF candidate
<1> QED
  BY <1>4, <1>5

(* The groups that end with the first padding.                             *)
LEMMA PaddedGroups ==
  ASSUME NEW fed, NEW extended, Reads(fed, extended), PaddingIn(extended) # {},
         Len(extended) % 4 = 0
  PROVE  IF Decodable(extended)
         THEN /\ Decodable(fed) /\ PaddingIn(fed) # {}
              /\ DecodedLength(fed) = 3 * (Handed \div 4) + DecodedLength(extended)
         ELSE ~Decodable(Encoded) \/ HasPaddingGroup
<1>1. /\ extended \in Seq(Character) /\ fed \in Seq(Character)
      /\ Len(extended) \in Nat /\ Len(Encoded) \in Nat /\ Handed \in Nat
      /\ Handed + Len(extended) <= Len(Encoded)
  BY SeqMonotonic, LenProperties DEF Reads, Coded
<1>2. CASE Decodable(extended)
  BY <1>1, <1>2, DigitsBefore DEF Reads
<1>3. CASE ~Decodable(extended)
  <2> DEFINE k == FirstIn(PaddingIn(extended))
  <2>1. k \in 1..Len(extended)
    BY <1>1, FirstPadding
  <2>2. CASE \E i \in 1..Len(extended) : extended[i] \notin {DIGIT, PAD}
    BY <1>3, <2>2, BadCharacter
  <2>3. CASE PaddingIn(extended) # k..Len(extended)
    BY <1>3, <2>3, PaddingInterrupted
  <2>4. CASE k + 2 <= Len(extended)
    <3>1. Handed + k + 2 <= Len(Encoded)
      BY <1>1, <2>1, <2>4
    <3> QED
      BY <1>3, <3>1, PaddingTooEarly
  <2>5. CASE PaddingIn(extended) = k..Len(extended) /\ ~(k + 2 <= Len(extended))
             /\ \A i \in 1..Len(extended) : extended[i] \in {DIGIT, PAD}
    <3>1. k > 1 /\ Len(extended) - k <= 1
      BY <1>1, <2>1, <2>5
    <3>2. Decodable(extended)
      BY <2>5, <3>1 DEF Decodable, PaddingFits
    <3> QED
      BY <1>3, <3>2
  <2> QED
    BY <2>2, <2>3, <2>4, <2>5
<1> QED
  BY <1>2, <1>3

(* The decoder after a feed that is accepted or refused.                   *)
LEMMA FeedKeeps ==
  ASSUME DecoderInv, NEW upto \in (position + 1)..Len(text), Feed(upto)
  PROVE  DecoderInv'
<1> DEFINE data == Stripped(SubSeq(text, position + 1, upto))
           fed == Stripped(SubSeq(text, 1, upto))
           extended == buffer \o data
<1>1. /\ phase = "open" /\ position' = upto /\ UNCHANGED <<text, lenient>>
      /\ Held /\ HandedOn
      /\ text \in Seq(Character) /\ position \in 0..Len(text) /\ Len(text) \in Nat
      /\ paddingComplete \in BOOLEAN /\ buffer \in Seq(Coded)
  BY LenProperties DEF Feed, DecoderInv
<1>2. /\ data \in Seq(Coded) /\ extended \in Seq(Coded)
      /\ Fed \in Seq(Coded) /\ fed \in Seq(Coded) /\ Encoded \in Seq(Coded)
      /\ Len(fed) = Handed + Len(extended)
      /\ Len(extended) = Len(buffer) + Len(data)
      /\ \A i \in 1..Handed : fed[i] = Fed[i]
      /\ \A i \in 1..Len(Fed) : fed[i] = Fed[i]
      /\ \A i \in 1..Len(extended) : fed[Handed + i] = extended[i]
      /\ Len(fed) <= Len(Encoded)
      /\ \A i \in 1..Len(fed) : Encoded[i] = fed[i]
      /\ (data = <<>> => fed = Fed)
  BY <1>1, FeedReads, Zenon
<1>3. Fed' = fed /\ Encoded' = Encoded /\ (HasPaddingGroup' <=> HasPaddingGroup)
  BY <1>1 DEF Fed, Encoded, HasPaddingGroup
<1>4. (Decodable(Encoded)' <=> Decodable(Encoded)) /\ (Decodable(Fed)' <=> Decodable(fed))
  BY <1>1, <1>3 DEF Decodable, PaddingFits
<1>5. \/ data = <<>> /\ FeedSpace
      \/ data # <<>> /\ FeedAfterPadding
      \/ /\ data # <<>> /\ ~paddingComplete
         /\ FeedIncomplete(extended) \/ FeedGroups(extended)
  BY DEF Feed
<1>6. Len(data) \in Nat /\ (data # <<>> => Len(data) > 0)
  BY <1>2, LenProperties, EmptySeq
<1> HIDE DEF data, fed, extended
<1>7. /\ Len(buffer) \in 0..3 /\ Handed \in Nat /\ Handed % 4 = 0
      /\ Handed + Len(buffer) = Len(Fed) /\ Len(Fed) \in Nat /\ Len(fed) \in Nat
      /\ Len(extended) \in Nat /\ Len(Encoded) \in Nat
      /\ Len(fed) = Handed + Len(extended) /\ Len(fed) <= Len(Encoded)
      /\ Handed' = Len(fed) - Len(buffer')
  <2>1. Len(Fed) \in Nat /\ Len(fed) \in Nat /\ Len(extended) \in Nat /\ Len(Encoded) \in Nat
    BY <1>2, LenProperties
  <2> QED
    BY <1>1, <1>2, <1>3, <2>1 DEF Held, Handed
<1>8. ASSUME phase' = "failed", ~Decodable(Encoded) \/ HasPaddingGroup,
             buffer' \in Seq(Coded), paddingComplete' \in BOOLEAN
      PROVE  DecoderInv'
  BY <1>1, <1>3, <1>4, <1>8 DEF DecoderInv, ChunksDecodeAsOne
<1>9. ASSUME phase' = "open", Held', HandedOn', buffer' \in Seq(Coded), paddingComplete' \in BOOLEAN
      PROVE  DecoderInv'
  BY <1>1, <1>9 DEF DecoderInv, ChunksDecodeAsOne
<1>10. CASE data = <<>> /\ FeedSpace
  <2>1. /\ UNCHANGED <<buffer, paddingComplete, phase>>
        /\ decoded' = decoded \/ decoded' = decoded + 0
    BY <1>10 DEF FeedSpace, HandOn, Nothing
  <2>2. fed = Fed /\ Handed' = Handed
    BY <1>2, <1>7, <1>10, <2>1 DEF Handed
  <2>3. decoded \in Nat
    <3>1. DecodedLength(Fed) \in Nat
      BY <1>2, LengthIsNumber, SeqMonotonic DEF Coded
    <3> QED
      BY <1>1, <1>7, <3>1 DEF HandedOn
  <2>4. decoded' = decoded
    BY <2>1, <2>3
  <2>5. Fed' = Fed
    BY <1>3, <2>2
  <2>6. DecodedLength(Fed)' = DecodedLength(Fed) /\ PaddingIn(Fed)' = PaddingIn(Fed)
    BY <2>5 DEF DecodedLength, PaddingIn
  <2>7. Held'
    BY <1>1, <2>1, <2>2, <2>5 DEF Held
  <2>8. HandedOn'
    BY <1>1, <1>4, <2>1, <2>2, <2>4, <2>5, <2>6 DEF HandedOn
  <2> QED
    BY <1>1, <1>9, <2>1, <2>7, <2>8
<1>11. CASE data # <<>> /\ FeedAfterPadding
  <2>1. paddingComplete /\ phase' = "failed" /\ UNCHANGED <<buffer, paddingComplete>>
    BY <1>11 DEF FeedAfterPadding, Fail
  <2>2. buffer = <<>> /\ Decodable(Fed) /\ PaddingIn(Fed) # {}
    BY <1>1, <2>1 DEF HandedOn
  <2>3. Len(Fed) < Len(fed)
    BY <1>2, <1>6, <1>7, <1>11
  <2>4. \A i \in 1..Len(Fed) : Encoded[i] = Fed[i]
    BY <1>2, <1>7, <2>3
  <2>5. Len(Fed) % 4 = 0
    BY <1>1, <1>2, <2>2 DEF Held, Handed
  <2>6. ~Decodable(Encoded) \/ HasPaddingGroup
    BY <1>2, <2>2, <2>3, <2>4, <2>5, ExcessIsRefused
  <2> QED
    BY <1>1, <1>8, <2>1, <2>6
<1>12. CASE ~paddingComplete /\ FeedIncomplete(extended)
  <2>1. /\ Len(extended) < 4 /\ buffer' = extended /\ UNCHANGED <<paddingComplete, phase, decoded>>
    BY <1>12 DEF FeedIncomplete, Nothing
  <2>2. Handed' = Handed /\ Len(buffer') \in 0..3
    <3>1. Len(buffer') = Len(extended) /\ Len(extended) < 4
      BY <2>1
    <3>2. /\ Handed \in Nat /\ Len(extended) \in Nat
          /\ Handed' = (Handed + Len(extended)) - Len(buffer')
      BY <1>7
    <3> QED
      BY <3>1, <3>2
  <2>3. Held'
    BY <1>2, <1>3, <1>7, <2>1, <2>2 DEF Held
  <2>4. \A i \in 1..Handed : fed[i] = DIGIT
    BY <1>1, <1>2, <1>12 DEF HandedOn
  <2>5. HandedOn'
    BY <1>1, <1>3, <1>12, <2>1, <2>2, <2>4 DEF HandedOn
  <2> QED
    BY <1>1, <1>2, <1>9, <2>1, <2>3, <2>5
<1>13. CASE ~paddingComplete /\ FeedGroups(extended)
  <2> DEFINE complete == (Len(extended) \div 4) * 4
             candidate == SubSeq(extended, 1, complete)
  <2>1. Reads(fed, extended)
    <3>1. \A i \in 1..Handed : fed[i] = DIGIT
      BY <1>1, <1>2, <1>13 DEF HandedOn
    <3>2. /\ \A i \in 1..Handed : i \in 1..Len(fed)
          /\ \A i \in 1..Len(extended) : Handed + i \in 1..Len(fed)
      BY <1>7
    <3> QED
      BY <1>2, <1>7, <3>1, <3>2 DEF Reads
  <2>2. /\ complete \in 0..Len(extended) /\ complete % 4 = 0 /\ Len(extended) - complete \in 0..3
        /\ complete > 0
    BY <1>7, <1>13 DEF FeedGroups
  <2>3. extended \in Seq(Character) /\ fed \in Seq(Character)
    BY <1>2, SeqMonotonic DEF Coded
  <2>4. decoded = 3 * (Handed \div 4)
    BY <1>1, <1>13 DEF HandedOn
  <2>5. \/ /\ PaddingIn(candidate) = {}
           /\ buffer' = Rest(extended, complete)
           /\ Decode(candidate)
           /\ UNCHANGED paddingComplete
        \/ /\ PaddingIn(candidate) # {}
           /\ PaddingEnds(extended, complete)
           /\ buffer' = <<>> /\ paddingComplete' = TRUE
           /\ Decode(extended)
        \/ /\ PaddingIn(candidate) # {}
           /\ ~PaddingEnds(extended, complete)
           /\ buffer' = extended
           /\ Fail
           /\ UNCHANGED paddingComplete
    BY <1>13 DEF FeedGroups
  <2>6. \A s : Decode(s) => IF Decodable(s)
                            THEN phase' = "open" /\ decoded' = decoded + DecodedLength(s)
                            ELSE phase' = "failed"
    BY <1>1 DEF Decode, HandOn, Fail
  <2>7. PaddingIn(candidate) \subseteq PaddingIn(extended)
    <3>1. Len(candidate) = complete /\ \A i \in 1..complete : candidate[i] = extended[i]
      <4>1. \A i \in 1..complete : extended[i] \in Character
        BY <2>2, <2>3, LenProperties
      <4> QED
        BY <2>2, <4>1, SubSeqProperties
    <3> QED
      BY <1>7, <2>2, <3>1 DEF PaddingIn
  <2> HIDE DEF complete, candidate
  <2>8. CASE /\ PaddingIn(candidate) = {} /\ buffer' = Rest(extended, complete)
             /\ Decode(candidate) /\ UNCHANGED paddingComplete
    <3>1. /\ Rest(extended, complete) \in Seq(Coded)
          /\ Len(buffer') = Len(extended) - complete
          /\ \A i \in 1..(Len(extended) - complete) : buffer'[i] = extended[complete + i]
      <4>1. /\ complete + 1 \in Int /\ Len(extended) \in Int
            /\ \A i \in (complete + 1)..Len(extended) : extended[i] \in Coded
        BY <1>2, <1>7, <2>2, LenProperties
      <4>2. /\ Rest(extended, complete) \in Seq(Coded)
            /\ Len(Rest(extended, complete))
                 = IF complete + 1 <= Len(extended) THEN Len(extended) - (complete + 1) + 1 ELSE 0
            /\ \A i \in 1..(Len(extended) - (complete + 1) + 1) :
                 Rest(extended, complete)[i] = extended[(complete + 1) + i - 1]
        BY <4>1, SubSeqProperties DEF Rest
      <4>3. \A i \in Nat : (complete + 1) + i - 1 = complete + i
        BY <2>2
      <4> QED
        <5>1. Len(Rest(extended, complete)) = Len(extended) - complete
          <6>1. complete \in Nat /\ Len(extended) \in Nat /\ complete <= Len(extended)
            BY <1>7, <2>2
          <6>2. CASE complete + 1 <= Len(extended)
            <7>1. Len(Rest(extended, complete)) = Len(extended) - (complete + 1) + 1
              BY <4>2, <6>2
            <7> QED
              BY <6>1, <7>1
          <6>3. CASE ~(complete + 1 <= Len(extended))
            <7>1. Len(Rest(extended, complete)) = 0
              BY <4>2, <6>3
            <7> QED
              BY <6>1, <6>3, <7>1
          <6> QED
            BY <6>2, <6>3
        <5>2. \A i \in 1..(Len(extended) - complete) :
                Rest(extended, complete)[i] = extended[complete + i]
          <6>1. Len(extended) - (complete + 1) + 1 = Len(extended) - complete
            BY <1>7, <2>2
          <6>2. \A i \in 1..(Len(extended) - complete) : i \in Nat
            OBVIOUS
          <6> QED
            BY <4>2, <4>3, <6>1, <6>2
        <5> QED
          BY <2>8, <4>2, <5>1, <5>2
    <3>2. Handed' = Handed + complete
      <4>1. Len(buffer') = Len(extended) - complete
        BY <3>1
      <4> QED
        BY <1>7, <2>2, <4>1
    <3>3. IF Decodable(candidate)
          THEN /\ \A i \in 1..(Handed + complete) : fed[i] = DIGIT
               /\ DecodedLength(candidate) = 3 * (complete \div 4)
          ELSE ~Decodable(Encoded)
      BY <2>1, <2>2, <2>8, DigitGroups DEF candidate
    <3>4. CASE Decodable(candidate)
      <4>1. phase' = "open" /\ decoded' = decoded + 3 * (complete \div 4)
        BY <2>6, <2>8, <3>3, <3>4
      <4>2. /\ (Handed + complete) % 4 = 0
            /\ (Handed + complete) \div 4 = Handed \div 4 + complete \div 4
        BY <1>7, <2>2, WholeGroups
      <4>3. decoded' = 3 * ((Handed + complete) \div 4)
        BY <1>7, <2>2, <2>4, <4>1, <4>2
      <4>4. \A i \in 1..(Len(extended) - complete) :
              fed[(Handed + complete) + i] = extended[complete + i]
        <5>1. \A i \in 1..(Len(extended) - complete) :
                complete + i \in 1..Len(extended) /\ Handed + (complete + i) = (Handed + complete) + i
          BY <1>7, <2>2
        <5> QED
          BY <1>2, <5>1
      <4>5. Held'
        <5>1. Len(buffer') \in 0..3 /\ Handed' \in Nat /\ Handed' % 4 = 0
          BY <1>7, <2>2, <3>1, <3>2, <4>2
        <5>2. \A i \in 1..Len(buffer') : fed[Handed' + i] = buffer'[i]
          BY <3>1, <3>2, <4>4
        <5> QED
          BY <1>3, <5>1, <5>2 DEF Held
      <4>6. HandedOn'
        BY <1>1, <1>3, <1>13, <2>8, <3>2, <3>3, <3>4, <4>3 DEF HandedOn
      <4> QED
        BY <1>1, <1>9, <2>8, <3>1, <4>1, <4>5, <4>6
    <3>5. CASE ~Decodable(candidate)
      BY <1>1, <1>8, <2>6, <2>8, <3>1, <3>3, <3>5
    <3> QED
      BY <3>4, <3>5
  <2> DEFINE k == FirstIn(PaddingIn(extended))
             group == ((k - 1) \div 4 + 1) * 4
  <2>9. PaddingIn(candidate) # {} =>
          /\ PaddingIn(extended) # {} /\ k \in 1..Len(extended)
          /\ group % 4 = 0 /\ k <= group /\ group \in Nat /\ group <= complete
    <3> SUFFICES ASSUME PaddingIn(candidate) # {}
                 PROVE  /\ PaddingIn(extended) # {} /\ k \in 1..Len(extended)
                        /\ group % 4 = 0 /\ k <= group /\ group \in Nat /\ group <= complete
      OBVIOUS
    <3>1. PaddingIn(extended) # {} /\ k \in 1..Len(extended) /\ \A i \in PaddingIn(extended) : k <= i
      BY <2>3, <2>7, FirstPadding
    <3>2. PICK i \in PaddingIn(candidate) : i <= complete /\ i \in Nat
      <4>1. Len(candidate) = complete
        <5>1. \A i \in 1..complete : extended[i] \in Character
          BY <2>2, <2>3, LenProperties
        <5> QED
          BY <2>2, <5>1, SubSeqProperties DEF candidate
      <4> QED
        BY <2>2, <4>1 DEF PaddingIn
    <3>3. k <= complete
      BY <1>7, <2>2, <2>7, <3>1, <3>2
    <3> HIDE DEF k
    <3> QED
      BY <1>7, <2>2, <3>1, <3>3, SMTT(60)
  <2>10. CASE /\ PaddingIn(candidate) # {} /\ PaddingEnds(extended, complete)
              /\ buffer' = <<>> /\ paddingComplete' = TRUE /\ Decode(extended)
    <3>1. Len(extended) % 4 = 0 /\ PaddingIn(extended) # {}
      BY <2>9, <2>10 DEF PaddingEnds
    <3>2. IF Decodable(extended)
          THEN /\ Decodable(fed) /\ PaddingIn(fed) # {}
               /\ DecodedLength(fed) = 3 * (Handed \div 4) + DecodedLength(extended)
          ELSE ~Decodable(Encoded) \/ HasPaddingGroup
      BY <2>1, <3>1, PaddedGroups
    <3>3. buffer' \in Seq(Coded) /\ Len(buffer') = 0
      BY <2>10
    <3>4. CASE Decodable(extended)
      <4>1. phase' = "open" /\ decoded' = DecodedLength(fed)
        BY <2>4, <2>6, <2>10, <3>2, <3>4
      <4>2. Held'
        <5>1. (Handed + Len(extended)) % 4 = Len(extended) % 4
          BY <1>7, WholeGroups
        <5>2. Len(fed) \in Nat /\ Len(fed) % 4 = 0
          BY <1>7, <3>1, <5>1
        <5>3. Handed' = Len(fed)
          BY <1>7, <3>3
        <5> QED
          BY <3>3, <5>2, <5>3 DEF Held
      <4>3. DecodedLength(Fed)' = DecodedLength(fed) /\ PaddingIn(Fed)' = PaddingIn(fed)
        BY <1>3 DEF DecodedLength, PaddingIn
      <4>4. HandedOn'
        BY <1>4, <2>10, <3>2, <3>4, <4>1, <4>3 DEF HandedOn
      <4> QED
        BY <1>9, <2>10, <3>3, <4>1, <4>2, <4>4
    <3>5. CASE ~Decodable(extended)
      BY <1>8, <2>6, <2>10, <3>2, <3>3, <3>5
    <3> QED
      BY <3>4, <3>5
  <2>11. CASE /\ PaddingIn(candidate) # {} /\ ~PaddingEnds(extended, complete)
              /\ buffer' = extended /\ Fail /\ UNCHANGED paddingComplete
    <3> HIDE DEF k, group
    <3>1. group < Len(extended)
      BY <1>7, <2>2, <2>9, <2>11 DEF PaddingEnds, k, group
    <3>2. ASSUME Len(Encoded) % 4 = 0 PROVE Handed + k + 2 <= Len(Encoded)
      <4>1. Len(Encoded) % 4 = 0 /\ Handed + Len(extended) <= Len(Encoded)
        BY <1>2, <1>7, <2>2, <3>2
      <4>2. (Handed + group) % 4 = 0 /\ Handed + group \in Nat /\ Handed + group < Len(Encoded)
        <5>1. group \in Nat /\ group % 4 = 0
          BY <2>9, <2>11
        <5>2. (Handed + group) % 4 = 0
          BY <1>7, <5>1, WholeGroups
        <5> QED
          BY <1>7, <3>1, <4>1, <5>1, <5>2, SMTT(30)
      <4>3. (Handed + group) + 4 <= Len(Encoded)
        BY <1>7, <4>1, <4>2, NextGroup
      <4>4. k \in 1..Len(extended) /\ k <= group /\ group \in Nat
        BY <2>9, <2>11
      <4> QED
        BY <1>7, <4>3, <4>4
    <3>3. ~Decodable(Encoded) \/ HasPaddingGroup
      <4>1. CASE Len(Encoded) % 4 = 0
        BY <2>1, <2>9, <2>11, <3>2, <4>1, PaddingTooEarly DEF k
      <4>2. CASE Len(Encoded) % 4 # 0
        BY <1>2, <4>2, GroupsOrPadding, SeqMonotonic DEF HasPaddingGroup, Coded
      <4> QED
        BY <4>1, <4>2
    <3> QED
      BY <1>1, <1>2, <1>8, <2>11, <3>3 DEF Fail
  <2> QED
    BY <2>5, <2>8, <2>10, <2>11
<1> QED
  BY <1>5, <1>10, <1>11, <1>12, <1>13

LEMMA FinishKeeps ==
  ASSUME DecoderInv, Finish
  PROVE  DecoderInv'
<1>1. /\ phase = "open" /\ position = Len(text) /\ phase' = FinishPhase
      /\ UNCHANGED <<text, position, lenient, buffer, paddingComplete, answer, decoded>>
      /\ Held /\ HandedOn /\ text \in Seq(Character) /\ buffer \in Seq(Coded)
  BY DEF Finish, DecoderInv
<1>2. Fed = Encoded /\ Encoded \in Seq(Character) /\ Len(Encoded) \in Nat
  <2>1. SubSeq(text, 1, position) = text
    BY <1>1, SubSeqFull
  <2>2. Encoded \in Seq(Coded)
    BY <1>1, StrippedType DEF Encoded
  <2> QED
    BY <2>1, <2>2, SeqMonotonic, LenProperties DEF Fed, Encoded, Coded
<1>3. Handed + Len(buffer) = Len(Encoded) /\ Handed \in Nat /\ Handed % 4 = 0 /\ Len(buffer) \in 0..3
  BY <1>1, <1>2 DEF Held, Handed
<1>4. phase' \in {"failed", "finished"}
  BY <1>1 DEF FinishPhase
<1>5. phase' = "finished" => Decodable(Encoded) /\ decoded = DecodedLength(Encoded)
  <2> SUFFICES ASSUME phase' = "finished"
               PROVE  Decodable(Encoded) /\ decoded = DecodedLength(Encoded)
    OBVIOUS
  <2>1. buffer = <<>> \/ Decodable(buffer)
    BY <1>1 DEF FinishPhase
  <2>2. Len(buffer) = 0
    <3>1. CASE buffer = <<>>
      <4>1. Len(<<>>) = 0
        OBVIOUS
      <4> QED
        BY <3>1, <4>1, Zenon
    <3>2. CASE Len(buffer) % 4 = 0
      BY <1>3, <3>2, LessThanGroup
    <3>3. buffer \in Seq(Character)
      BY <1>1, SeqMonotonic DEF Coded
    <3>4. ASSUME Decodable(buffer), Len(buffer) % 4 # 0 PROVE FALSE
      <4>1. /\ PaddingIn(buffer) # {} /\ FirstIn(PaddingIn(buffer)) % 4 = 1
            /\ FirstIn(PaddingIn(buffer)) > 1
        BY <3>3, <3>4, GroupsOrPadding
      <4> DEFINE first == FirstIn(PaddingIn(buffer))
      <4>2. first \in 1..Len(buffer) /\ first > 1 /\ first % 4 = 1
        BY <3>3, <4>1, FirstPadding
      <4> HIDE DEF first
      <4>3. first \in 2..3
        <5>1. Len(buffer) \in 0..3
          BY <1>3, Zenon
        <5> QED
          BY <4>2, <5>1
      <4>4. 2 % 4 = 2 /\ 3 % 4 = 3
        OBVIOUS
      <4>5. first = 2 \/ first = 3
        BY <4>3
      <4> QED
        BY <4>2, <4>4, <4>5
    <3> QED
      BY <2>1, <3>1, <3>2, <3>4
  <2>3. Handed = Len(Encoded)
    BY <1>2, <1>3, <2>2
  <2>4. CASE paddingComplete
    BY <1>1, <1>2, <2>4 DEF HandedOn
  <2>5. CASE ~paddingComplete
    <3>1. /\ \A i \in 1..Len(Encoded) : Encoded[i] = DIGIT
          /\ decoded = 3 * (Len(Encoded) \div 4) /\ Len(Encoded) % 4 = 0
      BY <1>1, <1>2, <1>3, <2>3, <2>5 DEF HandedOn
    <3> QED
      BY <1>2, <3>1, DigitsDecode
  <2> QED
    BY <2>4, <2>5
<1>6. phase' = "failed" => ~Decodable(Encoded) \/ HasPaddingGroup
  <2> SUFFICES ASSUME phase' = "failed" PROVE ~Decodable(Encoded) \/ HasPaddingGroup
    OBVIOUS
  <2>1. buffer # <<>>
    BY <1>1 DEF FinishPhase
  <2>2. Len(buffer) \in 1..3
    BY <1>1, <1>3, <2>1, EmptySeq
  <2>3. Len(Encoded) % 4 = Len(buffer) % 4
    <3>1. Len(buffer) \in Nat
      BY <1>3
    <3> QED
      BY <1>3, <3>1, WholeGroups
  <2>4. Len(Encoded) % 4 # 0
    <3>1. Len(buffer) % 4 # 0
      <4>1. Len(buffer) % 4 = 0 => Len(buffer) = 0
        BY <1>3, LessThanGroup
      <4> QED
        BY <2>2, <4>1
    <3> QED
      BY <2>3, <3>1
  <2> QED
    BY <1>2, <2>4, GroupsOrPadding DEF HasPaddingGroup
<1>7. /\ Encoded' = Encoded /\ DecodedLength(Encoded)' = DecodedLength(Encoded)
      /\ (Decodable(Encoded)' <=> Decodable(Encoded))
      /\ (HasPaddingGroup' <=> HasPaddingGroup)
  BY <1>1 DEF Encoded, DecodedLength, Decodable, PaddingFits, HasPaddingGroup, PaddingIn
<1>8. ChunksDecodeAsOne'
  BY <1>1, <1>5, <1>6, <1>7 DEF ChunksDecodeAsOne
<1> QED
  BY <1>1, <1>4, <1>8 DEF DecoderInv

LEMMA DecoderStep == DecoderInv /\ [Next]_vars => DecoderInv'
<1> SUFFICES ASSUME DecoderInv, [Next]_vars PROVE DecoderInv'
  OBVIOUS
<1>1. CASE UNCHANGED vars
  <2>1. Fed' = Fed /\ Encoded' = Encoded
    BY <1>1 DEF vars, Fed, Encoded
  <2> QED
    BY <1>1, <2>1 DEF vars, DecoderInv, Held, HandedOn, Handed, ChunksDecodeAsOne, HasPaddingGroup,
                      Decodable, PaddingFits, DecodedLength, PaddingIn
<1>2. ASSUME NEW upto \in (position + 1)..Len(text), Feed(upto) PROVE DecoderInv'
  BY <1>2, FeedKeeps
<1>3. CASE Finish
  BY <1>3, FinishKeeps
<1> QED
  BY <1>1, <1>2, <1>3 DEF Next, Done

(***************************************************************************)
(* For every text and every way to cut it into chunks: what is decoded is  *)
(* what decoding in one piece gives, and is refused when that is           *)
(* (_Base64Decoder, parser.py:51-79).                                      *)
(***************************************************************************)
THEOREM ChunkingCorrect == Spec => []ChunksDecodeAsOne
<1>1. DecoderInv => ChunksDecodeAsOne
  BY DEF DecoderInv
<1> QED
  BY <1>1, InitKeeps, DecoderStep, PTL DEF Spec

(***************************************************************************)
(* At every moment the complete groups are valid and decoded, and no more  *)
(* than the rest is kept, for every text (parser.py:58-75).                *)
(***************************************************************************)
THEOREM GroupsCorrect == Spec => []CompleteGroupsAreDecoded
<1>1. DecoderInv => CompleteGroupsAreDecoded
  <2> SUFFICES ASSUME DecoderInv, phase = "open"
               PROVE  /\ Decodable(Groups) /\ decoded = DecodedLength(Groups)
                      /\ Len(buffer) = Len(Fed) - Len(Groups)
    BY DEF CompleteGroupsAreDecoded
  <2>1. Held /\ HandedOn /\ text \in Seq(Character) /\ position \in 0..Len(text)
    BY DEF DecoderInv
  <2>2. Fed \in Seq(Character) /\ Len(Fed) \in Nat
    <3>1. Fed \in Seq(Coded)
      <4>1. position \in position..Len(text)
        BY <2>1
      <4> QED
        BY <2>1, <4>1, StrippedExtends DEF Fed
    <3> QED
      BY <3>1, SeqMonotonic, LenProperties DEF Coded
  <2>3. /\ Handed + Len(buffer) = Len(Fed) /\ Handed \in Nat /\ Handed % 4 = 0
        /\ Len(buffer) \in 0..3
    BY <2>1, <2>2 DEF Held, Handed
  <2>4. (Len(Fed) \div 4) * 4 = Handed
    BY <2>3, LessThanGroup
  <2>5. /\ Groups \in Seq(Character) /\ Len(Groups) = Handed
        /\ \A i \in 1..Handed : Groups[i] = Fed[i]
    <3>1. \A i \in 1..Handed : Fed[i] \in Character
      BY <2>2, <2>3, LenProperties
    <3> QED
      BY <2>3, <2>4, <3>1, SubSeqProperties DEF Groups
  <2>6. CASE paddingComplete
    <3>1. buffer = <<>> /\ Handed = Len(Fed)
      BY <2>1, <2>2, <2>3, <2>6 DEF HandedOn
    <3>2. Groups = Fed
      BY <2>2, <2>4, <3>1, SubSeqFull DEF Groups
    <3> QED
      BY <2>1, <2>2, <2>6, <3>1, <3>2 DEF HandedOn
  <2>7. CASE ~paddingComplete
    <3>1. /\ \A i \in 1..Len(Groups) : Groups[i] = DIGIT
          /\ decoded = 3 * (Len(Groups) \div 4) /\ Len(Groups) % 4 = 0
      BY <2>1, <2>3, <2>5, <2>7 DEF HandedOn
    <3> QED
      BY <2>2, <2>3, <2>5, <3>1, DigitsDecode
  <2> QED
    BY <2>6, <2>7
<1> QED
  BY <1>1, InitKeeps, DecoderStep, PTL DEF Spec
=============================================================================
