--------------------------- MODULE ReferenceProofs ---------------------------
(***************************************************************************)
(* The reading of a message that a parser without chunks would make        *)
(* (MultipartReference, from the fuzz target's list of events) as          *)
(* equations: where its tokens and segments are, what a segment means, and *)
(* what a window of its bytes, which is all that the parser ever sees,     *)
(* says of the segment it is in.                                           *)
(***************************************************************************)
EXTENDS FuzzTarget, MultipartParserProofs

-----------------------------------------------------------------------------
(* Induction, and functions defined by it.                                 *)

(* Induction over the naturals, said of a set.                             *)
LEMMA EveryNatural ==
  ASSUME NEW T \in SUBSET Nat, 0 \in T, \A n \in T : n + 1 \in T
  PROVE  T = Nat
<1> SUFFICES ASSUME Nat \ T # {} PROVE FALSE
  OBVIOUS
<1>1. PICK m \in Nat \ T : \A k \in Nat \ T : m <= k
  <2>1. Nat \ T \in SUBSET Nat
    OBVIOUS
  <2> QED
    BY <2>1, LeastElement
<1>2. m - 1 \in Nat /\ (m - 1) + 1 = m /\ ~(m <= m - 1)
  BY <1>1
<1> QED
  BY <1>1, <1>2

(* The beginning of an iteration.                                          *)
Iterates(g, n, T, start, step) ==
  /\ g \in [0..n -> T]
  /\ g[0] = start
  /\ \A i \in 0..(n - 1) : g[i + 1] = step[<<i + 1, g[i]>>]

(* An iteration of n steps can make one more.                              *)
LEMMA IterationGrows ==
  ASSUME NEW T, NEW start \in T, NEW step \in [Nat \X T -> T],
         NEW n \in Nat, NEW g, Iterates(g, n, T, start, step)
  PROVE  \E h : Iterates(h, n + 1, T, start, step)
<1> DEFINE next == step[<<n + 1, g[n]>>]
           h == [i \in 0..(n + 1) |-> IF i = n + 1 THEN next ELSE g[i]]
<1>1. next \in T
  <2>1. g[n] \in T /\ n + 1 \in Nat
    BY DEF Iterates
  <2>2. <<n + 1, g[n]>> \in Nat \X T
    BY <2>1
  <2> QED
    BY <2>2
<1> HIDE DEF next
<1>2. h \in [0..(n + 1) -> T]
  <2>1. \A i \in 0..(n + 1) : i # n + 1 => i \in 0..n
    OBVIOUS
  <2>2. \A i \in 0..n : g[i] \in T
    BY DEF Iterates
  <2> QED
    BY <1>1, <2>1, <2>2
<1>3. h[n + 1] = next /\ \A i \in 0..n : h[i] = g[i]
  OBVIOUS
<1>4. h[0] = start
  BY <1>3 DEF Iterates
<1> HIDE DEF h
<1>5. ASSUME NEW i \in 0..((n + 1) - 1) PROVE h[i + 1] = step[<<i + 1, h[i]>>]
  <2>1. i \in 0..n /\ h[i] = g[i]
    BY <1>3
  <2>2. CASE i = n
    BY <1>3, <2>1, <2>2 DEF next
  <2>3. CASE i # n
    <3>1. i \in 0..(n - 1) /\ i + 1 \in 0..n
      BY <2>1, <2>3
    <3>2. h[i + 1] = g[i + 1]
      BY <1>3, <3>1
    <3>3. g[i + 1] = step[<<i + 1, g[i]>>]
      BY <3>1 DEF Iterates
    <3> QED
      BY <2>1, <3>2, <3>3
  <2> QED
    BY <2>2, <2>3
<1> QED
  BY <1>2, <1>4, <1>5 DEF Iterates

(* Two iterations of the same step agree as far as both go.                *)
LEMMA IterationsAgree ==
  ASSUME NEW T, NEW start, NEW step, NEW n \in Nat, NEW m \in Nat, NEW g, NEW h,
         Iterates(g, n, T, start, step), Iterates(h, m, T, start, step)
  PROVE  \A i \in Nat : i <= n /\ i <= m => g[i] = h[i]
<1> DEFINE Same == {i \in Nat : i <= n /\ i <= m => g[i] = h[i]}
<1>1. Same \in SUBSET Nat /\ 0 \in Same
  BY DEF Iterates
<1>2. ASSUME NEW i \in Same PROVE i + 1 \in Same
  <2>1. i \in Nat /\ i + 1 \in Nat
    OBVIOUS
  <2> SUFFICES ASSUME i + 1 <= n, i + 1 <= m PROVE g[i + 1] = h[i + 1]
    BY <2>1
  <2>2. i \in 0..(n - 1) /\ i \in 0..(m - 1) /\ g[i] = h[i]
    BY <2>1
  <2> QED
    BY <2>2, Zenon DEF Iterates
<1> HIDE DEF Same
<1>3. Same = Nat
  BY <1>1, <1>2, EveryNatural
<1> QED
  BY <1>3 DEF Same

(* A step can be repeated for ever.                                        *)
IsIteration(g, T, start, step) ==
  /\ g \in [Nat -> T]
  /\ g[0] = start
  /\ \A n \in Nat : g[n + 1] = step[<<n + 1, g[n]>>]

(* A step that leads from T to T.                                          *)
IsStep(T, start, step) == start \in T /\ step \in [Nat \X T -> T]

(* Such a step has an iteration of every length at once.                   *)
LEMMA Iteration ==
  ASSUME NEW T, NEW start, NEW step, IsStep(T, start, step)
  PROVE  \E g : IsIteration(g, T, start, step)
<1>0. start \in T /\ step \in [Nat \X T -> T]
  BY DEF IsStep
<1> DEFINE Long == {n \in Nat : \E g : Iterates(g, n, T, start, step)}
           long(n) == CHOOSE g : Iterates(g, n, T, start, step)
           g == [n \in Nat |-> long(n)[n]]
<1>1. Long = Nat
  <2>1. 0 \in Long
    <3>1. Iterates([i \in 0..0 |-> start], 0, T, start, step)
      BY <1>0 DEF Iterates
    <3> QED
      BY <3>1
  <2>2. ASSUME NEW n \in Long PROVE n + 1 \in Long
    BY <1>0, IterationGrows
  <2>3. Long \in SUBSET Nat
    OBVIOUS
  <2> HIDE DEF Long
  <2> QED
    BY <2>1, <2>2, <2>3, EveryNatural
<1>2. \A n \in Nat : Iterates(long(n), n, T, start, step)
  BY <1>1
<1> HIDE DEF Long, long
<1>3. ASSUME NEW n \in Nat PROVE g[n] = long(n + 1)[n] /\ g[n] \in T
  <2>1. Iterates(long(n), n, T, start, step) /\ Iterates(long(n + 1), n + 1, T, start, step)
    BY <1>2
  <2>2. long(n)[n] = long(n + 1)[n]
    <3>1. n + 1 \in Nat /\ n <= n /\ n <= n + 1
      OBVIOUS
    <3> QED
      BY <2>1, <3>1, IterationsAgree
  <2>3. long(n)[n] \in T
    BY <2>1 DEF Iterates
  <2> QED
    BY <2>2, <2>3
<1>4. g[0] = start
  <2>1. long(0)[0] = start
    BY <1>2 DEF Iterates
  <2> QED
    BY <2>1
<1>5. ASSUME NEW n \in Nat PROVE g[n + 1] = step[<<n + 1, g[n]>>]
  <2>1. Iterates(long(n + 1), n + 1, T, start, step) /\ n \in 0..((n + 1) - 1)
    BY <1>2
  <2>2. long(n + 1)[n + 1] = step[<<n + 1, long(n + 1)[n]>>]
    BY <2>1 DEF Iterates
  <2>3. g[n + 1] = long(n + 1)[n + 1] /\ long(n + 1)[n] = g[n]
    BY <1>3
  <2> QED
    BY <2>2, <2>3
<1>6. g \in [Nat -> T]
  <2>1. \A n \in Nat : long(n)[n] \in T
    BY <1>3
  <2> QED
    BY <2>1
<1> HIDE DEF g
<1>7. IsIteration(g, T, start, step)
  BY <1>4, <1>5, <1>6 DEF IsIteration
<1> QED
  BY <1>7

-----------------------------------------------------------------------------
(* Slices.                                                                 *)

(* A slice has the bytes between its ends.                                 *)
LEMMA SliceProperties ==
  ASSUME NEW T, NEW s \in Seq(T), NEW a \in Nat, NEW b \in Nat, a <= b, b <= Len(s)
  PROVE  /\ Slice(s, a, b) \in Seq(T)
         /\ Len(Slice(s, a, b)) = b - a
         /\ \A i \in 1..(b - a) : Slice(s, a, b)[i] = s[a + i]
<1>1. Len(s) \in Nat /\ \A k \in (a + 1)..b : s[k] \in T
  <2>1. Len(s) \in Nat /\ \A k \in 1..Len(s) : s[k] \in T
    BY LenProperties
  <2> QED
    BY <2>1
<1>2. /\ SubSeq(s, a + 1, b) \in Seq(T)
      /\ Len(SubSeq(s, a + 1, b)) = IF a + 1 <= b THEN b - (a + 1) + 1 ELSE 0
      /\ \A i \in 1..(b - (a + 1) + 1) : SubSeq(s, a + 1, b)[i] = s[a + 1 + i - 1]
  <2>1. a + 1 \in Int /\ b \in Int
    OBVIOUS
  <2> QED
    BY <1>1, <2>1, SubSeqProperties
<1>3. \A i \in 1..(b - a) : a + 1 + i - 1 = a + i
  OBVIOUS
<1>4. b - (a + 1) + 1 = b - a /\ (~(a + 1 <= b) => b - a = 0)
  OBVIOUS
<1> QED
  BY <1>2, <1>3, <1>4 DEF Slice

(* A slice of a slice.                                                     *)
LEMMA SliceOfSlice ==
  ASSUME NEW T, NEW s \in Seq(T), NEW a \in Nat, NEW b \in Nat, a <= b, b <= Len(s),
         NEW c \in Nat, NEW d \in Nat, c <= d, d <= b - a
  PROVE  Slice(Slice(s, a, b), c, d) = Slice(s, a + c, a + d)
<1> DEFINE u == Slice(s, a, b)
<1>0. Len(s) \in Nat
  BY LenProperties
<1>1. u \in Seq(T) /\ Len(u) = b - a /\ \A i \in 1..(b - a) : u[i] = s[a + i]
  BY SliceProperties
<1> HIDE DEF u
<1>2. /\ Slice(u, c, d) \in Seq(T) /\ Len(Slice(u, c, d)) = d - c
      /\ \A i \in 1..(d - c) : Slice(u, c, d)[i] = u[c + i]
  <2>1. d <= Len(u) /\ u \in Seq(T)
    BY <1>1
  <2> QED
    BY <2>1, SliceProperties, Zenon
<1>3. /\ a + c \in Nat /\ a + d \in Nat /\ a + c <= a + d /\ a + d <= Len(s)
      /\ (a + d) - (a + c) = d - c
  BY <1>0
<1>4. /\ Slice(s, a + c, a + d) \in Seq(T) /\ Len(Slice(s, a + c, a + d)) = d - c
      /\ \A i \in 1..(d - c) : Slice(s, a + c, a + d)[i] = s[(a + c) + i]
  <2> DEFINE e == a + c
             f == a + d
  <2>1. e \in Nat /\ f \in Nat /\ e <= f /\ f <= Len(s) /\ f - e = d - c
    BY <1>3
  <2> HIDE DEF e, f
  <2>2. /\ Slice(s, e, f) \in Seq(T) /\ Len(Slice(s, e, f)) = f - e
        /\ \A i \in 1..(f - e) : Slice(s, e, f)[i] = s[e + i]
    BY <2>1, SliceProperties, ZenonT(60)
  <2> QED
    BY <2>1, <2>2, Zenon DEF e, f
<1>5. ASSUME NEW i \in 1..(d - c) PROVE Slice(u, c, d)[i] = Slice(s, a + c, a + d)[i]
  <2>1. c + i \in 1..(b - a) /\ a + (c + i) = (a + c) + i
    OBVIOUS
  <2> QED
    BY <1>1, <1>2, <1>4, <2>1
<1>6. Slice(u, c, d) = Slice(s, a + c, a + d)
  BY <1>2, <1>4, <1>5, SeqEqual
<1> QED
  BY <1>6 DEF u

(* Adjacent slices together.                                               *)
LEMMA SliceConcat ==
  ASSUME NEW T, NEW s \in Seq(T), NEW a \in Nat, NEW b \in Nat, NEW c \in Nat,
         a <= b, b <= c, c <= Len(s)
  PROVE  Slice(s, a, b) \o Slice(s, b, c) = Slice(s, a, c)
<1>0. Len(s) \in Nat
  BY LenProperties
<1>1. /\ Slice(s, a, b) \in Seq(T) /\ Len(Slice(s, a, b)) = b - a
      /\ \A i \in 1..(b - a) : Slice(s, a, b)[i] = s[a + i]
  <2>1. a <= b /\ b <= Len(s)
    BY <1>0
  <2> QED
    BY <2>1, SliceProperties
<1>2. /\ Slice(s, b, c) \in Seq(T) /\ Len(Slice(s, b, c)) = c - b
      /\ \A i \in 1..(c - b) : Slice(s, b, c)[i] = s[b + i]
  BY <1>0, SliceProperties, ZenonT(60)
<1>3. /\ Slice(s, a, c) \in Seq(T) /\ Len(Slice(s, a, c)) = c - a
      /\ \A i \in 1..(c - a) : Slice(s, a, c)[i] = s[a + i]
  <2>1. a <= c /\ c <= Len(s)
    BY <1>0
  <2> QED
    BY <2>1, SliceProperties
<1> DEFINE u == Slice(s, a, b)
           v == Slice(s, b, c)
<1>4. /\ u \o v \in Seq(T) /\ Len(u \o v) = Len(u) + Len(v)
      /\ \A i \in 1..(Len(u) + Len(v)) :
           (u \o v)[i] = IF i <= Len(u) THEN u[i] ELSE v[i - Len(u)]
  BY <1>1, <1>2, ConcatProperties
<1>5. Len(u) + Len(v) = c - a
  BY <1>1, <1>2
<1>6. ASSUME NEW i \in 1..(c - a) PROVE (u \o v)[i] = Slice(s, a, c)[i]
  <2>1. CASE i <= b - a
    <3>1. i \in 1..(b - a) /\ i <= Len(u) /\ i \in 1..(Len(u) + Len(v))
      BY <1>1, <1>5, <2>1
    <3>2. (u \o v)[i] = u[i]
      BY <1>4, <3>1
    <3> QED
      BY <1>1, <1>3, <3>1, <3>2
  <2>2. CASE ~(i <= b - a)
    <3> DEFINE j == i - (b - a)
    <3>1. j \in 1..(c - b) /\ b + j = a + i
      BY <2>2
    <3>2. (u \o v)[i] = v[j]
      BY <1>1, <1>4, <1>5, <2>2
    <3> HIDE DEF j
    <3>3. v[j] = s[b + j]
      BY <1>2, <3>1
    <3> QED
      BY <1>3, <3>1, <3>2, <3>3
  <2> QED
    BY <2>1, <2>2
<1> HIDE DEF u, v
<1>7. u \o v = Slice(s, a, c)
  BY <1>3, <1>4, <1>5, <1>6, SeqEqual
<1> QED
  BY <1>7 DEF u, v

(* From and Upto are slices, and so is the whole.                          *)
LEMMA FromIsSlice ==
  ASSUME NEW s, NEW i
  PROVE  From(s, i) = Slice(s, i, Len(s))
BY DEF From, Slice

(* Upto is a slice too.                                                    *)
LEMMA UptoIsSlice ==
  ASSUME NEW s, NEW i
  PROVE  Upto(s, i) = Slice(s, 0, i)
BY DEF Upto, Slice

(* The slice of everything is the sequence itself.                         *)
LEMMA SliceWhole ==
  ASSUME NEW T, NEW s \in Seq(T)
  PROVE  Slice(s, 0, Len(s)) = s
<1>1. SubSeq(s, 1, Len(s)) = s
  BY SubSeqFull
<1> QED
  BY <1>1 DEF Slice

(* A slice without extent is empty.                                        *)
LEMMA SliceEmpty ==
  ASSUME NEW T, NEW s \in Seq(T), NEW a \in Nat, a <= Len(s)
  PROVE  Slice(s, a, a) = <<>>
<1>1. Slice(s, a, a) \in Seq(T) /\ Len(Slice(s, a, a)) = a - a
  BY SliceProperties
<1> QED
  BY <1>1, EmptySeq

(* The ends of a slice.                                                    *)
LEMMA FromOfSlice ==
  ASSUME NEW T, NEW s \in Seq(T), NEW a \in Nat, NEW b \in Nat, a <= b, b <= Len(s),
         NEW c \in Nat, c <= b - a
  PROVE  From(Slice(s, a, b), c) = Slice(s, a + c, b)
<1>0. Len(s) \in Nat /\ b - a \in Nat /\ a + (b - a) = b
  BY LenProperties
<1>1. Len(Slice(s, a, b)) = b - a
  BY SliceProperties
<1>2. Slice(Slice(s, a, b), c, b - a) = Slice(s, a + c, a + (b - a))
  BY <1>0, SliceOfSlice
<1> QED
  BY <1>0, <1>1, <1>2, FromIsSlice

(* The first bytes of a slice.                                             *)
LEMMA UptoOfSlice ==
  ASSUME NEW T, NEW s \in Seq(T), NEW a \in Nat, NEW b \in Nat, a <= b, b <= Len(s),
         NEW c \in Nat, c <= b - a
  PROVE  Upto(Slice(s, a, b), c) = Slice(s, a, a + c)
<1>1. Slice(Slice(s, a, b), 0, c) = Slice(s, a + 0, a + c)
  BY SliceOfSlice
<1> QED
  BY <1>1, UptoIsSlice

(* A slice, and a number of its bytes.                                     *)
Within(s, a, b, c) ==
  s \in Seq(Byte) /\ a \in Nat /\ b \in Nat /\ a <= b /\ b <= Len(s) /\ c \in Nat /\ c <= b - a

(* What remains of a slice after c bytes, and those c bytes.               *)
LEMMA EndsOfSlice ==
  ASSUME NEW s, NEW a, NEW b, NEW c, Within(s, a, b, c)
  PROVE  /\ Slice(s, a, b) \in Seq(Byte) /\ Len(Slice(s, a, b)) = b - a
         /\ From(Slice(s, a, b), c) = Slice(s, a + c, b)
         /\ Upto(Slice(s, a, b), c) = Slice(s, a, a + c)
<1>1. s \in Seq(Byte) /\ a \in Nat /\ b \in Nat /\ a <= b /\ b <= Len(s) /\ c \in Nat /\ c <= b - a
  BY DEF Within
<1>2. Slice(s, a, b) \in Seq(Byte) /\ Len(Slice(s, a, b)) = b - a
  BY <1>1, SliceProperties
<1> QED
  BY <1>1, <1>2, FromOfSlice, UptoOfSlice

-----------------------------------------------------------------------------
(* Where something occurs in a slice.                                      *)

(* What occurs fits.                                                       *)
LEMMA OccurrenceRange ==
  ASSUME NEW s \in Seq(Byte), NEW p \in Seq(Byte), NEW i
  PROVE  i \in Occurrences(s, p)
           <=> /\ i \in Nat /\ i + Len(p) <= Len(s)
               /\ \A k \in 1..Len(p) : s[i + k] = p[k]
<1>1. Len(s) \in Nat /\ Len(p) \in Nat
  BY LenProperties
<1>2. i \in 0..(Len(s) - Len(p)) <=> i \in Nat /\ i + Len(p) <= Len(s)
  BY <1>1
<1> QED
  BY <1>2 DEF Occurrences

(* What occurs in a slice occurs in the sequence, and the reverse, inside  *)
(* it.                                                                     *)
LEMMA SliceOccurrences ==
  ASSUME NEW s \in Seq(Byte), NEW p \in Seq(Byte),
         NEW a \in Nat, NEW b \in Nat, a <= b, b <= Len(s), NEW i \in Int
  PROVE  i \in Occurrences(Slice(s, a, b), p)
           <=> i \in Nat /\ a + i \in Occurrences(s, p) /\ a + i + Len(p) <= b
<1> DEFINE u == Slice(s, a, b)
<1>1. Len(s) \in Nat /\ Len(p) \in Nat
  BY LenProperties
<1>2. u \in Seq(Byte) /\ Len(u) = b - a /\ \A k \in 1..(b - a) : u[k] = s[a + k]
  BY SliceProperties
<1> HIDE DEF u
<1>3. i \in Occurrences(u, p)
        <=> i \in Nat /\ i + Len(p) <= b - a /\ \A k \in 1..Len(p) : u[i + k] = p[k]
  BY <1>2, OccurrenceRange, ZenonT(60)
<1>4. a + i \in Occurrences(s, p)
        <=> /\ a + i \in Nat /\ a + i + Len(p) <= Len(s)
            /\ \A k \in 1..Len(p) : s[(a + i) + k] = p[k]
  BY OccurrenceRange, ZenonT(60)
<1>5. ASSUME i \in Nat, i + Len(p) <= b - a, NEW k \in 1..Len(p)
      PROVE  u[i + k] = s[(a + i) + k]
  <2>1. i + k \in 1..(b - a) /\ a + (i + k) = (a + i) + k
    BY <1>1, <1>5
  <2> QED
    BY <1>2, <2>1
<1>6. i \in Nat => a + i \in Nat
  OBVIOUS
<1>7. i + Len(p) <= b - a <=> a + i + Len(p) <= b
  BY <1>1
<1>8. a + i + Len(p) <= b => a + i + Len(p) <= Len(s)
  BY <1>1
<1>9. i \in Occurrences(u, p)
           <=> i \in Nat /\ a + i \in Occurrences(s, p) /\ a + i + Len(p) <= b
  BY <1>3, <1>4, <1>5, <1>6, <1>7, <1>8
<1> QED
  BY <1>9 DEF u

(* Searching a slice finds the first occurrence from its beginning on, if  *)
(* the slice reaches to its end.                                           *)
LEMMA FindInSlice ==
  ASSUME NEW s \in Seq(Byte), NEW p \in Seq(Byte),
         NEW a \in Nat, NEW b \in Nat, a <= b, b <= Len(s), NEW i \in Find(Slice(s, a, b), p)
  PROVE  /\ i \in Nat /\ a + i \in Occurrences(s, p) /\ a + i + Len(p) <= b
         /\ \A j \in Occurrences(s, p) : a <= j => a + i <= j
<1>0. Len(p) \in Nat /\ Len(s) \in Nat
  BY LenProperties
<1>1. i \in Occurrences(Slice(s, a, b), p) /\ \A j \in Occurrences(Slice(s, a, b), p) : i <= j
  BY DEF Find
<1>2. i \in Nat /\ i \in Int
  BY <1>1 DEF Occurrences
<1>3. a + i \in Occurrences(s, p) /\ a + i + Len(p) <= b
  BY <1>1, <1>2, SliceOccurrences
<1>4. ASSUME NEW j \in Occurrences(s, p), a <= j PROVE a + i <= j
  <2>1. j \in Nat /\ j - a \in Int /\ a + (j - a) = j /\ j - a \in Nat
    BY <1>4 DEF Occurrences
  <2>2. CASE j + Len(p) <= b
    <3>1. j - a \in Occurrences(Slice(s, a, b), p)
      BY <2>1, <2>2, SliceOccurrences
    <3>2. i <= j - a
      BY <1>1, <3>1
    <3> QED
      BY <1>2, <2>1, <3>2
  <2>3. CASE ~(j + Len(p) <= b)
    BY <1>0, <1>2, <1>3, <2>1, <2>3
  <2> QED
    BY <2>2, <2>3
<1> QED
  BY <1>2, <1>3, <1>4

(* What is not found in a slice does not occur in the sequence, between    *)
(* its ends.                                                               *)
LEMMA NotInSlice ==
  ASSUME NEW s \in Seq(Byte), NEW p \in Seq(Byte),
         NEW a \in Nat, NEW b \in Nat, a <= b, b <= Len(s), Find(Slice(s, a, b), p) = {}
  PROVE  \A j \in Occurrences(s, p) : a <= j => b < j + Len(p)
<1>0. Len(p) \in Nat
  BY LenProperties
<1>1. Occurrences(Slice(s, a, b), p) = {}
  BY FindIsComplete
<1>2. ASSUME NEW j \in Occurrences(s, p), a <= j, ~(b < j + Len(p)) PROVE FALSE
  <2>1. j \in Nat /\ j - a \in Int /\ a + (j - a) = j /\ j - a \in Nat
    BY <1>2 DEF Occurrences
  <2>2. j - a \in Occurrences(Slice(s, a, b), p)
    BY <1>0, <1>2, <2>1, SliceOccurrences
  <2> QED
    BY <1>1, <2>2
<1> QED
  BY <1>2

-----------------------------------------------------------------------------
(* The functions of the reference, by their equations.                     *)

(* The tokens are positions (SplitAtTokens).                               *)
LEMMA WithTokenType ==
  ASSUME NEW m, NEW n \in Nat, NEW before \in Seq(Nat)
  PROVE  WithTokenEndingAt(m, n, before) \in Seq(Nat)
<1>1. n - Len(Token) \in Int
  BY TokenProperties
<1>2. n - Len(Token) >= 0 => n - Len(Token) \in Nat
  BY <1>1
<1> QED
  BY <1>2, AppendProperties DEF WithTokenEndingAt

(* The tokens within n bytes, byte by byte.                                *)
LEMMA TokensWithinEquations ==
  ASSUME NEW m
  PROVE  /\ TokensWithin(m, 0) = <<>>
         /\ \A n \in Nat : /\ TokensWithin(m, n) \in Seq(Nat)
                           /\ TokensWithin(m, n + 1)
                                = WithTokenEndingAt(m, n + 1, TokensWithin(m, n))
<1> DEFINE T == Seq(Nat)
           step == [p \in Nat \X T |-> WithTokenEndingAt(m, p[1], p[2])]
           Recursion(f) == f = [n \in Nat |-> IF n = 0 THEN <<>>
                                              ELSE WithTokenEndingAt(m, n, f[n - 1])]
           tokens == CHOOSE f : Recursion(f)
<1>1. step \in [Nat \X T -> T] /\ <<>> \in T
  <2>1. \A p \in Nat \X T : p[1] \in Nat /\ p[2] \in T
    OBVIOUS
  <2> QED
    BY <2>1, WithTokenType
<1>2. \A n \in Nat, t \in T : step[<<n, t>>] = WithTokenEndingAt(m, n, t)
  OBVIOUS
<1> HIDE DEF step
<1>3. PICK g \in [Nat -> T] : g[0] = <<>> /\ \A n \in Nat : g[n + 1] = step[<<n + 1, g[n]>>]
  <2>1. IsStep(T, <<>>, step)
    BY <1>1 DEF IsStep
  <2>2. \E g : IsIteration(g, T, <<>>, step)
    BY <2>1, Iteration
  <2> QED
    BY <2>2 DEF IsIteration
<1>4. Recursion(g)
  <2>1. ASSUME NEW n \in Nat, n # 0 PROVE g[n] = WithTokenEndingAt(m, n, g[n - 1])
    <3>1. n - 1 \in Nat /\ (n - 1) + 1 = n
      BY <2>1
    <3>2. g[(n - 1) + 1] = step[<<(n - 1) + 1, g[n - 1]>>] /\ g[n - 1] \in T
      BY <1>3, <3>1
    <3> QED
      BY <1>2, <3>1, <3>2
  <2>2. g = [n \in Nat |-> g[n]]
    BY <1>3
  <2> QED
    BY <1>3, <2>1, <2>2
<1>5. Recursion(tokens)
  BY <1>4
<1>6. \A n \in Nat : TokensWithin(m, n) = tokens[n]
  BY DEF TokensWithin
<1> HIDE DEF tokens
<1>7. tokens[0] = <<>>
  BY <1>5
<1>8. ASSUME NEW n \in Nat PROVE tokens[n + 1] = WithTokenEndingAt(m, n + 1, tokens[n])
  <2>1. n + 1 \in Nat /\ n + 1 # 0 /\ (n + 1) - 1 = n
    OBVIOUS
  <2>2. tokens[n + 1] = WithTokenEndingAt(m, n + 1, tokens[(n + 1) - 1])
    BY <1>5, <2>1
  <2> QED
    BY <2>1, <2>2
<1> HIDE DEF Recursion
<1> DEFINE Typed == {n \in Nat : tokens[n] \in T}
<1>9. Typed = Nat
  <2>1. Typed \in SUBSET Nat /\ 0 \in Typed
    BY <1>1, <1>7
  <2>2. ASSUME NEW n \in Typed PROVE n + 1 \in Typed
    <3>1. n \in Nat /\ n + 1 \in Nat /\ tokens[n] \in T
      OBVIOUS
    <3>2. tokens[n + 1] \in T
      BY <1>8, <3>1, WithTokenType
    <3> QED
      BY <3>1, <3>2
  <2> HIDE DEF Typed
  <2> QED
    BY <2>1, <2>2, EveryNatural
<1>10. \A n \in Nat : tokens[n] \in T
  BY <1>9
<1> HIDE DEF Typed
<1>11. ASSUME NEW n \in Nat
       PROVE  /\ TokensWithin(m, n) \in Seq(Nat)
              /\ TokensWithin(m, n + 1) = WithTokenEndingAt(m, n + 1, TokensWithin(m, n))
  <2>1. n + 1 \in Nat
    OBVIOUS
  <2>2. TokensWithin(m, n) = tokens[n] /\ TokensWithin(m, n + 1) = tokens[n + 1]
    BY <1>6, <2>1
  <2> QED
    BY <1>8, <1>10, <2>2
<1> QED
  BY <1>6, <1>7, <1>11

(* A field of a line, or none.                                             *)
LEMMA FieldInType ==
  ASSUME NEW line \in Seq(Byte)
  PROVE  FieldIn(line) \in Headers
<1> DEFINE fields == {Field(line, separator) : separator \in Find(line, <<COLON>>)}
<1>1. \A field \in fields : field \in [name : Seq(Byte), value : Seq(Byte)]
  BY FieldProperties
<1>2. fields # {} => (CHOOSE field \in fields : TRUE) \in fields
  OBVIOUS
<1> HIDE DEF fields
<1>3. fields # {} => <<CHOOSE field \in fields : TRUE>> \in Headers
  BY <1>1, <1>2 DEF Headers
<1>4. <<>> \in Headers
  BY DEF Headers
<1> QED
  BY <1>3, <1>4 DEF FieldIn, fields

(* The beginning of a line is the greatest line end before its own, or 0.  *)
LEMMA LineStartProperties ==
  ASSUME NEW segment, NEW n \in Nat, n >= 2
  PROVE  LET start == LineStart(segment, n)
         IN  /\ start \in 0..(n - 2)
             /\ start = 0 \/ EndsLine(segment, start)
             /\ \A i \in 0..(n - 2) : EndsLine(segment, i) => i <= start
<1> DEFINE starts == {i \in 0..(n - 2) : i = 0 \/ EndsLine(segment, i)}
<1>1. n - 2 \in Nat /\ starts \in SUBSET (0..(n - 2)) /\ 0 \in starts
  OBVIOUS
<1>2. PICK i \in starts : \A j \in starts : j <= i
  <2> HIDE DEF starts
  <2> QED
    BY <1>1, GreatestElement
<1>3. LineStart(segment, n) = CHOOSE i_1 \in starts : \A j \in starts : j <= i_1
  BY DEF LineStart
<1>4. /\ LineStart(segment, n) \in starts
      /\ \A j \in starts : j <= LineStart(segment, n)
  <2> HIDE DEF starts
  <2> QED
    BY <1>2, <1>3
<1> QED
  BY <1>4

(* The field that ends with a byte is one field, or none.                  *)
LEMMA FieldEndingType ==
  ASSUME NEW segment \in Seq(Byte), NEW n \in Nat
  PROVE  FieldEndingAt(segment, n) \in Headers
<1>1. <<>> \in Headers
  BY DEF Headers
<1>2. ASSUME EndsLine(segment, n) PROVE FieldEndingAt(segment, n) \in Headers
  <2>1. n \in 2..Len(segment) /\ n >= 2 /\ n - 2 \in Nat /\ n - 2 <= Len(segment)
    BY <1>2, LenProperties DEF EndsLine
  <2>2. LineStart(segment, n) \in 0..(n - 2)
    BY <2>1, LineStartProperties
  <2> DEFINE start == LineStart(segment, n)
             end == n - 2
  <2>3. start \in Nat /\ end \in Nat /\ start <= end /\ end <= Len(segment)
    BY <2>1, <2>2
  <2> HIDE DEF start, end
  <2>4. Slice(segment, start, end) \in Seq(Byte)
    BY <2>3, SliceProperties
  <2> QED
    BY <1>2, <2>4, FieldInType DEF FieldEndingAt, start, end
<1> QED
  BY <1>1, <1>2 DEF FieldEndingAt

(* The fields within n bytes of a segment, byte by byte.                   *)
LEMMA FieldsWithinEquations ==
  ASSUME NEW segment \in Seq(Byte)
  PROVE  /\ FieldsWithin(segment, 0) = <<>>
         /\ \A n \in Nat : /\ FieldsWithin(segment, n) \in Headers
                           /\ FieldsWithin(segment, n + 1)
                                = FieldsWithin(segment, n) \o FieldEndingAt(segment, n + 1)
<1> DEFINE T == Headers
           step == [p \in Nat \X T |-> p[2] \o FieldEndingAt(segment, p[1])]
           Recursion(f) == f = [n \in Nat |-> IF n = 0 THEN <<>>
                                              ELSE f[n - 1] \o FieldEndingAt(segment, n)]
           fields == CHOOSE f : Recursion(f)
<1>0. \A n \in Nat, t \in T : t \o FieldEndingAt(segment, n) \in T
  BY FieldEndingType, ConcatProperties DEF Headers
<1>1. step \in [Nat \X T -> T] /\ <<>> \in T
  <2>1. \A p \in Nat \X T : p[1] \in Nat /\ p[2] \in T
    OBVIOUS
  <2>2. \A p \in Nat \X T : p[2] \o FieldEndingAt(segment, p[1]) \in T
    BY <1>0, <2>1
  <2>3. <<>> \in T
    BY DEF Headers
  <2> QED
    BY <2>2, <2>3
<1>2. \A n \in Nat, t \in T : step[<<n, t>>] = t \o FieldEndingAt(segment, n)
  OBVIOUS
<1> HIDE DEF step
<1>3. PICK g \in [Nat -> T] : g[0] = <<>> /\ \A n \in Nat : g[n + 1] = step[<<n + 1, g[n]>>]
  <2>1. IsStep(T, <<>>, step)
    BY <1>1 DEF IsStep
  <2>2. \E g : IsIteration(g, T, <<>>, step)
    BY <2>1, Iteration
  <2> QED
    BY <2>2 DEF IsIteration
<1>4. Recursion(g)
  <2>1. ASSUME NEW n \in Nat, n # 0 PROVE g[n] = g[n - 1] \o FieldEndingAt(segment, n)
    <3>1. n - 1 \in Nat /\ (n - 1) + 1 = n
      BY <2>1
    <3>2. g[(n - 1) + 1] = step[<<(n - 1) + 1, g[n - 1]>>] /\ g[n - 1] \in T
      BY <1>3, <3>1
    <3> QED
      BY <1>2, <3>1, <3>2
  <2>2. g = [n \in Nat |-> g[n]]
    BY <1>3
  <2> QED
    BY <1>3, <2>1, <2>2
<1>5. Recursion(fields)
  BY <1>4
<1>6. \A n \in Nat : FieldsWithin(segment, n) = fields[n]
  BY DEF FieldsWithin
<1> HIDE DEF fields
<1>7. fields[0] = <<>>
  BY <1>5
<1>8. ASSUME NEW n \in Nat PROVE fields[n + 1] = fields[n] \o FieldEndingAt(segment, n + 1)
  <2>1. n + 1 \in Nat /\ n + 1 # 0 /\ (n + 1) - 1 = n
    OBVIOUS
  <2>2. fields[n + 1] = fields[(n + 1) - 1] \o FieldEndingAt(segment, n + 1)
    BY <1>5, <2>1
  <2> QED
    BY <2>1, <2>2
<1> HIDE DEF Recursion
<1> DEFINE Typed == {n \in Nat : fields[n] \in T}
<1>9. Typed = Nat
  <2>1. Typed \in SUBSET Nat /\ 0 \in Typed
    BY <1>1, <1>7
  <2>2. ASSUME NEW n \in Typed PROVE n + 1 \in Typed
    <3>1. n \in Nat /\ n + 1 \in Nat /\ fields[n] \in T
      OBVIOUS
    <3>2. fields[n] \o FieldEndingAt(segment, n + 1) \in T
      BY <1>0, <3>1
    <3>3. fields[n + 1] \in T
      BY <1>8, <3>1, <3>2
    <3> QED
      BY <3>1, <3>3
  <2> HIDE DEF Typed
  <2> QED
    BY <2>1, <2>2, EveryNatural
<1>10. \A n \in Nat : fields[n] \in T
  BY <1>9
<1> HIDE DEF Typed
<1>11. ASSUME NEW n \in Nat
       PROVE  /\ FieldsWithin(segment, n) \in Headers
              /\ FieldsWithin(segment, n + 1)
                   = FieldsWithin(segment, n) \o FieldEndingAt(segment, n + 1)
  <2>1. n + 1 \in Nat
    OBVIOUS
  <2>2. FieldsWithin(segment, n) = fields[n] /\ FieldsWithin(segment, n + 1) = fields[n + 1]
    BY <1>6, <2>1
  <2> QED
    BY <1>8, <1>10, <2>2
<1> QED
  BY <1>6, <1>7, <1>11

-----------------------------------------------------------------------------
(* The tokens of a message.                                                *)

(* Something occurs where the slice of its length is it.                   *)
LEMMA OccurrenceIsSlice ==
  ASSUME NEW s \in Seq(Byte), NEW p \in Seq(Byte), NEW i \in Nat, i + Len(p) <= Len(s)
  PROVE  i \in Occurrences(s, p) <=> Slice(s, i, i + Len(p)) = p
<1>1. Len(p) \in Nat /\ Len(s) \in Nat
  BY LenProperties
<1> DEFINE j == i + Len(p)
<1>2. j \in Nat /\ i <= j /\ j <= Len(s) /\ j - i = Len(p)
  BY <1>1
<1> HIDE DEF j
<1>3. /\ Slice(s, i, j) \in Seq(Byte) /\ Len(Slice(s, i, j)) = j - i
      /\ \A k \in 1..(j - i) : Slice(s, i, j)[k] = s[i + k]
  BY <1>2, SliceProperties, Zenon
<1>4. ASSUME \A k \in 1..Len(p) : s[i + k] = p[k] PROVE Slice(s, i, j) = p
  <2>1. Len(Slice(s, i, j)) = Len(p) /\ \A k \in 1..Len(Slice(s, i, j)) : Slice(s, i, j)[k] = p[k]
    BY <1>2, <1>3, <1>4
  <2> QED
    BY <1>3, <2>1, SeqEqual
<1>5. ASSUME Slice(s, i, j) = p PROVE \A k \in 1..Len(p) : s[i + k] = p[k]
  BY <1>2, <1>3, <1>5
<1>6. i \in Occurrences(s, p) <=> \A k \in 1..Len(p) : s[i + k] = p[k]
  BY OccurrenceRange
<1> QED
  BY <1>4, <1>5, <1>6 DEF j

(* The tokens that end within the first n bytes, said without recursion:   *)
(* each is the first occurrence after the one before it.                   *)
TokensAre(m, tokens, n) ==
  /\ tokens \in Seq(Nat)
  /\ \A k \in 1..Len(tokens) :
       /\ tokens[k] \in Occurrences(m, Token)
       /\ SegmentStart(tokens, k) <= tokens[k]
       /\ tokens[k] + Len(Token) <= n
  /\ \A k \in 1..(Len(tokens) + 1) : \A i \in Occurrences(m, Token) :
       SegmentStart(tokens, k) <= i /\ i + Len(Token) <= n
         => k <= Len(tokens) /\ tokens[k] <= i

(* One more byte adds the token that ends with it, if that begins after    *)
(* the last one.                                                           *)
LEMMA TokensAreKept ==
  ASSUME NEW m \in Seq(Byte), NEW tokens, NEW n \in Nat, n + 1 <= Len(m), TokensAre(m, tokens, n)
  PROVE  TokensAre(m, WithTokenEndingAt(m, n + 1, tokens), n + 1)
<1> DEFINE L == Len(Token)
           index == n + 1 - L
           overlaps == tokens # <<>> /\ index < tokens[Len(tokens)] + L
           added == index >= 0 /\ Slice(m, index, n + 1) = Token /\ ~overlaps
<1>1. L \in Nat /\ L >= 3 /\ Token \in Seq(Byte) /\ Len(m) \in Nat
  BY TokenProperties, LenProperties
<1>2. /\ tokens \in Seq(Nat) /\ Len(tokens) \in Nat
      /\ \A k \in 1..Len(tokens) : tokens[k] \in Nat
      /\ tokens = <<>> <=> Len(tokens) = 0
  BY EmptySeq, LenProperties DEF TokensAre
<1>3. WithTokenEndingAt(m, n + 1, tokens) = IF added THEN Append(tokens, index) ELSE tokens
  BY DEF WithTokenEndingAt
<1>4. index >= 0 => (index \in Occurrences(m, Token) <=> Slice(m, index, n + 1) = Token)
  <2> SUFFICES ASSUME index >= 0
               PROVE  index \in Occurrences(m, Token) <=> Slice(m, index, n + 1) = Token
    OBVIOUS
  <2>1. index \in Nat /\ index + L = n + 1
    BY <1>1
  <2>2. index + Len(Token) <= Len(m)
    BY <2>1
  <2> HIDE DEF index
  <2>3. index \in Occurrences(m, Token) <=> Slice(m, index, index + Len(Token)) = Token
    BY <1>1, <2>1, <2>2, OccurrenceIsSlice
  <2> QED
    BY <2>1, <2>3
<1>5. \A i \in Occurrences(m, Token) : i \in Nat
  BY DEF Occurrences
<1>6. /\ index \in Int /\ index + L = n + 1
      /\ \A i \in Nat : i + L <= n + 1 => i + L <= n \/ i = index
  BY <1>1
<1>7. \A k \in 1..Len(tokens) : tokens[k] < index
  BY <1>1, <1>2 DEF TokensAre
<1>8. \A k \in 1..(Len(tokens) + 1) : k = 1 \/ (k - 1 \in 1..Len(tokens))
  BY <1>2
<1>9. \A k \in 1..(Len(tokens) + 1) : SegmentStart(tokens, k) \in Nat
  BY <1>1, <1>2, <1>8, SMTT(60) DEF SegmentStart
<1> HIDE DEF index
<1>10. CASE ~added
  <2>1. ASSUME NEW k \in 1..Len(tokens) PROVE tokens[k] + Len(Token) <= n + 1
    BY <1>1, <1>2, <2>1 DEF TokensAre
  <2>2. ASSUME NEW k \in 1..(Len(tokens) + 1), NEW i \in Occurrences(m, Token),
               SegmentStart(tokens, k) <= i, i + Len(Token) <= n + 1
        PROVE  k <= Len(tokens) /\ tokens[k] <= i
    <3>1. CASE i + L <= n
      BY <2>2, <3>1 DEF TokensAre
    <3>2. CASE i = index
      <4>1. i \in Nat /\ index >= 0
        BY <1>5, <3>2
      <4>2. overlaps
        BY <1>4, <1>10, <2>2, <3>2, <4>1
      <4>3. k # Len(tokens) + 1
        <5> SUFFICES ASSUME k = Len(tokens) + 1 PROVE FALSE
          OBVIOUS
        <5>1. k # 1 /\ k - 1 = Len(tokens)
          BY <1>2, <4>2
        <5>2. SegmentStart(tokens, k) = tokens[Len(tokens)] + L
          BY <5>1 DEF SegmentStart
        <5>3. tokens[Len(tokens)] \in Nat
          BY <1>2, <4>2
        <5> QED
          BY <1>1, <2>2, <3>2, <4>1, <4>2, <5>2, <5>3
      <4>4. k \in 1..Len(tokens)
        BY <1>2, <4>3
      <4>5. tokens[k] < index /\ tokens[k] \in Nat
        BY <1>2, <1>7, <4>4
      <4> QED
        BY <1>6, <3>2, <4>4, <4>5
    <3> QED
      BY <1>5, <1>6, <2>2, <3>1, <3>2
  <2> HIDE DEF overlaps
  <2> QED
    BY <1>2, <1>3, <1>10, <2>1, <2>2 DEF TokensAre
<1>11. CASE added
  <2> DEFINE new == Append(tokens, index)
  <2>1. index \in Nat /\ index \in Occurrences(m, Token)
    BY <1>4, <1>6, <1>11
  <2>2. /\ new \in Seq(Nat) /\ Len(new) = Len(tokens) + 1
        /\ \A k \in 1..Len(tokens) : new[k] = tokens[k]
        /\ new[Len(tokens) + 1] = index
    BY <1>2, <2>1, AppendProperties
  <2> HIDE DEF new
  <2>3. \A k \in 1..(Len(tokens) + 1) : SegmentStart(new, k) = SegmentStart(tokens, k)
    BY <1>8, <2>2 DEF SegmentStart
  <2>4. SegmentStart(new, Len(tokens) + 2) = index + L
    <3>1. Len(tokens) + 2 # 1 /\ (Len(tokens) + 2) - 1 = Len(tokens) + 1
      BY <1>2
    <3> QED
      BY <2>2, <3>1 DEF SegmentStart
  <2>5. SegmentStart(tokens, Len(tokens) + 1) <= index
    <3>1. CASE tokens = <<>>
      BY <1>2, <2>1, <3>1 DEF SegmentStart
    <3>2. CASE tokens # <<>>
      <4>1. Len(tokens) + 1 # 1 /\ (Len(tokens) + 1) - 1 = Len(tokens) /\ Len(tokens) \in 1..Len(tokens)
        BY <1>2, <3>2
      <4>2. SegmentStart(tokens, Len(tokens) + 1) = tokens[Len(tokens)] + L /\ tokens[Len(tokens)] \in Nat
        BY <1>2, <4>1 DEF SegmentStart
      <4>3. ~(index < tokens[Len(tokens)] + L)
        BY <1>11, <3>2
      <4> QED
        BY <1>1, <2>1, <4>2, <4>3
    <3> QED
      BY <3>1, <3>2
  <2>6. ASSUME NEW k \in 1..Len(new)
        PROVE  /\ new[k] \in Occurrences(m, Token)
               /\ SegmentStart(new, k) <= new[k]
               /\ new[k] + Len(Token) <= n + 1
    <3>1. CASE k \in 1..Len(tokens)
      <4>1. new[k] = tokens[k] /\ SegmentStart(new, k) = SegmentStart(tokens, k) /\ tokens[k] \in Nat
        BY <1>2, <2>2, <2>3, <3>1
      <4>2. /\ tokens[k] \in Occurrences(m, Token)
            /\ SegmentStart(tokens, k) <= tokens[k]
            /\ tokens[k] + Len(Token) <= n
        BY <3>1 DEF TokensAre
      <4> QED
        BY <1>1, <4>1, <4>2
    <3>2. CASE k = Len(tokens) + 1
      <4>1. k \in 1..(Len(tokens) + 1)
        BY <1>2, <3>2
      <4>2. new[k] = index /\ SegmentStart(new, k) = SegmentStart(tokens, Len(tokens) + 1)
        BY <2>2, <2>3, <3>2, <4>1
      <4> QED
        BY <1>1, <1>6, <2>1, <2>5, <4>2
    <3> QED
      BY <1>2, <2>2, <3>1, <3>2
  <2>7. ASSUME NEW k \in 1..(Len(new) + 1), NEW i \in Occurrences(m, Token),
               SegmentStart(new, k) <= i, i + Len(Token) <= n + 1
        PROVE  k <= Len(new) /\ new[k] <= i
    <3>0. i \in Nat
      BY <1>5
    <3>1. CASE k = Len(tokens) + 2
      <4>1. index + L <= i
        BY <2>4, <2>7, <3>1
      <4>2. i + L <= index + L
        BY <1>6, <2>7
      <4> QED
        BY <1>1, <2>1, <3>0, <4>1, <4>2
    <3>2. CASE k \in 1..(Len(tokens) + 1) /\ i + L <= n
      <4>1. SegmentStart(tokens, k) <= i
        BY <2>3, <2>7, <3>2
      <4>2. k <= Len(tokens) /\ tokens[k] <= i
        BY <3>2, <4>1 DEF TokensAre
      <4>3. k \in 1..Len(tokens)
        BY <1>2, <3>2, <4>2
      <4> QED
        BY <1>2, <2>2, <4>2, <4>3, SMTT(60)
    <3>3. CASE k \in 1..Len(tokens) /\ i = index
      <4>1. tokens[k] < index /\ new[k] = tokens[k] /\ tokens[k] \in Nat
        BY <1>2, <1>7, <2>2, <3>3
      <4> QED
        BY <1>2, <2>1, <2>2, <3>3, <4>1, SMTT(60)
    <3>4. CASE k = Len(tokens) + 1 /\ i = index
      BY <1>2, <2>1, <2>2, <3>4
    <3>5. i + L <= n \/ i = index
      BY <1>6, <2>7, <3>0
    <3>6. k = Len(tokens) + 2 \/ k = Len(tokens) + 1 \/ k \in 1..Len(tokens)
      BY <1>2, <2>2
    <3> QED
      BY <1>2, <3>1, <3>2, <3>3, <3>4, <3>5, <3>6
  <2> QED
    BY <1>3, <1>11, <2>2, <2>6, <2>7 DEF TokensAre, new
<1> QED
  BY <1>10, <1>11

(* The tokens of a whole message.                                          *)
LEMMA TokensOfMessage ==
  ASSUME NEW m \in Seq(Byte)
  PROVE  TokensAre(m, TokensOf(m), Len(m))
<1> DEFINE Good_(n) == n <= Len(m) => TokensAre(m, TokensWithin(m, n), n)
           All == {n \in Nat : Good_(n)}
<1>0. Len(m) \in Nat
  BY LenProperties
<1>1. 0 \in All
  <2>1. TokensWithin(m, 0) = <<>> /\ <<>> \in Seq(Nat) /\ Len(<<>>) = 0
    BY TokensWithinEquations
  <2>2. \A i \in Occurrences(m, Token) : i \in Nat
    BY DEF Occurrences
  <2>3. \A i \in Occurrences(m, Token) : ~(i + Len(Token) <= 0)
    BY <2>2, TokenProperties
  <2>4. TokensAre(m, <<>>, 0)
    BY <2>1, <2>3 DEF TokensAre
  <2> QED
    BY <2>1, <2>4
<1>2. ASSUME NEW n \in All PROVE n + 1 \in All
  <2>1. n \in Nat /\ n + 1 \in Nat /\ Good_(n)
    OBVIOUS
  <2> SUFFICES ASSUME n + 1 <= Len(m) PROVE TokensAre(m, TokensWithin(m, n + 1), n + 1)
    BY <2>1
  <2>2. n <= Len(m)
    BY <1>0, <2>1
  <2>3. TokensAre(m, TokensWithin(m, n), n)
    BY <2>1, <2>2
  <2>4. TokensAre(m, WithTokenEndingAt(m, n + 1, TokensWithin(m, n)), n + 1)
    BY <2>1, <2>3, TokensAreKept
  <2>5. TokensWithin(m, n + 1) = WithTokenEndingAt(m, n + 1, TokensWithin(m, n))
    BY <2>1, TokensWithinEquations
  <2> QED
    BY <2>4, <2>5
<1>3. All \in SUBSET Nat
  OBVIOUS
<1> HIDE DEF All
<1>4. All = Nat
  BY <1>1, <1>2, <1>3, EveryNatural
<1> USE DEF All
<1> QED
  BY <1>0, <1>4 DEF TokensOf

-----------------------------------------------------------------------------
(* The segments of a message, by number.                                   *)

(* How many segments, where each is, its bytes, and the bytes from it on.  *)
Count(m) == Len(TokensOf(m)) + 1
StartOf(m, k) == SegmentStart(TokensOf(m), k)
EndOf(m, k) == SegmentEnd(m, TokensOf(m), k)
PieceOf(m, k) == Slice(m, StartOf(m, k), EndOf(m, k))
RestOf(m, k) == From(m, StartOf(m, k))

(* The segments are the message without its tokens, in order.              *)
LEMMA SegmentBounds ==
  ASSUME NEW m \in Seq(Byte)
  PROVE  /\ Count(m) \in Nat /\ Count(m) >= 1
         /\ StartOf(m, 1) = 0
         /\ \A k \in 1..Count(m) :
              /\ StartOf(m, k) \in Nat /\ EndOf(m, k) \in Nat
              /\ StartOf(m, k) <= EndOf(m, k) /\ EndOf(m, k) <= Len(m)
              /\ k = Count(m) => EndOf(m, k) = Len(m)
              /\ k < Count(m) => /\ EndOf(m, k) \in Occurrences(m, Token)
                                 /\ EndOf(m, k) + Len(Token) <= Len(m)
                                 /\ StartOf(m, k + 1) = EndOf(m, k) + Len(Token)
<1> DEFINE tokens == TokensOf(m)
<1>1. TokensAre(m, tokens, Len(m)) /\ Len(m) \in Nat /\ Len(Token) \in Nat
  BY TokensOfMessage, LenProperties, TokenProperties
<1> HIDE DEF tokens
<1>2. tokens \in Seq(Nat) /\ Len(tokens) \in Nat /\ \A k \in 1..Len(tokens) : tokens[k] \in Nat
  BY <1>1, LenProperties DEF TokensAre
<1>3. /\ Count(m) = Len(tokens) + 1
      /\ \A k : StartOf(m, k) = IF k = 1 THEN 0 ELSE tokens[k - 1] + Len(Token)
      /\ \A k : EndOf(m, k) = IF k > Len(tokens) THEN Len(m) ELSE tokens[k]
  BY DEF Count, StartOf, EndOf, SegmentStart, SegmentEnd, tokens
<1>4. ASSUME NEW k \in 1..Count(m)
      PROVE  /\ StartOf(m, k) \in Nat /\ StartOf(m, k) <= Len(m)
             /\ k = Count(m) => EndOf(m, k) = Len(m)
             /\ k < Count(m) => /\ EndOf(m, k) = tokens[k] /\ k \in 1..Len(tokens)
  <2>1. k = Count(m) => EndOf(m, k) = Len(m)
    BY <1>2, <1>3
  <2>2. k < Count(m) => EndOf(m, k) = tokens[k] /\ k \in 1..Len(tokens)
    BY <1>2, <1>3
  <2>3. k # 1 => k - 1 \in 1..Len(tokens)
    BY <1>2, <1>3
  <2>4. StartOf(m, k) \in Nat /\ StartOf(m, k) <= Len(m)
    <3>1. CASE k = 1
      BY <1>1, <1>3, <3>1
    <3>2. CASE k # 1
      <4>1. StartOf(m, k) = tokens[k - 1] + Len(Token) /\ tokens[k - 1] \in Nat
        BY <1>2, <1>3, <2>3, <3>2
      <4>2. tokens[k - 1] + Len(Token) <= Len(m)
        BY <1>1, <2>3, <3>2 DEF TokensAre
      <4> QED
        BY <1>1, <4>1, <4>2
    <3> QED
      BY <3>1, <3>2
  <2> QED
    BY <2>1, <2>2, <2>4
<1>5. ASSUME NEW k \in 1..Count(m)
      PROVE  /\ EndOf(m, k) \in Nat
             /\ StartOf(m, k) <= EndOf(m, k) /\ EndOf(m, k) <= Len(m)
             /\ k < Count(m) => /\ EndOf(m, k) \in Occurrences(m, Token)
                                /\ EndOf(m, k) + Len(Token) <= Len(m)
                                /\ StartOf(m, k + 1) = EndOf(m, k) + Len(Token)
  <2>1. CASE k = Count(m)
    BY <1>1, <1>4, <2>1
  <2>2. CASE k # Count(m)
    <3>1. k \in 1..Len(tokens) /\ k < Count(m) /\ EndOf(m, k) = tokens[k]
      BY <1>2, <1>3, <1>4, <2>2
    <3>2. /\ tokens[k] \in Occurrences(m, Token) /\ SegmentStart(tokens, k) <= tokens[k]
          /\ tokens[k] + Len(Token) <= Len(m)
      BY <1>1, <3>1 DEF TokensAre
    <3>3. SegmentStart(tokens, k) = StartOf(m, k)
      BY DEF StartOf, tokens
    <3>4. k + 1 # 1 /\ (k + 1) - 1 = k
      OBVIOUS
    <3>5. StartOf(m, k + 1) = tokens[k] + Len(Token)
      BY <1>3, <3>4
    <3>6. tokens[k] \in Nat
      BY <1>2, <3>1
    <3> QED
      BY <1>1, <1>4, <3>1, <3>2, <3>3, <3>5, <3>6
  <2> QED
    BY <2>1, <2>2
<1> QED
  BY <1>2, <1>3, <1>4, <1>5

(* No token begins inside a segment: the first from its beginning on is    *)
(* the one that ends it.                                                   *)
LEMMA FirstToken ==
  ASSUME NEW m \in Seq(Byte), NEW k \in 1..Count(m), NEW i \in Occurrences(m, Token),
         StartOf(m, k) <= i
  PROVE  k < Count(m) /\ EndOf(m, k) <= i
<1>1. TokensAre(m, TokensOf(m), Len(m)) /\ Len(m) \in Nat /\ Len(TokensOf(m)) \in Nat
  BY TokensOfMessage, LenProperties DEF TokensAre
<1>2. i + Len(Token) <= Len(m)
  BY OccurrenceRange, TokenProperties
<1>3. k <= Len(TokensOf(m)) /\ TokensOf(m)[k] <= i
  BY <1>1, <1>2 DEF TokensAre, Count, StartOf
<1> QED
  BY <1>1, <1>3 DEF Count, EndOf, SegmentEnd

(* The pieces are what the message is split into.                          *)
LEMMA SplitIsPieces ==
  ASSUME NEW m \in Seq(Byte)
  PROVE  /\ SplitAtTokens(m) \in Seq(Seq(Byte))
         /\ Len(SplitAtTokens(m)) = Count(m)
         /\ \A k \in 1..Count(m) : SplitAtTokens(m)[k] = PieceOf(m, k)
<1>1. SplitAtTokens(m) = [k \in 1..Count(m) |-> PieceOf(m, k)]
  BY DEF SplitAtTokens, Count, PieceOf, StartOf, EndOf
<1>2. \A k \in 1..Count(m) : PieceOf(m, k) \in Seq(Byte)
  BY SegmentBounds, SliceProperties DEF PieceOf
<1>3. Count(m) \in Nat
  BY SegmentBounds
<1> QED
  BY <1>1, <1>2, <1>3

(* A piece is a sequence of bytes, as long as the segment.                 *)
LEMMA PieceProperties ==
  ASSUME NEW m \in Seq(Byte), NEW k \in 1..Count(m)
  PROVE  /\ PieceOf(m, k) \in Seq(Byte)
         /\ Len(PieceOf(m, k)) = EndOf(m, k) - StartOf(m, k)
         /\ Len(PieceOf(m, k)) \in Nat
         /\ \A i \in 1..(EndOf(m, k) - StartOf(m, k)) :
              PieceOf(m, k)[i] = m[StartOf(m, k) + i]
         /\ RestOf(m, k) \in Seq(Byte)
         /\ RestOf(m, k) = Slice(m, StartOf(m, k), Len(m))
         /\ Len(RestOf(m, k)) = Len(m) - StartOf(m, k)
         /\ \A i \in 1..(Len(m) - StartOf(m, k)) : RestOf(m, k)[i] = m[StartOf(m, k) + i]
<1> DEFINE S == StartOf(m, k)
           E == EndOf(m, k)
<1>1. S \in Nat /\ E \in Nat /\ S <= E /\ E <= Len(m) /\ Len(m) \in Nat
  BY SegmentBounds, LenProperties
<1>2. S <= Len(m) /\ Len(m) <= Len(m)
  BY <1>1
<1>3. PieceOf(m, k) = Slice(m, S, E) /\ RestOf(m, k) = Slice(m, S, Len(m))
  BY FromIsSlice DEF PieceOf, RestOf
<1> HIDE DEF S, E
<1>4. /\ Slice(m, S, E) \in Seq(Byte) /\ Len(Slice(m, S, E)) = E - S
      /\ \A i \in 1..(E - S) : Slice(m, S, E)[i] = m[S + i]
  BY <1>1, SliceProperties, Zenon
<1>5. /\ Slice(m, S, Len(m)) \in Seq(Byte) /\ Len(Slice(m, S, Len(m))) = Len(m) - S
      /\ \A i \in 1..(Len(m) - S) : Slice(m, S, Len(m))[i] = m[S + i]
  BY <1>1, <1>2, SliceProperties, Zenon
<1>6. E - S \in Nat
  BY <1>1
<1> QED
  BY <1>3, <1>4, <1>5, <1>6, Zenon DEF S, E

-----------------------------------------------------------------------------
(* The header block of a segment and what follows it.                      *)

(* The header block ends with the first empty line, and the body follows   *)
(* it.                                                                     *)
LEMMA BlockProperties ==
  ASSUME NEW segment \in Seq(Byte), NEW h \in HeaderEnds(segment)
  PROVE  /\ BlockLength(segment) = h + 4
         /\ h \in Nat /\ h + 4 <= Len(segment)
         /\ BodyOf(segment) \in Seq(Byte)
         /\ Len(BodyOf(segment)) = Len(segment) - (h + 4)
         /\ BodyOf(segment) = Slice(segment, h + 4, Len(segment))
<1>1. CRLF \o CRLF \in Seq(Byte) /\ Len(CRLF \o CRLF) = 4
  <2>1. CRLF \in Seq(Byte) /\ Len(CRLF) = 2
    BY TokenProperties
  <2>2. CRLF \o CRLF \in Seq(Byte) /\ Len(CRLF \o CRLF) = Len(CRLF) + Len(CRLF)
    BY <2>1, ConcatProperties, Zenon
  <2> QED
    BY <2>1, <2>2
<1>2. h \in Nat /\ h + 4 <= Len(segment) /\ Len(segment) \in Nat
  BY <1>1, FindProperties, LenProperties DEF HeaderEnds
<1>3. ASSUME NEW g \in HeaderEnds(segment) PROVE g = h
  <2> DEFINE w == CRLF \o CRLF
  <2>1. g \in Find(segment, w) /\ h \in Find(segment, w)
    BY DEF HeaderEnds
  <2> HIDE DEF w
  <2>2. /\ g \in Occurrences(segment, w) /\ h \in Occurrences(segment, w)
        /\ g <= h /\ h <= g
    BY <2>1 DEF Find
  <2>3. g \in Nat
    BY <2>2 DEF Occurrences
  <2> QED
    BY <1>2, <2>2, <2>3
<1>4. BlockLength(segment) = h + 4
  BY <1>3 DEF BlockLength
<1>5. h + 4 \in 0..Len(segment)
  BY <1>2
<1> QED
  BY <1>2, <1>4, <1>5, FromProperties, FromIsSlice DEF BodyOf

(* The line end that a body leaves to the token: CRLF, or either alone.    *)
LineEndLength(body) ==
  CASE Len(body) >= 2 /\ body[Len(body) - 1] = CR /\ body[Len(body)] = LF -> 2
    [] /\ ~(Len(body) >= 2 /\ body[Len(body) - 1] = CR /\ body[Len(body)] = LF)
       /\ Len(body) >= 1 /\ body[Len(body)] \in {CR, LF} -> 1
    [] OTHER -> 0

(* The bytes with a meaning are different bytes.                           *)
LEMMA BytesDiffer == CR # LF /\ DASH \notin {CR, LF, SP, TAB, COLON}
                                       /\ COLON \notin {CR, LF, SP, TAB}
                                       /\ LF \notin {SP, TAB} /\ CR \notin {SP, TAB}
<1>1. ASSUME NEW a, NEW b, NEW c, NEW d, NEW e, NEW f
      PROVE  Cardinality({a, b, c, d, e, f}) <= 6
  <2> DEFINE g == [i \in 1..6 |-> IF i = 1 THEN a ELSE IF i = 2 THEN b ELSE IF i = 3 THEN c
                                  ELSE IF i = 4 THEN d ELSE IF i = 5 THEN e ELSE f]
  <2>1. g[1] = a /\ g[2] = b /\ g[3] = c /\ g[4] = d /\ g[5] = e /\ g[6] = f
    OBVIOUS
  <2>2. g \in [1..6 -> {a, b, c, d, e, f}]
    OBVIOUS
  <2> HIDE DEF g
  <2>3. \A y \in {a, b, c, d, e, f} : \E i \in 1..6 : g[i] = y
    BY <2>1
  <2>4. ExistsSurjection(1..6, {a, b, c, d, e, f})
    BY <2>2, <2>3 DEF ExistsSurjection, Surjection
  <2> QED
    BY <2>4, FS_SurjCardinalityBound
<1>2. ASSUME NEW a, NEW b, NEW c, NEW d, NEW e, NEW f, SpecialBytes = {a, b, c, d, e, f}
      PROVE  FALSE
  <2>1. Cardinality(SpecialBytes) <= 6
    BY <1>1, <1>2
  <2> QED
    BY <2>1, ByteAssumption
<1>3. CR # LF
  <2> SUFFICES ASSUME CR = LF PROVE FALSE
    OBVIOUS
  <2>1. SpecialBytes = {LF, DASH, SP, TAB, FF, COLON}
    BY DEF SpecialBytes
  <2> QED
    BY <1>2, <2>1
<1>4. ASSUME DASH = CR \/ DASH = LF \/ DASH = SP \/ DASH = TAB \/ DASH = COLON PROVE FALSE
  <2>1. SpecialBytes = {CR, LF, SP, TAB, FF, COLON}
    BY <1>4 DEF SpecialBytes
  <2> QED
    BY <1>2, <2>1
<1>5. ASSUME COLON = CR \/ COLON = LF \/ COLON = SP \/ COLON = TAB PROVE FALSE
  <2>1. SpecialBytes = {CR, LF, DASH, SP, TAB, FF}
    BY <1>5 DEF SpecialBytes
  <2> QED
    BY <1>2, <2>1
<1>6. ASSUME LF = SP \/ LF = TAB PROVE FALSE
  <2>1. SpecialBytes = {CR, DASH, SP, TAB, FF, COLON}
    BY <1>6 DEF SpecialBytes
  <2> QED
    BY <1>2, <2>1
<1>7. ASSUME CR = SP \/ CR = TAB PROVE FALSE
  <2>1. SpecialBytes = {LF, DASH, SP, TAB, FF, COLON}
    BY <1>7 DEF SpecialBytes
  <2> QED
    BY <1>2, <2>1
<1> QED
  BY <1>3, <1>4, <1>5, <1>6, <1>7

(* What is left of a body without its line end.                            *)
LEMMA WithoutLineEndLength ==
  ASSUME NEW body \in Seq(Byte)
  PROVE  /\ Len(body) - LineEndLength(body) \in 0..Len(body)
         /\ WithoutLineEnd(body) = Upto(body, Len(body) - LineEndLength(body))
<1> DEFINE N == Len(body)
           ends == {<<>>, <<CR>>, <<LF>>, CRLF}
           cuts == {n \in 0..N : From(body, n) \in ends}
           c == N - LineEndLength(body)
<1>1. N \in Nat /\ \A i \in 1..N : body[i] \in Byte
  BY LenProperties
<1>2. LineEndLength(body) \in 0..2 /\ c \in 0..N
  BY <1>1 DEF LineEndLength
<1>3. ASSUME NEW n \in 0..N
      PROVE  /\ From(body, n) \in Seq(Byte) /\ Len(From(body, n)) = N - n
             /\ \A i \in 1..(N - n) : From(body, n)[i] = body[n + i]
  <2>1. n \in Nat /\ N \in Nat /\ n <= N /\ N <= Len(body)
    BY <1>1
  <2>2. From(body, n) = Slice(body, n, N)
    BY FromIsSlice
  <2> HIDE DEF N
  <2>3. /\ Slice(body, n, N) \in Seq(Byte) /\ Len(Slice(body, n, N)) = N - n
        /\ \A i \in 1..(N - n) : Slice(body, n, N)[i] = body[n + i]
    BY <2>1, SliceProperties, Zenon
  <2> QED
    BY <2>2, <2>3
<1>4. /\ <<>> \in Seq(Byte) /\ <<CR>> \in Seq(Byte) /\ <<LF>> \in Seq(Byte) /\ CRLF \in Seq(Byte)
      /\ Len(<<>>) = 0 /\ Len(<<CR>>) = 1 /\ Len(<<LF>>) = 1 /\ Len(CRLF) = 2
      /\ CRLF[1] = CR /\ CRLF[2] = LF
  BY ByteAssumption DEF SpecialBytes, CRLF
<1>5. ASSUME NEW n \in cuts PROVE c <= n
  <2>1. n \in 0..N /\ From(body, n) \in ends
    OBVIOUS
  <2>2. CASE From(body, n) = <<>>
    <3>1. N - n = 0
      BY <1>3, <1>4, <2>1, <2>2
    <3> QED
      BY <1>1, <1>2, <2>1, <3>1
  <2>3. CASE From(body, n) \in {<<CR>>, <<LF>>}
    <3>1. N - n = 1
      BY <1>3, <1>4, <2>1, <2>3
    <3>2. From(body, n)[1] = body[n + 1] /\ n + 1 = N
      BY <1>1, <1>3, <2>1, <3>1
    <3>3. body[N] \in {CR, LF}
      BY <2>3, <3>2
    <3>4. LineEndLength(body) >= 1
      BY <1>1, <2>1, <3>1, <3>3 DEF LineEndLength
    <3> QED
      BY <1>1, <1>2, <2>1, <3>1, <3>4
  <2>4. CASE From(body, n) = CRLF
    <3>1. N - n = 2
      BY <1>3, <1>4, <2>1, <2>4
    <3>2. n + 1 = N - 1 /\ n + 2 = N /\ 1 \in 1..(N - n) /\ 2 \in 1..(N - n)
      BY <1>1, <2>1, <3>1
    <3>3. From(body, n)[1] = body[N - 1] /\ From(body, n)[2] = body[N]
      BY <1>3, <2>1, <3>2
    <3>4. LineEndLength(body) = 2
      BY <1>1, <1>4, <2>1, <2>4, <3>1, <3>3 DEF LineEndLength
    <3> QED
      BY <1>1, <1>2, <2>1, <3>1, <3>4
  <2> QED
    BY <2>1, <2>2, <2>3, <2>4
<1>6. c \in cuts
  <2>1. From(body, c) \in Seq(Byte) /\ Len(From(body, c)) = LineEndLength(body)
    BY <1>1, <1>2, <1>3
  <2>2. \A i \in 1..LineEndLength(body) : From(body, c)[i] = body[c + i]
    <3>1. N - c = LineEndLength(body)
      BY <1>1, <1>2
    <3> HIDE DEF c
    <3>2. \A i \in 1..(N - c) : From(body, c)[i] = body[c + i]
      BY <1>2, <1>3
    <3> QED
      BY <3>1, <3>2
  <2>3. CASE LineEndLength(body) = 0
    BY <1>2, <2>1, <2>3, EmptySeq
  <2>4. CASE LineEndLength(body) = 1
    <3>1. body[N] \in {CR, LF} /\ N >= 1
      BY <1>1, <2>4 DEF LineEndLength
    <3>2. From(body, c)[1] = body[N]
      BY <1>1, <2>2, <2>4
    <3>3. From(body, c) = <<body[N]>>
      BY <1>1, <2>1, <2>4, <3>1, <3>2
    <3> QED
      BY <1>2, <3>1, <3>3
  <2>5. CASE LineEndLength(body) = 2
    <3>1. body[N - 1] = CR /\ body[N] = LF /\ N >= 2
      BY <1>1, <2>5 DEF LineEndLength
    <3>2. From(body, c)[1] = body[N - 1] /\ From(body, c)[2] = body[N]
      <4>1. c + 1 = N - 1 /\ c + 2 = N
        BY <1>1, <2>5
      <4> QED
        BY <2>2, <2>5, <4>1
    <3>3. \A i \in 1..2 : From(body, c)[i] = CRLF[i]
      BY <1>4, <3>1, <3>2
    <3>4. From(body, c) = CRLF
      BY <1>4, <2>1, <2>5, <3>3, SeqEqual
    <3> QED
      BY <1>2, <3>4
  <2> QED
    BY <1>2, <2>3, <2>4, <2>5
<1>7. WithoutLineEnd(body) = Upto(body, CHOOSE n \in cuts : \A o \in cuts : n <= o)
  BY DEF WithoutLineEnd
<1>8. \A n \in cuts : n \in Nat
  BY <1>1
<1> HIDE DEF cuts, c
<1>9. \A n \in cuts : (\A o \in cuts : n <= o) => n = c
  <2> SUFFICES ASSUME NEW n \in cuts, \A o \in cuts : n <= o PROVE n = c
    OBVIOUS
  <2> QED
    BY <1>5, <1>6, <1>8
<1>10. (CHOOSE n \in cuts : \A o \in cuts : n <= o) = c
  BY <1>5, <1>6, <1>9
<1> QED
  BY <1>2, <1>7, <1>10 DEF c

-----------------------------------------------------------------------------
(* What the segments mean.                                                 *)

(* What a segment means, and what those up to it mean.                     *)
EventsOf(m, k) == SegmentEvents(SplitAtTokens(m), k)
Told(m, k) == EventsWithin(SplitAtTokens(m), k)

(* The last segment is an undecided suffix, and the one before it is k.    *)
EndsUndecided(m, k) == k + 1 = Count(m) /\ IsIncomplete(PieceOf(m, k + 1))

(* What a segment means: nothing, a part, or a raw segment.                *)
LEMMA SegmentEventsCases ==
  ASSUME NEW m \in Seq(Byte), NEW k \in Nat
  PROVE  LET piece == PieceOf(m, k)
         IN  /\ k \notin 2..Count(m) => EventsOf(m, k) = <<>>
             /\ k \in 2..Count(m) /\ k = Count(m) /\ HeaderEnds(piece) # {} =>
                  EventsOf(m, k) = <<BeginOf(piece)>> \o DataOf(BodyOf(piece))
             /\ k \in 2..Count(m) /\ k = Count(m) /\ HeaderEnds(piece) = {} =>
                  EventsOf(m, k) = <<>>
             /\ k \in 2..Count(m) /\ k # Count(m) /\ IsPart(piece) =>
                  EventsOf(m, k) = <<BeginOf(piece)>> \o DataOf(WithoutLineEnd(BodyOf(piece)))
                                     \o <<EndEvent>>
             /\ k \in 2..Count(m) /\ k # Count(m) /\ ~IsPart(piece) /\ ~EndsUndecided(m, k) =>
                  EventsOf(m, k) = <<RawEvent>>
             /\ k \in 2..Count(m) /\ k # Count(m) /\ ~IsPart(piece) /\ EndsUndecided(m, k) =>
                  EventsOf(m, k) = <<>>
<1> DEFINE segments == SplitAtTokens(m)
           piece == PieceOf(m, k)
<1>1. Len(segments) = Count(m) /\ Count(m) \in Nat
  BY SplitIsPieces, SegmentBounds
<1>2. k \in 2..Count(m) => segments[k] = piece
  BY <1>1, SplitIsPieces
<1>3. k + 1 = Count(m) => segments[k + 1] = PieceOf(m, k + 1)
  <2> SUFFICES ASSUME k + 1 = Count(m) PROVE segments[k + 1] = PieceOf(m, k + 1)
    OBVIOUS
  <2>1. k + 1 \in 1..Count(m)
    BY <1>1
  <2> HIDE DEF segments
  <2> QED
    BY <2>1, SplitIsPieces DEF segments
<1>4. EndsUndecided(m, k)
        <=> k + 1 = Len(segments) /\ IsIncomplete(segments[k + 1])
  BY <1>1, <1>3 DEF EndsUndecided
<1> HIDE DEF segments, piece
<1>5. k \notin 2..Count(m) => SegmentEvents(segments, k) = <<>>
  BY <1>1 DEF SegmentEvents
<1>6. k \in 2..Count(m) /\ k = Count(m) /\ HeaderEnds(piece) # {} =>
        SegmentEvents(segments, k) = <<BeginOf(piece)>> \o DataOf(BodyOf(piece))
  BY <1>1, <1>2 DEF SegmentEvents
<1>7. k \in 2..Count(m) /\ k = Count(m) /\ HeaderEnds(piece) = {} =>
        SegmentEvents(segments, k) = <<>>
  BY <1>1, <1>2 DEF SegmentEvents
<1>8. k \in 2..Count(m) /\ k # Count(m) /\ IsPart(piece) =>
        SegmentEvents(segments, k)
          = <<BeginOf(piece)>> \o DataOf(WithoutLineEnd(BodyOf(piece))) \o <<EndEvent>>
  BY <1>1, <1>2 DEF SegmentEvents
<1>9. k \in 2..Count(m) /\ k # Count(m) /\ ~IsPart(piece) /\ ~EndsUndecided(m, k) =>
        SegmentEvents(segments, k) = <<RawEvent>>
  BY <1>1, <1>2, <1>4 DEF SegmentEvents
<1>10. k \in 2..Count(m) /\ k # Count(m) /\ ~IsPart(piece) /\ EndsUndecided(m, k) =>
         SegmentEvents(segments, k) = <<>>
  BY <1>1, <1>2, <1>4 DEF SegmentEvents
<1> QED
  BY <1>5, <1>6, <1>7, <1>8, <1>9, <1>10 DEF EventsOf, segments, piece

(* The Begin of a segment with a header block is an event.                 *)
LEMMA BeginOfType ==
  ASSUME NEW segment \in Seq(Byte), HeaderEnds(segment) # {}
  PROVE  /\ BeginOf(segment) \in Event /\ BeginOf(segment).kind = "Begin"
         /\ BodyOf(segment) \in Seq(Byte)
         /\ WithoutLineEnd(BodyOf(segment)) \in Seq(Byte)
         /\ BlockLength(segment) - 2 \in Nat
<1>1. PICK h \in HeaderEnds(segment) : TRUE
  OBVIOUS
<1>2. BlockLength(segment) = h + 4 /\ h \in Nat /\ BodyOf(segment) \in Seq(Byte)
  BY BlockProperties
<1>3. BlockLength(segment) - 2 \in Nat
  BY <1>2
<1>4. FieldsWithin(segment, BlockLength(segment) - 2) \in Headers
  BY <1>3, FieldsWithinEquations
<1>5. WithoutLineEnd(BodyOf(segment)) \in Seq(Byte)
  <2>1. Len(BodyOf(segment)) - LineEndLength(BodyOf(segment)) \in 0..Len(BodyOf(segment))
    BY <1>2, WithoutLineEndLength
  <2> QED
    BY <1>2, <2>1, WithoutLineEndLength, UptoProperties
<1>6. BeginOf(segment) \in Event
  BY <1>4, EventTypes DEF BeginOf
<1> QED
  BY <1>2, <1>3, <1>5, <1>6 DEF BeginOf, BeginEvent

(* A segment means a sequence of events.                                   *)
LEMMA EventsOfType ==
  ASSUME NEW m \in Seq(Byte), NEW k \in Nat
  PROVE  EventsOf(m, k) \in Seq(Event)
<1> DEFINE piece == PieceOf(m, k)
<1>0. <<>> \in Seq(Event) /\ <<RawEvent>> \in Seq(Event) /\ <<EndEvent>> \in Seq(Event)
  BY EventTypes
<1>1. CASE k \notin 2..Count(m) \/ HeaderEnds(piece) = {}
  <2>1. HeaderEnds(piece) = {} => ~IsPart(piece)
    BY DEF IsPart
  <2> HIDE DEF piece
  <2>2. EventsOf(m, k) \in {<<>>, <<RawEvent>>}
    BY <1>1, <2>1, SegmentEventsCases DEF piece
  <2> QED
    BY <1>0, <2>2
<1>2. CASE k \in 2..Count(m) /\ HeaderEnds(piece) # {}
  <2>1. k \in 1..Count(m)
    BY <1>2, SegmentBounds
  <2>2. piece \in Seq(Byte)
    BY <2>1, PieceProperties
  <2> HIDE DEF piece
  <2>3. /\ BeginOf(piece) \in Event /\ BodyOf(piece) \in Seq(Byte)
        /\ WithoutLineEnd(BodyOf(piece)) \in Seq(Byte)
    BY <1>2, <2>2, BeginOfType
  <2>4. /\ <<BeginOf(piece)>> \in Seq(Event) /\ DataOf(BodyOf(piece)) \in Seq(Event)
        /\ DataOf(WithoutLineEnd(BodyOf(piece))) \in Seq(Event)
    BY <2>3, DataOfType
  <2>5. /\ <<BeginOf(piece)>> \o DataOf(BodyOf(piece)) \in Seq(Event)
        /\ <<BeginOf(piece)>> \o DataOf(WithoutLineEnd(BodyOf(piece))) \in Seq(Event)
    BY <2>4, ConcatProperties
  <2>6. <<BeginOf(piece)>> \o DataOf(WithoutLineEnd(BodyOf(piece))) \o <<EndEvent>> \in Seq(Event)
    BY <1>0, <2>5, ConcatProperties
  <2>7. \/ EventsOf(m, k) \in {<<>>, <<RawEvent>>}
        \/ EventsOf(m, k) = <<BeginOf(piece)>> \o DataOf(BodyOf(piece))
        \/ EventsOf(m, k)
             = <<BeginOf(piece)>> \o DataOf(WithoutLineEnd(BodyOf(piece))) \o <<EndEvent>>
    BY <1>2, SegmentEventsCases DEF piece
  <2> QED
    BY <1>0, <2>5, <2>6, <2>7
<1> QED
  BY <1>1, <1>2

(* What n segments mean, segment by segment; all of them mean the message. *)
LEMMA ToldEquations ==
  ASSUME NEW m \in Seq(Byte)
  PROVE  /\ Told(m, 0) = <<>>
         /\ \A n \in Nat : /\ Told(m, n) \in Seq(Event)
                           /\ Told(m, n + 1) = Told(m, n) \o EventsOf(m, n + 1)
         /\ Reference(m) = Told(m, Count(m))
<1> DEFINE T == Seq(Event)
           segments == SplitAtTokens(m)
           step == [p \in Nat \X T |-> p[2] \o EventsOf(m, p[1])]
           Recursion(f) == f = [n \in Nat |-> IF n = 0 THEN <<>>
                                              ELSE f[n - 1] \o SegmentEvents(segments, n)]
           told == CHOOSE f : Recursion(f)
<1>0. \A n \in Nat, t \in T : t \o EventsOf(m, n) \in T
  BY EventsOfType, ConcatProperties
<1>1. step \in [Nat \X T -> T] /\ <<>> \in T
  <2>1. \A p \in Nat \X T : p[1] \in Nat /\ p[2] \in T
    OBVIOUS
  <2>2. \A p \in Nat \X T : p[2] \o EventsOf(m, p[1]) \in T
    BY <1>0, <2>1
  <2> QED
    BY <2>2
<1>2. \A n \in Nat, t \in T : step[<<n, t>>] = t \o EventsOf(m, n)
  OBVIOUS
<1> HIDE DEF step
<1>3. PICK g \in [Nat -> T] : g[0] = <<>> /\ \A n \in Nat : g[n + 1] = step[<<n + 1, g[n]>>]
  <2>1. IsStep(T, <<>>, step)
    BY <1>1 DEF IsStep
  <2>2. \E g : IsIteration(g, T, <<>>, step)
    BY <2>1, Iteration
  <2> QED
    BY <2>2 DEF IsIteration
<1>4. Recursion(g)
  <2>1. ASSUME NEW n \in Nat, n # 0 PROVE g[n] = g[n - 1] \o SegmentEvents(segments, n)
    <3>1. n - 1 \in Nat /\ (n - 1) + 1 = n
      BY <2>1
    <3>2. g[(n - 1) + 1] = step[<<(n - 1) + 1, g[n - 1]>>] /\ g[n - 1] \in T
      BY <1>3, <3>1
    <3> QED
      BY <1>2, <3>1, <3>2 DEF EventsOf
  <2>2. g = [n \in Nat |-> g[n]]
    BY <1>3
  <2> HIDE DEF segments
  <2> QED
    BY <1>3, <2>1, <2>2
<1>5. Recursion(told)
  BY <1>4
<1>6. \A n \in Nat : Told(m, n) = told[n]
  BY DEF Told, EventsWithin
<1> HIDE DEF told, segments
<1>7. told[0] = <<>>
  BY <1>5
<1>8. ASSUME NEW n \in Nat PROVE told[n + 1] = told[n] \o EventsOf(m, n + 1)
  <2>1. n + 1 \in Nat /\ n + 1 # 0 /\ (n + 1) - 1 = n
    OBVIOUS
  <2>2. told[n + 1] = told[(n + 1) - 1] \o SegmentEvents(segments, n + 1)
    BY <1>5, <2>1
  <2> QED
    BY <2>1, <2>2 DEF EventsOf, segments
<1> HIDE DEF Recursion
<1> DEFINE Typed == {n \in Nat : told[n] \in T}
<1>9. Typed = Nat
  <2>1. Typed \in SUBSET Nat /\ 0 \in Typed
    BY <1>1, <1>7
  <2>2. ASSUME NEW n \in Typed PROVE n + 1 \in Typed
    <3>1. n \in Nat /\ n + 1 \in Nat /\ told[n] \in T
      OBVIOUS
    <3>2. told[n] \o EventsOf(m, n + 1) \in T
      BY <1>0, <3>1
    <3>3. told[n + 1] \in T
      BY <1>8, <3>1, <3>2
    <3> QED
      BY <3>1, <3>3
  <2> HIDE DEF Typed
  <2> QED
    BY <2>1, <2>2, EveryNatural
<1>10. \A n \in Nat : told[n] \in T
  BY <1>9
<1> HIDE DEF Typed
<1>11. ASSUME NEW n \in Nat
       PROVE  Told(m, n) \in Seq(Event) /\ Told(m, n + 1) = Told(m, n) \o EventsOf(m, n + 1)
  <2>1. n + 1 \in Nat
    OBVIOUS
  <2>2. Told(m, n) = told[n] /\ Told(m, n + 1) = told[n + 1]
    BY <1>6, <2>1
  <2> QED
    BY <1>8, <1>10, <2>2
<1>12. Reference(m) = Told(m, Count(m))
  BY SplitIsPieces DEF Reference, Told
<1> QED
  BY <1>6, <1>7, <1>11, <1>12

(* Nothing that has been told is taken back.                               *)
LEMMA ToldGrows ==
  ASSUME NEW m \in Seq(Byte), NEW k \in Nat, NEW n \in Nat, k <= n
  PROVE  \E more \in Seq(Event) : Told(m, n) = Told(m, k) \o more
<1> DEFINE All == {i \in Nat : k <= i => \E more \in Seq(Event) : Told(m, i) = Told(m, k) \o more}
<1>1. 0 \in All
  <2> SUFFICES ASSUME k <= 0 PROVE \E more \in Seq(Event) : Told(m, 0) = Told(m, k) \o more
    OBVIOUS
  <2>1. k = 0 /\ <<>> \in Seq(Event)
    OBVIOUS
  <2>2. Told(m, k) \o <<>> = Told(m, k)
    BY ToldEquations, ConcatEmptySeq
  <2> QED
    BY <2>1, <2>2
<1>2. ASSUME NEW i \in All PROVE i + 1 \in All
  <2>1. i \in Nat /\ i + 1 \in Nat
    OBVIOUS
  <2> SUFFICES ASSUME k <= i + 1
               PROVE  \E more \in Seq(Event) : Told(m, i + 1) = Told(m, k) \o more
    BY <2>1
  <2>2. CASE k = i + 1
    <3>1. Told(m, k) \o <<>> = Told(m, k) /\ <<>> \in Seq(Event)
      BY ToldEquations, ConcatEmptySeq
    <3> QED
      BY <2>2, <3>1
  <2>3. CASE k # i + 1
    <3>1. k <= i
      BY <2>1, <2>3
    <3>2. PICK more \in Seq(Event) : Told(m, i) = Told(m, k) \o more
      BY <3>1
    <3>3. EventsOf(m, i + 1) \in Seq(Event) /\ Told(m, k) \in Seq(Event)
      BY <2>1, EventsOfType, ToldEquations
    <3>4. Told(m, i + 1) = (Told(m, k) \o more) \o EventsOf(m, i + 1)
      BY <2>1, <3>2, ToldEquations
    <3>5. (Told(m, k) \o more) \o EventsOf(m, i + 1) = Told(m, k) \o (more \o EventsOf(m, i + 1))
      BY <3>3, ConcatAssociative, SMTT(60)
    <3>6. more \o EventsOf(m, i + 1) \in Seq(Event)
      BY <3>3, ConcatProperties
    <3> QED
      BY <3>4, <3>5, <3>6
  <2> QED
    BY <2>2, <2>3
<1>3. All \in SUBSET Nat
  OBVIOUS
<1> HIDE DEF All
<1>4. All = Nat
  BY <1>1, <1>2, <1>3, EveryNatural
<1> USE DEF All
<1> QED
  BY <1>4

-----------------------------------------------------------------------------
(* Joining adjacent Data events.                                           *)

(* An event is joined to the one before it only when both are Data.        *)
LEMMA AppendEventCases ==
  ASSUME NEW output \in Seq(Event), NEW event \in Event
  PROVE  /\ AppendEvent(output, event) \in Seq(Event)
         /\ ~(/\ Len(output) > 0 /\ event.kind = "Data" /\ output[Len(output)].kind = "Data")
              => AppendEvent(output, event) = Append(output, event)
         /\ Len(output) > 0 /\ event.kind = "Data" /\ output[Len(output)].kind = "Data"
              => AppendEvent(output, event)
                   = [output EXCEPT ![Len(output)] =
                        DataEvent(output[Len(output)].data \o event.data)]
<1> DEFINE n == Len(output)
           joins == n > 0 /\ event.kind = "Data" /\ output[n].kind = "Data"
<1>1. n \in Nat /\ (n > 0 => n \in 1..n /\ output[n] \in Event)
  BY LenProperties
<1>2. CASE ~joins
  BY <1>2, AppendProperties DEF AppendEvent
<1>3. CASE joins
  <2>1. ASSUME NEW e \in Event, e.kind = "Data"
        PROVE  e \in [kind : {"Data"}, data : Seq(Byte)]
    BY <2>1 DEF Event
  <2>2. /\ output[n] \in [kind : {"Data"}, data : Seq(Byte)]
        /\ event \in [kind : {"Data"}, data : Seq(Byte)]
    BY <1>1, <1>3, <2>1
  <2>3. output[n].data \o event.data \in Seq(Byte)
    BY <2>2, ConcatProperties
  <2>4. [output[n] EXCEPT !.data = output[n].data \o event.data]
          = DataEvent(output[n].data \o event.data)
    <3>1. ASSUME NEW e \in [kind : {"Data"}, data : Seq(Byte)], NEW y \in Seq(Byte)
          PROVE  [e EXCEPT !.data = y] = [kind |-> "Data", data |-> y]
      OBVIOUS
    <3>2. \A e \in [kind : {"Data"}, data : Seq(Byte)], y \in Seq(Byte) :
            [e EXCEPT !.data = y] = [kind |-> "Data", data |-> y]
      BY <3>1
    <3> QED
      BY <2>2, <2>3, <3>2, Zenon DEF DataEvent
  <2>5. AppendEvent(output, event)
          = [output EXCEPT ![n] = DataEvent(output[n].data \o event.data)]
    BY <1>3, <2>4 DEF AppendEvent
  <2>6. DataEvent(output[n].data \o event.data) \in Event
    BY <2>3, EventTypes
  <2> HIDE DEF n
  <2>7. [output EXCEPT ![n] = DataEvent(output[n].data \o event.data)] \in Seq(Event)
    BY <1>1, <1>3, <2>6, ExceptSeq DEF n
  <2> QED
    BY <1>3, <2>5, <2>7 DEF n
<1> QED
  BY <1>2, <1>3

(* What the recursive function of AppendEvents is like.                    *)
Joins(f, output, produced) ==
  /\ f[0] = output
  /\ \A n \in 0..Len(produced) : f[n] \in Seq(Event)
  /\ \A n \in Nat : n + 1 <= Len(produced) => f[n + 1] = AppendEvent(f[n], produced[n + 1])

(* AppendEvents appends event by event.                                    *)
LEMMA AppendEventsJoins ==
  ASSUME NEW output \in Seq(Event), NEW produced \in Seq(Event)
  PROVE  \E f : Joins(f, output, produced) /\ AppendEvents(output, produced) = f[Len(produced)]
<1> DEFINE T == Seq(Event)
           N == Len(produced)
           step == [p \in Nat \X T |->
                      IF p[1] \in 1..N THEN AppendEvent(p[2], produced[p[1]]) ELSE p[2]]
           Recursion(f) == f = [n \in 0..N |-> IF n = 0 THEN output
                                               ELSE AppendEvent(f[n - 1], produced[n])]
           joined == CHOOSE f : Recursion(f)
<1>0. N \in Nat /\ \A n \in 1..N : produced[n] \in Event
  BY LenProperties
<1>1. step \in [Nat \X T -> T] /\ output \in T
  <2>1. \A p \in Nat \X T : p[1] \in Nat /\ p[2] \in T
    OBVIOUS
  <2>2. \A p \in Nat \X T : p[1] \in 1..N => AppendEvent(p[2], produced[p[1]]) \in T
    BY <1>0, <2>1, AppendEventCases
  <2> QED
    BY <2>1, <2>2
<1>2. \A n \in 1..N, t \in T : step[<<n, t>>] = AppendEvent(t, produced[n])
  BY <1>0
<1> HIDE DEF step
<1>3. PICK g \in [Nat -> T] : g[0] = output /\ \A n \in Nat : g[n + 1] = step[<<n + 1, g[n]>>]
  <2>1. IsStep(T, output, step)
    BY <1>1 DEF IsStep
  <2>2. \E g : IsIteration(g, T, output, step)
    BY <2>1, Iteration
  <2> QED
    BY <2>2 DEF IsIteration
<1> DEFINE h == [n \in 0..N |-> g[n]]
<1>4. Recursion(h)
  <2>1. ASSUME NEW n \in 0..N, n # 0 PROVE h[n] = AppendEvent(h[n - 1], produced[n])
    <3>1. n - 1 \in Nat /\ (n - 1) + 1 = n /\ n \in 1..N /\ n - 1 \in 0..N
      BY <1>0, <2>1
    <3>2. g[(n - 1) + 1] = step[<<(n - 1) + 1, g[n - 1]>>] /\ g[n - 1] \in T
      BY <1>3, <3>1
    <3>3. g[n] = AppendEvent(g[n - 1], produced[n])
      BY <1>2, <3>1, <3>2
    <3> QED
      BY <3>1, <3>3
  <2>2. h[0] = output
    BY <1>0, <1>3
  <2>3. h = [n \in 0..N |-> h[n]]
    OBVIOUS
  <2> HIDE DEF h
  <2> QED
    BY <2>1, <2>2, <2>3
<1>5. Recursion(joined)
  <2> HIDE DEF h
  <2> QED
    BY <1>4
<1>6. AppendEvents(output, produced) = joined[N]
  BY DEF AppendEvents
<1> HIDE DEF joined, h
<1>7. joined[0] = output
  BY <1>0, <1>5
<1>8. ASSUME NEW n \in Nat, n + 1 <= N PROVE joined[n + 1] = AppendEvent(joined[n], produced[n + 1])
  <2>1. n + 1 \in 0..N /\ n + 1 # 0 /\ (n + 1) - 1 = n
    BY <1>0, <1>8
  <2>2. joined[n + 1] = AppendEvent(joined[(n + 1) - 1], produced[n + 1])
    BY <1>5, <2>1
  <2> QED
    BY <2>1, <2>2
<1> HIDE DEF Recursion
<1> DEFINE Typed == {n \in Nat : n <= N => joined[n] \in T}
<1>9. Typed = Nat
  <2>1. Typed \in SUBSET Nat /\ 0 \in Typed
    BY <1>7
  <2>2. ASSUME NEW n \in Typed PROVE n + 1 \in Typed
    <3>1. n \in Nat /\ n + 1 \in Nat /\ (n <= N => joined[n] \in T)
      OBVIOUS
    <3>2. ASSUME n + 1 <= N PROVE joined[n + 1] \in T
      <4>1. n <= N /\ n + 1 \in 1..N
        BY <1>0, <3>1, <3>2
      <4>2. joined[n] \in Seq(Event) /\ produced[n + 1] \in Event
        BY <1>0, <3>1, <4>1
      <4>3. AppendEvent(joined[n], produced[n + 1]) \in Seq(Event)
        BY <4>2, AppendEventCases, Zenon
      <4> QED
        BY <1>8, <3>1, <3>2, <4>3
    <3> QED
      BY <3>1, <3>2
  <2> HIDE DEF Typed
  <2> QED
    BY <2>1, <2>2, EveryNatural
<1>10. \A n \in 0..N : joined[n] \in T
  <2>1. \A n \in 0..N : n \in Nat /\ n <= N
    BY <1>0
  <2> QED
    BY <1>9, <2>1
<1> HIDE DEF Typed
<1>11. Joins(joined, output, produced)
  BY <1>7, <1>8, <1>10 DEF Joins
<1> QED
  BY <1>6, <1>11

(* Joining the same events gives the same.                                 *)
LEMMA JoinsAgree ==
  ASSUME NEW output, NEW produced, NEW others, NEW f, NEW g,
         Joins(f, output, produced), Joins(g, output, others),
         NEW m \in Nat, m <= Len(produced), m <= Len(others),
         Len(produced) \in Nat, Len(others) \in Nat,
         \A n \in 1..m : produced[n] = others[n]
  PROVE  f[m] = g[m]
<1> DEFINE Same == {n \in Nat : n <= m => f[n] = g[n]}
<1>1. Same \in SUBSET Nat /\ 0 \in Same
  BY DEF Joins
<1>2. ASSUME NEW n \in Same PROVE n + 1 \in Same
  <2>1. n \in Nat /\ n + 1 \in Nat /\ (n <= m => f[n] = g[n])
    OBVIOUS
  <2>2. ASSUME n + 1 <= m PROVE f[n + 1] = g[n + 1]
    <3>1. /\ n <= m /\ n + 1 <= Len(produced) /\ n + 1 <= Len(others) /\ n + 1 \in 1..m
      BY <2>1, <2>2
    <3>2. f[n + 1] = AppendEvent(f[n], produced[n + 1]) /\ g[n + 1] = AppendEvent(g[n], others[n + 1])
      BY <2>1, <3>1 DEF Joins
    <3> QED
      BY <2>1, <3>1, <3>2
  <2> QED
    BY <2>1, <2>2
<1> HIDE DEF Same
<1>3. Same = Nat
  BY <1>1, <1>2, EveryNatural
<1> USE DEF Same
<1> QED
  BY <1>3

(* The caller's view of a stream of events: adjacent Data joined.          *)
Joined(stream) == AppendEvents(<<>>, stream)

(* Joining a stream, event by event.                                       *)
LEMMA JoinedEquations ==
  /\ Joined(<<>>) = <<>>
  /\ \A stream \in Seq(Event) :
       /\ Joined(stream) \in Seq(Event)
       /\ \A event \in Event :
            Joined(Append(stream, event)) = AppendEvent(Joined(stream), event)
<1>0. <<>> \in Seq(Event) /\ Len(<<>>) = 0
  OBVIOUS
<1>1. Joined(<<>>) = <<>>
  <2>1. PICK f : Joins(f, <<>>, <<>>) /\ AppendEvents(<<>>, <<>>) = f[Len(<<>>)]
    BY <1>0, AppendEventsJoins
  <2> QED
    BY <1>0, <2>1 DEF Joins, Joined
<1>2. ASSUME NEW stream \in Seq(Event)
      PROVE  Joined(stream) \in Seq(Event)
  <2>1. PICK f : Joins(f, <<>>, stream) /\ AppendEvents(<<>>, stream) = f[Len(stream)]
    BY <1>0, AppendEventsJoins
  <2>2. Len(stream) \in 0..Len(stream)
    BY LenProperties
  <2> QED
    BY <2>1, <2>2 DEF Joins, Joined
<1>3. ASSUME NEW stream \in Seq(Event), NEW event \in Event
      PROVE  Joined(Append(stream, event)) = AppendEvent(Joined(stream), event)
  <2> DEFINE longer == Append(stream, event)
             N == Len(stream)
  <2>1. /\ longer \in Seq(Event) /\ Len(longer) = N + 1 /\ N \in Nat
        /\ \A n \in 1..N : longer[n] = stream[n]
        /\ longer[N + 1] = event
    BY AppendProperties, LenProperties
  <2> HIDE DEF longer
  <2>2. PICK f : Joins(f, <<>>, stream) /\ AppendEvents(<<>>, stream) = f[N]
    BY <1>0, AppendEventsJoins
  <2>3. PICK g : Joins(g, <<>>, longer) /\ AppendEvents(<<>>, longer) = g[Len(longer)]
    BY <1>0, <2>1, AppendEventsJoins
  <2>4. g[N + 1] = AppendEvent(g[N], longer[N + 1])
    BY <2>1, <2>3 DEF Joins
  <2>5. f[N] = g[N]
    <3>1. N <= N /\ N <= Len(longer) /\ Len(longer) \in Nat
      BY <2>1
    <3> QED
      BY <2>1, <2>2, <2>3, <3>1, JoinsAgree
  <2> QED
    BY <2>1, <2>2, <2>3, <2>4, <2>5 DEF Joined, longer
<1> QED
  BY <1>1, <1>2, <1>3

-----------------------------------------------------------------------------
(* What a window of the message shows.                                     *)

(* The first f bytes of the message have the token that ends the segment.  *)
TokenSeen(m, k, f) == k < Count(m) /\ EndOf(m, k) + Len(Token) <= f

(* What they have after that token.                                        *)
Suffix(m, k, f) == Slice(m, StartOf(m, k + 1), f)

(* The bytes from p to f of a message are buffered, and p is in segment k. *)
Window(m, k, p, f) ==
  /\ m \in Seq(Byte)
  /\ k \in 1..Count(m)
  /\ p \in Nat /\ f \in Nat
  /\ StartOf(m, k) <= p /\ p <= EndOf(m, k)
  /\ p <= f /\ f <= Len(m)

(* The numbers of a window.                                                *)
LEMMA WindowBounds ==
  ASSUME NEW m, NEW k, NEW p, NEW f, Window(m, k, p, f)
  PROVE  /\ m \in Seq(Byte) /\ Len(m) \in Nat /\ Count(m) \in Nat
         /\ k \in 1..Count(m) /\ k \in Nat /\ p \in Nat /\ f \in Nat
         /\ StartOf(m, k) \in Nat /\ EndOf(m, k) \in Nat
         /\ StartOf(m, k) <= p /\ p <= EndOf(m, k) /\ EndOf(m, k) <= Len(m)
         /\ p <= f /\ f <= Len(m)
         /\ k = Count(m) => EndOf(m, k) = Len(m)
         /\ k < Count(m) => /\ EndOf(m, k) \in Occurrences(m, Token)
                            /\ EndOf(m, k) + Len(Token) <= Len(m)
                            /\ k + 1 \in 1..Count(m)
                            /\ StartOf(m, k + 1) = EndOf(m, k) + Len(Token)
<1>1. m \in Seq(Byte) /\ k \in 1..Count(m)
  BY DEF Window
<1>2. Count(m) \in Nat
  BY <1>1, SegmentBounds
<1>3. /\ StartOf(m, k) \in Nat /\ EndOf(m, k) \in Nat
      /\ StartOf(m, k) <= EndOf(m, k) /\ EndOf(m, k) <= Len(m)
      /\ k = Count(m) => EndOf(m, k) = Len(m)
      /\ k < Count(m) => /\ EndOf(m, k) \in Occurrences(m, Token)
                         /\ EndOf(m, k) + Len(Token) <= Len(m)
                         /\ StartOf(m, k + 1) = EndOf(m, k) + Len(Token)
  BY <1>1, SegmentBounds, Zenon
<1>4. Len(m) \in Nat
  BY <1>1, LenProperties
<1> QED
  BY <1>1, <1>2, <1>3, <1>4 DEF Window

(* The bytes of a window.                                                  *)
LEMMA WindowBuffer ==
  ASSUME NEW m, NEW k, NEW p, NEW f, Window(m, k, p, f)
  PROVE  /\ Slice(m, p, f) \in Seq(Byte)
         /\ Len(Slice(m, p, f)) = f - p /\ f - p \in Nat
         /\ \A i \in 1..(f - p) : Slice(m, p, f)[i] = m[p + i]
<1>1. m \in Seq(Byte) /\ p \in Nat /\ f \in Nat /\ p <= f /\ f <= Len(m)
  BY DEF Window
<1>2. f - p \in Nat
  BY <1>1
<1> QED
  BY <1>1, <1>2, SliceProperties, Zenon

(* The first token in the buffer is the one that ends the segment.         *)
LEMMA TokenInBuffer ==
  ASSUME NEW m, NEW k, NEW p, NEW f, Window(m, k, p, f)
  PROVE  /\ \A i \in Find(Slice(m, p, f), Token) : i = EndOf(m, k) - p /\ TokenSeen(m, k, f)
         /\ TokenSeen(m, k, f) => EndOf(m, k) - p \in Find(Slice(m, p, f), Token)
<1> DEFINE S == StartOf(m, k)
           E == EndOf(m, k)
           buf == Slice(m, p, f)
<1>1. /\ m \in Seq(Byte) /\ p \in Nat /\ f \in Nat /\ p <= f /\ f <= Len(m)
      /\ k \in 1..Count(m) /\ S \in Nat /\ E \in Nat /\ S <= p /\ p <= E
      /\ k < Count(m) => E \in Occurrences(m, Token)
      /\ Count(m) \in Nat /\ Len(m) \in Nat
  BY WindowBounds
<1>2. Token \in Seq(Byte) /\ Len(Token) \in Nat
  BY TokenProperties
<1>3. ASSUME NEW i \in Find(buf, Token) PROVE i = E - p /\ TokenSeen(m, k, f)
  <2>1. /\ i \in Nat /\ p + i \in Occurrences(m, Token) /\ p + i + Len(Token) <= f
        /\ \A j \in Occurrences(m, Token) : p <= j => p + i <= j
    BY <1>1, <1>2, <1>3, FindInSlice, Zenon
  <2>2. S <= p + i
    BY <1>1, <2>1
  <2>3. k < Count(m) /\ E <= p + i
    BY <1>1, <2>1, <2>2, FirstToken, Zenon
  <2>4. p + i <= E
    BY <1>1, <2>1, <2>3
  <2>5. i = E - p /\ E + Len(Token) <= f
    BY <1>1, <1>2, <2>1, <2>3, <2>4
  <2> QED
    BY <2>3, <2>5 DEF TokenSeen
<1>4. ASSUME TokenSeen(m, k, f) PROVE E - p \in Find(buf, Token)
  <2>1. E \in Occurrences(m, Token) /\ E + Len(Token) <= f /\ E - p \in Int /\ E - p \in Nat
        /\ p + (E - p) = E
    BY <1>1, <1>4 DEF TokenSeen
  <2>2. E - p \in Occurrences(buf, Token)
    BY <1>1, <1>2, <2>1, SliceOccurrences
  <2>3. Find(buf, Token) # {}
    BY <2>2, FindIsComplete
  <2>4. PICK i : i \in Find(buf, Token)
    BY <2>3
  <2> QED
    BY <1>3, <2>4
<1> QED
  BY <1>3, <1>4

(* A token has no byte of a line end, and begins with two dashes.          *)
LEMMA TokenBytes ==
  /\ Len(Token) \in Nat /\ Len(Token) >= 3
  /\ Token[1] = DASH /\ Token[2] = DASH
  /\ \A i \in 1..Len(Token) : Token[i] \notin {CR, LF}
<1>1. /\ Boundary \in Seq(Byte) /\ Len(Boundary) \in Nat /\ Len(Boundary) >= 1
  BY BoundaryAssumption
<1>2. DASH \notin {CR, LF}
  BY BytesDiffer
<1>3. /\ Len(Token) = 2 + Len(Boundary)
      /\ \A i \in 1..(2 + Len(Boundary)) :
           Token[i] = IF i <= 2 THEN <<DASH, DASH>>[i] ELSE Boundary[i - 2]
  BY <1>1 DEF Token
<1>4. ASSUME NEW i \in 1..(2 + Len(Boundary)) PROVE Token[i] \notin {CR, LF}
  <2>1. CASE i <= 2
    BY <1>1, <1>2, <1>3, <2>1
  <2>2. CASE ~(i <= 2)
    <3>1. i - 2 \in 1..Len(Boundary)
      BY <1>1, <2>2
    <3> QED
      BY <1>3, <2>2, <3>1, FuzzAssumption
  <2> QED
    BY <2>1, <2>2
<1>5. Token[1] = DASH /\ Token[2] = DASH
  BY <1>1, <1>3
<1> QED
  BY <1>1, <1>3, <1>4, <1>5

(* The bytes where a token occurs.                                         *)
LEMMA OccurrenceBytes ==
  ASSUME NEW m \in Seq(Byte), NEW i \in Occurrences(m, Token)
  PROVE  /\ i \in Nat /\ i + Len(Token) <= Len(m)
         /\ m[i + 1] = DASH /\ m[i + 2] = DASH
         /\ \A j \in (i + 1)..(i + Len(Token)) : m[j] \notin {CR, LF}
<1>1. /\ i \in Nat /\ i + Len(Token) <= Len(m)
      /\ \A j \in 1..Len(Token) : m[i + j] = Token[j]
  BY OccurrenceRange, TokenProperties
<1>2. ASSUME NEW j \in (i + 1)..(i + Len(Token)) PROVE m[j] \notin {CR, LF}
  <2>1. j - i \in 1..Len(Token) /\ i + (j - i) = j
    BY <1>1, TokenBytes
  <2> QED
    BY <1>1, <2>1, TokenBytes
<1>3. 1 \in 1..Len(Token) /\ 2 \in 1..Len(Token)
  BY TokenBytes
<1> QED
  BY <1>1, <1>2, <1>3, TokenBytes

(* A byte of a line end that is not past the segment's token is in the     *)
(* segment.                                                                *)
LEMMA LineByteInSegment ==
  ASSUME NEW m, NEW k, NEW p, NEW f, Window(m, k, p, f),
         NEW y \in Nat, p < y, y <= f, m[y] \in {CR, LF},
         TokenSeen(m, k, f) => y <= EndOf(m, k) + Len(Token)
  PROVE  y <= EndOf(m, k)
<1>1. CASE k = Count(m)
  BY <1>1, WindowBounds
<1>2. CASE k < Count(m)
  <2> DEFINE E == EndOf(m, k)
  <2>1. /\ E \in Nat /\ E \in Occurrences(m, Token) /\ f \in Nat /\ m \in Seq(Byte)
        /\ E + Len(Token) <= Len(m)
    BY <1>2, WindowBounds
  <2>2. Len(Token) \in Nat
    BY TokenBytes
  <2>3. y <= E + Len(Token)
    BY <1>2, <2>1, <2>2 DEF TokenSeen
  <2>4. y \notin (E + 1)..(E + Len(Token))
    BY <2>1, OccurrenceBytes
  <2> QED
    BY <2>1, <2>2, <2>3, <2>4
<1> QED
  BY <1>1, <1>2, WindowBounds

-----------------------------------------------------------------------------
(* The suffix of a token.                                                  *)

(* The bytes of an open suffix: blanks and a line end.                     *)
LEMMA OpenBytes ==
  ASSUME NEW s \in Seq(Byte), NEW n \in OpenLength(s)
  PROVE  /\ n \in Nat /\ n >= 2 /\ n <= Len(s)
         /\ s[n - 1] = CR /\ s[n] = LF
         /\ \A i \in 1..(n - 2) : s[i] \in {SP, TAB}
         /\ \A i \in 1..(n - 1) : s[i] # LF
         /\ \A i \in 1..n : s[i] \notin {DASH, COLON}
<1>1. /\ n \in Nat /\ n >= 2 /\ n <= Len(s)
      /\ s[n - 1] = CR /\ s[n] = LF
      /\ \A i \in 1..(n - 2) : s[i] \in {SP, TAB}
  BY LenProperties DEF OpenLength, Blank
<1>2. ASSUME NEW i \in 1..n PROVE i \in 1..(n - 2) \/ i = n - 1 \/ i = n
  BY <1>1
<1>3. ASSUME NEW i \in 1..(n - 1) PROVE i \in 1..(n - 2) \/ i = n - 1
  BY <1>1
<1> QED
  BY <1>1, <1>2, <1>3, BytesDiffer

(* An open suffix needs no other bytes.                                    *)
LEMMA OpenTransfer ==
  ASSUME NEW s \in Seq(Byte), NEW t \in Seq(Byte), NEW n \in OpenLength(s), n <= Len(t),
         \A i \in 1..n : t[i] = s[i]
  PROVE  n \in OpenLength(t)
<1>1. /\ n \in Nat /\ n >= 2 /\ n <= Len(s)
      /\ s[n - 1] = CR /\ s[n] = LF
      /\ \A i \in 1..(n - 2) : s[i] \in {SP, TAB}
  BY OpenBytes
<1>2. n \in 1..n /\ n - 1 \in 1..n /\ n \in 2..Len(t) /\ \A i \in 1..(n - 2) : i \in 1..n
  BY <1>1, LenProperties
<1> QED
  BY <1>1, <1>2 DEF OpenLength, Blank

(* An open suffix is neither undecided nor a close.                        *)
LEMMA OpenIsDecided ==
  ASSUME NEW s \in Seq(Byte), OpenLength(s) # {}
  PROVE  ~IsIncomplete(s) /\ ~IsClose(s)
<1>1. PICK n \in OpenLength(s) : TRUE
  OBVIOUS
<1>2. n \in Nat /\ n >= 2 /\ n <= Len(s) /\ s[n] = LF /\ s[1] # DASH
  <2>1. n \in Nat /\ n >= 2 /\ n <= Len(s) /\ s[n] = LF /\ \A i \in 1..n : s[i] # DASH
    BY OpenBytes
  <2> QED
    BY <2>1
<1>3. Len(s) \in Nat
  BY LenProperties
<1>4. ~IsIncomplete(s)
  <2>1. n \in 1..Len(s) /\ s[n] \notin Blank /\ s[n] # CR
    BY <1>2, <1>3, BytesDiffer DEF Blank
  <2>2. s # <<DASH>>
    <3>1. Len(<<DASH>>) = 1
      OBVIOUS
    <3> QED
      BY <1>2, <3>1
  <2> QED
    BY <2>1, <2>2 DEF IsIncomplete
<1>5. ~IsClose(s)
  <2>1. ASSUME IsClose(s) PROVE FALSE
    <3>1. Upto(s, 2) = <<DASH, DASH>>
      BY <2>1 DEF IsClose, StartsWith
    <3>2. Upto(s, 2)[1] = s[1]
      BY <1>2, <1>3 DEF Upto
    <3> QED
      BY <1>2, <3>1, <3>2
  <2> QED
    BY <2>1
<1> QED
  BY <1>4, <1>5

(* A close is two dashes.                                                  *)
LEMMA CloseMeans ==
  ASSUME NEW s \in Seq(Byte)
  PROVE  IsClose(s) <=> Len(s) >= 2 /\ s[1] = DASH /\ s[2] = DASH
<1>1. Len(s) \in Nat
  BY LenProperties
<1>2. ASSUME Len(s) >= 2
      PROVE  Upto(s, 2) = <<DASH, DASH>> <=> s[1] = DASH /\ s[2] = DASH
  <2>1. Upto(s, 2) \in Seq(Byte) /\ Len(Upto(s, 2)) = 2 /\ Upto(s, 2)[1] = s[1] /\ Upto(s, 2)[2] = s[2]
    BY <1>1, <1>2 DEF Upto
  <2> HIDE DEF Upto
  <2>2. ASSUME s[1] = DASH, s[2] = DASH PROVE Upto(s, 2) = <<DASH, DASH>>
    BY <2>1, <2>2, ByteAssumption DEF SpecialBytes
  <2> QED
    BY <2>1, <2>2
<1> QED
  BY <1>1, <1>2 DEF IsClose, StartsWith

(* A close is neither undecided nor open.                                  *)
LEMMA CloseIsDecided ==
  ASSUME NEW s \in Seq(Byte), IsClose(s)
  PROVE  ~IsIncomplete(s) /\ OpenLength(s) = {}
<1>1. Len(s) >= 2 /\ s[1] = DASH /\ Len(s) \in Nat
  BY CloseMeans, LenProperties
<1>2. OpenLength(s) = {}
  BY OpenIsDecided
<1>3. s # <<DASH>>
  <2>1. ASSUME s = <<DASH>> PROVE FALSE
    <3>1. Len(s) = 1
      BY <2>1
    <3> HIDE <2>1
    <3> QED
      BY <1>1, <3>1
  <2> QED
    BY <2>1
<1>4. 1 \in 1..Len(s) /\ s[1] \notin Blank /\ s[1] # CR
  BY <1>1, SpecialBytesDiffer
<1> QED
  BY <1>2, <1>3, <1>4 DEF IsIncomplete

(* No decided suffix becomes another one when more bytes arrive.           *)
LEMMA IncompleteMeans ==
  ASSUME NEW s \in Seq(Byte), IsIncomplete(s)
  PROVE  /\ \A i \in 1..Len(s) : s[i] \in {DASH, SP, TAB, CR}
         /\ \A i \in 1..Len(s) : s[i] = DASH => Len(s) = 1
<1>1. CASE s = <<DASH>>
  BY <1>1
<1>2. CASE \A i \in 1..Len(s) : s[i] \in Blank \/ (s[i] = CR /\ i = Len(s))
  BY <1>2, SpecialBytesDiffer DEF Blank
<1> QED
  BY <1>1, <1>2 DEF IsIncomplete

(* An unusable suffix stays unusable with more bytes.                      *)
LEMMA UnusableTransfer ==
  ASSUME NEW s \in Seq(Byte), NEW t \in Seq(Byte), IsUnusable(s), Len(s) <= Len(t),
         \A i \in 1..Len(s) : t[i] = s[i]
  PROVE  IsUnusable(t)
<1>1. Len(s) \in Nat /\ Len(t) \in Nat
  BY LenProperties
<1>2. OpenLength(s) = {} /\ ~IsClose(s) /\ ~IsIncomplete(s)
  BY DEF IsUnusable
<1>3. s # <<DASH>>
  BY <1>2 DEF IsIncomplete
<1>4. PICK i \in 1..Len(s) : s[i] \notin Blank /\ ~(s[i] = CR /\ i = Len(s))
  BY <1>2 DEF IsIncomplete
<1>5. Len(s) >= 1
  BY <1>1, <1>4
<1>6. ASSUME s[1] = DASH PROVE Len(s) >= 2 /\ s[2] # DASH
  <2>1. Len(s) # 1
    <3>1. ASSUME Len(s) = 1 PROVE s = <<DASH>>
      <4>1. DASH \in Byte
        BY ByteAssumption DEF SpecialBytes
      <4>2. <<DASH>> \in Seq(Byte) /\ Len(<<DASH>>) = 1 /\ <<DASH>>[1] = DASH
        BY <4>1
      <4>3. \A j \in 1..Len(s) : s[j] = <<DASH>>[j]
        BY <1>6, <3>1, <4>2
      <4> QED
        BY <3>1, <4>2, <4>3, SeqEqual
    <3> QED
      BY <1>3, <3>1
  <2>2. ~(Len(s) >= 2 /\ s[1] = DASH /\ s[2] = DASH)
    BY <1>2, CloseMeans, Zenon
  <2>3. Len(s) >= 2
    <3>1. \A n \in Nat : n >= 1 /\ n # 1 => n >= 2
      OBVIOUS
    <3> QED
      BY <1>1, <1>5, <2>1, <3>1, Zenon
  <2> QED
    BY <1>6, <2>2, <2>3
<1>7. t[1] = s[1] /\ (Len(s) >= 2 => t[2] = s[2])
  BY <1>1, <1>5
<1>8. ~IsClose(t)
  BY <1>6, <1>7, CloseMeans
<1>9. ~IsIncomplete(t)
  <2>1. ASSUME IsIncomplete(t) PROVE FALSE
    <3>1. \A j \in 1..Len(t) : t[j] = DASH => Len(t) = 1
      BY <2>1, IncompleteMeans
    <3>2. i \in 1..Len(t) /\ t[i] = s[i]
      BY <1>1, <1>4
    <3>3. CASE t = <<DASH>>
      <4>1. Len(t) = 1 /\ t[1] = DASH
        BY <3>3
      <4> QED
        BY <1>1, <1>6, <1>7, <4>1
    <3>4. CASE \A j \in 1..Len(t) : t[j] \in Blank \/ (t[j] = CR /\ j = Len(t))
      <4>1. s[i] = CR /\ i = Len(t)
        BY <1>4, <3>2, <3>4
      <4> QED
        BY <1>1, <1>4, <4>1
    <3> QED
      BY <2>1, <3>3, <3>4 DEF IsIncomplete
  <2> QED
    BY <2>1
<1>10. OpenLength(t) = {}
  <2>1. ASSUME NEW n \in OpenLength(t) PROVE FALSE
    <3>1. /\ n \in Nat /\ n >= 2 /\ n <= Len(t)
          /\ t[n - 1] = CR /\ t[n] = LF
          /\ \A j \in 1..(n - 2) : t[j] \in {SP, TAB}
      BY <2>1, OpenBytes
    <3>2. CASE n <= Len(s)
      <4>1. \A j \in 1..n : s[j] = t[j]
        BY <1>1, <3>1, <3>2
      <4> QED
        BY <1>2, <3>2, <4>1, OpenTransfer
    <3>3. CASE Len(s) < n
      <4>1. i \in 1..(n - 2) \/ i = n - 1
        BY <1>1, <1>4, <3>1, <3>3
      <4>2. t[i] = s[i]
        BY <1>1, <1>4
      <4>3. i = n - 1
        BY <1>4, <3>1, <4>1, <4>2 DEF Blank
      <4>4. i = Len(s) /\ s[i] = CR
        BY <1>1, <1>4, <3>1, <3>3, <4>2, <4>3
      <4> QED
        BY <1>4, <4>4
    <3> QED
      BY <1>1, <3>1, <3>2, <3>3
  <2> QED
    BY <2>1
<1> QED
  BY <1>8, <1>9, <1>10 DEF IsUnusable

-----------------------------------------------------------------------------
(* The fields of a header block.                                           *)

(* Bytes that end no line add no field.                                    *)
LEMMA FieldsBetweenLineEnds ==
  ASSUME NEW segment \in Seq(Byte), NEW a \in Nat, NEW b \in Nat, a <= b,
         \A j \in (a + 1)..b : ~EndsLine(segment, j)
  PROVE  FieldsWithin(segment, b) = FieldsWithin(segment, a)
<1> DEFINE Same == {n \in Nat : a <= n /\ n <= b => FieldsWithin(segment, n) = FieldsWithin(segment, a)}
<1>1. 0 \in Same
  <2>1. ASSUME a <= 0 PROVE a = 0
    BY <2>1
  <2> QED
    BY <2>1
<1>2. ASSUME NEW n \in Same PROVE n + 1 \in Same
  <2>1. n \in Nat /\ n + 1 \in Nat
    OBVIOUS
  <2>2. ASSUME a <= n + 1, n + 1 <= b PROVE FieldsWithin(segment, n + 1) = FieldsWithin(segment, a)
    <3>1. CASE a = n + 1
      BY <3>1
    <3>2. CASE a <= n
      <4>1. n <= b /\ n + 1 \in (a + 1)..b
        BY <2>1, <2>2, <3>2
      <4>2. FieldsWithin(segment, n) = FieldsWithin(segment, a)
        BY <3>2, <4>1
      <4>3. FieldEndingAt(segment, n + 1) = <<>>
        BY <4>1 DEF FieldEndingAt
      <4> HIDE DEF Same
      <4>4. FieldsWithin(segment, n + 1) = FieldsWithin(segment, n) \o <<>>
            /\ FieldsWithin(segment, n) \in Headers
        BY <2>1, <4>3, FieldsWithinEquations
      <4> QED
        BY <4>2, <4>4 DEF Headers
    <3> QED
      BY <2>1, <2>2, <3>1, <3>2
  <2> QED
    BY <2>1, <2>2
<1>3. Same \in SUBSET Nat
  OBVIOUS
<1> HIDE DEF Same
<1>4. Same = Nat
  BY <1>1, <1>2, <1>3, EveryNatural
<1>5. b \in Same
  BY <1>4
<1> QED
  BY <1>5 DEF Same

(* An open suffix holds no field.                                          *)
LEMMA NoColonNoField ==
  ASSUME NEW segment \in Seq(Byte), NEW n \in OpenLength(segment)
  PROVE  FieldsWithin(segment, n) = <<>>
<1>1. /\ n \in Nat /\ n >= 2 /\ n <= Len(segment)
      /\ segment[n - 1] = CR /\ segment[n] = LF
      /\ \A i \in 1..(n - 1) : segment[i] # LF
      /\ \A i \in 1..n : segment[i] # COLON
  BY OpenBytes
<1>2. FieldsWithin(segment, n - 1) = <<>>
  <2>1. 0 \in Nat /\ n - 1 \in Nat /\ 0 <= n - 1
    BY <1>1
  <2>2. \A j \in (0 + 1)..(n - 1) : ~EndsLine(segment, j)
    BY <1>1 DEF EndsLine
  <2>3. FieldsWithin(segment, n - 1) = FieldsWithin(segment, 0)
    BY <2>1, <2>2, FieldsBetweenLineEnds
  <2> QED
    BY <2>3, FieldsWithinEquations
<1>3. FieldEndingAt(segment, n) = <<>>
  <2> DEFINE start == LineStart(segment, n)
             line == Slice(segment, start, n - 2)
  <2>1. start \in 0..(n - 2)
    BY <1>1, LineStartProperties, Zenon
  <2>2. n - 2 \in Nat /\ n - 2 <= Len(segment) /\ start \in Nat /\ start <= n - 2
    BY <1>1, <2>1
  <2>3. /\ line \in Seq(Byte) /\ Len(line) = n - 2 - start
        /\ \A i \in 1..(n - 2 - start) : line[i] = segment[start + i]
    <3> HIDE DEF start
    <3> QED
      BY <2>2, SliceProperties, ZenonT(60)
  <2> HIDE DEF line, start
  <2>4. ASSUME NEW separator \in Find(line, <<COLON>>) PROVE FALSE
    <3>1. <<COLON>> \in Seq(Byte) /\ Len(<<COLON>>) = 1 /\ <<COLON>>[1] = COLON
      BY ByteAssumption DEF SpecialBytes
    <3>2. separator \in Occurrences(line, <<COLON>>)
      BY <2>4 DEF Find
    <3>3. /\ separator \in Nat /\ separator + 1 <= Len(line)
          /\ line[separator + 1] = COLON
      <4>1. /\ separator \in Nat /\ separator + Len(<<COLON>>) <= Len(line)
            /\ \A k \in 1..Len(<<COLON>>) : line[separator + k] = <<COLON>>[k]
        BY <2>3, <3>1, <3>2, OccurrenceRange, ZenonT(60)
      <4>2. 1 \in 1..1
        OBVIOUS
      <4> QED
        BY <3>1, <4>1, <4>2, Zenon
    <3>4. separator + 1 \in 1..(n - 2 - start) /\ start + (separator + 1) \in 1..n
      BY <1>1, <2>2, <2>3, <3>3, SMTT(60)
    <3> QED
      BY <1>1, <2>3, <3>3, <3>4
  <2>5. FieldIn(line) = <<>>
    BY <2>4 DEF FieldIn
  <2> QED
    BY <2>5 DEF FieldEndingAt, line, start
<1>4. /\ n - 1 \in Nat /\ (n - 1) + 1 = n
  BY <1>1
<1>5. FieldsWithin(segment, n) = FieldsWithin(segment, n - 1) \o FieldEndingAt(segment, n)
  BY <1>4, FieldsWithinEquations
<1> QED
  BY <1>2, <1>3, <1>5

(* The field of the line that starts where the last one ended.             *)
LEMMA FieldsOfNextLine ==
  ASSUME NEW segment \in Seq(Byte), NEW q \in Nat, NEW e \in Nat, q <= e,
         q = 0 \/ EndsLine(segment, q), EndsLine(segment, e + 2),
         \A j \in (q + 1)..(e + 1) : ~EndsLine(segment, j)
  PROVE  FieldsWithin(segment, e + 2)
           = FieldsWithin(segment, q) \o FieldIn(Slice(segment, q, e))
<1>1. FieldsWithin(segment, e + 1) = FieldsWithin(segment, q)
  <2>1. e + 1 \in Nat /\ q <= e + 1
    OBVIOUS
  <2> QED
    BY <2>1, FieldsBetweenLineEnds
<1>2. FieldsWithin(segment, (e + 1) + 1)
        = FieldsWithin(segment, e + 1) \o FieldEndingAt(segment, (e + 1) + 1)
  <2>1. e + 1 \in Nat
    OBVIOUS
  <2> QED
    BY <2>1, FieldsWithinEquations
<1>3. LineStart(segment, e + 2) = q
  <2> DEFINE start == LineStart(segment, e + 2)
  <2>1. e + 2 \in Nat /\ e + 2 >= 2 /\ (e + 2) - 2 = e
    OBVIOUS
  <2>2. /\ start \in 0..((e + 2) - 2)
        /\ start = 0 \/ EndsLine(segment, start)
        /\ \A i \in 0..((e + 2) - 2) : EndsLine(segment, i) => i <= start
    BY <2>1, LineStartProperties, Zenon
  <2> HIDE DEF start
  <2>3. start \in 0..e /\ start \in Nat
    BY <2>2
  <2>4. start <= q
    <3>1. ASSUME q < start PROVE FALSE
      <4>1. start \in (q + 1)..(e + 1) /\ start # 0
        BY <2>3, <3>1
      <4> QED
        BY <2>2, <4>1
    <3> QED
      BY <2>3, <3>1
  <2>5. q <= start
    <3>1. CASE q = 0
      BY <2>3, <3>1
    <3>2. CASE EndsLine(segment, q)
      BY <2>2, <3>2
    <3> QED
      BY <3>1, <3>2
  <2>6. start = q
    BY <2>3, <2>4, <2>5
  <2> QED
    BY <2>6 DEF start
<1>4. FieldEndingAt(segment, e + 2) = FieldIn(Slice(segment, q, e))
  <2>1. (e + 2) - 2 = e
    OBVIOUS
  <2> QED
    BY <1>3, <2>1 DEF FieldEndingAt
<1>5. (e + 1) + 1 = e + 2
  OBVIOUS
<1> QED
  BY <1>1, <1>2, <1>4, <1>5

(* A line has a field when it has a colon.                                 *)
LEMMA FieldInCases ==
  ASSUME NEW line
  PROVE  /\ Find(line, <<COLON>>) = {} => FieldIn(line) = <<>>
         /\ \A separator \in Find(line, <<COLON>>) : FieldIn(line) = <<Field(line, separator)>>
<1>1. ASSUME NEW a \in Find(line, <<COLON>>), NEW b \in Find(line, <<COLON>>)
      PROVE  a = b
  <2>1. /\ a \in 0..(Len(line) - Len(<<COLON>>)) /\ b \in 0..(Len(line) - Len(<<COLON>>))
        /\ a <= b /\ b <= a
    BY <1>1 DEF Find, Occurrences
  <2>2. a \in Int /\ b \in Int
    BY <2>1
  <2> QED
    BY <2>1, <2>2
<1>2. ASSUME NEW a \in Find(line, <<COLON>>)
      PROVE  FieldIn(line) = <<Field(line, a)>>
  <2> DEFINE fields == {Field(line, separator) : separator \in Find(line, <<COLON>>)}
  <2>1. fields = {Field(line, a)}
    BY <1>1, <1>2, Zenon
  <2>2. (CHOOSE field \in fields : TRUE) = Field(line, a) /\ fields # {}
    BY <2>1
  <2> QED
    BY <2>2 DEF FieldIn
<1> QED
  BY <1>2 DEF FieldIn

-----------------------------------------------------------------------------
(* A segment in the message and in the buffer.                             *)

(* Where CRLF occurs.                                                      *)
LEMMA LineEndMeans ==
  ASSUME NEW s \in Seq(Byte), NEW i
  PROVE  i \in Occurrences(s, CRLF)
           <=> i \in Nat /\ i + 2 <= Len(s) /\ s[i + 1] = CR /\ s[i + 2] = LF
<1>1. CRLF \in Seq(Byte) /\ Len(CRLF) = 2 /\ CRLF[1] = CR /\ CRLF[2] = LF
  BY ByteAssumption DEF SpecialBytes, CRLF
<1>2. \A k : k \in 1..2 <=> k = 1 \/ k = 2
  OBVIOUS
<1>3. i \in Occurrences(s, CRLF)
        <=> i \in Nat /\ i + Len(CRLF) <= Len(s) /\ \A k \in 1..Len(CRLF) : s[i + k] = CRLF[k]
  BY <1>1, OccurrenceRange, Zenon
<1> QED
  BY <1>1, <1>2, <1>3, Zenon

(* Where an empty line occurs.                                             *)
LEMMA EmptyLineMeans ==
  ASSUME NEW s \in Seq(Byte), NEW i
  PROVE  i \in Occurrences(s, CRLF \o CRLF)
           <=> /\ i \in Nat /\ i + 4 <= Len(s)
               /\ s[i + 1] = CR /\ s[i + 2] = LF /\ s[i + 3] = CR /\ s[i + 4] = LF
<1> DEFINE two == CRLF \o CRLF
<1>1. /\ two \in Seq(Byte) /\ Len(two) = 4
      /\ two[1] = CR /\ two[2] = LF /\ two[3] = CR /\ two[4] = LF
  BY ByteAssumption DEF SpecialBytes, CRLF
<1>2. \A k : k \in 1..4 <=> k = 1 \/ k = 2 \/ k = 3 \/ k = 4
  OBVIOUS
<1>3. i \in Occurrences(s, two)
        <=> i \in Nat /\ i + Len(two) <= Len(s) /\ \A k \in 1..Len(two) : s[i + k] = two[k]
  BY <1>1, OccurrenceRange, ZenonT(60)
<1> QED
  BY <1>1, <1>2, <1>3, Zenon

(* Some line end is the leftmost.                                          *)
LEMMA FoundIsLeftmost ==
  ASSUME NEW s, NEW p, NEW i \in Occurrences(s, p)
  PROVE  \E j \in Find(s, p) : j <= i
<1>1. Find(s, p) # {}
  BY FindIsComplete
<1> QED
  BY <1>1 DEF Find

(* A segment read in the message and in the buffer.                        *)
LEMMA SegmentInBuffer ==
  ASSUME NEW m, NEW k, NEW f, Window(m, k, StartOf(m, k), f)
  PROVE  /\ Slice(m, StartOf(m, k), f) \in Seq(Byte)
         /\ PieceOf(m, k) \in Seq(Byte)
         /\ RestOf(m, k) \in Seq(Byte)
         /\ Len(Slice(m, StartOf(m, k), f)) \in Nat
         /\ Len(PieceOf(m, k)) \in Nat
         /\ Len(RestOf(m, k)) \in Nat
         /\ Len(Slice(m, StartOf(m, k), f)) = f - StartOf(m, k)
         /\ Len(PieceOf(m, k)) = EndOf(m, k) - StartOf(m, k)
         /\ Len(RestOf(m, k)) = Len(m) - StartOf(m, k)
         /\ \A i \in 1..Len(Slice(m, StartOf(m, k), f)) :
              /\ Slice(m, StartOf(m, k), f)[i] = m[StartOf(m, k) + i]
              /\ RestOf(m, k)[i] = Slice(m, StartOf(m, k), f)[i]
         /\ \A i \in 1..Len(PieceOf(m, k)) :
              /\ PieceOf(m, k)[i] = m[StartOf(m, k) + i]
              /\ RestOf(m, k)[i] = PieceOf(m, k)[i]
         /\ \A i \in 1..Len(RestOf(m, k)) : RestOf(m, k)[i] = m[StartOf(m, k) + i]
         /\ Len(Slice(m, StartOf(m, k), f)) <= Len(RestOf(m, k))
         /\ Len(PieceOf(m, k)) <= Len(RestOf(m, k))
         /\ k = Count(m) => PieceOf(m, k) = RestOf(m, k)
         /\ f = Len(m) => Slice(m, StartOf(m, k), f) = RestOf(m, k)
<1> DEFINE S == StartOf(m, k)
           E == EndOf(m, k)
           tail == Slice(m, S, f)
           piece == PieceOf(m, k)
           rest == RestOf(m, k)
<1>1. /\ m \in Seq(Byte) /\ k \in 1..Count(m) /\ S \in Nat /\ f \in Nat /\ E \in Nat
      /\ S <= f /\ f <= Len(m) /\ S <= E /\ E <= Len(m) /\ Len(m) \in Nat
      /\ k = Count(m) => E = Len(m)
  BY WindowBounds
<1>2. /\ tail \in Seq(Byte) /\ Len(tail) = f - S
      /\ \A i \in 1..(f - S) : tail[i] = m[S + i]
  BY WindowBuffer
<1>3. /\ piece \in Seq(Byte) /\ Len(piece) = E - S
      /\ \A i \in 1..(E - S) : piece[i] = m[S + i]
      /\ rest \in Seq(Byte) /\ Len(rest) = Len(m) - S /\ rest = Slice(m, S, Len(m))
      /\ \A i \in 1..(Len(m) - S) : rest[i] = m[S + i]
  BY <1>1, PieceProperties
<1>4. k = Count(m) => piece = rest
  BY <1>1, <1>3 DEF PieceOf
<1>5. f = Len(m) => tail = rest
  BY <1>3
<1> HIDE DEF S, E, tail, piece, rest
<1>6. /\ Len(tail) \in Nat /\ Len(piece) \in Nat /\ Len(rest) \in Nat
      /\ Len(tail) <= Len(rest) /\ Len(piece) <= Len(rest)
  BY <1>1, <1>2, <1>3
<1>7. /\ \A i \in 1..Len(tail) : i \in 1..Len(rest)
      /\ \A i \in 1..Len(piece) : i \in 1..Len(rest)
  BY <1>6
<1>8. /\ \A i \in 1..Len(tail) : tail[i] = m[S + i] /\ rest[i] = tail[i]
      /\ \A i \in 1..Len(piece) : piece[i] = m[S + i] /\ rest[i] = piece[i]
      /\ \A i \in 1..Len(rest) : rest[i] = m[S + i]
  BY <1>2, <1>3, <1>7, Zenon
<1> QED
  BY <1>2, <1>3, <1>4, <1>5, <1>6, <1>8, Zenon DEF S, E, tail, piece, rest

(* An open suffix in the buffer opens the segment.                         *)
LEMMA OpenAhead ==
  ASSUME NEW m, NEW k, NEW f, Window(m, k, StartOf(m, k), f),
         NEW n \in OpenLength(Slice(m, StartOf(m, k), f))
  PROVE  /\ n \in Nat /\ n >= 2 /\ StartOf(m, k) + n <= EndOf(m, k) /\ StartOf(m, k) + n <= f
         /\ n \in OpenLength(PieceOf(m, k)) /\ n \in OpenLength(RestOf(m, k))
         /\ EndsLine(PieceOf(m, k), n)
         /\ FieldsWithin(PieceOf(m, k), n) = <<>>
         /\ \A h \in Occurrences(PieceOf(m, k), CRLF \o CRLF) : n <= h + 2
<1> DEFINE S == StartOf(m, k)
           E == EndOf(m, k)
           tail == Slice(m, S, f)
           piece == PieceOf(m, k)
           rest == RestOf(m, k)
<1>1. /\ m \in Seq(Byte) /\ S \in Nat /\ E \in Nat /\ f \in Nat /\ S <= E /\ S <= f
      /\ k < Count(m) => E \in Occurrences(m, Token)
      /\ Window(m, k, S, f)
  BY WindowBounds
<1>2. /\ tail \in Seq(Byte) /\ piece \in Seq(Byte) /\ rest \in Seq(Byte)
      /\ Len(tail) = f - S /\ Len(piece) = E - S /\ Len(tail) <= Len(rest)
      /\ Len(tail) \in Nat /\ Len(piece) \in Nat /\ Len(rest) \in Nat
      /\ \A i \in 1..Len(tail) : tail[i] = m[S + i]
      /\ \A i \in 1..Len(piece) : piece[i] = m[S + i]
      /\ \A i \in 1..Len(tail) : rest[i] = tail[i]
  BY SegmentInBuffer, SMTT(30)
<1> HIDE DEF S, E, tail, piece, rest
<1>3. /\ n \in Nat /\ n >= 2 /\ n <= Len(tail)
      /\ tail[n - 1] = CR /\ tail[n] = LF
      /\ \A i \in 1..(n - 2) : tail[i] \in {SP, TAB}
      /\ \A i \in 1..(n - 1) : tail[i] # LF
      /\ \A i \in 1..n : tail[i] \notin {DASH, COLON}
  BY <1>2, OpenBytes DEF tail, S
<1>4. S + n <= E
  <2>1. S + n \in Nat /\ S < S + n /\ S + n <= f /\ m[S + n] \in {CR, LF}
    <3>1. n \in 1..Len(tail)
      BY <1>2, <1>3
    <3> QED
      BY <1>1, <1>2, <1>3, <3>1, SMTT(60)
  <2>2. ASSUME TokenSeen(m, k, f) PROVE S + n <= E + Len(Token)
    <3>1. E \in Occurrences(m, Token)
      BY <1>1, <2>2 DEF TokenSeen
    <3>2. m[E + 1] = DASH /\ Len(Token) \in Nat /\ Len(Token) >= 3
      BY <1>1, <3>1, OccurrenceBytes, TokenBytes
    <3>3. ASSUME E + Len(Token) < S + n PROVE FALSE
      <4>1. (E - S) + 1 \in 1..n /\ (E - S) + 1 \in 1..Len(tail) /\ S + ((E - S) + 1) = E + 1
        BY <1>1, <1>2, <1>3, <3>2, <3>3
      <4>2. tail[(E - S) + 1] = DASH
        BY <1>2, <3>2, <4>1
      <4> QED
        BY <1>3, <4>1, <4>2
    <3> QED
      BY <1>1, <1>3, <3>2, <3>3
  <2>3. TokenSeen(m, k, f) => S + n <= EndOf(m, k) + Len(Token)
    BY <2>2 DEF E
  <2>4. S + n <= EndOf(m, k)
    BY <1>1, <2>1, <2>3, LineByteInSegment, Zenon
  <2> QED
    BY <2>4 DEF E
<1>5. n <= Len(piece) /\ n <= Len(rest) /\ S + n <= f
  BY <1>1, <1>2, <1>3, <1>4
<1>6. \A i \in 1..n : i \in 1..Len(tail) /\ i \in 1..Len(piece)
  BY <1>2, <1>3, <1>5
<1>7. \A i \in 1..n : piece[i] = tail[i] /\ rest[i] = tail[i]
  BY <1>2, <1>6, Zenon
<1>8. n \in OpenLength(tail)
  BY DEF tail, S
<1>9. n \in OpenLength(piece)
  BY <1>2, <1>5, <1>7, <1>8, OpenTransfer
<1>10. n \in OpenLength(rest)
  BY <1>2, <1>5, <1>7, <1>8, OpenTransfer
<1>11. EndsLine(piece, n)
  <2>1. n - 1 \in 1..n /\ n \in 1..n /\ n \in 2..Len(piece)
    BY <1>2, <1>3, <1>5
  <2> QED
    BY <1>3, <1>7, <2>1 DEF EndsLine
<1>12. FieldsWithin(piece, n) = <<>>
  BY <1>2, <1>9, NoColonNoField
<1>13. ASSUME NEW h \in Occurrences(piece, CRLF \o CRLF) PROVE n <= h + 2
  <2>1. h \in Nat /\ h + 4 <= Len(piece) /\ piece[h + 2] = LF
    BY <1>2, <1>13, EmptyLineMeans
  <2>2. ASSUME h + 2 < n PROVE FALSE
    <3>1. h + 2 \in 1..(n - 1) /\ h + 2 \in 1..n
      BY <1>3, <2>1, <2>2
    <3> QED
      BY <1>3, <1>7, <2>1, <3>1
  <2> QED
    BY <1>3, <2>1, <2>2
<1> QED
  BY <1>3, <1>4, <1>5, <1>9, <1>10, <1>11, <1>12, <1>13 DEF S, E, piece, rest

(* A suffix that is decided in the buffer is decided in the message.       *)
LEMMA DecidedAhead ==
  ASSUME NEW m, NEW k \in Nat, NEW f, Window(m, k + 1, StartOf(m, k + 1), f)
  PROVE  LET tail == Slice(m, StartOf(m, k + 1), f)
         IN  /\ IsClose(tail) => IsClose(RestOf(m, k + 1))
             /\ IsUnusable(tail) => IsUnusable(RestOf(m, k + 1))
             /\ OpenLength(tail) # {} \/ IsClose(tail) \/ IsUnusable(tail)
                  => ~EndsUndecided(m, k)
<1> DEFINE S == StartOf(m, k + 1)
           tail == Slice(m, S, f)
           piece == PieceOf(m, k + 1)
           rest == RestOf(m, k + 1)
<1>1. /\ tail \in Seq(Byte) /\ piece \in Seq(Byte) /\ rest \in Seq(Byte)
      /\ Len(tail) \in Nat /\ Len(rest) \in Nat
      /\ Len(tail) <= Len(rest)
      /\ \A i \in 1..Len(tail) : rest[i] = tail[i]
      /\ k + 1 = Count(m) => piece = rest
  BY SegmentInBuffer, SMTT(30)
<1>2. ASSUME NEW n \in OpenLength(tail) PROVE n \in OpenLength(piece)
  BY <1>2, OpenAhead
<1> HIDE DEF S, tail, piece, rest
<1>3. ASSUME IsClose(tail) PROVE IsClose(rest)
  <2>1. Len(tail) >= 2 /\ tail[1] = DASH /\ tail[2] = DASH
    BY <1>1, <1>3, CloseMeans
  <2>2. Len(rest) >= 2 /\ rest[1] = DASH /\ rest[2] = DASH
    BY <1>1, <2>1
  <2> QED
    BY <1>1, <2>2, CloseMeans
<1>4. ASSUME IsUnusable(tail) PROVE IsUnusable(rest)
  BY <1>1, <1>4, UnusableTransfer
<1>5. ASSUME OpenLength(tail) # {} \/ IsClose(tail) \/ IsUnusable(tail), k + 1 = Count(m)
      PROVE  ~IsIncomplete(piece)
  <2>1. CASE OpenLength(tail) # {}
    BY <1>1, <1>2, <2>1, OpenIsDecided
  <2>2. CASE IsClose(tail)
    BY <1>1, <1>3, <1>5, <2>2, CloseIsDecided
  <2>3. CASE IsUnusable(tail)
    BY <1>1, <1>4, <1>5, <2>3 DEF IsUnusable
  <2> QED
    BY <1>5, <2>1, <2>2, <2>3
<1> QED
  BY <1>3, <1>4, <1>5 DEF EndsUndecided, S, tail, piece, rest

(* A suffix that the end of input leaves undecided is the last segment.    *)
LEMMA UndecidedIsLast ==
  ASSUME NEW m, NEW k, Window(m, k, StartOf(m, k), Len(m)),
         IsIncomplete(Slice(m, StartOf(m, k), Len(m)))
  PROVE  /\ k = Count(m)
         /\ PieceOf(m, k) = Slice(m, StartOf(m, k), Len(m))
         /\ IsIncomplete(PieceOf(m, k))
         /\ HeaderEnds(PieceOf(m, k)) = {}
<1> DEFINE S == StartOf(m, k)
           E == EndOf(m, k)
           tail == Slice(m, S, Len(m))
           piece == PieceOf(m, k)
<1>1. /\ m \in Seq(Byte) /\ S \in Nat /\ E \in Nat /\ S <= E
      /\ k \in 1..Count(m) /\ Count(m) \in Nat /\ Len(m) \in Nat
      /\ k < Count(m) => E \in Occurrences(m, Token)
  BY WindowBounds
<1>2. /\ tail \in Seq(Byte) /\ piece \in Seq(Byte)
      /\ Len(tail) = Len(m) - S /\ Len(tail) \in Nat
      /\ \A i \in 1..Len(tail) : tail[i] = m[S + i]
      /\ k = Count(m) => piece = RestOf(m, k)
      /\ tail = RestOf(m, k)
  BY SegmentInBuffer, SMTT(30)
<1>3. IsIncomplete(tail)
  OBVIOUS
<1> HIDE DEF S, E, tail, piece
<1>4. ASSUME k < Count(m) PROVE FALSE
  <2>1. /\ E + Len(Token) <= Len(m) /\ m[E + 1] = DASH
        /\ Len(Token) \in Nat /\ Len(Token) >= 3
    BY <1>1, <1>4, OccurrenceBytes, TokenBytes
  <2>2. (E - S) + 1 \in 1..Len(tail) /\ S + ((E - S) + 1) = E + 1 /\ Len(tail) >= 3
    BY <1>1, <1>2, <2>1
  <2>3. tail[(E - S) + 1] = DASH
    BY <1>2, <2>1, <2>2
  <2>4. Len(tail) = 1
    BY <1>2, <1>3, <2>2, <2>3, IncompleteMeans
  <2> QED
    BY <2>2, <2>4
<1>5. k = Count(m)
  BY <1>1, <1>4
<1>6. piece = tail
  BY <1>2, <1>5
<1>7. HeaderEnds(piece) = {}
  <2>1. ASSUME NEW h \in HeaderEnds(piece) PROVE FALSE
    <3>1. h \in Occurrences(piece, CRLF \o CRLF)
      BY <2>1 DEF HeaderEnds, Find
    <3>2. h \in Nat /\ h + 4 <= Len(piece) /\ piece[h + 2] = LF
      BY <1>2, <3>1, EmptyLineMeans
    <3>3. h + 2 \in 1..Len(piece)
      BY <1>2, <1>6, <3>2
    <3>4. piece[h + 2] \in {DASH, SP, TAB, CR}
      BY <1>2, <1>3, <1>6, <3>3, IncompleteMeans
    <3>5. LF # DASH
      BY BytesDiffer
    <3> QED
      BY <3>2, <3>4, <3>5, BytesDiffer
  <2> QED
    BY <2>1
<1> QED
  BY <1>3, <1>5, <1>6, <1>7 DEF piece, tail, S

-----------------------------------------------------------------------------
(* Bodies, and what has been delivered of them.                            *)

(* Where the body of a segment begins in the message, and where its data   *)
(* end.                                                                    *)
BodyStart(m, k) == StartOf(m, k) + BlockLength(PieceOf(m, k))
DataEnd(m, k) == BodyStart(m, k) + Len(WithoutLineEnd(BodyOf(PieceOf(m, k))))

(* Streams of events, one after another.                                   *)
LEMMA EventsAssociate ==
  \A s, t, u \in Seq(Event) : s \o t \in Seq(Event) /\ s \o (t \o u) = (s \o t) \o u
<1>1. ASSUME NEW s \in Seq(Event), NEW t \in Seq(Event), NEW u \in Seq(Event)
      PROVE  s \o t \in Seq(Event) /\ s \o (t \o u) = (s \o t) \o u
  BY ConcatAssociative, ConcatProperties, SMTT(60)
<1> QED
  BY <1>1

(* A line end is at most two bytes.                                        *)
LEMMA LineEndLengthRange ==
  ASSUME NEW body
  PROVE  LineEndLength(body) \in {0, 1, 2}
BY DEF LineEndLength

(* Where the body of a segment is in the message, and where its data end.  *)
LEMMA BodySlices ==
  ASSUME NEW m \in Seq(Byte), NEW k \in 1..Count(m), HeaderEnds(PieceOf(m, k)) # {}
  PROVE  /\ BodyStart(m, k) \in Nat /\ StartOf(m, k) + 4 <= BodyStart(m, k)
         /\ BodyStart(m, k) <= EndOf(m, k)
         /\ BodyOf(PieceOf(m, k)) = Slice(m, BodyStart(m, k), EndOf(m, k))
         /\ DataEnd(m, k) \in Nat
         /\ BodyStart(m, k) <= DataEnd(m, k) /\ DataEnd(m, k) <= EndOf(m, k)
         /\ EndOf(m, k) <= DataEnd(m, k) + 2
         /\ DataEnd(m, k) = EndOf(m, k) - LineEndLength(Slice(m, BodyStart(m, k), EndOf(m, k)))
         /\ WithoutLineEnd(BodyOf(PieceOf(m, k))) = Slice(m, BodyStart(m, k), DataEnd(m, k))
         /\ IsPart(PieceOf(m, k)) <=> BodyStart(m, k) < EndOf(m, k)
         /\ BlockLength(PieceOf(m, k)) \in Nat /\ BlockLength(PieceOf(m, k)) >= 4
<1> DEFINE S == StartOf(m, k)
           E == EndOf(m, k)
           piece == PieceOf(m, k)
           B == BodyStart(m, k)
           body == BodyOf(piece)
           D == DataEnd(m, k)
<1>1. /\ S \in Nat /\ E \in Nat /\ S <= E /\ E <= Len(m) /\ Len(m) \in Nat
  <2>1. Len(m) \in Nat
    BY LenProperties
  <2> QED
    BY <2>1, SegmentBounds
<1>2. piece \in Seq(Byte) /\ Len(piece) = E - S
  BY PieceProperties
<1>3. PICK h \in HeaderEnds(piece) : TRUE
  OBVIOUS
<1>4. /\ BlockLength(piece) = h + 4
      /\ h \in Nat /\ h + 4 <= Len(piece)
      /\ body \in Seq(Byte)
      /\ Len(body) = Len(piece) - (h + 4)
      /\ body = Slice(piece, h + 4, Len(piece))
  BY <1>2, <1>3, BlockProperties, Zenon
<1>5. B = S + (h + 4)
  BY <1>4 DEF BodyStart
<1>6. /\ B \in Nat /\ S + 4 <= B /\ B <= E /\ h + 4 \in Nat
      /\ S + (E - S) = E /\ Len(piece) \in Nat /\ h + 4 <= E - S /\ Len(piece) <= E - S
  BY <1>1, <1>2, <1>4, <1>5, SMTT(60)
<1>7. body = Slice(m, B, E)
  <2>1. piece = Slice(m, S, E)
    BY DEF PieceOf
  <2>2. Slice(Slice(m, S, E), h + 4, Len(piece)) = Slice(m, S + (h + 4), S + Len(piece))
    <3>1. /\ S \in Nat /\ E \in Nat /\ S <= E /\ E <= Len(m)
          /\ h + 4 \in Nat /\ Len(piece) \in Nat /\ h + 4 <= Len(piece) /\ Len(piece) <= E - S
      BY <1>1, <1>4, <1>6
    <3> HIDE DEF S, E, piece
    <3> QED
      BY <3>1, SliceOfSlice, SMTT(30)
  <2>3. S + Len(piece) = E
    BY <1>2, <1>6
  <2> QED
    BY <1>4, <1>5, <2>1, <2>2, <2>3
<1>8. Len(body) = E - B /\ Len(body) \in Nat
  BY <1>1, <1>2, <1>4, <1>5, <1>6
<1>9. /\ Len(body) - LineEndLength(body) \in 0..Len(body)
      /\ WithoutLineEnd(body) = Upto(body, Len(body) - LineEndLength(body))
  BY <1>4, WithoutLineEndLength
<1>10. Len(WithoutLineEnd(body)) = Len(body) - LineEndLength(body)
  BY <1>4, <1>9, UptoProperties
<1>11. LineEndLength(body) \in {0, 1, 2}
  BY LineEndLengthRange
<1>12. D = B + Len(WithoutLineEnd(body))
  BY DEF DataEnd
<1>13. /\ D \in Nat /\ B <= D /\ D <= E /\ E <= D + 2
       /\ D = E - LineEndLength(body)
  <2> DEFINE l == LineEndLength(body)
             w == Len(WithoutLineEnd(body))
  <2>1. /\ B \in Nat /\ E \in Nat /\ B <= E /\ Len(body) = E - B
        /\ l \in {0, 1, 2} /\ Len(body) - l \in 0..Len(body) /\ w = Len(body) - l /\ D = B + w
    BY <1>1, <1>6, <1>8, <1>9, <1>10, <1>11, <1>12
  <2>2. l \in Nat /\ l <= 2 /\ l <= E - B /\ D = E - l
    <3> HIDE DEF B, E, body, D, l, w
    <3> QED
      BY <2>1
  <2> HIDE DEF B, E, body, D, l
  <2>3. D \in Nat /\ B <= D /\ D <= E /\ E <= D + 2
    BY <2>1, <2>2
  <2> QED
    BY <2>2, <2>3 DEF l
<1>14. WithoutLineEnd(body) = Slice(m, B, D)
  <2> DEFINE n == Len(body) - LineEndLength(body)
  <2>1. n \in Nat /\ n <= E - B /\ B + n = D
    BY <1>1, <1>6, <1>8, <1>9, <1>10, <1>12
  <2>2. B \in Nat /\ E \in Nat /\ B <= E /\ E <= Len(m) /\ n \in Nat /\ n <= E - B
    BY <1>1, <1>6, <2>1
  <2> HIDE DEF n, B, E
  <2>3. Upto(Slice(m, B, E), n) = Slice(m, B, B + n)
    <3>1. Within(m, B, E, n)
      BY <2>2 DEF Within
    <3> QED
      BY <3>1, EndsOfSlice
  <2> QED
    BY <1>7, <1>9, <2>1, <2>3 DEF n
<1>15. IsPart(piece) <=> B < E
  <2>1. body = <<>> <=> Len(body) = 0
    BY <1>4, EmptySeq
  <2> HIDE DEF body, B, E
  <2>2. Len(body) = 0 <=> ~(B < E)
    BY <1>1, <1>6, <1>8
  <2> QED
    BY <2>1, <2>2 DEF IsPart, body
<1> QED
  BY <1>4, <1>6, <1>7, <1>13, <1>14, <1>15

(* What the segments up to the k-th mean.                                  *)
LEMMA ToldSegment ==
  ASSUME NEW m \in Seq(Byte), NEW k \in 2..Count(m)
  PROVE  /\ Told(m, k - 1) \in Seq(Event)
         /\ k < Count(m) /\ ~IsPart(PieceOf(m, k)) /\ ~EndsUndecided(m, k)
              => Told(m, k) = Told(m, k - 1) \o <<RawEvent>>
         /\ k < Count(m) /\ ~IsPart(PieceOf(m, k)) /\ EndsUndecided(m, k)
              => Told(m, k) = Told(m, k - 1)
         /\ k < Count(m) /\ IsPart(PieceOf(m, k))
              => Told(m, k) = ((Told(m, k - 1) \o <<BeginOf(PieceOf(m, k))>>)
                                 \o DataOf(Slice(m, BodyStart(m, k), DataEnd(m, k))))
                              \o <<EndEvent>>
         /\ k = Count(m) /\ HeaderEnds(PieceOf(m, k)) = {} => Told(m, k) = Told(m, k - 1)
         /\ k = Count(m) /\ HeaderEnds(PieceOf(m, k)) # {}
              => Told(m, k) = (Told(m, k - 1) \o <<BeginOf(PieceOf(m, k))>>)
                                \o DataOf(Slice(m, BodyStart(m, k), Len(m)))
<1> DEFINE piece == PieceOf(m, k)
           T == Told(m, k - 1)
<1>1. Count(m) \in Nat
  BY SegmentBounds
<1>2. k - 1 \in Nat /\ (k - 1) + 1 = k /\ k \in Nat /\ k \in 1..Count(m)
  BY <1>1
<1>3. T \in Seq(Event) /\ Told(m, k) = T \o EventsOf(m, k)
  BY <1>2, ToldEquations
<1>4. piece \in Seq(Byte)
  BY <1>2, PieceProperties
<1>5. k = Count(m) => EndOf(m, k) = Len(m)
  BY <1>2, SegmentBounds
<1>6. T \o <<>> = T
  BY <1>3, ConcatEmptySeq
<1>7. ASSUME HeaderEnds(piece) # {}
      PROVE  /\ <<BeginOf(piece)>> \in Seq(Event)
             /\ BodyOf(piece) = Slice(m, BodyStart(m, k), EndOf(m, k))
             /\ WithoutLineEnd(BodyOf(piece)) = Slice(m, BodyStart(m, k), DataEnd(m, k))
             /\ DataOf(BodyOf(piece)) \in Seq(Event)
             /\ DataOf(WithoutLineEnd(BodyOf(piece))) \in Seq(Event)
  <2>1. /\ BeginOf(piece) \in Event
        /\ BodyOf(piece) \in Seq(Byte) /\ WithoutLineEnd(BodyOf(piece)) \in Seq(Byte)
    BY <1>4, <1>7, BeginOfType
  <2> QED
    BY <1>2, <1>7, <2>1, BodySlices, DataOfType
<1>8. <<EndEvent>> \in Seq(Event)
  BY EventTypes
<1> HIDE DEF piece, T
<1>9. ASSUME k < Count(m), IsPart(piece)
      PROVE  Told(m, k) = ((T \o <<BeginOf(piece)>>)
                                 \o DataOf(Slice(m, BodyStart(m, k), DataEnd(m, k))))
                              \o <<EndEvent>>
  <2> DEFINE b == <<BeginOf(piece)>>
             d == DataOf(WithoutLineEnd(BodyOf(piece)))
             e == <<EndEvent>>
  <2>1. b \in Seq(Event) /\ d \in Seq(Event) /\ e \in Seq(Event)
    BY <1>7, <1>8, <1>9 DEF IsPart
  <2>2. EventsOf(m, k) = (b \o d) \o e \/ EventsOf(m, k) = b \o (d \o e)
    BY <1>1, <1>2, <1>9, SegmentEventsCases DEF piece
  <2>3. d = DataOf(Slice(m, BodyStart(m, k), DataEnd(m, k)))
    BY <1>7, <1>9 DEF IsPart
  <2> HIDE DEF b, d, e
  <2>4. (b \o d) \o e = b \o (d \o e)
    BY <2>1, EventsAssociate, SMTT(60)
  <2>5. b \o d \in Seq(Event)
    BY <2>1, ConcatProperties
  <2>6. T \o ((b \o d) \o e) = (T \o (b \o d)) \o e
    <3> DEFINE bd == b \o d
    <3>1. T \in Seq(Event) /\ bd \in Seq(Event) /\ e \in Seq(Event)
      BY <1>3, <2>1, <2>5
    <3> HIDE DEF bd
    <3>2. T \o (bd \o e) = (T \o bd) \o e
      BY <3>1, EventsAssociate, SMTT(60)
    <3> QED
      BY <3>2 DEF bd
  <2>7. T \o (b \o d) = (T \o b) \o d
    BY <1>3, <2>1, EventsAssociate, Zenon
  <2>8. Told(m, k) = ((T \o b) \o d) \o e
    BY <1>3, <2>2, <2>4, <2>6, <2>7
  <2> QED
    BY <2>3, <2>8 DEF b, e
<1>10. ASSUME k = Count(m), HeaderEnds(piece) # {}
       PROVE  Told(m, k) = (T \o <<BeginOf(piece)>>) \o DataOf(Slice(m, BodyStart(m, k), Len(m)))
  <2> DEFINE b == <<BeginOf(piece)>>
             d == DataOf(BodyOf(piece))
  <2>1. b \in Seq(Event) /\ d \in Seq(Event) /\ d = DataOf(Slice(m, BodyStart(m, k), Len(m)))
    BY <1>5, <1>7, <1>10
  <2>2. EventsOf(m, k) = b \o d
    BY <1>2, <1>10, SegmentEventsCases DEF piece
  <2> HIDE DEF b, d
  <2>3. T \o (b \o d) = (T \o b) \o d
    BY <1>3, <2>1, EventsAssociate, Zenon
  <2> QED
    BY <1>3, <2>1, <2>2, <2>3 DEF b
<1>11. /\ k < Count(m) /\ ~IsPart(piece) /\ ~EndsUndecided(m, k) => EventsOf(m, k) = <<RawEvent>>
       /\ k < Count(m) /\ ~IsPart(piece) /\ EndsUndecided(m, k) => EventsOf(m, k) = <<>>
       /\ k = Count(m) /\ HeaderEnds(piece) = {} => EventsOf(m, k) = <<>>
  <2>1. k # Count(m) <=> k < Count(m)
    BY <1>1, <1>2
  <2>2. k \in Nat /\ k \in 2..Count(m)
    BY <1>2
  <2> QED
    BY <2>1, <2>2, SegmentEventsCases DEF piece
<1> QED
  BY <1>3, <1>6, <1>9, <1>10, <1>11 DEF piece, T

(* The preamble means nothing.                                             *)
LEMMA ToldPreamble ==
  ASSUME NEW m \in Seq(Byte)
  PROVE  Told(m, 1) = <<>>
<1>1. Told(m, 0 + 1) = Told(m, 0) \o EventsOf(m, 0 + 1) /\ Told(m, 0) = <<>>
  BY ToldEquations
<1>2. 1 \notin 2..Count(m) /\ 0 + 1 = 1
  <2>1. Count(m) \in Nat
    BY SegmentBounds
  <2> QED
    BY <2>1
<1>3. EventsOf(m, 1) = <<>>
  BY <1>2, SegmentEventsCases
<1> QED
  BY <1>1, <1>2, <1>3

(* What has been delivered of a stream.                                    *)
LEMMA DeliveredPrefix ==
  ASSUME NEW s \in Seq(Event), NEW more \in Seq(Event)
  PROVE  DeliveredOf(s, s \o more)
<1>1. /\ Len(s) \in Nat /\ Len(more) \in Nat /\ Len(s \o more) = Len(s) + Len(more)
      /\ \A i \in 1..Len(s) : (s \o more)[i] = s[i]
  BY ConcatProperties, LenProperties
<1> QED
  BY <1>1 DEF DeliveredOf

(* Part of the last data has been delivered.                               *)
LEMMA DeliveredData ==
  ASSUME NEW U \in Seq(Event), NEW x \in Seq(Byte), NEW y \in Seq(Byte),
         NEW more \in Seq(Event), StartsWith(y, x)
  PROVE  DeliveredOf(U \o DataOf(x), (U \o DataOf(y)) \o more)
<1>1. DataOf(x) \in Seq(Event) /\ DataOf(y) \in Seq(Event)
  BY DataOfType
<1>2. CASE x = <<>>
  <2>1. U \o DataOf(x) = U
    BY <1>2 DEF DataOf
  <2>2. (U \o DataOf(y)) \o more = U \o (DataOf(y) \o more) /\ DataOf(y) \o more \in Seq(Event)
    BY <1>1, EventsAssociate, ZenonT(60)
  <2> QED
    BY <2>1, <2>2, DeliveredPrefix
<1>3. CASE x # <<>>
  <2> DEFINE n == Len(U)
             s == U \o DataOf(x)
             t == (U \o DataOf(y)) \o more
  <2>1. y # <<>>
    <3>1. ASSUME y = <<>> PROVE FALSE
      <4>1. Len(y) = 0
        BY <3>1
      <4>2. Len(x) = 0
        BY <4>1, LenProperties DEF StartsWith
      <4> QED
        BY <1>3, <4>2, EmptySeq
    <3> QED
      BY <3>1
  <2>2. DataOf(x) = <<DataEvent(x)>> /\ DataOf(y) = <<DataEvent(y)>>
    BY <1>3, <2>1 DEF DataOf
  <2>3. n \in Nat /\ Len(more) \in Nat
    BY LenProperties
  <2>4. DataEvent(x) \in Event /\ DataEvent(y) \in Event
    BY EventTypes
  <2>5. /\ Len(s) = n + 1 /\ s[n + 1] = DataEvent(x)
        /\ \A i \in 1..n : s[i] = U[i]
    BY <2>2, <2>3, <2>4
  <2>6. /\ U \o DataOf(y) \in Seq(Event)
        /\ Len(U \o DataOf(y)) = n + 1 /\ (U \o DataOf(y))[n + 1] = DataEvent(y)
        /\ \A i \in 1..n : (U \o DataOf(y))[i] = U[i]
    BY <2>2, <2>3, <2>4
  <2>7. Len(t) = n + 1 + Len(more) /\ \A i \in 1..(n + 1) : t[i] = (U \o DataOf(y))[i]
    <3> DEFINE V == U \o DataOf(y)
    <3>1. V \in Seq(Event) /\ Len(V) = n + 1
      BY <2>6
    <3> HIDE DEF V
    <3>2. /\ Len(V \o more) = Len(V) + Len(more)
          /\ \A i \in 1..(Len(V) + Len(more)) :
               (V \o more)[i] = IF i <= Len(V) THEN V[i] ELSE more[i - Len(V)]
      BY <3>1, ConcatProperties, Zenon
    <3>3. Len(V \o more) = n + 1 + Len(more) /\ \A i \in 1..(n + 1) : (V \o more)[i] = V[i]
      BY <2>3, <3>1, <3>2
    <3> QED
      BY <3>3 DEF V
  <2> HIDE DEF s, t, n
  <2>8. Len(s) <= Len(t)
    BY <2>3, <2>5, <2>7
  <2>9. DataEvent(x).kind = "Data" /\ DataEvent(x).data = x
        /\ DataEvent(y).kind = "Data" /\ DataEvent(y).data = y
    BY DEF DataEvent
  <2>10. \A i \in 1..Len(s) : i \in 1..(n + 1) /\ (i \in 1..n \/ i = n + 1) /\ n + 1 \in 1..(n + 1)
    BY <2>3, <2>5
  <2>11. ASSUME NEW i \in 1..Len(s)
         PROVE  \/ s[i] = t[i]
                \/ /\ i = Len(s)
                   /\ s[i].kind = "Data" /\ t[i].kind = "Data"
                   /\ StartsWith(t[i].data, s[i].data)
    <3>1. CASE i \in 1..n
      BY <2>5, <2>6, <2>7, <2>10, <3>1
    <3>2. CASE i = n + 1
      <4>1. s[i] = DataEvent(x) /\ t[i] = DataEvent(y)
        BY <2>5, <2>6, <2>7, <2>10, <3>2
      <4> QED
        BY <2>5, <2>9, <3>2, <4>1
    <3> QED
      BY <2>10, <3>1, <3>2
  <2>12. DeliveredOf(s, t)
    BY <2>8, <2>11 DEF DeliveredOf
  <2> QED
    BY <2>12 DEF s, t
<1> QED
  BY <1>2, <1>3

(* What the first segments mean is delivered of the message.               *)
LEMMA DeliveredTold ==
  ASSUME NEW m \in Seq(Byte), NEW k \in Nat, k <= Count(m)
  PROVE  DeliveredOf(Told(m, k), Reference(m))
<1>1. Count(m) \in Nat
  BY SegmentBounds
<1>2. PICK more \in Seq(Event) : Told(m, Count(m)) = Told(m, k) \o more
  BY <1>1, ToldGrows
<1>3. Told(m, k) \in Seq(Event) /\ Reference(m) = Told(m, Count(m))
  BY ToldEquations
<1> QED
  BY <1>2, <1>3, DeliveredPrefix

(* So is the beginning of the next part, with some of its data.            *)
LEMMA DeliveredPart ==
  ASSUME NEW m \in Seq(Byte), NEW k \in 2..Count(m), HeaderEnds(PieceOf(m, k)) # {},
         NEW y \in Nat, BodyStart(m, k) <= y, y <= Len(m),
         k < Count(m) => BodyStart(m, k) < EndOf(m, k) /\ y <= DataEnd(m, k)
  PROVE  DeliveredOf((Told(m, k - 1) \o <<BeginOf(PieceOf(m, k))>>)
                        \o DataOf(Slice(m, BodyStart(m, k), y)),
                     Reference(m))
<1> DEFINE B == BodyStart(m, k)
           D == IF k < Count(m) THEN DataEnd(m, k) ELSE Len(m)
           U == Told(m, k - 1) \o <<BeginOf(PieceOf(m, k))>>
           after == IF k < Count(m) THEN <<EndEvent>> ELSE <<>>
<1>1. Count(m) \in Nat /\ k \in Nat /\ k \in 1..Count(m) /\ k <= Count(m)
  <2>1. Count(m) \in Nat
    BY SegmentBounds
  <2> QED
    BY <2>1
<1>2. /\ B \in Nat /\ B <= D /\ D \in Nat /\ D <= Len(m) /\ y <= D
      /\ k < Count(m) => IsPart(PieceOf(m, k))
  <2>1. /\ B \in Nat /\ B <= EndOf(m, k) /\ DataEnd(m, k) \in Nat
        /\ B <= DataEnd(m, k) /\ DataEnd(m, k) <= EndOf(m, k)
        /\ B < EndOf(m, k) => IsPart(PieceOf(m, k))
    BY <1>1, BodySlices
  <2>2. EndOf(m, k) \in Nat /\ EndOf(m, k) <= Len(m) /\ Len(m) \in Nat
    BY <1>1, SegmentBounds, LenProperties
  <2> QED
    BY <2>1, <2>2
<1>3. U \in Seq(Event)
  <2>1. PieceOf(m, k) \in Seq(Byte)
    BY <1>1, PieceProperties
  <2>2. BeginOf(PieceOf(m, k)) \in Event
    BY <2>1, BeginOfType
  <2>3. Told(m, k - 1) \in Seq(Event)
    BY ToldSegment
  <2> QED
    BY <2>2, <2>3
<1>4. after \in Seq(Event)
  BY EventTypes
<1>5. Told(m, k) = (U \o DataOf(Slice(m, B, D))) \o after
  <2>1. CASE k < Count(m)
    BY <1>2, <2>1, ToldSegment
  <2>2. CASE ~(k < Count(m))
    <3>1. k = Count(m)
      BY <1>1, <2>2
    <3>2. Told(m, k) = U \o DataOf(Slice(m, B, Len(m)))
      BY <3>1, ToldSegment
    <3>3. DataOf(Slice(m, B, Len(m))) \in Seq(Event)
      <4>1. Slice(m, B, D) \in Seq(Byte)
        BY <1>2, SliceProperties
      <4> QED
        BY <2>2, <4>1, DataOfType
    <3> QED
      BY <1>3, <2>2, <3>2, <3>3, ConcatEmptySeq, ConcatProperties
  <2> QED
    BY <2>1, <2>2
<1>6. PICK more \in Seq(Event) : Reference(m) = Told(m, k) \o more
  <2>1. \E more \in Seq(Event) : Told(m, Count(m)) = Told(m, k) \o more
    BY <1>1, ToldGrows
  <2> QED
    BY <2>1, ToldEquations
<1> HIDE DEF U, B, D, after
<1>7. /\ Slice(m, B, y) \in Seq(Byte) /\ Slice(m, B, D) \in Seq(Byte)
      /\ StartsWith(Slice(m, B, D), Slice(m, B, y))
  <2>1. y - B \in Nat /\ y - B <= D - B /\ B + (y - B) = y /\ B <= y /\ y <= Len(m)
    BY <1>2 DEF B
  <2>2. Upto(Slice(m, B, D), y - B) = Slice(m, B, B + (y - B))
    <3>1. Within(m, B, D, y - B)
      BY <1>2, <2>1 DEF Within
    <3> QED
      BY <3>1, EndsOfSlice
  <2>3. Slice(m, B, y) \in Seq(Byte) /\ Len(Slice(m, B, y)) = y - B
    BY <1>2, <2>1, SliceProperties, Zenon
  <2>4. Slice(m, B, D) \in Seq(Byte) /\ Len(Slice(m, B, D)) = D - B
    BY <1>2, <2>1, SliceProperties, Zenon
  <2> QED
    BY <2>1, <2>2, <2>3, <2>4 DEF StartsWith
<1>8. /\ DataOf(Slice(m, B, D)) \in Seq(Event)
      /\ U \o DataOf(Slice(m, B, D)) \in Seq(Event)
  BY <1>3, <1>7, DataOfType, ConcatProperties
<1>9. Reference(m) = (U \o DataOf(Slice(m, B, D))) \o (after \o more) /\ after \o more \in Seq(Event)
  <2>1. (U \o DataOf(Slice(m, B, D))) \o (after \o more)
          = ((U \o DataOf(Slice(m, B, D))) \o after) \o more
    BY <1>4, <1>6, <1>8, EventsAssociate, ZenonT(60)
  <2>2. after \o more \in Seq(Event)
    BY <1>4, <1>6, ConcatProperties, Zenon
  <2> QED
    BY <1>5, <1>6, <2>1, <2>2
<1>10. DeliveredOf(U \o DataOf(Slice(m, B, y)), Reference(m))
  BY <1>3, <1>7, <1>9, DeliveredData
<1> QED
  BY <1>10 DEF U, B

-----------------------------------------------------------------------------
(* Joined batches of events.                                               *)

(* A joined stream is a stream.                                            *)
LEMMA JoinedType ==
  ASSUME NEW s \in Seq(Event)
  PROVE  Joined(s) \in Seq(Event)
BY JoinedEquations

(* An event that does not follow Data, or is none, is not joined.          *)
LEMMA JoinOne ==
  ASSUME NEW s \in Seq(Event), NEW event \in Event,
         event.kind = "Data" /\ Joined(s) # <<>> => Joined(s)[Len(Joined(s))].kind # "Data"
  PROVE  Joined(s \o <<event>>) = Joined(s) \o <<event>>
<1> DEFINE J == Joined(s)
<1>1. J \in Seq(Event) /\ Len(J) \in Nat
  BY JoinedType, LenProperties
<1>2. s \o <<event>> = Append(s, event) /\ J \o <<event>> = Append(J, event)
  <2> HIDE DEF J
  <2> QED
    BY <1>1, AppendIsConcat
<1>3. Joined(Append(s, event)) = AppendEvent(J, event)
  BY JoinedEquations, Zenon
<1>4. J # <<>> \/ Len(J) = 0
  <2> HIDE DEF J
  <2>1. ASSUME J = <<>> PROVE Len(J) = 0
    BY <2>1
  <2> QED
    BY <2>1
<1>5. ~(Len(J) > 0 /\ event.kind = "Data" /\ J[Len(J)].kind = "Data")
  <2>1. ASSUME Len(J) > 0 PROVE J # <<>>
    <3> HIDE DEF J
    <3>1. Len(J) # 0
      BY <1>1, <2>1
    <3> QED
      BY <3>1
  <2> QED
    BY <2>1
<1> HIDE DEF J
<1>6. AppendEvent(J, event) = Append(J, event)
  BY <1>1, <1>5, AppendEventCases, Zenon
<1> QED
  BY <1>2, <1>3, <1>6 DEF J

(* An event that is not Data.                                              *)
LEMMA JoinOther ==
  ASSUME NEW s \in Seq(Event), NEW event \in Event, event.kind # "Data"
  PROVE  Joined(s \o <<event>>) = Joined(s) \o <<event>>
BY JoinOne

(* Data, after the beginning of a part and perhaps some Data.              *)
LEMMA JoinData ==
  ASSUME NEW s \in Seq(Event), NEW T \in Seq(Event), NEW b \in Event, b.kind = "Begin",
         NEW x \in Seq(Byte), NEW y \in Seq(Byte),
         Joined(s) = (T \o <<b>>) \o DataOf(x)
  PROVE  Joined(s \o DataOf(y)) = (T \o <<b>>) \o DataOf(x \o y)
<1> DEFINE U == T \o <<b>>
           n == Len(U)
<1>1. U \in Seq(Event) /\ n \in Nat /\ n >= 1 /\ U[n] = b
  <2>1. Len(T) \in Nat
    BY LenProperties
  <2>2. U \in Seq(Event) /\ n = Len(T) + 1 /\ U[Len(T) + 1] = b
    BY <2>1
  <2> QED
    BY <2>1, <2>2
<1>2. DataEvent(x) \in Event /\ DataEvent(y) \in Event
      /\ DataEvent(x).kind = "Data" /\ DataEvent(x).data = x
      /\ DataEvent(y).kind = "Data" /\ DataEvent(y).data = y
  BY EventTypes DEF DataEvent
<1>3. Joined(s) = U \o DataOf(x)
  OBVIOUS
<1> HIDE DEF U, n
<1>4. U \o <<>> = U /\ x \o <<>> = x /\ <<>> \o y = y /\ s \o <<>> = s
  BY <1>1, ConcatEmptySeq
<1>5. CASE y = <<>>
  BY <1>3, <1>4, <1>5 DEF DataOf, U
<1>6. CASE y # <<>> /\ x = <<>>
  <2>1. Joined(s) = U /\ x \o y = y /\ DataOf(y) = <<DataEvent(y)>>
    BY <1>3, <1>4, <1>6 DEF DataOf
  <2>2. U # <<>> => U[Len(U)].kind # "Data"
    BY <1>1 DEF n
  <2>3. Joined(s \o <<DataEvent(y)>>) = U \o <<DataEvent(y)>>
    BY <1>2, <2>1, <2>2, JoinOne
  <2> QED
    BY <2>1, <2>3 DEF U
<1>7. CASE y # <<>> /\ x # <<>>
  <2>1. DataOf(x) = <<DataEvent(x)>> /\ DataOf(y) = <<DataEvent(y)>>
    BY <1>7 DEF DataOf
  <2> DEFINE J == U \o <<DataEvent(x)>>
  <2>2. /\ J \in Seq(Event) /\ Len(J) = n + 1 /\ J[n + 1] = DataEvent(x)
        /\ \A i \in 1..n : J[i] = U[i]
    BY <1>1, <1>2 DEF n
  <2>3. Joined(s) = J
    BY <1>3, <2>1
  <2>4. s \o <<DataEvent(y)>> = Append(s, DataEvent(y))
    BY <1>2, AppendIsConcat
  <2>5. Joined(s \o <<DataEvent(y)>>) = AppendEvent(J, DataEvent(y))
    BY <1>2, <2>3, <2>4, JoinedEquations
  <2> HIDE DEF J
  <2>6. /\ Len(J) > 0 /\ DataEvent(y).kind = "Data" /\ J[Len(J)].kind = "Data"
        /\ J[Len(J)].data = x
    BY <1>1, <1>2, <2>2
  <2>7. AppendEvent(J, DataEvent(y))
          = [J EXCEPT ![Len(J)] = DataEvent(J[Len(J)].data \o DataEvent(y).data)]
    BY <1>2, <2>2, <2>6, AppendEventCases, Zenon
  <2>8. AppendEvent(J, DataEvent(y)) = [J EXCEPT ![n + 1] = DataEvent(x \o y)]
    BY <1>2, <2>2, <2>6, <2>7, Zenon
  <2>9. x \o y \in Seq(Byte)
    BY ConcatProperties
  <2>10. DataEvent(x \o y) \in Event
    BY <2>9, EventTypes
  <2>11. x \o y # <<>>
    BY <1>7, ConcatEqualIffEmpty
  <2>12. [J EXCEPT ![n + 1] = DataEvent(x \o y)] = U \o <<DataEvent(x \o y)>>
    <3> DEFINE e == DataEvent(x \o y)
               V == [J EXCEPT ![n + 1] = e]
               W == U \o <<e>>
    <3>1. e \in Event
      BY <2>10
    <3> HIDE DEF e
    <3>2. n + 1 \in 1..Len(J)
      BY <1>1, <2>2
    <3>3. /\ V \in Seq(Event) /\ Len(V) = n + 1
          /\ \A i \in 1..(n + 1) : V[i] = IF i = n + 1 THEN e ELSE J[i]
      BY <2>2, <3>1, <3>2, ExceptSeq
    <3>4. /\ W \in Seq(Event) /\ Len(W) = n + 1 /\ W[n + 1] = e
          /\ \A i \in 1..n : W[i] = U[i]
      BY <1>1, <3>1 DEF n
    <3> HIDE DEF V, W
    <3>5. \A i \in 1..Len(V) : V[i] = W[i]
      <4>1. ASSUME NEW i \in 1..(n + 1) PROVE i \in 1..n \/ i = n + 1
        BY <1>1
      <4>2. \A i \in 1..n : i # n + 1
        BY <1>1
      <4> QED
        BY <2>2, <3>3, <3>4, <4>1, <4>2
    <3>6. V = W
      BY <3>3, <3>4, <3>5, SeqEqual
    <3> QED
      BY <3>6 DEF V, W, e
  <2>13. DataOf(x \o y) = <<DataEvent(x \o y)>>
    BY <2>11 DEF DataOf
  <2>14. Joined(s \o DataOf(y)) = U \o DataOf(x \o y)
    BY <2>1, <2>5, <2>8, <2>12, <2>13
  <2> QED
    BY <2>14 DEF U
<1> QED
  BY <1>5, <1>6, <1>7

(* The delimiter's line end, found in what is buffered of the body.        *)
LEMMA DataEndAgrees ==
  ASSUME NEW m, NEW k, NEW p, NEW f, Window(m, k, p, f),
         HeaderEnds(PieceOf(m, k)) # {}, EndOf(m, k) <= f,
         BodyStart(m, k) <= p, BodyStart(m, k) < EndOf(m, k), p <= DataEnd(m, k),
         p = BodyStart(m, k) \/ p + 2 <= EndOf(m, k) \/ p = DataEnd(m, k)
  PROVE  p + BodyDataEnd(Slice(m, p, f), EndOf(m, k) - p) = DataEnd(m, k)
<1> DEFINE B == BodyStart(m, k)
           E == EndOf(m, k)
           D == DataEnd(m, k)
           buf == Slice(m, p, f)
           body == Slice(m, B, E)
           n == E - p
<1>1. /\ m \in Seq(Byte) /\ k \in 1..Count(m) /\ p \in Nat /\ f \in Nat /\ E \in Nat
      /\ p <= E /\ E <= f /\ E <= Len(m)
  BY WindowBounds
<1>2. B \in Nat /\ D \in Nat /\ B <= D /\ D <= E /\ D = E - LineEndLength(body)
  BY <1>1, BodySlices
<1>3. /\ Len(buf) = f - p /\ \A i \in 1..(f - p) : buf[i] = m[p + i]
  BY WindowBuffer
<1>4. Len(body) = E - B /\ \A i \in 1..(E - B) : body[i] = m[B + i]
  <2>1. B \in Nat /\ B <= E
    BY <1>1, <1>2
  <2> HIDE DEF B, E
  <2> QED
    BY <1>1, <2>1, SliceProperties, Zenon
<1>5. B <= p /\ B < E /\ p <= D /\ (p = B \/ p + 2 <= E \/ p = D)
  OBVIOUS
<1> HIDE DEF B, E, D, buf, body
<1>6. n \in Nat /\ n <= f - p /\ E - B >= 1 /\ E - B \in Nat
  BY <1>1, <1>2, <1>5
<1>7. n >= 1 => buf[n] = m[E]
  <2>1. ASSUME n >= 1 PROVE n \in 1..(f - p) /\ p + n = E
    BY <1>1, <1>6, <2>1
  <2> QED
    BY <1>3, <2>1
<1>8. n >= 2 => buf[n - 1] = m[E - 1]
  <2>1. ASSUME n >= 2 PROVE n - 1 \in 1..(f - p) /\ p + (n - 1) = E - 1
    BY <1>1, <1>6, <2>1
  <2> QED
    BY <1>3, <2>1
<1>9. body[Len(body)] = m[E]
  <2>1. E - B \in 1..(E - B) /\ B + (E - B) = E
    BY <1>1, <1>2, <1>5
  <2> QED
    BY <1>4, <2>1
<1>10. Len(body) >= 2 => body[Len(body) - 1] = m[E - 1]
  <2>1. ASSUME Len(body) >= 2
        PROVE  Len(body) - 1 \in 1..(E - B) /\ B + (Len(body) - 1) = E - 1
    BY <1>1, <1>2, <1>4, <2>1
  <2> QED
    BY <1>4, <2>1
<1>11. CR # LF
  BY BytesDiffer
<1> DEFINE two == Len(body) >= 2 /\ m[E - 1] = CR /\ m[E] = LF
           one == m[E] \in {CR, LF}
<1>12. LineEndLength(body) = IF two THEN 2 ELSE IF one THEN 1 ELSE 0
  <2>1. Len(body) >= 1
    BY <1>4, <1>6
  <2> QED
    BY <1>9, <1>10, <2>1 DEF LineEndLength
<1>13. BodyDataEnd(buf, n)
         = LET lf == IF n > 0 /\ buf[n] = LF THEN n - 1 ELSE n
           IN  IF lf > 0 /\ buf[lf] = CR THEN lf - 1 ELSE lf
  BY DEF BodyDataEnd
<1>14. CASE p = D
  <2>1. n = LineEndLength(body)
    <3>1. LineEndLength(body) \in Nat
      BY LineEndLengthRange
    <3> QED
      BY <1>1, <1>2, <1>14, <3>1
  <2>2. CASE two
    <3>1. n = 2
      BY <1>12, <2>1, <2>2
    <3>2. buf[2] = LF /\ buf[1] = CR
      BY <1>7, <1>8, <2>2, <3>1
    <3>3. BodyDataEnd(buf, n) = 0
      BY <1>13, <3>1, <3>2
    <3> QED
      BY <1>1, <1>14, <3>3 DEF D, E, buf
  <2>3. CASE ~two /\ one
    <3>1. n = 1
      BY <1>12, <2>1, <2>3
    <3>2. buf[1] = m[E]
      BY <1>7, <3>1
    <3>3. BodyDataEnd(buf, n) = 0
      BY <1>11, <1>13, <2>3, <3>1, <3>2
    <3> QED
      BY <1>1, <1>14, <3>3 DEF D, E, buf
  <2>4. CASE ~two /\ ~one
    <3>1. n = 0
      BY <1>12, <2>1, <2>4
    <3>2. BodyDataEnd(buf, n) = 0
      BY <1>13, <3>1
    <3> QED
      BY <1>1, <1>14, <3>2 DEF D, E, buf
  <2> QED
    BY <2>2, <2>3, <2>4
<1>15. CASE p # D /\ (p = B \/ p + 2 <= E)
  <2>1. n >= 1
    BY <1>1, <1>2, <1>5, <1>15
  <2>2. Len(body) >= 2 <=> n >= 2
    BY <1>1, <1>2, <1>4, <1>5, <1>15
  <2>3. buf[n] = m[E] /\ (n >= 2 => buf[n - 1] = m[E - 1])
    BY <1>7, <1>8, <2>1
  <2>4. D = p + (n - LineEndLength(body))
    BY <1>1, <1>2, <1>12
  <2> HIDE DEF n
  <2>5. CASE two
    <3>1. n >= 2 /\ buf[n] = LF /\ buf[n - 1] = CR /\ LineEndLength(body) = 2
      BY <1>12, <2>2, <2>3, <2>5
    <3>2. BodyDataEnd(buf, n) = n - 2
      BY <1>6, <1>13, <3>1
    <3> QED
      BY <2>4, <3>1, <3>2 DEF n, D, E, buf
  <2>6. CASE ~two /\ m[E] = LF
    <3>1. buf[n] = LF /\ LineEndLength(body) = 1
      BY <1>12, <2>3, <2>6
    <3>2. n - 1 > 0 => buf[n - 1] # CR
      BY <1>6, <2>2, <2>3, <2>6
    <3>3. BodyDataEnd(buf, n) = n - 1
      BY <1>6, <1>13, <2>1, <3>1, <3>2
    <3> QED
      BY <2>4, <3>1, <3>3 DEF n, D, E, buf
  <2>7. CASE ~two /\ m[E] = CR
    <3>1. buf[n] = CR /\ buf[n] # LF /\ LineEndLength(body) = 1
      BY <1>11, <1>12, <2>3, <2>7
    <3>2. BodyDataEnd(buf, n) = n - 1
      BY <1>6, <1>13, <2>1, <3>1
    <3> QED
      BY <2>4, <3>1, <3>2 DEF n, D, E, buf
  <2>8. CASE ~two /\ ~one
    <3>1. buf[n] # CR /\ buf[n] # LF /\ LineEndLength(body) = 0
      BY <1>12, <2>3, <2>8
    <3>2. BodyDataEnd(buf, n) = n
      BY <1>6, <1>13, <2>1, <3>1
    <3> QED
      BY <1>6, <2>4, <3>1, <3>2 DEF n, D, E, buf
  <2> QED
    BY <2>5, <2>6, <2>7, <2>8
<1> QED
  BY <1>5, <1>14, <1>15
=============================================================================
