------------------------------ MODULE FieldProofs ------------------------------
(***************************************************************************)
(* What the fields come to, for every number of upload handlers and every  *)
(* limit: POST holds the fields of the message, and the limit on their     *)
(* memory is exact.  Both are sums over the events.                        *)
(***************************************************************************)
EXTENDS UploadProofs

(* Induction over the naturals, said of a set.                             *)
LEMMA Induct ==
  ASSUME NEW T \in SUBSET Nat, 0 \in T, \A n \in T : n + 1 \in T
  PROVE  T = Nat
<1> SUFFICES ASSUME T # Nat PROVE FALSE
  OBVIOUS
<1> DEFINE Missing == {1..k : k \in Nat \ T}
<1>1. \A k \in Nat : IsFiniteSet(1..k) /\ 1..k \subseteq Nat
  BY FS_Interval
<1>2. Missing \subseteq FiniteSubsetsOf(Nat) /\ Missing # {}
  BY <1>1 DEF FiniteSubsetsOf
<1>3. PICK x \in Missing : \A y \in Missing : <<y, x>> \notin StrictSubsetOrdering(Nat)
  BY <1>2, FS_StrictSubsetOrderingWellFounded, WFMin, Zenon
<1>4. PICK m \in Nat \ T : x = 1..m
  OBVIOUS
<1>5. m # 0 /\ m - 1 \in Nat
  OBVIOUS
<1>6. m - 1 \notin T
  BY <1>4, <1>5
<1>7. 1..(m - 1) \subseteq 1..m /\ m \in 1..m /\ m \notin 1..(m - 1)
  BY <1>5
<1>8. <<1..(m - 1), x>> \in StrictSubsetOrdering(Nat)
  BY <1>1, <1>4, <1>5, <1>7 DEF StrictSubsetOrdering
<1> QED
  BY <1>3, <1>5, <1>6, <1>8

(* The partial sums of a sequence of numbers.                              *)
PartialSums(f, w) ==
  /\ f \in [0..Len(w) -> Nat]
  /\ f[0] = 0
  /\ \A n \in 1..Len(w) : f[n] = f[n - 1] + w[n]

LEMMA SumsExist ==
  ASSUME NEW w \in Seq(Nat)
  PROVE  \E f : PartialSums(f, w)
<1> DEFINE Upto(f, m) ==
             /\ f \in [0..m -> Nat]
             /\ f[0] = 0
             /\ \A n \in 1..m : f[n] = f[n - 1] + w[n]
           T == {m \in Nat : m <= Len(w) => \E f : Upto(f, m)}
<1>1. Len(w) \in Nat /\ \A n \in 1..Len(w) : w[n] \in Nat
  OBVIOUS
<1>2. 0 \in T
  <2>1. Upto([n \in 0..0 |-> 0], 0)
    OBVIOUS
  <2> QED
    BY <2>1
<1>3. ASSUME NEW m \in T PROVE m + 1 \in T
  <2>1. m \in Nat /\ m + 1 \in Nat
    OBVIOUS
  <2> HIDE DEF Upto
  <2> SUFFICES ASSUME m + 1 <= Len(w) PROVE \E f : Upto(f, m + 1)
    BY <2>1
  <2>0. \E f : Upto(f, m)
    BY <1>1, <2>1
  <2> USE DEF Upto
  <2>2. PICK f : Upto(f, m)
    BY <2>0
  <2> DEFINE g == [n \in 0..(m + 1) |-> IF n = m + 1 THEN f[m] + w[m + 1] ELSE f[n]]
  <2>3. w[m + 1] \in Nat /\ f[m] \in Nat
    BY <1>1, <2>1, <2>2
  <2>4. g \in [0..(m + 1) -> Nat] /\ g[0] = 0
    BY <2>1, <2>2, <2>3
  <2>5. ASSUME NEW n \in 1..(m + 1) PROVE g[n] = g[n - 1] + w[n]
    <3>1. CASE n = m + 1
      BY <2>1, <3>1
    <3>2. CASE n # m + 1
      <4>1. n \in 1..m /\ n \in 0..(m + 1) /\ n - 1 \in 0..(m + 1) /\ n - 1 # m + 1
        BY <2>1, <3>2
      <4> QED
        BY <2>2, <3>2, <4>1
    <3> QED
      BY <3>1, <3>2
  <2> QED
    BY <2>4, <2>5
<1>4. T = Nat
  <2>1. T \in SUBSET Nat
    OBVIOUS
  <2> HIDE DEF T
  <2> QED
    BY <1>2, <1>3, <2>1, Induct
<1> HIDE DEF Upto
<1>5. \E f : Upto(f, Len(w))
  BY <1>1, <1>4
<1> USE DEF Upto
<1> QED
  BY <1>5 DEF PartialSums

LEMMA SumIsPartial ==
  ASSUME NEW w \in Seq(Nat)
  PROVE  \E f : PartialSums(f, w) /\ SumOf(w) = f[Len(w)]
<1> DEFINE Recursion(f) ==
             f = [n \in 0..Len(w) |-> IF n = 0 THEN 0 ELSE f[n - 1] + w[n]]
           total == CHOOSE f : Recursion(f)
<1>0. Len(w) \in Nat /\ \A n \in 1..Len(w) : w[n] \in Nat
  OBVIOUS
<1>1. PICK f : PartialSums(f, w)
  BY SumsExist
<1>2. Recursion(f)
  <2>1. DOMAIN f = 0..Len(w) /\ f = [n \in 0..Len(w) |-> f[n]]
    BY <1>1 DEF PartialSums
  <2>2. \A n \in 0..Len(w) : f[n] = IF n = 0 THEN 0 ELSE f[n - 1] + w[n]
    BY <1>0, <1>1 DEF PartialSums
  <2> QED
    BY <2>1, <2>2
<1>3. Recursion(total)
  BY <1>2
<1>4. SumOf(w) = total[Len(w)]
  BY DEF SumOf
<1> HIDE DEF total
<1>5. /\ DOMAIN total = 0..Len(w)
      /\ \A n \in 0..Len(w) : total[n] = IF n = 0 THEN 0 ELSE total[n - 1] + w[n]
  BY <1>3
<1> DEFINE T == {n \in Nat : n <= Len(w) => total[n] \in Nat}
<1>6. T \in SUBSET Nat /\ 0 \in T
  BY <1>0, <1>5
<1>7. ASSUME NEW n \in T PROVE n + 1 \in T
  <2>1. n \in Nat /\ n + 1 \in Nat /\ (n + 1) - 1 = n
    OBVIOUS
  <2> SUFFICES ASSUME n + 1 <= Len(w) PROVE total[n + 1] \in Nat
    BY <2>1
  <2>2. n + 1 \in 0..Len(w) /\ n + 1 # 0 /\ total[n] \in Nat /\ n + 1 \in 1..Len(w)
    BY <1>0, <2>1
  <2>3. total[n + 1] = total[(n + 1) - 1] + w[n + 1]
    BY <1>5, <2>2
  <2> QED
    BY <1>0, <2>1, <2>2, <2>3
<1> HIDE DEF T
<1>8. T = Nat
  BY <1>6, <1>7, Induct
<1> USE DEF T
<1>9. \A n \in 0..Len(w) : total[n] \in Nat
  BY <1>0, <1>8
<1>10. total \in [0..Len(w) -> Nat]
  BY <1>3, <1>5, <1>9
<1>11. PartialSums(total, w)
  BY <1>0, <1>5, <1>10 DEF PartialSums
<1> QED
  BY <1>4, <1>11

LEMMA SumOfZeros ==
  ASSUME NEW w \in Seq(Nat), \A n \in 1..Len(w) : w[n] = 0
  PROVE  SumOf(w) = 0
<1> DEFINE T(f) == {n \in Nat : n <= Len(w) => f[n] = 0}
<1>1. PICK f : PartialSums(f, w) /\ SumOf(w) = f[Len(w)]
  BY SumIsPartial
<1>2. Len(w) \in Nat
  OBVIOUS
<1>3. T(f) \in SUBSET Nat /\ 0 \in T(f)
  BY <1>1 DEF PartialSums
<1>4. ASSUME NEW n \in T(f) PROVE n + 1 \in T(f)
  <2>1. n \in Nat /\ n + 1 \in Nat /\ (n + 1) - 1 = n
    OBVIOUS
  <2> SUFFICES ASSUME n + 1 <= Len(w) PROVE f[n + 1] = 0
    BY <2>1
  <2>2. n + 1 \in 1..Len(w) /\ f[n] = 0
    BY <1>2, <2>1
  <2>3. f[n + 1] = f[(n + 1) - 1] + w[n + 1] /\ w[n + 1] = 0
    BY <1>1, <2>2 DEF PartialSums
  <2> QED
    BY <2>1, <2>2, <2>3
<1>5. T(f) = Nat
  <2> HIDE DEF T
  <2> QED
    BY <1>3, <1>4, Induct
<1> QED
  BY <1>1, <1>2, <1>5

(* One more number is added to the sum of the others.                      *)
LEMMA SumAppend ==
  ASSUME NEW w \in Seq(Nat), NEW x \in Nat
  PROVE  SumOf(w) \in Nat /\ SumOf(Append(w, x)) = SumOf(w) + x
<1> DEFINE v == Append(w, x)
<1>1. /\ v \in Seq(Nat) /\ Len(v) = Len(w) + 1 /\ Len(w) \in Nat
      /\ \A n \in 1..Len(w) : v[n] = w[n]
      /\ v[Len(w) + 1] = x
  BY AppendProperties, LenProperties
<1> HIDE DEF v
<1>2. PICK f : PartialSums(f, w) /\ SumOf(w) = f[Len(w)]
  BY SumIsPartial
<1>3. PICK g : PartialSums(g, v) /\ SumOf(v) = g[Len(v)]
  BY <1>1, SumIsPartial
<1> DEFINE T == {n \in Nat : n <= Len(w) => g[n] = f[n]}
<1>4. T \in SUBSET Nat /\ 0 \in T
  BY <1>2, <1>3 DEF PartialSums
<1>5. ASSUME NEW n \in T PROVE n + 1 \in T
  <2>1. n \in Nat /\ n + 1 \in Nat /\ (n + 1) - 1 = n
    OBVIOUS
  <2> SUFFICES ASSUME n + 1 <= Len(w) PROVE g[n + 1] = f[n + 1]
    BY <2>1
  <2>2. n + 1 \in 1..Len(w) /\ n + 1 \in 1..Len(v) /\ g[n] = f[n]
    BY <1>1, <2>1
  <2>3. /\ f[n + 1] = f[(n + 1) - 1] + w[n + 1] /\ g[n + 1] = g[(n + 1) - 1] + v[n + 1]
        /\ v[n + 1] = w[n + 1]
    BY <1>1, <1>2, <1>3, <2>2 DEF PartialSums
  <2> QED
    BY <2>1, <2>2, <2>3
<1>6. T = Nat
  <2> HIDE DEF T
  <2> QED
    BY <1>4, <1>5, Induct
<1>7. g[Len(w)] = f[Len(w)]
  BY <1>1, <1>6
<1>8. g[Len(w) + 1] = g[(Len(w) + 1) - 1] + v[Len(w) + 1] /\ (Len(w) + 1) - 1 = Len(w)
  <2>1. Len(w) + 1 \in 1..Len(v)
    BY <1>1
  <2> QED
    BY <1>1, <1>3, <2>1 DEF PartialSums
<1>9. SumOf(w) \in Nat
  BY <1>1, <1>2 DEF PartialSums
<1> QED
  BY <1>1, <1>2, <1>3, <1>7, <1>8, <1>9 DEF v

(* A number of the sequence can be exchanged in the sum.                   *)
LEMMA SumChange ==
  ASSUME NEW w \in Seq(Nat), NEW v \in Seq(Nat), Len(v) = Len(w), NEW i \in 1..Len(w),
         \A n \in 1..Len(w) : n # i => v[n] = w[n]
  PROVE  SumOf(v) + w[i] = SumOf(w) + v[i]
<1>1. PICK f : PartialSums(f, w) /\ SumOf(w) = f[Len(w)]
  BY SumIsPartial
<1>2. PICK g : PartialSums(g, v) /\ SumOf(v) = g[Len(v)]
  BY SumIsPartial
<1>3. /\ Len(w) \in Nat /\ i \in Nat
      /\ \A n \in 1..Len(w) : w[n] \in Nat /\ v[n] \in Nat
  OBVIOUS
<1> DEFINE Apart(n) == IF n < i THEN g[n] = f[n] ELSE g[n] + w[i] = f[n] + v[i]
           T == {n \in Nat : n <= Len(w) => Apart(n)}
<1>4. T \in SUBSET Nat /\ 0 \in T
  <2>1. Apart(0)
    BY <1>1, <1>2, <1>3 DEF PartialSums
  <2> QED
    BY <2>1
<1>5. ASSUME NEW n \in T PROVE n + 1 \in T
  <2>1. n \in Nat /\ n + 1 \in Nat /\ (n + 1) - 1 = n
    OBVIOUS
  <2> HIDE DEF Apart
  <2> SUFFICES ASSUME n + 1 <= Len(w) PROVE Apart(n + 1)
    BY <2>1
  <2>2. n + 1 \in 1..Len(w) /\ Apart(n) /\ n \in 0..Len(w)
    BY <1>3, <2>1
  <2> USE DEF Apart
  <2>3. f[n + 1] = f[n] + w[n + 1] /\ g[n + 1] = g[n] + v[n + 1]
    <3>1. /\ f[n + 1] = f[(n + 1) - 1] + w[n + 1] /\ g[n + 1] = g[(n + 1) - 1] + v[n + 1]
      BY <1>1, <1>2, <2>2 DEF PartialSums
    <3> QED
      BY <2>1, <3>1
  <2>4. f[n] \in Nat /\ g[n] \in Nat /\ w[i] \in Nat /\ v[i] \in Nat
        /\ w[n + 1] \in Nat /\ v[n + 1] \in Nat
    BY <1>1, <1>2, <1>3, <2>2 DEF PartialSums
  <2>5. CASE n + 1 < i
    BY <1>3, <2>1, <2>2, <2>3, <2>5
  <2>6. CASE n + 1 = i
    <3>1. g[n] = f[n] /\ w[n + 1] = w[i] /\ v[n + 1] = v[i]
      BY <1>3, <2>1, <2>2, <2>6, SMTT(30)
    <3>2. g[n + 1] + w[i] = f[n + 1] + v[i] /\ ~(n + 1 < i)
      BY <1>3, <2>3, <2>4, <2>6, <3>1
    <3> QED
      BY <3>2
  <2>7. CASE n + 1 > i
    <3>1. g[n] + w[i] = f[n] + v[i] /\ w[n + 1] = v[n + 1]
      BY <1>3, <2>1, <2>2, <2>7
    <3> DEFINE a == g[n]
               b == f[n]
               c == w[i]
               d == v[i]
               x == v[n + 1]
    <3>2. /\ a \in Nat /\ b \in Nat /\ c \in Nat /\ d \in Nat /\ x \in Nat
          /\ a + c = b + d
      BY <2>4, <3>1
    <3>3. g[n + 1] = a + x /\ f[n + 1] = b + x
      BY <2>3, <3>1
    <3>4. ~(n + 1 < i)
      BY <1>3, <2>1, <2>7
    <3> HIDE DEF a, b, x
    <3>5. (a + x) + c = (b + x) + d
      <4> HIDE DEF c, d
      <4> QED
        BY <3>2
    <3> QED
      BY <3>3, <3>4, <3>5
  <2> QED
    BY <1>3, <2>1, <2>5, <2>6, <2>7
<1>6. T = Nat
  <2> HIDE DEF T
  <2> QED
    BY <1>4, <1>5, Induct
<1>7. Apart(Len(w))
  <2> HIDE DEF Apart
  <2> QED
    BY <1>3, <1>6
<1> QED
  BY <1>1, <1>2, <1>3, <1>7

-----------------------------------------------------------------------------
(* The fields that the events s tell of: the part that begins at event i   *)
(* is open while nothing but its data follows, and the data that follow it *)
(* directly are its data.                                                  *)
IsNamed(e) == e.kind = "Begin" /\ e.part.filename = "absent" /\ e.part.name # {}
Named(s) == {i \in 1..Len(s) : IsNamed(s[i])}

Followed(s, i) == \A k \in (i + 1)..Len(s) : s[k].kind = "Data"
IsOpen(s, i) == i \in 1..Len(s) /\ s[i].kind = "Begin" /\ Followed(s, i)
Ended(s) == {i \in Named(s) : ~IsOpen(s, i)}

Run(s, i) ==
  {j \in 1..Len(s) : /\ s[j].kind = "Data" /\ j > i
                     /\ \A k \in (i + 1)..j : s[k].kind = "Data"}

Sizes(s, i) == [n \in 1..Len(s) |-> IF n \in Run(s, i) THEN s[n].size ELSE 0]
Size(s, i) == SumOf(Sizes(s, i))
Name(s, i) == CHOOSE n \in s[i].part.name : TRUE
FieldSum(s, i) == Size(s, i) + Name(s, i) + 2
Costs(s, F) == [n \in 1..Len(s) |-> IF n \in F THEN FieldSum(s, n) ELSE 0]
CostOf(s, F) == SumOf(Costs(s, F))

LEMMA SizeType ==
  ASSUME NEW s \in Seq(Event), NEW i \in 1..Len(s)
  PROVE  Sizes(s, i) \in Seq(Nat) /\ Len(Sizes(s, i)) = Len(s) /\ Size(s, i) \in Nat
<1>1. ASSUME NEW n \in Run(s, i) PROVE s[n].size \in Nat
  <2>1. s[n] \in Event /\ s[n].kind = "Data"
    BY DEF Run
  <2> QED
    BY <2>1, UploadAssumption DEF Event
<1>2. Len(s) \in Nat
  OBVIOUS
<1>3. Sizes(s, i) \in [1..Len(s) -> Nat]
  BY <1>1 DEF Sizes
<1>4. Sizes(s, i) \in Seq(Nat) /\ Len(Sizes(s, i)) = Len(s)
  BY <1>2, <1>3
<1> QED
  BY <1>4, SumAppend DEF Size

LEMMA FieldSumType ==
  ASSUME NEW s \in Seq(Event), NEW i \in Named(s)
  PROVE  i \in 1..Len(s) /\ Name(s, i) \in Nat /\ FieldSum(s, i) \in Nat
<1>1. i \in 1..Len(s) /\ IsNamed(s[i]) /\ s[i] \in Event
  BY DEF Named
<1>2. s[i].part \in PartHeaders
  BY <1>1, UploadAssumption DEF Event, IsNamed
<1>3. Name(s, i) \in Nat
  BY <1>1, <1>2 DEF Name, PartHeaders, IsNamed
<1> QED
  BY <1>1, <1>3, SizeType DEF FieldSum

LEMMA CostType ==
  ASSUME NEW s \in Seq(Event), NEW F \in SUBSET Named(s)
  PROVE  Costs(s, F) \in Seq(Nat) /\ Len(Costs(s, F)) = Len(s) /\ CostOf(s, F) \in Nat
<1>1. Len(s) \in Nat
  OBVIOUS
<1>2. Costs(s, F) \in [1..Len(s) -> Nat]
  BY FieldSumType DEF Costs
<1>3. Costs(s, F) \in Seq(Nat) /\ Len(Costs(s, F)) = Len(s)
  BY <1>1, <1>2
<1> QED
  BY <1>3, SumAppend DEF CostOf

(* One field more.                                                         *)
LEMMA CostAdd ==
  ASSUME NEW s \in Seq(Event), NEW F \in SUBSET Named(s), NEW b \in Named(s), b \notin F
  PROVE  CostOf(s, F \cup {b}) = CostOf(s, F) + FieldSum(s, b)
<1> DEFINE w == Costs(s, F)
           v == Costs(s, F \cup {b})
<1>1. /\ w \in Seq(Nat) /\ Len(w) = Len(s) /\ CostOf(s, F) \in Nat
      /\ v \in Seq(Nat) /\ Len(v) = Len(s) /\ CostOf(s, F \cup {b}) \in Nat
      /\ b \in 1..Len(s) /\ FieldSum(s, b) \in Nat
  BY CostType, FieldSumType
<1>2. /\ w[b] = 0 /\ v[b] = FieldSum(s, b)
      /\ \A n \in 1..Len(s) : n # b => v[n] = w[n]
  BY <1>1 DEF Costs
<1> HIDE DEF w, v
<1>3. SumOf(v) + w[b] = SumOf(w) + v[b]
  BY <1>1, <1>2, SumChange
<1>4. SumOf(v) = CostOf(s, F \cup {b}) /\ SumOf(w) = CostOf(s, F)
  BY DEF CostOf, w, v
<1> QED
  BY <1>1, <1>2, <1>3, <1>4

-----------------------------------------------------------------------------
(* What another event changes.                                             *)
LEMMA AppendFacts ==
  ASSUME NEW s \in Seq(Event), NEW e \in Event
  PROVE  /\ Append(s, e) \in Seq(Event) /\ Len(s) \in Nat /\ Len(Append(s, e)) = Len(s) + 1
         /\ \A i \in 1..Len(s) : Append(s, e)[i] = s[i]
         /\ Append(s, e)[Len(s) + 1] = e
BY AppendProperties, LenProperties

LEMMA OpenAppend ==
  ASSUME NEW s \in Seq(Event), NEW e \in Event
  PROVE  LET t == Append(s, e)
         IN  /\ \A i \in 1..Len(s) : IsOpen(t, i) <=> IsOpen(s, i) /\ e.kind = "Data"
             /\ IsOpen(t, Len(s) + 1) <=> e.kind = "Begin"
             /\ Named(t) = Named(s) \cup (IF IsNamed(e) THEN {Len(s) + 1} ELSE {})
<1> DEFINE t == Append(s, e)
<1>1. /\ t \in Seq(Event) /\ Len(s) \in Nat /\ Len(t) = Len(s) + 1
      /\ \A i \in 1..Len(s) : t[i] = s[i]
      /\ t[Len(s) + 1] = e
  BY AppendFacts
<1> HIDE DEF t
<1>2. ASSUME NEW i \in 1..Len(s)
      PROVE  IsOpen(t, i) <=> IsOpen(s, i) /\ e.kind = "Data"
  <2>1. (i + 1)..Len(t) = ((i + 1)..Len(s)) \cup {Len(s) + 1} /\ i \in 1..Len(t)
    BY <1>1
  <2>2. \A k \in (i + 1)..Len(s) : t[k] = s[k]
    BY <1>1
  <2> QED
    BY <1>1, <2>1, <2>2 DEF IsOpen, Followed
<1>3. IsOpen(t, Len(s) + 1) <=> e.kind = "Begin"
  BY <1>1 DEF IsOpen, Followed
<1>4. Named(t) = Named(s) \cup (IF IsNamed(e) THEN {Len(s) + 1} ELSE {})
  <2>1. 1..Len(t) = (1..Len(s)) \cup {Len(s) + 1}
    BY <1>1
  <2> QED
    BY <1>1, <2>1 DEF Named
<1> QED
  BY <1>2, <1>3, <1>4 DEF t

LEMMA SizeAppend ==
  ASSUME NEW s \in Seq(Event), NEW e \in Event
  PROVE  LET t == Append(s, e)
         IN  /\ Size(t, Len(s) + 1) = 0
             /\ \A i \in 1..Len(s) :
                  Size(t, i) = Size(s, i) + (IF e.kind = "Data" /\ Followed(s, i) THEN e.size ELSE 0)
<1> DEFINE t == Append(s, e)
<1>1. /\ t \in Seq(Event) /\ Len(s) \in Nat /\ Len(t) = Len(s) + 1
      /\ \A i \in 1..Len(s) : t[i] = s[i]
      /\ t[Len(s) + 1] = e
  BY AppendFacts
<1> HIDE DEF t
<1>2. ASSUME NEW i \in 1..Len(s)
      PROVE  Size(t, i) = Size(s, i) + (IF e.kind = "Data" /\ Followed(s, i) THEN e.size ELSE 0)
  <2> DEFINE x == IF e.kind = "Data" /\ Followed(s, i) THEN e.size ELSE 0
  <2>1. x \in Nat
    BY UploadAssumption DEF Event
  <2>2. /\ Sizes(s, i) \in Seq(Nat) /\ Len(Sizes(s, i)) = Len(s)
        /\ Sizes(t, i) \in Seq(Nat) /\ Len(Sizes(t, i)) = Len(t)
    BY <1>1, SizeType
  <2>3. ASSUME NEW n \in 1..Len(s) PROVE n \in Run(t, i) <=> n \in Run(s, i)
    <3>1. n \in 1..Len(t) /\ \A k \in (i + 1)..n : t[k] = s[k]
      BY <1>1
    <3> QED
      BY <1>1, <3>1 DEF Run
  <2>4. Len(s) + 1 \in Run(t, i) <=> e.kind = "Data" /\ Followed(s, i)
    <3>1. (i + 1)..(Len(s) + 1) = ((i + 1)..Len(s)) \cup {Len(s) + 1}
      BY <1>1
    <3>2. \A k \in (i + 1)..Len(s) : t[k] = s[k]
      BY <1>1
    <3> QED
      BY <1>1, <3>1, <3>2 DEF Run, Followed
  <2> HIDE DEF x
  <2>5. /\ \A n \in 1..Len(s) : Sizes(t, i)[n] = Sizes(s, i)[n]
        /\ Sizes(t, i)[Len(s) + 1] = x
    BY <1>1, <2>3, <2>4 DEF Sizes, x
  <2>6. Sizes(t, i) = Append(Sizes(s, i), x)
    <3>1. /\ Append(Sizes(s, i), x) \in Seq(Nat)
          /\ Len(Append(Sizes(s, i), x)) = Len(s) + 1
          /\ \A n \in 1..Len(s) : Append(Sizes(s, i), x)[n] = Sizes(s, i)[n]
          /\ Append(Sizes(s, i), x)[Len(s) + 1] = x
      <4> DEFINE a == Sizes(s, i)
      <4>1. a \in Seq(Nat) /\ Len(a) = Len(s)
        BY <2>2
      <4> HIDE DEF a
      <4>2. /\ Append(a, x) \in Seq(Nat) /\ Len(Append(a, x)) = Len(s) + 1
            /\ \A n \in 1..Len(s) : Append(a, x)[n] = a[n]
            /\ Append(a, x)[Len(s) + 1] = x
        BY <2>1, <4>1, AppendProperties
      <4> QED
        BY <4>2 DEF a
    <3>2. \A n \in 1..(Len(s) + 1) : n \in 1..Len(s) \/ n = Len(s) + 1
      BY <1>1
    <3> QED
      BY <1>1, <2>2, <2>5, <3>1, <3>2, SeqEqual, SMTT(30)
  <2>7. SumOf(Sizes(t, i)) = SumOf(Sizes(s, i)) + x
    BY <2>1, <2>2, <2>6, SumAppend
  <2> QED
    BY <2>7 DEF Size, x
<1>3. Size(t, Len(s) + 1) = 0
  <2>1. Run(t, Len(s) + 1) = {}
    BY <1>1 DEF Run
  <2>2. Sizes(t, Len(s) + 1) \in Seq(Nat) /\ Len(Sizes(t, Len(s) + 1)) = Len(t)
    BY <1>1, SizeType
  <2>3. \A n \in 1..Len(t) : Sizes(t, Len(s) + 1)[n] = 0
    BY <2>1 DEF Sizes
  <2> QED
    BY <2>2, <2>3, SumOfZeros DEF Size
<1> QED
  BY <1>2, <1>3 DEF t

(* Fields that the event does not belong to are what they were, and cost   *)
(* what they did.                                                          *)
LEMMA FieldAppend ==
  ASSUME NEW s \in Seq(Event), NEW e \in Event, NEW i \in Named(s),
         ~(e.kind = "Data" /\ IsOpen(s, i))
  PROVE  LET t == Append(s, e)
         IN  /\ i \in 1..Len(s) /\ t[i] = s[i]
             /\ Name(t, i) = Name(s, i) /\ Size(t, i) = Size(s, i)
<1> DEFINE t == Append(s, e)
<1>1. i \in 1..Len(s) /\ s[i].kind = "Begin"
  BY DEF Named, IsNamed
<1>2. ~(e.kind = "Data" /\ Followed(s, i))
  BY <1>1 DEF IsOpen
<1>3. Size(t, i) = Size(s, i) + 0 /\ Size(s, i) \in Nat
  BY <1>1, <1>2, SizeAppend, SizeType
<1>4. t[i] = s[i]
  BY <1>1, AppendFacts
<1> QED
  BY <1>1, <1>3, <1>4 DEF Name

LEMMA CostAppend ==
  ASSUME NEW s \in Seq(Event), NEW e \in Event, NEW F \in SUBSET Named(s),
         \A i \in F : ~(e.kind = "Data" /\ IsOpen(s, i))
  PROVE  /\ F \in SUBSET Named(Append(s, e))
         /\ CostOf(Append(s, e), F) = CostOf(s, F)
<1> DEFINE t == Append(s, e)
<1>1. /\ t \in Seq(Event) /\ Len(s) \in Nat /\ Len(t) = Len(s) + 1
      /\ \A i \in 1..Len(s) : t[i] = s[i]
  BY AppendFacts
<1>2. F \in SUBSET Named(t)
  BY OpenAppend
<1>3. ASSUME NEW i \in F PROVE i \in 1..Len(s) /\ FieldSum(t, i) = FieldSum(s, i)
  BY FieldAppend DEF FieldSum
<1> HIDE DEF t
<1>4. /\ Costs(s, F) \in Seq(Nat) /\ Len(Costs(s, F)) = Len(s) /\ CostOf(s, F) \in Nat
      /\ Costs(t, F) \in Seq(Nat) /\ Len(Costs(t, F)) = Len(t)
  BY <1>1, <1>2, CostType
<1>5. /\ \A n \in 1..Len(s) : Costs(t, F)[n] = Costs(s, F)[n]
      /\ Costs(t, F)[Len(s) + 1] = 0
  BY <1>1, <1>3 DEF Costs
<1>6. Costs(t, F) = Append(Costs(s, F), 0)
  <2>1. /\ Append(Costs(s, F), 0) \in Seq(Nat)
        /\ Len(Append(Costs(s, F), 0)) = Len(s) + 1
        /\ \A n \in 1..Len(s) : Append(Costs(s, F), 0)[n] = Costs(s, F)[n]
        /\ Append(Costs(s, F), 0)[Len(s) + 1] = 0
    BY <1>4, AppendProperties
  <2>2. \A n \in 1..(Len(s) + 1) : n \in 1..Len(s) \/ n = Len(s) + 1
    BY <1>1
  <2> QED
    BY <1>1, <1>4, <1>5, <2>1, <2>2, SeqEqual
<1>7. CostOf(t, F) = CostOf(s, F) + 0
  BY <1>4, <1>6, SumAppend DEF CostOf
<1> QED
  BY <1>2, <1>4, <1>7 DEF t

(* At most one part is open, and it is the last one.                       *)
LEMMA OneOpen ==
  ASSUME NEW s \in Seq(Event), NEW b, IsOpen(s, b)
  PROVE  /\ IsInside(s)
         /\ \A i \in 1..Len(s) : s[i].kind = "Begin" => i <= b
         /\ \A i : IsOpen(s, i) => i = b
<1>1. Len(s) \in Nat /\ b \in 1..Len(s)
  BY DEF IsOpen
<1>2. Len(s) = b \/ Len(s) \in (b + 1)..Len(s)
  BY <1>1
<1>3. IsInside(s)
  BY <1>1, <1>2 DEF IsInside, IsOpen, Followed
<1>4. ASSUME NEW i \in 1..Len(s), s[i].kind = "Begin" PROVE i <= b
  <2>1. i > b => i \in (b + 1)..Len(s)
    BY <1>1
  <2> QED
    BY <1>1, <1>4, <2>1 DEF IsOpen, Followed
<1>5. ASSUME NEW i, IsOpen(s, i) PROVE i = b
  <2>1. i \in 1..Len(s) /\ i <= b
    BY <1>4, <1>5 DEF IsOpen
  <2>2. b > i => b \in (i + 1)..Len(s)
    BY <1>1, <2>1
  <2> QED
    BY <1>1, <1>5, <2>1, <2>2 DEF IsOpen, Followed
<1> QED
  BY <1>3, <1>4, <1>5

(* Only an End ends a part.                                                *)
LEMMA EndedAppend ==
  ASSUME NEW s \in Seq(Event), NEW e \in Event,
         e.kind \in {"Data", "End"} <=> IsInside(s)
  PROVE  /\ e.kind # "End" => Ended(Append(s, e)) = Ended(s)
         /\ \A b : e.kind = "End" /\ IsOpen(s, b) =>
              Ended(Append(s, e)) = Ended(s) \cup (IF b \in Named(s) THEN {b} ELSE {})
<1> DEFINE t == Append(s, e)
<1>1. /\ \A i \in 1..Len(s) : IsOpen(t, i) <=> IsOpen(s, i) /\ e.kind = "Data"
      /\ IsOpen(t, Len(s) + 1) <=> e.kind = "Begin"
      /\ Named(t) = Named(s) \cup (IF IsNamed(e) THEN {Len(s) + 1} ELSE {})
  BY OpenAppend
<1> HIDE DEF t
<1>2. \A i \in Named(s) : i \in 1..Len(s)
  BY DEF Named
<1>3. IsNamed(e) => e.kind = "Begin"
  BY DEF IsNamed
<1>4. CASE e.kind = "Data"
  BY <1>1, <1>2, <1>3, <1>4 DEF Ended, t
<1>5. CASE e.kind \in {"Begin", "Raw"}
  <2>1. \A i : ~IsOpen(s, i)
    BY <1>5, OneOpen
  <2> QED
    BY <1>1, <1>2, <1>3, <1>5, <2>1 DEF Ended, t
<1>6. CASE e.kind = "End"
  <2>1. Named(t) = Named(s) /\ Ended(t) = Named(s)
    BY <1>1, <1>2, <1>3, <1>6 DEF Ended
  <2>2. ASSUME NEW b, IsOpen(s, b)
        PROVE  Named(s) = Ended(s) \cup (IF b \in Named(s) THEN {b} ELSE {})
    BY <2>2, OneOpen DEF Ended
  <2> QED
    BY <1>6, <2>1, <2>2 DEF t
<1>7. e.kind \in {"Begin", "Data", "End", "Raw"}
  BY DEF Event
<1> QED
  BY <1>4, <1>5, <1>6, <1>7

(* What the fields that have ended cost, after another event.              *)
LEMMA EndedCost ==
  ASSUME NEW s \in Seq(Event), NEW e \in Event,
         e.kind \in {"Data", "End"} <=> IsInside(s)
  PROVE  LET t == Append(s, e)
         IN  /\ CostOf(s, Ended(s)) \in Nat
             /\ e.kind # "End" => CostOf(t, Ended(t)) = CostOf(s, Ended(s))
             /\ \A b : e.kind = "End" /\ IsOpen(s, b) =>
                  CostOf(t, Ended(t))
                    = CostOf(s, Ended(s)) + (IF b \in Named(s) THEN FieldSum(s, b) ELSE 0)
<1> DEFINE t == Append(s, e)
<1>1. Ended(s) \in SUBSET Named(s) /\ \A i \in Ended(s) : ~IsOpen(s, i)
  BY DEF Ended
<1>2. CostOf(s, Ended(s)) \in Nat
  BY <1>1, CostType
<1>3. CostOf(t, Ended(s)) = CostOf(s, Ended(s))
  BY <1>1, CostAppend
<1>4. e.kind # "End" => CostOf(t, Ended(t)) = CostOf(s, Ended(s))
  BY <1>3, EndedAppend
<1>5. ASSUME NEW b, e.kind = "End", IsOpen(s, b)
      PROVE  CostOf(t, Ended(t))
               = CostOf(s, Ended(s)) + (IF b \in Named(s) THEN FieldSum(s, b) ELSE 0)
  <2>1. Ended(t) = Ended(s) \cup (IF b \in Named(s) THEN {b} ELSE {})
    BY <1>5, EndedAppend
  <2>2. CASE b \notin Named(s)
    BY <1>2, <1>3, <2>1, <2>2
  <2>3. CASE b \in Named(s)
    <3>1. Ended(s) \cup {b} \in SUBSET Named(s) /\ b \notin Ended(s)
      BY <1>1, <1>5, <2>3
    <3>2. CostOf(t, Ended(s) \cup {b}) = CostOf(s, Ended(s) \cup {b})
      BY <1>5, <3>1, CostAppend
    <3>3. CostOf(s, Ended(s) \cup {b}) = CostOf(s, Ended(s)) + FieldSum(s, b)
      BY <1>1, <2>3, <3>1, CostAdd
    <3> QED
      BY <2>1, <2>3, <3>2, <3>3
  <2> QED
    BY <2>2, <2>3
<1> QED
  BY <1>2, <1>4, <1>5

-----------------------------------------------------------------------------
(* The properties speak of the same.  In a good stream a part is ended as  *)
(* soon as something else than data follows it, because that is its End.   *)
LEMMA EndFollowsRun ==
  ASSUME delivered \in Seq(Event), Good(delivered),
         NEW i \in 1..Len(delivered), delivered[i].kind = "Begin"
  PROVE  IsEnded(i) <=> ~IsOpen(delivered, i)
<1> DEFINE s == delivered
<1>1. /\ DOMAIN s = 1..Len(s) /\ Len(s) \in Nat /\ i \in Nat /\ s[i].kind = "Begin"
      /\ Good(s) /\ i \in 1..Len(s)
  OBVIOUS
<1>2. DataOf(i) = Run(s, i)
  BY <1>1 DEF DataOf, Indices, Run
<1>3. IsEnded(i) <=> \E j \in 1..Len(s) : s[j].kind = "End" /\ j = i + Cardinality(Run(s, i)) + 1
  BY <1>1, <1>2 DEF IsEnded, Indices
<1> HIDE DEF s
<1>4. ASSUME NEW m \in i..Len(s), \A k \in (i + 1)..m : s[k].kind = "Data",
             m < Len(s) => s[m + 1].kind # "Data"
      PROVE  Cardinality(Run(s, i)) = m - i
  <2>1. Run(s, i) \subseteq (i + 1)..m
    <3> SUFFICES ASSUME NEW j \in Run(s, i), j > m PROVE FALSE
      BY <1>1 DEF Run
    <3>1. m + 1 \in (i + 1)..j /\ m < Len(s) /\ j \in 1..Len(s)
      BY <1>1 DEF Run
    <3> QED
      BY <1>4, <3>1 DEF Run
  <2>2. (i + 1)..m \subseteq Run(s, i)
    <3> SUFFICES ASSUME NEW j \in (i + 1)..m PROVE j \in Run(s, i)
      OBVIOUS
    <3>1. j \in 1..Len(s) /\ j > i /\ (i + 1)..j \subseteq (i + 1)..m
      BY <1>1
    <3> QED
      BY <1>4, <3>1 DEF Run
  <2>3. Cardinality((i + 1)..m) = m - i
    <3>1. i + 1 \in Int /\ m \in Int /\ m >= i
      BY <1>1
    <3> QED
      BY <1>1, <3>1, FS_Interval, SMTT(30)
  <2> QED
    BY <2>1, <2>2, <2>3
<1>5. CASE IsOpen(s, i)
  <2>1. Cardinality(Run(s, i)) = Len(s) - i
    BY <1>1, <1>4, <1>5 DEF IsOpen, Followed
  <2> QED
    BY <1>1, <1>3, <1>5, <2>1 DEF s
<1>6. CASE ~IsOpen(s, i)
  <2> DEFINE T == {m \in Nat : i + m <= Len(s) => \A k \in (i + 1)..(i + m) : s[k].kind = "Data"}
  <2>1. PICK m \in Nat : m \in T /\ m + 1 \notin T
    <3>1. 0 \in T
      BY <1>1
    <3>2. Len(s) - i \in Nat /\ Len(s) - i \notin T
      BY <1>1, <1>6 DEF IsOpen, Followed
    <3>3. T \in SUBSET Nat
      OBVIOUS
    <3> HIDE DEF T
    <3> QED
      BY <3>1, <3>2, <3>3, Induct
  <2>2. /\ i + m + 1 <= Len(s) /\ i + m + 1 \in 1..Len(s)
        /\ \A k \in (i + 1)..(i + m) : s[k].kind = "Data"
    BY <1>1, <2>1
  <2>3. s[i + m + 1].kind # "Data"
    <3>1. PICK k \in (i + 1)..(i + (m + 1)) : s[k].kind # "Data"
      BY <1>1, <2>1
    <3>2. k \in (i + 1)..(i + m) \/ k = i + m + 1
      BY <1>1
    <3> QED
      BY <2>2, <3>1, <3>2
  <2>4. Cardinality(Run(s, i)) = m
    <3>1. i + m \in i..Len(s) /\ (i + m) + 1 = i + m + 1 /\ (i + m) - i = m
      BY <1>1, <2>2
    <3> QED
      BY <1>4, <2>2, <2>3, <3>1
  <2>5. s[i + m + 1].kind = "End"
    <3>1. s[i + m].kind \in {"Begin", "Data"}
      <4>1. m = 0 \/ i + m \in (i + 1)..(i + m)
        BY <1>1
      <4> QED
        BY <1>1, <2>2, <4>1
    <3>2. (i + m + 1) - 1 = i + m /\ i + m + 1 > 1
      BY <1>1
    <3> QED
      BY <1>1, <2>2, <2>3, <3>1, <3>2 DEF Good
  <2> QED
    BY <1>3, <1>6, <2>2, <2>4, <2>5 DEF s
<1> QED
  BY <1>5, <1>6 DEF s

LEMMA FieldsAgree ==
  ASSUME delivered \in Seq(Event), Good(delivered)
  PROVE  /\ NamedFields = Named(delivered)
         /\ \A i \in Named(delivered) :
              /\ IsEnded(i) <=> ~IsOpen(delivered, i)
              /\ SizeOf(i) = Size(delivered, i) /\ NameOf(i) = Name(delivered, i)
         /\ \A F : Cost(F) = CostOf(delivered, F)
<1>1. DOMAIN delivered = 1..Len(delivered)
  BY LenProperties
<1>2. NamedFields = Named(delivered)
  BY <1>1 DEF NamedFields, FieldsBegun, Indices, IsFieldAt, Named, IsNamed
<1>3. \A i : DataOf(i) = Run(delivered, i)
  BY <1>1 DEF DataOf, Indices, Run
<1>4. \A i : SizeOf(i) = Size(delivered, i) /\ NameOf(i) = Name(delivered, i)
  BY <1>1, <1>3 DEF SizeOf, Size, Sizes, NameOf, Name
<1>5. \A F : Cost(F) = CostOf(delivered, F)
  BY <1>1, <1>4 DEF Cost, CostOf, Costs, FieldSum
<1>6. \A i \in Named(delivered) : IsEnded(i) <=> ~IsOpen(delivered, i)
  BY EndFollowsRun DEF Named, IsNamed
<1> QED
  BY <1>2, <1>4, <1>5, <1>6

-----------------------------------------------------------------------------
(* The fields of which something has arrived.                              *)
Arrived(s) == {i \in Named(s) : Size(s, i) > 0 \/ ~IsOpen(s, i)}

(* All fields are those that have ended and the open part if it is one.    *)
LEMMA CostsBetween ==
  ASSUME NEW s \in Seq(Event)
  PROVE  /\ CostOf(s, Ended(s)) \in Nat /\ CostOf(s, Arrived(s)) \in Nat
         /\ CostOf(s, Named(s)) \in Nat
         /\ \/ \E b \in Named(s) :
                 /\ IsOpen(s, b) /\ FieldSum(s, b) \in Nat
                 /\ CostOf(s, Named(s)) = CostOf(s, Ended(s)) + FieldSum(s, b)
                 /\ Arrived(s) \in {Ended(s), Named(s)}
            \/ Ended(s) = Named(s) /\ Arrived(s) = Named(s)
<1>1. Ended(s) \subseteq Arrived(s) /\ Arrived(s) \subseteq Named(s)
  BY DEF Ended, Arrived
<1>2. /\ CostOf(s, Ended(s)) \in Nat /\ CostOf(s, Arrived(s)) \in Nat
      /\ CostOf(s, Named(s)) \in Nat
  BY <1>1, CostType
<1>3. ASSUME NEW b \in Named(s), IsOpen(s, b)
      PROVE  /\ FieldSum(s, b) \in Nat
             /\ CostOf(s, Named(s)) = CostOf(s, Ended(s)) + FieldSum(s, b)
             /\ Arrived(s) \in {Ended(s), Named(s)}
  <2>1. Named(s) = Ended(s) \cup {b} /\ b \notin Ended(s)
    BY <1>3, OneOpen DEF Ended
  <2>2. CostOf(s, Ended(s) \cup {b}) = CostOf(s, Ended(s)) + FieldSum(s, b)
    BY <1>1, <2>1, CostAdd
  <2> QED
    BY <1>1, <2>1, <2>2, FieldSumType
<1>4. CASE \A b \in Named(s) : ~IsOpen(s, b)
  <2>1. Ended(s) = Named(s) /\ Arrived(s) = Named(s)
    BY <1>4 DEF Ended, Arrived
  <2> QED
    BY <1>2, <2>1
<1>5. CASE \E b \in Named(s) : IsOpen(s, b)
  BY <1>2, <1>3, <1>5, Zenon
<1> QED
  BY <1>4, <1>5

(* current_part is the open part: its name, and what it has of its data.   *)
Matches(p, s, b) ==
  /\ IsOpen(s, b)
  /\ p.isFile <=> s[b].part.filename # "absent"
  /\ ~p.isFile =>
       /\ p.name = s[b].part.name /\ p.base64 = s[b].part.base64
       /\ p.ignored <=> p.name = {}
       /\ ~p.ignored => p.data = Size(s, b)

Between == {"raw", "events", "starting", "receiving"}

OpenPartInv == pc \in Between => \A p \in part : \E b : Matches(p, delivered, b)

(* Before the first event there is none, and a message that ended with the *)
(* closing token has no open part.                                         *)
EndsInv ==
  /\ pc = "raw" => delivered = <<>>
  /\ final = "End" => eof /\ ~IsInside(delivered \o left)

LEMMA OpenField ==
  ASSUME NEW s \in Seq(Event), NEW p \in PartRecord, NEW b, Matches(p, s, b)
  PROVE  /\ b \in 1..Len(s) /\ s[b].kind = "Begin"
         /\ b \in Named(s) <=> ~p.isFile /\ ~p.ignored
         /\ b \in Named(s) => FieldCost(p) = FieldSum(s, b)
<1>1. b \in 1..Len(s) /\ s[b].kind = "Begin"
  BY DEF Matches, IsOpen
<1>2. b \in Named(s) <=> ~p.isFile /\ ~p.ignored
  BY <1>1 DEF Named, IsNamed, Matches
<1>3. ASSUME b \in Named(s) PROVE FieldCost(p) = FieldSum(s, b)
  <2>1. p.data = Size(s, b) /\ p.name = s[b].part.name
    BY <1>2, <1>3 DEF Matches
  <2>2. Size(s, b) \in Nat /\ Name(s, b) \in Nat
    BY <1>1, <1>3, SizeType, FieldSumType
  <2>3. FieldCost(p) = Size(s, b) + 2 + Name(s, b)
    BY <2>1 DEF FieldCost, Name
  <2> QED
    BY <2>2, <2>3 DEF FieldSum
<1> QED
  BY <1>1, <1>2, <1>3

-----------------------------------------------------------------------------
(* The four event steps, said of the open part and the account.            *)
Accountless == UNCHANGED <<fieldBytes, post>>

LEMMA BeginStep ==
  ASSUME BaseInv, PartBegin
  PROVE  \E e \in Event :
           /\ e.kind = "Begin" /\ delivered' = Append(delivered, e) /\ ~IsInside(delivered)
           /\ Accountless /\ exception = "none" /\ pc = "events"
           /\ \/ pc' \in {"events", "starting"} /\ exception' = "none" /\ part' = {NewPart(e.part)}
              \/ pc' = "aborting" /\ exception' \notin {"none", "StopUpload", "TooMuchData"}
<1>1. PICK p \in Parts : Take([kind |-> "Begin", part |-> p]) /\ HandleBegin(p)
  BY DEF PartBegin
<1> DEFINE e == [kind |-> "Begin", part |-> p]
<1>2. /\ e \in Event /\ e.kind = "Begin" /\ e.part = p /\ pc = "events"
      /\ delivered' = Append(delivered, e) /\ exception = "none"
  BY <1>1 DEF Event, Take, BaseInv, ControlInv, Trying
<1>3. ~IsInside(delivered) /\ part = {}
  <2>1. ~IsInside(delivered)
    BY <1>1, <1>2, TakeKeeps DEF BaseInv, Inv
  <2> QED
    BY <1>2, <2>1 DEF BaseInv, Inv, PartInv
<1>4. Accountless /\ (BeginField(p) \/ BeginUnnamedFile(p) \/ BeginFile(p))
  BY <1>1, <1>3 DEF HandleBegin, Accountless
<1> HIDE DEF e
<1>5. \/ pc' \in {"events", "starting"} /\ exception' = "none" /\ part' = {NewPart(p)}
      \/ pc' = "aborting" /\ exception' \in {"TooManyFields", "TooManyFiles"}
  BY <1>2, <1>4 DEF BeginField, BeginUnnamedFile, BeginFile, Abort, Resume, Goto
<1> QED
  BY <1>2, <1>3, <1>4, <1>5

LEMMA OpenPart ==
  ASSUME BaseInv, OpenPartInv, pc = "events", IsInside(delivered)
  PROVE  \E p, b : part = {p} /\ NamedPart(p) /\ Matches(p, delivered, b)
<1>1. part # {}
  BY DEF BaseInv, Inv, PartInv
<1>2. PICK p : NamedPart(p) /\ part = {p}
  BY <1>1 DEF BaseInv, ShapeInv, PartType
<1> QED
  BY <1>2 DEF OpenPartInv, Between

LEMMA DataStep ==
  ASSUME BaseInv, OpenPartInv, PartData
  PROVE  \E size \in DataSizes : \E p, b :
           LET e == [kind |-> "Data", size |-> size]
           IN  /\ e \in Event /\ delivered' = Append(delivered, e) /\ IsInside(delivered)
               /\ part = {p} /\ NamedPart(p) /\ Matches(p, delivered, b)
               /\ Accountless /\ exception = "none" /\ pc = "events"
               /\ \/ /\ ~p.ignored /\ ~p.isFile /\ part' = {Grown(p, size)}
                     /\ IF TooMuchData(Grown(p, size))
                        THEN pc' = "aborting" /\ exception' = "TooMuchData"
                        ELSE pc' = "events" /\ exception' = "none"
                  \/ /\ p.ignored \/ p.isFile
                     /\ part' = part /\ pc' \in {"events", "receiving", "aborting"}
                     /\ exception' \in {"none", "BadBase64"}
<1>1. PICK size \in DataSizes : Take([kind |-> "Data", size |-> size]) /\ HandleData(size)
  BY DEF PartData
<1> DEFINE e == [kind |-> "Data", size |-> size]
<1>2. /\ e \in Event /\ e.kind = "Data" /\ pc = "events"
      /\ delivered' = Append(delivered, e) /\ exception = "none"
  BY <1>1 DEF Event, Take, BaseInv, ControlInv, Trying
<1>3. IsInside(delivered)
  BY <1>1, <1>2, TakeKeeps DEF BaseInv, Inv
<1>4. PICK p, b : part = {p} /\ NamedPart(p) /\ Matches(p, delivered, b)
  BY <1>2, <1>3, OpenPart
<1>5. Accountless
  BY <1>1 DEF HandleData, accountVars, Accountless
<1>6. ReceiveFieldData(p, size) \/ ReceiveFileData(p, size)
        \/ (p.ignored /\ Resume("events") /\ UNCHANGED part)
  BY <1>1, <1>4 DEF HandleData
<1>7. \/ /\ ~p.ignored /\ ~p.isFile /\ part' = {Grown(p, size)}
         /\ IF TooMuchData(Grown(p, size))
            THEN pc' = "aborting" /\ exception' = "TooMuchData"
            ELSE pc' = "events" /\ exception' = "none"
      \/ /\ p.ignored \/ p.isFile
         /\ part' = part /\ pc' \in {"events", "receiving", "aborting"}
         /\ exception' \in {"none", "BadBase64"}
  <2>1. CASE ReceiveFieldData(p, size)
    BY <1>2, <2>1 DEF ReceiveFieldData, Abort, Resume, Goto
  <2>2. CASE ReceiveFileData(p, size)
    BY <1>2, <2>2 DEF ReceiveFileData, Abort, Resume, Goto
  <2>3. CASE p.ignored /\ Resume("events") /\ UNCHANGED part
    BY <1>2, <2>3 DEF Resume, Goto
  <2> QED
    BY <1>6, <2>1, <2>2, <2>3
<1> QED
  BY <1>2, <1>3, <1>4, <1>5, <1>7

LEMMA EndStep ==
  ASSUME BaseInv, OpenPartInv, PartEnd
  PROVE  \E p, b :
           LET e == [kind |-> "End"]
           IN  /\ e \in Event /\ delivered' = Append(delivered, e) /\ IsInside(delivered)
               /\ part = {p} /\ NamedPart(p) /\ Matches(p, delivered, b)
               /\ exception = "none" /\ pc = "events" /\ (pc' = "events" => part' = {})
               /\ \/ ~p.isFile /\ FinishField(p, "events")
                  \/ /\ p.isFile /\ Accountless
                     /\ pc' \in {"events", "finishing", "aborting"}
                     /\ exception' \in {"none", "BadBase64"}
<1> DEFINE e == [kind |-> "End"]
<1>1. Take(e) /\ HandleEnd
  BY DEF PartEnd
<1>2. /\ e \in Event /\ e.kind = "End" /\ pc = "events"
      /\ delivered' = Append(delivered, e) /\ exception = "none"
  BY <1>1 DEF Event, Take, BaseInv, ControlInv, Trying
<1>3. IsInside(delivered)
  BY <1>1, <1>2, TakeKeeps DEF BaseInv, Inv
<1>4. PICK p, b : part = {p} /\ NamedPart(p) /\ Matches(p, delivered, b)
  BY <1>2, <1>3, OpenPart
<1>5. /\ IF p.isFile THEN FinishFile(p) ELSE FinishField(p, "events")
      /\ pc' = "events" => part' = {}
  BY <1>1, <1>4 DEF HandleEnd
<1>6. FinishFile(p) => /\ Accountless /\ pc' \in {"events", "finishing", "aborting"}
                       /\ exception' \in {"none", "BadBase64"}
  BY <1>2 DEF FinishFile, Abort, Resume, Goto, Accountless
<1> QED
  BY <1>2, <1>3, <1>4, <1>5, <1>6

LEMMA RawStep ==
  ASSUME BaseInv, RawPart
  PROVE  \E e \in Event :
           /\ e.kind = "Raw" /\ delivered' = Append(delivered, e) /\ ~IsInside(delivered)
           /\ Accountless /\ exception = "none" /\ pc = "events" /\ part = {} /\ part' = {}
           /\ \/ pc' = "events" /\ exception' = "none"
              \/ pc' = "aborting" /\ exception' = "TooManyFields"
<1> DEFINE e == [kind |-> "Raw"]
<1>1. Take(e) /\ HandleRaw
  BY DEF RawPart
<1>2. /\ e \in Event /\ e.kind = "Raw" /\ pc = "events"
      /\ delivered' = Append(delivered, e) /\ exception = "none"
  BY <1>1 DEF Event, Take, BaseInv, ControlInv, Trying
<1>3. ~IsInside(delivered) /\ part = {}
  <2>1. ~IsInside(delivered)
    BY <1>1, <1>2, TakeKeeps DEF BaseInv, Inv
  <2> QED
    BY <1>2, <2>1 DEF BaseInv, Inv, PartInv
<1>4. /\ Accountless /\ part' = {}
      /\ \/ pc' = "events" /\ exception' = "none"
         \/ pc' = "aborting" /\ exception' = "TooManyFields"
  BY <1>1, <1>2, <1>3 DEF HandleRaw, Abort, Resume, Goto, Accountless
<1> QED
  BY <1>2, <1>3, <1>4

-----------------------------------------------------------------------------
(* The other steps take no event and, finish() apart, finish no field.     *)
Eventful == PartBegin \/ PartData \/ PartEnd \/ RawPart \/ Finish

Working == Between \cup {"finishing"}

LEMMA QuietStep ==
  ASSUME BaseInv, [Next]_vars, ~Eventful
  PROVE  /\ UNCHANGED delivered /\ Accountless
         /\ \/ exception' = exception
            \/ exception' \notin {"none", "TooMuchData", "StopUpload"}
            \/ exception = "none" /\ exception' = "StopUpload" /\ pc \in Working
         /\ pc' \in Working => pc \in Working
         /\ exception' = "none" /\ PastTry' => PastTry \/ pc = "raw"
         /\ exception' = "none" /\ PastTry => PastTry'
         /\ pc' = "raw" => pc = "raw"
<1> USE DEF Goto, Resume, Abort, Throw, NextHandler, Accountless, Working, Between, PastTry
<1>1. CASE BeforeParsing \/ LoopEnds \/ SourceFails \/ NobodyReturnsFile
  <2>1. UNCHANGED delivered /\ Accountless
    BY <1>1 DEF BeforeParsing, LoopEnds, SourceFails, NobodyReturnsFile, accountVars, requestVars
  <2>2. /\ pc \in Working
        /\ \/ pc = "raw" /\ pc' \in {"raw", "returned", "events"} /\ exception' = exception
           \/ pc # "raw" /\ pc' = "events" /\ exception' = exception
           \/ /\ pc' \in {"escaped", "aborting"}
              /\ exception' \in {"HandlerError", "ParserError"}
    BY <1>1 DEF BeforeParsing, LoopEnds, SourceFails, NobodyReturnsFile, FileDone
  <2> QED
    BY <2>1, <2>2
<1>2. CASE FeedEof
  BY <1>2 DEF FeedEof, EofReturns, accountVars
<1>3. CASE NewFile \/ ReceiveChunk \/ FileComplete
  <2>1. /\ exception = "none" /\ pc \in {"starting", "receiving", "finishing"}
        /\ UNCHANGED delivered /\ Accountless
    BY <1>3 DEF NewFile, ReceiveChunk, FileComplete, BaseInv, ControlInv, Trying, accountVars
  <2>2. \/ pc' \in {"starting", "receiving", "finishing", "events"} /\ exception' = exception
        \/ exception' \notin {"none", "TooMuchData", "StopUpload"} /\ pc' \in {"aborting", "escaped"}
        \/ exception' = "StopUpload" /\ pc' = "completing"
    BY <1>3 DEF NewFile, ReceiveChunk, FileComplete, FileDone, SkipFile, Stop
  <2> QED
    BY <2>1, <2>2
<1>4. CASE Succeed \/ InterruptUpload \/ AbortUpload \/ UploadComplete
  <2>1. UNCHANGED delivered /\ Accountless
    BY <1>4 DEF Succeed, InterruptUpload, AbortUpload, UploadComplete, accountVars, requestVars
  <2>2. /\ pc \in {"ended", "interrupting", "aborting", "completing"}
        /\ pc' \in {"interrupting", "aborting", "completing", "returned", "raised", "escaped"}
        /\ exception' \in {exception, "HandlerError", "TooManyFields"}
        /\ pc = "aborting" => exception' = exception
        /\ pc' = "aborting" => pc = "aborting"
        /\ pc' = "raised" => pc = "aborting"
        /\ pc' = "escaped" => exception' # "none"
    BY <1>4 DEF Succeed, InterruptUpload, AbortUpload, UploadComplete
  <2>3. pc = "aborting" => exception # "none"
    BY DEF BaseInv, ControlInv
  <2> QED
    BY <2>1, <2>2, <2>3
<1>5. CASE Done \/ UNCHANGED vars
  BY <1>5 DEF Done, vars
<1> QED
  BY <1>1, <1>2, <1>3, <1>4, <1>5 DEF Next, Eventful

LEMMA OpenPartQuiet ==
  ASSUME BaseInv, OpenPartInv, [Next]_vars, ~Eventful
  PROVE  OpenPartInv'
<1> USE DEF Goto, Resume, Abort, Throw, NextHandler, Between
<1>1. UNCHANGED delivered
  BY QuietStep
<1>2. ASSUME pc \in Between,
             \A q \in part' : \E p \in part : q = p \/ (p.isFile /\ q.isFile)
      PROVE  OpenPartInv'
  <2> SUFFICES ASSUME NEW q \in part' PROVE \E b : Matches(q, delivered, b)
    BY <1>1 DEF OpenPartInv
  <2>1. PICK p \in part : q = p \/ (p.isFile /\ q.isFile)
    BY <1>2
  <2>2. PICK b : Matches(p, delivered, b)
    BY <1>2 DEF OpenPartInv
  <2> QED
    BY <2>1, <2>2 DEF Matches
<1>3. pc' \notin Between \/ part' = {} => OpenPartInv'
  BY DEF OpenPartInv
<1>4. CASE BeforeParsing \/ LoopEnds \/ SourceFails \/ FeedEof
  <2>1. pc \in Between /\ part' = part
    BY <1>4 DEF BeforeParsing, LoopEnds, SourceFails, FeedEof, EofReturns, partVars
  <2> QED
    BY <1>2, <2>1
<1>5. CASE NewFile \/ ReceiveChunk
  <2>1. pc \in Between /\ UploadOpen
    BY <1>5 DEF NewFile, ReceiveChunk, BaseInv, ControlInv
  <2>2. PICK p : part = {p} /\ NamedPart(p)
    BY <2>1 DEF BaseInv, ShapeInv, PartType, UploadOpen
  <2>3. p.isFile /\ p \in PartRecord
    BY <2>1, <2>2 DEF UploadOpen, NamedPart
  <2>4. /\ [p EXCEPT !.ignored = TRUE].isFile
        /\ [p EXCEPT !.counters[at] = @ + chunk].isFile
    BY <2>3 DEF PartRecord
  <2>5. \/ part' = part
        \/ part' = {[p EXCEPT !.ignored = TRUE]}
        \/ part' = {[p EXCEPT !.counters[at] = @ + chunk]}
        \/ pc' \notin Between
    BY <1>5, <2>2 DEF NewFile, ReceiveChunk, SkipFile, Stop, Counted
  <2> QED
    BY <1>2, <1>3, <2>1, <2>2, <2>3, <2>4, <2>5
<1>6. CASE FileComplete \/ NobodyReturnsFile
  <2>1. pc' \notin Between \/ part' = {}
    BY <1>6 DEF FileComplete, NobodyReturnsFile, FileDone, Stop
  <2> QED
    BY <1>3, <2>1
<1>7. CASE Succeed \/ InterruptUpload \/ AbortUpload \/ UploadComplete
  <2>1. pc' \notin Between
    BY <1>7 DEF Succeed, InterruptUpload, AbortUpload, UploadComplete
  <2> QED
    BY <1>3, <2>1
<1>8. CASE Done \/ UNCHANGED vars
  BY <1>8 DEF Done, vars, OpenPartInv
<1> QED
  BY <1>4, <1>5, <1>6, <1>7, <1>8 DEF Next, Eventful

LEMMA OpenPartKeeps ==
  ASSUME BaseInv, OpenPartInv, [Next]_vars
  PROVE  OpenPartInv'
<1>1. CASE PartBegin
  <2>1. PICK e \in Event :
           /\ e.kind = "Begin" /\ delivered' = Append(delivered, e)
           /\ \/ pc' \in {"events", "starting"} /\ part' = {NewPart(e.part)}
              \/ pc' = "aborting"
    BY <1>1, BeginStep
  <2>2. CASE pc' = "aborting"
    BY <2>2 DEF OpenPartInv, Between
  <2>3. CASE part' = {NewPart(e.part)}
    <3> DEFINE b == Len(delivered) + 1
               q == NewPart(e.part)
    <3>1. /\ delivered \in Seq(Event) /\ e.part \in Parts
      BY <2>1 DEF BaseInv, Inv, StreamInv, Event
    <3>2. /\ IsOpen(delivered', b) /\ delivered'[b] = e /\ Size(delivered', b) = 0
      BY <2>1, <3>1, OpenAppend, SizeAppend, AppendFacts
    <3>3. /\ q.isFile <=> e.part.filename # "absent"
          /\ q.name = e.part.name /\ q.base64 = e.part.base64 /\ q.data = 0
          /\ ~q.isFile => (q.ignored <=> q.name = {})
      BY DEF NewPart
    <3> HIDE DEF b, q
    <3>4. Matches(q, delivered', b)
      BY <3>2, <3>3 DEF Matches
    <3> QED
      BY <2>3, <3>4 DEF OpenPartInv, q
  <2> QED
    BY <2>1, <2>2, <2>3
<1>2. CASE PartData
  <2>1. PICK size \in DataSizes : \E p, b :
          LET e == [kind |-> "Data", size |-> size]
          IN  /\ e \in Event /\ delivered' = Append(delivered, e)
              /\ part = {p} /\ NamedPart(p) /\ Matches(p, delivered, b)
              /\ \/ ~p.ignored /\ ~p.isFile /\ part' = {Grown(p, size)}
                 \/ (p.ignored \/ p.isFile) /\ part' = part
    BY <1>2, DataStep
  <2> DEFINE e == [kind |-> "Data", size |-> size]
  <2>2. PICK p, b :
          /\ e \in Event /\ delivered' = Append(delivered, e)
          /\ part = {p} /\ NamedPart(p) /\ Matches(p, delivered, b)
          /\ \/ ~p.ignored /\ ~p.isFile /\ part' = {Grown(p, size)}
             \/ (p.ignored \/ p.isFile) /\ part' = part
    BY <2>1
  <2>3. e.kind = "Data" /\ e.size = size /\ delivered \in Seq(Event) /\ p \in PartRecord
    BY <2>2 DEF BaseInv, Inv, StreamInv, NamedPart
  <2> HIDE DEF e
  <2>4. /\ b \in 1..Len(delivered) /\ Followed(delivered, b) /\ IsOpen(delivered', b)
        /\ delivered'[b] = delivered[b] /\ Size(delivered', b) = Size(delivered, b) + size
    BY <2>2, <2>3, OpenAppend, SizeAppend, AppendFacts DEF Matches, IsOpen
  <2>5. CASE ~p.ignored /\ ~p.isFile /\ part' = {Grown(p, size)}
    <3>1. /\ Grown(p, size).data = p.data + size /\ Grown(p, size).isFile = p.isFile
          /\ Grown(p, size).name = p.name /\ Grown(p, size).base64 = p.base64
          /\ Grown(p, size).ignored = p.ignored
      BY <2>3 DEF Grown, PartRecord
    <3>2. Matches(Grown(p, size), delivered', b)
      BY <2>2, <2>4, <2>5, <3>1 DEF Matches
    <3> QED
      BY <2>5, <3>2 DEF OpenPartInv
  <2>6. CASE (p.ignored \/ p.isFile) /\ part' = part
    <3>1. Matches(p, delivered', b)
      BY <2>2, <2>4, <2>6 DEF Matches
    <3> QED
      BY <2>2, <2>6, <3>1 DEF OpenPartInv
  <2> QED
    BY <2>2, <2>5, <2>6
<1>3. CASE PartEnd
  <2>1. pc' = "events" => part' = {}
    BY <1>3, EndStep
  <2>2. pc' \in {"events", "finishing", "aborting"}
    BY <1>3, EndStep DEF FinishField, Abort, Resume, Goto
  <2> QED
    BY <2>1, <2>2 DEF OpenPartInv, Between
<1>4. CASE RawPart
  BY <1>4, RawStep DEF OpenPartInv
<1>5. CASE Finish
  <2>1. pc' \in {"ended", "aborting"}
    BY <1>5 DEF Finish, FinishField, Abort, Resume, Goto
  <2> QED
    BY <2>1 DEF OpenPartInv, Between
<1> QED
  BY <1>1, <1>2, <1>3, <1>4, <1>5, OpenPartQuiet DEF Eventful

(* What feed_eof returns, and with which state.                            *)
LEMMA EofEnds ==
  ASSUME NEW inPart \in BOOLEAN, NEW outcome \in EofOutcomes(inPart), outcome.final = "End",
         NEW s \in Seq(Event), IsInside(s) <=> inPart
  PROVE  ~IsInside(s \o outcome.events)
<1>1. CASE inPart
  <2>1. outcome.events \in EofEnd
    BY <1>1 DEF EofOutcomes
  <2>2. PICK d \in EofData : outcome.events = d \o <<[kind |-> "End"]>>
    BY <2>1 DEF EofEnd
  <2> DEFINE e == [kind |-> "End"]
             data(n) == [kind |-> "Data", size |-> n]
  <2>3. e \in Event /\ e.kind = "End" /\ \A n \in DataSizes : data(n) \in Event
    BY DEF Event
  <2>6. d = <<>> \/ \E n \in DataSizes : d = <<data(n)>>
    BY DEF EofData
  <2> HIDE DEF e, data
  <2>7. d \in Seq(Event)
    <3>1. <<>> \in Seq(Event) /\ \A x \in Event : <<x>> \in Seq(Event)
      OBVIOUS
    <3> QED
      BY <2>3, <2>6, <3>1, Zenon
  <2>4. /\ <<e>> \in Seq(Event) /\ s \o d \in Seq(Event)
        /\ s \o (d \o <<e>>) = Append(s \o d, e)
    BY <2>3, <2>7, ConcatProperties, ConcatAssociative, AppendIsConcat
  <2>5. s \o outcome.events = Append(s \o d, e)
    BY <2>2, <2>4 DEF e
  <2> QED
    BY <2>3, <2>4, <2>5, <2>7, AppendFacts DEF IsInside
<1>2. CASE ~inPart
  <2>1. outcome.events = <<>>
    BY <1>2 DEF EofOutcomes
  <2> QED
    BY <1>2, <2>1, ConcatEmptySeq
<1> QED
  BY <1>1, <1>2

LEMMA EndsKeeps ==
  ASSUME BaseInv, EndsInv, [Next]_vars
  PROVE  EndsInv'
<1>1. ASSUME NEW e \in Event, Take(e), pc' # "raw" PROVE EndsInv'
  <2>1. /\ delivered' = Append(delivered, e) /\ UNCHANGED <<eof, final>>
        /\ delivered \in Seq(Event) /\ left \in Seq(Event)
    BY <1>1 DEF Take, BaseInv, Inv, StreamInv
  <2>2. CASE ~eof
    BY <1>1, <2>1, <2>2 DEF EndsInv
  <2>3. CASE eof
    <3>1. left # <<>> /\ e = Head(left) /\ left' = Tail(left)
      BY <1>1, <2>3 DEF Take
    <3>2. left' \in Seq(Event) /\ left = <<e>> \o left'
      BY <2>1, <3>1, HeadTailProperties
    <3>3. <<e>> \in Seq(Event) /\ delivered \o <<e>> = Append(delivered, e)
      BY <2>1, AppendIsConcat
    <3>4. delivered \o left = delivered' \o left'
      BY <2>1, <3>2, <3>3, ConcatAssociative, SMTT(30)
    <3> QED
      BY <1>1, <2>1, <3>4 DEF EndsInv
  <2> QED
    BY <2>2, <2>3
<1>2. ASSUME UNCHANGED <<delivered, left, final>>, eof' = eof \/ ~eof, pc' = "raw" => pc = "raw"
      PROVE  EndsInv'
  BY <1>2 DEF EndsInv
<1>3. CASE PartBegin \/ PartData \/ PartEnd \/ RawPart
  <2>1. pc' # "raw"
    BY <1>3 DEF PartBegin, PartData, PartEnd, RawPart, HandleBegin, BeginField,
                BeginUnnamedFile, BeginFile, HandleData, ReceiveFieldData, ReceiveFileData,
                HandleEnd, FinishField, FinishFile, HandleRaw, Goto, Resume, Abort
  <2>2. \E e \in Event : Take(e)
    BY <1>3 DEF PartBegin, PartData, PartEnd, RawPart, Event
  <2> QED
    BY <1>1, <2>1, <2>2
<1>4. CASE FeedEof
  <2> DEFINE inPart == Source!InPart([i \in DOMAIN delivered |-> delivered[i].kind])
  <2>1. PICK outcome \in EofOutcomes(inPart) :
           /\ pc = "events" /\ pc' = pc /\ eof' /\ delivered' = delivered
           /\ left' = outcome.events /\ final' = outcome.final
    BY <1>4 DEF FeedEof, EofReturns
  <2>2. delivered \in Seq(Event)
    BY DEF BaseInv, Inv, StreamInv
  <2>3. (IsInside(delivered) <=> inPart) /\ inPart \in BOOLEAN
    BY <2>2, StreamAgrees DEF Source!InPart
  <2> HIDE DEF inPart
  <2>4. outcome.final = "End" => ~IsInside(delivered \o outcome.events)
    BY <2>2, <2>3, EofEnds
  <2> QED
    BY <2>1, <2>4 DEF EndsInv
<1>5. CASE Finish
  <2>1. pc' # "raw" /\ UNCHANGED <<delivered, left, final, eof>>
    BY <1>5 DEF Finish, FinishField, Abort, Resume, Goto, requestVars
  <2> QED
    BY <1>2, <2>1
<1>6. CASE ~Eventful /\ ~FeedEof
  <2>1. pc' = "raw" => pc = "raw"
    BY <1>6, QuietStep
  <2>2. UNCHANGED <<delivered, left, final>> /\ (eof' = eof \/ ~eof)
    <3>1. CASE BeforeParsing \/ SourceFails \/ LoopEnds \/ NobodyReturnsFile
      BY <3>1 DEF BeforeParsing, SourceFails, LoopEnds, NobodyReturnsFile, requestVars
    <3>2. CASE NewFile \/ ReceiveChunk \/ FileComplete
      BY <3>2 DEF NewFile, ReceiveChunk, FileComplete
    <3>3. CASE Succeed \/ InterruptUpload \/ AbortUpload \/ UploadComplete
      BY <3>3 DEF Succeed, InterruptUpload, AbortUpload, UploadComplete, requestVars
    <3>4. CASE Done \/ UNCHANGED vars
      BY <3>4 DEF Done, vars
    <3> QED
      BY <1>6, <3>1, <3>2, <3>3, <3>4 DEF Next, Eventful
  <2> QED
    BY <1>2, <2>1, <2>2
<1> QED
  BY <1>3, <1>4, <1>5, <1>6 DEF Eventful

-----------------------------------------------------------------------------
(* Between the events only the open field, and only if something of it has *)
(* arrived, is not yet charged.                                            *)
LEMMA ArrivedAfter ==
  ASSUME NEW s \in Seq(Event), NEW e \in Event,
         e.kind # "Data" \/ \E b : IsOpen(s, b) /\ b \notin Named(s)
  PROVE  Arrived(Append(s, e)) = Ended(Append(s, e))
<1> DEFINE t == Append(s, e)
<1>1. /\ \A i \in 1..Len(s) : IsOpen(t, i) <=> IsOpen(s, i) /\ e.kind = "Data"
      /\ Named(t) = Named(s) \cup (IF IsNamed(e) THEN {Len(s) + 1} ELSE {})
      /\ \A i \in Named(s) : i \in 1..Len(s)
  BY OpenAppend DEF Named
<1>2. Size(t, Len(s) + 1) = 0 /\ (IsNamed(e) => e.kind = "Begin" /\ IsOpen(t, Len(s) + 1))
  BY SizeAppend, OpenAppend DEF IsNamed
<1> HIDE DEF t
<1>3. \A i \in Named(s) : ~IsOpen(t, i)
  BY <1>1, OneOpen
<1>4. ~(Size(t, Len(s) + 1) > 0)
  BY <1>2
<1> QED
  BY <1>1, <1>2, <1>3, <1>4 DEF Arrived, Ended, t

LEMMA CostsAscend ==
  ASSUME NEW s \in Seq(Event)
  PROVE  /\ CostOf(s, Ended(s)) <= CostOf(s, Arrived(s))
         /\ CostOf(s, Arrived(s)) <= CostOf(s, Named(s))
BY CostsBetween

(* The account is what the fields that have ended cost; with what has      *)
(* arrived of the open one it is within the limit, and a refusal is of     *)
(* fields that are over it.                                                *)
ChargedInv == pc \in Working => fieldBytes = CostOf(delivered, Ended(delivered))

WithinMemory ==
  exception \in {"none", "StopUpload"} =>
    \A maximum \in MaxMemory : CostOf(delivered, Arrived(delivered)) <= maximum

RefusedInv ==
  exception = "TooMuchData" =>
    \E maximum \in MaxMemory : CostOf(delivered, Named(delivered)) > maximum

MemoryInv == ChargedInv /\ WithinMemory /\ RefusedInv

(* A part is held against the limit with what has been charged before.     *)
LEMMA TooMuch ==
  ASSUME BaseInv, NEW p, FieldCost(p) \in Nat
  PROVE  /\ TooMuchData(p) =>
              \E maximum \in MaxMemory : fieldBytes + FieldCost(p) > maximum
         /\ ~TooMuchData(p) =>
              \A maximum \in MaxMemory : fieldBytes + FieldCost(p) <= maximum
<1>1. fieldBytes \in Nat /\ \A maximum \in MaxMemory : maximum \in Nat
  BY UploadAssumption DEF BaseInv, ShapeInv, AccountType
<1> QED
  BY <1>1 DEF TooMuchData

(* The fields that have ended are within the limit.                        *)
LEMMA EndedWithin ==
  ASSUME BaseInv, MemoryInv, exception = "none"
  PROVE  \A maximum \in MaxMemory :
           maximum \in Nat /\ CostOf(delivered, Ended(delivered)) <= maximum
<1>1. delivered \in Seq(Event) /\ \A maximum \in MaxMemory : maximum \in Nat
  BY UploadAssumption DEF BaseInv, Inv, StreamInv
<1>2. /\ CostOf(delivered, Ended(delivered)) \in Nat
      /\ CostOf(delivered, Arrived(delivered)) \in Nat
      /\ CostOf(delivered, Ended(delivered)) <= CostOf(delivered, Arrived(delivered))
  BY <1>1, CostsBetween, CostsAscend
<1>3. \A maximum \in MaxMemory : CostOf(delivered, Arrived(delivered)) <= maximum
  BY DEF MemoryInv, WithinMemory
<1> QED
  BY <1>1, <1>2, <1>3

(* An event that leaves the charged fields as they are.                    *)
LEMMA SameMemory ==
  ASSUME BaseInv, MemoryInv, exception = "none", pc = "events", Accountless,
         exception' # "TooMuchData",
         CostOf(delivered', Ended(delivered')) = CostOf(delivered, Ended(delivered)),
         Arrived(delivered') = Ended(delivered')
  PROVE  MemoryInv'
<1>1. \A maximum \in MaxMemory : CostOf(delivered', Ended(delivered')) <= maximum
  BY EndedWithin
<1>2. fieldBytes' = CostOf(delivered', Ended(delivered'))
  BY DEF MemoryInv, ChargedInv, Working, Between, Accountless
<1>3. ChargedInv' /\ RefusedInv'
  BY <1>2 DEF ChargedInv, RefusedInv
<1>4. WithinMemory'
  BY <1>1 DEF WithinMemory
<1> QED
  BY <1>3, <1>4 DEF MemoryInv

LEMMA DataMemory ==
  ASSUME BaseInv, OpenPartInv, MemoryInv, PartData
  PROVE  MemoryInv'
<1>1. PICK size \in DataSizes : \E p, b :
        LET e == [kind |-> "Data", size |-> size]
        IN  /\ e \in Event /\ delivered' = Append(delivered, e) /\ IsInside(delivered)
            /\ part = {p} /\ NamedPart(p) /\ Matches(p, delivered, b)
            /\ Accountless /\ exception = "none" /\ pc = "events"
            /\ \/ /\ ~p.ignored /\ ~p.isFile /\ part' = {Grown(p, size)}
                  /\ IF TooMuchData(Grown(p, size))
                     THEN pc' = "aborting" /\ exception' = "TooMuchData"
                     ELSE pc' = "events" /\ exception' = "none"
               \/ (p.ignored \/ p.isFile) /\ exception' \in {"none", "BadBase64"}
  BY DataStep
<1> DEFINE e == [kind |-> "Data", size |-> size]
           t == Append(delivered, e)
<1>2. PICK p, b :
        /\ e \in Event /\ delivered' = t /\ IsInside(delivered)
        /\ part = {p} /\ NamedPart(p) /\ Matches(p, delivered, b)
        /\ Accountless /\ exception = "none" /\ pc = "events"
        /\ \/ /\ ~p.ignored /\ ~p.isFile
              /\ IF TooMuchData(Grown(p, size))
                 THEN pc' = "aborting" /\ exception' = "TooMuchData"
                 ELSE pc' = "events" /\ exception' = "none"
           \/ (p.ignored \/ p.isFile) /\ exception' \in {"none", "BadBase64"}
  BY <1>1
<1>3. e.kind = "Data" /\ e.size = size /\ delivered \in Seq(Event) /\ p \in PartRecord
  BY <1>2 DEF BaseInv, Inv, StreamInv, NamedPart
<1> HIDE DEF e
<1>4. t \in Seq(Event) /\ CostOf(t, Ended(t)) = CostOf(delivered, Ended(delivered))
  BY <1>2, <1>3, AppendFacts, EndedCost
<1>5. CASE p.ignored \/ p.isFile
  <2>1. b \notin Named(delivered) /\ IsOpen(delivered, b)
    BY <1>2, <1>3, <1>5, OpenField DEF Matches
  <2>2. Arrived(t) = Ended(t)
    BY <1>2, <1>3, <2>1, ArrivedAfter
  <2> QED
    BY <1>2, <1>4, <1>5, <2>2, SameMemory
<1>6. CASE ~p.ignored /\ ~p.isFile
  <2> DEFINE q == Grown(p, size)
  <2>1. /\ q \in PartRecord /\ ~q.isFile /\ ~q.ignored
        /\ q.data = p.data + size /\ q.name = p.name /\ q.base64 = p.base64
    <3>1. p.data + size \in Nat
      BY <1>3, UploadAssumption DEF PartRecord
    <3>2. q = [p EXCEPT !.data = p.data + size]
      BY <1>3 DEF Grown, PartRecord
    <3> HIDE DEF q
    <3> QED
      BY <1>3, <1>6, <3>1, <3>2 DEF PartRecord
  <2>2. /\ b \in 1..Len(delivered) /\ Followed(delivered, b) /\ IsOpen(t, b)
        /\ t[b] = delivered[b] /\ Size(t, b) = Size(delivered, b) + size
    BY <1>2, <1>3, OpenAppend, SizeAppend, AppendFacts DEF Matches, IsOpen
  <2>3. Matches(q, t, b)
    BY <1>2, <1>6, <2>1, <2>2 DEF Matches
  <2> HIDE DEF q, t
  <2>4. b \in Named(t) /\ FieldCost(q) = FieldSum(t, b)
    BY <1>4, <2>1, <2>3, OpenField
  <2>5. /\ CostOf(t, Named(t)) = CostOf(t, Ended(t)) + FieldSum(t, b)
        /\ CostOf(t, Arrived(t)) <= CostOf(t, Named(t))
        /\ CostOf(t, Arrived(t)) \in Nat /\ CostOf(t, Named(t)) \in Nat
        /\ FieldSum(t, b) \in Nat
    <3>1. ~(Ended(t) = Named(t))
      BY <2>2, <2>4 DEF Ended
    <3>2. PICK a \in Named(t) :
            /\ IsOpen(t, a) /\ FieldSum(t, a) \in Nat
            /\ CostOf(t, Named(t)) = CostOf(t, Ended(t)) + FieldSum(t, a)
      BY <1>4, <3>1, CostsBetween
    <3>3. a = b
      BY <1>4, <2>2, <3>2, OneOpen
    <3> QED
      BY <1>4, <3>2, <3>3, CostsBetween, CostsAscend
  <2>6. fieldBytes = CostOf(t, Ended(t))
    BY <1>2, <1>4 DEF MemoryInv, ChargedInv, Working, Between
  <2>7. fieldBytes + FieldCost(q) = CostOf(t, Named(t))
    BY <2>4, <2>5, <2>6
  <2>8. ChargedInv'
    BY <1>2, <2>6 DEF ChargedInv, Accountless
  <2>9. CASE TooMuchData(q)
    <3>1. \E maximum \in MaxMemory : CostOf(t, Named(t)) > maximum
      BY <2>4, <2>5, <2>7, <2>9, TooMuch
    <3>2. exception' = "TooMuchData"
      BY <1>2, <1>6, <2>9 DEF q
    <3> QED
      BY <1>2, <2>8, <3>1, <3>2 DEF MemoryInv, WithinMemory, RefusedInv
  <2>10. CASE ~TooMuchData(q)
    <3>1. \A maximum \in MaxMemory : maximum \in Nat /\ CostOf(t, Named(t)) <= maximum
      BY <2>4, <2>5, <2>7, <2>10, TooMuch, UploadAssumption
    <3>2. \A maximum \in MaxMemory : CostOf(t, Arrived(t)) <= maximum
      BY <2>5, <3>1
    <3>3. exception' = "none"
      BY <1>2, <1>6, <2>10 DEF q
    <3> QED
      BY <1>2, <2>8, <3>2, <3>3 DEF MemoryInv, WithinMemory, RefusedInv
  <2> QED
    BY <2>9, <2>10
<1> QED
  BY <1>5, <1>6

(* A field is charged and kept, or it is too much, or it is ignored.       *)
LEMMA FieldEnds ==
  ASSUME NEW p, NEW place, FinishField(p, place)
  PROVE  \/ p.ignored /\ Accountless /\ pc' = place /\ exception' = exception
         \/ /\ ~p.ignored /\ TooMuchData(p) /\ Accountless
            /\ pc' = "aborting" /\ exception' = "TooMuchData"
         \/ /\ ~p.ignored /\ ~TooMuchData(p) /\ pc' = place /\ exception' = exception
            /\ fieldBytes' = fieldBytes + FieldCost(p)
            /\ \E size \in ValueSizes(p) :
                 post' = Append(post, [name |-> CHOOSE n \in p.name : TRUE, size |-> size])
BY DEF FinishField, Abort, Resume, Goto, Accountless

LEMMA EndMemory ==
  ASSUME BaseInv, OpenPartInv, MemoryInv, PartEnd
  PROVE  MemoryInv'
<1> DEFINE e == [kind |-> "End"]
           s == delivered
           t == Append(s, e)
<1>1. PICK p, b :
        /\ e \in Event /\ delivered' = t /\ IsInside(s)
        /\ part = {p} /\ NamedPart(p) /\ Matches(p, s, b)
        /\ exception = "none" /\ pc = "events"
        /\ \/ ~p.isFile /\ FinishField(p, "events")
           \/ p.isFile /\ Accountless /\ exception' \in {"none", "BadBase64"}
  BY EndStep
<1>2. e.kind = "End" /\ s \in Seq(Event) /\ p \in PartRecord /\ IsOpen(s, b)
  BY <1>1 DEF BaseInv, Inv, StreamInv, NamedPart, Matches
<1> HIDE DEF e
<1>3. /\ t \in Seq(Event) /\ CostOf(s, Ended(s)) \in Nat
      /\ CostOf(t, Ended(t)) = CostOf(s, Ended(s)) + (IF b \in Named(s) THEN FieldSum(s, b) ELSE 0)
  BY <1>1, <1>2, AppendFacts, EndedCost
<1>4. Arrived(t) = Ended(t) /\ Named(t) = Arrived(t)
  <2>1. Arrived(t) = Ended(t)
    BY <1>1, <1>2, ArrivedAfter
  <2>2. \A i \in Named(t) : ~IsOpen(t, i)
    BY <1>1, <1>2, OpenAppend DEF IsNamed, Named
  <2> QED
    BY <2>1, <2>2 DEF Ended
<1> HIDE DEF t
<1>5. CASE p.isFile \/ p.ignored
  <2>1. b \notin Named(s)
    BY <1>1, <1>2, <1>5, OpenField
  <2>2. Accountless /\ exception' \in {"none", "BadBase64"}
    BY <1>1, <1>5, FieldEnds
  <2> QED
    BY <1>1, <1>3, <1>4, <2>1, <2>2, SameMemory
<1>6. CASE ~p.isFile /\ ~p.ignored
  <2>1. /\ b \in Named(s) /\ FieldCost(p) = FieldSum(s, b) /\ FieldCost(p) \in Nat
    BY <1>1, <1>2, <1>6, OpenField, FieldSumType
  <2>2. fieldBytes = CostOf(s, Ended(s))
    BY <1>1 DEF MemoryInv, ChargedInv, Working, Between
  <2>3. fieldBytes + FieldCost(p) = CostOf(t, Ended(t))
    BY <1>3, <2>1, <2>2
  <2>4. CASE TooMuchData(p)
    <3>1. exception' = "TooMuchData" /\ pc' = "aborting"
      BY <1>1, <1>6, <2>4, FieldEnds
    <3>2. \E maximum \in MaxMemory : CostOf(t, Named(t)) > maximum
      BY <1>4, <2>1, <2>3, <2>4, TooMuch
    <3> QED
      BY <1>1, <3>1, <3>2
         DEF MemoryInv, ChargedInv, WithinMemory, RefusedInv, Working, Between
  <2>5. CASE ~TooMuchData(p)
    <3>1. exception' = "none" /\ fieldBytes' = CostOf(t, Ended(t))
      BY <1>1, <1>6, <2>3, <2>5, FieldEnds
    <3>2. \A maximum \in MaxMemory : CostOf(t, Arrived(t)) <= maximum
      BY <1>4, <2>1, <2>3, <2>5, TooMuch
    <3> QED
      BY <1>1, <3>1, <3>2 DEF MemoryInv, ChargedInv, WithinMemory, RefusedInv
  <2> QED
    BY <2>4, <2>5
<1> QED
  BY <1>5, <1>6

(* finish() may find the open field to be too much.                        *)
LEMMA FinishMemory ==
  ASSUME BaseInv, OpenPartInv, MemoryInv, Finish
  PROVE  MemoryInv'
<1>1. pc = "events" /\ delivered' = delivered /\ exception = "none"
  BY DEF Finish, requestVars, BaseInv, ControlInv, Trying
<1>2. \/ \E p \in part : ~p.isFile /\ FinishField(p, "ended")
      \/ pc' = "ended" /\ exception' = exception
  BY DEF Finish, Resume, Goto
<1>3. pc' \in {"ended", "aborting"}
  BY <1>2, FieldEnds
<1>4. ChargedInv'
  BY <1>3 DEF ChargedInv, Working, Between
<1>5. CASE exception' = exception
  BY <1>1, <1>4, <1>5 DEF MemoryInv, WithinMemory, RefusedInv
<1>6. CASE exception' # exception
  <2>1. PICK p \in part : ~p.isFile /\ FinishField(p, "ended")
    BY <1>2, <1>6
  <2>2. ~p.ignored /\ TooMuchData(p) /\ exception' = "TooMuchData"
    BY <1>6, <2>1, FieldEnds
  <2>3. PICK b : Matches(p, delivered, b)
    BY <1>1 DEF OpenPartInv, Between
  <2>4. p \in PartRecord /\ delivered \in Seq(Event)
    BY DEF BaseInv, ShapeInv, PartType, NamedPart, Inv, StreamInv
  <2>5. /\ b \in Named(delivered) /\ FieldCost(p) = FieldSum(delivered, b)
        /\ FieldCost(p) \in Nat /\ IsOpen(delivered, b)
    BY <2>1, <2>2, <2>3, <2>4, OpenField, FieldSumType DEF Matches
  <2>6. CostOf(delivered, Named(delivered))
          = CostOf(delivered, Ended(delivered)) + FieldSum(delivered, b)
    <3>1. ~(Ended(delivered) = Named(delivered))
      BY <2>5 DEF Ended
    <3>2. PICK a \in Named(delivered) :
            /\ IsOpen(delivered, a)
            /\ CostOf(delivered, Named(delivered))
                 = CostOf(delivered, Ended(delivered)) + FieldSum(delivered, a)
      BY <2>4, <3>1, CostsBetween
    <3>3. a = b
      BY <2>4, <2>5, <3>2, OneOpen
    <3> QED
      BY <3>2, <3>3
  <2>7. fieldBytes = CostOf(delivered, Ended(delivered))
    BY <1>1 DEF MemoryInv, ChargedInv, Working, Between
  <2>8. \E maximum \in MaxMemory : CostOf(delivered, Named(delivered)) > maximum
    BY <2>2, <2>5, <2>6, <2>7, TooMuch
  <2> QED
    BY <1>1, <1>4, <2>2, <2>8 DEF MemoryInv, WithinMemory, RefusedInv
<1> QED
  BY <1>5, <1>6

LEMMA MemoryKeeps ==
  ASSUME BaseInv, OpenPartInv, MemoryInv, [Next]_vars
  PROVE  MemoryInv'
<1>1. delivered \in Seq(Event)
  BY DEF BaseInv, Inv, StreamInv
<1>2. CASE PartBegin
  <2>1. PICK e \in Event :
          /\ e.kind = "Begin" /\ delivered' = Append(delivered, e) /\ ~IsInside(delivered)
          /\ Accountless /\ exception = "none" /\ pc = "events" /\ exception' # "TooMuchData"
    BY <1>2, BeginStep
  <2>2. /\ CostOf(delivered', Ended(delivered')) = CostOf(delivered, Ended(delivered))
        /\ Arrived(delivered') = Ended(delivered')
    BY <1>1, <2>1, EndedCost, ArrivedAfter
  <2> QED
    BY <2>1, <2>2, SameMemory
<1>3. CASE RawPart
  <2>1. PICK e \in Event :
          /\ e.kind = "Raw" /\ delivered' = Append(delivered, e) /\ ~IsInside(delivered)
          /\ Accountless /\ exception = "none" /\ pc = "events" /\ exception' # "TooMuchData"
    BY <1>3, RawStep
  <2>2. /\ CostOf(delivered', Ended(delivered')) = CostOf(delivered, Ended(delivered))
        /\ Arrived(delivered') = Ended(delivered')
    BY <1>1, <2>1, EndedCost, ArrivedAfter
  <2> QED
    BY <2>1, <2>2, SameMemory
<1>4. CASE ~Eventful
  <2>1. /\ UNCHANGED delivered /\ fieldBytes' = fieldBytes
        /\ exception' \in {"none", "StopUpload"} => exception \in {"none", "StopUpload"}
        /\ exception' = "TooMuchData" => exception = "TooMuchData"
        /\ pc' \in Working => pc \in Working
    BY <1>4, QuietStep DEF Accountless
  <2> QED
    BY <2>1 DEF MemoryInv, ChargedInv, WithinMemory, RefusedInv
<1> QED
  BY <1>2, <1>3, <1>4, DataMemory, EndMemory, FinishMemory DEF Eventful

-----------------------------------------------------------------------------
FieldInv == BaseInv /\ OpenPartInv /\ EndsInv /\ MemoryInv

LEMMA NoEvents == Named(<<>>) = {} /\ CostOf(<<>>, {}) = 0
<1>1. Len(<<>>) = 0 /\ <<>> \in Seq(Event)
  OBVIOUS
<1>2. Named(<<>>) = {}
  BY <1>1 DEF Named
<1>3. Costs(<<>>, {}) \in Seq(Nat) /\ Len(Costs(<<>>, {})) = Len(<<>>)
  <2>1. {} \in SUBSET Named(<<>>)
    OBVIOUS
  <2> QED
    BY <1>1, <2>1, CostType
<1>4. \A n \in 1..Len(Costs(<<>>, {})) : Costs(<<>>, {})[n] = 0
  BY <1>1, <1>3
<1> QED
  BY <1>2, <1>3, <1>4, SumOfZeros DEF CostOf

LEMMA InitFields == Init => OpenPartInv /\ EndsInv /\ MemoryInv
<1> SUFFICES ASSUME Init PROVE OpenPartInv /\ EndsInv /\ MemoryInv
  OBVIOUS
<1>1. /\ pc = "raw" /\ part = {} /\ delivered = <<>> /\ final = "Other"
      /\ fieldBytes = 0 /\ exception = "none"
  BY DEF Init
<1>2. Arrived(delivered) = {} /\ Ended(delivered) = {}
  BY <1>1, NoEvents DEF Arrived, Ended
<1>3. CostOf(delivered, Ended(delivered)) = 0 /\ CostOf(delivered, Arrived(delivered)) = 0
  BY <1>1, <1>2, NoEvents
<1>4. \A maximum \in MaxMemory : 0 <= maximum
  BY UploadAssumption
<1> QED
  BY <1>1, <1>3, <1>4
     DEF OpenPartInv, EndsInv, MemoryInv, ChargedInv, WithinMemory, RefusedInv

(* Of the events that have been handled, too, each is in its place.        *)
LEMMA DeliveredGood ==
  ASSUME BaseInv
  PROVE  delivered \in Seq(Event) /\ Good(delivered)
<1> DEFINE s == delivered
           u == delivered \o left
<1>1. /\ s \in Seq(Event) /\ Len(s) \in Nat /\ Good(u)
      /\ Len(s) <= Len(u) /\ Len(u) \in Nat /\ \A i \in 1..Len(s) : u[i] = s[i]
  BY ConcatProperties, LenProperties DEF BaseInv, Inv, StreamInv
<1> HIDE DEF s, u
<1>2. ASSUME NEW i \in 1..Len(s)
      PROVE  s[i].kind \in {"Data", "End"} <=> (i > 1 /\ s[i - 1].kind \in {"Begin", "Data"})
  <2>1. i \in 1..Len(u) /\ u[i] = s[i] /\ (i > 1 => u[i - 1] = s[i - 1])
    BY <1>1
  <2> QED
    BY <1>1, <2>1 DEF Good
<1>3. Good(s)
  BY <1>2 DEF Good
<1> QED
  BY <1>1, <1>3 DEF s

LEMMA FieldInvariant == Spec => []FieldInv
<1>1. Init => OpenPartInv /\ EndsInv /\ MemoryInv
  BY InitFields
<1>2. BaseInv /\ OpenPartInv /\ EndsInv /\ MemoryInv /\ [Next]_vars
        => OpenPartInv' /\ EndsInv' /\ MemoryInv'
  BY OpenPartKeeps, EndsKeeps, MemoryKeeps
<1>3. Spec => []BaseInv
  BY BaseInvariant
<1> QED
  BY <1>1, <1>2, <1>3, PTL DEF Spec, FieldInv

(***************************************************************************)
(* The limit on the memory of the fields is exact, for every limit and     *)
(* every batching of the events: all named fields that have arrived, those *)
(* still arriving included, are within it at every moment, and a message   *)
(* is refused for it only if its named fields are over it                  *)
(* (parser.py:354-360, 386-387, 416-420).                                  *)
(***************************************************************************)
THEOREM MemoryLimitCorrect == Spec => []MemoryLimitIsExact
<1>1. FieldInv => MemoryLimitIsExact
  <2> SUFFICES ASSUME FieldInv PROVE MemoryLimitIsExact
    OBVIOUS
  <2> DEFINE arrived == {i \in NamedFields : SizeOf(i) > 0 \/ IsEnded(i)}
  <2>1. /\ NamedFields = Named(delivered)
        /\ \A i \in Named(delivered) :
              (IsEnded(i) <=> ~IsOpen(delivered, i)) /\ SizeOf(i) = Size(delivered, i)
        /\ \A F : Cost(F) = CostOf(delivered, F)
    BY DeliveredGood, FieldsAgree DEF FieldInv
  <2>2. arrived = Arrived(delivered)
    BY <2>1 DEF Arrived
  <2>3. WithinMemory /\ RefusedInv
    BY DEF FieldInv, MemoryInv
  <2> QED
    BY <2>1, <2>2, <2>3 DEF MemoryLimitIsExact, WithinMemory, RefusedInv
<1> QED
  BY <1>1, FieldInvariant, PTL

-----------------------------------------------------------------------------
(* The entries q are those of the fields K, in order and with their data.  *)
Rank(K, i) == Cardinality({j \in K : j <= i})

Fits(entry, s, i) ==
  /\ entry.name = Name(s, i)
  /\ IF s[i].part.base64 THEN entry.size <= Size(s, i) ELSE entry.size = Size(s, i)

Holds(q, s, K) == Len(q) = Cardinality(K) /\ \A i \in K : Fits(q[Rank(K, i)], s, i)

LEMMA HoldsLater ==
  ASSUME NEW s \in Seq(Event), NEW e \in Event, NEW q, NEW K \in SUBSET Named(s),
         \A i \in K : ~(e.kind = "Data" /\ IsOpen(s, i)),
         Holds(q, s, K)
  PROVE  Holds(q, Append(s, e), K)
<1>1. ASSUME NEW i \in K PROVE Fits(q[Rank(K, i)], Append(s, e), i)
  <2>1. Fits(q[Rank(K, i)], s, i)
    BY DEF Holds
  <2>2. /\ Append(s, e)[i] = s[i] /\ Name(Append(s, e), i) = Name(s, i)
        /\ Size(Append(s, e), i) = Size(s, i)
    BY FieldAppend
  <2> QED
    BY <2>1, <2>2 DEF Fits
<1> QED
  BY <1>1 DEF Holds

(* The entry of a field that begins after all of them is the last one.     *)
LEMMA HoldsOneMore ==
  ASSUME NEW s, NEW E, NEW q \in Seq(E), NEW x \in E, NEW n \in Nat, NEW K \in SUBSET (1..n),
         NEW b \in 1..n, \A i \in K : i < b,
         Holds(q, s, K), Fits(x, s, b)
  PROVE  Holds(Append(q, x), s, K \cup {b})
<1> DEFINE L == K \cup {b}
<1>1. /\ Len(q) \in Nat /\ Len(Append(q, x)) = Len(q) + 1
      /\ \A k \in 1..Len(q) : Append(q, x)[k] = q[k]
      /\ Append(q, x)[Len(q) + 1] = x
  BY AppendProperties, LenProperties
<1>2. IsFiniteSet(K) /\ Cardinality(K) = Len(q) /\ b \notin K
  <2>1. IsFiniteSet(1..n) /\ K \subseteq 1..n
    BY FS_Interval
  <2>2. IsFiniteSet(K)
    BY <2>1, FS_Subset
  <2>3. b \notin K
    OBVIOUS
  <2> QED
    BY <2>2, <2>3 DEF Holds
<1>3. Cardinality(L) = Len(q) + 1
  BY <1>2, FS_AddElement
<1>4. ASSUME NEW i \in K
      PROVE  Rank(L, i) = Rank(K, i) /\ Rank(K, i) \in 1..Len(q)
  <2> DEFINE R == {j \in K : j <= i}
  <2>1. {j \in L : j <= i} = R
    OBVIOUS
  <2>2. R \subseteq K /\ i \in R
    OBVIOUS
  <2> HIDE DEF R
  <2>3. IsFiniteSet(R) /\ Cardinality(R) <= Cardinality(K) /\ Cardinality(R) \in Nat
    BY <1>2, <2>2, FS_Subset, FS_CardinalityType
  <2>4. Cardinality(R) # 0
    BY <2>2, <2>3, FS_EmptySet
  <2>5. Rank(L, i) = Cardinality(R) /\ Rank(K, i) = Cardinality(R)
    BY <2>1 DEF Rank, R
  <2> QED
    BY <1>1, <1>2, <2>3, <2>4, <2>5
<1>5. Rank(L, b) = Len(q) + 1
  <2>1. \A j \in L : j \in 1..n /\ j <= b
    OBVIOUS
  <2> QED
    BY <1>3, <2>1 DEF Rank
<1> HIDE DEF L
<1>6. \A i \in K : Fits(Append(q, x)[Rank(L, i)], s, i)
  BY <1>1, <1>4 DEF Holds
<1>7. Fits(Append(q, x)[Rank(L, b)], s, b)
  BY <1>1, <1>5
<1> QED
  BY <1>1, <1>3, <1>6, <1>7 DEF Holds, L

(* POST holds the fields that have ended, and, when the input has been     *)
(* handled to its end, the one that it cut short.                          *)
Kept == IF exception = "none" /\ PastTry THEN Named(delivered) ELSE Ended(delivered)
PostInv == exception \in {"none", "StopUpload"} => Holds(post, delivered, Kept)

(* _finish_part of the open field adds its entry.                          *)
LEMMA EntryAdded ==
  ASSUME BaseInv, NEW place, NEW p \in PartRecord, NEW b, Matches(p, delivered, b),
         ~p.isFile, ~p.ignored, ~TooMuchData(p), FinishField(p, place),
         Holds(post, delivered, Ended(delivered))
  PROVE  /\ Named(delivered) = Ended(delivered) \cup {b}
         /\ Holds(post', delivered, Named(delivered))
<1> DEFINE s == delivered
           E == [name : Nat, size : Nat]
<1>1. s \in Seq(Event) /\ Len(s) \in Nat /\ post \in Seq(E)
  BY LenProperties DEF BaseInv, Inv, StreamInv, ShapeInv, AccountType
<1>2. PICK size \in ValueSizes(p) :
        post' = Append(post, [name |-> CHOOSE n \in p.name : TRUE, size |-> size])
  BY FieldEnds
<1>3. /\ b \in Named(s) /\ b \in 1..Len(s) /\ IsOpen(s, b) /\ s[b].kind = "Begin"
      /\ p.name = s[b].part.name /\ p.base64 = s[b].part.base64 /\ p.data = Size(s, b)
  BY <1>1, OpenField DEF Matches
<1>4. Size(s, b) \in Nat /\ Name(s, b) \in Nat
  BY <1>1, <1>3, SizeType, FieldSumType
<1>5. /\ size \in Nat
      /\ IF p.base64 THEN size <= p.data ELSE size = p.data
  <2> DEFINE groups == p.data \div 4
  <2>1. p.data \in Nat /\ groups \in Nat /\ 3 * groups <= p.data
    BY <1>3, <1>4
  <2>2. \/ size = p.data
        \/ p.base64 /\ \E n \in 1..groups : size = 3 * n
        \/ p.base64 /\ groups > 0 /\ \E padding \in 1..2 : size = 3 * groups - padding
    BY DEF ValueSizes
  <2> HIDE DEF groups
  <2> QED
    BY <2>1, <2>2
<1> DEFINE x == [name |-> Name(s, b), size |-> size]
<1>6. x \in E /\ post' = Append(post, x) /\ Fits(x, s, b)
  BY <1>2, <1>3, <1>4, <1>5 DEF Fits, Name
<1>7. /\ Named(s) = Ended(s) \cup {b} /\ Ended(s) \in SUBSET (1..Len(s))
      /\ \A i \in Ended(s) : i < b
  <2>1. /\ \A i : IsOpen(s, i) => i = b
        /\ \A i \in 1..Len(s) : s[i].kind = "Begin" => i <= b
    BY <1>1, <1>3, OneOpen
  <2>2. \A i \in Named(s) : i \in 1..Len(s) /\ s[i].kind = "Begin"
    BY DEF Named, IsNamed
  <2>3. \A i \in Ended(s) : i \in Named(s) /\ i # b
    BY <1>3 DEF Ended
  <2>4. ASSUME NEW i \in Ended(s) PROVE i \in 1..Len(s) /\ i < b
    <3>1. i \in 1..Len(s) /\ i <= b /\ i # b
      BY <2>1, <2>2, <2>3
    <3> QED
      BY <1>1, <1>3, <3>1
  <2> QED
    BY <1>3, <2>1, <2>4 DEF Ended
<1> HIDE DEF x, E, s
<1>8. Holds(Append(post, x), s, Ended(s) \cup {b})
  BY <1>1, <1>3, <1>6, <1>7, HoldsOneMore DEF s
<1> QED
  BY <1>6, <1>7, <1>8 DEF s

(* An event that is not the End of a field.                                *)
LEMMA SamePost ==
  ASSUME BaseInv, PostInv, exception = "none", pc = "events", UNCHANGED post,
         ~PastTry' \/ exception' # "none",
         NEW e \in Event, delivered' = Append(delivered, e),
         Ended(delivered') = Ended(delivered)
  PROVE  PostInv'
<1>1. Holds(post, delivered, Ended(delivered))
  BY DEF PostInv, Kept, PastTry
<1>2. /\ delivered \in Seq(Event) /\ Ended(delivered) \in SUBSET Named(delivered)
      /\ \A i \in Ended(delivered) : ~IsOpen(delivered, i)
  BY DEF BaseInv, Inv, StreamInv, Ended
<1>3. Holds(post, delivered', Ended(delivered'))
  BY <1>1, <1>2, HoldsLater
<1>4. exception' \in {"none", "StopUpload"} => Kept' = Ended(delivered')
  BY DEF Kept
<1> QED
  BY <1>3, <1>4 DEF PostInv

LEMMA EndPost ==
  ASSUME BaseInv, OpenPartInv, PostInv, PartEnd
  PROVE  PostInv'
<1> DEFINE e == [kind |-> "End"]
           s == delivered
           t == Append(s, e)
<1>1. PICK p, b :
        /\ e \in Event /\ delivered' = t /\ IsInside(s)
        /\ NamedPart(p) /\ Matches(p, s, b)
        /\ exception = "none" /\ pc = "events"
        /\ \/ ~p.isFile /\ FinishField(p, "events")
           \/ /\ p.isFile /\ Accountless
              /\ pc' \in {"events", "finishing", "aborting"}
  BY EndStep
<1>2. e.kind = "End" /\ s \in Seq(Event) /\ p \in PartRecord /\ IsOpen(s, b)
  BY <1>1 DEF BaseInv, Inv, StreamInv, NamedPart, Matches
<1>3. pc' \in {"events", "finishing", "aborting"} /\ ~PastTry'
  BY <1>1, FieldEnds DEF PastTry
<1> HIDE DEF e
<1>4. Ended(t) = Ended(s) \cup (IF b \in Named(s) THEN {b} ELSE {})
  BY <1>1, <1>2, EndedAppend
<1>5. CASE p.isFile \/ p.ignored
  <2>1. b \notin Named(s) /\ UNCHANGED post
    BY <1>1, <1>2, <1>5, OpenField, FieldEnds DEF Accountless
  <2> QED
    BY <1>1, <1>3, <1>4, <2>1, SamePost
<1>6. CASE ~p.isFile /\ ~p.ignored /\ TooMuchData(p)
  BY <1>1, <1>6, FieldEnds DEF PostInv
<1>7. CASE ~p.isFile /\ ~p.ignored /\ ~TooMuchData(p)
  <2>1. Holds(post, s, Ended(s))
    BY <1>1 DEF PostInv, Kept, PastTry
  <2>2. FinishField(p, "events")
    BY <1>1, <1>7
  <2>3. Named(s) = Ended(s) \cup {b} /\ Holds(post', s, Named(s))
    BY <1>1, <1>2, <1>7, <2>1, <2>2, EntryAdded
  <2>4. Holds(post', t, Named(s))
    BY <1>1, <1>2, <2>3, HoldsLater
  <2>5. Ended(t) = Named(s)
    BY <1>4, <2>3
  <2> HIDE DEF t
  <2>6. Kept' = Ended(t)
    BY <1>1, <1>3 DEF Kept
  <2> QED
    BY <1>1, <2>4, <2>5, <2>6 DEF PostInv
<1> QED
  BY <1>5, <1>6, <1>7

LEMMA FinishPost ==
  ASSUME BaseInv, OpenPartInv, EndsInv, PostInv, Finish
  PROVE  PostInv'
<1>1. /\ pc = "events" /\ delivered' = delivered /\ exception = "none" /\ left = <<>>
      /\ delivered \in Seq(Event)
  BY DEF Finish, requestVars, BaseInv, ControlInv, Trying, Inv, StreamInv
<1>2. Holds(post, delivered, Ended(delivered))
  BY <1>1 DEF PostInv, Kept, PastTry
<1>3. Kept' \in {Named(delivered), Ended(delivered)}
      /\ (pc' = "ended" /\ exception' = "none" => Kept' = Named(delivered))
  BY <1>1 DEF Kept, PastTry
<1>4. ASSUME UNCHANGED post, Named(delivered) = Ended(delivered) PROVE PostInv'
  BY <1>1, <1>2, <1>3, <1>4 DEF PostInv
<1>5. CASE \E p \in part : ~p.isFile /\ FinishField(p, "ended")
  <2>1. PICK p \in part : ~p.isFile /\ FinishField(p, "ended")
    BY <1>5
  <2>2. PICK b : Matches(p, delivered, b)
    BY <1>1 DEF OpenPartInv, Between
  <2>3. p \in PartRecord /\ IsOpen(delivered, b)
    BY <2>2 DEF BaseInv, ShapeInv, PartType, NamedPart, Matches
  <2>4. CASE p.ignored
    <3>1. b \notin Named(delivered)
      BY <1>1, <2>2, <2>3, <2>4, OpenField
    <3>2. Named(delivered) = Ended(delivered)
      BY <1>1, <2>3, <3>1, OneOpen DEF Ended
    <3>3. UNCHANGED post
      BY <2>1, <2>4, FieldEnds DEF Accountless
    <3> QED
      BY <1>4, <3>2, <3>3
  <2>5. CASE ~p.ignored /\ TooMuchData(p)
    BY <2>1, <2>5, FieldEnds DEF PostInv
  <2>6. CASE ~p.ignored /\ ~TooMuchData(p)
    <3>1. Holds(post', delivered, Named(delivered))
      BY <1>2, <2>1, <2>2, <2>3, <2>6, EntryAdded
    <3>2. pc' = "ended" /\ exception' = "none"
      BY <1>1, <2>1, <2>6, FieldEnds
    <3> QED
      BY <1>1, <1>3, <3>1, <3>2 DEF PostInv
  <2> QED
    BY <2>4, <2>5, <2>6
<1>6. CASE final = "End" \/ \A p \in part : p.isFile
  <2>1. \A i \in Named(delivered) : ~IsOpen(delivered, i)
    <3> SUFFICES ASSUME NEW i \in Named(delivered), IsOpen(delivered, i) PROVE FALSE
      OBVIOUS
    <3>1. IsInside(delivered)
      BY <1>1, OneOpen
    <3>2. final # "End"
      <4>1. delivered \o left = delivered
        BY <1>1, ConcatEmptySeq
      <4> QED
        BY <3>1, <4>1 DEF EndsInv
    <3>3. PICK p, b : part = {p} /\ NamedPart(p) /\ Matches(p, delivered, b)
      BY <1>1, <3>1, OpenPart
    <3>4. p.isFile /\ p \in PartRecord /\ IsOpen(delivered, b)
      BY <1>6, <3>2, <3>3 DEF NamedPart, Matches
    <3>5. b \notin Named(delivered)
      BY <1>1, <3>3, <3>4, OpenField
    <3> QED
      BY <1>1, <3>4, <3>5, OneOpen
  <2>2. Named(delivered) = Ended(delivered)
    BY <2>1 DEF Ended
  <2>3. UNCHANGED post \/ \E p \in part : ~p.isFile /\ FinishField(p, "ended")
    BY DEF Finish
  <2> QED
    BY <1>4, <1>5, <2>2, <2>3
<1> QED
  BY <1>5, <1>6 DEF Finish

LEMMA PostKeeps ==
  ASSUME BaseInv, OpenPartInv, EndsInv, PostInv, [Next]_vars
  PROVE  PostInv'
<1>1. delivered \in Seq(Event)
  BY DEF BaseInv, Inv, StreamInv
<1>2. CASE PartBegin
  <2>1. PICK e \in Event :
          /\ e.kind = "Begin" /\ delivered' = Append(delivered, e) /\ ~IsInside(delivered)
          /\ Accountless /\ exception = "none" /\ pc = "events"
          /\ pc' \in {"events", "starting"} \/ exception' # "none"
    BY <1>2, BeginStep
  <2>2. Ended(delivered') = Ended(delivered) /\ (~PastTry' \/ exception' # "none")
    BY <1>1, <2>1, EndedAppend DEF PastTry
  <2> QED
    BY <2>1, <2>2, SamePost DEF Accountless
<1>3. CASE PartData
  <2>1. PICK size \in DataSizes :
          LET e == [kind |-> "Data", size |-> size]
          IN  /\ e \in Event /\ delivered' = Append(delivered, e) /\ IsInside(delivered)
              /\ Accountless /\ exception = "none" /\ pc = "events"
              /\ pc' \in {"events", "receiving", "aborting"}
    BY <1>3, DataStep
  <2> DEFINE e == [kind |-> "Data", size |-> size]
  <2>2. /\ e \in Event /\ e.kind = "Data" /\ delivered' = Append(delivered, e)
        /\ IsInside(delivered)
    BY <2>1
  <2> HIDE DEF e
  <2>3. Ended(delivered') = Ended(delivered) /\ ~PastTry'
    BY <1>1, <2>1, <2>2, EndedAppend DEF PastTry
  <2> QED
    BY <2>1, <2>2, <2>3, SamePost DEF Accountless
<1>4. CASE RawPart
  <2>1. PICK e \in Event :
          /\ e.kind = "Raw" /\ delivered' = Append(delivered, e) /\ ~IsInside(delivered)
          /\ Accountless /\ exception = "none" /\ pc = "events"
          /\ pc' \in {"events", "aborting"}
    BY <1>4, RawStep
  <2>2. Ended(delivered') = Ended(delivered) /\ ~PastTry'
    BY <1>1, <2>1, EndedAppend DEF PastTry
  <2> QED
    BY <2>1, <2>2, SamePost DEF Accountless
<1>5. CASE ~Eventful
  <2>1. /\ UNCHANGED delivered /\ UNCHANGED post
        /\ \/ exception' = exception
           \/ exception' \notin {"none", "StopUpload"}
           \/ exception = "none" /\ exception' = "StopUpload" /\ pc \in Working
        /\ exception' = "none" /\ PastTry' => PastTry \/ pc = "raw"
        /\ exception' = "none" /\ PastTry => PastTry'
    BY <1>5, QuietStep DEF Accountless
  <2>2. pc = "raw" => Named(delivered) = {} /\ Ended(delivered) = {}
    BY NoEvents DEF EndsInv, Ended
  <2>3. pc \in Working => ~PastTry
    BY DEF Working, Between, PastTry
  <2>4. /\ Named(delivered') = Named(delivered) /\ Ended(delivered') = Ended(delivered)
    BY <2>1
  <2>5. exception' \in {"none", "StopUpload"} =>
          exception \in {"none", "StopUpload"} /\ Kept' = Kept
    BY <2>1, <2>2, <2>3, <2>4 DEF Kept
  <2> QED
    BY <2>1, <2>5 DEF PostInv
<1> QED
  BY <1>2, <1>3, <1>4, <1>5, EndPost, FinishPost DEF Eventful

LEMMA InitPost == Init => PostInv
<1> SUFFICES ASSUME Init PROVE PostInv
  OBVIOUS
<1>1. delivered = <<>> /\ post = <<>> /\ Named(<<>>) = {} /\ Ended(<<>>) = {}
  BY NoEvents DEF Init, Ended
<1>2. Kept = {} /\ Len(post) = 0
  BY <1>1 DEF Kept
<1>3. Cardinality({}) = 0
  BY FS_EmptySet
<1> QED
  BY <1>2, <1>3 DEF PostInv, Holds

(***************************************************************************)
(* POST holds the named fields of the message and nothing else's, in order *)
(* and with all their data, for every sequence of fields, files, raw       *)
(* segments and skipped parts and whatever the upload handlers answer; a   *)
(* field that the end of the input cuts short is kept, and after a         *)
(* StopUpload the fields that ended before it are (parser.py:192, 209-212, *)
(* 386-397).                                                               *)
(***************************************************************************)
THEOREM PostCorrect == Spec => []PostIsWhatArrived
<1>1. Init => PostInv
  BY InitPost
<1>2. FieldInv /\ PostInv /\ [Next]_vars => PostInv'
  BY PostKeeps DEF FieldInv
<1>3. FieldInv /\ PostInv => PostIsWhatArrived
  <2> SUFFICES ASSUME FieldInv, PostInv PROVE PostIsWhatArrived
    OBVIOUS
  <2> DEFINE kept == {i \in NamedFields : IsEnded(i) \/ (PastTry /\ exception = "none")}
  <2>1. /\ NamedFields = Named(delivered)
        /\ \A i \in Named(delivered) :
              /\ IsEnded(i) <=> ~IsOpen(delivered, i)
              /\ SizeOf(i) = Size(delivered, i) /\ NameOf(i) = Name(delivered, i)
    BY DeliveredGood, FieldsAgree DEF FieldInv
  <2>2. kept = Kept /\ Kept \subseteq Named(delivered)
    BY <2>1 DEF Kept, Ended
  <2> HIDE DEF kept
  <2> SUFFICES ASSUME exception \in {"none", "StopUpload"}
               PROVE  /\ Len(post) = Cardinality(kept)
                      /\ \A i \in kept :
                           LET entry == post[Cardinality({j \in kept : j <= i})]
                           IN  /\ entry.name = NameOf(i)
                               /\ IF delivered[i].part.base64 THEN entry.size <= SizeOf(i)
                                  ELSE entry.size = SizeOf(i)
    BY DEF PostIsWhatArrived, kept
  <2>3. Holds(post, delivered, kept)
    BY <2>2 DEF PostInv
  <2> QED
    BY <2>1, <2>2, <2>3 DEF Holds, Fits, Rank
<1> QED
  BY <1>1, <1>2, <1>3, FieldInvariant, PTL DEF Spec
=============================================================================
