--------------------------------- MODULE SumsProofs -------------------------
(***************************************************************************)
(* Facts about sums and numbers.  The induction theorems of the library    *)
(* cannot be applied here: a least counterexample takes their place.       *)
(***************************************************************************)
EXTENDS Sums, FiniteSetTheorems, WellFoundedInduction, TLAPS

\* Every non-empty set of naturals has a least element.
LEMMA LeastElement ==
  ASSUME NEW T \in SUBSET Nat, T # {}
  PROVE  \E m \in T : \A k \in T : m <= k
<1> DEFINE U == {0 .. n : n \in T}
<1>1. ASSUME NEW n \in T PROVE 0 .. n \in FiniteSubsetsOf(Nat)
  <2>1. 0 .. n \in SUBSET Nat /\ IsFiniteSet(0 .. n)
    BY FS_Interval
  <2> QED
    BY <2>1 DEF FiniteSubsetsOf
<1>2. U \subseteq FiniteSubsetsOf(Nat) /\ U # {}
  BY <1>1
<1>3. IsWellFoundedOn(StrictSubsetOrdering(Nat), FiniteSubsetsOf(Nat))
  BY FS_StrictSubsetOrderingWellFounded
<1> HIDE DEF U
<1>4. PICK x \in U : \A y \in U : ~(<<y, x>> \in StrictSubsetOrdering(Nat))
  BY <1>2, <1>3, WFMin
<1>5. PICK m \in T : x = 0 .. m
  BY DEF U
<1>6. ASSUME NEW k \in T, ~(m <= k) PROVE FALSE
  <2>1. 0 .. k \subseteq 0 .. m /\ 0 .. k # 0 .. m
    BY <1>6
  <2>2. 0 .. k \in U
    BY DEF U
  <2>3. 0 .. k \in SUBSET Nat /\ 0 .. m \in SUBSET Nat
    OBVIOUS
  <2>4. <<0 .. k, 0 .. m>> \in StrictSubsetOrdering(Nat)
    BY <2>1, <2>3 DEF StrictSubsetOrdering
  <2> QED
    BY <1>4, <1>5, <2>2, <2>4
<1> QED
  BY <1>6

\* The sums of the first sizes of a sequence, as a function.
IsSum(sizes, f, n) ==
  /\ f \in [0 .. n -> Nat]
  /\ f[0] = 0
  /\ \A j \in 1 .. n : f[j] = f[j - 1] + sizes[j]

\* The sums exist: a shortest beginning of the sequence without them would be
\* one element longer than one that has them.
LEMMA SumsExist ==
  ASSUME NEW sizes \in Seq(Nat)
  PROVE  \E f : IsSum(sizes, f, Len(sizes))
<1> DEFINE T == {n \in 0 .. Len(sizes) : ~ \E f : IsSum(sizes, f, n)}
<1>0. Len(sizes) \in 0 .. Len(sizes)
  OBVIOUS
<1> SUFFICES T = {}
  BY <1>0
<1> SUFFICES ASSUME T # {} PROVE FALSE
  OBVIOUS
<1>1. T \in SUBSET Nat
  OBVIOUS
<1>2. PICK m \in T : \A k \in T : m <= k
  <2> HIDE DEF T
  <2> QED
    BY <1>1, LeastElement
<1>3. m # 0
  <2>1. IsSum(sizes, [i \in 0 .. 0 |-> 0], 0)
    BY DEF IsSum
  <2> QED
    BY <1>2, <2>1
<1>4. m \in 1 .. Len(sizes) /\ m - 1 \in 0 .. Len(sizes) /\ m - 1 \notin T
  BY <1>2, <1>3
<1>5. PICK f : IsSum(sizes, f, m - 1)
  BY <1>4
<1> DEFINE g == [i \in 0 .. m |-> IF i = m THEN f[m - 1] + sizes[m] ELSE f[i]]
<1>6. IsSum(sizes, g, m)
  <2>1. sizes[m] \in Nat /\ f[m - 1] \in Nat
    BY <1>4, <1>5 DEF IsSum
  <2>2. g \in [0 .. m -> Nat] /\ g[0] = 0
    BY <1>4, <1>5, <2>1 DEF IsSum
  <2>3. ASSUME NEW j \in 1 .. m PROVE g[j] = g[j - 1] + sizes[j]
    <3>1. CASE j = m
      BY <1>4, <3>1
    <3>2. CASE j # m
      <4>1. j \in 1 .. m - 1 /\ j \in 0 .. m /\ j - 1 \in 0 .. m /\ j - 1 # m
        BY <1>4, <3>2
      <4> QED
        BY <1>5, <3>2, <4>1 DEF IsSum
    <3> QED
      BY <3>1, <3>2
  <2> QED
    BY <2>2, <2>3 DEF IsSum
<1> QED
  BY <1>2, <1>6

\* What the loops over the commands add up.
LEMMA Sums ==
  ASSUME NEW sizes \in Seq(Nat)
  PROVE  /\ SizesUpTo(sizes, 0) = 0
         /\ \A i \in 0 .. Len(sizes) : SizesUpTo(sizes, i) \in Nat
         /\ \A i \in 1 .. Len(sizes) : SizesUpTo(sizes, i) = SizesUpTo(sizes, i - 1) + sizes[i]
<1> DEFINE S == 0 .. Len(sizes)
           Recursive(g) == g = [j \in S |-> IF j = 0 THEN 0 ELSE g[j - 1] + sizes[j]]
           sum == CHOOSE g : Recursive(g)
<1>1. PICK f : IsSum(sizes, f, Len(sizes))
  BY SumsExist
<1>2. Recursive(f)
  <2>1. Len(sizes) \in Nat /\ f \in [S -> Nat] /\ f[0] = 0
    BY <1>1 DEF IsSum
  <2>2. \A j \in S : j # 0 => f[j] = f[j - 1] + sizes[j]
    BY <1>1 DEF IsSum
  <2> QED
    BY <2>1, <2>2
<1>3. Recursive(sum)
  BY <1>2
<1>4. \A i : SizesUpTo(sizes, i) = sum[i]
  BY DEF SizesUpTo
<1>5. Len(sizes) \in Nat
  OBVIOUS
<1> HIDE DEF sum
<1>6. sum[0] = 0 /\ \A j \in 1 .. Len(sizes) : sum[j] = sum[j - 1] + sizes[j]
  <2>1. \A j \in S : sum[j] = IF j = 0 THEN 0 ELSE sum[j - 1] + sizes[j]
    BY <1>3
  <2>2. 0 \in S /\ \A j \in 1 .. Len(sizes) : j \in S /\ j # 0
    BY <1>5
  <2> QED
    BY <2>1, <2>2
<1>7. \A i \in S : sum[i] \in Nat
  <2> DEFINE T == {i \in S : sum[i] \notin Nat}
  <2> SUFFICES ASSUME T # {} PROVE FALSE
    OBVIOUS
  <2>1. T \in SUBSET Nat
    BY <1>5
  <2>2. PICK m \in T : \A k \in T : m <= k
    <3> HIDE DEF T
    <3> QED
      BY <2>1, LeastElement
  <2>3. m # 0
    BY <1>6, <2>2
  <2>4. m \in 1 .. Len(sizes) /\ m - 1 \in S /\ m - 1 \notin T
    BY <1>5, <2>2, <2>3
  <2>5. sum[m - 1] \in Nat /\ sizes[m] \in Nat /\ sum[m] = sum[m - 1] + sizes[m]
    BY <1>6, <2>4
  <2> QED
    BY <2>2, <2>5
<1> QED
  BY <1>4, <1>6, <1>7

\* More elements have a sum that is not smaller.
LEMMA SumsMonotone ==
  ASSUME NEW sizes \in Seq(Nat), NEW i \in 0 .. Len(sizes), NEW j \in 0 .. Len(sizes), i <= j
  PROVE  SizesUpTo(sizes, i) <= SizesUpTo(sizes, j)
<1> DEFINE T == {k \in i .. Len(sizes) : ~(SizesUpTo(sizes, i) <= SizesUpTo(sizes, k))}
<1>1. Len(sizes) \in Nat
  OBVIOUS
<1> SUFFICES ASSUME T # {} PROVE FALSE
  BY <1>1
<1>2. T \in SUBSET Nat
  BY <1>1
<1>3. PICK m \in T : \A k \in T : m <= k
  <2> HIDE DEF T
  <2> QED
    BY <1>2, LeastElement
<1>4. SizesUpTo(sizes, i) \in Nat
  BY Sums
<1>5. m \in i .. Len(sizes) /\ m # i
  BY <1>1, <1>3, <1>4
<1>6. m \in 1 .. Len(sizes) /\ m - 1 \in i .. Len(sizes) /\ m - 1 \in 0 .. Len(sizes) /\ m - 1 < m
  BY <1>1, <1>5
<1>7. SizesUpTo(sizes, i) <= SizesUpTo(sizes, m - 1)
  BY <1>3, <1>6
<1>8. /\ SizesUpTo(sizes, m) = SizesUpTo(sizes, m - 1) + sizes[m]
      /\ SizesUpTo(sizes, m - 1) \in Nat /\ sizes[m] \in Nat
  BY <1>6, Sums
<1>9. SizesUpTo(sizes, i) <= SizesUpTo(sizes, m)
  BY <1>4, <1>7, <1>8
<1> QED
  BY <1>3, <1>9

\* Laid out one behind the other, the elements leave no gap.
LEMMA SumsCover ==
  ASSUME NEW sizes \in Seq(Nat), NEW b \in Nat, b < SizesUpTo(sizes, Len(sizes))
  PROVE  \E k \in 1 .. Len(sizes) : SizesUpTo(sizes, k - 1) <= b /\ b < SizesUpTo(sizes, k)
<1> DEFINE T == {k \in 0 .. Len(sizes) : b < SizesUpTo(sizes, k)}
<1>1. Len(sizes) \in Nat /\ Len(sizes) \in 0 .. Len(sizes)
  OBVIOUS
<1>2. T \in SUBSET Nat /\ T # {}
  BY <1>1
<1>3. PICK m \in T : \A k \in T : m <= k
  <2> HIDE DEF T
  <2> QED
    BY <1>2, LeastElement
<1>4. m # 0
  BY <1>3, Sums
<1>5. m \in 1 .. Len(sizes) /\ m - 1 \in 0 .. Len(sizes) /\ m - 1 \notin T
  BY <1>1, <1>3, <1>4
<1>6. SizesUpTo(sizes, m - 1) \in Nat
  BY <1>5, Sums
<1>7. SizesUpTo(sizes, m - 1) <= b
  BY <1>5, <1>6
<1> QED
  BY <1>3, <1>5, <1>7
=============================================================================
