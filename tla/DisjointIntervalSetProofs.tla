--------------------- MODULE DisjointIntervalSetProofs ---------------------
(***************************************************************************)
(* For every address space and every set of requests that stay inside it,  *)
(* the collected ranges are pairwise separated and stand for exactly the   *)
(* bytes that were requested.                                              *)
(***************************************************************************)
EXTENDS DisjointIntervalSet, TLAPS

\* While an insertion is in its loop, every interval the iterator has passed
\* ends before the range that is being inserted.
PassedIsBelow ==
  op = "merging" =>
    /\ start < end
    /\ \A k \in DOMAIN m_intervals : k < it => m_intervals[k] < start

IInv == TypeOK /\ Separated /\ PassedIsBelow

\* The initial set is empty and no insertion is in progress.
LEMMA InitEstablishes == Init => IInv
  BY AddrLimitAssumption
  DEF Init, IInv, TypeOK, Separated, PassedIsBelow, Address

\* Entering the loop: the iterator starts at the last interval that does not
\* start after the range, so what lies before it ends before the range.
LEMMA InsertPreserves ==
  ASSUME NoWrap, IInv, NEW r \in Requests, Insert(r[1], r[2])
  PROVE  IInv'
<1>1. r[1] \in Address /\ r[2] \in Address /\ r[1] + r[2] < AddrLimit
  BY RequestsAssumption DEF NoWrap, Address
<1>2. start' = r[1] /\ end' = r[1] + r[2] /\ start' < end' /\ end' \in Address
  BY <1>1, AddrLimitAssumption DEF Insert, Wrap, Address
<1>3. PICK p \in 0 .. AddrLimit : IsFirstCandidate(p, r[1]) /\ it' = p
  BY DEF Insert
<1>4. ASSUME NEW k \in DOMAIN m_intervals, k < p
      PROVE  m_intervals[k] < r[1]
  BY <1>1, <1>3, <1>4 DEF IInv, TypeOK, Separated, IsFirstCandidate, Address
<1>5. TypeOK'
  BY <1>1, <1>2, <1>3 DEF IInv, TypeOK, Insert
<1>6. Separated'
  BY DEF IInv, Separated, Insert
<1>7. PassedIsBelow'
  BY <1>2, <1>3, <1>4 DEF PassedIsBelow, Insert
<1> QED
  BY <1>5, <1>6, <1>7 DEF IInv

\* Absorbing an interval: the grown range still begins after everything that
\* the iterator has passed, because the intervals were separated.
LEMMA MergePreserves ==
  ASSUME IInv, NEW k \in DOMAIN m_intervals, Merge(k)
  PROVE  IInv'
<1>1. /\ \A j \in DOMAIN m_intervals : j \in Nat /\ m_intervals[j] \in Nat
      /\ start \in Nat /\ end \in Nat /\ it \in Nat /\ AddrLimit \in Nat
      /\ start < end
  BY AddrLimitAssumption DEF IInv, TypeOK, PassedIsBelow, Merge, Address
<1>2. /\ DOMAIN m_intervals' = DOMAIN m_intervals \ {k}
      /\ \A j \in DOMAIN m_intervals' : m_intervals'[j] = m_intervals[j]
  BY DEF Merge
<1>3. TypeOK'
  <2>1. k \in Address /\ m_intervals[k] \in Address
    BY DEF IInv, TypeOK
  <2>2. start' \in Address
    BY <2>1 DEF IInv, TypeOK, Merge, Lesser
  <2>3. end' \in Address
    BY <2>1 DEF IInv, TypeOK, Merge, Greater
  <2>4. it' \in 0 .. AddrLimit
    BY <1>1, <2>1 DEF Merge, Address
  <2> QED
    BY <1>2, <2>2, <2>3, <2>4 DEF IInv, TypeOK, Merge
<1>4. Separated'
  BY <1>2 DEF IInv, Separated
<1>5. PassedIsBelow'
  <2>1. start' < end'
    BY <1>1 DEF Merge, Lesser, Greater
  <2>2. ASSUME NEW j \in DOMAIN m_intervals', j < it'
        PROVE  m_intervals'[j] < start'
    <3>1. j \in DOMAIN m_intervals /\ j < k
      BY <1>1, <1>2, <2>2 DEF Merge
    <3>2. j < it
      BY <1>1, <3>1 DEF Merge, Designates
    <3>3. m_intervals[j] < start /\ m_intervals[j] < k
      BY <3>1, <3>2 DEF IInv, PassedIsBelow, Separated, Merge
    <3> QED
      BY <1>2, <3>3 DEF Merge, Lesser
  <2> QED
    BY <2>1, <2>2 DEF PassedIsBelow
<1> QED
  BY <1>3, <1>4, <1>5 DEF IInv

\* Passing an interval that ends before the range.
LEMMA SkipPreserves ==
  ASSUME IInv, NEW k \in DOMAIN m_intervals, Skip(k)
  PROVE  IInv'
<1>1. /\ \A j \in DOMAIN m_intervals : j \in Nat /\ m_intervals[j] \in Nat
      /\ start \in Nat /\ it \in Nat /\ k < AddrLimit /\ AddrLimit \in Nat
  BY AddrLimitAssumption DEF IInv, TypeOK, Address
<1>2. ASSUME NEW j \in DOMAIN m_intervals, j < k + 1
      PROVE  m_intervals[j] < start
  <2>1. CASE j = k
    BY <1>1, <2>1 DEF Skip, Touches
  <2>2. CASE j # k
    <3>1. j < it
      BY <1>1, <1>2, <2>2 DEF Skip, Designates
    <3> QED
      BY <3>1 DEF IInv, PassedIsBelow, Skip
  <2> QED
    BY <2>1, <2>2
<1>3. TypeOK'
  BY <1>1 DEF IInv, TypeOK, Skip
<1>4. Separated'
  BY DEF IInv, Separated, Skip
<1>5. PassedIsBelow'
  BY <1>2 DEF IInv, PassedIsBelow, Skip
<1> QED
  BY <1>3, <1>4, <1>5 DEF IInv

\* Leaving the loop: what is below the iterator ends before the range and what
\* is not begins after it, so the range fits in between.
LEMMA StorePreserves ==
  ASSUME IInv, Store
  PROVE  IInv'
<1>1. /\ \A j \in DOMAIN m_intervals : j \in Nat /\ m_intervals[j] \in Nat
      /\ start \in Nat /\ end \in Nat /\ it \in Nat /\ start < end
      /\ AddrLimit \in Nat \ {0}
  BY AddrLimitAssumption DEF IInv, TypeOK, PassedIsBelow, Store, Address
<1>2. /\ DOMAIN m_intervals' = DOMAIN m_intervals \cup {start}
      /\ m_intervals'[start] = end
      /\ \A j \in DOMAIN m_intervals : j # start => m_intervals'[j] = m_intervals[j]
  BY DEF Store
<1>3. \A j \in DOMAIN m_intervals : m_intervals[j] < start \/ j > end
  BY <1>1 DEF IInv, PassedIsBelow, Store
<1>4. \A j \in DOMAIN m_intervals : j < m_intervals[j]
  BY DEF IInv, Separated
<1>5. TypeOK'
  BY <1>1, <1>2 DEF IInv, TypeOK, Store, Address
<1>6. Separated'
  BY <1>1, <1>2, <1>3, <1>4 DEF IInv, Separated
<1>7. PassedIsBelow'
  BY DEF PassedIsBelow, Store
<1> QED
  BY <1>5, <1>6, <1>7 DEF IInv

\* The strengthened invariant is inductive as long as no request wraps.
LEMMA Inductive ==
  ASSUME NoWrap
  PROVE  Spec => []IInv
<1>1. ASSUME IInv, [Next]_vars
      PROVE  IInv'
  <2>1. CASE \E r \in Requests : Insert(r[1], r[2])
    BY <1>1, <2>1, InsertPreserves
  <2>2. CASE \E k \in DOMAIN m_intervals : Merge(k) \/ Skip(k)
    BY <1>1, <2>2, MergePreserves, SkipPreserves
  <2>3. CASE Store
    BY <1>1, <2>3, StorePreserves
  <2>4. CASE UNCHANGED vars
    BY <1>1, <2>4 DEF vars, IInv, TypeOK, Separated, PassedIsBelow
  <2> QED
    BY <1>1, <2>1, <2>2, <2>3, <2>4 DEF Next
<1> QED
  BY <1>1, InitEstablishes, PTL DEF Spec

\* Every variable of InsertAndMergeIfNeeded keeps its type, in particular the
\* end of a range stays an address.
THEOREM TypeCorrect ==
  ASSUME NoWrap
  PROVE  Spec => []TypeOK
  BY Inductive, PTL DEF IInv

\* No byte of the target is in two of the ranges that ForEach hands out.
THEOREM RangesStaySeparated ==
  ASSUME NoWrap
  PROVE  Spec => []Separated
  BY Inductive, PTL DEF IInv
-----------------------------------------------------------------------------
\* An insertion adds its bytes to the abstract set.
LEMMA InsertAdds ==
  ASSUME NoWrap, IInv, NEW r \in Requests, Insert(r[1], r[2])
  PROVE  Bytes' = Bytes \cup (r[1] .. (r[1] + r[2] - 1))
<1>1. r[1] \in Nat /\ r[2] \in Nat /\ r[1] + r[2] < AddrLimit /\ AddrLimit \in Nat
  BY RequestsAssumption, AddrLimitAssumption DEF NoWrap
<1>2. start' = r[1] /\ end' = r[1] + r[2]
  BY <1>1 DEF Insert, Wrap
<1>3. ASSUME NEW x
      PROVE  x \in Bytes' <=> x \in Bytes \cup (r[1] .. (r[1] + r[2] - 1))
  BY <1>1, <1>2 DEF Bytes, Insert, Address
<1> QED
  BY <1>3

\* Absorbing an interval that overlaps the range or is adjacent to it neither
\* loses nor invents a byte.
LEMMA MergeKeepsBytes ==
  ASSUME IInv, NEW k \in DOMAIN m_intervals, Merge(k)
  PROVE  Bytes' = Bytes
<1>1. /\ k \in Nat /\ m_intervals[k] \in Nat /\ k < m_intervals[k]
      /\ start \in Nat /\ end \in Nat /\ start < end /\ AddrLimit \in Nat
  BY AddrLimitAssumption
  DEF IInv, TypeOK, Separated, PassedIsBelow, Merge, Address
<1>2. ASSUME NEW x \in Address
      PROVE  (start' <= x /\ x < end') <=>
               (start <= x /\ x < end) \/ (k <= x /\ x < m_intervals[k])
  BY <1>1 DEF Merge, Touches, Lesser, Greater, Address
<1>3. /\ DOMAIN m_intervals' = DOMAIN m_intervals \ {k}
      /\ \A j \in DOMAIN m_intervals' : m_intervals'[j] = m_intervals[j]
      /\ op = "merging" /\ op' = "merging"
  BY DEF Merge
<1>4. ASSUME NEW x \in Address
      PROVE  x \in Bytes' <=> x \in Bytes
  BY <1>2, <1>3 DEF Bytes
<1> QED
  BY <1>4 DEF Bytes

\* Storing the range moves its bytes from the loop's variables into the map.
LEMMA StoreKeepsBytes ==
  ASSUME IInv, Store
  PROVE  Bytes' = Bytes
<1>1. /\ DOMAIN m_intervals' = DOMAIN m_intervals \cup {start}
      /\ m_intervals'[start] = end
      /\ \A j \in DOMAIN m_intervals : j # start => m_intervals'[j] = m_intervals[j]
      /\ op = "merging" /\ op' = "idle"
  BY DEF Store
<1>2. start \notin DOMAIN m_intervals
  BY AddrLimitAssumption
  DEF IInv, TypeOK, Separated, PassedIsBelow, Store, Address
<1>3. ASSUME NEW x \in Address
      PROVE  x \in Bytes' <=> x \in Bytes
  BY <1>1, <1>2 DEF Bytes
<1> QED
  BY <1>3 DEF Bytes

\* InsertAndMergeIfNeeded implements the plain set of requested bytes: every
\* step of its loop is invisible and the call adds exactly what it was asked.
THEOREM SetRefinement ==
  ASSUME NoWrap
  PROVE  Spec => ImplementsCoveredBytes
<1>1. Init => Abstract!Init
  BY DEF Init, Abstract!Init, Bytes
<1>2. ASSUME IInv, [Next]_vars
      PROVE  [Abstract!Next]_Bytes
  <2>1. CASE \E r \in Requests : Insert(r[1], r[2])
    BY <1>2, <2>1, InsertAdds DEF Abstract!Next, Abstract!Add
  <2>2. ASSUME NEW k \in DOMAIN m_intervals, Merge(k)
        PROVE  Bytes' = Bytes
    BY <1>2, <2>2, MergeKeepsBytes
  <2>3. ASSUME NEW k \in DOMAIN m_intervals, Skip(k)
        PROVE  Bytes' = Bytes
    BY <2>3 DEF Skip, Bytes
  <2>4. CASE Store
    BY <1>2, <2>4, StoreKeepsBytes
  <2>5. CASE UNCHANGED vars
    BY <2>5 DEF vars, Bytes
  <2> QED
    BY <1>2, <2>1, <2>2, <2>3, <2>4, <2>5 DEF Next
<1> QED
  BY <1>1, <1>2, Inductive, PTL DEF Spec, ImplementsCoveredBytes, Abstract!Spec
=============================================================================
