------------------------ MODULE DisjointIntervalSet ------------------------
(***************************************************************************)
(* The set of memory ranges that will become the segments of the core file *)
(* (class DisjointIntervalSet).  The std::map from range start to range    *)
(* end is the function m_intervals, whose domain is the set of starts.     *)
(*                                                                         *)
(* InsertAndMergeIfNeeded runs as a loop: Insert enters it, Merge and Skip *)
(* are its two branches, Store leaves it.  An iterator into the map is the *)
(* address `it': it designates the interval with the least start that is   *)
(* not below that address, or end() when there is none.                    *)
(***************************************************************************)
EXTENDS Integers

CONSTANTS
  AddrLimit,   \* number of addresses, 2^64 in the code
  Requests     \* the (start, length) pairs a caller may insert

ASSUME AddrLimitAssumption == AddrLimit \in Nat \ {0}

ASSUME RequestsAssumption ==
  \A r \in Requests : r[1] \in 0 .. AddrLimit - 1 /\ r[2] \in 0 .. AddrLimit - 1

VARIABLES
  m_intervals, \* start -> end, ends are exclusive
  op,          \* "idle", or "merging" while an insertion is in its loop
  start, end,  \* the range being inserted, grown by every merge
  it           \* position of the iterator of the loop

vars == <<m_intervals, op, start, end, it>>
-----------------------------------------------------------------------------
\* uint64_t addition of two addresses.
Wrap(x) == IF x < AddrLimit THEN x ELSE x - AddrLimit

Lesser(a, b) == IF a <= b THEN a ELSE b

MutantGreater(a, b) == a + b    \* the ends are added up

Greater(a, b) == IF a >= b THEN a ELSE b

MutantFirstCandidate(p, s) ==
  p = s + 1                  \* upper_bound without the decrement

\* The iterator after upper_bound (start) and the conditional decrement: the
\* last interval that starts at or before s, else the first one of the map.
IsFirstCandidate(p, s) ==
  IF \A k \in DOMAIN m_intervals : k > s
  THEN p = 0
  ELSE /\ p \in DOMAIN m_intervals
       /\ p <= s
       /\ \A k \in DOMAIN m_intervals : k <= s => k <= p

\* The iterator designates the interval that starts at k.
Designates(k) ==
  /\ k \in DOMAIN m_intervals
  /\ k >= it
  /\ \A j \in DOMAIN m_intervals : j >= it => k <= j

\* The interval at k overlaps the range being inserted or is adjacent to it.
Touches(k) == m_intervals[k] >= start
-----------------------------------------------------------------------------
Init ==
  /\ m_intervals = [k \in {} |-> 0]
  /\ op = "idle"
  /\ start = 0
  /\ end = 0
  /\ it = 0

\* The call.  A request of length 0 returns at once and changes nothing.
Insert(s, l) ==
  /\ op = "idle"
  /\ l # 0
  /\ op' = "merging"
  /\ start' = s
  /\ end' = Wrap(s + l)
  /\ \E p \in 0 .. AddrLimit : IsFirstCandidate(p, s) /\ it' = p
  /\ UNCHANGED m_intervals

MutantMerge(k) ==            \* the end of the absorbed interval is forgotten
  /\ op = "merging"
  /\ Designates(k)
  /\ k <= end
  /\ Touches(k)
  /\ start' = Lesser(start, k)
  /\ m_intervals' = [j \in DOMAIN m_intervals \ {k} |-> m_intervals[j]]
  /\ it' = k + 1
  /\ UNCHANGED <<op, end>>

\* The interval at k is absorbed and erased.
Merge(k) ==
  /\ op = "merging"
  /\ Designates(k)
  /\ k <= end
  /\ Touches(k)
  /\ start' = Lesser(start, k)
  /\ end' = Greater(end, m_intervals[k])
  /\ m_intervals' = [j \in DOMAIN m_intervals \ {k} |-> m_intervals[j]]
  /\ it' = k + 1
  /\ UNCHANGED op

MutantSkip(k) ==             \* the iterator is not advanced
  /\ op = "merging"
  /\ Designates(k)
  /\ k <= end
  /\ ~Touches(k)
  /\ UNCHANGED vars

\* The interval at k ends before the range being inserted.
Skip(k) ==
  /\ op = "merging"
  /\ Designates(k)
  /\ k <= end
  /\ ~Touches(k)
  /\ it' = k + 1
  /\ UNCHANGED <<m_intervals, op, start, end>>

\* The loop ends at an interval beyond the range, or at the end of the map.
Store ==
  /\ op = "merging"
  /\ \A k \in DOMAIN m_intervals : k >= it => k > end
  /\ m_intervals' = 
       [k \in DOMAIN m_intervals \cup {start} |->
          IF k = start THEN end ELSE m_intervals[k]]
  /\ op' = "idle"
  /\ start' = 0
  /\ end' = 0
  /\ it' = 0

Next ==
  \/ \E r \in Requests : Insert(r[1], r[2])
  \/ \E k \in DOMAIN m_intervals : Merge(k) \/ Skip(k)
  \/ Store

\* The loop of an insertion runs on; nobody is obliged to insert.
Fairness == WF_vars((\E k \in DOMAIN m_intervals : Merge(k) \/ Skip(k)) \/ Store)

Spec == Init /\ [][Next]_vars

FairSpec == Spec /\ Fairness
-----------------------------------------------------------------------------
Address == 0 .. AddrLimit - 1

\* Every variable has the type the C++ declaration gives it.
TypeOK ==
  /\ DOMAIN m_intervals \subseteq Address
  /\ \A k \in DOMAIN m_intervals : m_intervals[k] \in Address
  /\ op \in {"idle", "merging"}
  /\ start \in Address
  /\ end \in Address
  /\ it \in 0 .. AddrLimit

\* No request reaches past the last address: what the class takes for granted.
NoWrap == \A r \in Requests : r[1] + r[2] < AddrLimit

\* The stored ranges are non-empty, pairwise disjoint and not even adjacent,
\* so no byte of the target appears in two segments of the core file.
Separated ==
  /\ \A k \in DOMAIN m_intervals : k < m_intervals[k]
  /\ \A j, k \in DOMAIN m_intervals : j < k => m_intervals[j] < k

\* Every insertion ends.
InsertTerminates == op = "merging" ~> op = "idle"

\* The bytes of the stored ranges and of the range being inserted.
Bytes ==
  {x \in Address : \/ \E k \in DOMAIN m_intervals : k <= x /\ x < m_intervals[k]
                   \/ op = "merging" /\ start <= x /\ x < end}

\* The set stands for exactly the bytes that were requested: an insertion adds
\* its bytes when it is called, and merging neither loses nor invents any.
Abstract == INSTANCE CoveredBytes WITH bytes <- Bytes

ImplementsCoveredBytes == Abstract!Spec
=============================================================================
