---------------------------- MODULE CoveredBytes ----------------------------
(***************************************************************************)
(* What a caller may expect of the set of memory ranges collected for the  *)
(* core file: a plain set of byte addresses that each request enlarges by  *)
(* exactly the bytes it names.  DisjointIntervalSet implements it.         *)
(***************************************************************************)
EXTENDS Integers

CONSTANT Requests   \* the (start, length) pairs that may be requested

VARIABLE bytes      \* the addresses that have been requested so far

Init == bytes = {}

Add(s, l) == bytes' = bytes \cup s .. (s + l - 1)

Next == \E r \in Requests : Add(r[1], r[2])

Spec == Init /\ [][Next]_bytes
=============================================================================
