----------------------- MODULE MCDisjointIntervalSet -----------------------
(* Every insertion into an address space of AddrLimit addresses. *)
EXTENDS DisjointIntervalSet

MCRequests ==
  {r \in (0 .. AddrLimit - 1) \X (0 .. AddrLimit - 1) : r[1] + r[2] < AddrLimit}
=============================================================================
