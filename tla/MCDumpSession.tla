--------------------------- MODULE MCDumpSession ---------------------------
(* Small instances of DumpSession; the configurations pick the constants. *)
EXTENDS DumpSession, TLC

CONSTANTS d1, d2, w, b, n   \* dumpers, a worker, a suspended and a new thread

\* In any order, or one of two dumpers of the same task, which are interchangeable.
AnyOrder == {}
DumpersInOrder == {<<d1, d2>>}

NoCrash == {NoThread}
SelfCrash == {NoThread, d1}
WorkerCrash == {NoThread, w}
OtherCrash == {w}
=============================================================================
