---------------------------- MODULE MCDumpTester ----------------------------
(* All operations of the dump tester, the crashing ones taken as one. *)
EXTENDS DumpTester

MCOperations == CreateOperations \cup {"Crash"}
=============================================================================
