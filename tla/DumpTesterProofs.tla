-------------------------- MODULE DumpTesterProofs --------------------------
(***************************************************************************)
(* What the exit code of the dump tester says, and when a worker is        *)
(* dumped, for every order of the steps of both processes and any number   *)
(* of nested signal handlers.                                              *)
(***************************************************************************)
EXTENDS DumpTester, TLAPS

\* The tester and the worker are at one of their locations.
Locations ==
  /\ oop \in BOOLEAN /\ onBackgroundThread \in BOOLEAN /\ badPid \in BOOLEAN
  /\ tester \in {"start", "handler", "spawned", "read", "dump", "stopped", "kill", "wait", "done"}
  /\ worker \in {"none", "run", "write", "writing", "sleep", "dead"}
  /\ exit # "none" => tester = "done"

\* A process that dumps itself has no worker, one with a worker has no handler.
InProcess ==
  /\ ~oop => worker = "none" /\ tester \in {"start", "handler", "done"}
  /\ tester = "start" => worker = "none" /\ core = NoCore
  /\ tester = "handler" => crash /\ ~oop
  /\ ~oop /\ exit = "0" => ~crash /\ (ReportsDump => core.complete)

\* A worker that dumps itself: only its exit code tells the tester about it.
OfItself ==
  oop /\ ~crash =>
    /\ tester \in {"start", "wait", "done"} /\ worker \in {"none", "run", "dead"}
    /\ tester = "wait" => worker # "none"
    /\ exit = "0" /\ ~badPid => worker = "dead" /\ status = "0"
    /\ worker \in {"none", "run"} => status = "none"
    /\ status = "0" /\ ReportsDump => core.complete

\* What has been written of the context is in the pipe until it is read.
PipeHolds ==
  /\ pipe \in 0 .. 2 /\ context \in 0 .. 2
  /\ worker \in {"none", "run", "write"} => pipe = 0
  /\ tester \in {"spawned", "read"} =>
       /\ worker = "writing" => pipe = 1
       /\ worker = "sleep" => pipe = 2
       /\ worker = "dead" => pipe \in {0, 2}

\* A worker that crashes is dumped after the whole context has been read, which
\* it has sent just before it went to sleep.
OfCrashed ==
  oop /\ crash =>
    /\ ~badPid
    /\ tester \in {"start", "spawned", "read"} => core = NoCore
    /\ tester \in {"dump", "stopped", "kill", "wait"} => context = 2 /\ worker \in {"sleep", "dead"}
    /\ tester = "dump" => core = NoCore
    /\ tester = "stopped" => worker = "sleep" /\ core = NoCore
    /\ tester \in {"kill", "wait"} => core.complete
    /\ exit = "0" => core.complete /\ worker = "dead"
    /\ core.of # "none" => core.of = "sleep" /\ context = 2

IInv == Locations /\ InProcess /\ OfItself /\ PipeHolds /\ OfCrashed
-----------------------------------------------------------------------------
\* At the beginning there is neither a worker nor a core file.
LEMMA InitEstablishes == Init => IInv
<1> SUFFICES ASSUME Init PROVE IInv
  OBVIOUS
<1>1. Locations
  BY DEF Init, Locations
<1>2. InProcess
  BY DEF Init, InProcess
<1>3. OfItself
  BY DEF Init, OfItself
<1>4. PipeHolds
  BY DEF Init, PipeHolds
<1>5. OfCrashed
  BY DEF Init, OfCrashed, NoCore
<1> QED
  BY <1>1, <1>2, <1>3, <1>4, <1>5 DEF IInv

\* A step of the tester keeps what is known of both processes.
LEMMA TesterPreserves ==
  ASSUME IInv, TesterStep \/ CrashInHandler
  PROVE  IInv'
<1> USE DEF IInv, Locations, InProcess, OfItself, PipeHolds, OfCrashed, NoCore, crash, ReportsDump
<1>1. CASE PerformOperation
  BY <1>1 DEF PerformOperation, DumpsItself, DumpResults, ExitCode, Finish, arguments, workerVars
<1>2. CASE Crash
  BY <1>2 DEF Crash, Finish, arguments, workerVars
<1>3. CASE HandleSignal
  BY <1>3 DEF HandleSignal, Finish, arguments, workerVars
<1>4. CASE CreateOOPWorker
  <2>1. Locations' /\ InProcess' /\ PipeHolds'
    BY <1>4 DEF CreateOOPWorker, Finish, arguments, workerVars
  <2>2. OfItself'
    BY <1>4 DEF CreateOOPWorker, Finish, arguments, workerVars
  <2>3. OfCrashed'
    BY <1>4 DEF CreateOOPWorker, Finish, arguments, workerVars
  <2> QED
    BY <2>1, <2>2, <2>3
<1>5. CASE TaskForPid
  BY <1>5 DEF TaskForPid, Finish, arguments, workerVars
<1>6. CASE ReadContext
  BY <1>6 DEF ReadContext, Finish, NoWriter, arguments, workerVars
<1>7. CASE StopWorker
  BY <1>7 DEF StopWorker, Finish, arguments, workerVars
<1>8. CASE DumpWorker
  BY <1>8 DEF DumpWorker, Finish, arguments, workerVars
<1>9. CASE KillWorker
  BY <1>9 DEF KillWorker, arguments, workerVars
<1>10. CASE WaitForWorker
  BY <1>10 DEF WaitForWorker, Finish, arguments, workerVars
<1>11. CASE CrashInHandler
  BY <1>11 DEF CrashInHandler, Finish, arguments, workerVars
<1> QED
  BY <1>1, <1>2, <1>3, <1>4, <1>5, <1>6, <1>7, <1>8, <1>9, <1>10, <1>11 DEF TesterStep

\* So does a step of the worker, which also goes on after the tester has ended.
LEMMA WorkerPreserves ==
  ASSUME IInv, WorkerStep
  PROVE  IInv'
<1> USE DEF IInv, Locations, InProcess, OfItself, PipeHolds, OfCrashed, NoCore, crash, ReportsDump
<1>1. CASE WorkerPerformsOperation
  BY <1>1 DEF WorkerPerformsOperation, DumpsItself, DumpResults, ExitCode, WorkerEnds, WorkerRuns, arguments, workerVars
<1>2. CASE WorkerCrashes
  BY <1>2 DEF WorkerCrashes, WorkerEnds, WorkerRuns, arguments, workerVars
<1>3. CASE WriteContext
  BY <1>3 DEF WriteContext, HasReader, WorkerEnds, WorkerRuns, arguments, workerVars
<1>4. CASE WorkerGivesUp
  BY <1>4 DEF WorkerGivesUp, WorkerEnds, WorkerRuns, arguments, workerVars
<1> QED
  BY <1>1, <1>2, <1>3, <1>4 DEF WorkerStep

\* It holds at the beginning and every step of the processes keeps it.
LEMMA Invariance == Spec => []IInv
<1>1. IInv /\ [Next]_vars => IInv'
  <2>1. ASSUME IInv, UNCHANGED vars PROVE IInv'
    BY <2>1 DEF IInv, Locations, InProcess, OfItself, PipeHolds, OfCrashed, crash, ReportsDump,
                 vars, arguments, workerVars
  <2> QED
    BY <2>1, TesterPreserves, WorkerPreserves DEF Next
<1> QED
  BY <1>1, InitEstablishes, PTL DEF Spec

\* Exit code 0 of the tester means that there is a complete core file, and that
\* no worker is left, however the crash, the sleep of the worker's handler and
\* the dump fall together.
THEOREM ExitCodeMeansCore == Spec => []SuccessMeansCore
<1>1. IInv => SuccessMeansCore
  BY DEF IInv, Locations, InProcess, OfItself, OfCrashed, SuccessMeansCore
<1> QED
  BY <1>1, Invariance, PTL

\* A worker is only ever dumped while it is held in its handler, with all of the
\* context that it has sent.
THEOREM WaitingWorkerIsDumped == Spec => []CoreOfWaitingWorker
<1>1. IInv => CoreOfWaitingWorker
  BY DEF IInv, OfCrashed, CoreOfWaitingWorker
<1> QED
  BY <1>1, Invariance, PTL
=============================================================================
