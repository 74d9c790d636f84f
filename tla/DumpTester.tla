----------------------------- MODULE DumpTester -----------------------------
(***************************************************************************)
(* The dump tester: a program that dumps itself, or crashes and dumps      *)
(* itself from its signal handler, or starts a worker that crashes and     *)
(* dumps that from outside.                                                *)
(*                                                                         *)
(* In the last case the worker's handler sends its crash context through a *)
(* pipe and then sleeps, so that the frames the context refers to are      *)
(* still there when the tester, with a context that is complete, stops and *)
(* dumps it.  The tester then kills it, if it has not given up before.     *)
(***************************************************************************)
EXTENDS Integers

CONSTANTS
  Operations,   \* the operations that are tried
  MaxNested     \* bound on the signal handlers that can be nested on a stack

CreateOperations == {"CreateCore", "CorruptHeapThenCreateCoreFile", "CreateCoreFromC"}

ASSUME TesterAssumption ==
  Operations \subseteq CreateOperations \cup {"Crash"} /\ MaxNested \in Nat \ {0}

VARIABLES
  operation, oop, onBackgroundThread,   \* the arguments of the program
  tester,     \* where the tester is
  nested,     \* number of signal handlers on its stack
  exit,       \* how it has ended: exit code 0 or 1, or killed
  badPid,     \* it waits for a worker that could not be started
  worker,     \* where the worker is
  status,     \* how the worker has ended
  pipe,       \* halves of a crash context in the pipe
  core,       \* the core file, with where the worker was when it was dumped
  context     \* halves of the crash context that the dump was given

arguments == <<operation, oop, onBackgroundThread>>
workerVars == <<worker, status>>
vars == <<arguments, tester, nested, exit, badPid, workerVars, pipe, core, context>>

crash == operation = "Crash"

NoCore == [complete |-> FALSE, of |-> "none"]

Init ==
  /\ operation \in Operations /\ oop \in BOOLEAN /\ onBackgroundThread \in BOOLEAN
  /\ tester = "start" /\ nested = 0 /\ exit = "none" /\ badPid = FALSE
  /\ worker = "none" /\ status = "none"
  /\ pipe = 0 /\ context = 0
  /\ core = NoCore

\* The exit code shows what became of the dump: not behind a thread, whose
\* result is dropped, unless the operation exits by itself; never from C.
ReportsDump ==
  \/ operation = "CorruptHeapThenCreateCoreFile"
  \/ operation = "CreateCore" /\ ~onBackgroundThread

ExitCode(dumped) == IF dumped \/ ~ReportsDump THEN "0" ELSE "1"

Finish(code) == tester' = "done" /\ exit' = code

\* What CreateCoreFileImpl of the own process may come to; the leak checker exits
\* with 1, which CreateCoreFromC does not use.
DumpResults ==
  {[dumped |-> d, code |-> ExitCode(d)] : d \in BOOLEAN}
  \cup {r \in [dumped : BOOLEAN, code : {"1"}] : operation # "CreateCoreFromC"}

\* A dump that fails leaves an incomplete file.
DumpsItself(p, result) == core' = [complete |-> result.dumped, of |-> p]
-----------------------------------------------------------------------------
(* In process *)

\* The operation creates a core and returns; a dump that crashes ends the process,
\* since only the operations that are to crash have a handler.
PerformOperation ==
  /\ tester = "start" /\ ~oop /\ ~crash
  /\ \/ \E result \in DumpResults : DumpsItself("tester", result) /\ Finish(result.code)
     \/ core' = [complete |-> FALSE, of |-> "tester"] /\ Finish("signal")
  /\ UNCHANGED <<arguments, nested, badPid, workerVars, pipe, context>>

\* The operation crashes; without a handler that is the end.
Crash ==
  /\ tester = "start" /\ ~oop /\ crash
  /\ \/ tester' = "handler" /\ nested' = 1 /\ UNCHANGED exit
     \/ Finish("signal") /\ UNCHANGED nested
  /\ UNCHANGED <<arguments, badPid, workerVars, pipe, core, context>>

\* SignalHandler: the dump succeeds or fails, then SIGKILL.  When the leak
\* checker finds a leak, the process exits.
HandleSignal ==
  /\ tester = "handler"
  /\ \E dumped \in BOOLEAN : core' = [complete |-> dumped, of |-> "handler"]
  /\ Finish("SIGKILL") \/ Finish("1")
  /\ UNCHANGED <<arguments, nested, badPid, workerVars, pipe, context>>

\* The dump itself crashes: with SA_NODEFER the handler is entered again, and
\* begins a new file, until there is no stack left for it.
CrashInHandler ==
  /\ tester = "handler"
  /\ IF nested < MaxNested
     THEN nested' = nested + 1 /\ UNCHANGED <<tester, exit>>
     ELSE Finish("signal") /\ UNCHANGED nested
  /\ core' = NoCore
  /\ UNCHANGED <<arguments, badPid, workerVars, pipe, context>>
-----------------------------------------------------------------------------
(* Out of process: the tester *)

\* CreateOOPWorker.  A worker for a crash gets the write end of a pipe, which
\* the tester closes.  When one that shall not crash cannot be started, that is
\* not noticed: the tester waits for an uninitialized pid.
CreateOOPWorker ==
  /\ tester = "start" /\ oop
  /\ \/ /\ worker' = "run"
        /\ tester' = IF crash THEN "spawned" ELSE "wait"
        /\ UNCHANGED <<exit, badPid>>
     \/ Finish("1") /\ UNCHANGED <<worker, badPid>>
     \/ /\ ~crash
        /\ badPid' = TRUE
        /\ \E code \in {"0", "1"} : Finish(code)
        /\ UNCHANGED worker
  /\ UNCHANGED <<arguments, nested, status, pipe, core, context>>

TaskForPid ==
  /\ tester = "spawned"
  /\ \/ tester' = "read" /\ UNCHANGED exit
     \/ Finish("1")
  /\ UNCHANGED <<arguments, nested, badPid, workerVars, pipe, core, context>>

MutantNoWriter == FALSE               \* the tester keeps its write end

\* Nobody has the write end of the pipe open any more.
NoWriter == worker = "dead"

MutantReadContext ==                  \* the number of bytes is not checked
  /\ tester = "read" /\ (pipe > 0 \/ NoWriter)
  /\ pipe' = 0 /\ context' = pipe
  /\ tester' = "dump" /\ UNCHANGED exit
  /\ UNCHANGED <<arguments, nested, badPid, workerVars, core>>

\* read blocks until there is something in the pipe, or no writer is left; what
\* it returns is accepted if it is all of the context.
ReadContext ==
  /\ tester = "read" /\ (pipe > 0 \/ NoWriter)
  /\ pipe' = 0 /\ context' = pipe
  /\ IF pipe = 2 THEN tester' = "dump" /\ UNCHANGED exit ELSE Finish("1")
  /\ UNCHANGED <<arguments, nested, badPid, workerVars, core>>

\* CreateCoreFileImpl: the file is emptied and the worker suspended, which is
\* possible only as long as there is one.
StopWorker ==
  /\ tester = "dump"
  /\ \/ worker # "dead" /\ tester' = "stopped" /\ UNCHANGED exit
     \/ Finish("1")
  /\ core' = NoCore
  /\ UNCHANGED <<arguments, nested, badPid, workerVars, pipe, context>>

\* The dump ends and the worker is resumed; a leak ends the tester.
DumpWorker ==
  /\ tester = "stopped"
  /\ \/ core' = [complete |-> TRUE, of |-> worker] /\ tester' = "kill" /\ UNCHANGED exit
     \/ (\E dumped \in BOOLEAN : core' = [complete |-> dumped, of |-> worker]) /\ Finish("1")
  /\ UNCHANGED <<arguments, nested, badPid, workerVars, pipe, context>>

\* kill; it also succeeds for a worker that has ended and is not waited for yet.
KillWorker ==
  /\ tester = "kill"
  /\ worker' = "dead"
  /\ status' = IF worker = "dead" THEN status ELSE "SIGKILL"
  /\ tester' = "wait"
  /\ UNCHANGED <<arguments, nested, exit, badPid, pipe, core, context>>

MutantWaitForWorker ==                \* only whether the worker has exited
  /\ tester = "wait" /\ worker = "dead"
  /\ Finish(IF status \in {"SIGKILL", "0", "1"} THEN "0" ELSE "1")
  /\ UNCHANGED <<arguments, nested, badPid, workerVars, pipe, core, context>>

\* waitpid, which the EINTR loop repeats.
WaitForWorker ==
  /\ tester = "wait" /\ worker = "dead"
  /\ Finish(IF status = (IF crash THEN "SIGKILL" ELSE "0") THEN "0" ELSE "1")
  /\ UNCHANGED <<arguments, nested, badPid, workerVars, pipe, core, context>>
-----------------------------------------------------------------------------
(* Out of process: the worker *)

WorkerRuns == tester # "stopped"

WorkerEnds(how) == worker' = "dead" /\ status' = how

\* As PerformOperation.
WorkerPerformsOperation ==
  /\ worker = "run" /\ ~crash /\ WorkerRuns
  /\ \/ \E result \in DumpResults : DumpsItself("worker", result) /\ WorkerEnds(result.code)
     \/ core' = [complete |-> FALSE, of |-> "worker"] /\ WorkerEnds("signal")
  /\ UNCHANGED <<arguments, tester, nested, exit, badPid, pipe, context>>

\* The operation crashes; without a handler that is the end.
WorkerCrashes ==
  /\ worker = "run" /\ crash /\ WorkerRuns
  /\ \/ worker' = "write" /\ UNCHANGED status
     \/ WorkerEnds("signal")
  /\ UNCHANGED <<arguments, tester, nested, exit, badPid, pipe, core, context>>

HasReader == tester \in {"spawned", "read"}

\* write: a context is larger than PIPE_BUF, so it need not arrive at once.  If
\* nobody can read it any more, SIGPIPE ends the worker.
WriteContext ==
  /\ worker \in {"write", "writing"} /\ WorkerRuns
  /\ \/ /\ HasReader
        /\ pipe' = pipe + (IF worker = "write" THEN 2 ELSE 1)
        /\ worker' = "sleep" /\ UNCHANGED status
     \/ /\ HasReader /\ worker = "write"
        /\ pipe' = pipe + 1
        /\ worker' = "writing" /\ UNCHANGED status
     \/ ~HasReader /\ WorkerEnds("signal") /\ UNCHANGED pipe
  /\ UNCHANGED <<arguments, tester, nested, exit, badPid, core, context>>

\* sleep (60) is over.
WorkerGivesUp ==
  /\ worker = "sleep" /\ WorkerRuns
  /\ WorkerEnds("SIGKILL")
  /\ UNCHANGED <<arguments, tester, nested, exit, badPid, pipe, core, context>>
-----------------------------------------------------------------------------
TesterStep ==
  \/ PerformOperation \/ Crash \/ HandleSignal
  \/ CreateOOPWorker \/ TaskForPid \/ ReadContext \/ StopWorker \/ DumpWorker
  \/ KillWorker \/ WaitForWorker

WorkerStep == WorkerPerformsOperation \/ WorkerCrashes \/ WriteContext \/ WorkerGivesUp

Next == TesterStep \/ CrashInHandler \/ WorkerStep

\* Both processes are scheduled, a dump returns and a sleep is over some day.
Spec == Init /\ [][Next]_vars /\ WF_vars(TesterStep) /\ WF_vars(WorkerStep)
-----------------------------------------------------------------------------
\* Exit code 0 means that there is a complete core file, in every race of the
\* worker's crash, its sixty seconds and the dump.  The tests look for it before
\* they load the core file of an operation that does not crash or was done out of
\* process.  After a crash in the own process they look for SIGKILL (Tests.py:60),
\* which says nothing: SignalHandler drops the result of the dump (Main.cpp:233).
\* Left out are the other operations whose result the tester drops, and the worker
\* that could not be started.
SuccessMeansCore ==
  exit = "0" /\ ~badPid /\ (crash \/ ReportsDump) =>
    core.complete /\ (oop => worker = "dead")

\* A worker is only ever dumped with the whole context it has sent, and while it
\* is held in the handler that keeps the crashed frames alive.
CoreOfWaitingWorker ==
  oop /\ crash /\ core.of # "none" => core.of = "sleep" /\ context = 2

\* Neither process is left behind: the tester does not wait for a worker that
\* will never write, and a worker whose tester has failed or given up ends.
ProcessesEnd == <>(tester = "done" /\ worker \in {"none", "dead"})
=============================================================================
