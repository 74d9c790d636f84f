----------------------------- MODULE DumpSession -----------------------------
(***************************************************************************)
(* Calls of MiniDumpWriteDump, interleaved with the threads of the task    *)
(* that is dumped and with each other.                                     *)
(*                                                                         *)
(* A dumper stops the target (every other thread of its own task, or a     *)
(* foreign task as a whole), enumerates the threads a second time, records *)
(* their registers, and only afterwards reads their stacks while it writes *)
(* the core file.  In between, threads that were not stopped go on: they   *)
(* run, end and start others.  The kernel's suspend counts and the user    *)
(* references of its port rights are shared by all calls.                  *)
(*                                                                         *)
(* A kernel call takes effect in one step.  Only thread_suspend also needs *)
(* a step to enter it: a thread that is inside the kernel when another one *)
(* suspends it still finishes its own call.                                *)
(*                                                                         *)
(* All calls of a process allocate from one malloc zone, and so take one   *)
(* lock.  Between taking it and releasing it a caller can be suspended by  *)
(* another one.  One allocation or deallocation stands for all those that  *)
(* the code makes at a place.                                              *)
(***************************************************************************)
EXTENDS Integers, Sequences, FiniteSets

CONSTANTS
  Threads,            \* the threads of the target task, alive or yet to start
  Dumpers,            \* the threads that may call MiniDumpWriteDump
  InitialThreads,     \* the threads alive at the beginning
  AppSuspended,       \* threads that the application itself has suspended
  Crashes,            \* possible crashed threads, NoThread for no crash context
  FailingAllocations, \* where an allocation of the library may fail
  MaxAllocFailures,   \* bound on the number of failing allocations
  SharedZone,         \* the dedicated malloc zone could not be created
  Precedes,           \* pairs of threads that task_threads lists in this order
  NoThread

\* "new" is the class-specific operator new, the others are the containers'.
AllocationSites == {"reserve1", "push", "modules", "reserve2", "capture", "new"}

ASSUME DumperAssumption ==
  /\ IsFiniteSet(Dumpers)
  /\ Dumpers \subseteq InitialThreads \/ Dumpers \cap Threads = {}

ASSUME ThreadAssumption ==
  /\ InitialThreads \subseteq Threads
  /\ AppSuspended \subseteq InitialThreads \ Dumpers
  /\ NoThread \notin Threads \cup Dumpers
  /\ Crashes \subseteq Threads \cup {NoThread}

\* The loops go through the threads as task_threads has listed them.
IsFirst(t, threads) == \A u \in threads : <<u, t>> \notin Precedes

\* No thread is listed before itself; an empty relation stands for any order.
ASSUME OrderAssumption ==
  \A threads \in SUBSET Threads : threads # {} => \E t \in threads : IsFirst(t, threads)

ASSUME EnvironmentAssumption ==
  /\ FailingAllocations \subseteq AllocationSites
  /\ MaxAllocFailures \in Nat
  /\ SharedZone \in BOOLEAN

VARIABLES
  \* the kernel and the application
  life,             \* "unborn", "live" or "dead", of every thread
  susp,             \* suspend count of every thread
  taskSusp,         \* suspend count of the task
  ver,              \* contents of every thread's registers and stack
  rights,           \* user references of the send rights for thread ports
  zoneHolder,       \* the application thread inside malloc on the library's zone
  crashed,          \* the thread whose crash context is passed to the calls
  allocFailures,    \* number of allocations that have failed
  \* the calls
  pc,               \* where each dumper is
  zoneUser,         \* the dumper inside malloc or free on the library's zone
  todo,             \* threads (or ranges) its current loop has still to visit
  cur,              \* the thread its loop is at, with what was read of it
  thisThreadRef,    \* whether it holds a right for its own thread port
  threadRefs,       \* the rights of the enumeration it works on
  suspendedThreads, \* the rights of the threads it has suspended
  core              \* what it has collected for, and written to, the core file

kernelVars == <<life, susp, taskSusp, ver, rights, zoneHolder, crashed, allocFailures>>
callVars == <<pc, zoneUser, todo, cur, thisThreadRef, threadRefs, suspendedThreads, core>>
vars == <<kernelVars, callVars>>

Ports == Threads \cup Dumpers

SelfDump == Dumpers \subseteq Threads

Live == {t \in Threads : life[t] = "live"}

\* A thread executes user code.  A foreign dumper is not part of the target.
Runs(t) ==
  t \in Threads => life[t] = "live" /\ susp[t] = 0 /\ taskSusp = 0

\* A thread executes the application's code: it is in no call of the library
\* and, if it has crashed, it waits in its signal handler.
AppRuns(t) ==
  Runs(t) /\ t # crashed /\ (t \in Dumpers => pc[t] = "idle")

BaseCount(t) == IF t \in AppSuspended THEN 1 ELSE 0

NothingRead == [thread |-> NoThread, id |-> NoThread, regs |-> 0]

\* The builder's thread commands, the list of thread ids, the stacks to write,
\* and the file.  The k-th id is meant to be that of the k-th command.
EmptyCore ==
  [commands |-> << >>, threadIds |-> << >>, ranges |-> {}, file |-> {}, ok |-> FALSE]
-----------------------------------------------------------------------------
MutantLibraryZone == "default"        \* the application's malloc is used

\* InitZone: a zone of its own, the default one when that cannot be created.
LibraryZone == IF SharedZone THEN "default" ELSE "dedicated"

\* The application's allocations take the library's lock, too.
ZoneIsShared == LibraryZone = "default" /\ SelfDump

LockIsFree == zoneHolder = NoThread /\ zoneUser = NoThread

\* Where a dumper allocates from the zone or gives memory back to it: vectors,
\* strings and maps grow, and are destroyed at the ends of their scopes.
UsesZone(d) ==
  \/ pc[d] \in {"reserve1", "push", "modules", "reserve2", "add", "addId", "payloads",
                "unwind"}
  \/ pc[d] = "write" /\ todo[d] # {}
  \/ pc[d] \in {"suspend", "capture", "resume"} /\ todo[d] = {}

\* malloc or free returns.
LeaveZone(d) == zoneUser = d /\ zoneUser' = NoThread

AllocationSucceeds(d) == LeaveZone(d) /\ UNCHANGED allocFailures

AllocationFails(d, site) ==
  /\ LeaveZone(d)
  /\ site \in FailingAllocations
  /\ allocFailures < MaxAllocFailures
  /\ allocFailures' = allocFailures + 1

Count(b) == IF b THEN 1 ELSE 0

\* mach_thread_self and task_threads give the dumper references.
RightsAfterEnumeration(d) ==
  [p \in Ports |-> rights[p] + Count(p \in Live) + Count(p = d)]

\* Only thisThreadRef is destroyed when the vector for the others cannot be made.
RightsAfterFailedReserve(d) == [rights EXCEPT ![d] = @ - 1]

MutantRightsAfterRelease(d) ==        \* mach_thread_self is not counted as a right
  [p \in Ports |-> rights[p] - Count(p \in threadRefs[d])]

\* The destructors of threadRefs and thisThreadRef.
RightsAfterRelease(d) ==
  [p \in Ports |->
     rights[p] - Count(p \in threadRefs[d]) - Count(p = d /\ thisThreadRef[d])]

MutantRightsAfterFinalRelease(d) ==   \* a right is deallocated twice
  [p \in Ports |-> rights[p] - 2 * Count(p \in suspendedThreads[d])]

\* The destructor of suspendedThreads.
RightsAfterFinalRelease(d) ==
  [p \in Ports |-> rights[p] - Count(p \in suspendedThreads[d])]

Goto(d, l) == pc' = [pc EXCEPT ![d] = l]
-----------------------------------------------------------------------------
Init ==
  /\ life = [t \in Threads |-> IF t \in InitialThreads THEN "live" ELSE "unborn"]
  /\ susp = [t \in Threads |-> BaseCount(t)]
  /\ taskSusp = 0
  /\ ver = [t \in Threads |-> 0]
  /\ rights = [p \in Ports |-> 0]
  /\ crashed \in Crashes
  /\ zoneHolder \in IF ZoneIsShared THEN {NoThread, crashed} ELSE {NoThread}
  /\ allocFailures = 0
  /\ pc = [d \in Dumpers |-> "idle"]
  /\ zoneUser = NoThread
  /\ todo = [d \in Dumpers |-> {}]
  /\ cur = [d \in Dumpers |-> NothingRead]
  /\ thisThreadRef = [d \in Dumpers |-> FALSE]
  /\ threadRefs = [d \in Dumpers |-> {}]
  /\ suspendedThreads = [d \in Dumpers |-> {}]
  /\ core = [d \in Dumpers |-> EmptyCore]
-----------------------------------------------------------------------------
(* The application. *)

\* A thread runs: its registers and its stack change.
AppStep(t) ==
  /\ AppRuns(t)
  /\ ver' = [ver EXCEPT ![t] = 1 - @]
  /\ UNCHANGED <<life, susp, taskSusp, rights, zoneHolder, crashed, allocFailures, callVars>>

\* A thread creates another one.
AppStart(t) ==
  /\ life[t] = "unborn"
  /\ \E u \in Threads : AppRuns(u)
  /\ life' = [life EXCEPT ![t] = "live"]
  /\ UNCHANGED <<susp, taskSusp, ver, rights, zoneHolder, crashed, allocFailures, callVars>>

\* A thread exits, or is terminated by another one.
AppEnd(t) ==
  /\ t \notin Dumpers /\ t # crashed /\ t # zoneHolder
  /\ life[t] = "live"
  /\ \E u \in Threads : AppRuns(u)
  /\ life' = [life EXCEPT ![t] = "dead"]
  /\ UNCHANGED <<susp, taskSusp, ver, rights, zoneHolder, crashed, allocFailures, callVars>>

\* A thread is inside malloc, holding the lock of the zone that the library
\* uses; the application only allocates from the default one.
AppMalloc(t) ==
  /\ AppRuns(t)
  /\ ZoneIsShared
  /\ LockIsFree
  /\ zoneHolder' = t
  /\ UNCHANGED <<life, susp, taskSusp, ver, rights, crashed, allocFailures, callVars>>

AppMallocReturns(t) ==
  /\ AppRuns(t)
  /\ zoneHolder = t
  /\ zoneHolder' = NoThread
  /\ UNCHANGED <<life, susp, taskSusp, ver, rights, crashed, allocFailures, callVars>>
-----------------------------------------------------------------------------
(* MiniDumpWriteDumpImpl up to the stop of the target. *)

\* A dumper calls malloc or free and gets the lock of the zone.
EnterZone(d) ==
  /\ UsesZone(d) /\ Runs(d)
  /\ LockIsFree
  /\ zoneUser' = d
  /\ UNCHANGED <<kernelVars, pc, todo, cur, thisThreadRef, threadRefs, suspendedThreads, core>>

Call(d) ==
  /\ pc[d] = "idle"
  /\ Runs(d) /\ (zoneHolder = d => d = crashed)
  /\ Goto(d, "check")
  /\ UNCHANGED <<kernelVars, zoneUser, todo, cur, thisThreadRef, threadRefs, suspendedThreads,
                 core>>

\* pid_for_task and SetSize (0) succeed, or the call fails.
Check(d) ==
  /\ pc[d] = "check" /\ Runs(d)
  /\ \/ Goto(d, IF SelfDump THEN "enumerate1" ELSE "stop")
     \/ Goto(d, "return")
  /\ UNCHANGED <<kernelVars, zoneUser, todo, cur, thisThreadRef, threadRefs, suspendedThreads,
                 core>>

MutantSuspendTask(d) ==               \* the task is not suspended
  /\ pc[d] = "stop"
  /\ Goto(d, "modules")
  /\ UNCHANGED <<kernelVars, zoneUser, todo, cur, thisThreadRef, threadRefs, suspendedThreads,
                 core>>

\* task_suspend on a foreign task.
SuspendTask(d) ==
  /\ pc[d] = "stop"
  /\ \/ taskSusp' = taskSusp + 1 /\ Goto(d, "modules")
     \/ UNCHANGED taskSusp /\ Goto(d, "return")
  /\ UNCHANGED <<life, susp, ver, rights, zoneHolder, crashed, allocFailures,
                 zoneUser, todo, cur, thisThreadRef, threadRefs, suspendedThreads, core>>

\* mach_thread_self and task_threads.  The references are in the kernel's array
\* until the vector for them has been reserved.
Enumerated(d, l) ==
  /\ rights' = RightsAfterEnumeration(d)
  /\ thisThreadRef' = [thisThreadRef EXCEPT ![d] = TRUE]
  /\ threadRefs' = [threadRefs EXCEPT ![d] = Live]
  /\ todo' = [todo EXCEPT ![d] = Live]
  /\ Goto(d, l)

\* task_threads fails.
NotEnumerated(d, l) ==
  Goto(d, l) /\ UNCHANGED <<rights, thisThreadRef, threadRefs, todo>>

EnumerateForSuspend(d) ==
  /\ pc[d] = "enumerate1" /\ Runs(d)
  /\ Enumerated(d, "reserve1") \/ NotEnumerated(d, "return")
  /\ UNCHANGED <<life, susp, taskSusp, ver, zoneHolder, crashed, allocFailures,
                 zoneUser, cur, suspendedThreads, core>>

\* threadRefs.reserve and the wrapping of the array's references.
Reserved(d, l) ==
  /\ AllocationSucceeds(d)
  /\ Goto(d, l)
  /\ UNCHANGED <<rights, thisThreadRef, threadRefs, todo>>

\* reserve throws: the array and its references are lost.
NotReserved(d, site, l) ==
  /\ AllocationFails(d, site)
  /\ rights' = RightsAfterFailedReserve(d)
  /\ thisThreadRef' = [thisThreadRef EXCEPT ![d] = FALSE]
  /\ threadRefs' = [threadRefs EXCEPT ![d] = {}]
  /\ todo' = [todo EXCEPT ![d] = {}]
  /\ Goto(d, l)

ReserveForSuspend(d) ==
  /\ pc[d] = "reserve1" /\ Runs(d)
  /\ Reserved(d, "suspend") \/ NotReserved(d, "reserve1", "return")
  /\ UNCHANGED <<life, susp, taskSusp, ver, zoneHolder, crashed, cur, suspendedThreads, core>>

\* The loop reaches a thread: its own is skipped, any other one is suspended.
SuspendNext(d, t) ==
  /\ pc[d] = "suspend" /\ Runs(d)
  /\ t \in todo[d] /\ IsFirst(t, todo[d])
  /\ IF t = d
     THEN /\ todo' = [todo EXCEPT ![d] = @ \ {t}]
          /\ UNCHANGED <<pc, cur>>
     ELSE /\ cur' = [cur EXCEPT ![d] = [NothingRead EXCEPT !.thread = t]]
          /\ Goto(d, "suspending")
          /\ UNCHANGED todo
  /\ UNCHANGED <<kernelVars, zoneUser, thisThreadRef, threadRefs, suspendedThreads, core>>

\* thread_suspend in the kernel.  It fails for a thread that has ended.
ThreadSuspend(d) ==
  LET t == cur[d].thread IN
  /\ pc[d] = "suspending"
  /\ IF life[t] = "live"
     THEN /\ susp' = [susp EXCEPT ![t] = @ + 1]
          /\ Goto(d, "push")
          /\ UNCHANGED todo
     ELSE /\ todo' = [todo EXCEPT ![d] = @ \ {t}]
          /\ Goto(d, "suspend")
          /\ UNCHANGED susp
  /\ UNCHANGED <<life, taskSusp, ver, rights, zoneHolder, crashed, allocFailures,
                 zoneUser, cur, thisThreadRef, threadRefs, suspendedThreads, core>>

\* suspendedThreads.push_back (std::move (threadRef)).
Push(d) ==
  LET t == cur[d].thread IN
  /\ pc[d] = "push" /\ Runs(d) /\ AllocationSucceeds(d)
  /\ suspendedThreads' = [suspendedThreads EXCEPT ![d] = @ \cup {t}]
  /\ threadRefs' = [threadRefs EXCEPT ![d] = @ \ {t}]
  /\ todo' = [todo EXCEPT ![d] = @ \ {t}]
  /\ Goto(d, "suspend")
  /\ UNCHANGED <<life, susp, taskSusp, ver, rights, zoneHolder, crashed, cur,
                 thisThreadRef, core>>

\* push_back throws: all vectors are destroyed and the exception leaves the
\* call before the clean-up that resumes threads has been set up.
PushFails(d) ==
  /\ pc[d] = "push" /\ Runs(d) /\ AllocationFails(d, "push")
  /\ rights' = [p \in Ports |->
                  RightsAfterRelease(d)[p] - Count(p \in suspendedThreads[d])]
  /\ threadRefs' = [threadRefs EXCEPT ![d] = {}]
  /\ thisThreadRef' = [thisThreadRef EXCEPT ![d] = FALSE]
  /\ suspendedThreads' = [suspendedThreads EXCEPT ![d] = {}]
  /\ todo' = [todo EXCEPT ![d] = {}]
  /\ Goto(d, "return")
  /\ UNCHANGED <<life, susp, taskSusp, ver, zoneHolder, crashed, cur, core>>

\* The enumeration's remaining rights are released.
ReleaseRefs(d) ==
  /\ rights' = RightsAfterRelease(d)
  /\ threadRefs' = [threadRefs EXCEPT ![d] = {}]
  /\ thisThreadRef' = [thisThreadRef EXCEPT ![d] = FALSE]

\* The vectors of the enumeration are destroyed.
EndSuspend(d) ==
  /\ pc[d] = "suspend" /\ Runs(d)
  /\ todo[d] = {}
  /\ LeaveZone(d)
  /\ ReleaseRefs(d)
  /\ Goto(d, "modules")
  /\ UNCHANGED <<life, susp, taskSusp, ver, zoneHolder, crashed, allocFailures,
                 todo, cur, suspendedThreads, core>>
-----------------------------------------------------------------------------
(* The list of modules and AddThreadsToCore. *)

\* The list's constructor allocates; what it collects is modelled elsewhere.
ListModules(d) ==
  /\ pc[d] = "modules" /\ Runs(d)
  /\ \/ AllocationSucceeds(d) /\ Goto(d, "enumerate2")
     \/ AllocationFails(d, "modules") /\ Goto(d, "unwind")
  /\ UNCHANGED <<life, susp, taskSusp, ver, rights, zoneHolder, crashed,
                 todo, cur, thisThreadRef, threadRefs, suspendedThreads, core>>

EnumerateForCapture(d) ==
  /\ pc[d] = "enumerate2" /\ Runs(d)
  /\ Enumerated(d, "reserve2") \/ NotEnumerated(d, "unwind")
  /\ UNCHANGED <<life, susp, taskSusp, ver, zoneHolder, crashed, allocFailures,
                 zoneUser, cur, suspendedThreads, core>>

ReserveForCapture(d) ==
  /\ pc[d] = "reserve2" /\ Runs(d)
  /\ Reserved(d, "capture") \/ NotReserved(d, "reserve2", "unwind")
  /\ UNCHANGED <<life, susp, taskSusp, ver, zoneHolder, crashed, cur, suspendedThreads, core>>

\* thread_info: the id stays NoThread (0 in the code) when the thread has ended.
ReadId(d, t) ==
  /\ pc[d] = "capture" /\ Runs(d)
  /\ t \in todo[d] /\ IsFirst(t, todo[d])
  /\ cur' = [cur EXCEPT ![d] = [thread |-> t, regs |-> 0,
                                id |-> IF t \in Live THEN t ELSE NoThread]]
  /\ Goto(d, "registers")
  /\ UNCHANGED <<kernelVars, zoneUser, todo, thisThreadRef, threadRefs, suspendedThreads, core>>

SkipThread(d) ==
  /\ todo' = [todo EXCEPT ![d] = @ \ {cur[d].thread}]
  /\ Goto(d, "capture")
  /\ UNCHANGED <<cur, ver>>

\* The registers come from the crash context.  The crashed thread waits in its
\* signal handler, so the frames the context refers to are still there.
UsesCrashContext(d) == crashed # NoThread /\ cur[d].id = crashed

MutantReadRegisters(d) ==    \* a failed thread_get_state is not noticed
  LET t == cur[d].thread IN
  /\ pc[d] = "registers" /\ Runs(d)
  /\ cur' = [cur EXCEPT ![d].regs = ver[t]]
  /\ Goto(d, "add")
  /\ UNCHANGED <<life, susp, taskSusp, ver, rights, zoneHolder, crashed, allocFailures,
                 zoneUser, todo, thisThreadRef, threadRefs, suspendedThreads, core>>

\* The general purpose registers, from the crash context or the kernel.  The
\* dumper itself runs on, so that its own stack has changed when it is written.
ReadRegisters(d) ==
  LET t == cur[d].thread IN
  /\ pc[d] = "registers" /\ Runs(d)
  /\ \/ /\ UsesCrashContext(d)
        /\ cur' = [cur EXCEPT ![d].regs = ver[t]]
        /\ Goto(d, "add")
        /\ UNCHANGED <<ver, todo>>
     \/ /\ ~UsesCrashContext(d) /\ t \in Live
        /\ cur' = [cur EXCEPT ![d].regs = ver[t]]
        /\ ver' = IF t = d THEN [ver EXCEPT ![t] = 1 - @] ELSE ver
        /\ Goto(d, "exception")
        /\ UNCHANGED todo
     \/ ~UsesCrashContext(d) /\ t \notin Live /\ SkipThread(d)
  /\ UNCHANGED <<life, susp, taskSusp, rights, zoneHolder, crashed, allocFailures,
                 zoneUser, thisThreadRef, threadRefs, suspendedThreads, core>>

\* The exception state, the second call of thread_get_state.
ReadExceptionState(d) ==
  /\ pc[d] = "exception" /\ Runs(d)
  /\ \/ cur[d].thread \in Live /\ Goto(d, "add") /\ UNCHANGED <<cur, ver, todo>>
     \/ cur[d].thread \notin Live /\ SkipThread(d)
  /\ UNCHANGED <<life, susp, taskSusp, rights, zoneHolder, crashed, allocFailures,
                 zoneUser, thisThreadRef, threadRefs, suspendedThreads, core>>

MutantIncludesStack(d, t) == TRUE     \* no exception for the own thread

\* The stack of the dumping thread is left out, unless there is a context.
IncludesStack(d, t) == t # d \/ crashed # NoThread

MutantAddThreadCommand(d) == \* the stack pointer is checked first
  /\ pc[d] = "add" /\ Runs(d) /\ AllocationSucceeds(d)
  /\ todo' = [todo EXCEPT ![d] = @ \ {cur[d].thread}]
  /\ Goto(d, "capture")
  /\ UNCHANGED <<life, susp, taskSusp, ver, rights, zoneHolder, crashed,
                 cur, thisThreadRef, threadRefs, suspendedThreads, core>>

\* AddThreadCommand, the first of the two lists.
AddThreadCommand(d) ==
  /\ pc[d] = "add" /\ Runs(d) /\ AllocationSucceeds(d)
  /\ core' = [core EXCEPT ![d].commands =
                Append(@, [thread |-> cur[d].thread, regs |-> cur[d].regs])]
  /\ Goto(d, "addId")
  /\ UNCHANGED <<life, susp, taskSusp, ver, rights, zoneHolder, crashed,
                 todo, cur, thisThreadRef, threadRefs, suspendedThreads>>

CoreWithId(d) == [core[d] EXCEPT !.threadIds = Append(@, cur[d].id)]

\* The id is added whether or not the stack pointer lies in a memory region, the
\* stack's range only if it does.
CoreWithThread(d, spIsValid) ==
  [CoreWithId(d) EXCEPT !.ranges = IF spIsValid /\ IncludesStack(d, cur[d].thread)
                                   THEN @ \cup {cur[d].thread} ELSE @]

\* pThreadIds->push_back, the walk of the stack and the ranges for it.
AddThread(d) ==
  /\ pc[d] = "addId" /\ Runs(d) /\ AllocationSucceeds(d)
  /\ \E spIsValid \in BOOLEAN : core' = [core EXCEPT ![d] = CoreWithThread(d, spIsValid)]
  /\ todo' = [todo EXCEPT ![d] = @ \ {cur[d].thread}]
  /\ Goto(d, "capture")
  /\ UNCHANGED <<life, susp, taskSusp, ver, rights, zoneHolder, crashed,
                 cur, thisThreadRef, threadRefs, suspendedThreads>>

MutantAddThreadFails(d) ==   \* the loop goes on with the next thread
  /\ pc[d] \in {"add", "addId"} /\ Runs(d) /\ AllocationFails(d, "capture")
  /\ todo' = [todo EXCEPT ![d] = @ \ {cur[d].thread}]
  /\ Goto(d, "capture")
  /\ UNCHANGED <<life, susp, taskSusp, ver, rights, zoneHolder, crashed,
                 cur, thisThreadRef, threadRefs, suspendedThreads, core>>

\* An allocation throws: the locals are destroyed, the clean-up runs next.  The
\* builder may keep a command without an id, or an id without its stack.
AddThreadFails(d) ==
  /\ pc[d] \in {"add", "addId"} /\ Runs(d) /\ AllocationFails(d, "capture")
  /\ \/ UNCHANGED core
     \/ pc[d] = "addId" /\ core' = [core EXCEPT ![d] = CoreWithId(d)]
  /\ ReleaseRefs(d)
  /\ todo' = [todo EXCEPT ![d] = {}]
  /\ Goto(d, "unwind")
  /\ UNCHANGED <<life, susp, taskSusp, ver, zoneHolder, crashed, cur, suspendedThreads>>

\* The segment commands are added, or an allocation for them throws; the
\* locals are destroyed.
EndCapture(d) ==
  /\ pc[d] = "capture" /\ Runs(d)
  /\ todo[d] = {}
  /\ \/ AllocationSucceeds(d) /\ Goto(d, "payloads")
     \/ AllocationFails(d, "capture") /\ Goto(d, "unwind")
  /\ ReleaseRefs(d)
  /\ UNCHANGED <<life, susp, taskSusp, ver, zoneHolder, crashed,
                 todo, cur, suspendedThreads, core>>
-----------------------------------------------------------------------------
(* AddNotesToCore, AddPayloadsAndWrite and the end of the call. *)

\* The notes' payloads; sysctlbyname or an empty image list fails the call, as
\* does an allocation.
AddPayloads(d) ==
  /\ pc[d] = "payloads" /\ Runs(d) /\ LeaveZone(d)
  /\ \/ Goto(d, "write") /\ todo' = [todo EXCEPT ![d] = core[d].ranges]
     \/ Goto(d, "unwind") /\ UNCHANGED todo
  /\ UNCHANGED <<kernelVars, cur, thisThreadRef, threadRefs, suspendedThreads, core>>

\* Build reads a stack from the target and writes it, or fails to write.
WriteStack(d, t) ==
  /\ pc[d] = "write" /\ Runs(d) /\ LeaveZone(d)
  /\ t \in todo[d]
  /\ \/ /\ core' = [core EXCEPT ![d].file = @ \cup {[thread |-> t, stack |-> ver[t]]}]
        /\ todo' = [todo EXCEPT ![d] = @ \ {t}]
        /\ UNCHANGED pc
     \/ /\ Goto(d, "unwind")
        /\ todo' = [todo EXCEPT ![d] = {}]
        /\ UNCHANGED core
  /\ UNCHANGED <<kernelVars, cur, thisThreadRef, threadRefs, suspendedThreads>>

EndWrite(d) ==
  /\ pc[d] = "write" /\ Runs(d)
  /\ todo[d] = {}
  /\ core' = [core EXCEPT ![d].ok = TRUE]
  /\ Goto(d, "unwind")
  /\ UNCHANGED <<kernelVars, zoneUser, todo, cur, thisThreadRef, threadRefs, suspendedThreads>>

MutantUnwind(d) ==           \* no deferred clean-up
  /\ pc[d] = "unwind" /\ Runs(d) /\ LeaveZone(d)
  /\ Goto(d, "resume")
  /\ todo' = [todo EXCEPT ![d] = {}]
  /\ UNCHANGED <<kernelVars, cur, thisThreadRef, threadRefs, suspendedThreads, core>>

\* The builder, the modules and the ids are destroyed, and then the deferred
\* clean-up is run: task_resume, or the loop of ResumeThreads.
Unwind(d) ==
  /\ pc[d] = "unwind" /\ Runs(d) /\ LeaveZone(d)
  /\ Goto(d, "resume")
  /\ todo' = [todo EXCEPT ![d] = suspendedThreads[d]]
  /\ taskSusp' = IF SelfDump THEN taskSusp ELSE taskSusp - 1
  /\ UNCHANGED <<life, susp, ver, rights, zoneHolder, crashed, allocFailures,
                 cur, thisThreadRef, threadRefs, suspendedThreads, core>>

MutantCountAfterResume(t) == 0       \* resumed until it runs

\* thread_resume, which fails for a thread that has ended.
CountAfterResume(t) == IF life[t] = "live" THEN susp[t] - 1 ELSE susp[t]

ResumeNext(d, t) ==
  /\ pc[d] = "resume" /\ Runs(d)
  /\ t \in todo[d] /\ IsFirst(t, todo[d])
  /\ susp' = [susp EXCEPT ![t] = CountAfterResume(t)]
  /\ todo' = [todo EXCEPT ![d] = @ \ {t}]
  /\ UNCHANGED <<life, taskSusp, ver, rights, zoneHolder, crashed, allocFailures,
                 pc, zoneUser, cur, thisThreadRef, threadRefs, suspendedThreads, core>>

EndResume(d) ==
  /\ pc[d] = "resume" /\ Runs(d) /\ LeaveZone(d)
  /\ todo[d] = {}
  /\ rights' = RightsAfterFinalRelease(d)
  /\ suspendedThreads' = [suspendedThreads EXCEPT ![d] = {}]
  /\ Goto(d, "return")
  /\ UNCHANGED <<life, susp, taskSusp, ver, zoneHolder, crashed, allocFailures,
                 todo, cur, thisThreadRef, threadRefs, core>>

Return(d) ==
  /\ pc[d] = "return" /\ Runs(d)
  /\ Goto(d, "idle")
  /\ core' = [core EXCEPT ![d] = EmptyCore]
  /\ cur' = [cur EXCEPT ![d] = NothingRead]
  /\ UNCHANGED <<kernelVars, zoneUser, todo, thisThreadRef, threadRefs, suspendedThreads>>

\* The payloads and the data of the segments are made with operator new of
\* ZoneAllocated.  It returns what malloc returns, so that an object is
\* constructed at address zero when there is no memory: the process is
\* terminated, and the kernel takes back its rights and its task_suspend.
NewReturnsNull(d) ==
  /\ (pc[d] = "capture" /\ todo[d] = {}) \/ pc[d] = "payloads"
  /\ Runs(d) /\ AllocationFails(d, "new")
  /\ life' = IF SelfDump THEN [t \in Threads |-> "dead"] ELSE life
  /\ taskSusp' = 0
  /\ rights' = [p \in Ports |-> 0]
  /\ pc' = [e \in Dumpers |-> "gone"]
  /\ todo' = [e \in Dumpers |-> {}]
  /\ cur' = [e \in Dumpers |-> NothingRead]
  /\ thisThreadRef' = [e \in Dumpers |-> FALSE]
  /\ threadRefs' = [e \in Dumpers |-> {}]
  /\ suspendedThreads' = [e \in Dumpers |-> {}]
  /\ core' = [e \in Dumpers |-> EmptyCore]
  /\ UNCHANGED <<susp, ver, zoneHolder, crashed>>
-----------------------------------------------------------------------------
AppNext ==
  \E t \in Threads :
    \/ AppStep(t) \/ AppStart(t) \/ AppEnd(t)
    \/ AppMalloc(t) \/ AppMallocReturns(t)

\* The steps of a call that has begun.
CallStep(d) ==
  \/ EnterZone(d) \/ Check(d) \/ SuspendTask(d)
  \/ EnumerateForSuspend(d) \/ ReserveForSuspend(d) \/ ThreadSuspend(d)
  \/ Push(d) \/ PushFails(d) \/ EndSuspend(d)
  \/ ListModules(d) \/ EnumerateForCapture(d) \/ ReserveForCapture(d)
  \/ ReadRegisters(d) \/ ReadExceptionState(d)
  \/ AddThreadCommand(d) \/ AddThread(d) \/ AddThreadFails(d) \/ EndCapture(d)
  \/ AddPayloads(d) \/ EndWrite(d) \/ NewReturnsNull(d)
  \/ Unwind(d) \/ EndResume(d) \/ Return(d)
  \/ \E t \in Threads :
       SuspendNext(d, t) \/ ReadId(d, t) \/ WriteStack(d, t) \/ ResumeNext(d, t)

Next == AppNext \/ \E d \in Dumpers : Call(d) \/ CallStep(d)

Spec == Init /\ [][Next]_vars

\* A thread that may run is scheduled; the application is owed nothing.
Fairness == \A d \in Dumpers : WF_vars(CallStep(d))

FairSpec == Spec /\ Fairness
-----------------------------------------------------------------------------
Labels == {"idle", "check", "stop", "enumerate1", "reserve1", "suspend", "suspending",
           "push", "modules", "enumerate2", "reserve2", "capture", "registers",
           "exception", "add", "addId", "payloads", "write", "unwind", "resume",
           "return", "gone"}

ThreadReading == [thread : Threads \cup {NoThread}, id : Threads \cup {NoThread}, regs : 0 .. 1]

\* Every variable has its type.
TypeOK ==
  /\ life \in [Threads -> {"unborn", "live", "dead"}]
  /\ susp \in [Threads -> Nat]
  /\ taskSusp \in Nat
  /\ ver \in [Threads -> 0 .. 1]
  /\ rights \in [Ports -> Nat]
  /\ zoneHolder \in Threads \cup {NoThread}
  /\ crashed \in Threads \cup {NoThread}
  /\ allocFailures \in 0 .. MaxAllocFailures
  /\ pc \in [Dumpers -> Labels]
  /\ zoneUser \in Dumpers \cup {NoThread}
  /\ todo \in [Dumpers -> SUBSET Threads]
  /\ cur \in [Dumpers -> ThreadReading]
  /\ thisThreadRef \in [Dumpers -> BOOLEAN]
  /\ threadRefs \in [Dumpers -> SUBSET Threads]
  /\ suspendedThreads \in [Dumpers -> SUBSET Threads]
  /\ core \in [Dumpers -> [commands  : Seq([thread : Threads, regs : 0 .. 1]),
                           threadIds : Seq(Threads \cup {NoThread}),
                           ranges    : SUBSET Threads,
                           file      : SUBSET [thread : Threads, stack : 0 .. 1],
                           ok        : BOOLEAN]]

\* The threads whose suspend count a call has raised and not yet lowered.
Held(d) ==
  IF pc[d] = "push" THEN suspendedThreads[d] \cup {cur[d].thread}
  ELSE IF pc[d] = "resume" THEN todo[d]
  ELSE suspendedThreads[d]

\* The labels between task_suspend and task_resume.
Stopped == {"modules", "enumerate2", "reserve2", "capture", "registers", "exception",
            "add", "addId", "payloads", "write", "unwind"}

HoldsTask(d) == ~SelfDump /\ pc[d] \in Stopped

\* Suspend counts are the application's own plus one for every call that has
\* stopped the thread: the deferred ResumeThreads and task_resume undo exactly
\* what the call did, on every path, also while another call has the thread
\* suspended and when the application had suspended it before.
SuspendBalance ==
  /\ \A t \in Live : susp[t] = BaseCount(t) + Cardinality({d \in Dumpers : t \in Held(d)})
  /\ taskSusp = Cardinality({d \in Dumpers : HoldsTask(d)})

\* Every send right that mach_thread_self and task_threads handed out is owned
\* by a MachPortSendRightRef, so that none is left when the call returns.
RightsBalance ==
  \A p \in Ports :
    rights[p] = Cardinality({d \in Dumpers : p \in threadRefs[d]})
              + Cardinality({d \in Dumpers : p \in suspendedThreads[d]})
              + Count(p \in Dumpers /\ thisThreadRef[p])

Commands(d) == {core[d].commands[i] : i \in DOMAIN core[d].commands}

\* The threads whose state the call promises to record consistently.
Frozen(d) == IF SelfDump THEN suspendedThreads[d] \cup {d} ELSE Threads

\* The stack that the core file holds for a thread is the one its recorded
\* registers belong to.  Only a thread that started after the enumeration may
\* have moved on; the dumping thread's own moving stack must not be included.
ConsistentStacks ==
  \A d \in Dumpers : \A f \in core[d].file, c \in Commands(d) :
    f.thread = c.thread /\ c.thread \in Frozen(d) => f.stack = c.regs

\* What is written files every thread command under the id of its own thread:
\* the lists of commands and of ids are in step, whatever ended between
\* thread_info and the two calls of thread_get_state, and whichever of the two
\* allocations for a thread failed.
IdsNameTheirThreads ==
  \A d \in Dumpers :
    pc[d] \in {"payloads", "write"} \/ core[d].ok =>
      /\ Len(core[d].threadIds) = Len(core[d].commands)
      /\ \A i \in DOMAIN core[d].commands :
           core[d].threadIds[i] = core[d].commands[i].thread

\* Every thread that the call stopped, and the dumping one, is in the core.
NoThreadMissing ==
  \A d \in Dumpers :
    pc[d] \in {"payloads", "write"} =>
      Frozen(d) \cap Live \subseteq {c.thread : c \in Commands(d)}

\* Every call returns: the library never waits for a thread it has stopped.
CallReturns == \A d \in Dumpers : pc[d] # "idle" ~> pc[d] = "idle"

\* Every dumper has been suspended by another one.
Standoff == \A d \in Dumpers : \E e \in Dumpers \ {d} : d \in Held(e)

\* A dumper has been suspended inside malloc or free on the library's zone by
\* one that needs the zone before it gets to ResumeThreads.
LockedOut ==
  \E d \in Dumpers : zoneUser \in Held(d) /\ pc[d] # "resume"

\* Calls of several threads of a process never all hang, except in two ways:
\* each caller is suspended by another one that was itself inside
\* thread_suspend at the time, or one is suspended while it holds the lock of
\* the library's own zone, which the other one then waits for.
SomeCallReturns ==
  (\E d \in Dumpers : pc[d] # "idle") ~>
    (Standoff \/ LockedOut \/ \E d \in Dumpers : pc[d] = "return")
=============================================================================
