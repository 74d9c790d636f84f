---------------------- MODULE DumpSessionRecordProofs ----------------------
(***************************************************************************)
(* What a call records of the threads, for any number of threads and of    *)
(* concurrent calls: every thread it stopped, each under its own id, and   *)
(* with the stack that its registers belong to.                            *)
(***************************************************************************)
EXTENDS DumpSessionProofs

Capturing == CaptureLoop \cup {"payloads", "write"}

\* A thread that was enumerated has started, and one whose id could not be
\* read has ended: thread_get_state fails for it, too.
IdsOK(d) ==
  /\ pc[d] \in CaptureLoop => todo[d] \subseteq Started
  /\ pc[d] = "registers" =>
       \/ cur[d].id = cur[d].thread
       \/ cur[d].id = NoThread /\ life[cur[d].thread] = "dead"
  /\ pc[d] \in {"exception", "add", "addId"} => cur[d].id = cur[d].thread

\* The lists of commands and ids are in step but for the moment between the two
\* allocations, and after the second of them has failed.
ListsOK(d) ==
  /\ \A i \in DOMAIN core[d].threadIds :
       i \in DOMAIN core[d].commands /\ core[d].threadIds[i] = core[d].commands[i].thread
  /\ pc[d] = "addId" =>
       /\ Len(core[d].commands) = Len(core[d].threadIds) + 1
       /\ core[d].commands[Len(core[d].commands)].thread = cur[d].thread
  /\ pc[d] \notin {"addId", "unwind", "resume", "return"} \/ core[d].ok
       => Len(core[d].commands) = Len(core[d].threadIds)
  /\ core[d].ok => pc[d] \in {"unwind", "resume", "return"}

Recorded(d) == {c.thread : c \in Commands(d)}

\* A stopped thread is recorded, still to be visited, or has ended.
CompleteOK(d) ==
  /\ pc[d] \in CaptureLoop => Frozen(d) \cap Live \subseteq Recorded(d) \cup todo[d]
  /\ pc[d] = "addId" => cur[d].thread \in Recorded(d)
  /\ pc[d] \in {"payloads", "write"} => Frozen(d) \cap Live \subseteq Recorded(d)

\* The threads that do not move while the target is stopped: of those that the
\* call promises to record, all but the dumping thread itself.
Steady(d) ==
  IF SelfDump THEN suspendedThreads[d] \cup {t \in {d} : t = crashed} ELSE Threads

\* What was recorded of a steady thread is what it still has.
SteadyOK(d) ==
  /\ pc[d] \in {"exception", "add"} /\ cur[d].thread \in Steady(d)
       => cur[d].regs = ver[cur[d].thread]
  /\ pc[d] \in Capturing =>
       /\ \A c \in Commands(d) : c.thread \in Steady(d) => c.regs = ver[c.thread]
       /\ \A f \in core[d].file : f.thread \in Steady(d) => f.stack = ver[f.thread]

\* Without a crash context, the dumping thread's own stack is not written.
OwnStackOK(d) ==
  SelfDump /\ crashed = NoThread =>
    /\ d \notin core[d].ranges
    /\ pc[d] = "write" => d \notin todo[d]
    /\ \A f \in core[d].file : f.thread # d

\* The core is empty up to AddThreadsToCore, and its file part up to Build.
EmptyOK(d) ==
  /\ pc[d] \notin (Capturing \ {"reserve2"}) \cup {"unwind", "resume", "return"}
       => Commands(d) = {} /\ core[d].ranges = {}
  /\ pc[d] \notin {"write", "unwind", "resume", "return"} => core[d].file = {}

PairsMatch(d) ==
  \A f \in core[d].file, c \in Commands(d) :
    f.thread = c.thread /\ c.thread \in Frozen(d) => f.stack = c.regs

StacksOK(d) == SteadyOK(d) /\ OwnStackOK(d) /\ EmptyOK(d) /\ PairsMatch(d)

\* The dumping threads of a self dump have started.
DumpersStarted == SelfDump => \A d \in Dumpers : d \in Threads /\ life[d] # "unborn"

IdsInv == DumpersStarted /\ \A d \in Dumpers : IdsOK(d) /\ ListsOK(d)
CompleteInv == \A d \in Dumpers : CompleteOK(d)
StacksInv == crashed \in Crashes /\ \A d \in Dumpers : StacksOK(d)

\* A process that dumps itself passes the context of the calling thread, if any.
OwnContext == SelfDump => \A d \in Dumpers, c \in Crashes : c \in {d, NoThread}
-----------------------------------------------------------------------------
(* What a step may do to the threads. *)

\* While a call has the target stopped, a thread that runs is one of its own
\* task that it did not suspend.
LEMMA WhoRuns ==
  ASSUME IInv, NEW d \in Dumpers, pc[d] \in Stopped, NEW t \in Threads, Runs(t)
  PROVE  SelfDump /\ t \notin suspendedThreads[d]
<1>1. life[t] = "live" /\ susp[t] = 0 /\ taskSusp = 0
  BY DEF Runs
<1>2. CASE ~SelfDump
  <2>1. d \in TaskHolders /\ TaskHolders \subseteq Dumpers
    BY <1>2 DEF TaskHolders, HoldsTask
  <2>2. Cardinality(TaskHolders) \in Nat \ {0}
    BY <2>1, SetShrinks
  <2> QED
    BY <1>1, <2>2 DEF IInv, CountsMatch
<1>3. CASE t \in suspendedThreads[d]
  <2>1. d \in Holders(t) /\ Holders(t) \subseteq Dumpers
    BY <1>3 DEF Holders, Held, Stopped
  <2>2. Cardinality(Holders(t)) \in Nat \ {0}
    BY <2>1, SetShrinks
  <2>3. susp[t] >= Owed(t)
    BY <1>1 DEF IInv, CountsMatch, CountOK
  <2> QED
    BY <1>1, <2>2, <2>3 DEF Owed, BaseCount
<1> QED
  BY <1>2, <1>3

\* Only running threads move, start and end threads.  The crashed one waits in
\* its signal handler, and a dumper of its own task does not end.
Effects ==
  /\ crashed' = crashed
  /\ \A t \in Threads :
       /\ life[t] = "dead" => life'[t] = "dead"
       /\ life[t] # "unborn" => life'[t] # "unborn"
       /\ life'[t] # life[t] /\ t \in Dumpers => life[t] = "unborn"
       /\ life'[t] # life[t] => \E u \in Threads : Runs(u)
       /\ ver'[t] # ver[t] => Runs(t) /\ t # crashed

\* The process of the dumpers does not end.
Orderly == [Next]_vars /\ \A d \in Dumpers : ~NewReturnsNull(d)

\* That is what every step does by which the process does not end.
LEMMA StepEffects ==
  ASSUME TInv, IdsInv, Orderly
  PROVE  Effects
<1>1. CASE AppNext
  <2>1. PICK t \in Threads : AppStep(t) \/ AppStart(t) \/ AppEnd(t) \/ AppMalloc(t) \/ AppMallocReturns(t)
    BY <1>1 DEF AppNext
  <2>2. crashed' = crashed
    BY <2>1 DEF AppStep, AppStart, AppEnd, AppMalloc, AppMallocReturns
  <2>3. CASE AppStep(t)
    BY <2>2, <2>3 DEF AppStep, AppRuns, Effects, TInv, Types
  <2>4. CASE AppStart(t)
    BY <2>2, <2>4 DEF AppStart, AppRuns, Effects, TInv, Types
  <2>5. CASE AppEnd(t)
    BY <2>2, <2>5 DEF AppEnd, AppRuns, Effects, TInv, Types
  <2>6. CASE AppMalloc(t) \/ AppMallocReturns(t)
    BY <2>2, <2>6 DEF AppMalloc, AppMallocReturns, Effects
  <2> QED
    BY <2>1, <2>3, <2>4, <2>5, <2>6
<1>2. ASSUME NEW d \in Dumpers, Call(d) \/ CallStep(d) PROVE Effects
  <2>1. crashed' = crashed /\ life' = life
    <3>1. CASE EnterZone(d) \/ Call(d) \/ Check(d) \/ SuspendTask(d) \/ EnumerateForSuspend(d)
               \/ ReserveForSuspend(d) \/ ThreadSuspend(d) \/ Push(d) \/ PushFails(d) \/ EndSuspend(d)
      BY <3>1 DEF EnterZone, Call, Check, SuspendTask, EnumerateForSuspend, ReserveForSuspend, ThreadSuspend, Push, PushFails,
                  EndSuspend, kernelVars
    <3>2. CASE ListModules(d) \/ EnumerateForCapture(d) \/ ReserveForCapture(d) \/ AddThreadCommand(d)
               \/ ReadRegisters(d) \/ ReadExceptionState(d) \/ AddThread(d)
               \/ AddThreadFails(d) \/ EndCapture(d) \/ AddPayloads(d) \/ EndWrite(d)
      BY <3>2 DEF ListModules, EnumerateForCapture, ReserveForCapture, AddThreadCommand, ReadRegisters, ReadExceptionState, AddThread, AddThreadFails,
                  EndCapture, AddPayloads, EndWrite, kernelVars
    <3>3. CASE Unwind(d) \/ EndResume(d) \/ Return(d)
               \/ \E t \in Threads : SuspendNext(d, t) \/ ReadId(d, t) \/ WriteStack(d, t) \/ ResumeNext(d, t)
      BY <3>3 DEF Unwind, EndResume, Return, SuspendNext, ReadId, WriteStack, ResumeNext, kernelVars
    <3> QED
      BY <1>2, <3>1, <3>2, <3>3 DEF CallStep, Orderly
  <2>2. ASSUME ver' # ver
        PROVE  /\ ReadRegisters(d) /\ cur[d].thread = d /\ ~UsesCrashContext(d) /\ d \in Live
               /\ ver' = [ver EXCEPT ![d] = 1 - @]
    <3>1. CASE EnterZone(d) \/ Call(d) \/ Check(d) \/ SuspendTask(d) \/ EnumerateForSuspend(d)
               \/ ReserveForSuspend(d) \/ ThreadSuspend(d) \/ Push(d) \/ PushFails(d) \/ EndSuspend(d)
      BY <2>2, <3>1 DEF EnterZone, Call, Check, SuspendTask, EnumerateForSuspend, ReserveForSuspend, ThreadSuspend, Push, PushFails,
                  EndSuspend, kernelVars
    <3>2. CASE ListModules(d) \/ EnumerateForCapture(d) \/ ReserveForCapture(d) \/ AddThreadCommand(d)
               \/ ReadExceptionState(d) \/ AddThread(d)
               \/ AddThreadFails(d) \/ EndCapture(d) \/ AddPayloads(d) \/ EndWrite(d)
      BY <2>2, <3>2 DEF ListModules, EnumerateForCapture, ReserveForCapture, AddThreadCommand, ReadExceptionState, SkipThread, AddThread, AddThreadFails,
                  EndCapture, AddPayloads, EndWrite, kernelVars
    <3>3. CASE Unwind(d) \/ EndResume(d) \/ Return(d)
               \/ \E t \in Threads : SuspendNext(d, t) \/ ReadId(d, t) \/ WriteStack(d, t) \/ ResumeNext(d, t)
      BY <2>2, <3>3 DEF Unwind, EndResume, Return, SuspendNext, ReadId, WriteStack, ResumeNext, kernelVars
    <3>4. CASE ReadRegisters(d)
      BY <2>2, <3>4 DEF ReadRegisters, SkipThread
    <3> QED
      BY <1>2, <3>1, <3>2, <3>3, <3>4 DEF CallStep, Orderly
  <2>3. ASSUME ver' # ver PROVE d \in Threads /\ Runs(d) /\ d # crashed
    <3>1. pc[d] = "registers" /\ Runs(d) /\ d \in Threads /\ life[d] = "live"
      BY <2>2, <2>3 DEF ReadRegisters, Live
    <3>2. cur[d].id = d
      BY <2>2, <2>3, <3>1 DEF IdsInv, IdsOK
    <3> QED
      BY <2>2, <2>3, <3>1, <3>2, ThreadAssumption DEF UsesCrashContext
  <2> QED
    BY <2>1, <2>2, <2>3 DEF Effects, TInv, Types
<1>3. CASE UNCHANGED vars
  BY <1>3 DEF vars, kernelVars, Effects
<1> QED
  BY <1>1, <1>2, <1>3 DEF Next, Orderly

\* A step by which d gets no further.
Still(d) ==
  /\ pc'[d] = pc[d] /\ todo'[d] = todo[d] /\ cur'[d] = cur[d]
  /\ suspendedThreads'[d] = suspendedThreads[d] /\ core'[d] = core[d]

\* Such are the steps of the application and of another call, and getting the
\* lock of the zone.
LEMMA OthersStill ==
  ASSUME TInv, NEW d \in Dumpers,
         \/ AppNext \/ EnterZone(d) \/ UNCHANGED vars
         \/ \E e \in Dumpers \ {d} : (Call(e) \/ CallStep(e)) /\ ~NewReturnsNull(e)
  PROVE  Still(d)
<1>1. CASE AppNext
  BY <1>1 DEF AppNext, AppStep, AppStart, AppEnd, AppMalloc, AppMallocReturns, callVars, Still
<1>2. ASSUME NEW e \in Dumpers \ {d}, Call(e) \/ CallStep(e), ~NewReturnsNull(e) PROVE Still(d)
  <2> USE DEF TInv, Types, Still, Goto
  <2>1. CASE EnterZone(e) \/ Call(e) \/ Check(e) \/ SuspendTask(e) \/ EnumerateForSuspend(e)
             \/ ReserveForSuspend(e) \/ ThreadSuspend(e) \/ Push(e) \/ PushFails(e) \/ EndSuspend(e)
    BY <2>1 DEF EnterZone, ReserveForSuspend, Reserved, NotReserved, Call, Check, SuspendTask, EnumerateForSuspend, Enumerated, NotEnumerated,
                ThreadSuspend, Push, PushFails, EndSuspend
  <2>2. CASE ListModules(e) \/ EnumerateForCapture(e) \/ ReserveForCapture(e)
             \/ ReadExceptionState(e) \/ AddThreadCommand(e) \/ AddThread(e) \/ AddThreadFails(e) \/ EndCapture(e)
    BY <2>2 DEF ListModules, ReserveForCapture, Reserved, NotReserved, AddThreadCommand, EnumerateForCapture, Enumerated, NotEnumerated, SkipThread,
                ReadExceptionState, AddThread, AddThreadFails, EndCapture
  <2>3. CASE ReadRegisters(e)
    BY <2>3 DEF ReadRegisters, SkipThread
  <2>4. CASE AddPayloads(e) \/ EndWrite(e) \/ Unwind(e) \/ EndResume(e) \/ Return(e)
    BY <2>4 DEF AddPayloads, EndWrite, Unwind, EndResume, Return
  <2>5. CASE \E t \in Threads : SuspendNext(e, t) \/ ReadId(e, t) \/ WriteStack(e, t) \/ ResumeNext(e, t)
    BY <2>5 DEF SuspendNext, ReadId, WriteStack, ResumeNext
  <2> QED
    BY <1>2, <2>1, <2>2, <2>3, <2>4, <2>5 DEF CallStep
<1>3. CASE UNCHANGED vars
  BY <1>3 DEF vars, callVars, Still
<1>4. CASE EnterZone(d)
  BY <1>4 DEF EnterZone, Still
<1> QED
  BY <1>1, <1>2, <1>3, <1>4

\* What AddThreadCommand does to the record.
LEMMA CommandAdded ==
  ASSUME TInv, NEW d \in Dumpers, AddThreadCommand(d)
  PROVE  LET c == [thread |-> cur[d].thread, regs |-> cur[d].regs] IN
         /\ core'[d].commands = Append(core[d].commands, c)
         /\ Commands(d)' = Commands(d) \cup {c}
         /\ core'[d].threadIds = core[d].threadIds /\ core'[d].ranges = core[d].ranges
         /\ core'[d].file = core[d].file /\ core'[d].ok = core[d].ok
<1> DEFINE c == [thread |-> cur[d].thread, regs |-> cur[d].regs]
<1>1. core[d] \in CoreRecord /\ core' = [core EXCEPT ![d] = CoreWithCommand(d)]
      /\ DOMAIN core = Dumpers
  BY DEF TInv, Types, AddThreadCommand, CoreWithCommand
<1>2. /\ core'[d].commands = Append(core[d].commands, c)
      /\ core'[d].threadIds = core[d].threadIds /\ core'[d].ranges = core[d].ranges
      /\ core'[d].file = core[d].file /\ core'[d].ok = core[d].ok
  BY <1>1 DEF CoreRecord, CoreWithCommand
<1>3. core[d].commands \in Seq([thread : Threads, regs : 0 .. 1])
  BY <1>1 DEF CoreRecord
<1> HIDE DEF c
<1>4. {core'[d].commands[i] : i \in DOMAIN core'[d].commands}
        = {core[d].commands[i] : i \in DOMAIN core[d].commands} \cup {c}
  <2> DEFINE s == core[d].commands
  <2>1. s \in Seq([thread : Threads, regs : 0 .. 1])
    BY <1>3
  <2> HIDE DEF s
  <2>2. /\ DOMAIN Append(s, c) = 1 .. Len(s) + 1 /\ DOMAIN s = 1 .. Len(s) /\ Len(s) \in Nat
        /\ \A i \in 1 .. Len(s) : Append(s, c)[i] = s[i]
        /\ Append(s, c)[Len(s) + 1] = c
    BY <2>1
  <2>3. DOMAIN Append(s, c) = DOMAIN s \cup {Len(s) + 1}
    BY <2>2
  <2>4. {Append(s, c)[i] : i \in DOMAIN Append(s, c)} = {s[i] : i \in DOMAIN s} \cup {c}
    BY <2>2, <2>3
  <2> QED
    BY <1>2, <2>4 DEF s
<1> QED
  BY <1>2, <1>4 DEF Commands, c

\* What the rest of the loop's body adds to it.
LEMMA IdAdded ==
  ASSUME TInv, NEW d \in Dumpers
  PROVE  /\ CoreWithId(d).commands = core[d].commands /\ CoreWithId(d).ranges = core[d].ranges
         /\ CoreWithId(d).file = core[d].file /\ CoreWithId(d).ok = core[d].ok
         /\ CoreWithId(d).threadIds = Append(core[d].threadIds, cur[d].id)
         /\ \A b \in BOOLEAN :
              /\ CoreWithThread(d, b).commands = core[d].commands
              /\ CoreWithThread(d, b).threadIds = Append(core[d].threadIds, cur[d].id)
              /\ CoreWithThread(d, b).file = core[d].file
              /\ CoreWithThread(d, b).ok = core[d].ok
              /\ CoreWithThread(d, b).ranges \subseteq core[d].ranges \cup {cur[d].thread}
              /\ ~IncludesStack(d, cur[d].thread)
                   => CoreWithThread(d, b).ranges = core[d].ranges
<1>1. core[d] \in CoreRecord
  BY DEF TInv, Types
<1> QED
  BY <1>1 DEF CoreRecord, CoreWithId, CoreWithThread

\* At the end of the process, all records are given up.
LEMMA NullEmpties ==
  ASSUME NEW e \in Dumpers, NewReturnsNull(e), NEW d \in Dumpers
  PROVE  /\ pc'[d] = "gone" /\ core'[d] = EmptyCore /\ Commands(d)' = {}
         /\ crashed' = crashed
<1>1. pc'[d] = "gone" /\ core'[d] = EmptyCore /\ crashed' = crashed
  BY DEF NewReturnsNull
<1>2. EmptyCore.commands = << >> /\ DOMAIN << >> = {}
  BY DEF EmptyCore
<1> QED
  BY <1>1, <1>2 DEF Commands
-----------------------------------------------------------------------------
(* Ids. *)

\* A step of d by which it gets further.
OwnStep(d) == (Call(d) \/ CallStep(d)) /\ ~EnterZone(d) /\ ~NewReturnsNull(d)

\* A step of the call has read the id of the thread that its loop adds.
LEMMA OwnStepIds ==
  ASSUME TInv, NEW d \in Dumpers, IdsOK(d), OwnStep(d), Effects
  PROVE  IdsOK(d)'
<1>1. LoopOK(d) /\ Types
  BY DEF TInv
<1> USE DEF Goto, kernelVars, CaptureLoop
<1>2. CASE pc'[d] \notin CaptureLoop
  BY <1>2 DEF IdsOK
<1>3. CASE Call(d) \/ Check(d) \/ SuspendTask(d) \/ EnumerateForSuspend(d) \/ ReserveForSuspend(d)
           \/ ThreadSuspend(d) \/ Push(d) \/ PushFails(d) \/ EndSuspend(d) \/ ListModules(d)
  <2>1. pc'[d] \notin CaptureLoop
    BY <1>1, <1>3 DEF Types, Call, Check, SuspendTask, EnumerateForSuspend, Enumerated, NotEnumerated,
             ReserveForSuspend, Reserved, NotReserved, ThreadSuspend, Push, PushFails, EndSuspend, ListModules
  <2> QED
    BY <1>2, <2>1
<1>4. CASE AddPayloads(d) \/ EndWrite(d) \/ Unwind(d) \/ EndResume(d) \/ AddThreadFails(d) \/ EndCapture(d)
           \/ Return(d)
  <2>1. pc'[d] \notin CaptureLoop
    BY <1>1, <1>4 DEF Types, AddPayloads, EndWrite, Unwind, EndResume, AddThreadFails, EndCapture, Return
  <2> QED
    BY <1>2, <2>1
<1>6. ASSUME NEW t \in Threads, SuspendNext(d, t) \/ ResumeNext(d, t) \/ WriteStack(d, t) PROVE IdsOK(d)'
  <2>1. pc'[d] \notin CaptureLoop
    BY <1>1, <1>6 DEF Types, SuspendNext, ResumeNext, WriteStack
  <2> QED
    BY <1>2, <2>1
<1>8. CASE EnumerateForCapture(d)
  BY <1>1, <1>8 DEF EnumerateForCapture, Enumerated, NotEnumerated, IdsOK, Types, Live, Started
<1>5. CASE ReserveForCapture(d)
  BY <1>1, <1>5 DEF ReserveForCapture, Reserved, NotReserved, IdsOK, Types, Started
<1>9. ASSUME NEW t \in Threads, ReadId(d, t) PROVE IdsOK(d)'
  <2>1. /\ pc'[d] = "registers" /\ cur'[d].thread = t
        /\ cur'[d].id = IF t \in Live THEN t ELSE NoThread
        /\ UNCHANGED <<life, todo>>
    BY <1>1, <1>9 DEF ReadId, Types
  <2>2. t \in Live \/ life[t] = "dead"
    BY <1>1, <1>9 DEF ReadId, IdsOK, Started, Types, Live
  <2>3. todo[d] \subseteq Started
    BY <1>9 DEF ReadId, IdsOK
  <2> QED
    BY <2>1, <2>2, <2>3 DEF IdsOK, Started
<1>10. CASE ReadRegisters(d)
  <2>1. pc[d] = "registers" /\ todo[d] \subseteq Started /\ life' = life
    BY <1>10 DEF ReadRegisters, IdsOK
  <2>2. todo'[d] \subseteq Started'
    BY <1>1, <1>10, <2>1 DEF ReadRegisters, SkipThread, Types, Started
  <2>3. cur'[d].id = cur[d].id /\ cur'[d].thread = cur[d].thread
    BY <1>1, <1>10 DEF ReadRegisters, SkipThread, Types, ThreadReading
  <2>4. pc'[d] = "capture" \/ (pc'[d] \in {"exception", "add"} /\ cur[d].id = cur[d].thread)
    <3>1. pc'[d] = "capture" \/ (pc'[d] \in {"exception", "add"} /\ (UsesCrashContext(d) \/ cur[d].thread \in Live))
      BY <1>1, <1>10 DEF ReadRegisters, SkipThread, Types
    <3>2. UsesCrashContext(d) \/ cur[d].thread \in Live => cur[d].id = cur[d].thread
      BY <2>1 DEF IdsOK, UsesCrashContext, Live
    <3> QED
      BY <3>1, <3>2
  <2> QED
    BY <2>1, <2>2, <2>3, <2>4 DEF IdsOK
<1>11. CASE ReadExceptionState(d)
  BY <1>1, <1>11 DEF ReadExceptionState, SkipThread, IdsOK, Types, Started
<1>12. CASE AddThreadCommand(d)
  <2>1. cur[d].id = cur[d].thread /\ todo[d] \subseteq Started
    BY <1>12 DEF AddThreadCommand, IdsOK
  <2>2. pc'[d] = "addId" /\ todo' = todo /\ cur' = cur /\ life' = life
    BY <1>1, <1>12 DEF AddThreadCommand, Types
  <2> QED
    BY <2>1, <2>2 DEF IdsOK, Started
<1>13. CASE AddThread(d)
  <2>1. todo[d] \subseteq Started
    BY <1>13 DEF AddThread, IdsOK
  <2>2. pc'[d] = "capture" /\ todo'[d] \subseteq todo[d] /\ life' = life
    BY <1>1, <1>13 DEF AddThread, Types
  <2> QED
    BY <2>1, <2>2 DEF IdsOK, Started
<1> QED
  BY <1>3, <1>4, <1>5, <1>6, <1>8, <1>9, <1>10, <1>11, <1>12, <1>13 DEF CallStep, OwnStep

\* It keeps the lists in step: an id follows its command before the next thread.
LEMMA OwnStepLists ==
  ASSUME TInv, NEW d \in Dumpers, IdsOK(d), ListsOK(d), OwnStep(d)
  PROVE  ListsOK(d)'
<1>1. Types /\ core[d] \in CoreRecord
  BY DEF TInv, Types
<1> USE DEF Goto, kernelVars
<1> DEFINE Late == {"unwind", "resume", "return"}
<1>2. ASSUME core'[d].commands = core[d].commands, core'[d].threadIds = core[d].threadIds,
             core'[d].ok = core[d].ok, pc'[d] # "addId",
             pc'[d] \in Late \/ pc[d] \notin Late \cup {"addId"}
      PROVE  ListsOK(d)'
  BY <1>2 DEF ListsOK
<1>3. CASE Call(d) \/ Check(d) \/ SuspendTask(d) \/ EnumerateForSuspend(d) \/ ReserveForSuspend(d)
           \/ ThreadSuspend(d) \/ Push(d) \/ PushFails(d) \/ EndSuspend(d) \/ ListModules(d)
  <2>1. core' = core /\ pc'[d] # "addId" /\ pc[d] \notin Late \cup {"addId"}
    BY <1>1, <1>3 DEF Types, Call, Check, SuspendTask, EnumerateForSuspend, Enumerated, NotEnumerated,
             ReserveForSuspend, Reserved, NotReserved, ThreadSuspend, Push, PushFails, EndSuspend, ListModules
  <2> QED
    BY <1>2, <2>1
<1>4. CASE EnumerateForCapture(d) \/ ReserveForCapture(d) \/ EndCapture(d) \/ AddPayloads(d)
  <2>1. core' = core /\ pc'[d] # "addId" /\ pc[d] \notin Late \cup {"addId"}
    BY <1>1, <1>4 DEF Types, EnumerateForCapture, Enumerated, NotEnumerated,
             ReserveForCapture, Reserved, NotReserved, EndCapture, AddPayloads
  <2> QED
    BY <1>2, <2>1
<1>5. CASE ReadRegisters(d) \/ ReadExceptionState(d)
  <2>1. core' = core /\ pc'[d] # "addId" /\ pc[d] \notin Late \cup {"addId"}
    BY <1>1, <1>5 DEF Types, ReadRegisters, ReadExceptionState, SkipThread
  <2> QED
    BY <1>2, <2>1
<1>6. CASE Unwind(d) \/ EndResume(d) \/ \E t \in Threads : ResumeNext(d, t)
  <2>1. core' = core /\ pc'[d] \in Late
    BY <1>1, <1>6 DEF Types, Unwind, EndResume, ResumeNext
  <2> QED
    BY <1>2, <2>1
<1>7. CASE \E t \in Threads : SuspendNext(d, t) \/ ReadId(d, t)
  <2>1. core' = core /\ pc'[d] # "addId" /\ pc[d] \notin Late \cup {"addId"}
    BY <1>1, <1>7 DEF Types, SuspendNext, ReadId
  <2> QED
    BY <1>2, <2>1
<1>8. ASSUME NEW t \in Threads, WriteStack(d, t) PROVE ListsOK(d)'
  <2>1. pc[d] = "write" /\ pc'[d] # "addId"
    BY <1>1, <1>8 DEF Types, WriteStack
  <2>2. /\ core'[d].commands = core[d].commands /\ core'[d].threadIds = core[d].threadIds
        /\ core'[d].ok = core[d].ok
    BY <1>1, <1>8 DEF Types, WriteStack, CoreRecord
  <2> QED
    BY <1>2, <2>1, <2>2
<1>9. CASE EndWrite(d)
  <2>1. pc[d] = "write" /\ pc'[d] = "unwind"
    BY <1>1, <1>9 DEF Types, EndWrite
  <2>2. core'[d].commands = core[d].commands /\ core'[d].threadIds = core[d].threadIds
    BY <1>1, <1>9 DEF Types, EndWrite, CoreRecord
  <2> QED
    BY <2>1, <2>2 DEF ListsOK
<1>10. CASE Return(d)
  <2>1. core'[d] = EmptyCore /\ pc'[d] = "idle"
    BY <1>1, <1>10 DEF Types, Return
  <2> QED
    BY <2>1 DEF ListsOK, EmptyCore
<1>11. CASE AddThreadCommand(d)
  <2> DEFINE s == core[d].commands
             c == [thread |-> cur[d].thread, regs |-> cur[d].regs]
  <2>1. pc[d] = "add" /\ pc'[d] = "addId" /\ cur' = cur
    BY <1>1, <1>11 DEF Types, AddThreadCommand
  <2>2. /\ core'[d].commands = Append(s, c) /\ core'[d].threadIds = core[d].threadIds
        /\ core'[d].ok = core[d].ok
    BY <1>11, CommandAdded
  <2>3. s \in Seq([thread : Threads, regs : 0 .. 1]) /\ c.thread = cur[d].thread
    BY <1>1 DEF CoreRecord
  <2>4. /\ Len(s) = Len(core[d].threadIds) /\ ~core[d].ok
        /\ \A i \in DOMAIN core[d].threadIds : i \in DOMAIN s /\ core[d].threadIds[i] = s[i].thread
    BY <2>1 DEF ListsOK
  <2> HIDE DEF s, c
  <2>5. /\ Len(Append(s, c)) = Len(s) + 1 /\ Append(s, c)[Len(s) + 1] = c /\ Len(s) \in Nat
        /\ \A i \in DOMAIN s : i \in DOMAIN Append(s, c) /\ Append(s, c)[i] = s[i]
    BY <2>3
  <2> QED
    BY <2>1, <2>2, <2>3, <2>4, <2>5 DEF ListsOK
<1>12. ASSUME pc[d] = "addId", pc'[d] # "addId", core'[d].commands = core[d].commands,
              core'[d].threadIds = Append(core[d].threadIds, cur[d].id), core'[d].ok = core[d].ok
       PROVE  ListsOK(d)'
  <2> DEFINE s == core[d].commands
             r == core[d].threadIds
  <2>1. r \in Seq(Threads \cup {NoThread}) /\ s \in Seq([thread : Threads, regs : 0 .. 1])
    BY <1>1 DEF CoreRecord
  <2>2. /\ Len(s) = Len(r) + 1 /\ s[Len(s)].thread = cur[d].id /\ ~core[d].ok
        /\ \A i \in DOMAIN r : i \in DOMAIN s /\ r[i] = s[i].thread
    BY <1>12 DEF ListsOK, IdsOK
  <2>3. core'[d].commands = s /\ core'[d].threadIds = Append(r, cur[d].id) /\ ~core'[d].ok
    BY <1>12, <2>2
  <2> HIDE DEF s, r
  <2>4. /\ Len(Append(r, cur[d].id)) = Len(r) + 1 /\ Len(r) \in Nat
        /\ DOMAIN Append(r, cur[d].id) = 1 .. Len(r) + 1 /\ DOMAIN r = 1 .. Len(r)
        /\ DOMAIN s = 1 .. Len(s)
        /\ \A i \in 1 .. Len(r) : Append(r, cur[d].id)[i] = r[i]
        /\ Append(r, cur[d].id)[Len(r) + 1] = cur[d].id
    BY <2>1
  <2>5. ASSUME NEW i \in DOMAIN Append(r, cur[d].id)
        PROVE  i \in DOMAIN s /\ Append(r, cur[d].id)[i] = s[i].thread
    <3>1. CASE i \in 1 .. Len(r)
      BY <2>2, <2>4, <3>1
    <3>2. CASE i = Len(r) + 1
      BY <2>2, <2>4, <3>2
    <3> QED
      BY <2>4, <3>1, <3>2
  <2> QED
    BY <1>12, <2>2, <2>3, <2>4, <2>5 DEF ListsOK
<1>13. CASE AddThread(d)
  <2>1. pc[d] = "addId" /\ pc'[d] = "capture"
    BY <1>1, <1>13 DEF Types, AddThread
  <2>2. PICK b \in BOOLEAN : core' = [core EXCEPT ![d] = CoreWithThread(d, b)]
    BY <1>13 DEF AddThread
  <2>3. core'[d] = CoreWithThread(d, b)
    BY <1>1, <2>2 DEF Types
  <2> QED
    BY <1>12, <2>1, <2>3, IdAdded
<1>14. CASE AddThreadFails(d)
  <2>1. pc[d] \in {"add", "addId"} /\ pc'[d] = "unwind"
    BY <1>1, <1>14 DEF Types, AddThreadFails
  <2>2. CASE core' = core
    BY <1>2, <2>1, <2>2
  <2>3. CASE pc[d] = "addId" /\ core' = [core EXCEPT ![d] = CoreWithId(d)]
    <3>1. core'[d] = CoreWithId(d)
      BY <1>1, <2>3 DEF Types
    <3> QED
      BY <1>12, <2>1, <2>3, <3>1, IdAdded
  <2> QED
    BY <1>14, <2>2, <2>3 DEF AddThreadFails
<1> QED
  BY <1>3, <1>4, <1>5, <1>6, <1>7, <1>8, <1>9, <1>10, <1>11, <1>13, <1>14 DEF CallStep, OwnStep

\* Whatever else happens, what is known of the ids and lists of d stays true.
LEMMA StillIds ==
  ASSUME TInv, IdsInv, Effects, NEW d \in Dumpers, Still(d)
  PROVE  IdsOK(d)' /\ ListsOK(d)'
<1>1. IdsOK(d) /\ ListsOK(d) /\ LoopOK(d) /\ todo[d] \subseteq Threads
  BY DEF IdsInv, TInv, Types
<1>2. pc[d] = "registers" => cur[d].thread \in Threads
  BY <1>1 DEF LoopOK
<1>3. pc[d] \in CaptureLoop => todo'[d] \subseteq Started'
  BY <1>1 DEF IdsOK, Effects, Still, Started
<1>4. IdsOK(d)'
  BY <1>1, <1>2, <1>3 DEF IdsOK, Effects, Still
<1>5. ListsOK(d)'
  BY <1>1 DEF ListsOK, Still
<1> QED
  BY <1>4, <1>5

\* It holds in every state.
LEMMA IdsInvariance == Spec => [](IInv /\ TInv /\ IdsInv)
<1>1. Init => IdsInv
  BY DumperAssumption DEF Init, IdsInv, DumpersStarted, IdsOK, ListsOK, CaptureLoop, EmptyCore, SelfDump
<1>2. TInv /\ IdsInv /\ [Next]_vars => IdsInv'
  <2> SUFFICES ASSUME TInv, IdsInv, [Next]_vars PROVE IdsInv'
    OBVIOUS
  <2>1. ASSUME NEW e \in Dumpers, NewReturnsNull(e) PROVE IdsInv'
    <3>1. DumpersStarted'
      BY <2>1 DEF IdsInv, DumpersStarted, NewReturnsNull, SelfDump
    <3>2. ASSUME NEW d \in Dumpers PROVE IdsOK(d)' /\ ListsOK(d)'
      BY <2>1, NullEmpties DEF IdsOK, ListsOK, CaptureLoop, EmptyCore
    <3> QED
      BY <3>1, <3>2 DEF IdsInv
  <2>2. CASE Orderly
    <3>1. Effects
      BY <2>2, StepEffects
    <3>2. DumpersStarted'
      BY <3>1 DEF IdsInv, DumpersStarted, Effects, SelfDump
    <3>3. ASSUME NEW d \in Dumpers PROVE IdsOK(d)' /\ ListsOK(d)'
      <4>1. CASE OwnStep(d)
        BY <3>1, <4>1, OwnStepIds, OwnStepLists DEF IdsInv
      <4>2. CASE ~OwnStep(d)
        <5>1. Still(d)
          BY <2>2, <4>2, OthersStill DEF Orderly, OwnStep, Next
        <5> QED
          BY <3>1, <5>1, StillIds
      <4> QED
        BY <4>1, <4>2
    <3> QED
      BY <3>2, <3>3 DEF IdsInv
  <2> QED
    BY <2>1, <2>2 DEF Orderly
<1> QED
  BY <1>1, <1>2, TypesInvariance, PTL DEF Spec

\* What is written files every thread command under the id of its own thread,
\* whatever ends between thread_info and the two calls of thread_get_state, and
\* whichever allocation fails between the command and the id.
THEOREM RecordsAreNamed == Spec => []IdsNameTheirThreads
<1>1. TInv /\ IdsInv => IdsNameTheirThreads
  <2> SUFFICES ASSUME TInv, IdsInv, NEW d \in Dumpers,
                      pc[d] \in {"payloads", "write"} \/ core[d].ok
               PROVE  /\ Len(core[d].threadIds) = Len(core[d].commands)
                      /\ \A i \in DOMAIN core[d].commands :
                           core[d].threadIds[i] = core[d].commands[i].thread
    BY DEF IdsNameTheirThreads
  <2>1. /\ Len(core[d].commands) = Len(core[d].threadIds)
        /\ \A i \in DOMAIN core[d].threadIds :
             core[d].threadIds[i] = core[d].commands[i].thread
    BY DEF IdsInv, ListsOK
  <2>2. DOMAIN core[d].commands = DOMAIN core[d].threadIds
    <3>1. /\ core[d].commands \in Seq([thread : Threads, regs : 0 .. 1])
          /\ core[d].threadIds \in Seq(Threads \cup {NoThread})
      BY DEF TInv, Types, CoreRecord
    <3> QED
      BY <2>1, <3>1
  <2> QED
    BY <2>1, <2>2
<1> QED
  BY <1>1, IdsInvariance, PTL
-----------------------------------------------------------------------------
(* Completeness. *)

\* While the target is stopped, no thread that the call promises to record
\* comes into being.
LEMMA NoNewFrozen ==
  ASSUME IInv, IdsInv, Effects, NEW d \in Dumpers, pc[d] \in Stopped,
         suspendedThreads'[d] = suspendedThreads[d]
  PROVE  Frozen(d)' = Frozen(d) /\ (Frozen(d) \cap Live)' \subseteq Frozen(d) \cap Live
<1>1. Frozen(d)' = Frozen(d)
  BY DEF Frozen, SelfDump
<1>2. ASSUME NEW t \in Threads, t \in Frozen(d), life'[t] = "live" PROVE life[t] = "live"
  <2>1. CASE SelfDump
    <3>1. life[t] # "unborn"
      BY <1>2, <2>1 DEF Frozen, IInv, CallOK, Started, IdsInv, DumpersStarted
    <3> QED
      BY <1>2, <3>1 DEF Effects, IInv, Domains
  <2>2. CASE ~SelfDump
    <3>1. \A u \in Threads : ~Runs(u)
      BY <2>2, WhoRuns
    <3> QED
      BY <1>2, <3>1 DEF Effects
  <2> QED
    BY <2>1, <2>2
<1> QED
  BY <1>1, <1>2 DEF Live

\* A step of the call skips a thread only if that has ended.
LEMMA OwnStepComplete ==
  ASSUME IInv, TInv, IdsInv, NEW d \in Dumpers, CompleteOK(d), OwnStep(d), Effects
  PROVE  CompleteOK(d)'
<1>1. LoopOK(d) /\ Types /\ IdsOK(d)
  BY DEF TInv, IdsInv
<1> USE DEF Goto, kernelVars, CaptureLoop
<1>2. CASE pc'[d] \notin CaptureLoop \cup {"payloads", "write"}
  BY <1>2 DEF CompleteOK
<1>3. CASE Call(d) \/ Check(d) \/ SuspendTask(d) \/ EnumerateForSuspend(d) \/ ReserveForSuspend(d)
           \/ ThreadSuspend(d) \/ Push(d) \/ PushFails(d) \/ EndSuspend(d) \/ ListModules(d)
  <2>1. pc'[d] \notin CaptureLoop \cup {"payloads", "write"}
    BY <1>1, <1>3 DEF Types, Call, Check, SuspendTask, EnumerateForSuspend, Enumerated, NotEnumerated,
             ReserveForSuspend, Reserved, NotReserved, ThreadSuspend, Push, PushFails, EndSuspend, ListModules
  <2> QED
    BY <1>2, <2>1
<1>4. CASE EndWrite(d) \/ Unwind(d) \/ EndResume(d) \/ AddThreadFails(d) \/ Return(d)
  <2>1. pc'[d] \notin CaptureLoop \cup {"payloads", "write"}
    BY <1>1, <1>4 DEF Types, EndWrite, Unwind, EndResume, AddThreadFails, Return
  <2> QED
    BY <1>2, <2>1
<1>5. ASSUME NEW t \in Threads, SuspendNext(d, t) \/ ResumeNext(d, t) PROVE CompleteOK(d)'
  <2>1. pc'[d] \notin CaptureLoop \cup {"payloads", "write"}
    BY <1>1, <1>5 DEF Types, SuspendNext, ResumeNext
  <2> QED
    BY <1>2, <2>1
<1>6. ASSUME life' = life, suspendedThreads' = suspendedThreads
      PROVE  Frozen(d)' = Frozen(d) /\ Live' = Live
  BY <1>6 DEF Frozen, SelfDump, Live
<1>7. CASE EnumerateForCapture(d)
  <2>1. Frozen(d)' = Frozen(d) /\ Live' = Live
    BY <1>6, <1>7 DEF EnumerateForCapture
  <2>2. pc'[d] = "unwind" \/ (pc'[d] = "reserve2" /\ todo'[d] = Live)
    BY <1>1, <1>7 DEF EnumerateForCapture, Enumerated, NotEnumerated, Types
  <2> QED
    BY <2>1, <2>2 DEF CompleteOK
<1>14. CASE ReserveForCapture(d)
  <2>1. Frozen(d)' = Frozen(d) /\ Live' = Live
    BY <1>6, <1>14 DEF ReserveForCapture
  <2>2. pc'[d] = "unwind" \/ (pc[d] = "reserve2" /\ pc'[d] = "capture" /\ UNCHANGED <<todo, core>>)
    BY <1>1, <1>14 DEF ReserveForCapture, Reserved, NotReserved, Types
  <2> QED
    BY <2>1, <2>2 DEF CompleteOK, Recorded, Commands
<1>8. ASSUME NEW t \in Threads, ReadId(d, t) PROVE CompleteOK(d)'
  <2>1. Frozen(d)' = Frozen(d) /\ Live' = Live
    BY <1>6, <1>8 DEF ReadId
  <2>2. pc[d] = "capture" /\ pc'[d] = "registers" /\ UNCHANGED <<todo, core>>
    BY <1>1, <1>8 DEF ReadId, Types
  <2> QED
    BY <2>1, <2>2 DEF CompleteOK, Recorded, Commands
<1>9. CASE ReadRegisters(d) \/ ReadExceptionState(d)
  <2>1. Frozen(d)' = Frozen(d) /\ Live' = Live
    BY <1>6, <1>9 DEF ReadRegisters, ReadExceptionState
  <2>2. /\ pc[d] \in {"registers", "exception"} /\ UNCHANGED core
        /\ pc'[d] \in CaptureLoop \ {"addId"}
    BY <1>1, <1>9 DEF ReadRegisters, ReadExceptionState, SkipThread, Types
  <2>3. todo'[d] = todo[d] \/ (todo'[d] = todo[d] \ {cur[d].thread} /\ cur[d].thread \notin Live)
    BY <1>1, <1>9 DEF ReadRegisters, ReadExceptionState, SkipThread, Types
  <2> QED
    BY <2>1, <2>2, <2>3 DEF CompleteOK, Recorded, Commands
<1>15. CASE AddThreadCommand(d)
  <2>1. Frozen(d)' = Frozen(d) /\ Live' = Live
    BY <1>6, <1>15 DEF AddThreadCommand
  <2>2. pc[d] = "add" /\ pc'[d] = "addId" /\ todo' = todo /\ cur' = cur
    BY <1>1, <1>15 DEF AddThreadCommand, Types
  <2>3. Commands(d)' = Commands(d) \cup {[thread |-> cur[d].thread, regs |-> cur[d].regs]}
    BY <1>15, CommandAdded
  <2>4. Recorded(d)' = Recorded(d) \cup {cur[d].thread}
    <3> DEFINE C == Commands(d)
    <3> DEFINE D == Commands(d)'
    <3> DEFINE c == [thread |-> cur[d].thread, regs |-> cur[d].regs]
    <3>1. D = C \cup {c} /\ c.thread = cur[d].thread
      BY <2>3
    <3>2. Recorded(d) = {x.thread : x \in C} /\ Recorded(d)' = {x.thread : x \in D}
      BY DEF Recorded
    <3> HIDE DEF C, D, c
    <3>3. {x.thread : x \in D} = {x.thread : x \in C} \cup {c.thread}
      BY <3>1
    <3> QED
      BY <3>1, <3>2, <3>3
  <2> QED
    BY <2>1, <2>2, <2>4 DEF CompleteOK
<1>10. CASE AddThread(d)
  <2>1. Frozen(d)' = Frozen(d) /\ Live' = Live
    BY <1>6, <1>10 DEF AddThread
  <2>2. pc[d] = "addId" /\ pc'[d] = "capture" /\ todo'[d] = todo[d] \ {cur[d].thread}
    BY <1>1, <1>10 DEF AddThread, Types
  <2>3. PICK b \in BOOLEAN : core' = [core EXCEPT ![d] = CoreWithThread(d, b)]
    BY <1>10 DEF AddThread
  <2>4. core'[d].commands = core[d].commands
    BY <1>1, <2>3, IdAdded DEF Types
  <2>5. Recorded(d)' = Recorded(d)
    BY <2>4 DEF Recorded, Commands
  <2> QED
    BY <2>1, <2>2, <2>5 DEF CompleteOK
<1>11. CASE EndCapture(d)
  <2>1. Frozen(d)' = Frozen(d) /\ Live' = Live
    BY <1>6, <1>11 DEF EndCapture
  <2>2. /\ pc[d] = "capture" /\ pc'[d] \in {"payloads", "unwind"}
        /\ todo[d] = {} /\ UNCHANGED core
    BY <1>1, <1>11 DEF EndCapture, Types
  <2> QED
    BY <2>1, <2>2 DEF CompleteOK, Recorded, Commands
<1>12. CASE AddPayloads(d)
  <2>1. Frozen(d)' = Frozen(d) /\ Live' = Live
    BY <1>6, <1>12 DEF AddPayloads
  <2>2. pc[d] = "payloads" /\ pc'[d] \in {"write", "unwind"} /\ UNCHANGED core
    BY <1>1, <1>12 DEF AddPayloads, Types
  <2> QED
    BY <2>1, <2>2 DEF CompleteOK, Recorded, Commands
<1>13. ASSUME NEW t \in Threads, WriteStack(d, t) PROVE CompleteOK(d)'
  <2>1. Frozen(d)' = Frozen(d) /\ Live' = Live
    BY <1>6, <1>13 DEF WriteStack
  <2>2. pc[d] = "write" /\ pc'[d] \in {"write", "unwind"}
    BY <1>1, <1>13 DEF WriteStack, Types
  <2>3. core'[d].commands = core[d].commands
    BY <1>1, <1>13 DEF WriteStack, Types, CoreRecord
  <2> QED
    BY <2>1, <2>2, <2>3 DEF CompleteOK, Recorded, Commands
<1> QED
  BY <1>3, <1>4, <1>5, <1>7, <1>8, <1>9, <1>10, <1>11, <1>12, <1>13, <1>14, <1>15
     DEF CallStep, OwnStep

\* It holds in every state.
LEMMA CompleteInvariance == Spec => []CompleteInv
<1>1. Init => CompleteInv
  BY DEF Init, CompleteInv, CompleteOK, CaptureLoop
<1>2. IInv /\ TInv /\ IdsInv /\ CompleteInv /\ [Next]_vars => CompleteInv'
  <2> SUFFICES ASSUME IInv, TInv, IdsInv, CompleteInv, [Next]_vars, NEW d \in Dumpers PROVE CompleteOK(d)'
    BY DEF CompleteInv
  <2>1. ASSUME NEW e \in Dumpers, NewReturnsNull(e) PROVE CompleteOK(d)'
    BY <2>1, NullEmpties DEF CompleteOK, CaptureLoop
  <2>2. CASE Orderly
    <3>1. Effects /\ CompleteOK(d)
      BY <2>2, StepEffects DEF CompleteInv
    <3>2. CASE OwnStep(d)
      BY <3>1, <3>2, OwnStepComplete
    <3>3. CASE ~OwnStep(d)
      <4>1. Still(d)
        BY <2>2, <3>3, OthersStill DEF Orderly, OwnStep, Next
      <4>2. CASE pc[d] \in Stopped
        <5>1. (Frozen(d) \cap Live)' \subseteq Frozen(d) \cap Live
          BY <3>1, <4>1, <4>2, NoNewFrozen DEF Still
        <5>2. Recorded(d)' = Recorded(d) /\ todo'[d] = todo[d] /\ pc'[d] = pc[d] /\ cur'[d] = cur[d]
          BY <4>1 DEF Recorded, Commands, Still
        <5> QED
          BY <3>1, <5>1, <5>2 DEF CompleteOK
      <4>3. CASE pc[d] \notin Stopped
        BY <4>1, <4>3 DEF Still, CompleteOK, Stopped, CaptureLoop
      <4> QED
        BY <4>2, <4>3
    <3> QED
      BY <3>2, <3>3
  <2> QED
    BY <2>1, <2>2 DEF Orderly
<1> QED
  BY <1>1, <1>2, IdsInvariance, PTL DEF Spec

\* Every thread that the call stopped, and the dumping one, is in the core once
\* AddThreadsToCore is over, unless it has ended.
THEOREM NoStoppedThreadIsMissed == Spec => []NoThreadMissing
<1>1. CompleteInv => NoThreadMissing
  BY DEF CompleteInv, CompleteOK, Recorded, NoThreadMissing
<1> QED
  BY <1>1, CompleteInvariance, PTL
-----------------------------------------------------------------------------
(* Registers and stacks. *)

\* While the target is stopped, steady threads neither change nor become others.
LEMMA SteadyStays ==
  ASSUME IInv, Effects, NEW d \in Dumpers, pc[d] \in Stopped,
         suspendedThreads'[d] = suspendedThreads[d]
  PROVE  /\ Steady(d)' = Steady(d)
         /\ \A t \in Threads \cap Steady(d) : ver'[t] = ver[t]
<1>1. Steady(d)' = Steady(d)
  BY DEF Steady, SelfDump, Effects
<1>2. ASSUME NEW t \in Threads, t \in Steady(d) PROVE ver'[t] = ver[t]
  <2>1. SUFFICES ASSUME Runs(t), t # crashed PROVE FALSE
    BY DEF Effects
  <2>2. SelfDump /\ t \notin suspendedThreads[d]
    BY <2>1, WhoRuns
  <2> QED
    BY <1>2, <2>1, <2>2 DEF Steady
<1> QED
  BY <1>1, <1>2

\* What has been recorded names threads.
LEMMA RecordedThreads ==
  ASSUME TInv, NEW d \in Dumpers
  PROVE  /\ \A c \in Commands(d) : c.thread \in Threads
         /\ \A f \in core[d].file : f.thread \in Threads
         /\ pc[d] \in {"registers", "exception", "add", "addId"} => cur[d].thread \in Threads
<1>1. core[d] \in CoreRecord /\ LoopOK(d) /\ todo[d] \subseteq Threads
  BY DEF TInv, Types
<1>2. core[d].commands \in Seq([thread : Threads, regs : 0 .. 1])
  BY <1>1 DEF CoreRecord
<1>3. \A c \in Commands(d) : c \in [thread : Threads, regs : 0 .. 1]
  <2> DEFINE s == core[d].commands
  <2> DEFINE S == [thread : Threads, regs : 0 .. 1]
  <2>1. s \in Seq(S) /\ Commands(d) = {s[i] : i \in DOMAIN s}
    BY <1>2 DEF Commands
  <2> HIDE DEF s, S
  <2>2. \A i \in DOMAIN s : s[i] \in S
    BY <2>1
  <2>3. \A c \in Commands(d) : c \in S
    BY <2>1, <2>2
  <2> QED
    BY <2>3 DEF S
<1>4. \A c \in Commands(d) : c.thread \in Threads
  BY <1>3
<1> QED
  BY <1>1, <1>4 DEF CoreRecord, LoopOK

\* The steps of others.
LEMMA StillStacks ==
  ASSUME IInv, TInv, IdsInv, Effects, NEW d \in Dumpers, StacksOK(d), Still(d)
  PROVE  StacksOK(d)'
<1>1. OwnStackOK(d)'
  BY DEF OwnStackOK, StacksOK, Still, Effects, SelfDump
<1>2. EmptyOK(d)'
  BY DEF EmptyOK, StacksOK, Still, Commands
<1>3. PairsMatch(d)'
  BY DEF PairsMatch, Frozen, SelfDump, StacksOK, Still, Commands
<1>4. SteadyOK(d)'
  <2>1. CASE pc[d] \in Stopped
    <3>1. /\ Steady(d)' = Steady(d)
          /\ \A t \in Threads \cap Steady(d) : ver'[t] = ver[t]
      BY <2>1, SteadyStays DEF Still
    <3> QED
      BY <2>1, <3>1, RecordedThreads DEF SteadyOK, StacksOK, Still, Commands
  <2>2. CASE pc[d] \notin Stopped
    BY <2>2 DEF SteadyOK, Still, Stopped, Capturing, CaptureLoop
  <2> QED
    BY <2>1, <2>2
<1> QED
  BY <1>1, <1>2, <1>3, <1>4 DEF StacksOK

\* Before AddThreadsToCore and after Build, the core is empty or complete.
LEMMA OutsideStacks ==
  ASSUME TInv, NEW d \in Dumpers, StacksOK(d), Effects,
         \/ Call(d) \/ Check(d) \/ SuspendTask(d) \/ EnumerateForSuspend(d) \/ ReserveForSuspend(d)
         \/ ThreadSuspend(d) \/ Push(d) \/ PushFails(d) \/ EndSuspend(d) \/ ListModules(d)
         \/ EnumerateForCapture(d) \/ ReserveForCapture(d)
         \/ EndWrite(d) \/ Unwind(d) \/ EndResume(d) \/ Return(d) \/ AddThreadFails(d)
         \/ \E t \in Threads : SuspendNext(d, t) \/ ResumeNext(d, t)
  PROVE  StacksOK(d)'
<1>1. Types /\ crashed' = crashed
  BY DEF TInv, Effects
<1> USE DEF Goto
<1>2. ASSUME Commands(d)' = {}, core'[d].file = {}, core'[d].ranges = {},
             pc'[d] \notin {"write", "exception", "add"}
      PROVE  StacksOK(d)'
  BY <1>2 DEF StacksOK, SteadyOK, OwnStackOK, EmptyOK, PairsMatch
<1>3. CASE Call(d) \/ Check(d) \/ SuspendTask(d) \/ EnumerateForSuspend(d) \/ ReserveForSuspend(d)
           \/ ThreadSuspend(d)
  <2>1. /\ pc[d] \in {"idle", "check", "stop", "enumerate1", "reserve1", "suspending"} /\ core' = core
        /\ pc'[d] \notin {"write", "exception", "add"}
    BY <1>1, <1>3 DEF Types, Call, Check, SuspendTask, EnumerateForSuspend, Enumerated, NotEnumerated,
                      ReserveForSuspend, Reserved, NotReserved, ThreadSuspend
  <2> QED
    BY <1>2, <2>1 DEF StacksOK, EmptyOK, Capturing, CaptureLoop, Commands
<1>4. CASE Push(d) \/ PushFails(d) \/ EndSuspend(d) \/ \E t \in Threads : SuspendNext(d, t)
  <2>1. /\ pc[d] \in {"suspend", "push"} /\ core' = core
        /\ pc'[d] \notin {"write", "exception", "add"}
    BY <1>1, <1>4 DEF Types, Push, PushFails, EndSuspend, SuspendNext
  <2> QED
    BY <1>2, <2>1 DEF StacksOK, EmptyOK, Capturing, CaptureLoop, Commands
<1>5. CASE ListModules(d) \/ EnumerateForCapture(d) \/ ReserveForCapture(d)
  <2>1. /\ pc[d] \in {"modules", "enumerate2", "reserve2"} /\ core' = core
        /\ pc'[d] \notin {"write", "exception", "add"}
    BY <1>1, <1>5 DEF Types, ListModules, EnumerateForCapture, Enumerated, NotEnumerated,
                      ReserveForCapture, Reserved, NotReserved
  <2> QED
    BY <1>2, <2>1 DEF StacksOK, EmptyOK, Capturing, CaptureLoop, Commands
<1>6. CASE Return(d)
  <2>1. core'[d] = EmptyCore /\ pc'[d] = "idle"
    BY <1>1, <1>6 DEF Types, Return
  <2>2. Commands(d)' = {}
    BY <2>1 DEF Commands, EmptyCore
  <2> QED
    BY <1>2, <2>1, <2>2 DEF EmptyCore
<1>7. ASSUME Commands(d)' = Commands(d), core'[d].file = core[d].file,
             core'[d].ranges = core[d].ranges, suspendedThreads'[d] \subseteq suspendedThreads[d],
             pc'[d] \in {"unwind", "resume", "return"}
      PROVE  StacksOK(d)'
  <2>1. SteadyOK(d)' /\ EmptyOK(d)'
    BY <1>7 DEF SteadyOK, EmptyOK, Capturing, CaptureLoop
  <2>2. OwnStackOK(d)'
    BY <1>1, <1>7 DEF OwnStackOK, StacksOK, SelfDump
  <2>3. Frozen(d)' \subseteq Frozen(d)
    BY <1>7 DEF Frozen, SelfDump
  <2>4. PairsMatch(d)'
    BY <1>7, <2>3 DEF PairsMatch, StacksOK
  <2> QED
    BY <2>1, <2>2, <2>4 DEF StacksOK
<1>8. CASE Unwind(d) \/ EndResume(d) \/ \E t \in Threads : ResumeNext(d, t)
  <2>1. /\ core' = core /\ pc'[d] \in {"unwind", "resume", "return"}
        /\ suspendedThreads'[d] \subseteq suspendedThreads[d]
    BY <1>1, <1>8 DEF Types, Unwind, EndResume, ResumeNext
  <2> QED
    BY <1>7, <2>1 DEF Commands
<1>10. CASE AddThreadFails(d)
  <2>1. pc'[d] = "unwind" /\ suspendedThreads' = suspendedThreads
    BY <1>1, <1>10 DEF Types, AddThreadFails
  <2>2. core' = core \/ core'[d] = CoreWithId(d)
    BY <1>1, <1>10 DEF Types, AddThreadFails
  <2>3. /\ core'[d].commands = core[d].commands /\ core'[d].file = core[d].file
        /\ core'[d].ranges = core[d].ranges
    BY <2>2, IdAdded
  <2> QED
    BY <1>7, <2>1, <2>3 DEF Commands
<1>9. CASE EndWrite(d)
  <2>1. /\ core'[d].commands = core[d].commands /\ core'[d].file = core[d].file
        /\ core'[d].ranges = core[d].ranges
    BY <1>1, <1>9 DEF Types, EndWrite, CoreRecord
  <2>2. pc'[d] = "unwind" /\ suspendedThreads' = suspendedThreads
    BY <1>1, <1>9 DEF Types, EndWrite
  <2> QED
    BY <1>7, <2>1, <2>2 DEF Commands
<1> QED
  BY <1>3, <1>4, <1>5, <1>6, <1>8, <1>9, <1>10

\* Capturing the threads: registers of steady threads stay those they have.
LEMMA CaptureStacks ==
  ASSUME IInv, TInv, IdsInv, NEW d \in Dumpers, StacksOK(d), Effects,
         \/ ReadRegisters(d) \/ ReadExceptionState(d) \/ AddThreadCommand(d) \/ AddThread(d)
         \/ EndCapture(d) \/ AddPayloads(d)
         \/ \E t \in Threads : ReadId(d, t)
  PROVE  StacksOK(d)'
<1>1. Types /\ crashed' = crashed
  BY DEF TInv, Effects
<1> USE DEF Goto
<1>2. /\ pc[d] \in (CaptureLoop \ {"reserve2"}) \cup {"payloads"}
      /\ suspendedThreads' = suspendedThreads
      /\ pc'[d] \in (Capturing \ {"reserve2"}) \cup {"unwind"}
  <2>1. CASE ReadRegisters(d) \/ ReadExceptionState(d) \/ AddThreadCommand(d) \/ AddThread(d)
    BY <1>1, <2>1 DEF Types, ReadRegisters, ReadExceptionState, SkipThread, AddThreadCommand, AddThread,
                      CaptureLoop, Capturing
  <2>2. CASE EndCapture(d) \/ AddPayloads(d) \/ \E t \in Threads : ReadId(d, t)
    BY <1>1, <2>2 DEF Types, EndCapture, AddPayloads, ReadId, CaptureLoop, Capturing
  <2> QED
    BY <2>1, <2>2
<1>3. /\ Steady(d)' = Steady(d)
      /\ \A t \in Threads \cap Steady(d) : ver'[t] = ver[t]
  BY <1>2, SteadyStays DEF Stopped, CaptureLoop
<1>4. Steady(d) \subseteq Threads
  BY <1>1 DEF Steady, SelfDump, Types
<1>5. core[d].file = {} /\ \A c \in Commands(d) : c.thread \in Steady(d) => c.regs = ver[c.thread]
  BY <1>2 DEF StacksOK, EmptyOK, SteadyOK, CaptureLoop, Capturing
<1>6. ASSUME core'[d].file = {},
             pc'[d] \in {"exception", "add"} /\ cur'[d].thread \in Steady(d)
               => cur'[d].regs = ver'[cur'[d].thread],
             \A c \in Commands(d)' : c.thread \in Steady(d) => c.regs = ver'[c.thread],
             SelfDump /\ crashed = NoThread
               => d \notin core'[d].ranges /\ (pc'[d] = "write" => d \notin todo'[d])
      PROVE  StacksOK(d)'
  <2>1. SteadyOK(d)'
    BY <1>3, <1>6 DEF SteadyOK
  <2>2. OwnStackOK(d)'
    BY <1>1, <1>6 DEF OwnStackOK, SelfDump
  <2>3. EmptyOK(d)' /\ PairsMatch(d)'
    BY <1>2, <1>6 DEF EmptyOK, PairsMatch
  <2> QED
    BY <2>1, <2>2, <2>3 DEF StacksOK
<1>7. \A c \in Commands(d) : c.thread \in Steady(d) => c.regs = ver'[c.thread]
  BY <1>3, <1>4, <1>5
<1>8. SelfDump /\ crashed = NoThread => d \notin core[d].ranges
  BY DEF StacksOK, OwnStackOK
<1>9. CASE EndCapture(d) \/ AddPayloads(d) \/ \E t \in Threads : ReadId(d, t)
  <2>1. /\ core' = core /\ pc'[d] \notin {"exception", "add"}
        /\ pc'[d] = "write" => todo'[d] = core[d].ranges
    BY <1>1, <1>9 DEF Types, EndCapture, AddPayloads, ReadId
  <2> QED
    BY <1>5, <1>6, <1>7, <1>8, <2>1 DEF Commands
<1>10. CASE ReadRegisters(d)
  <2>1. /\ core' = core /\ pc'[d] # "write" /\ cur'[d].thread = cur[d].thread
        /\ pc'[d] \in {"exception", "add"} => cur'[d].regs = ver[cur[d].thread]
    BY <1>1, <1>10 DEF Types, ReadRegisters, SkipThread, ThreadReading
  <2> QED
    BY <1>3, <1>4, <1>5, <1>6, <1>7, <1>8, <2>1 DEF Commands
<1>11. CASE ReadExceptionState(d)
  <2>1. core' = core /\ pc'[d] # "write" /\ cur' = cur /\ ver' = ver /\ pc[d] = "exception"
    BY <1>1, <1>11 DEF Types, ReadExceptionState, SkipThread
  <2>2. cur[d].thread \in Steady(d) => cur[d].regs = ver[cur[d].thread]
    BY <2>1 DEF StacksOK, SteadyOK
  <2> QED
    BY <1>5, <1>6, <1>7, <1>8, <2>1, <2>2 DEF Commands
<1>12. CASE AddThreadCommand(d)
  <2>1. pc[d] = "add" /\ pc'[d] = "addId" /\ ver' = ver
    BY <1>1, <1>12 DEF Types, AddThreadCommand
  <2>2. /\ Commands(d)' = Commands(d) \cup {[thread |-> cur[d].thread, regs |-> cur[d].regs]}
        /\ core'[d].file = core[d].file /\ core'[d].ranges = core[d].ranges
    BY <1>12, CommandAdded
  <2>3. cur[d].thread \in Steady(d) => cur[d].regs = ver[cur[d].thread]
    BY <2>1 DEF StacksOK, SteadyOK
  <2> QED
    BY <1>5, <1>6, <1>7, <1>8, <2>1, <2>2, <2>3
<1>13. CASE AddThread(d)
  <2>1. pc[d] = "addId" /\ pc'[d] = "capture" /\ ver' = ver
    BY <1>1, <1>13 DEF Types, AddThread
  <2>2. PICK b \in BOOLEAN : core' = [core EXCEPT ![d] = CoreWithThread(d, b)]
    BY <1>13 DEF AddThread
  <2>3. core'[d] = CoreWithThread(d, b)
    BY <1>1, <2>2 DEF Types
  <2>4. /\ core'[d].commands = core[d].commands /\ core'[d].file = core[d].file
        /\ core'[d].ranges \subseteq core[d].ranges \cup {cur[d].thread}
        /\ ~IncludesStack(d, cur[d].thread) => core'[d].ranges = core[d].ranges
    BY <2>3, IdAdded
  <2>5. SelfDump /\ crashed = NoThread => d \notin core'[d].ranges
    BY <1>8, <2>4 DEF IncludesStack
  <2>6. Commands(d)' = Commands(d)
    BY <2>4 DEF Commands
  <2> QED
    BY <1>5, <1>6, <1>7, <2>1, <2>4, <2>5, <2>6
<1> QED
  BY <1>9, <1>10, <1>11, <1>12, <1>13

\* Writing a stack: it is still the one that the registers belong to.
LEMMA WriteStacks ==
  ASSUME OwnContext, crashed \in Crashes, IInv, TInv, IdsInv, NEW d \in Dumpers, StacksOK(d),
         Effects, NEW t \in Threads, WriteStack(d, t)
  PROVE  StacksOK(d)'
<1>1. Types /\ crashed' = crashed
  BY DEF TInv, Effects
<1>2. /\ pc[d] = "write" /\ t \in todo[d] /\ ver' = ver /\ suspendedThreads' = suspendedThreads
      /\ pc'[d] \in {"write", "unwind"}
  BY <1>1 DEF Types, WriteStack, Goto, kernelVars
<1>3. /\ \A c \in Commands(d) : c.thread \in Steady(d) => c.regs = ver[c.thread]
      /\ \A f \in core[d].file : f.thread \in Steady(d) => f.stack = ver[f.thread]
  BY <1>2 DEF StacksOK, SteadyOK, Capturing
<1>4. CASE core' = core
  <2>1. Steady(d)' = Steady(d) /\ Frozen(d)' = Frozen(d)
    BY <1>1, <1>2 DEF Steady, Frozen, SelfDump
  <2>2. SteadyOK(d)'
    BY <1>2, <1>3, <1>4, <2>1 DEF SteadyOK, Commands
  <2>3. todo'[d] \subseteq todo[d]
    BY <1>1 DEF WriteStack, Types
  <2>4. OwnStackOK(d)'
    BY <1>1, <1>2, <1>4, <2>3 DEF StacksOK, OwnStackOK, SelfDump
  <2>5. EmptyOK(d)' /\ PairsMatch(d)'
    BY <1>2, <1>4, <2>1 DEF StacksOK, EmptyOK, PairsMatch, Capturing, Commands
  <2> QED
    BY <2>2, <2>4, <2>5 DEF StacksOK
<1>5. CASE core' = [core EXCEPT ![d].file = @ \cup {[thread |-> t, stack |-> ver[t]]}]
  <2>1. Steady(d)' = Steady(d) /\ Frozen(d)' = Frozen(d)
    BY <1>1, <1>2 DEF Steady, Frozen, SelfDump
  <2>11. /\ core'[d].commands = core[d].commands /\ core'[d].ranges = core[d].ranges
         /\ core'[d].file = core[d].file \cup {[thread |-> t, stack |-> ver[t]]}
    BY <1>1, <1>5 DEF Types, CoreRecord
  <2>2. /\ Commands(d)' = Commands(d) /\ core'[d].ranges = core[d].ranges
        /\ core'[d].file = core[d].file \cup {[thread |-> t, stack |-> ver[t]]}
    BY <2>11 DEF Commands
  <2>3. /\ \A c \in Commands(d)' : c.thread \in Steady(d) => c.regs = ver[c.thread]
        /\ \A f \in core'[d].file : f.thread \in Steady(d) => f.stack = ver[f.thread]
    BY <1>3, <2>2
  <2>4. SteadyOK(d)'
    BY <1>2, <2>1, <2>3 DEF SteadyOK
  <2>5. SelfDump /\ crashed = NoThread => \A f \in core'[d].file : f.thread # d
    BY <1>2, <2>2 DEF StacksOK, OwnStackOK
  <2>6. todo'[d] \subseteq todo[d]
    BY <1>1 DEF WriteStack, Types
  <2>7. OwnStackOK(d)'
    BY <1>1, <1>2, <2>2, <2>5, <2>6 DEF StacksOK, OwnStackOK, SelfDump
  <2>8. EmptyOK(d)'
    BY <1>2, <2>2 DEF EmptyOK, Capturing
  <2>9. ASSUME NEW f \in core'[d].file, NEW c \in Commands(d)',
               f.thread = c.thread, c.thread \in Frozen(d)
        PROVE  f.stack = c.regs
    <3>1. CASE c.thread \in Steady(d)
      BY <2>3, <2>9, <3>1
    <3>2. CASE c.thread \notin Steady(d)
      <4>1. SelfDump /\ c.thread = d /\ crashed # d
        BY <1>1, <2>9, <3>2, RecordedThreads DEF Frozen, Steady, Types
      <4>2. crashed = NoThread
        BY <4>1 DEF OwnContext
      <4> QED
        BY <2>5, <2>9, <4>1, <4>2
    <3> QED
      BY <3>1, <3>2
  <2>10. PairsMatch(d)'
    BY <2>1, <2>9 DEF PairsMatch
  <2> QED
    BY <2>4, <2>7, <2>8, <2>10 DEF StacksOK
<1> QED
  BY <1>4, <1>5 DEF WriteStack

\* It holds in every state.
LEMMA StacksInvariance ==
  ASSUME OwnContext
  PROVE  Spec => []StacksInv
<1>1. Init => StacksInv
  <2> SUFFICES ASSUME Init PROVE StacksInv
    OBVIOUS
  <2>1. ASSUME NEW d \in Dumpers PROVE StacksOK(d)
    <3>1. pc[d] = "idle" /\ core[d] = EmptyCore
      BY DEF Init
    <3>2. Commands(d) = {}
      BY <3>1 DEF Commands, EmptyCore
    <3> QED
      BY <3>1, <3>2 DEF StacksOK, SteadyOK, OwnStackOK, EmptyOK, PairsMatch, EmptyCore, Capturing, CaptureLoop
  <2> QED
    BY <2>1 DEF Init, StacksInv
<1>2. IInv /\ TInv /\ IdsInv /\ StacksInv /\ [Next]_vars => StacksInv'
  <2> SUFFICES ASSUME IInv, TInv, IdsInv, StacksInv, [Next]_vars PROVE StacksInv'
    OBVIOUS
  <2>1. ASSUME NEW e \in Dumpers, NewReturnsNull(e) PROVE StacksInv'
    <3>1. ASSUME NEW d \in Dumpers PROVE StacksOK(d)'
      BY <2>1, NullEmpties DEF StacksOK, SteadyOK, OwnStackOK, EmptyOK, PairsMatch, EmptyCore,
                              Capturing, CaptureLoop
    <3>2. crashed' \in Crashes
      BY <2>1 DEF StacksInv, NewReturnsNull
    <3> QED
      BY <3>1, <3>2 DEF StacksInv
  <2>2. CASE Orderly
    <3>1. Effects
      BY <2>2, StepEffects
    <3>2. crashed \in Crashes /\ crashed' = crashed
      BY <3>1 DEF StacksInv, Effects
    <3>3. ASSUME NEW d \in Dumpers PROVE StacksOK(d)'
      <4>1. StacksOK(d)
        BY DEF StacksInv
      <4>2. CASE OwnStep(d)
        <5>1. CASE \E t \in Threads : WriteStack(d, t)
          BY <3>1, <3>2, <4>1, <5>1, WriteStacks
        <5>2. CASE \/ ReadRegisters(d) \/ ReadExceptionState(d) \/ AddThreadCommand(d) \/ AddThread(d)
                   \/ EndCapture(d) \/ AddPayloads(d)
                   \/ \E t \in Threads : ReadId(d, t)
          BY <3>1, <4>1, <5>2, CaptureStacks
        <5>3. CASE \/ Call(d) \/ Check(d) \/ SuspendTask(d) \/ EnumerateForSuspend(d) \/ ReserveForSuspend(d)
                   \/ ThreadSuspend(d) \/ Push(d) \/ PushFails(d) \/ EndSuspend(d) \/ ListModules(d)
                   \/ EnumerateForCapture(d) \/ ReserveForCapture(d)
                   \/ EndWrite(d) \/ Unwind(d) \/ EndResume(d) \/ Return(d) \/ AddThreadFails(d)
                   \/ \E t \in Threads : SuspendNext(d, t) \/ ResumeNext(d, t)
          BY <3>1, <4>1, <5>3, OutsideStacks
        <5> QED
          BY <4>2, <5>1, <5>2, <5>3 DEF CallStep, OwnStep
      <4>3. CASE ~OwnStep(d)
        <5>1. Still(d)
          BY <2>2, <4>3, OthersStill DEF Orderly, OwnStep, Next
        <5> QED
          BY <3>1, <4>1, <5>1, StillStacks
      <4> QED
        BY <4>2, <4>3
    <3> QED
      BY <3>2, <3>3 DEF StacksInv
  <2> QED
    BY <2>1, <2>2 DEF Orderly
<1> QED
  BY <1>1, <1>2, IdsInvariance, PTL DEF Spec

\* The stack that the core file holds for a stopped thread is the one its
\* recorded registers belong to, although Build reads it much later and other
\* calls and threads go on, provided that a process that dumps itself only
\* passes the crash context of the calling thread.
THEOREM StacksMatchRegisters ==
  ASSUME OwnContext
  PROVE  Spec => []ConsistentStacks
<1>1. StacksInv => ConsistentStacks
  BY DEF StacksInv, StacksOK, PairsMatch, ConsistentStacks
<1> QED
  BY <1>1, StacksInvariance, PTL
=============================================================================
