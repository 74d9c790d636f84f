-------------------------- MODULE DumpSessionProofs --------------------------
(***************************************************************************)
(* For any number of threads and concurrent calls: suspend counts balance  *)
(* unless push_back throws after a thread has been suspended, the rights   *)
(* for thread ports are all owned unless the vector for them cannot be     *)
(* allocated, and on every path no count is lowered below zero.            *)
(***************************************************************************)
EXTENDS DumpSession, FiniteSetTheorems, TLAPS

Started == {t \in Threads : life[t] # "unborn"}

\* The variables the argument is about are functions on the right domains.
Domains ==
  /\ DOMAIN life = Threads /\ susp \in [Threads -> Nat]
  /\ \A t \in Threads : life[t] \in {"unborn", "live", "dead"}
  /\ taskSusp \in Nat
  /\ DOMAIN pc = Dumpers /\ DOMAIN todo = Dumpers
  /\ DOMAIN cur = Dumpers /\ DOMAIN suspendedThreads = Dumpers

\* Where a call is tells which threads it can have suspended.
CallOK(d) ==
  /\ pc[d] \in Labels
  /\ suspendedThreads[d] \subseteq Started
  /\ pc[d] \in {"idle", "check", "stop", "enumerate1", "reserve1", "return", "gone"}
       => suspendedThreads[d] = {}
  /\ pc[d] \in {"suspending", "push"} => cur[d].thread \in todo[d]
  /\ pc[d] \in {"reserve1", "suspend", "suspending", "push"}
       => todo[d] \subseteq Threads \ suspendedThreads[d]
  /\ pc[d] = "push" => cur[d].thread \in Started
  /\ pc[d] = "resume" => todo[d] \subseteq suspendedThreads[d]
  /\ pc[d] = "stop" => ~SelfDump
  /\ pc[d] \in {"enumerate1", "reserve1", "suspend", "suspending", "push"} => SelfDump
  /\ ~SelfDump => suspendedThreads[d] = {}

Holders(t) == {d \in Dumpers : t \in Held(d)}

TaskHolders == {d \in Dumpers : HoldsTask(d)}

\* The count that the application and the calls that hold t account for.
Owed(t) == BaseCount(t) + Cardinality(Holders(t))

\* No count is too low; it can be too high only because a push_back has thrown.
CountOK(t) == susp[t] >= Owed(t) /\ ("push" \notin FailingAllocations => susp[t] = Owed(t))

\* Also for a thread that has not started, or AppStart could break the balance.
CountsMatch ==
  /\ \A t \in Threads : life[t] # "dead" => CountOK(t)
  /\ taskSusp = Cardinality(TaskHolders)

IInv == Domains /\ (\A d \in Dumpers : CallOK(d)) /\ CountsMatch

-----------------------------------------------------------------------------
\* Entering and leaving a set of dumpers changes its size by one.
LEMMA SetGrows ==
  ASSUME NEW S, S \subseteq Dumpers, NEW d \in Dumpers, d \notin S
  PROVE  Cardinality(S \cup {d}) = Cardinality(S) + 1 /\ Cardinality(S) \in Nat
<1>1. IsFiniteSet(S)
  BY DumperAssumption, FS_Subset
<1> QED
  BY <1>1, FS_AddElement, FS_CardinalityType

\* The same for leaving it.
LEMMA SetShrinks ==
  ASSUME NEW S, S \subseteq Dumpers, NEW d \in S
  PROVE  Cardinality(S \ {d}) = Cardinality(S) - 1 /\ Cardinality(S) \in Nat \ {0}
<1>1. IsFiniteSet(S)
  BY DumperAssumption, FS_Subset
<1>2. Cardinality(S) \in Nat /\ Cardinality(S) # 0
  BY <1>1, FS_CardinalityType, FS_EmptySet
<1> QED
  BY <1>1, <1>2, FS_RemoveElement

\* At the beginning nobody holds a thread.
LEMMA InitEstablishes == Init => IInv
<1> SUFFICES ASSUME Init PROVE IInv
  OBVIOUS
<1>1. Domains
  BY DEF Init, Domains, BaseCount
<1>2. ASSUME NEW d \in Dumpers PROVE CallOK(d)
  BY DEF Init, CallOK, Labels
<1>3. \A t \in Threads : Holders(t) = {}
  BY DEF Init, Holders, Held
<1>4. TaskHolders = {}
  BY DEF Init, TaskHolders, HoldsTask, Stopped
<1>5. CountsMatch
  <2>1. Cardinality({}) = 0
    BY FS_EmptySet
  <2>2. \A t \in Threads : susp[t] = BaseCount(t) /\ BaseCount(t) \in Nat
    BY DEF Init, BaseCount
  <2>3. ASSUME NEW t \in Threads PROVE CountOK(t)
    BY <1>3, <2>1, <2>2 DEF CountOK, Owed
  <2>4. taskSusp = Cardinality(TaskHolders)
    BY <1>4, <2>1 DEF Init
  <2> QED
    BY <2>3, <2>4 DEF CountsMatch
<1> QED
  BY <1>1, <1>2, <1>5 DEF IInv

\* The application changes no suspend count and enters no call.
LEMMA AppPreserves ==
  ASSUME IInv, AppNext
  PROVE  IInv'
<1>1. /\ UNCHANGED <<susp, taskSusp, callVars>>
      /\ DOMAIN life' = DOMAIN life
      /\ \A t \in Threads : life'[t] \in {"unborn", "live", "dead"}
      /\ \A t \in Threads : life[t] # "unborn" => life'[t] # "unborn"
      /\ \A t \in Threads : life'[t] # "dead" => life[t] # "dead"
  BY DEF AppNext, AppStep, AppStart, AppEnd, AppMalloc, AppMallocReturns, IInv, Domains
<1>2. Domains'
  BY <1>1 DEF IInv, Domains, callVars
<1>3. ASSUME NEW d \in Dumpers PROVE CallOK(d)'
  BY <1>1 DEF IInv, CallOK, Started, callVars
<1>4. /\ \A t \in Threads : Holders(t)' = Holders(t)
      /\ TaskHolders' = TaskHolders
  BY <1>1 DEF Holders, Held, TaskHolders, HoldsTask, callVars
<1>5. CountsMatch'
  BY <1>1, <1>4 DEF IInv, CountsMatch, CountOK, Owed, BaseCount
<1> QED
  BY <1>2, <1>3, <1>5 DEF IInv
-----------------------------------------------------------------------------
\* A step of d leaves the other calls alone.
Framed(d) ==
  /\ life' = life
  /\ DOMAIN pc' = Dumpers /\ DOMAIN todo' = Dumpers
  /\ DOMAIN cur' = Dumpers /\ DOMAIN suspendedThreads' = Dumpers
  /\ \A e \in Dumpers \ {d} :
       /\ pc'[e] = pc[e] /\ todo'[e] = todo[e]
       /\ cur'[e] = cur[e] /\ suspendedThreads'[e] = suspendedThreads[e]

\* Such a step keeps what is known of the other calls.
LEMMA OthersKept ==
  ASSUME IInv, NEW d \in Dumpers, Framed(d), CallOK(d)'
  PROVE  /\ \A e \in Dumpers : CallOK(e)'
         /\ \A e \in Dumpers \ {d} : Held(e)' = Held(e)
         /\ \A e \in Dumpers \ {d} : HoldsTask(e)' <=> HoldsTask(e)
<1>1. Started' = Started
  BY DEF Framed, Started
<1>2. ASSUME NEW e \in Dumpers \ {d} PROVE CallOK(e)'
  BY <1>1 DEF IInv, CallOK, Framed
<1>3. ASSUME NEW e \in Dumpers \ {d} PROVE Held(e)' = Held(e)
  BY DEF Held, Framed
<1>4. ASSUME NEW e \in Dumpers \ {d} PROVE HoldsTask(e)' <=> HoldsTask(e)
  BY DEF HoldsTask, Framed
<1> QED
  BY <1>2, <1>3, <1>4

\* A step that neither suspends nor resumes anything.
Quiet(d) ==
  /\ susp' = susp /\ taskSusp' = taskSusp
  /\ Held(d)' = Held(d)
  /\ HoldsTask(d)' <=> HoldsTask(d)

\* It keeps the invariant.
LEMMA QuietPreserves ==
  ASSUME IInv, NEW d \in Dumpers, Framed(d), CallOK(d)', Quiet(d)
  PROVE  IInv'
<1>1. Domains'
  BY DEF IInv, Domains, Framed, Quiet
<1>2. \A t \in Threads : Holders(t)' = Holders(t)
  BY OthersKept DEF Holders, Quiet
<1>3. TaskHolders' = TaskHolders
  BY OthersKept DEF TaskHolders, Quiet
<1>4. CountsMatch'
  BY <1>2, <1>3 DEF IInv, CountsMatch, CountOK, Owed, BaseCount, Framed, Quiet
<1> QED
  BY <1>1, <1>4, OthersKept DEF IInv
-----------------------------------------------------------------------------
(* The steps of a call that neither suspend nor resume a thread. *)

\* Entering the call and finding out whom to stop.
LEMMA BeginPreserves ==
  ASSUME IInv, NEW d \in Dumpers,
         EnterZone(d) \/ Call(d) \/ Check(d) \/ EnumerateForSuspend(d) \/ ReserveForSuspend(d)
  PROVE  IInv'
<1>1. Framed(d)
  BY DEF IInv, Domains, Framed, EnterZone, Call, Check, EnumerateForSuspend, Enumerated,
         NotEnumerated, ReserveForSuspend, Reserved, NotReserved, Goto, kernelVars
<1>2. Started' = Started /\ Live \subseteq Threads
  BY <1>1 DEF Framed, Started, Live
<1>3. CASE Call(d)
  <2>1. CallOK(d)' /\ Quiet(d)
    BY <1>2, <1>3 DEF IInv, Domains, CallOK, Quiet, Held, HoldsTask, Stopped, Call, Goto,
                      kernelVars, Labels
  <2> QED
    BY <1>1, <2>1, QuietPreserves
<1>4. CASE Check(d)
  <2>1. CallOK(d)' /\ Quiet(d)
    BY <1>2, <1>4 DEF IInv, Domains, CallOK, Quiet, Held, HoldsTask, Stopped, Check, Goto,
                      kernelVars, Labels
  <2> QED
    BY <1>1, <2>1, QuietPreserves
<1>5. CASE EnumerateForSuspend(d)
  <2>1. CallOK(d)' /\ Quiet(d)
    BY <1>2, <1>5 DEF IInv, Domains, CallOK, Quiet, Held, HoldsTask, Stopped,
                      EnumerateForSuspend, Enumerated, NotEnumerated, Goto, Labels
  <2> QED
    BY <1>1, <2>1, QuietPreserves
<1>6. CASE ReserveForSuspend(d)
  <2>1. CallOK(d)' /\ Quiet(d)
    BY <1>2, <1>6 DEF IInv, Domains, CallOK, Quiet, Held, HoldsTask, Stopped,
                      ReserveForSuspend, Reserved, NotReserved, Goto, Labels
  <2> QED
    BY <1>1, <2>1, QuietPreserves
<1>7. CASE EnterZone(d)
  <2>1. CallOK(d)' /\ Quiet(d)
    BY <1>2, <1>7 DEF IInv, CallOK, Quiet, Held, HoldsTask, EnterZone, kernelVars
  <2> QED
    BY <1>1, <2>1, QuietPreserves
<1> QED
  BY <1>3, <1>4, <1>5, <1>6, <1>7

\* The loop of SuspendAllThreadsExceptCurrentOne around thread_suspend: moving a
\* right into suspendedThreads does not change who is held.
LEMMA SuspendLoopPreserves ==
  ASSUME IInv, NEW d \in Dumpers,
         (\E t \in Threads : SuspendNext(d, t)) \/ Push(d) \/ EndSuspend(d)
  PROVE  IInv'
<1>1. ASSUME NEW t \in Threads, SuspendNext(d, t)
      PROVE  IInv'
  <2>1. Framed(d)
    BY <1>1 DEF IInv, Domains, Framed, SuspendNext, NothingRead, Goto, kernelVars
  <2>2. Started' = Started /\ Live \subseteq Threads
    BY <2>1 DEF Framed, Started, Live
  <2>3. CallOK(d)'
    BY <1>1, <2>2 DEF IInv, Domains, CallOK, Labels, SuspendNext, NothingRead, Goto, kernelVars
  <2>4. Quiet(d)
    BY <1>1 DEF IInv, Domains, CallOK, Quiet, Held, HoldsTask, Stopped, SuspendNext, NothingRead, Goto, kernelVars
  <2> QED
    BY <2>1, <2>3, <2>4, QuietPreserves
<1>2. CASE Push(d)
  <2>1. Framed(d)
    BY <1>2 DEF IInv, Domains, Framed, Push, Goto, kernelVars
  <2>2. Started' = Started /\ Live \subseteq Threads
    BY <2>1 DEF Framed, Started, Live
  <2>3. CallOK(d)'
    BY <1>2, <2>2 DEF IInv, Domains, CallOK, Labels, Push, Goto, kernelVars
  <2>4. Quiet(d)
    BY <1>2 DEF IInv, Domains, CallOK, Quiet, Held, HoldsTask, Stopped, Push, Goto, kernelVars
  <2> QED
    BY <2>1, <2>3, <2>4, QuietPreserves
<1>3. CASE EndSuspend(d)
  <2>1. Framed(d)
    BY <1>3 DEF IInv, Domains, Framed, EndSuspend, ReleaseRefs, Goto
  <2>2. Started' = Started /\ Live \subseteq Threads
    BY <2>1 DEF Framed, Started, Live
  <2>3. CallOK(d)'
    BY <1>3, <2>2 DEF IInv, Domains, CallOK, Labels, EndSuspend, ReleaseRefs, Goto
  <2>4. Quiet(d)
    BY <1>3 DEF IInv, Domains, CallOK, Quiet, Held, HoldsTask, Stopped, EndSuspend, ReleaseRefs, Goto
  <2> QED
    BY <2>1, <2>3, <2>4, QuietPreserves
<1> QED
  BY <1>1, <1>2, <1>3

\* AddThreadsToCore only looks at the threads.
LEMMA CapturePreserves ==
  ASSUME IInv, NEW d \in Dumpers,
         ListModules(d) \/ EnumerateForCapture(d) \/ ReserveForCapture(d)
         \/ (\E t \in Threads : ReadId(d, t)) \/ ReadRegisters(d) \/ ReadExceptionState(d)
         \/ AddThreadCommand(d) \/ AddThread(d) \/ AddThreadFails(d) \/ EndCapture(d)
  PROVE  IInv'
<1>1. CASE EnumerateForCapture(d)
  <2>1. Framed(d)
    BY <1>1 DEF IInv, Domains, Framed, EnumerateForCapture, Enumerated, NotEnumerated, Goto
  <2>2. Started' = Started /\ Live \subseteq Threads
    BY <2>1 DEF Framed, Started, Live
  <2>3. CallOK(d)'
    BY <1>1, <2>2 DEF IInv, Domains, CallOK, Labels, EnumerateForCapture, Enumerated, NotEnumerated, Goto
  <2>4. Quiet(d)
    BY <1>1 DEF IInv, Domains, CallOK, Quiet, Held, HoldsTask, Stopped, EnumerateForCapture, Enumerated, NotEnumerated, Goto
  <2> QED
    BY <2>1, <2>3, <2>4, QuietPreserves
<1>2. ASSUME NEW t \in Threads, ReadId(d, t)
      PROVE  IInv'
  <2>1. Framed(d)
    BY <1>2 DEF IInv, Domains, Framed, ReadId, Goto, kernelVars
  <2>2. Started' = Started /\ Live \subseteq Threads
    BY <2>1 DEF Framed, Started, Live
  <2>3. CallOK(d)'
    BY <1>2, <2>2 DEF IInv, Domains, CallOK, Labels, ReadId, Goto, kernelVars
  <2>4. Quiet(d)
    BY <1>2 DEF IInv, Domains, CallOK, Quiet, Held, HoldsTask, Stopped, ReadId, Goto, kernelVars
  <2> QED
    BY <2>1, <2>3, <2>4, QuietPreserves
<1>3. CASE ReadRegisters(d)
  <2>1. Framed(d)
    BY <1>3 DEF IInv, Domains, Framed, ReadRegisters, SkipThread, Goto
  <2>2. Started' = Started /\ Live \subseteq Threads
    BY <2>1 DEF Framed, Started, Live
  <2>3. CallOK(d)'
    BY <1>3, <2>2 DEF IInv, Domains, CallOK, Labels, ReadRegisters, SkipThread, Goto
  <2>4. Quiet(d)
    BY <1>3 DEF IInv, Domains, CallOK, Quiet, Held, HoldsTask, Stopped, ReadRegisters, SkipThread, Goto
  <2> QED
    BY <2>1, <2>3, <2>4, QuietPreserves
<1>4. CASE ReadExceptionState(d)
  <2>1. Framed(d)
    BY <1>4 DEF IInv, Domains, Framed, ReadExceptionState, SkipThread, Goto
  <2>2. Started' = Started /\ Live \subseteq Threads
    BY <2>1 DEF Framed, Started, Live
  <2>3. CallOK(d)'
    BY <1>4, <2>2 DEF IInv, Domains, CallOK, Labels, ReadExceptionState, SkipThread, Goto
  <2>4. Quiet(d)
    BY <1>4 DEF IInv, Domains, CallOK, Quiet, Held, HoldsTask, Stopped, ReadExceptionState, SkipThread, Goto
  <2> QED
    BY <2>1, <2>3, <2>4, QuietPreserves
<1>5. CASE AddThread(d)
  <2>1. Framed(d)
    BY <1>5 DEF IInv, Domains, Framed, AddThread, Goto, kernelVars
  <2>2. Started' = Started /\ Live \subseteq Threads
    BY <2>1 DEF Framed, Started, Live
  <2>3. CallOK(d)'
    BY <1>5, <2>2 DEF IInv, Domains, CallOK, Labels, AddThread, Goto, kernelVars
  <2>4. Quiet(d)
    BY <1>5 DEF IInv, Domains, CallOK, Quiet, Held, HoldsTask, Stopped, AddThread, Goto, kernelVars
  <2> QED
    BY <2>1, <2>3, <2>4, QuietPreserves
<1>6. CASE AddThreadFails(d)
  <2>1. Framed(d)
    BY <1>6 DEF IInv, Domains, Framed, AddThreadFails, ReleaseRefs, Goto
  <2>2. Started' = Started /\ Live \subseteq Threads
    BY <2>1 DEF Framed, Started, Live
  <2>3. CallOK(d)'
    BY <1>6, <2>2 DEF IInv, Domains, CallOK, Labels, AddThreadFails, ReleaseRefs, Goto
  <2>4. Quiet(d)
    BY <1>6 DEF IInv, Domains, CallOK, Quiet, Held, HoldsTask, Stopped, AddThreadFails, ReleaseRefs, Goto
  <2> QED
    BY <2>1, <2>3, <2>4, QuietPreserves
<1>7. CASE EndCapture(d)
  <2>1. Framed(d)
    BY <1>7 DEF IInv, Domains, Framed, EndCapture, ReleaseRefs, Goto
  <2>2. Started' = Started /\ Live \subseteq Threads
    BY <2>1 DEF Framed, Started, Live
  <2>3. CallOK(d)'
    BY <1>7, <2>2 DEF IInv, Domains, CallOK, Labels, EndCapture, ReleaseRefs, Goto
  <2>4. Quiet(d)
    BY <1>7 DEF IInv, Domains, CallOK, Quiet, Held, HoldsTask, Stopped, EndCapture, ReleaseRefs, Goto
  <2> QED
    BY <2>1, <2>3, <2>4, QuietPreserves
<1>8. CASE ListModules(d)
  <2>1. Framed(d)
    BY <1>8 DEF IInv, Domains, Framed, ListModules, Goto
  <2>2. Started' = Started /\ Live \subseteq Threads
    BY <2>1 DEF Framed, Started, Live
  <2>3. CallOK(d)'
    BY <1>8, <2>2 DEF IInv, Domains, CallOK, Labels, ListModules, Goto
  <2>4. Quiet(d)
    BY <1>8 DEF IInv, Domains, CallOK, Quiet, Held, HoldsTask, Stopped, ListModules, Goto
  <2> QED
    BY <2>1, <2>3, <2>4, QuietPreserves
<1>9. CASE ReserveForCapture(d)
  <2>1. Framed(d)
    BY <1>9 DEF IInv, Domains, Framed, ReserveForCapture, Reserved, NotReserved, Goto
  <2>2. Started' = Started /\ Live \subseteq Threads
    BY <2>1 DEF Framed, Started, Live
  <2>3. CallOK(d)'
    BY <1>9, <2>2 DEF IInv, Domains, CallOK, Labels, ReserveForCapture, Reserved, NotReserved, Goto
  <2>4. Quiet(d)
    BY <1>9 DEF IInv, Domains, CallOK, Quiet, Held, HoldsTask, Stopped, ReserveForCapture, Reserved, NotReserved, Goto
  <2> QED
    BY <2>1, <2>3, <2>4, QuietPreserves
<1>10. CASE AddThreadCommand(d)
  <2>1. Framed(d)
    BY <1>10 DEF IInv, Domains, Framed, AddThreadCommand, Goto
  <2>2. Started' = Started /\ Live \subseteq Threads
    BY <2>1 DEF Framed, Started, Live
  <2>3. CallOK(d)'
    BY <1>10, <2>2 DEF IInv, Domains, CallOK, Labels, AddThreadCommand, Goto
  <2>4. Quiet(d)
    BY <1>10 DEF IInv, Domains, CallOK, Quiet, Held, HoldsTask, Stopped, AddThreadCommand, Goto
  <2> QED
    BY <2>1, <2>3, <2>4, QuietPreserves
<1> QED
  BY <1>1, <1>2, <1>3, <1>4, <1>5, <1>6, <1>7, <1>8, <1>9, <1>10

\* Writing the file, and the end of the call once every thread is resumed.
LEMMA WritePreserves ==
  ASSUME IInv, NEW d \in Dumpers,
         AddPayloads(d) \/ (\E t \in Threads : WriteStack(d, t)) \/ EndWrite(d) \/ EndResume(d)
         \/ Return(d)
  PROVE  IInv'
<1>1. CASE AddPayloads(d)
  <2>1. Framed(d)
    BY <1>1 DEF IInv, Domains, Framed, AddPayloads, Goto, kernelVars
  <2>2. Started' = Started /\ Live \subseteq Threads
    BY <2>1 DEF Framed, Started, Live
  <2>3. CallOK(d)'
    BY <1>1, <2>2 DEF IInv, Domains, CallOK, Labels, AddPayloads, Goto, kernelVars
  <2>4. Quiet(d)
    BY <1>1 DEF IInv, Domains, CallOK, Quiet, Held, HoldsTask, Stopped, AddPayloads, Goto, kernelVars
  <2> QED
    BY <2>1, <2>3, <2>4, QuietPreserves
<1>2. ASSUME NEW t \in Threads, WriteStack(d, t)
      PROVE  IInv'
  <2>1. Framed(d)
    BY <1>2 DEF IInv, Domains, Framed, WriteStack, Goto, kernelVars
  <2>2. Started' = Started /\ Live \subseteq Threads
    BY <2>1 DEF Framed, Started, Live
  <2>3. CallOK(d)'
    BY <1>2, <2>2 DEF IInv, Domains, CallOK, Labels, WriteStack, Goto, kernelVars
  <2>4. Quiet(d)
    BY <1>2 DEF IInv, Domains, CallOK, Quiet, Held, HoldsTask, Stopped, WriteStack, Goto, kernelVars
  <2> QED
    BY <2>1, <2>3, <2>4, QuietPreserves
<1>3. CASE EndWrite(d)
  <2>1. Framed(d)
    BY <1>3 DEF IInv, Domains, Framed, EndWrite, Goto, kernelVars
  <2>2. Started' = Started /\ Live \subseteq Threads
    BY <2>1 DEF Framed, Started, Live
  <2>3. CallOK(d)'
    BY <1>3, <2>2 DEF IInv, Domains, CallOK, Labels, EndWrite, Goto, kernelVars
  <2>4. Quiet(d)
    BY <1>3 DEF IInv, Domains, CallOK, Quiet, Held, HoldsTask, Stopped, EndWrite, Goto, kernelVars
  <2> QED
    BY <2>1, <2>3, <2>4, QuietPreserves
<1>4. CASE EndResume(d)
  <2>1. Framed(d)
    BY <1>4 DEF IInv, Domains, Framed, EndResume, Goto
  <2>2. Started' = Started /\ Live \subseteq Threads
    BY <2>1 DEF Framed, Started, Live
  <2>3. CallOK(d)'
    BY <1>4, <2>2 DEF IInv, Domains, CallOK, Labels, EndResume, Goto
  <2>4. Quiet(d)
    BY <1>4 DEF IInv, Domains, CallOK, Quiet, Held, HoldsTask, Stopped, EndResume, Goto
  <2> QED
    BY <2>1, <2>3, <2>4, QuietPreserves
<1>5. CASE Return(d)
  <2>1. Framed(d)
    BY <1>5 DEF IInv, Domains, Framed, Return, Goto, kernelVars
  <2>2. Started' = Started /\ Live \subseteq Threads
    BY <2>1 DEF Framed, Started, Live
  <2>3. CallOK(d)'
    BY <1>5, <2>2 DEF IInv, Domains, CallOK, Labels, Return, Goto, kernelVars
  <2>4. Quiet(d)
    BY <1>5 DEF IInv, Domains, CallOK, Quiet, Held, HoldsTask, Stopped, Return, Goto, kernelVars
  <2> QED
    BY <2>1, <2>3, <2>4, QuietPreserves
<1> QED
  BY <1>1, <1>2, <1>3, <1>4, <1>5
-----------------------------------------------------------------------------
(* The steps that suspend and resume. *)

\* thread_suspend: the call becomes a holder of the thread it has stopped.
LEMMA ThreadSuspendPreserves ==
  ASSUME IInv, NEW d \in Dumpers, ThreadSuspend(d)
  PROVE  IInv'
<1>1. PICK t \in Threads :
        /\ t = cur[d].thread /\ t \in todo[d] /\ t \notin suspendedThreads[d]
        /\ pc[d] = "suspending"
  BY DEF IInv, CallOK, ThreadSuspend
<1>2. Framed(d)
  BY DEF IInv, Domains, Framed, ThreadSuspend, Goto
<1>3. Started' = Started
  BY <1>2 DEF Framed, Started
<1>4. CallOK(d)'
  BY <1>1, <1>3 DEF IInv, Domains, CallOK, Labels, ThreadSuspend, Goto, Started
<1>5. CASE life[t] # "live"
  <2>1. Quiet(d)
    BY <1>1, <1>5 DEF IInv, Domains, Quiet, Held, HoldsTask, Stopped, ThreadSuspend, Goto
  <2> QED
    BY <1>2, <1>4, <2>1, QuietPreserves
<1>6. CASE life[t] = "live"
  <2>1. /\ susp' = [susp EXCEPT ![t] = @ + 1] /\ taskSusp' = taskSusp
        /\ pc'[d] = "push" /\ cur' = cur /\ suspendedThreads' = suspendedThreads
    BY <1>1, <1>6 DEF IInv, Domains, ThreadSuspend, Goto
  <2>2. Held(d)' = Held(d) \cup {t} /\ t \notin Held(d)
    BY <1>1, <2>1 DEF Held
  <2>3. Holders(t)' = Holders(t) \cup {d} /\ d \notin Holders(t)
    BY <1>2, <1>4, <2>2, OthersKept DEF Holders
  <2>4. \A u \in Threads \ {t} : Holders(u)' = Holders(u)
    BY <1>2, <1>4, <2>2, OthersKept DEF Holders
  <2>5. TaskHolders' = TaskHolders
    BY <1>1, <1>2, <1>4, <2>1, OthersKept DEF TaskHolders, HoldsTask, Stopped
  <2>6. Cardinality(Holders(t)') = Cardinality(Holders(t)) + 1
    BY <2>3, SetGrows DEF Holders
  <2>7. Domains'
    BY <1>1, <1>2, <2>1 DEF IInv, Domains, Framed
  <2>8. ASSUME NEW u \in Threads, life'[u] # "dead"
        PROVE  CountOK(u)'
    <3>1. CountOK(u) /\ susp[u] \in Nat
      BY <1>2, <2>8 DEF IInv, Domains, CountsMatch, Framed
    <3>2. BaseCount(u) \in Nat
      BY DEF BaseCount
    <3>3. Cardinality(Holders(t)) \in Nat
      BY <2>3, SetGrows DEF Holders
    <3>4. CASE u = t
      BY <1>1, <2>1, <2>6, <3>1, <3>2, <3>3, <3>4 DEF IInv, Domains, CountOK, Owed, BaseCount
    <3>5. CASE u # t
      BY <2>1, <2>4, <3>1, <3>5 DEF IInv, Domains, CountOK, Owed, BaseCount
    <3> QED
      BY <3>4, <3>5
  <2>9. CountsMatch'
    BY <2>1, <2>5, <2>8 DEF IInv, CountsMatch, BaseCount
  <2> QED
    BY <1>2, <1>4, <2>7, <2>9, OthersKept DEF IInv
<1> QED
  BY <1>5, <1>6

\* thread_resume: the call stops being a holder.  A thread that has ended no
\* longer has a count to lower.
LEMMA ResumePreserves ==
  ASSUME IInv, NEW d \in Dumpers, NEW t \in Threads, ResumeNext(d, t)
  PROVE  IInv'
<1>1. /\ t \in Started /\ t \in Held(d) /\ pc[d] = "resume" /\ pc' = pc
      /\ Held(d)' = Held(d) \ {t}
  BY DEF IInv, Domains, CallOK, ResumeNext, Held
<1>2. Framed(d)
  BY DEF IInv, Domains, Framed, ResumeNext
<1>3. Started' = Started
  BY <1>2 DEF Framed, Started
<1>4. CallOK(d)'
  BY <1>1, <1>3 DEF IInv, Domains, CallOK, Labels, ResumeNext
<1>5. Holders(t)' = Holders(t) \ {d} /\ d \in Holders(t)
  BY <1>1, <1>2, <1>4, OthersKept DEF Holders
<1>6. \A u \in Threads \ {t} : Holders(u)' = Holders(u)
  BY <1>1, <1>2, <1>4, OthersKept DEF Holders
<1>7. TaskHolders' = TaskHolders /\ taskSusp' = taskSusp
  BY <1>1 DEF TaskHolders, HoldsTask, ResumeNext
<1>8. Cardinality(Holders(t)') = Cardinality(Holders(t)) - 1 /\ Cardinality(Holders(t)) \in Nat \ {0}
  BY <1>5, SetShrinks DEF Holders
<1>9. life[t] = "live" => susp[t] > 0
  <2>1. BaseCount(t) \in Nat
    BY DEF BaseCount
  <2> QED
    BY <1>8, <2>1 DEF IInv, Domains, CountsMatch, CountOK, Owed
<1>10. Domains'
  BY <1>2, <1>7, <1>9 DEF IInv, Domains, Framed, ResumeNext, CountAfterResume
<1>11. ASSUME NEW u \in Threads, life'[u] # "dead"
       PROVE  CountOK(u)'
  <2>1. CountOK(u) /\ susp[u] \in Nat
    BY <1>2, <1>11 DEF IInv, Domains, CountsMatch, Framed
  <2>2. BaseCount(u) \in Nat
    BY DEF BaseCount
  <2>3. CASE u = t
    <3>1. life[t] # "dead" /\ life[t] # "unborn"
      BY <1>1, <1>2, <1>11, <2>3 DEF Started, Framed
    <3>2. CASE life[t] = "live"
      BY <1>8, <2>1, <2>2, <2>3, <3>2 DEF ResumeNext, CountAfterResume, IInv, Domains,
                                         CountOK, Owed, BaseCount
    <3>3. life[t] = "live"
      BY <3>1 DEF IInv, Domains
    <3> QED
      BY <3>2, <3>3
  <2>4. CASE u # t
    BY <1>6, <2>1, <2>4 DEF ResumeNext, IInv, Domains, CountOK, Owed, BaseCount
  <2> QED
    BY <2>3, <2>4
<1>12. CountsMatch'
  BY <1>7, <1>11 DEF IInv, CountsMatch, BaseCount
<1> QED
  BY <1>2, <1>4, <1>10, <1>12, OthersKept DEF IInv

\* A change of one call's hold on a foreign task, with taskSusp going along.
LEMMA TaskStepPreserves ==
  ASSUME IInv, NEW d \in Dumpers, Framed(d), CallOK(d)',
         susp' = susp, Held(d)' = Held(d), taskSusp' = Cardinality(TaskHolders')
  PROVE  IInv'
<1>1. taskSusp' \in Nat
  <2>1. IsFiniteSet(TaskHolders')
    BY DumperAssumption, FS_Subset DEF TaskHolders
  <2> QED
    BY <2>1, FS_CardinalityType
<1>2. Domains'
  BY <1>1 DEF IInv, Domains, Framed
<1>3. \A t \in Threads : Holders(t)' = Holders(t)
  BY OthersKept DEF Holders
<1>4. CountsMatch'
  BY <1>3 DEF IInv, CountsMatch, CountOK, Owed, BaseCount, Framed
<1> QED
  BY <1>2, <1>4, OthersKept DEF IInv

\* task_suspend.
LEMMA SuspendTaskPreserves ==
  ASSUME IInv, NEW d \in Dumpers, SuspendTask(d)
  PROVE  IInv'
<1>1. Framed(d) /\ pc[d] = "stop" /\ ~SelfDump /\ ~HoldsTask(d)
  BY DEF IInv, Domains, CallOK, Framed, SuspendTask, Goto, HoldsTask, Stopped
<1>2. Started' = Started
  BY <1>1 DEF Framed, Started
<1>3. CallOK(d)'
  BY <1>1, <1>2 DEF IInv, Domains, CallOK, Labels, SuspendTask, Goto
<1>4. Held(d)' = Held(d) /\ susp' = susp
  BY <1>1 DEF IInv, Domains, Held, SuspendTask, Goto
<1>5. CASE pc'[d] = "return"
  <2>1. taskSusp' = taskSusp
    BY <1>5 DEF IInv, Domains, SuspendTask, Goto
  <2>2. Quiet(d)
    BY <1>1, <1>4, <1>5, <2>1 DEF Quiet, HoldsTask, Stopped
  <2> QED
    BY <1>1, <1>3, <2>2, QuietPreserves
<1>6. CASE pc'[d] # "return"
  <2>1. pc'[d] = "modules" /\ taskSusp' = taskSusp + 1
    BY <1>6 DEF IInv, Domains, SuspendTask, Goto
  <2>2. HoldsTask(d)'
    BY <1>1, <2>1 DEF HoldsTask, Stopped
  <2>3. TaskHolders' = TaskHolders \cup {d} /\ d \notin TaskHolders
    BY <1>1, <1>3, <2>2, OthersKept DEF TaskHolders
  <2>4. Cardinality(TaskHolders') = Cardinality(TaskHolders) + 1
    BY <2>3, SetGrows DEF TaskHolders
  <2>5. taskSusp' = Cardinality(TaskHolders')
    BY <2>1, <2>4 DEF IInv, CountsMatch
  <2> QED
    BY <1>1, <1>3, <1>4, <2>5, TaskStepPreserves
<1> QED
  BY <1>5, <1>6

\* The deferred clean-up: task_resume, or the threads to resume.
LEMMA UnwindPreserves ==
  ASSUME IInv, NEW d \in Dumpers, Unwind(d)
  PROVE  IInv'
<1>1. Framed(d) /\ pc[d] = "unwind" /\ pc'[d] = "resume"
  BY DEF IInv, Domains, Framed, Unwind, Goto
<1>2. Started' = Started
  BY <1>1 DEF Framed, Started
<1>3. CallOK(d)'
  BY <1>1, <1>2 DEF IInv, Domains, CallOK, Labels, Unwind, Goto
<1>4. Held(d)' = Held(d) /\ susp' = susp
  BY <1>1 DEF IInv, Domains, Held, Unwind, Goto
<1>5. CASE SelfDump
  <2>1. Quiet(d)
    BY <1>1, <1>4, <1>5 DEF Quiet, HoldsTask, Unwind
  <2> QED
    BY <1>1, <1>3, <2>1, QuietPreserves
<1>6. CASE ~SelfDump
  <2>1. HoldsTask(d) /\ ~HoldsTask(d)' /\ taskSusp' = taskSusp - 1
    BY <1>1, <1>6 DEF HoldsTask, Stopped, Unwind
  <2>2. TaskHolders' = TaskHolders \ {d} /\ d \in TaskHolders
    BY <1>1, <1>3, <2>1, OthersKept DEF TaskHolders
  <2>3. Cardinality(TaskHolders') = Cardinality(TaskHolders) - 1
    BY <2>2, SetShrinks DEF TaskHolders
  <2>4. taskSusp' = Cardinality(TaskHolders')
    BY <2>1, <2>3 DEF IInv, CountsMatch
  <2> QED
    BY <1>1, <1>3, <1>4, <2>4, TaskStepPreserves
<1> QED
  BY <1>5, <1>6
-----------------------------------------------------------------------------
\* When push_back throws, the call no longer holds the threads it has suspended,
\* whose counts stay as they are.
LEMMA PushFailsPreserves ==
  ASSUME IInv, NEW d \in Dumpers, PushFails(d)
  PROVE  IInv'
<1>1. /\ Framed(d) /\ pc[d] = "push" /\ pc'[d] = "return" /\ suspendedThreads'[d] = {}
      /\ susp' = susp /\ taskSusp' = taskSusp /\ "push" \in FailingAllocations
  BY DEF IInv, Domains, Framed, PushFails, AllocationFails, Goto
<1>2. CallOK(d)'
  BY <1>1 DEF CallOK, Labels
<1>3. Domains'
  BY <1>1 DEF IInv, Domains, Framed
<1>4. TaskHolders' = TaskHolders
  BY <1>1, <1>2, OthersKept DEF TaskHolders, HoldsTask, Stopped
<1>5. ASSUME NEW t \in Threads, life'[t] # "dead"
      PROVE  CountOK(t)'
  <2>1. Held(d)' = {}
    BY <1>1 DEF Held
  <2>2. Holders(t)' \subseteq Holders(t)
    BY <1>1, <1>2, <2>1, OthersKept DEF Holders
  <2>3. IsFiniteSet(Holders(t))
    BY DumperAssumption, FS_Subset DEF Holders
  <2>4. /\ Cardinality(Holders(t)') <= Cardinality(Holders(t))
        /\ Cardinality(Holders(t)) \in Nat /\ Cardinality(Holders(t)') \in Nat
    BY <2>2, <2>3, FS_Subset, FS_CardinalityType
  <2>5. CountOK(t) /\ susp[t] \in Nat /\ BaseCount(t) \in Nat
    BY <1>1, <1>5 DEF IInv, Domains, CountsMatch, Framed, BaseCount
  <2> QED
    BY <1>1, <2>4, <2>5 DEF CountOK, Owed, BaseCount
<1>6. CountsMatch'
  BY <1>1, <1>4, <1>5 DEF IInv, CountsMatch
<1> QED
  BY <1>1, <1>2, <1>3, <1>6, OthersKept DEF IInv
\* When the process of the dumpers ends, nobody holds anything any longer.  In a
\* foreign dump they never held a single thread.
LEMMA NullPreserves ==
  ASSUME IInv, NEW d \in Dumpers, NewReturnsNull(d)
  PROVE  IInv'
<1>1. /\ \A e \in Dumpers : pc'[e] = "gone" /\ suspendedThreads'[e] = {}
      /\ susp' = susp /\ taskSusp' = 0
      /\ life' = IF SelfDump THEN [t \in Threads |-> "dead"] ELSE life
  BY DEF NewReturnsNull
<1>2. \A e \in Dumpers : CallOK(e)'
  BY <1>1 DEF CallOK, Labels
<1>3. Domains'
  BY <1>1 DEF IInv, Domains, NewReturnsNull
<1>4. (\A t \in Threads : Holders(t)' = {}) /\ TaskHolders' = {}
  BY <1>1 DEF Holders, Held, TaskHolders, HoldsTask, Stopped
<1>5. Cardinality({}) = 0
  BY FS_EmptySet
<1>6. ASSUME NEW t \in Threads, life'[t] # "dead"
      PROVE  CountOK(t)'
  <2>1. ~SelfDump /\ life' = life
    BY <1>1, <1>6
  <2>2. Holders(t) = {}
    BY <2>1 DEF Holders, Held, IInv, CallOK
  <2> QED
    BY <1>1, <1>4, <1>6, <2>1, <2>2 DEF IInv, CountsMatch, CountOK, Owed, BaseCount
<1>7. CountsMatch'
  BY <1>1, <1>4, <1>5, <1>6 DEF CountsMatch
<1> QED
  BY <1>2, <1>3, <1>7 DEF IInv
-----------------------------------------------------------------------------
\* No step disturbs what is known of the suspend counts.
LEMMA CountsInvariance == Spec => []IInv
<1>1. ASSUME IInv, [Next]_vars
      PROVE  IInv'
  <2>1. CASE AppNext
    BY <1>1, <2>1, AppPreserves
  <2>2. ASSUME NEW d \in Dumpers, Call(d) \/ CallStep(d)
        PROVE  IInv'
    <3>1. CASE PushFails(d)
      BY <1>1, <3>1, PushFailsPreserves
    <3>2. CASE \E t \in Threads :
                 SuspendNext(d, t) \/ ReadId(d, t) \/ WriteStack(d, t) \/ ResumeNext(d, t)
      BY <1>1, <3>2, SuspendLoopPreserves, CapturePreserves, WritePreserves, ResumePreserves
    <3>3. CASE \/ EnterZone(d) \/ Call(d) \/ Check(d)
               \/ EnumerateForSuspend(d) \/ ReserveForSuspend(d)
      BY <1>1, <3>3, BeginPreserves
    <3>4. CASE SuspendTask(d) \/ ThreadSuspend(d) \/ Unwind(d)
      BY <1>1, <3>4, SuspendTaskPreserves, ThreadSuspendPreserves, UnwindPreserves
    <3>5. CASE Push(d) \/ EndSuspend(d)
      BY <1>1, <3>5, SuspendLoopPreserves
    <3>6. CASE \/ ListModules(d) \/ EnumerateForCapture(d) \/ ReserveForCapture(d)
               \/ ReadRegisters(d) \/ ReadExceptionState(d)
               \/ AddThreadCommand(d) \/ AddThread(d) \/ AddThreadFails(d) \/ EndCapture(d)
      BY <1>1, <3>6, CapturePreserves
    <3>7. CASE AddPayloads(d) \/ EndWrite(d) \/ EndResume(d) \/ Return(d)
      BY <1>1, <3>7, WritePreserves
    <3>8. CASE NewReturnsNull(d)
      BY <1>1, <3>8, NullPreserves
    <3> QED
      BY <2>2, <3>1, <3>2, <3>3, <3>4, <3>5, <3>6, <3>7, <3>8 DEF CallStep
  <2>3. CASE UNCHANGED vars
    BY <1>1, <2>3 DEF vars, kernelVars, callVars, IInv, Domains, CallOK, CountsMatch, CountOK, Owed,
                      Started, Holders, Held, TaskHolders, HoldsTask
  <2> QED
    BY <1>1, <2>1, <2>2, <2>3 DEF Next
<1> QED
  BY <1>1, InitEstablishes, PTL DEF Spec

\* Every path of MiniDumpWriteDump undoes exactly its own suspensions, whatever
\* other calls and the application's own suspensions are under way, provided
\* that push_back does not throw after a thread has been suspended.
THEOREM SuspendCountsBalance ==
  ASSUME "push" \notin FailingAllocations
  PROVE  Spec => []SuspendBalance
<1>1. IInv => SuspendBalance
  BY DEF IInv, CountsMatch, CountOK, Owed, SuspendBalance, Holders, TaskHolders, Live
<1> QED
  BY <1>1, CountsInvariance, PTL
-----------------------------------------------------------------------------
(* Types. *)

CoreRecord == [commands : Seq([thread : Threads, regs : 0 .. 1]),
               threadIds : Seq(Threads \cup {NoThread}), ranges : SUBSET Threads,
               file : SUBSET [thread : Threads, stack : 0 .. 1], ok : BOOLEAN]

\* The types of everything but the counts.
Types ==
  /\ life \in [Threads -> {"unborn", "live", "dead"}]
  /\ ver \in [Threads -> 0 .. 1]
  /\ zoneHolder \in Threads \cup {NoThread} /\ crashed \in Threads \cup {NoThread}
  /\ allocFailures \in 0 .. MaxAllocFailures
  /\ pc \in [Dumpers -> Labels] /\ zoneUser \in Dumpers \cup {NoThread}
  /\ todo \in [Dumpers -> SUBSET Threads]
  /\ cur \in [Dumpers -> ThreadReading]
  /\ thisThreadRef \in [Dumpers -> BOOLEAN]
  /\ threadRefs \in [Dumpers -> SUBSET Threads]
  /\ suspendedThreads \in [Dumpers -> SUBSET Threads]
  /\ core \in [Dumpers -> CoreRecord]

SuspendLoop == {"reserve1", "suspend", "suspending", "push"}

CaptureLoop == {"reserve2", "capture", "registers", "exception", "add", "addId"}

\* A loop is at a thread that it has still to visit; it owns the rights of an
\* enumeration, with those of the threads it has not suspended yet.
LoopOK(d) ==
  /\ pc[d] \in {"suspending", "push", "registers", "exception", "add", "addId"}
       => cur[d].thread \in todo[d]
  /\ pc[d] \in SuspendLoop => todo[d] \subseteq threadRefs[d]
  /\ pc[d] \notin SuspendLoop \cup CaptureLoop => threadRefs[d] = {} /\ ~thisThreadRef[d]
  /\ pc[d] \in {"reserve1", "reserve2"} => thisThreadRef[d]

\* The types hold at the beginning.
LEMMA InitTypes == Init => Types
BY ThreadAssumption, EnvironmentAssumption
   DEF Init, Types, Labels, ThreadReading, NothingRead, EmptyCore, CoreRecord

\* The application changes only its own threads, within their types.
LEMMA AppTypes ==
  ASSUME Types, AppNext
  PROVE  Types'
<1>1. UNCHANGED <<crashed, allocFailures, callVars>>
  BY DEF AppNext, AppStep, AppStart, AppEnd, AppMalloc, AppMallocReturns
<1>2. /\ life' \in [Threads -> {"unborn", "live", "dead"}]
      /\ ver' \in [Threads -> 0 .. 1]
      /\ zoneHolder' \in Threads \cup {NoThread}
  BY DEF AppNext, AppStep, AppStart, AppEnd, AppMalloc, AppMallocReturns, Types
<1> QED
  BY <1>1, <1>2 DEF Types, callVars

\* A thread command and an id keep the record's type.
LEMMA CoreWithIdType ==
  ASSUME Types, NEW d \in Dumpers
  PROVE  CoreWithId(d) \in CoreRecord
<1>1. core[d] \in CoreRecord /\ cur[d].id \in Threads \cup {NoThread}
  BY DEF Types, ThreadReading
<1>2. Append(core[d].threadIds, cur[d].id) \in Seq(Threads \cup {NoThread})
  BY <1>1 DEF CoreRecord
<1> QED
  BY <1>1, <1>2 DEF CoreWithId, CoreRecord

\* What AddThreadCommand makes of the record.
CoreWithCommand(d) ==
  [core[d] EXCEPT !.commands = Append(@, [thread |-> cur[d].thread, regs |-> cur[d].regs])]

\* The same for the thread command.
LEMMA CoreWithCommandType ==
  ASSUME Types, NEW d \in Dumpers, cur[d].thread \in Threads, cur[d].regs \in 0 .. 1
  PROVE  CoreWithCommand(d) \in CoreRecord
<1>1. core[d] \in CoreRecord
  BY DEF Types
<1>2. Append(core[d].commands, [thread |-> cur[d].thread, regs |-> cur[d].regs])
        \in Seq([thread : Threads, regs : 0 .. 1])
  BY <1>1 DEF CoreRecord
<1> QED
  BY <1>1, <1>2 DEF CoreWithCommand, CoreRecord

\* So does every step of a call, whose loop is at a thread that exists.
LEMMA CallTypes ==
  ASSUME Types, NEW d \in Dumpers, LoopOK(d), Call(d) \/ CallStep(d)
  PROVE  Types'
<1> USE EnvironmentAssumption DEF Types, Labels, Goto, kernelVars, ThreadReading
<1>1. CASE Call(d)
  BY <1>1 DEF Call
<1>2. CASE Check(d)
  BY <1>2 DEF Check
<1>3. CASE SuspendTask(d)
  BY <1>3 DEF SuspendTask
<1>4. CASE EnumerateForSuspend(d)
  <2>1. \E l \in {"reserve1", "return"} : pc' = [pc EXCEPT ![d] = l]
    BY <1>4 DEF EnumerateForSuspend, Enumerated, NotEnumerated
  <2>2. pc' \in [Dumpers -> Labels]
    BY <2>1
  <2>3. todo' \in [Dumpers -> SUBSET Threads]
    BY <1>4 DEF EnumerateForSuspend, Enumerated, NotEnumerated, Live
  <2>4. thisThreadRef' \in [Dumpers -> BOOLEAN]
    BY <1>4 DEF EnumerateForSuspend, Enumerated, NotEnumerated
  <2>5. threadRefs' \in [Dumpers -> SUBSET Threads]
    BY <1>4 DEF EnumerateForSuspend, Enumerated, NotEnumerated, Live
  <2> QED
    BY <1>4, <2>2, <2>3, <2>4, <2>5 DEF EnumerateForSuspend, Enumerated, NotEnumerated
<1>5. CASE ThreadSuspend(d)
  <2>1. pc' \in [Dumpers -> Labels]
    <3>1. \E l \in {"push", "suspend"} : pc' = [pc EXCEPT ![d] = l]
      BY <1>5 DEF ThreadSuspend
    <3> QED
      BY <3>1
  <2>2. todo' \in [Dumpers -> SUBSET Threads]
    <3>1. todo' = todo \/ todo' = [todo EXCEPT ![d] = @ \ {cur[d].thread}]
      BY <1>5 DEF ThreadSuspend
    <3> QED
      BY <3>1
  <2> QED
    BY <1>5, <2>1, <2>2 DEF ThreadSuspend
<1>6. CASE Push(d)
  <2>1. pc' \in [Dumpers -> Labels]
    BY <1>6 DEF Push
  <2>2. todo' \in [Dumpers -> SUBSET Threads]
    BY <1>6 DEF Push
  <2>3. threadRefs' \in [Dumpers -> SUBSET Threads]
    BY <1>6 DEF Push
  <2>4. suspendedThreads' \in [Dumpers -> SUBSET Threads]
    <3>1. cur[d].thread \in Threads
      BY <1>6 DEF LoopOK, Push
    <3> QED
      BY <1>6, <3>1 DEF Push
  <2> QED
    BY <1>6, <2>1, <2>2, <2>3, <2>4 DEF Push, AllocationSucceeds, AllocationFails, LeaveZone
<1>7. CASE PushFails(d)
  BY <1>7 DEF PushFails, AllocationSucceeds, AllocationFails, LeaveZone
<1>8. CASE EndSuspend(d)
  BY <1>8 DEF EndSuspend, ReleaseRefs, LeaveZone
<1>9. CASE EnumerateForCapture(d)
  <2>1. \E l \in {"reserve2", "unwind"} : pc' = [pc EXCEPT ![d] = l]
    BY <1>9 DEF EnumerateForCapture, Enumerated, NotEnumerated
  <2>2. pc' \in [Dumpers -> Labels]
    BY <2>1
  <2>3. todo' \in [Dumpers -> SUBSET Threads]
    BY <1>9 DEF EnumerateForCapture, Enumerated, NotEnumerated, Live
  <2>4. thisThreadRef' \in [Dumpers -> BOOLEAN]
    BY <1>9 DEF EnumerateForCapture, Enumerated, NotEnumerated
  <2>5. threadRefs' \in [Dumpers -> SUBSET Threads]
    BY <1>9 DEF EnumerateForCapture, Enumerated, NotEnumerated, Live
  <2> QED
    BY <1>9, <2>2, <2>3, <2>4, <2>5 DEF EnumerateForCapture, Enumerated, NotEnumerated
<1>10. CASE ReadRegisters(d)
  <2>1. pc' \in [Dumpers -> Labels]
    BY <1>10 DEF ReadRegisters, SkipThread
  <2>2. todo' \in [Dumpers -> SUBSET Threads]
    <3>1. todo' = todo \/ todo' = [todo EXCEPT ![d] = @ \ {cur[d].thread}]
      BY <1>10 DEF ReadRegisters, SkipThread
    <3> QED
      BY <3>1
  <2>3. cur' \in [Dumpers -> ThreadReading]
    <3>1. cur[d].thread \in Threads /\ ver[cur[d].thread] \in 0 .. 1
      BY <1>10 DEF LoopOK, ReadRegisters
    <3>2. cur' = cur \/ cur' = [cur EXCEPT ![d].regs = ver[cur[d].thread]]
      BY <1>10 DEF ReadRegisters, SkipThread
    <3>3. [cur[d] EXCEPT !.regs = ver[cur[d].thread]] \in ThreadReading
      BY <3>1
    <3>4. cur \in [Dumpers -> ThreadReading]
      OBVIOUS
    <3> HIDE DEF ThreadReading, Types
    <3> QED
      BY <3>2, <3>3, <3>4
  <2>4. ver' \in [Threads -> 0 .. 1]
    BY <1>10 DEF ReadRegisters, SkipThread
  <2> QED
    BY <1>10, <2>1, <2>2, <2>3, <2>4 DEF ReadRegisters, SkipThread
<1>11. CASE ReadExceptionState(d)
  <2>1. \E l \in {"add", "capture"} : pc' = [pc EXCEPT ![d] = l]
    BY <1>11 DEF ReadExceptionState, SkipThread
  <2>2. pc' \in [Dumpers -> Labels]
    BY <2>1
  <2>3. todo' \in [Dumpers -> SUBSET Threads]
    <3>1. todo' = todo \/ todo' = [todo EXCEPT ![d] = @ \ {cur[d].thread}]
      BY <1>11 DEF ReadExceptionState, SkipThread
    <3> QED
      BY <3>1
  <2> QED
    BY <1>11, <2>2, <2>3 DEF ReadExceptionState, SkipThread
<1>12. CASE AddThread(d)
  <2>1. pc' \in [Dumpers -> Labels]
    BY <1>12 DEF AddThread
  <2>2. todo' \in [Dumpers -> SUBSET Threads]
    BY <1>12 DEF AddThread
  <2>3. core' \in [Dumpers -> CoreRecord]
    <3>1. cur[d].thread \in Threads
      BY <1>12 DEF LoopOK, AddThread
    <3>2. CoreWithId(d) \in CoreRecord
      BY CoreWithIdType
    <3>3. ASSUME NEW b \in BOOLEAN PROVE CoreWithThread(d, b) \in CoreRecord
    BY <3>1, <3>2 DEF CoreWithThread, CoreRecord
    <3>4. PICK b \in BOOLEAN : core' = [core EXCEPT ![d] = CoreWithThread(d, b)]
      BY <1>12 DEF AddThread
    <3>5. core \in [Dumpers -> CoreRecord]
      OBVIOUS
    <3> HIDE DEF Types
    <3> QED
      BY <3>3, <3>4, <3>5
  <2> QED
    BY <1>12, <2>1, <2>2, <2>3 DEF AddThread, AllocationSucceeds, AllocationFails, LeaveZone
<1>13. CASE AddThreadFails(d)
  <2>1. core' \in [Dumpers -> CoreRecord]
    <3>1. core' = core \/ core' = [core EXCEPT ![d] = CoreWithId(d)]
      BY <1>13 DEF AddThreadFails
    <3>2. CoreWithId(d) \in CoreRecord /\ core \in [Dumpers -> CoreRecord]
      BY CoreWithIdType
    <3> HIDE DEF Types
    <3> QED
      BY <3>1, <3>2
  <2>2. pc' \in [Dumpers -> Labels] /\ todo' \in [Dumpers -> SUBSET Threads]
    BY <1>13 DEF AddThreadFails
  <2> QED
    BY <1>13, <2>1, <2>2 DEF AddThreadFails, AllocationFails, LeaveZone, ReleaseRefs
<1>14. CASE EndCapture(d)
  <2>1. \E l \in {"payloads", "unwind"} : pc' = [pc EXCEPT ![d] = l]
    BY <1>14 DEF EndCapture
  <2>2. pc' \in [Dumpers -> Labels]
    BY <2>1
  <2>3. allocFailures' \in 0 .. MaxAllocFailures /\ zoneUser' = NoThread
    BY <1>14 DEF EndCapture, AllocationSucceeds, AllocationFails, LeaveZone
  <2> QED
    BY <1>14, <2>2, <2>3 DEF EndCapture, ReleaseRefs
<1>15. CASE AddPayloads(d)
  <2>1. \E l \in {"write", "unwind"} : pc' = [pc EXCEPT ![d] = l]
    BY <1>15 DEF AddPayloads
  <2>2. pc' \in [Dumpers -> Labels]
    BY <2>1
  <2>3. core[d].ranges \in SUBSET Threads
    BY DEF CoreRecord
  <2>4. todo' \in [Dumpers -> SUBSET Threads]
    BY <1>15, <2>3 DEF AddPayloads
  <2> QED
    BY <1>15, <2>2, <2>4 DEF AddPayloads, LeaveZone
<1>16. CASE EndWrite(d)
  <2>1. [core[d] EXCEPT !.ok = TRUE] \in CoreRecord
    BY DEF CoreRecord
  <2>2. core' = [core EXCEPT ![d] = [core[d] EXCEPT !.ok = TRUE]]
    BY <1>16 DEF EndWrite
  <2>3. core \in [Dumpers -> CoreRecord]
    OBVIOUS
  <2>4. core' \in [Dumpers -> CoreRecord]
    <3> HIDE DEF Types
    <3> QED
      BY <2>1, <2>2, <2>3
  <2>5. pc' \in [Dumpers -> Labels]
    BY <1>16 DEF EndWrite
  <2> QED
    BY <1>16, <2>4, <2>5 DEF EndWrite
<1>17. CASE Unwind(d)
  BY <1>17 DEF Unwind, LeaveZone
<1>18. CASE EndResume(d)
  BY <1>18 DEF EndResume, LeaveZone
<1>19. CASE Return(d)
  <2>1. EmptyCore \in CoreRecord /\ NothingRead \in ThreadReading
    BY DEF EmptyCore, CoreRecord, NothingRead
  <2>2. core' \in [Dumpers -> CoreRecord] /\ cur' \in [Dumpers -> ThreadReading]
    BY <1>19, <2>1 DEF Return
  <2> QED
    BY <1>19, <2>2 DEF Return
<1>20. ASSUME NEW t \in Threads, SuspendNext(d, t) PROVE Types'
  <2>1. pc' \in [Dumpers -> Labels]
    BY <1>20 DEF SuspendNext, NothingRead
  <2>2. todo' \in [Dumpers -> SUBSET Threads]
    BY <1>20 DEF SuspendNext, NothingRead
  <2>3. cur' \in [Dumpers -> ThreadReading]
    BY <1>20 DEF SuspendNext, NothingRead
  <2> QED
    BY <1>20, <2>1, <2>2, <2>3 DEF SuspendNext, NothingRead
<1>21. ASSUME NEW t \in Threads, ReadId(d, t) PROVE Types'
  BY <1>21 DEF ReadId, Live
<1>22. ASSUME NEW t \in Threads, WriteStack(d, t) PROVE Types'
  <2>1. pc' \in [Dumpers -> Labels]
    <3>1. pc' = pc \/ pc' = [pc EXCEPT ![d] = "unwind"]
      BY <1>22 DEF WriteStack
    <3> QED
      BY <3>1
  <2>2. todo' \in [Dumpers -> SUBSET Threads]
    <3>1. \E r \in SUBSET Threads : todo' = [todo EXCEPT ![d] = r]
      <4>1. todo[d] \ {t} \in SUBSET Threads
        OBVIOUS
      <4> QED
        BY <1>22, <4>1 DEF WriteStack
    <3> QED
      BY <3>1
  <2>3. core' \in [Dumpers -> CoreRecord]
    <3>1. [thread |-> t, stack |-> ver[t]] \in [thread : Threads, stack : 0 .. 1]
      OBVIOUS
    <3>2. CASE core' = core
      BY <3>2
    <3>3. CASE core' = [core EXCEPT ![d].file = @ \cup {[thread |-> t, stack |-> ver[t]]}]
      <4>1. core[d] \in CoreRecord
        OBVIOUS
      <4>2. [core[d] EXCEPT !.file = @ \cup {[thread |-> t, stack |-> ver[t]]}] \in CoreRecord
        BY <3>1, <4>1 DEF CoreRecord
      <4> QED
        BY <3>3, <4>2
    <3> QED
      BY <1>22, <3>2, <3>3 DEF WriteStack
  <2> QED
    BY <1>22, <2>1, <2>2, <2>3 DEF WriteStack, LeaveZone
<1>23. ASSUME NEW t \in Threads, ResumeNext(d, t) PROVE Types'
  BY <1>23 DEF ResumeNext
<1>24. CASE EnterZone(d)
  BY <1>24 DEF EnterZone
<1>25. CASE ReserveForSuspend(d)
  <2>1. \E l \in {"suspend", "return"} : pc' = [pc EXCEPT ![d] = l]
    BY <1>25 DEF ReserveForSuspend, Reserved, NotReserved
  <2>2. pc' \in [Dumpers -> Labels]
    BY <2>1
  <2>3. allocFailures' \in 0 .. MaxAllocFailures
    BY <1>25 DEF ReserveForSuspend, Reserved, NotReserved, AllocationSucceeds, AllocationFails
  <2>4. todo' \in [Dumpers -> SUBSET Threads]
    BY <1>25 DEF ReserveForSuspend, Reserved, NotReserved
  <2>5. thisThreadRef' \in [Dumpers -> BOOLEAN]
    BY <1>25 DEF ReserveForSuspend, Reserved, NotReserved
  <2>6. threadRefs' \in [Dumpers -> SUBSET Threads]
    BY <1>25 DEF ReserveForSuspend, Reserved, NotReserved
  <2> QED
    BY <1>25, <2>2, <2>3, <2>4, <2>5, <2>6
       DEF ReserveForSuspend, Reserved, NotReserved, AllocationSucceeds, AllocationFails, LeaveZone
<1>26. CASE ListModules(d)
  <2>1. \E l \in {"enumerate2", "unwind"} : pc' = [pc EXCEPT ![d] = l]
    BY <1>26 DEF ListModules
  <2>2. pc' \in [Dumpers -> Labels]
    BY <2>1
  <2> QED
    BY <1>26, <2>2 DEF ListModules, AllocationSucceeds, AllocationFails, LeaveZone
<1>27. CASE ReserveForCapture(d)
  <2>1. \E l \in {"capture", "unwind"} : pc' = [pc EXCEPT ![d] = l]
    BY <1>27 DEF ReserveForCapture, Reserved, NotReserved
  <2>2. pc' \in [Dumpers -> Labels]
    BY <2>1
  <2>3. allocFailures' \in 0 .. MaxAllocFailures
    BY <1>27 DEF ReserveForCapture, Reserved, NotReserved, AllocationSucceeds, AllocationFails
  <2>4. todo' \in [Dumpers -> SUBSET Threads]
    BY <1>27 DEF ReserveForCapture, Reserved, NotReserved
  <2>5. thisThreadRef' \in [Dumpers -> BOOLEAN]
    BY <1>27 DEF ReserveForCapture, Reserved, NotReserved
  <2>6. threadRefs' \in [Dumpers -> SUBSET Threads]
    BY <1>27 DEF ReserveForCapture, Reserved, NotReserved
  <2> QED
    BY <1>27, <2>2, <2>3, <2>4, <2>5, <2>6
       DEF ReserveForCapture, Reserved, NotReserved, AllocationSucceeds, AllocationFails, LeaveZone
<1>28. CASE AddThreadCommand(d)
  <2>1. core' \in [Dumpers -> CoreRecord]
    <3>1. cur[d].thread \in Threads /\ cur[d].regs \in 0 .. 1
      BY <1>28 DEF LoopOK, AddThreadCommand
    <3>2. core' = [core EXCEPT ![d] = CoreWithCommand(d)]
      BY <1>28 DEF AddThreadCommand, CoreWithCommand
    <3>3. CoreWithCommand(d) \in CoreRecord /\ core \in [Dumpers -> CoreRecord]
      BY <3>1, CoreWithCommandType
    <3> HIDE DEF Types
    <3> QED
      BY <3>2, <3>3
  <2>2. pc' \in [Dumpers -> Labels]
    BY <1>28 DEF AddThreadCommand
  <2> QED
    BY <1>28, <2>1, <2>2 DEF AddThreadCommand, AllocationSucceeds, AllocationFails, LeaveZone
<1>29. CASE NewReturnsNull(d)
  <2>1. life' \in [Threads -> {"unborn", "live", "dead"}]
    BY <1>29 DEF NewReturnsNull
  <2>2. core' \in [Dumpers -> CoreRecord]
    BY <1>29 DEF NewReturnsNull, EmptyCore, CoreRecord
  <2> QED
    BY <1>29, <2>1, <2>2 DEF NewReturnsNull, AllocationFails, LeaveZone, NothingRead
<1> QED
  BY <1>1, <1>2, <1>3, <1>4, <1>5, <1>6, <1>7, <1>8, <1>9, <1>10, <1>11, <1>12, <1>13, <1>14, <1>15, <1>16, <1>17, <1>18, <1>19, <1>20, <1>21, <1>22, <1>23, <1>24, <1>25, <1>26, <1>27, <1>28, <1>29 DEF CallStep

\* A step of a call keeps the loops of all calls in order.
LEMMA CallLoops ==
  ASSUME Types, \A e \in Dumpers : LoopOK(e), NEW d \in Dumpers, Call(d) \/ CallStep(d)
  PROVE  \A e \in Dumpers : LoopOK(e)'
<1> SUFFICES ASSUME NEW e \in Dumpers PROVE LoopOK(e)'
  OBVIOUS
<1> USE DEF Types, Goto, kernelVars, LoopOK, SuspendLoop, CaptureLoop
<1>1. CASE Call(d)
  BY <1>1 DEF Call
<1>2. CASE Check(d)
  BY <1>2 DEF Check
<1>3. CASE SuspendTask(d)
  BY <1>3 DEF SuspendTask
<1>4. CASE EnumerateForSuspend(d)
  BY <1>4 DEF EnumerateForSuspend, Enumerated, NotEnumerated
<1>5. CASE ThreadSuspend(d)
  BY <1>5 DEF ThreadSuspend
<1>6. CASE Push(d)
  BY <1>6 DEF Push
<1>7. CASE PushFails(d)
  BY <1>7 DEF PushFails
<1>8. CASE EndSuspend(d)
  BY <1>8 DEF EndSuspend, ReleaseRefs
<1>9. CASE EnumerateForCapture(d)
  BY <1>9 DEF EnumerateForCapture, Enumerated, NotEnumerated
<1>10. CASE ReadRegisters(d)
  BY <1>10 DEF ReadRegisters, SkipThread, ThreadReading
<1>11. CASE ReadExceptionState(d)
  BY <1>11 DEF ReadExceptionState, SkipThread
<1>12. CASE AddThread(d)
  BY <1>12 DEF AddThread
<1>13. CASE AddThreadFails(d)
  BY <1>13 DEF AddThreadFails, ReleaseRefs
<1>14. CASE EndCapture(d)
  BY <1>14 DEF EndCapture, ReleaseRefs
<1>15. CASE AddPayloads(d)
  BY <1>15 DEF AddPayloads
<1>16. CASE EndWrite(d)
  BY <1>16 DEF EndWrite
<1>17. CASE Unwind(d)
  BY <1>17 DEF Unwind
<1>18. CASE EndResume(d)
  BY <1>18 DEF EndResume
<1>19. CASE Return(d)
  BY <1>19 DEF Return
<1>20. ASSUME NEW t \in Threads, SuspendNext(d, t) PROVE LoopOK(e)'
  BY <1>20 DEF SuspendNext, NothingRead
<1>21. ASSUME NEW t \in Threads, ReadId(d, t) PROVE LoopOK(e)'
  BY <1>21 DEF ReadId
<1>22. ASSUME NEW t \in Threads, WriteStack(d, t) PROVE LoopOK(e)'
  BY <1>22 DEF WriteStack
<1>23. ASSUME NEW t \in Threads, ResumeNext(d, t) PROVE LoopOK(e)'
  BY <1>23 DEF ResumeNext
<1>24. CASE EnterZone(d)
  BY <1>24 DEF EnterZone
<1>25. CASE ReserveForSuspend(d)
  BY <1>25 DEF ReserveForSuspend, Reserved, NotReserved
<1>26. CASE ListModules(d)
  BY <1>26 DEF ListModules
<1>27. CASE ReserveForCapture(d)
  BY <1>27 DEF ReserveForCapture, Reserved, NotReserved
<1>28. CASE AddThreadCommand(d)
  BY <1>28 DEF AddThreadCommand
<1>29. CASE NewReturnsNull(d)
  BY <1>29 DEF NewReturnsNull
<1> QED
  BY <1>1, <1>2, <1>3, <1>4, <1>5, <1>6, <1>7, <1>8, <1>9, <1>10, <1>11, <1>12, <1>13, <1>14, <1>15, <1>16, <1>17, <1>18, <1>19, <1>20, <1>21, <1>22, <1>23, <1>24, <1>25, <1>26, <1>27, <1>28, <1>29 DEF CallStep
-----------------------------------------------------------------------------
(* Rights. *)

\* The number of calls whose set f[d] has p in it.
Holding(f, p) == Cardinality({d \in Dumpers : p \in f[d]})

\* The rights for p that a call owns, from an enumeration or for a suspended thread.
Owned(p) ==
  Holding(threadRefs, p) + Holding(suspendedThreads, p) + Count(p \in Dumpers /\ thisThreadRef[p])

\* No right is released that nobody has; one is lost only where a vector could
\* not be allocated for those that task_threads returned.
RightOK(p) ==
  /\ rights[p] >= Owned(p)
  /\ {"reserve1", "reserve2"} \cap FailingAllocations = {} => rights[p] = Owned(p)

RightsOK == rights \in [Ports -> Nat] /\ \A p \in Ports : RightOK(p)

\* What the set of d contributes to it.
Part(f, d, p) == IF p \in f[d] THEN 1 ELSE 0

SameElsewhere(f, g, d) == \A e \in Dumpers \ {d} : g[e] = f[e]

\* When only the set of d changes, the number of calls whose set has p in it
\* changes by what d adds and takes away.
LEMMA HolderCount ==
  ASSUME NEW f, NEW g, NEW d \in Dumpers, NEW p, SameElsewhere(f, g, d)
  PROVE  /\ Holding(f, p) \in Nat /\ Holding(f, p) >= Part(f, d, p)
         /\ Holding(g, p) = Holding(f, p) - Part(f, d, p) + Part(g, d, p)
<1> DEFINE F == {e \in Dumpers : p \in f[e]}
           G == {e \in Dumpers : p \in g[e]}
<1>1. Holding(f, p) = Cardinality(F) /\ Holding(g, p) = Cardinality(G)
  BY DEF Holding
<1>2. F \subseteq Dumpers /\ IsFiniteSet(F) /\ Cardinality(F) \in Nat
  BY DumperAssumption, FS_Subset, FS_CardinalityType
<1>3. d \in F <=> p \in f[d]
  OBVIOUS
<1>4. G = IF p \in g[d] THEN F \cup {d} ELSE F \ {d}
  BY DEF SameElsewhere
<1> HIDE DEF F, G
<1>5. d \in F => Cardinality(F) \in Nat \ {0}
  BY <1>2, SetShrinks
<1>6. /\ Cardinality(F \cup {d}) = IF d \in F THEN Cardinality(F) ELSE Cardinality(F) + 1
      /\ Cardinality(F \ {d}) = IF d \in F THEN Cardinality(F) - 1 ELSE Cardinality(F)
  BY <1>2, FS_AddElement, FS_RemoveElement
<1>7. Cardinality(G) = Cardinality(F) - Part(f, d, p) + Part(g, d, p)
  <2>1. CASE p \in g[d]
    BY <1>2, <1>3, <1>4, <1>6, <2>1 DEF Part
  <2>2. CASE p \notin g[d]
    BY <1>2, <1>3, <1>4, <1>6, <2>2 DEF Part
  <2> QED
    BY <2>1, <2>2
<1> QED
  BY <1>1, <1>2, <1>3, <1>5, <1>7 DEF Part

\* The rights of a single call for p.
Share(d, p) ==
  Count(p \in threadRefs[d]) + Count(p \in suspendedThreads[d]) + Count(p = d /\ thisThreadRef[d])

\* A step of d leaves the rights of the other calls alone.
RightsFramed(d) ==
  \A e \in Dumpers \ {d} : /\ threadRefs'[e] = threadRefs[e]
                           /\ suspendedThreads'[e] = suspendedThreads[e]
                           /\ thisThreadRef'[e] = thisThreadRef[e]

\* A step of d changes the rights that are owned by what it changes of its own.
LEMMA OwnedChange ==
  ASSUME NEW d \in Dumpers, NEW p \in Ports, RightsFramed(d)
  PROVE  /\ Owned(p) \in Nat /\ Owned(p) >= Share(d, p)
         /\ Share(d, p) \in Nat /\ Share(d, p)' \in Nat
         /\ Owned(p)' = Owned(p) - Share(d, p) + Share(d, p)'
<1>1. /\ Holding(threadRefs, p) \in Nat /\ Holding(threadRefs, p) >= Part(threadRefs, d, p)
      /\ Holding(threadRefs', p)
           = Holding(threadRefs, p) - Part(threadRefs, d, p) + Part(threadRefs', d, p)
  <2>1. SameElsewhere(threadRefs, threadRefs', d)
    BY DEF RightsFramed, SameElsewhere
  <2> QED
    BY <2>1, HolderCount
<1>2. /\ Holding(suspendedThreads, p) \in Nat
      /\ Holding(suspendedThreads, p) >= Part(suspendedThreads, d, p)
      /\ Holding(suspendedThreads', p)
           = Holding(suspendedThreads, p) - Part(suspendedThreads, d, p)
               + Part(suspendedThreads', d, p)
  <2>1. SameElsewhere(suspendedThreads, suspendedThreads', d)
    BY DEF RightsFramed, SameElsewhere
  <2> QED
    BY <2>1, HolderCount
<1>3. Count(p \in Dumpers /\ thisThreadRef'[p])
        = Count(p \in Dumpers /\ thisThreadRef[p]) - Count(p = d /\ thisThreadRef[d])
            + Count(p = d /\ thisThreadRef'[d])
  BY DEF Count, RightsFramed
<1> QED
  BY <1>1, <1>2, <1>3 DEF Owned, Share, Count, Part

\* A step that releases what d gives up, and at least takes what d then owns.
LEMMA RightsChange ==
  ASSUME RightsOK, NEW d \in Dumpers, RightsFramed(d),
         rights' = [p \in Ports |-> rights'[p]],
         \A p \in Ports :
           /\ rights'[p] \in Int /\ rights'[p] >= rights[p] - Share(d, p) + Share(d, p)'
           /\ {"reserve1", "reserve2"} \cap FailingAllocations = {}
                => rights'[p] = rights[p] - Share(d, p) + Share(d, p)'
  PROVE  RightsOK'
<1>1. ASSUME NEW p \in Ports PROVE rights'[p] \in Nat /\ RightOK(p)'
  <2>1. /\ Owned(p) \in Nat /\ Owned(p) >= Share(d, p)
        /\ Share(d, p) \in Nat /\ Share(d, p)' \in Nat
        /\ Owned(p)' = Owned(p) - Share(d, p) + Share(d, p)'
    BY OwnedChange
  <2>2. rights[p] \in Nat /\ RightOK(p)
    BY DEF RightsOK
  <2> QED
    BY <2>1, <2>2 DEF RightOK
<1> QED
  BY <1>1 DEF RightsOK, Ports

\* At the beginning there are no rights.
LEMMA InitRights == Init => RightsOK /\ \A d \in Dumpers : LoopOK(d)
<1> SUFFICES ASSUME Init PROVE RightsOK /\ \A d \in Dumpers : LoopOK(d)
  OBVIOUS
<1>1. ASSUME NEW d \in Dumpers PROVE LoopOK(d)
  BY DEF Init, LoopOK, SuspendLoop, CaptureLoop
<1>2. ASSUME NEW p \in Ports PROVE RightOK(p)
  <2>1. {d \in Dumpers : p \in threadRefs[d]} = {} /\ {d \in Dumpers : p \in suspendedThreads[d]} = {}
    BY DEF Init
  <2>2. Cardinality({}) = 0
    BY FS_EmptySet
  <2>3. Holding(threadRefs, p) = 0 /\ Holding(suspendedThreads, p) = 0
    BY <2>1, <2>2 DEF Holding
  <2>4. ~(p \in Dumpers /\ thisThreadRef[p]) /\ rights[p] = 0
    BY DEF Init
  <2> QED
    BY <2>3, <2>4 DEF RightOK, Owned, Count
<1> QED
  BY <1>1, <1>2 DEF RightsOK, Init

\* An enumeration: its rights are owned, or there are none.
LEMMA EnumerationRights ==
  ASSUME RightsOK, Types, NEW d \in Dumpers, LoopOK(d), CallOK(d),
         EnumerateForSuspend(d) \/ EnumerateForCapture(d)
  PROVE  RightsOK'
<1>1. threadRefs[d] = {} /\ ~thisThreadRef[d]
  BY DEF EnumerateForSuspend, EnumerateForCapture, LoopOK, SuspendLoop, CaptureLoop
<1>2. UNCHANGED suspendedThreads /\ Live \subseteq Ports
  BY DEF EnumerateForSuspend, EnumerateForCapture, Live, Ports
<1>3. \A p \in Ports : rights[p] \in Nat
  BY DEF RightsOK
<1>4. CASE \E l : Enumerated(d, l)
  <2>1. RightsFramed(d)
    BY <1>2, <1>4 DEF RightsFramed, Enumerated, Types
  <2>2. ASSUME NEW p \in Ports
        PROVE  rights'[p] \in Int /\ rights'[p] = rights[p] - Share(d, p) + Share(d, p)'
    <3>1. rights'[p] = rights[p] + Count(p \in Live) + Count(p = d)
      BY <1>4 DEF Enumerated, RightsAfterEnumeration
    <3>2. threadRefs'[d] = Live /\ thisThreadRef'[d]
      BY <1>4 DEF Enumerated, Types
    <3> QED
      BY <1>1, <1>2, <1>3, <3>1, <3>2 DEF Share, Count
  <2>3. rights' = [p \in Ports |-> rights'[p]]
    BY <1>4 DEF Enumerated, RightsAfterEnumeration
  <2>4. \A p \in Ports : Share(d, p) \in Int /\ Share(d, p)' \in Int
    BY DEF Share, Count
  <2> QED
    BY <1>3, <2>1, <2>2, <2>3, <2>4, RightsChange
<1>5. CASE \E l : NotEnumerated(d, l)
  BY <1>2, <1>5 DEF NotEnumerated, RightsOK, RightOK, Owned
<1> QED
  BY <1>4, <1>5 DEF EnumerateForSuspend, EnumerateForCapture

\* Without the vector, its rights are lost.
LEMMA ReservationRights ==
  ASSUME RightsOK, Types, NEW d \in Dumpers, LoopOK(d), CallOK(d),
         ReserveForSuspend(d) \/ ReserveForCapture(d)
  PROVE  RightsOK'
<1>1. UNCHANGED suspendedThreads
  BY DEF ReserveForSuspend, ReserveForCapture
<1>2. \A p \in Ports : rights[p] \in Nat
  BY DEF RightsOK
<1>3. CASE \E l : Reserved(d, l)
  BY <1>1, <1>3 DEF Reserved, RightsOK, RightOK, Owned
<1>4. CASE \E l, site : site \in {"reserve1", "reserve2"} /\ NotReserved(d, site, l)
  <2>1. /\ rights' = RightsAfterFailedReserve(d)
        /\ thisThreadRef' = [thisThreadRef EXCEPT ![d] = FALSE]
        /\ threadRefs' = [threadRefs EXCEPT ![d] = {}]
        /\ {"reserve1", "reserve2"} \cap FailingAllocations # {}
    BY <1>4 DEF NotReserved, AllocationFails
  <2>2. thisThreadRef[d]
    BY DEF LoopOK, ReserveForSuspend, ReserveForCapture
  <2>3. RightsFramed(d)
    BY <1>1, <2>1 DEF RightsFramed, Types
  <2>4. ASSUME NEW p \in Ports
        PROVE  rights'[p] \in Int /\ rights'[p] >= rights[p] - Share(d, p) + Share(d, p)'
    <3>1. rights'[p] = rights[p] - Count(p = d)
      BY <1>2, <2>1 DEF RightsAfterFailedReserve, RightsOK, Count
    <3>2. threadRefs'[d] = {} /\ ~thisThreadRef'[d] /\ suspendedThreads'[d] = suspendedThreads[d]
      BY <1>1, <2>1 DEF Types
    <3> QED
      BY <1>2, <2>2, <3>1, <3>2 DEF Share, Count
  <2>5. rights' = [p \in Ports |-> rights'[p]]
    BY <2>1 DEF RightsAfterFailedReserve, RightsOK
  <2> QED
    BY <2>1, <2>3, <2>4, <2>5, RightsChange
<1> QED
  BY <1>3, <1>4 DEF ReserveForSuspend, ReserveForCapture

\* Moving a right into suspendedThreads keeps it owned, once.
LEMMA PushRights ==
  ASSUME RightsOK, Types, NEW d \in Dumpers, LoopOK(d), CallOK(d), Push(d)
  PROVE  RightsOK'
<1> DEFINE t == cur[d].thread
<1>1. t \in threadRefs[d] /\ t \notin suspendedThreads[d]
  BY DEF Push, LoopOK, SuspendLoop, CallOK
<1>2. /\ suspendedThreads' = [suspendedThreads EXCEPT ![d] = @ \cup {t}]
      /\ threadRefs' = [threadRefs EXCEPT ![d] = @ \ {t}]
      /\ UNCHANGED <<rights, thisThreadRef>>
  BY DEF Push, kernelVars
<1>3. RightsFramed(d)
  BY <1>2 DEF RightsFramed, Types
<1>4. ASSUME NEW p \in Ports PROVE Share(d, p)' = Share(d, p) /\ Share(d, p) \in Int
  <2>1. suspendedThreads'[d] = suspendedThreads[d] \cup {t} /\ threadRefs'[d] = threadRefs[d] \ {t}
    BY <1>2 DEF Types
  <2> QED
    BY <1>1, <1>2, <2>1 DEF Share, Count
<1>5. \A p \in Ports : rights[p] \in Nat
  BY DEF RightsOK
<1> QED
  BY <1>2, <1>3, <1>4, <1>5, RightsChange DEF RightsOK

\* The destructors give back exactly what their vectors own.
LEMMA ReleaseRights ==
  ASSUME RightsOK, Types, NEW d \in Dumpers, LoopOK(d), CallOK(d),
         PushFails(d) \/ EndSuspend(d) \/ EndCapture(d) \/ AddThreadFails(d) \/ EndResume(d)
  PROVE  RightsOK'
<1>1. \A p \in Ports : rights[p] \in Nat
  BY DEF RightsOK
<1>2. CASE PushFails(d)
  <2>1. RightsFramed(d) /\ rights' = [p \in Ports |-> rights'[p]]
    BY <1>2 DEF RightsFramed, PushFails, Types
  <2>2. threadRefs'[d] = {} /\ ~thisThreadRef'[d] /\ suspendedThreads'[d] = {}
    BY <1>2 DEF PushFails, Types
  <2>3. \A p \in Ports : rights'[p] = RightsAfterRelease(d)[p] - Count(p \in suspendedThreads[d])
    BY <1>2 DEF PushFails
  <2>4. ASSUME NEW p \in Ports
        PROVE  /\ rights'[p] \in Int /\ rights'[p] = rights[p] - Share(d, p) + Share(d, p)'
    BY <1>1, <2>2, <2>3 DEF Share, Count, RightsAfterRelease
  <2> QED
    BY <1>1, <2>1, <2>4, RightsChange
<1>3. CASE EndSuspend(d) \/ EndCapture(d) \/ AddThreadFails(d)
  <2>1. RightsFramed(d) /\ rights' = RightsAfterRelease(d)
    BY <1>3 DEF RightsFramed, EndSuspend, EndCapture, AddThreadFails, ReleaseRefs, Types
  <2>2. threadRefs'[d] = {} /\ ~thisThreadRef'[d] /\ suspendedThreads'[d] = suspendedThreads[d]
    BY <1>3 DEF EndSuspend, EndCapture, AddThreadFails, ReleaseRefs, Types
  <2>3. ASSUME NEW p \in Ports
        PROVE  /\ rights'[p] \in Int /\ rights'[p] = rights[p] - Share(d, p) + Share(d, p)'
    BY <1>1, <2>1, <2>2 DEF Share, Count, RightsAfterRelease
  <2>4. rights' = [p \in Ports |-> rights'[p]]
    BY <2>1 DEF RightsAfterRelease
  <2> QED
    BY <1>1, <2>1, <2>3, <2>4, RightsChange
<1>4. CASE EndResume(d)
  <2>1. RightsFramed(d) /\ rights' = RightsAfterFinalRelease(d)
    BY <1>4 DEF RightsFramed, EndResume, Types
  <2>2. threadRefs' = threadRefs /\ thisThreadRef' = thisThreadRef /\ suspendedThreads'[d] = {}
    BY <1>4 DEF EndResume, Types
  <2>3. ASSUME NEW p \in Ports
        PROVE  /\ rights'[p] \in Int /\ rights'[p] = rights[p] - Share(d, p) + Share(d, p)'
    BY <1>1, <2>1, <2>2 DEF Share, Count, RightsAfterFinalRelease
  <2>4. rights' = [p \in Ports |-> rights'[p]]
    BY <2>1 DEF RightsAfterFinalRelease
  <2> QED
    BY <1>1, <2>1, <2>3, <2>4, RightsChange
<1> QED
  BY <1>2, <1>3, <1>4

\* The kernel takes back the rights of a process that ends.
LEMMA NullRights ==
  ASSUME NEW d \in Dumpers, NewReturnsNull(d)
  PROVE  RightsOK'
<1>1. /\ rights' = [p \in Ports |-> 0]
      /\ thisThreadRef' = [e \in Dumpers |-> FALSE]
      /\ threadRefs' = [e \in Dumpers |-> {}]
      /\ suspendedThreads' = [e \in Dumpers |-> {}]
  BY DEF NewReturnsNull
<1>2. ASSUME NEW p \in Ports PROVE RightOK(p)'
  <2>1. /\ {e \in Dumpers : p \in threadRefs'[e]} = {}
        /\ {e \in Dumpers : p \in suspendedThreads'[e]} = {}
    BY <1>1
  <2>2. Cardinality({}) = 0
    BY FS_EmptySet
  <2>3. Holding(threadRefs', p) = 0 /\ Holding(suspendedThreads', p) = 0
    BY <2>1, <2>2 DEF Holding
  <2>4. ~(p \in Dumpers /\ thisThreadRef'[p]) /\ rights'[p] = 0
    BY <1>1
  <2> QED
    BY <2>3, <2>4 DEF RightOK, Owned, Count
<1> QED
  BY <1>1, <1>2 DEF RightsOK, Ports

\* Whatever a call does, the rights stay accounted for.
LEMMA CallRights ==
  ASSUME RightsOK, Types, NEW d \in Dumpers, LoopOK(d), CallOK(d), Call(d) \/ CallStep(d)
  PROVE  RightsOK'
<1>1. CASE UNCHANGED <<rights, threadRefs, suspendedThreads, thisThreadRef>>
  BY <1>1 DEF RightsOK, RightOK, Owned
<1>2. CASE EnumerateForSuspend(d) \/ EnumerateForCapture(d)
  BY <1>2, EnumerationRights
<1>8. CASE ReserveForSuspend(d) \/ ReserveForCapture(d)
  BY <1>8, ReservationRights
<1>9. CASE NewReturnsNull(d)
  BY <1>9, NullRights
<1>3. CASE Push(d)
  BY <1>3, PushRights
<1>4. CASE PushFails(d) \/ EndSuspend(d) \/ EndCapture(d) \/ AddThreadFails(d) \/ EndResume(d)
  BY <1>4, ReleaseRights
<1>5. CASE EnterZone(d) \/ Call(d) \/ Check(d) \/ SuspendTask(d) \/ ThreadSuspend(d) \/ Unwind(d) \/ Return(d)
  BY <1>1, <1>5 DEF EnterZone, Call, Check, SuspendTask, ThreadSuspend, Unwind, Return, kernelVars
<1>6. CASE \/ ListModules(d) \/ ReadRegisters(d) \/ ReadExceptionState(d)
           \/ AddThreadCommand(d) \/ AddThread(d) \/ AddPayloads(d) \/ EndWrite(d)
  BY <1>1, <1>6 DEF ListModules, ReadRegisters, ReadExceptionState, AddThreadCommand,
                    AddThread, AddPayloads, EndWrite, kernelVars
<1>7. CASE \E t \in Threads : SuspendNext(d, t) \/ ReadId(d, t) \/ WriteStack(d, t) \/ ResumeNext(d, t)
  BY <1>1, <1>7 DEF SuspendNext, ReadId, WriteStack, ResumeNext, kernelVars
<1> QED
  BY <1>2, <1>3, <1>4, <1>5, <1>6, <1>7, <1>8, <1>9 DEF CallStep

\* The types, the loops and the rights, next to the invariant of the counts.
TInv == Types /\ RightsOK /\ \A d \in Dumpers : LoopOK(d)

\* Everything of it holds in every state.
LEMMA TypesInvariance == Spec => [](IInv /\ TInv)
<1>1. Init => TInv
  BY InitTypes, InitRights DEF TInv
<1>2. IInv /\ TInv /\ [Next]_vars => TInv'
  <2> SUFFICES ASSUME IInv, TInv, [Next]_vars PROVE TInv'
    OBVIOUS
  <2>1. CASE AppNext
    <3>1. UNCHANGED <<rights, callVars>>
      BY <2>1 DEF AppNext, AppStep, AppStart, AppEnd, AppMalloc, AppMallocReturns
    <3> QED
      BY <2>1, <3>1, AppTypes DEF TInv, RightsOK, RightOK, Owned, LoopOK, callVars
  <2>2. ASSUME NEW d \in Dumpers, Call(d) \/ CallStep(d) PROVE TInv'
    BY <2>2, CallTypes, CallLoops, CallRights DEF TInv, IInv
  <2>3. CASE UNCHANGED vars
    BY <2>3 DEF vars, kernelVars, callVars, TInv, Types, RightsOK, RightOK, Owned, LoopOK
  <2> QED
    BY <2>1, <2>2, <2>3 DEF Next
<1> QED
  BY <1>1, <1>2, CountsInvariance, PTL DEF Spec

\* Type correctness on every path, failing allocations included: in particular
\* no suspend count, of a thread or of the task, and no count of user
\* references is ever lowered below zero.
THEOREM TypeCorrect == Spec => []TypeOK
<1>1. IInv /\ TInv => TypeOK
  <2> SUFFICES ASSUME IInv, TInv PROVE TypeOK
    OBVIOUS
  <2>1. taskSusp \in Nat
    BY DEF IInv, Domains
  <2> QED
    BY <2>1 DEF IInv, Domains, TInv, Types, RightsOK, CoreRecord, TypeOK
<1> QED
  BY <1>1, TypesInvariance, PTL

\* Every send right that mach_thread_self and task_threads handed out is owned
\* by a MachPortSendRightRef on every path, provided that the vector for the
\* rights of an enumeration can always be allocated.
THEOREM RightsAreOwned ==
  ASSUME {"reserve1", "reserve2"} \cap FailingAllocations = {}
  PROVE  Spec => []RightsBalance
<1>1. TInv => RightsBalance
  BY DEF TInv, RightsOK, RightOK, Owned, Holding, RightsBalance
<1> QED
  BY <1>1, TypesInvariance, PTL
=============================================================================
