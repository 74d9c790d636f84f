----------------------------- MODULE StackWalk -----------------------------
(***************************************************************************)
(* WalkStack on arm64: the return addresses of a suspended thread, for     *)
(* which code and executing modules are recorded.  The walk follows the    *)
(* chain of frame records in the thread's stack, after it has found out    *)
(* whether the top function has such a record at all.                      *)
(*                                                                         *)
(* The stack is a function from the addresses of readable frame records to *)
(* the frame pointer bp and the signed return address ip saved in them.    *)
(***************************************************************************)
EXTENDS CompactUnwind, FiniteSets

CONSTANTS
  ThreadStates,  \* stack and frame pointer register of the walked thread
  Tops,          \* the exception, what is at the pc and in front of the lr
  LoadAddress,   \* where the module of the top function is loaded
  LinkRegister,  \* the return address in the lr register
  Pac,           \* the authentication bits of a pointer start at this power of 2
  MaxFrames      \* bound on the length of the result: then memory is exhausted

ASSUME StackAssumption ==
  /\ {LoadAddress, LinkRegister} \subseteq Nat
  /\ {Pac, MaxFrames} \subseteq Nat \ {0}
  /\ Tops \subseteq [abort : BOOLEAN, executable : BOOLEAN, afterBL : BOOLEAN, afterSVC : BOOLEAN]
  /\ \A t \in ThreadStates :
       /\ t.basePointer \in Nat /\ IsFiniteSet(DOMAIN t.stack)
       /\ \A a \in DOMAIN t.stack :
            a \in Nat \ {0} /\ t.stack[a].bp \in Nat /\ t.stack[a].ip \in Nat

VARIABLES
  stack,              \* memory of the thread
  basePointer,        \* its frame pointer register
  top,                \* whether it is in an abort, at executable code, after a call or svc
  at,                 \* where WalkStack is
  topPCNoStackFrame,
  frameIndex,
  prevBasePointer,
  result              \* of WalkStack

threadVars == <<stack, basePointer, top>>
walkVars == <<at, topPCNoStackFrame, frameIndex, prevBasePointer, result>>
vars == <<lookupVars, threadVars, walkVars>>
-----------------------------------------------------------------------------
instructionPointer == LoadAddress + pcOffset

StripPACFromPointer(ptr) == ptr % Pac

\* What can be read at a frame record, 0 when it cannot be read.
DerefPtr(ptr) == IF ptr \in DOMAIN stack THEN stack[ptr] ELSE [bp |-> 0, ip |-> 0]

AddIPToResult(ip) ==
  /\ Len(result) < MaxFrames
  /\ result' = Append(result, StripPACFromPointer(ip))

\* The vector cannot grow: std::bad_alloc leaves WalkStack.
PushBackFails ==
  /\ Len(result) >= MaxFrames
  /\ at' = "threw"
  /\ UNCHANGED <<topPCNoStackFrame, frameIndex, prevBasePointer, result>>

\* An instruction or data abort with the pc outside executable memory, after a
\* call: the prologue that would build the frame has not been executed.
CalledInvalidPointer == top.abort /\ ~top.executable /\ top.afterBL

Init ==
  /\ LookupInit
  /\ \E t \in ThreadStates : stack = t.stack /\ basePointer = t.basePointer
  /\ top \in Tops
  /\ at = "begin"
  /\ topPCNoStackFrame = FALSE /\ frameIndex = 0 /\ prevBasePointer = 0
  /\ result = <<>>

\* Threads without a frame pointer are not walked at all.
WalkStack ==
  /\ at = "begin"
  /\ \/ /\ basePointer = 0
        /\ at' = "done"
        /\ UNCHANGED <<stage, topPCNoStackFrame, prevBasePointer, result>>
     \/ /\ basePointer # 0
        /\ AddIPToResult(instructionPointer)
        /\ topPCNoStackFrame' = CalledInvalidPointer
        /\ stage' = IF CalledInvalidPointer THEN "not needed" ELSE stage
        /\ at' = IF CalledInvalidPointer THEN "frames" ELSE "lookup"
        /\ prevBasePointer' = basePointer
  /\ UNCHANGED <<threadVars, frameIndex>>
  /\ UNCHANGED <<unwindInfo, pcOffset, low, high, target, frameLookupResult, readFailed>>

LookupStep ==
  /\ at = "lookup"
  /\ Lookup
  /\ UNCHANGED <<threadVars, walkVars>>

\* Without information the function is presumed to have a frame, unless the
\* instruction before the pc is a system call: their wrappers are frameless.
UseLookupResult ==
  /\ at = "lookup" /\ stage = "looked up"
  /\ topPCNoStackFrame' =
       (frameLookupResult = "Frameless" \/ (frameLookupResult = "Unknown" /\ top.afterSVC))
  /\ at' = "frames"
  /\ UNCHANGED <<lookupVars, threadVars, frameIndex, prevBasePointer, result>>

MutantUsesLinkRegister == topPCNoStackFrame     \* not only for the first frame

\* The first step of the walk takes the caller from the lr register.
UsesLinkRegister == topPCNoStackFrame /\ frameIndex = 0

MutantNextFrame ==                    \* the top function's caller is skipped
  /\ at = "frames"
  /\ LET next == DerefPtr(prevBasePointer)
     IN  \/ /\ next.bp = 0
            /\ at' = "done"
            /\ UNCHANGED <<topPCNoStackFrame, frameIndex, prevBasePointer, result>>
         \/ /\ next.bp # 0
            /\ AddIPToResult(IF UsesLinkRegister THEN LinkRegister ELSE next.ip)
            /\ prevBasePointer' = next.bp
            /\ frameIndex' = frameIndex + 1
            /\ UNCHANGED <<at, topPCNoStackFrame>>
         \/ next.bp # 0 /\ PushBackFails
  /\ UNCHANGED <<lookupVars, threadVars>>

NextFrame ==
  /\ at = "frames"
  /\ LET next == IF UsesLinkRegister THEN [bp |-> prevBasePointer, ip |-> LinkRegister]
                 ELSE DerefPtr(prevBasePointer)
     IN  \/ /\ next.bp = 0
            /\ at' = "done"
            /\ UNCHANGED <<topPCNoStackFrame, frameIndex, prevBasePointer, result>>
         \/ /\ next.bp # 0
            /\ AddIPToResult(next.ip)
            /\ prevBasePointer' = next.bp
            /\ frameIndex' = frameIndex + 1
            /\ UNCHANGED <<at, topPCNoStackFrame>>
         \/ next.bp # 0 /\ PushBackFails
  /\ UNCHANGED <<lookupVars, threadVars>>

Finished == at \in {"done", "threw"} /\ UNCHANGED vars

Walk == WalkStack \/ LookupStep \/ UseLookupResult \/ NextFrame

Next == Walk \/ Finished

Spec == Init /\ [][Next]_vars

\* The walk goes on as long as it can; no read is owed a failure.
FairSpec == Spec /\ WF_vars(Walk /\ UNCHANGED readFailed)
-----------------------------------------------------------------------------
\* The frame records that a chain visits, from the one at address a to the first
\* that ends it: the bottom frame's, or one that cannot be read.
Chain(a, path) ==
  /\ path[1] = a
  /\ \A i \in 1 .. Len(path) - 1 :
       path[i] \in DOMAIN stack /\ stack[path[i]].bp # 0 /\ path[i + 1] = stack[path[i]].bp
  /\ DerefPtr(path[Len(path)]).bp = 0

Paths == UNION {[1 .. n -> DOMAIN stack \cup {s.bp : s \in {stack[a] : a \in DOMAIN stack}} \cup {basePointer}]
                  : n \in 1 .. Cardinality(DOMAIN stack) + 1}

\* The chain from the frame pointer does not run in a circle.
Acyclic == \E path \in Paths : Chain(basePointer, path)

TopFunctionHasNoFrame ==
  \/ CalledInvalidPointer
  \/ LET known == IF readFailed THEN "Unknown" ELSE ResultForPC
     IN  known = "Frameless" \/ (known = "Unknown" /\ top.afterSVC)

\* A finished walk has the pc, the caller in the link register if and only if the
\* top function has no frame of its own, and the return address of every frame
\* record of the chain but the last, each once and without its signature.
WalkIsExact ==
  at = "done" /\ basePointer # 0 =>
    \E path \in Paths :
      /\ Chain(basePointer, path)
      /\ result = <<StripPACFromPointer(instructionPointer)>>
                  \o (IF TopFunctionHasNoFrame
                      THEN <<StripPACFromPointer(LinkRegister)>> ELSE <<>>)
                  \o [i \in 1 .. Len(path) - 1 |-> StripPACFromPointer(stack[path[i]].ip)]

\* Only a chain that runs in a circle makes WalkStack, which does not look for
\* one, fill the memory; a sound stack never makes the dump fail.
ThrowsOnlyOnCycle == at = "threw" => ~Acyclic

\* Every walk ends, also on a damaged stack: at the latest with an exception
\* that makes MiniDumpWriteDump return false.
WalkEnds == <>(at \in {"done", "threw"})
=============================================================================
