# macMiniDump: TLA+ models, model checking and proofs

macMiniDump writes a small Mach-O core file of a macOS process: its own or
another one, on request or after a crash. The only entry point is
`MiniDumpWriteDump`. The call stops the target, records its threads, collects
the memory that a debugger needs, lays out a core file, writes it to a stream,
and lets the target run again. This directory holds a formal model of the parts
of the library where order, concurrency, failure and arithmetic matter.

Paths below are relative to `src/Sources/macMiniDump/Private/` unless they
begin with `src/`.

## 1. Inventory

| Part | State | Operations | Used by |
|---|---|---|---|
| Dump call (`MacMiniDump.cpp`) | suspended threads, owned port rights, the builder, the ranges | check, stop, enumerate, capture, write, resume | the application |
| Port rights (`MachPortSendRightRef`) | one send right | wrap, move, reset, destroy | dump call |
| Malloc zone (`ZoneAllocator`) | the zone, or the default one | `InitZone`, `Malloc`, `ZoneAllocator::allocate` | everything |
| Memory ranges (`DisjointIntervalSet`, in `MacMiniDump.cpp`) | map start -> end | `InsertAndMergeIfNeeded`, `ForEach` | dump call |
| Core builder (`MachOCoreDumpBuilder`) | header, note, thread and segment commands, data providers, finalized flag | `Add...Command`, `AddDataProviderForNoteCommand`, offsets, `FinalizeLoadCommands`, `Build` | dump call |
| Stream (`FileOStream`) | file position and contents | `Write`, `SetSize`, `SetPosition` ... | builder |
| Stack walk (`StackWalk.cpp`) | result, frame pointer | `WalkStack` | dump call |
| Unwind lookup (`StackFrame.cpp`) | search interval | `LookupStackFrameForPC` | stack walk |
| Memory regions (`MemoryRegionList`) | map of regions | enumerate, look up | dump call, stack walk |
| Modules (`ModuleList`) | map of modules, executing flags | enumerate through dyld, look up, mark | dump call, unwind lookup |
| Payloads (`MacMiniDump.cpp:130-330`) | - | image infos, main binary, metadata, address bits | dump call |
| Target memory (`ReadProcessMemory`, `ProcessMemoryReaderDataPtr`) | - | read, read string | all readers |
| Dump tester (`src/Sources/macMiniDumpTests/dumpTester/Main.cpp`) | arguments, worker process, pipe, core file | operations in and out of process, signal handlers, exit codes | the test script |

How they interact: `MiniDumpWriteDump` is a sequential procedure. It shares the
kernel's suspend counts and port rights, the malloc zone and the target's
memory with threads it does not control: the other threads of its own process,
those of a foreign target, and other calls of itself. The dump tester is two
processes that share a pipe, signals and the worker's suspend count.

What is hard:

* the target is stopped thread by thread while it runs, and enumerated twice;
* registers are read first and the stacks they belong to only when `Build`
  writes them;
* suspend counts and port rights are process-wide counters, and every early
  return and exception has to give back exactly what was taken;
* an allocation after the stop may need a lock that a stopped thread holds: one of
  the application in the default zone, or another caller of the library in its own;
* the core file refers to itself by offsets that are computed, and built into a
  payload, before all sizes are known;
* memory may have become unreadable and writes may be incomplete;
* everything that is read from the target (frame chains, unwind tables) may be
  damaged;
* dyld's list of images and the map of memory regions may be changing while they
  are read: threads that were missed go on running, and the library's own
  allocations map pages in the process that it dumps;
* a worker that has crashed, its time limit and the tester that dumps and kills
  it race each other.

What makes each part correct is stated with the runs in section 4. The full
list of hazards, each at its line, is `hazards` in `PROJECT.json`.

## 2. Modules

| Module | Models | Composes |
|---|---|---|
| `CoveredBytes` | abstract specification: a set of bytes that requests enlarge | |
| `DisjointIntervalSet` | the interval map, step by step through its merging loop | implements `CoveredBytes` |
| `DisjointIntervalSetProofs` | theorems about it | |
| `DumpSession` | the dump call, port rights, zone, kernel and application threads | |
| `DumpSessionProofs` | theorems about suspend counts, types and port rights | |
| `DumpSessionRecordProofs` | theorems about what a call records of the threads | extends `DumpSessionProofs` |
| `Sums` | what a loop over a list adds up, for offsets in the file and in the image list | |
| `SumsProofs` | lemmas about such sums | extends `Sums` |
| `CoreFile` | collection of commands, `AddPayloadsAndWrite`, the builder and the stream | extends `Sums` |
| `CoreFileProofs` | theorems about the layout and the contents of the file | extends `SumsProofs` |
| `CompactUnwind` | the two-level lookup of a function in unwind information | |
| `StackWalk` | `WalkStack` | extends `CompactUnwind` |
| `StackWalkProofs` | theorems about the lookup and the walk | extends `SumsProofs` |
| `TargetMemory` | regions and submaps of the target, `MemoryRegionList`, `ReadProcessMemory` | |
| `ModuleList` | dyld's list, the module list, the memory chosen for the core file, the image payload | extends `TargetMemory` and `Sums`, uses `CoveredBytes` |
| `ModuleListProofs` | theorems about the region list, strings, the module list, the memory chosen and the image payload | extends `SumsProofs` |
| `DumpTester` | the test program and its worker process | |
| `DumpTesterProofs` | theorems about it | |
| `MC...` | finite instances | |

Operators called `Mutant...` are wrong variants of the definition that follows
them, each a bug that could be made in that code. They are used by no
specification. `PROJECT.json` (`mutants`) says which property each one breaks
when it takes the place of the correct definition.

### DisjointIntervalSet

`m_intervals` is the `std::map`. One insertion is `Insert` (the call, with
`uint64_t` addition), then `Merge` and `Skip` for the two branches of the loop,
and `Store`. An iterator is the least address it may designate, which is what
`upper_bound`, `--it`, `erase` and `++it` make of it. `AddrLimit` stands for 2^64.
`ForEach` reads the map in order and is `Bytes` here, `NextAddress` in
`CoreFile`.

### DumpSession

Kernel state: `life`, `susp` and `taskSusp` (suspend counts), `rights` (user
references per port). Application state: `ver[t]`, a bit that changes whenever
thread `t` runs and stands for its registers and stack. Each call has a program
counter `pc[d]` and the locals of the code (`suspendedThreads`, `threadRefs`,
`thisThreadRef`); `core[d]` is what it collected and wrote. A call is split
wherever another thread can observe the difference:

| `pc` | Code in `MacMiniDump.cpp` |
|---|---|
| `check`, `stop` | 605-626 |
| `enumerate1`, `reserve1`, `suspend`, `suspending`, `push` | 394-432 |
| `modules` | 650, the constructor of `ModuleList` |
| `enumerate2`, `reserve2`, `capture`, `registers`, `exception`, `add`, `addId` | 443-592 |
| `payloads`, `write` | 332-392 and `Build` |
| `unwind`, `resume`, `return` | 434-441, 632-637, 672-681 |
| `gone` | the process has ended (`ZoneAllocator.cpp:63`) |

A self dump is one whose callers are threads of the target. Threads of the
application run, start, end, terminate each other and take the zone's lock
whenever they are not suspended. A crashed thread stays in its signal handler.
`thread_suspend` has a step for entering the kernel, because a thread that is
already inside finishes its call even when it gets suspended: without that step,
two calls could not suspend each other. The loops over threads go in the order of
`task_threads`, of which `Precedes` says what is known; with an empty one, as in all
runs but `concurrent_dumps`, any order is possible, even another one for each loop.

The library's zone `g_zone` (`ZoneAllocator.cpp:11`) is one for all calls of a
process, and so is its lock. Where the code allocates or gives memory back
(`UsesZone`), a call first takes the lock (`EnterZone`, `zoneUser`) and releases it
with the effect of the allocation, so that another call can suspend it in between.
One allocation stands for all at its place. The application's threads
only take this lock when the zone is the default one (`zoneHolder`).

A thread is added in two steps, since `AddThreadCommand` (line 526) and
`pThreadIds->push_back` (line 527) allocate separately: `core[d]` has a list of
commands and a list of ids, and a failure of the second leaves a command without an
id. Allocations fail at named sites: `reserve1`, `push`, `modules`, `reserve2` and
`capture` throw `std::bad_alloc`. At `new`, the class-specific operator new of the
data providers (`ZoneAllocator.cpp:61-84`), the result is null and nothing is thrown
(`NewReturnsNull`): the object is constructed at address zero, which is taken to end
the process, and with it its port rights and its suspension of a foreign task.

### CoreFile

Commands are kept with their sizes and offsets; the file is the set of pieces
written, each with its place, length, the part it belongs to and the offsets it
contains. `Collect...` is what `AddThreadsToCore` and `AddNotesToCore` do to the
builder; `AddAddrableBits` ... `SetFileOffsets` are `AddPayloadsAndWrite` in its
order; `WriteHeader` ... `WriteRest` are `Build` with its loops, including the
chunk loop with its `break` on unreadable memory. Each write is complete,
incomplete (reported as success by `FileOStream::Write`) or failing.
`SetFileOffsets` is one step although it is a loop, since nothing else can see
the builder. Payload bytes do not matter, only their length does.

### CompactUnwind and StackWalk

An unwind info holds the linker's tables as the code reads them (index with its
sentinel, regular and compressed pages, common and page encodings) next to the
plain list of functions they were made from. The code only looks at the tables,
the properties only at the list. Every probe of the bisections reads target
memory and may fail. In `StackWalk` the thread's stack is a partial function of
frame records; return addresses carry authentication bits, which
`StripPACFromPointer` removes. Decoding the exception and the instructions
before `pc` and `lr` is left to the Booleans in `top`. Memory for the result
ends at `MaxFrames` entries.

### TargetMemory and ModuleList

`memory` is the set of regions that the kernel reports, `zeros` the addresses that
hold a terminating zero. A region may be a submap, as the one of the shared cache is:
`Nested` are the regions that are inside of submaps. All queries of the code have a
nesting depth of 0 (`MemoryRegionList.cpp:14`, `ReadProcessMemory.cpp:16`,
`MacMiniDump.cpp:80`), so that `vm_region_recurse_64` returns a submap as one region,
with the protection of the submap. Reading bytes depends on what is inside
(`Readable` goes by `Leaves`, the regions that really hold memory). `BeginWalk`, `AddRegion` and `AddLastRegion` are the constructor
of `MemoryRegionList`; the last round adds the leftovers of the failing call, as
the code does. `ZoneGrows` is the malloc zone of a process that dumps itself: it
may map a page anywhere between two rounds, alone or coalesced with the region in
front. `RegionInfoForAddress` and `ReadString` are the lookup and the string read;
they are pure and are checked in every state for every address.

dyld is an actor of its own (`BeginUpdate`, `Load`, `Unload`): in a self dump a
thread that started after the first enumeration may run it, in a foreign one the
target may have been stopped in the middle (`updating` in the initial state). The
constructor of `ModuleList` has one step per read that dyld can come between:
`ReadImageInfos`, `ReadInfoArray`, then one `AddImage` per image. What dyld does
later no longer matters. Then the regions are walked, and for a thread `AddCode`
is one round of the loop over its call stack (insert the surroundings, mark the
module) and `AddStack` what follows it; `AddSegments` is the `ForEach` over the
merged ranges with `GetMemoryProtection`. The interval map is here what its proved
abstract specification says, `CoveredBytes`. `CreatePayload` lays out the image list
with all positions, and `MainBinSpecSlides` is what the "main bin spec" note says.

### DumpTester

The tester and its worker are two processes with a program location each; `pipe`
counts halves of a crash context, so that an incomplete one can be told from a
complete one, and `core.of` records where the worker was when it was dumped. Dumps
are one or two steps with all their outcomes, including the exit of the leak
checker. The worker does not run while the dump holds it suspended. All operations
that crash are one, `Crash`.

## 3. Plan

1. (done) `DisjointIntervalSet`, `CoveredBytes`, proofs.
2. (done) `DumpSession`, proof of the suspend balance.
3. (done) `CoreFile`.
4. (done) `CompactUnwind` and `StackWalk`.
5. (done) `TargetMemory`: the region list with its last, failing call; strings
   across regions.
6. (done) `ModuleList`: dyld's list while it changes, lookup, the image payload,
   and the choice of memory on top of the region list.
7. (done) `DumpTester`.
8. (done) Theorems about every component; section 5 lists them. Every invariant of
   a passing run is one of them.

## 4. Runs

Passing runs.

* **interval_set** - all insertion sequences into 9 addresses. `Separated`: no
  byte is in two ranges, not even adjacent ones. `ImplementsCoveredBytes`: the map
  is exactly the union of the requests, also in the middle of a merge.
  `InsertTerminates`. Nine addresses leave room for four separated ranges, so that
  one insertion can absorb several, bridge, nest and touch; more addresses add
  no new order of end points. The proofs cover every size.
* **self_dump** - one dumping thread, a worker, a thread that starts in the
  middle; with and without a crash of the dumping thread; an allocation that may
  fail during capture. `SuspendBalance`, `RightsBalance`, `ConsistentStacks` (a stack
  in the file is the one the recorded registers belong to), `IdsNameTheirThreads`,
  `NoThreadMissing`, and `CallReturns`.
* **concurrent_dumps** - two threads of a process dump it at once, while a third
  had been suspended by the application; it may stand anywhere in the kernel's list of
  threads. The counts (`SuspendBalance`) and the stacks of both files
  (`ConsistentStacks`) are right. `SomeCallReturns`: there are two ways in which both calls
  can hang, and both are reached, so deadlock is not an error here. Either the callers
  have suspended each other (`Standoff`: each was inside `thread_suspend` when the
  other's took effect), or one was suspended inside malloc or free of the library's
  zone and the other one needs the zone before it gets to `ResumeThreads`
  (`LockedOut`). Otherwise at least one call comes back.
* **foreign_dump** - two callers dump another process at once.
  `ConsistentStacks` rests on `task_suspend` here.
* **out_of_memory** - up to two failing allocations at any of the six sites, and the
  default malloc zone in place of the dedicated one. `IdsNameTheirThreads`: in all
  that is written there are as many ids as commands, in the same order, although one
  of a thread's two allocations may fail; that holds because the failure ends the
  call before anything is written. The call may wait for the zone's lock forever,
  which is what the dedicated zone is for (`CallReturns` in `self_dump` fails
  without it), so deadlock is no error.
* **core_file** - up to two threads and two segments with the sizes of the arm64
  build, segment lengths below, at and above the chunk size, failing writes,
  unreadable chunks, and at most one incomplete write. `LayoutSoundIfComplete` and
  `SegmentBytesInPlace` are about files without an incomplete write;
  `PiecesDisjoint` and `EmbeddedOffsetIsFinal` (the offset inside the image list is
  where the list ends up) hold regardless; `BuildEnds`.
* **stack_walk** - all unwind infos of up to three functions (empty ones too) over
  one or two pages of either kind, one with padding and one with an unknown page
  kind; nine thread states, sound and damaged. `LookupFindsFunction`,
  `SearchKeepsTarget`, `WalkIsExact`, `ThrowsOnlyOnCycle`, `WalkEnds`. Three
  entries with a sentinel reach both exits of a bisection at both ends.
  `MaxFrames` is larger than any chain without a circle, so that only a
  circle can exhaust it.
* **module_list** - an address space of ten pages in four variants; two pages are a
  submap with dyld in the one and a gap in the other. There are a main executable, a
  library and a plug-in that dyld loads and unloads, up to two changes of its list,
  and one page that the zone maps. Images are slid up and down; one page of code
  directly follows another; paths end at, run over, or begin behind the end of a
  region. `StringReadExact` (a string is read exactly, but may be missed close to a
  byte whose submap has another protection); `MappedAddressesFound` (every
  address that was mapped all the time is found, with the protection and type of its
  region, or with those of its submap) and `FalseHitsOnlyBehind` (the lookup is wrong
  only right behind a region, behind all of them, and in a gap of a submap);
  `ListCompleteOrEmpty`, `SegmentsWhereMapped`, `ExecutingExact`;
  `NeededMemoryRecorded`; `PayloadSound` (the image list has one entry for each
  module but the main executable, every byte of it belongs to exactly one part, and
  the positions stored in an entry are those of its segments and its path);
  `CollectionEnds`.
* **dump_tester** - every operation, in and out of process, on either thread.
  `SuccessMeansCore` (exit code 0 means a complete core file),
  `CoreOfWaitingWorker` (a worker is dumped only with its whole context and while
  it is held in its signal handler), `ProcessesEnd` (nobody waits forever and no
  worker is left behind). Both processes end, so the system may stop.

Runs that end with a violation. Each shows a disagreement between the code and
a comment of the repository (`findings` in `PROJECT.json` quotes it).

* **suspend_throws** - `push_back` throws after `thread_suspend`: the exception leaves
  before the deferred resume exists, and threads stay suspended.
* **other_crash** - a self dump that is given the crash context of another
  thread includes the dumping thread's own moving stack.
* **unreadable_memory** - the last segment cannot be read; its command
  describes bytes behind the end of the file, and `Build` returns true.

### Observations without a run of their own

These are in the models; the properties are stated so that they exclude exactly
these cases.

* Two callers in one process can hang, in one of the two ways that `SomeCallReturns`
  allows. The dedicated zone does not prevent the second one: it is shared by the
  calls.
* The class-specific operator new of the payloads and data providers returns null when
  there is no memory (`ZoneAllocator.cpp:61-84`), and no constructor call checks it.
  `MiniDumpWriteDump` catches `std::bad_alloc` and returns false
  (`MacMiniDump.cpp:676-681`), but nothing is thrown here: the process ends
  (`NewReturnsNull`), in a self dump the one that was to be dumped.
* The comment at `MemoryRegionList.cpp:18-19` says that the walk over the regions
  misses many mappings compared with vmmap, and should be fixed. In the model what is
  missed are the regions inside of submaps, which a nesting depth of 0 does not
  enter (`LeavesOf`). Their addresses are found all the same, but with the protection
  and type of the whole submap, and so are the gaps between them. Where a submap's own
  protection lacks execution, `WalkStack` takes an instruction pointer to code inside,
  as that of a system library, for one into non-executable memory
  (`StackWalk.cpp:151-157`).
* Inside of a submap the region list, the choice of a segment's protection and the
  read of a string only know the submap as a whole. `MappedAddressesFound`,
  `NeededMemoryRecorded`, `FalseHitsOnlyBehind` and `StringReadExact` say what is left:
  code of the shared cache is recorded, as far as it can be read, in a segment with
  the protection of the submap, which LLDB looks at.
* When one of the two `reserve` calls (`MacMiniDump.cpp:405` and `459`) throws, the
  rights that `task_threads` returned are lost (`RightsAfterFailedReserve`);
  `RightsBalance` excludes these two failures.
* The range check at `MacMiniDump.cpp:543` lets one address through, 2^64 - 257,
  whose range ends at 2^64, which is 0. `DisjointIntervalSet` (`NoWrap` in the
  theorems) and `ModuleList` (`CallStackAddresses`) leave it out.
* One incomplete write that `FileOStream::Write` takes for success shifts the load
  commands behind it while `Build` returns true: `LayoutSound` then fails, which is
  why `LayoutSoundIfComplete` is the property.
* Both lookups by address include the address right behind a region or a
  `__TEXT` segment (`MemoryRegionList.cpp:82`, `ModuleList.cpp:256`), and the region
  list has one region too many behind all others (`MemoryRegionList.cpp:53`).
* A code range that begins in another region, because the address is within 256
  bytes of the start of its own or because the range was merged with a stack below
  it, is recorded with the protection of that other region. LLDB then takes the
  code for not executable, which the comment at `MacMiniDump.cpp:534` wants to
  avoid. `NeededMemoryRecorded` excludes code that has bytes of another region in
  front of it in its segment.
* `MemoryRegionList::IsValid` (line 61) is true for an empty list; nobody calls it.
* The dump tester drops the result of operations on a background thread and goes
  on with an uninitialized pid when a worker that shall not crash cannot be
  started. `SuccessMeansCore` excludes both. After a crash in its own process it ends
  with SIGKILL whether or not the dump has succeeded (`Main.cpp:233-235`), and that is
  what the test script looks for (`Tests.py:60-65`); the property is about exit code 0
  and says nothing of those, so only loading the core file shows a failure.

### Bounds

`MaxAllocFailures`, `MaxShortWrites`, `MaxThreads`, `MaxSegments`, `MaxFrames`,
`MaxUpdates`, `MaxGrowth`, `MaxMarks`, `MaxNested` and
`AddrLimit` are the only bounds. Two threads besides the dumper suffice to tell
"suspended", "missed by the first enumeration" and "ended in between" apart; two
calls suffice for every pairwise conflict over a count, and the theorem covers
any number. For the ways in which two calls hang, other threads play no part: they
can neither take the dedicated zone's lock nor resume anybody. `ver` is a single bit: a thread that runs an even number of times
looks unchanged, but every violation is also reached with an odd number.

In `module_list` pages have four bytes and strings at most as many, the ratio of
the code (4096 and 4096); the surroundings of an address are two bytes. Two changes
of dyld's list suffice for one before and one after the count is read; a list that
shrinks, grows, or is replaced by one of the same length are all among them. The submap has a
mapped and an unmapped page, a mapped neighbour and a border to free memory. The
zone grows at most once, and not after two changes of the list, since the walk over
the regions only depends on the map it meets. One thread with two addresses and one
stack pointer (in a stack, right behind it, behind all regions) gives every way in
which two ranges can be merged. In `dump_tester` two nested signal handlers stand
for any number.

### Fairness

`CallReturns`: weak fairness of the steps of each call. A call's thread is
scheduled as long as it is runnable; nothing is assumed about the application,
nor that suspended threads run. `InsertTerminates`, `BuildEnds` and `WalkEnds`: a
sequential loop goes on to its next step. In `StackWalk` fairness excludes the
failing reads, so that an endless search is not ended by a read that happens to
fail. `CollectionEnds`: the dumping thread runs; dyld and the zone are owed nothing.
`SomeCallReturns` has the fairness of `CallReturns`; that of a malloc is weak too,
so a caller that waits for a lock that is taken again and again is owed nothing. `ProcessesEnd`: the tester and
the worker are scheduled, a dump returns (which `CallReturns` and `BuildEnds` are
about) and `sleep` is over some day. No strong fairness is used.

## 5. Proofs

`DisjointIntervalSetProofs`, for every `AddrLimit` and every set of requests none
of which wraps (`NoWrap`, which the caller ensures for all addresses but one):

* `TypeCorrect`, `RangesStaySeparated`: `Spec => []TypeOK` and `Spec => []Separated`.
  `Separated` is not inductive while an insertion is in its loop. The invariant
  is `IInv == TypeOK /\ Separated /\ PassedIsBelow`: every range that the iterator has
  passed ends strictly before the range being inserted, and that range is not
  empty. This is why `Store` adds a range that touches none.
* `SetRefinement`: the map implements `CoveredBytes`. `Insert` maps to `Add`, all other
  steps to stuttering: `Merge` moves bytes from the map to the range being
  inserted, `Store` moves them back.

`DumpSessionProofs`, for any set of threads, any finite set of dumpers and any
number of failing allocations:

* `SuspendCountsBalance`: `Spec => []SuspendBalance`, if `push` is not among the
  failing allocations (which `suspend_throws` shows to be necessary). The invariant
  `IInv` adds to the counts (`CountsMatch`, which also covers threads that have not
  started) where in a call which threads can be held (`CallOK`): nothing before the
  first enumeration and after the resume loop, no thread twice in the
  suspension loop, only suspended ones in the resume loop. Each step then
  changes one count and the membership of one call in the set of holders, or
  neither (`QuietPreserves`); so do taking and leaving the zone. A process that ends for
  a null from operator new has no live threads, or, dumping a foreign task, gives its
  suspension back, so that the counts hold there too (`NewReturnsNull`).
* `TypeCorrect`: `Spec => []TypeOK`, with failures anywhere. That no count becomes
  negative needs the counts themselves, so `IInv` has a weak half that does not
  depend on `push`: a count is at least what the calls account for.
* `RightsAreOwned`: `Spec => []RightsBalance`, if neither `reserve` fails (section 4
  describes what happens otherwise). `TInv` says which enumeration's rights a call
  owns at each place (`LoopOK`); `HolderCount` turns a change of one call's set into a
  change of the number of owners.

`DumpSessionRecordProofs`, on top of both invariants:

* `RecordsAreNamed`: `Spec => []IdsNameTheirThreads`. Registers are read after the id,
  and a thread can end in between; `IdsOK` says that an id that could not be read is
  that of a dead thread, for which `thread_get_state` fails too. The lists of commands
  and ids are in step everywhere but between the two allocations, where there is one
  command more, and after a failure there, from where nothing is written.
* `NoStoppedThreadIsMissed`: `Spec => []NoThreadMissing`. A stopped thread is recorded,
  still to be visited, or dead (`CompleteOK`).
* `StacksMatchRegisters`: `Spec => []ConsistentStacks` under `OwnContext`: whoever dumps
  its own process passes its own crash context or none. `other_crash` shows that this
  is needed. The argument is that a steady thread cannot run while any call is
  between its stop and its resume (`WhoRuns`), which uses the counts of `IInv` for
  concurrent calls.

`CoreFileProofs`, for all sizes, alignments, numbers of threads and segments, and
all outcomes of writes and reads. Four invariants, each part of the next:

* `ShapeInv`: what the builder holds at each stage, and that the chunk loop is at a
  multiple of the chunk size within the segment. Gives `BuilderTypeCorrect`.
* `FrontInv`: everything written so far ends at or before the place where the next
  piece goes; it falls short only after an incomplete write. Gives
  `NothingIsOverwritten` (`PiecesDisjoint`), whatever fails.
* `ContentInv`: every piece in the file is one of six kinds, with the offsets that
  the builder computes for it, and the offset in the image list is the one of its
  note (`Embedded`), although commands are added after it is computed. Gives
  `SegmentBytesAreInPlace` and `EmbeddedOffsetStays`.
* `LayoutInv`: which commands have been written and that each one but the last has a
  successor at its end. Gives `CompleteFileIsReadable` (`LayoutSoundIfComplete`).

Offsets are sums over the commands in front; `SizesUpTo` is a recursive function
for that reason. `SumsProofs` proves its equation by a least counterexample
(`LeastElement`), since the induction theorems of the library cannot be applied,
and from it that the sums grow (`SumsMonotone`) and leave no gap: every number
below the total lies in the range of a summand (`SumsCover`). `ModuleListProofs`
uses the same lemmas.

`StackWalkProofs`. `UnwindAssumption` is what a linker
guarantees of a table: sorted offsets, a sentinel, indices that exist, and that it
describes the list of functions. `StackAssumption` only says that a stack is finite
and maps nonzero addresses to pairs of numbers; it may be damaged in any way.

* `SearchesKeepTarget`, `LookupIsExact`: `SearchKeepsTarget` and `LookupFindsFunction`
  together with the bounds of both searches (`InBounds`) are inductive (`LookupInv`).
* `WalkFollowsChain`: `Spec => []WalkIsExact`. A walk that is not finished has followed
  a chain without a repetition, or is in a circle (`WalkInv`).
* `SoundStackDoesNotThrow`: `Spec => []ThrowsOnlyOnCycle` under `RoomForAll`, memory for as
  many addresses as the stack has records plus two. A chain of distinct
  records is no longer than their number (`DistinctRecords`, a pigeonhole argument).

`ModuleListProofs`, for every page size, set of memory maps, set of images and
number of updates. `MemoryAssumption`: regions are whole pages that do not
overlap; of what is inside of submaps it only says that it is no submap itself.
`ImageAssumption`: an image has one `__TEXT` segment of at most a page, begins with
it, and shares no memory with another image; one in dyld's list shares none with
another region either. Only dyld itself, which never gets into that list, may be
inside of a submap.
`SegmentAssumption`: the images that are loaded at the beginning and dyld are mapped,
and all segments of an image are moved by one distance, to memory that is the image's
or belongs to no image of the list, inside of a submap or not. `Paths` gives the address of each image's path; `MaxUpdates` and the offset of
the payload are numbers.

* `ListIsCompleteOrEmpty`: `ListInv` says where a lasting image is in dyld's array (an
  unload only moves it to the front, so the count of the snapshot still covers it),
  and that it is in the list or still to be added, unless the list was invalidated.
* `SegmentsAreMapped`: `SegmentInv` says that every entry of dyld's array, those behind
  the count included, and every image that was taken from it is listed or has been
  unloaded, and that the memory of listed images, and what belongs to no image,
  is kept, also inside of submaps (`LeafByte`).
* `StableRegionsAreFound`, `FalseHitsAreBehind`: `RegionInv` says that regions stay apart
  while images and the zone come and go, that a region which was there all the time
  is still covered by one of the same start (`Extends`) and is ahead of the walk or in
  the list, and that an entry of the list is a region or the leftover of the failing
  call. A mapped address is in a region of its own or inside of a submap, which is a
  region of the list like any other; a region that grows does not become one.
* `StringsAreReadExactly`: from `MemoryOK` alone, by the pages between the start of
  the string and the end of the region. It is first shown of memory that could be read
  as the depth-0 regions say (`EntryString`), and then that the read of the
  code can only differ at a masked byte, where a submap and its inside disagree.
* `MarksAreExact`: `ExecInv`; that the candidate of the lookup is the right module needs
  that images do not share memory.
* `NeededIsRecorded`: `NeedInv` says what has been collected; a byte that was collected
  is in exactly one maximal range (`MaximalRangeUnique`).
* `PayloadIsSound`: `PayInv` adds to `ExecInv` and `NeedInv` that the list is finite, that
  its paths have lengths, and that a payload, once made, is the one that the list
  yields. A list that is not empty has the main executable, exactly once
  (`ModulesInPayload`), so that `nModules` is the number of entries. That the modules
  can be put in order at all is shown by a smallest set that cannot (`OrderExists`).
  The rest is arithmetic: header, entries, segments and paths are four consecutive
  ranges, within each of them parts follow each other without a gap (`SumsCover`), so no
  two parts share a byte (`PartsApart`) and none is left out (`PartsFill`).
* `ListTypeCorrect`: from the invariants above. Of the collected bytes it says only that
  they are numbers: the stack of a thread whose stack pointer is behind all regions is
  taken from the leftover region, which need not be within the address space.

`DumpTesterProofs`, for any number of nested handlers:

* `ExitCodeMeansCore`, `WaitingWorkerIsDumped`: the invariant relates the location of
  the tester to that of the worker, to what is in the pipe (`PipeHolds`) and to the core
  file; a worker that sleeps with its context written stays there until it is
  killed or its time is over, and the dump only starts after the context is read.

Only model-checked: the liveness properties, which are out of the proof system's
reach (`InsertTerminates`, `CallReturns`, `SomeCallReturns`, `BuildEnds`, `WalkEnds`,
`CollectionEnds`, `ProcessesEnd`).

## 6. Not modelled

* One model of everything. `DumpSession`, `CoreFile`, `StackWalk` and `ModuleList` meet
  at interfaces that each of them leaves open: `CoreFile` takes every size of the
  image payload and every readability of memory, `StackWalk` every outcome of the
  region lookup, `DumpTester` every outcome of a dump.
* UUIDs and the text of the thread ids, which are copied through.
* `assert`s and the overlap check of the debug build; `PiecesDisjoint` states what
  that check is for.
* The kernel's arrays of ports (`vm_deallocate`), which hold memory and no rights.
* A stream that does not begin at position 0: `SetSize (0)` does not move the
  position, but the repository opens a stream anew for every dump.
* Register layouts, instruction decoding, Intel frames (the loop of `StackWalk`
  without a frameless top), logging, `ThreadInfo` (unused), the examples and the test script.
* Weak memory effects: the state shared between threads is the kernel's.
