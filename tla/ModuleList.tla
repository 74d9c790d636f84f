----------------------------- MODULE ModuleList -----------------------------
(***************************************************************************)
(* The images of the target: how ModuleList reads them from dyld's list,   *)
(* how addresses on call stacks are attributed to them, and how they are   *)
(* laid out in the payload of the "all image infos" note.  With the region *)
(* list at hand, the memory that goes into the core file is chosen: code   *)
(* around the addresses on call stacks, and stacks.                        *)
(*                                                                         *)
(* dyld sets infoArray to null while it changes the list.  A target that   *)
(* has been stopped may be in the middle of that, and a thread that was    *)
(* started after the others had been suspended may even go on with it.     *)
(***************************************************************************)
EXTENDS TargetMemory, Sequences, SequencesExt, Sums

CONSTANTS
  Images,         \* the images of the target, loaded or not, without dyld
  Main, Dyld,     \* the main executable, one of them, and dyld itself
  LoadAddress,    \* where each image is loaded: its header, and its __TEXT
  Commands,       \* the segments in its load commands, before they are slid
  Paths,          \* the ways in which the paths of the images may be placed
  InitiallyLoaded,
  MaxUpdates,     \* bound on the changes of dyld's list; the zone grows after fewer
  CallStackAddresses, \* addresses that may be on a call stack
  MaxMarks,       \* bound on the number of these that are
  StackPointers,  \* stack pointers that a thread may have
  SurroundingsRange,  \* 256 in the code
  PayloadOffset   \* file offset of the payload

\* sizeof AllImageInfosHeader, ImageEntry, SegmentVMAddr
HeaderSize == 24
EntrySize == 48
SegmentSize == 32

\* The header and load commands of an image, to be read in two steps.
CommandBytes == 2

\* "/usr/lib/dyld"
DefaultPathLength == 13

AllImages == Images \cup {Dyld}

TextOf(i) ==
  CHOOSE s \in ToSet(Commands[i]) : s.name = "__TEXT"

\* The memory of an image's __TEXT segment.
ImageRegion(i) ==
  [base |-> LoadAddress[i], size |-> PageSize, prot |-> {"read", "exec"}, tag |-> "other"]

\* An image has one __TEXT segment and begins with it; no two images share memory,
\* and none of them overlaps other regions of the target; dyld may be in the
\* shared cache, which is a submap.
ASSUME ImageAssumption ==
  /\ SurroundingsRange \in Nat /\ MaxUpdates \in Nat /\ PayloadOffset \in Nat
  /\ CallStackAddresses \subseteq 0 .. AddrLimit - SurroundingsRange - 2
  /\ StackPointers \subseteq Addresses /\ Paths \subseteq [AllImages -> Addresses]
  /\ Main \in InitiallyLoaded /\ InitiallyLoaded \subseteq Images /\ Dyld \notin Images
  /\ IsFiniteSet(InitiallyLoaded)
  /\ \A i \in AllImages :
       /\ \E k \in DOMAIN Commands[i] : \A j \in DOMAIN Commands[i] :
            Commands[i][j].name = "__TEXT" <=> j = k
       /\ Commands[i] \in Seq([name : STRING, vmaddr : Nat, size : Nat])
       /\ TextOf(i).size \in 1 .. PageSize
       /\ LoadAddress[i] \in Nat /\ LoadAddress[i] + PageSize <= AddrLimit
       /\ \A j \in AllImages \ {i} : Bytes(ImageRegion(i)) \cap Bytes(ImageRegion(j)) = {}
       /\ i \in Images => \A m \in Maps : \A r \in m :
            r = ImageRegion(i) \/ Bytes(r) \cap Bytes(ImageRegion(i)) = {}

\* All segments of a loaded image are mapped, moved by the same distance as its
\* __TEXT; those outside its first page are in memory that stays.
ASSUME SegmentAssumption ==
  /\ \A m \in Maps : /\ \A i \in InitiallyLoaded : ImageRegion(i) \in m
                     /\ ImageRegion(Dyld) \in LeavesOf(m)
  /\ \A i \in AllImages : \A k \in DOMAIN Commands[i] :
       LET distance == LoadAddress[i] - TextOf(i).vmaddr
           start    == Commands[i][k].vmaddr + distance
       IN  Commands[i][k].name # "__PAGEZERO" =>
             /\ start \in Nat
             /\ \A a \in start .. start + Commands[i][k].size - 1 :
                  \/ a \in Bytes(ImageRegion(i))
                  \/ \A m \in Maps : \E r \in LeavesOf(m) :
                       a \in Bytes(r) /\ \A j \in Images : r # ImageRegion(j)

VARIABLES
  infoArray,      \* dyld's array of images, count of them in use
  count,
  updating,       \* infoArray is null
  updates,        \* number of changes of the list
  unloaded,       \* images that were unloaded since the constructor began
  pathAddress,    \* where the path of each image is
  reading,        \* where the constructor is
  snapshot,       \* the dyld_all_image_infos it has read
  toAdd,          \* the images it has still to add
  moduleInfos,    \* m_moduleInfos
  marked,         \* the addresses passed to MarkAsExecuting
  stackPointer,   \* that of the thread whose stack is taken, once it is
  memoryRangesToAdd,  \* the bytes collected so far
  segments,       \* the segment commands made of them
  payload         \* the payload of the "all image infos" note

dyldVars == <<infoArray, count, updating, updates, unloaded, pathAddress>>
rangeVars == <<stackPointer, memoryRangesToAdd, segments>>
listVars == <<reading, snapshot, toAdd, moduleInfos, marked, payload>>
moduleVars == <<dyldVars, listVars, rangeVars>>
vars == <<memoryVars, moduleVars>>

NoPointer == -1

NoPayload == [size |-> 0, entries |-> <<>>, segments |-> <<>>, paths |-> <<>>]

Init ==
  /\ MemoryInit
  /\ infoArray \in {<<Main>> \o q : q \in SetToSeqs(InitiallyLoaded \ {Main})}
  /\ count = Len(infoArray)
  /\ updating \in BOOLEAN
  /\ updates = 0 /\ unloaded = {}
  /\ pathAddress \in Paths
  /\ reading = "infos"
  /\ snapshot = [count |-> 0, null |-> TRUE, updates |-> 0]
  /\ toAdd = <<>>
  /\ moduleInfos = {} /\ marked = {}
  /\ stackPointer = NoPointer /\ memoryRangesToAdd = {} /\ segments = {}
  /\ payload = NoPayload

Constructed == reading \in {"done", "collected", "written"}

Loaded == ToSet(SubSeq(infoArray, 1, count))
-----------------------------------------------------------------------------
(* dyld, run by a thread of the target that has not been stopped.  What it  *)
(* does after the constructor has read everything no longer matters.        *)

BeginUpdate ==
  /\ ~Constructed
  /\ ~updating /\ updates < MaxUpdates
  /\ updating' = TRUE
  /\ UNCHANGED <<memoryVars, infoArray, count, updates, unloaded, pathAddress, listVars, rangeVars>>

EndUpdate ==
  /\ ~Constructed
  /\ updating /\ updates < MaxUpdates
  /\ updating' = FALSE
  /\ updates' = updates + 1

\* dlopen: the image is mapped and its entry goes to the end of the array.
Load(i) ==
  /\ EndUpdate
  /\ i \notin Loaded /\ i \notin unloaded
  /\ infoArray' = IF count < Len(infoArray) THEN [infoArray EXCEPT ![count + 1] = i]
                  ELSE Append(infoArray, i)
  /\ count' = count + 1
  /\ memory' = memory \cup {ImageRegion(i)}
  /\ UNCHANGED <<zeros, address, last, walking, regionInfos, stable, growth,
                 unloaded, pathAddress, listVars, rangeVars>>

\* dlclose: the entries behind the image's move up, and its memory is unmapped.
Unload(i) ==
  /\ EndUpdate
  /\ i \in Loaded \ {Main}
  /\ LET k == CHOOSE k \in 1 .. count : infoArray[k] = i IN
       infoArray' = [j \in DOMAIN infoArray |->
                       IF k <= j /\ j < count THEN infoArray[j + 1] ELSE infoArray[j]]
  /\ count' = count - 1
  /\ unloaded' = unloaded \cup {i}
  /\ memory' = memory \ {ImageRegion(i)}
  /\ UNCHANGED <<zeros, address, last, walking, regionInfos, stable, growth,
                 pathAddress, listVars, rangeVars>>

DyldNext == BeginUpdate \/ \E i \in Images : Load(i) \/ Unload(i)
-----------------------------------------------------------------------------
(* The constructor. *)

\* task_info and the read of dyld_all_image_infos fail, or yield a snapshot.
ReadImageInfos ==
  /\ reading = "infos"
  /\ \/ /\ snapshot' = [count |-> count, null |-> updating, updates |-> updates]
        /\ reading' = "array"
     \/ UNCHANGED snapshot /\ reading' = "done"
  /\ UNCHANGED <<memoryVars, dyldVars, toAdd, moduleInfos, marked, payload, rangeVars>>

\* The array is read where, and as long as, the snapshot says: nothing can be
\* read at address 0, and an array that has been replaced may be gone.  dyld is
\* not in its own list and is added first.
ReadInfoArray ==
  /\ reading = "array"
  /\ \/ /\ ~snapshot.null
        /\ toAdd' = <<Dyld>> \o SubSeq(infoArray, 1, snapshot.count)
        /\ reading' = "images"
     \/ /\ snapshot.null \/ updates > snapshot.updates
        /\ reading' = "done"
        /\ UNCHANGED toAdd
  /\ UNCHANGED <<memoryVars, dyldVars, snapshot, moduleInfos, marked, payload, rangeVars>>

MutantSlide(i) == LoadAddress[i] - Commands[i][1].vmaddr   \* of the first segment

\* How far an image is from where its __TEXT segment wanted to be.
Slide(i) == LoadAddress[i] - TextOf(i).vmaddr

\* GetSegmentsOfModule, slid; __PAGEZERO stays at 0.
SegmentsOf(i) ==
  [k \in DOMAIN Commands[i] |->
     IF Commands[i][k].name = "__PAGEZERO" THEN Commands[i][k]
     ELSE [Commands[i][k] EXCEPT !.vmaddr = @ + Slide(i)]]

\* The path, which dyld's entry has a default for.
PathLength(i) ==
  IF i = Dyld /\ ReadString(pathAddress[i]) = NoString THEN DefaultPathLength
  ELSE ReadString(pathAddress[i])

MutantCanCreate(i) ==                 \* a path that cannot be read is not noticed
  Readable(LoadAddress[i], 1) /\ Readable(LoadAddress[i], CommandBytes)

\* CreateModuleInfo succeeds.
CanCreate(i) ==
  /\ PathLength(i) # NoString
  /\ Readable(LoadAddress[i], 1) /\ Readable(LoadAddress[i], CommandBytes)

ModuleInfo(i) ==
  [image |-> i, loadAddress |-> LoadAddress[i], pathLength |-> PathLength(i),
   segments |-> SegmentsOf(i), executing |-> FALSE]

\* emplace keeps the element that is there.
Emplace(m) ==
  IF \E n \in moduleInfos : n.loadAddress = m.loadAddress THEN moduleInfos
  ELSE moduleInfos \cup {m}

MutantAddImage ==                     \* an image that cannot be read is skipped
  /\ reading = "images" /\ toAdd # <<>>
  /\ moduleInfos' = IF CanCreate(Head(toAdd)) THEN Emplace(ModuleInfo(Head(toAdd)))
                    ELSE moduleInfos
  /\ toAdd' = Tail(toAdd)
  /\ UNCHANGED <<memoryVars, dyldVars, reading, snapshot, marked, payload, rangeVars>>

\* One image; if anything of it cannot be read, Invalidate.
AddImage ==
  /\ reading = "images" /\ toAdd # <<>>
  /\ IF CanCreate(Head(toAdd))
     THEN /\ moduleInfos' = Emplace(ModuleInfo(Head(toAdd)))
          /\ toAdd' = Tail(toAdd)
     ELSE moduleInfos' = {} /\ toAdd' = <<>>
  /\ UNCHANGED <<memoryVars, dyldVars, reading, snapshot, marked, payload, rangeVars>>

EndConstructor ==
  /\ reading = "images" /\ toAdd = <<>>
  /\ reading' = "done"
  /\ UNCHANGED <<memoryVars, dyldVars, snapshot, toAdd, moduleInfos, marked, payload, rangeVars>>
-----------------------------------------------------------------------------
(* Lookup. *)

ModuleKeys == {m.loadAddress : m \in moduleInfos}

\* The lambda isCodeInModule; the address behind __TEXT counts as inside.
IsCodeInModule(a, m) ==
  \E k \in DOMAIN m.segments :
    /\ m.segments[k].name = "__TEXT"
    /\ a >= m.segments[k].vmaddr /\ a <= m.segments[k].vmaddr + m.segments[k].size

\* GetModuleInfoForAddress: the modules it returns, none or one.
ModuleForAddress(a) ==
  {m \in moduleInfos : m.loadAddress = LookupKey(ModuleKeys, a) /\ IsCodeInModule(a, m)}

MarkAsExecuting(a) ==
  LET found == ModuleForAddress(a) IN
  moduleInfos' = (moduleInfos \ found) \cup {[m EXCEPT !.executing = TRUE] : m \in found}
-----------------------------------------------------------------------------
(* AddThreadsToCore: the memory that is recorded.  DisjointIntervalSet is   *)
(* what its abstract specification says, a set of bytes.                    *)

Ranges == INSTANCE CoveredBytes
            WITH Requests <- Addresses \X Addresses, bytes <- memoryRangesToAdd

\* The check in front of the insertion.  The last address that passes it, whose
\* range ends at AddrLimit and would wrap, is not among CallStackAddresses.
InRange(ip) == ip >= SurroundingsRange /\ ip <= (AddrLimit - 1) - SurroundingsRange

\* One round of the loop over the call stack of a thread.
AddCode(ip) ==
  /\ reading = "done" /\ walking = "after" /\ stackPointer = NoPointer
  /\ Cardinality(marked) < MaxMarks
  /\ IF InRange(ip)
     THEN Ranges!Add(ip - SurroundingsRange, 2 * SurroundingsRange + 1)
     ELSE UNCHANGED memoryRangesToAdd
  /\ MarkAsExecuting(ip)
  /\ marked' = marked \cup {ip}
  /\ UNCHANGED <<memoryVars, dyldVars, reading, snapshot, toAdd, stackPointer, segments, payload>>

\* Then its stack, from the stack pointer to the end of the region that is in,
\* of whichever type it is; nothing if the pointer is in no region.
AddStack(sp) ==
  /\ reading = "done" /\ walking = "after" /\ stackPointer = NoPointer
  /\ stackPointer' = sp
  /\ LET found == RegionInfoForAddress(sp) IN
     \/ found = {} /\ UNCHANGED memoryRangesToAdd
     \/ \E info \in found :
          LET lengthInBytes == info.vmaddr + info.vmsize - sp
          IN  Ranges!Add(info.vmaddr + info.vmsize - lengthInBytes, lengthInBytes)
  /\ UNCHANGED <<memoryVars, dyldVars, listVars, segments>>

\* The ranges of ForEach: what has no neighbour that was collected too.
MergedRanges ==
  {r \in memoryRangesToAdd \X memoryRangesToAdd :
     /\ r[1] <= r[2] /\ r[1] .. r[2] \subseteq memoryRangesToAdd
     /\ r[1] - 1 \notin memoryRangesToAdd /\ r[2] + 1 \notin memoryRangesToAdd}

MutantHasProtection(start) ==         \* nothing is there, so nothing is taken
  \E r \in memory : start \in Bytes(r)

\* GetMemoryProtection succeeds: there is a region at the address or behind it.
HasProtection(start) == RegionsFrom(start) # {}

\* A range becomes a segment, with the protection that its first byte, or the
\* first region behind it, has.
AddSegments ==
  /\ reading = "done" /\ stackPointer # NoPointer
  /\ segments' = {[vmaddr |-> r[1], last |-> r[2], prot |-> MemoryProtection(r[1])]
                    : r \in {q \in MergedRanges : HasProtection(q[1])}}
  /\ reading' = "collected"
  /\ UNCHANGED <<memoryVars, dyldVars, snapshot, toAdd, moduleInfos, marked, payload,
                 stackPointer, memoryRangesToAdd>>
-----------------------------------------------------------------------------
(* CreateAllImageInfosPayload.  Positions are relative to the payload. *)

IsMainExecutable(m) == m.image = Main

\* Modules in the order of the map.
InOrder(S) ==
  CHOOSE q \in SetToSeqs(S) : \A j, k \in DOMAIN q : j < k => q[j].loadAddress < q[k].loadAddress

MutantInPayload == InOrder(moduleInfos)

\* The modules that get an entry.
InPayload == InOrder({m \in moduleInfos : ~IsMainExecutable(m)})

\* -1: the main executable is not in the payload.
nModules == Cardinality(moduleInfos) - 1

\* The payload's parts as ranges: what is written where.
AllImageInfosPayload ==
  LET mods         == InPayload
      pathSizes    == [k \in DOMAIN mods |-> mods[k].pathLength + 1]
      nSegments    == [k \in DOMAIN mods |-> Len(mods[k].segments)]
      entriesSize  == nModules * EntrySize
      segmentsSize == SizesUpTo(nSegments, Len(mods)) * SegmentSize
      pathsSize    == SizesUpTo(pathSizes, Len(mods))
      size         == HeaderSize + entriesSize + segmentsSize + pathsSize
      pathsOffset  == PayloadOffset + size - pathsSize
      segsOffset   == pathsOffset - segmentsSize
      segsBefore(k) == SizesUpTo(nSegments, k - 1)
  IN [size |-> size,
      entries |-> [k \in DOMAIN mods |->
         [at |-> HeaderSize + (k - 1) * EntrySize, module |-> mods[k].image,
          filepath_offset |-> pathsOffset + SizesUpTo(pathSizes, k - 1),
          seg_addrs_offset |-> segsOffset + segsBefore(k) * SegmentSize,
          segment_count |-> nSegments[k], executing |-> mods[k].executing]],
      segments |-> [k \in DOMAIN mods |-> [j \in 1 .. nSegments[k] |->
         [at |-> HeaderSize + entriesSize + (segsBefore(k) + j - 1) * SegmentSize,
          vmaddr |-> mods[k].segments[j].vmaddr]]],
      paths |-> [k \in DOMAIN mods |->
         [at |-> size - pathsSize + SizesUpTo(pathSizes, k - 1), size |-> pathSizes[k]]]]

\* An empty list yields no payload, and fails the dump.
CreatePayload ==
  /\ reading = "collected"
  /\ payload' = IF moduleInfos = {} THEN NoPayload ELSE AllImageInfosPayload
  /\ reading' = "written"
  /\ UNCHANGED <<memoryVars, dyldVars, snapshot, toAdd, moduleInfos, marked, rangeVars>>

\* From the raw load commands, which have not been slid.
GetPreferredTextAddress(m) == TextOf(m.image).vmaddr

\* CreateMainBinSpecPayload: the slide of the main executable, if it is there.
MainBinSpecSlides ==
  {m.loadAddress - GetPreferredTextAddress(m) : m \in {n \in moduleInfos : IsMainExecutable(n)}}
-----------------------------------------------------------------------------
RegionStep ==
  /\ reading = "done"
  /\ \/ BeginWalk \/ AddRegion \/ AddLastRegion
     \/ updates < MaxUpdates /\ \E a \in Addresses : ZoneGrows(a)
  /\ UNCHANGED moduleVars

LibraryNext ==
  \/ ReadImageInfos \/ ReadInfoArray \/ AddImage \/ EndConstructor
  \/ RegionStep
  \/ \E ip \in CallStackAddresses : AddCode(ip)
  \/ \E sp \in StackPointers : AddStack(sp)
  \/ AddSegments \/ CreatePayload

Finished == reading = "written" /\ UNCHANGED vars

Next == DyldNext \/ LibraryNext \/ Finished

Spec == Init /\ [][Next]_vars

\* The dumping thread runs; dyld and the zone are owed nothing.
FairSpec ==
  /\ Spec
  /\ WF_vars(ReadImageInfos \/ ReadInfoArray \/ AddImage \/ EndConstructor)
  /\ WF_vars(reading = "done" /\ (BeginWalk \/ AddRegion \/ AddLastRegion) /\ UNCHANGED moduleVars)
  /\ WF_vars((\E sp \in StackPointers : AddStack(sp)) \/ AddSegments \/ CreatePayload)
-----------------------------------------------------------------------------
TextBytes(m) == m.loadAddress .. m.loadAddress + TextOf(m.image).size - 1

ModuleInfoOK(m) ==
  /\ m.image \in AllImages /\ m.loadAddress \in Addresses
  /\ m.pathLength \in Nat /\ m.executing \in BOOLEAN
  /\ \A k \in DOMAIN m.segments : m.segments[k].vmaddr \in Nat

\* Every variable of the list has its type; of the bytes that are collected, those
\* of the leftover region may be past all addresses.
TypeOK ==
  /\ ToSet(infoArray) \subseteq Images /\ count \in 0 .. Len(infoArray)
  /\ updates \in 0 .. MaxUpdates /\ unloaded \subseteq Images \ {Main}
  /\ reading \in {"infos", "array", "images", "done", "collected", "written"}
  /\ ToSet(toAdd) \subseteq AllImages
  /\ \A m \in moduleInfos : ModuleInfoOK(m)
  /\ \A m, n \in moduleInfos : m.loadAddress = n.loadAddress => m = n
  /\ marked \subseteq CallStackAddresses
  /\ stackPointer \in StackPointers \cup {NoPointer}
  /\ memoryRangesToAdd \subseteq Nat /\ payload.size \in Nat

\* However dyld's list changes while it is read, the module list is empty or has
\* dyld and every image that was loaded all the time; it is empty only if dyld
\* was caught, or went on, changing its list, or if an image could not be read.
ListCompleteOrEmpty ==
  /\ Constructed /\ moduleInfos # {} =>
       {Dyld} \cup (InitiallyLoaded \ unloaded) \subseteq {m.image : m \in moduleInfos}
  /\ Constructed /\ moduleInfos = {} /\ walking = "before" =>
       snapshot.null \/ updates > 0 \/ \E i \in Loaded \cup {Dyld} : ~CanCreate(i)

\* Every segment that the list names lies in mapped memory of the target, in
\* whichever direction the image was slid and however its commands are ordered.
SegmentsWhereMapped ==
  \A m \in moduleInfos : m.image \notin unloaded =>
    \A k \in DOMAIN m.segments : m.segments[k].name # "__PAGEZERO" =>
      \A a \in m.segments[k].vmaddr .. m.segments[k].vmaddr + m.segments[k].size - 1 :
        \E r \in Leaves : a \in Bytes(r)

\* A module counts as executing if an address of its code is on a call stack,
\* and otherwise only because of the address right behind its code.
ExecutingExact ==
  \A m \in moduleInfos :
    /\ marked \cap TextBytes(m) # {} => m.executing
    /\ m.executing => marked \cap (m.loadAddress .. Max(TextBytes(m)) + 1) # {}

\* The bytes that a debugger needs: the code around the addresses on call stacks,
\* and the stack from the stack pointer to the end of the region it has been in.
Needed ==
  (UNION {ip - SurroundingsRange .. ip + SurroundingsRange : ip \in {a \in marked : InRange(a)}})
    \cup (UNION {{a \in Bytes(r) : a >= stackPointer} : r \in {q \in stable : stackPointer \in Bytes(q)}})

\* Each mapped byte that is needed is in exactly one segment, even where ranges
\* begin in unmapped memory or the stack pointer is right behind a region; and
\* an executable address on a call stack, whose protection the debugger checks,
\* is in an executable segment, unless bytes of another region come first in it.
\* A submap is one region here: its code is taken, but with the submap's protection.
NeededMemoryRecorded ==
  reading = "collected" =>
    \A a \in Needed, r \in memory : a \in Bytes(r) =>
      /\ Cardinality({g \in segments : g.vmaddr <= a /\ a <= g.last}) = 1
      /\ a \in marked /\ "exec" \in r.prot =>
           \E g \in segments : /\ g.vmaddr <= a /\ a <= g.last
                               /\ \/ "exec" \in g.prot
                                  \/ \E q \in memory \ {r} : g.vmaddr < End(q) /\ q.base < a

\* The parts of the payload, each with its position, its size and what it is.
Parts ==
  {<<0, HeaderSize, "header", 0, 0>>}
    \cup {<<payload.entries[k].at, EntrySize, "entry", k, 0>> : k \in DOMAIN payload.entries}
    \cup (UNION {{<<payload.segments[k][j].at, SegmentSize, "segment", k, j>>
                    : j \in DOMAIN payload.segments[k]} : k \in DOMAIN payload.segments})
    \cup {<<payload.paths[k].at, payload.paths[k].size, "path", k, 0>> : k \in DOMAIN payload.paths}

\* The parts of the payload fill the vector that was allocated for them without
\* overlapping; the header counts the entries there are, one for each module but
\* the main executable; and the file offsets in an entry are those of the path
\* and the segments of its own module.
PayloadSound ==
  reading = "written" /\ moduleInfos # {} =>
    /\ Len(payload.entries) = nModules
    /\ {e.module : e \in ToSet(payload.entries)} = {m.image : m \in moduleInfos} \ {Main}
    /\ LET parts == Parts IN
       /\ \A p, q \in parts : p # q => p[1] + p[2] <= q[1] \/ q[1] + q[2] <= p[1]
       /\ \A p \in parts : p[1] + p[2] <= payload.size
       /\ \A b \in 0 .. payload.size - 1 : \E p \in parts : p[1] <= b /\ b < p[1] + p[2]
    /\ \A k \in DOMAIN payload.entries :
         LET e == payload.entries[k]
             m == CHOOSE m \in moduleInfos : m.image = e.module
         IN  /\ e.filepath_offset = PayloadOffset + payload.paths[k].at
             /\ payload.paths[k].size = m.pathLength + 1
             /\ e.segment_count = Len(m.segments)
             /\ \A j \in 1 .. e.segment_count :
                  /\ payload.segments[k][j].at =
                       e.seg_addrs_offset - PayloadOffset + (j - 1) * SegmentSize
                  /\ payload.segments[k][j].vmaddr = m.segments[j].vmaddr
    /\ MainBinSpecSlides = {Slide(Main)}

\* The dump gets its lists and its payload, whatever dyld and the zone do.
CollectionEnds == <>(reading = "written")
=============================================================================
