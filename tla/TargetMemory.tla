---------------------------- MODULE TargetMemory ----------------------------
(***************************************************************************)
(* How a dump looks at the address space of the target.                    *)
(*                                                                         *)
(* MemoryRegionList walks over the kernel's regions once and keeps a map   *)
(* that is consulted for every stack pointer and every invalid program     *)
(* counter.  ReadProcessMemory copies bytes, all or none of them, and      *)
(* ReadProcessMemoryString has to find out first how far it may read.      *)
(*                                                                         *)
(* An entry of the address space may be a submap, as the one of the shared *)
(* cache is: it has regions of its own, and gaps between them.  Everything *)
(* here asks the kernel with a nesting depth of 0 and gets the submap as   *)
(* one region, with one protection.  Only the copying of bytes goes by     *)
(* what is inside.                                                         *)
(*                                                                         *)
(* The address space may change during the walk: a process that dumps      *)
(* itself allocates from the library's zone, which maps pages.             *)
(***************************************************************************)
EXTENDS Integers, FiniteSets, FiniteSetsExt

CONSTANTS
  AddrLimit,   \* addresses are 0 .. AddrLimit - 1
  PageSize,    \* PageSize of GetMemoryRegionEndDistance, the kernel's granule
  MaxString,   \* the longest string that is read, with its terminator
  Maps,        \* the address spaces a target may have, sets of regions
  Nested,      \* the regions inside of submaps
  ZeroBytes,   \* sets of addresses that may be the ones holding a zero byte
  MaxGrowth    \* bound on the pages that the zone maps during the walk

Addresses == 0 .. AddrLimit - 1

Tags == {"stack", "malloc", "other", "submap"}

Regions == [base : Addresses, size : 1 .. AddrLimit,
            prot : SUBSET {"read", "exec"}, tag : Tags]

End(r) == r.base + r.size

Bytes(r) == r.base .. End(r) - 1

IsSubmap(r) == r.tag = "submap"

\* What is really mapped: regions, and those inside of submaps.
LeavesOf(m) ==
  {r \in m : ~IsSubmap(r)}
    \cup {n \in Nested : \E s \in m : IsSubmap(s) /\ Bytes(n) \subseteq Bytes(s)}

\* The kernel hands out whole pages, and a string is at most one page long.
ASSUME MemoryAssumption ==
  /\ AddrLimit \in Nat /\ PageSize \in 1 .. AddrLimit
  /\ MaxString \in 1 .. PageSize /\ MaxGrowth \in Nat
  /\ \A m \in Maps :
       /\ m \subseteq Regions /\ IsFiniteSet(m) /\ m # {}
       /\ \A r \in m : End(r) <= AddrLimit /\ r.base % PageSize = 0 /\ r.size % PageSize = 0
       /\ \A r, s \in m : r # s => Bytes(r) \cap Bytes(s) = {}
  /\ \A n \in Nested : n \in Regions /\ ~IsSubmap(n)
  /\ \A z \in ZeroBytes : z \subseteq Addresses

VARIABLES
  memory,       \* the regions of the target that the kernel reports at depth 0
  zeros,        \* the addresses that hold a zero byte
  address,      \* where the walk over the regions goes on
  last,         \* what vm_region_recurse_64 has returned last
  walking,      \* the walk: "before", "loop" or "after" it
  regionInfos,  \* m_regionInfos
  stable,       \* the regions that have been there since the walk began
  growth        \* number of pages the zone has mapped

memoryVars == <<memory, zeros, address, last, walking, regionInfos, stable, growth>>

\* Before the first call info is uninitialized; a live task has regions.
NoRegion == [base |-> 0, size |-> 0, prot |-> {}, tag |-> "other"]

MemoryInit ==
  /\ memory \in Maps
  /\ zeros \in ZeroBytes
  /\ address = 0 /\ last = NoRegion
  /\ walking = "before"
  /\ regionInfos = {} /\ stable = {}
  /\ growth = 0
-----------------------------------------------------------------------------
(* The kernel. *)

\* vm_region_recurse_64 with a nesting depth of 0 finds the region that contains
\* the address, or else the first one behind it, and fails when there is none.  It
\* does not enter a submap, and leaves the depth at 0 for the next call.
RegionsFrom(a) == {r \in memory : a < End(r)}

vm_region_recurse_64(a) ==
  CHOOSE r \in RegionsFrom(a) : \A s \in RegionsFrom(a) : r.base <= s.base

Leaves == LeavesOf(memory)

\* vm_read_overwrite copies the bytes if it can read all of them.
Readable(a, size) ==
  \A b \in a .. a + size - 1 : \E r \in Leaves : b \in Bytes(r) /\ "read" \in r.prot
-----------------------------------------------------------------------------
(* MemoryRegionList *)

\* regionInfo.type
RegionType(r) ==
  CASE r.tag = "stack" /\ r.prot # {} -> "Stack"
    [] r.tag = "malloc" -> "Heap"
    [] OTHER -> "Unknown"

RegionInfo(vmaddr, r) ==
  [vmaddr |-> vmaddr, vmsize |-> r.size, prot |-> r.prot, type |-> RegionType(r)]

\* std::map::insert does not replace an element.
InsertRegion(info) ==
  IF \E i \in regionInfos : i.vmaddr = info.vmaddr THEN regionInfos
  ELSE regionInfos \cup {info}

BeginWalk ==
  /\ walking = "before"
  /\ walking' = "loop"
  /\ stable' = memory
  /\ UNCHANGED <<memory, zeros, address, last, regionInfos, growth>>

MutantNextAddress(r) == r.base        \* address += size is missing

\* The address of the next call.
NextAddress(r) == End(r)

\* One round of the loop with a region to report.
AddRegion ==
  /\ walking = "loop" /\ RegionsFrom(address) # {}
  /\ LET r == vm_region_recurse_64(address) IN
       /\ regionInfos' = InsertRegion(RegionInfo(r.base, r))
       /\ last' = r
       /\ address' = NextAddress(r)
  /\ UNCHANGED <<memory, zeros, walking, stable, growth>>

\* The last round: the call fails and leaves its arguments alone, and what they
\* hold, the size and protection of the last region, is added as one more.
AddLastRegion ==
  /\ walking = "loop" /\ RegionsFrom(address) = {}
  /\ regionInfos' = InsertRegion(RegionInfo(address, last))
  /\ walking' = "after"
  /\ UNCHANGED <<memory, zeros, address, last, stable, growth>>

\* An insertion of the walk's own process makes the zone map a page: a new
\* region, or one that the kernel coalesces with the heap region in front of it.
ZoneGrows(page) ==
  LET new  == [base |-> page, size |-> PageSize, prot |-> {"read"}, tag |-> "malloc"]
      prev == {r \in memory : End(r) = page /\ r.tag = "malloc" /\ r.prot = {"read"}}
  IN
  /\ walking = "loop" /\ growth < MaxGrowth
  /\ page > 0 /\ page % PageSize = 0 /\ page + PageSize <= AddrLimit
  /\ \A r \in memory : Bytes(r) \cap Bytes(new) = {}
  /\ \/ memory' = memory \cup {new}
     \/ /\ prev # {}
        /\ memory' = (memory \ prev) \cup
                     {[r EXCEPT !.size = @ + PageSize] : r \in prev}
  /\ growth' = growth + 1
  /\ UNCHANGED <<zeros, address, last, walking, regionInfos, stable>>

MutantLookupKey(keys, a) ==           \* the iterator is not moved back
  LET atOrAbove == {k \in keys : k >= a} IN
  IF atOrAbove = {} THEN Max(keys) ELSE Min(atOrAbove)

\* The element of an ordered map that may contain the address: the last one,
\* the first one, or the one in front of the first that is not below it.
LookupKey(keys, a) ==
  LET atOrAbove == {k \in keys : k >= a} IN
  IF atOrAbove = {} THEN Max(keys)
  ELSE IF a \in keys \/ Min(atOrAbove) = Min(keys) THEN Min(atOrAbove)
  ELSE Max({k \in keys : k < a})

RegionKeys == {i.vmaddr : i \in regionInfos}

Candidate(a) == CHOOSE i \in regionInfos : i.vmaddr = LookupKey(RegionKeys, a)

MutantIsInRegion(a, i) == a <= i.vmaddr + i.vmsize         \* no lower end

\* The lambda isInRegion; the address behind the region counts as inside.
IsInRegion(a, i) == a >= i.vmaddr /\ a <= i.vmaddr + i.vmsize

\* GetRegionInfoForAddress: the regions it returns, none or one.
RegionInfoForAddress(a) ==
  IF regionInfos = {} THEN {} ELSE {i \in {Candidate(a)} : IsInRegion(a, i)}
-----------------------------------------------------------------------------
(* ReadProcessMemory *)

MutantEndDistance(a) == End(vm_region_recurse_64(a)) - a   \* one region only

\* GetMemoryRegionEndDistance, for an address with a region at or behind it.
EndDistance(a) ==
  LET r    == vm_region_recurse_64(a)
      next == {s \in RegionsFrom(End(r)) :
                 s = vm_region_recurse_64(End(r)) /\ s.base = End(r) /\ "read" \in s.prot}
      dist == End(r) - a
  IN  IF dist < PageSize /\ next # {}
      THEN dist + (CHOOSE s \in next : TRUE).size ELSE dist

NoString == -1

\* ReadProcessMemoryString: the length of the string, if it can be read.
ReadString(a) ==
  IF RegionsFrom(a) = {} THEN NoString
  ELSE LET sizeToRead == Min({EndDistance(a), MaxString})
           ends == {b \in zeros : a <= b /\ b < a + sizeToRead}
       IN  IF Readable(a, sizeToRead) /\ ends # {} THEN Min(ends) - a ELSE NoString

\* GetMemoryProtection: the protection a segment command gets for its range.
MemoryProtection(start) == vm_region_recurse_64(start).prot
-----------------------------------------------------------------------------
\* The protection of a byte's entry does not tell whether the byte can be read,
\* which happens inside of submaps only.
IsMasked(b) ==
  ~(Readable(b, 1) <=> \E r \in memory : b \in Bytes(r) /\ "read" \in r.prot)

\* A string is read exactly if it ends in time and its bytes can be read, also
\* when it runs on into the next region and when that one cannot be read.  The one
\* way to miss a string is a masked byte within the longest string from there.
StringReadExact ==
  \A a \in Addresses :
    LET ends == {b \in zeros : a <= b /\ b < a + MaxString}
    IN  \/ ReadString(a) = IF ends # {} /\ Readable(a, Min(ends) - a + 1)
                           THEN Min(ends) - a ELSE NoString
        \/ ReadString(a) = NoString /\ \E b \in a .. a + MaxString - 1 : IsMasked(b)

\* Whatever the zone maps in the meantime, each mapped address that has been there
\* all the time is found: in a region of its own with its protection and type, that
\* the walk over the stack and the choice of stack memory rely on, and mapped from
\* there to its end; inside of a submap with what is said of the whole submap.
MappedAddressesFound ==
  walking = "after" =>
    \A n \in LeavesOf(stable) : \A a \in Bytes(n) :
      \E i \in RegionInfoForAddress(a), r \in stable :
        /\ a \in Bytes(r) /\ (r = n \/ IsSubmap(r))
        /\ i.prot = r.prot /\ i.prot = MemoryProtection(a) /\ i.type = RegionType(r)
        /\ r = n => \A b \in a .. i.vmaddr + i.vmsize - 1 : \E s \in Leaves : b \in Bytes(s)

\* A lookup goes wrong only in three places: right behind a region, in the region
\* that the failing call left behind all others, and in a gap of a submap.  No
\* other address that is not mapped is ever taken for a valid one.
FalseHitsOnlyBehind ==
  walking = "after" =>
    \A a \in Addresses :
      RegionInfoForAddress(a) # {} =>
        \/ \E r \in Leaves : a \in Bytes(r) \/ a = End(r)
        \/ \A r \in stable : End(r) <= a
        \/ \E s \in memory : IsSubmap(s) /\ s.base <= a /\ a <= End(s)
=============================================================================
