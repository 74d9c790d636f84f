-------------------------- MODULE ModuleListProofs --------------------------
(***************************************************************************)
(* Theorems about the module list and the memory that is recorded with it. *)
(* Images are read while the target may load and unload others, and memory *)
(* regions while the library's own zone may grow.  Each theorem rests on an*)
(* invariant of what a loop has established so far: ListInv for the list of*)
(* images, RegionInv for the list of regions, ExecInv for the executing    *)
(* modules, NeedInv for the memory to be recorded, SegmentInv for the      *)
(* segments of the images, and PayInv for the payload made of the list.    *)
(***************************************************************************)
EXTENDS ModuleList, SumsProofs
-----------------------------------------------------------------------------
(* What an image looks like does not change as long as memory does not. *)

\* The reads of an image depend on the target's memory only.
LEMMA CanCreateStays ==
  ASSUME UNCHANGED <<memory, zeros, pathAddress>>, NEW i
  PROVE  CanCreate(i)' = CanCreate(i)
<1>1. \A a : RegionsFrom(a)' = RegionsFrom(a)
  BY DEF RegionsFrom
<1>2. \A a : vm_region_recurse_64(a)' = vm_region_recurse_64(a)
  BY <1>1 DEF vm_region_recurse_64
<1>3. \A a : EndDistance(a)' = EndDistance(a)
  BY <1>1, <1>2 DEF EndDistance
<1>4. \A a, n : Readable(a, n)' = Readable(a, n)
  BY DEF Readable, Leaves, LeavesOf
<1>5. \A a : ReadString(a)' = ReadString(a)
  BY <1>1, <1>3, <1>4 DEF ReadString
<1>6. PathLength(i)' = PathLength(i)
  BY <1>5 DEF PathLength
<1> QED
  BY <1>4, <1>6 DEF CanCreate

\* The sequences that name each element of a set once name all of them.
LEMMA NamesAll ==
  ASSUME NEW S, IsFiniteSet(S), NEW q \in SetToSeqs(S)
  PROVE  /\ q \in Seq(S)
         /\ \A x \in S : \E k \in 1 .. Len(q) : q[k] = x
<1>1. Cardinality(S) \in Nat
  BY FS_CardinalityType
<1>2. IsFiniteSet(1 .. Cardinality(S)) /\ Cardinality(1 .. Cardinality(S)) = Cardinality(S)
  BY <1>1, FS_Interval
<1>3. q \in Injection(1 .. Cardinality(S), S)
  BY DEF SetToSeqs, Injection, IsInjective
<1>4. q \in Surjection(1 .. Cardinality(S), S)
  BY <1>2, <1>3, FS_Injection
<1>5. q \in [1 .. Cardinality(S) -> S]
  BY <1>3 DEF Injection
<1>6. q \in Seq(S) /\ Len(q) = Cardinality(S)
  BY <1>1, <1>5
<1> QED
  BY <1>4, <1>6 DEF Surjection
-----------------------------------------------------------------------------
(* The invariant of the constructor. *)

\* dyld's array and what the constructor has taken of it have their types.
Types ==
  /\ infoArray \in Seq(Images) /\ count \in 0 .. Len(infoArray)
  /\ updates \in Nat /\ updating \in BOOLEAN
  /\ reading \in {"infos", "array", "images", "done", "collected", "written"}
  /\ snapshot \in [count : Nat, null : BOOLEAN, updates : Nat]
  /\ toAdd \in Seq(AllImages)

\* An element of m_moduleInfos says of its image what the image is.
IsModule(m) ==
  /\ m.image \in AllImages
  /\ m = [image |-> m.image, loadAddress |-> LoadAddress[m.image], pathLength |-> m.pathLength,
          segments |-> SegmentsOf(m.image), executing |-> m.executing]

\* The images that have to be in the list.
Lasting == InitiallyLoaded \ unloaded

\* An image that stays loaded only moves towards the front of the array: it is
\* among the first ones that the snapshot counts as long as they are to be read.
ArrayOK ==
  /\ \A i \in Lasting : \E k \in 1 .. count :
       infoArray[k] = i /\ (reading = "array" => k <= snapshot.count)
  /\ reading = "infos" => snapshot.null
  /\ reading = "array" => snapshot.count <= Len(infoArray)
  /\ reading = "array" /\ updates = 0 => snapshot.count = count

\* Every lasting image is in the list or among the ones still to be added,
\* or nothing will be in the list any more.
ListOK ==
  /\ \A m \in moduleInfos : IsModule(m)
  /\ reading \in {"infos", "array"} => moduleInfos = {} /\ toAdd = <<>>
  /\ reading \notin {"infos", "array"} =>
       \/ moduleInfos = {} /\ toAdd = <<>>
       \/ \A i \in {Dyld} \cup Lasting :
            i \in {m.image : m \in moduleInfos} \cup ToSet(toAdd)
  /\ Constructed => toAdd = <<>>

\* Why a list is empty.
Reason ==
  snapshot.null \/ updates > 0 \/ \E i \in Loaded \cup {Dyld} : ~CanCreate(i)

ReasonOK ==
  /\ reading = "images" /\ updates = 0 => ToSet(toAdd) \subseteq Loaded \cup {Dyld}
  /\ reading \notin {"infos", "array"} /\ toAdd = <<>> /\ moduleInfos = {} /\ walking = "before"
       => Reason

ListInv == Types /\ ArrayOK /\ ListOK /\ ReasonOK
-----------------------------------------------------------------------------
(* The invariant holds from the beginning and is kept by every step. *)

\* A live process starts with its main executable first in dyld's array.
LEMMA ListInit == Init => ListInv
<1> SUFFICES ASSUME Init PROVE ListInv
  OBVIOUS
<1> DEFINE Others == InitiallyLoaded \ {Main}
<1>1. PICK q \in SetToSeqs(Others) : infoArray = <<Main>> \o q
  BY Zenon DEF Init
<1>2. IsFiniteSet(Others)
  BY ImageAssumption, FS_RemoveElement
<1>3. q \in Seq(Others) /\ \A x \in Others : \E k \in 1 .. Len(q) : q[k] = x
  <2> HIDE DEF Others
  <2> QED
    BY <1>1, <1>2, NamesAll
<1>4. Main \in Images /\ Others \subseteq Images
  BY ImageAssumption
<1>5. q \in Seq(Images)
  BY <1>3, <1>4
<1>6. /\ infoArray \in Seq(Images) /\ Len(infoArray) = Len(q) + 1 /\ infoArray[1] = Main
      /\ \A k \in 1 .. Len(q) : infoArray[k + 1] = q[k]
  BY <1>1, <1>4, <1>5
<1>7. \A i \in InitiallyLoaded : \E k \in 1 .. Len(infoArray) : infoArray[k] = i
  <2> SUFFICES ASSUME NEW i \in InitiallyLoaded
               PROVE  \E k \in 1 .. Len(infoArray) : infoArray[k] = i
    OBVIOUS
  <2>1. CASE i = Main
    BY <1>5, <1>6, <2>1
  <2>2. CASE i # Main
    <3>1. PICK k \in 1 .. Len(q) : q[k] = i
      BY <1>3, <2>2
    <3>2. k + 1 \in 1 .. Len(infoArray) /\ infoArray[k + 1] = i
      BY <1>5, <1>6, <3>1
    <3> QED
      BY <3>2
  <2> QED
    BY <2>1, <2>2
<1>8. Types
  BY <1>6 DEF Init, Types
<1>9. ArrayOK
  BY <1>7 DEF Init, ArrayOK, Lasting
<1>10. ListOK
  BY DEF Init, ListOK, Constructed
<1>11. ReasonOK
  BY DEF Init, ReasonOK
<1> QED
  BY <1>8, <1>9, <1>10, <1>11 DEF ListInv

\* Steps that leave dyld's list and the constructor alone, and memory as well
\* before the regions are walked.
LEMMA ListQuiet ==
  ASSUME ListInv,
         UNCHANGED <<infoArray, count, updates, unloaded, reading, snapshot, toAdd>>,
         moduleInfos' = moduleInfos, updating' \in BOOLEAN,
         walking' = "before" => walking = "before" /\ UNCHANGED <<memory, zeros, pathAddress>>
  PROVE  ListInv'
<1>1. Types' /\ ArrayOK'
  BY DEF ListInv, Types, ArrayOK, Lasting
<1>2. ListOK'
  BY DEF ListInv, ListOK, Lasting, Constructed, IsModule, SegmentsOf, Slide, TextOf
<1>3. ReasonOK'
  <2>1. Loaded' = Loaded
    BY DEF Loaded
  <2>2. CASE walking' # "before"
    BY <2>1, <2>2 DEF ListInv, ReasonOK
  <2>3. CASE walking' = "before"
    <3>1. \A i : CanCreate(i)' = CanCreate(i)
      BY <2>3, CanCreateStays
    <3>2. Reason => Reason'
      BY <2>1, <3>1 DEF Reason
    <3> QED
      BY <2>1, <2>3, <3>2 DEF ListInv, ReasonOK
  <2> QED
    BY <2>2, <2>3
<1> QED
  BY <1>1, <1>2, <1>3 DEF ListInv

\* A change of dyld's list is a reason for anything.
LEMMA ListUpdated ==
  ASSUME ListInv, Types', ArrayOK', unloaded \subseteq unloaded', updates' > 0,
         UNCHANGED <<reading, snapshot, toAdd>>, moduleInfos' = moduleInfos
  PROVE  ListInv'
<1>1. ListOK'
  BY DEF ListInv, ListOK, Lasting, Constructed, IsModule, SegmentsOf, Slide, TextOf
<1>2. ReasonOK'
  BY DEF ListInv, Types, ReasonOK, Reason
<1> QED
  BY <1>1, <1>2 DEF ListInv

\* dlopen leaves the entries in use where they are.
LEMMA ListLoad ==
  ASSUME ListInv, NEW i \in Images, Load(i)
  PROVE  ListInv'
<1>0. updating' = FALSE
  BY DEF Load, EndUpdate
<1>1. updates' = updates + 1 /\ updates' \in Nat /\ updates' > 0
  BY DEF ListInv, Types, Load, EndUpdate
<1>2. /\ UNCHANGED <<reading, snapshot, toAdd, unloaded>> /\ moduleInfos' = moduleInfos
      /\ count' = count + 1
      /\ infoArray' = IF count < Len(infoArray) THEN [infoArray EXCEPT ![count + 1] = i]
                      ELSE Append(infoArray, i)
  BY DEF Load, listVars
<1>3. infoArray \in Seq(Images) /\ count \in 0 .. Len(infoArray)
  BY DEF ListInv, Types
<1>4. /\ infoArray' \in Seq(Images) /\ count' \in 0 .. Len(infoArray')
      /\ Len(infoArray) <= Len(infoArray')
      /\ \A k \in 1 .. count : infoArray'[k] = infoArray[k]
  <2>1. CASE count < Len(infoArray)
    BY <1>2, <1>3, <2>1
  <2>2. CASE ~(count < Len(infoArray))
    BY <1>2, <1>3, <2>2
  <2> QED
    BY <2>1, <2>2
<1>5. Types'
  BY <1>0, <1>1, <1>2, <1>4 DEF ListInv, Types
<1>6. ArrayOK'
  <2>1. Lasting' = Lasting
    BY <1>2 DEF Lasting
  <2>2. \A k \in 1 .. count : k \in 1 .. count'
    BY <1>2, <1>3
  <2>3. \A j \in Lasting : \E k \in 1 .. count' :
          infoArray'[k] = j /\ (reading' = "array" => k <= snapshot'.count)
    BY <1>2, <1>4, <2>2 DEF ListInv, ArrayOK
  <2>4. reading' = "array" => snapshot'.count <= Len(infoArray')
    <3>1. snapshot.count \in Nat /\ Len(infoArray) \in Nat /\ Len(infoArray') \in Nat
      BY <1>3, <1>4 DEF ListInv, Types
    <3> QED
      BY <1>2, <1>4, <3>1 DEF ListInv, ArrayOK
  <2>5. reading' = "infos" => snapshot'.null
    BY <1>2 DEF ListInv, ArrayOK
  <2>6. updates' # 0
    BY <1>1
  <2> QED
    BY <2>1, <2>3, <2>4, <2>5, <2>6 DEF ArrayOK
<1> QED
  BY <1>1, <1>2, <1>5, <1>6, ListUpdated

\* dlclose moves entries towards the front.
LEMMA ListUnload ==
  ASSUME ListInv, NEW i \in Images, Unload(i)
  PROVE  ListInv'
<1> DEFINE k0 == CHOOSE k \in 1 .. count : infoArray[k] = i
<1>0. updating' = FALSE
  BY DEF Unload, EndUpdate
<1>1. updates' = updates + 1 /\ updates' \in Nat /\ updates' > 0
  BY DEF ListInv, Types, Unload, EndUpdate
<1>2. /\ UNCHANGED <<reading, snapshot, toAdd>> /\ moduleInfos' = moduleInfos
      /\ unloaded' = unloaded \cup {i}
      /\ count' = count - 1 /\ i \in Loaded
      /\ infoArray' = [j \in DOMAIN infoArray |->
                         IF k0 <= j /\ j < count THEN infoArray[j + 1] ELSE infoArray[j]]
  BY DEF Unload, listVars
<1>3. infoArray \in Seq(Images) /\ count \in 0 .. Len(infoArray)
  BY DEF ListInv, Types
<1>4. \E k \in 1 .. count : infoArray[k] = i
  BY <1>2, <1>3 DEF Loaded, ToSet
<1>5. k0 \in 1 .. count /\ infoArray[k0] = i
  BY <1>4
<1> HIDE DEF k0
<1>6. /\ infoArray' \in Seq(Images) /\ Len(infoArray') = Len(infoArray)
      /\ count' \in 0 .. Len(infoArray')
  <2>1. \A j \in 1 .. Len(infoArray) : k0 <= j /\ j < count => j + 1 \in 1 .. Len(infoArray)
    BY <1>3, <1>5
  <2>2. infoArray' \in [1 .. Len(infoArray) -> Images]
    BY <1>2, <1>3, <2>1
  <2>3. infoArray' \in Seq(Images) /\ Len(infoArray') = Len(infoArray)
    BY <1>3, <2>2
  <2> QED
    BY <1>2, <1>3, <1>5, <2>3
<1>7. Types'
  BY <1>0, <1>1, <1>2, <1>6 DEF ListInv, Types
<1>8. ArrayOK'
  <2>1. \A j \in Lasting' : \E k \in 1 .. count' :
          infoArray'[k] = j /\ (reading' = "array" => k <= snapshot'.count)
    <3> SUFFICES ASSUME NEW j \in Lasting'
                 PROVE  \E k \in 1 .. count' :
                          infoArray'[k] = j /\ (reading' = "array" => k <= snapshot'.count)
      OBVIOUS
    <3>1. j \in Lasting /\ j # i
      BY <1>2 DEF Lasting
    <3>2. PICK k \in 1 .. count : infoArray[k] = j /\ (reading = "array" => k <= snapshot.count)
      BY <3>1 DEF ListInv, ArrayOK
    <3>3. k # k0 /\ k \in 1 .. Len(infoArray)
      BY <1>3, <1>5, <3>1, <3>2
    <3>4. CASE k < k0
      <4>1. k \in 1 .. count' /\ ~(k0 <= k)
        BY <1>2, <1>3, <1>5, <3>2, <3>4
      <4>2. infoArray'[k] = j
        BY <1>2, <1>3, <3>2, <3>3, <4>1
      <4> QED
        BY <1>2, <3>2, <4>1, <4>2
    <3>5. CASE k > k0
      <4>1. /\ k - 1 \in 1 .. count' /\ k - 1 \in 1 .. Len(infoArray)
            /\ k0 <= k - 1 /\ k - 1 < count /\ (k - 1) + 1 = k
        BY <1>2, <1>3, <1>5, <3>2, <3>5
      <4>2. infoArray'[k - 1] = j
        BY <1>2, <1>3, <3>2, <4>1
      <4>3. reading' = "array" => k - 1 <= snapshot'.count
        <5>1. snapshot.count \in Nat
          BY DEF ListInv, Types
        <5> QED
          BY <1>2, <3>2, <5>1
      <4> QED
        BY <4>1, <4>2, <4>3
    <3> QED
      BY <1>5, <3>2, <3>3, <3>4, <3>5
  <2> QED
    BY <1>1, <1>2, <1>6, <2>1 DEF ListInv, ArrayOK
<1>9. unloaded \subseteq unloaded'
  BY <1>2
<1> QED
  BY <1>1, <1>2, <1>7, <1>8, <1>9, ListUpdated

\* The snapshot counts the array that is there, or nothing is read at all.
LEMMA ListReadImageInfos == ListInv /\ ReadImageInfos => ListInv'
<1> SUFFICES ASSUME ListInv, ReadImageInfos PROVE ListInv'
  OBVIOUS
<1>1. /\ reading = "infos"
      /\ UNCHANGED <<infoArray, count, updating, updates, unloaded, toAdd, moduleInfos>>
      /\ UNCHANGED <<memory, zeros, pathAddress, walking>>
  BY DEF ReadImageInfos, memoryVars, dyldVars
<1>2. moduleInfos = {} /\ toAdd = <<>> /\ snapshot.null
  BY <1>1 DEF ListInv, ListOK, ArrayOK
<1>3. CASE snapshot' = [count |-> count, null |-> updating, updates |-> updates] /\ reading' = "array"
  <2>1. updating \in BOOLEAN
    BY DEF ListInv, Types
  <2>2. Types'
    BY <1>1, <1>3, <2>1 DEF ListInv, Types
  <2>3. ArrayOK'
    BY <1>1, <1>3, <2>1 DEF ListInv, Types, ArrayOK, Lasting
  <2>4. ListOK'
    BY <1>1, <1>2, <1>3 DEF ListOK, Constructed
  <2>5. ReasonOK'
    BY <1>3 DEF ReasonOK
  <2> QED
    BY <2>2, <2>3, <2>4, <2>5 DEF ListInv
<1>4. CASE UNCHANGED snapshot /\ reading' = "done"
  <2>2. Types'
    BY <1>1, <1>4 DEF ListInv, Types
  <2>3. ArrayOK'
    BY <1>1, <1>4 DEF ListInv, Types, ArrayOK, Lasting
  <2>4. ListOK'
    BY <1>1, <1>2, <1>4 DEF ListOK, Constructed
  <2>5. ReasonOK'
    BY <1>2, <1>4 DEF ReasonOK, Reason
  <2> QED
    BY <2>2, <2>3, <2>4, <2>5 DEF ListInv
<1> QED
  BY <1>3, <1>4 DEF ReadImageInfos

\* What is read of the array has every lasting image in it.
LEMMA ListReadInfoArray == ListInv /\ ReadInfoArray => ListInv'
<1> SUFFICES ASSUME ListInv, ReadInfoArray PROVE ListInv'
  OBVIOUS
<1>1. /\ reading = "array"
      /\ UNCHANGED <<infoArray, count, updating, updates, unloaded, snapshot, moduleInfos>>
      /\ UNCHANGED <<memory, zeros, pathAddress, walking>>
  BY DEF ReadInfoArray, memoryVars, dyldVars
<1>2. moduleInfos = {} /\ toAdd = <<>>
  BY <1>1 DEF ListInv, ListOK
<1>3. CASE ~snapshot.null /\ toAdd' = <<Dyld>> \o SubSeq(infoArray, 1, snapshot.count)
           /\ reading' = "images"
  <2> DEFINE read == SubSeq(infoArray, 1, snapshot.count)
  <2>1. infoArray \in Seq(Images) /\ snapshot.count \in 0 .. Len(infoArray)
    BY <1>1 DEF ListInv, Types, ArrayOK
  <2>2. /\ read \in Seq(Images) /\ Len(read) = snapshot.count
        /\ \A k \in 1 .. snapshot.count : read[k] = infoArray[k]
    BY <2>1
  <2>3. read \in Seq(AllImages) /\ Dyld \in AllImages
    BY <2>2 DEF AllImages
  <2> HIDE DEF read
  <2>4. /\ toAdd' \in Seq(AllImages) /\ Len(toAdd') = snapshot.count + 1 /\ toAdd'[1] = Dyld
        /\ \A k \in 1 .. snapshot.count : toAdd'[k + 1] = infoArray[k]
    BY <1>3, <2>1, <2>2, <2>3 DEF read
  <2>5. Types'
    BY <1>1, <1>3, <2>4 DEF ListInv, Types
  <2>6. ArrayOK'
    BY <1>1, <1>3 DEF ListInv, ArrayOK, Lasting
  <2>7. ToSet(toAdd') = {Dyld} \cup {infoArray[k] : k \in 1 .. snapshot.count}
    <3>1. ASSUME NEW k \in 1 .. Len(toAdd')
          PROVE  toAdd'[k] \in {Dyld} \cup {infoArray[j] : j \in 1 .. snapshot.count}
      <4>1. CASE k = 1
        BY <2>4, <4>1
      <4>2. CASE k # 1
        <5>1. k - 1 \in 1 .. snapshot.count /\ (k - 1) + 1 = k
          BY <2>1, <2>4, <3>1, <4>2
        <5> QED
          BY <2>4, <5>1
      <4> QED
        BY <4>1, <4>2
    <3>2. Dyld \in ToSet(toAdd')
      <4>1. 1 \in DOMAIN toAdd'
        BY <2>1, <2>4
      <4> QED
        BY <2>4, <4>1 DEF ToSet
    <3>3. ASSUME NEW k \in 1 .. snapshot.count PROVE infoArray[k] \in ToSet(toAdd')
      <4>1. k + 1 \in DOMAIN toAdd'
        BY <2>1, <2>4
      <4> QED
        BY <2>4, <4>1 DEF ToSet
    <3>4. DOMAIN toAdd' = 1 .. Len(toAdd')
      BY <2>4
    <3> QED
      BY <3>1, <3>2, <3>3, <3>4 DEF ToSet
  <2>8. ListOK'
    <3>1. \A i \in Lasting : \E k \in 1 .. snapshot.count : infoArray[k] = i
      <4>1. count \in Nat /\ snapshot.count \in Nat
        BY <2>1 DEF ListInv, Types
      <4> QED
        BY <1>1, <4>1 DEF ListInv, ArrayOK
    <3>2. \A i \in {Dyld} \cup Lasting' : i \in ToSet(toAdd')
      BY <1>1, <2>7, <3>1 DEF Lasting
    <3> QED
      BY <1>1, <1>2, <1>3, <3>2 DEF ListOK, Constructed
  <2>9. ReasonOK'
    <3>1. toAdd' # <<>>
      BY <2>1, <2>4
    <3>2. ASSUME updates' = 0 PROVE ToSet(toAdd') \subseteq Loaded' \cup {Dyld}
      <4>1. snapshot.count = count
        BY <1>1, <3>2 DEF ListInv, ArrayOK
      <4>2. Loaded' = Loaded
        BY <1>1 DEF Loaded
      <4>3. Loaded = {infoArray[k] : k \in 1 .. count}
        <5>1. Loaded = {read[k] : k \in 1 .. count}
          BY <2>1, <2>2, <4>1 DEF Loaded, ToSet, read
        <5> QED
          BY <2>2, <4>1, <5>1
      <4> QED
        BY <2>7, <4>1, <4>2, <4>3
    <3> QED
      BY <3>1, <3>2 DEF ReasonOK
  <2> QED
    BY <2>5, <2>6, <2>8, <2>9 DEF ListInv
<1>4. CASE (snapshot.null \/ updates > snapshot.updates) /\ reading' = "done" /\ UNCHANGED toAdd
  <2>2. Types'
    BY <1>1, <1>4 DEF ListInv, Types
  <2>3. ArrayOK'
    BY <1>1, <1>4 DEF ListInv, Types, ArrayOK, Lasting
  <2>4. ListOK'
    BY <1>1, <1>2, <1>4 DEF ListOK, Constructed
  <2>5. ReasonOK'
    <3>1. updates \in Nat /\ snapshot.updates \in Nat
      BY DEF ListInv, Types
    <3>2. snapshot'.null \/ updates' > 0
      BY <1>1, <1>4, <3>1
    <3> QED
      BY <1>4, <3>2 DEF ReasonOK, Reason
  <2> QED
    BY <2>2, <2>3, <2>4, <2>5 DEF ListInv
<1> QED
  BY <1>3, <1>4 DEF ReadInfoArray

\* No two images are loaded at one address, since they would share its byte.
LEMMA LoadAddressesDiffer ==
  ASSUME NEW i \in AllImages, NEW j \in AllImages, LoadAddress[i] = LoadAddress[j]
  PROVE  i = j
<1>1. PageSize \in Nat /\ PageSize >= 1
  BY MemoryAssumption
<1>2. ASSUME NEW k \in AllImages PROVE LoadAddress[k] \in Bytes(ImageRegion(k))
  <2>1. LoadAddress[k] \in Nat
    BY ImageAssumption
  <2>2. Bytes(ImageRegion(k)) = LoadAddress[k] .. LoadAddress[k] + PageSize - 1
    <3>1. ImageRegion(k).base = LoadAddress[k] /\ ImageRegion(k).size = PageSize
      BY DEF ImageRegion
    <3> QED
      BY <1>1, <2>1, <3>1 DEF Bytes, End
  <2> QED
    BY <1>1, <2>1, <2>2
<1>3. i # j => Bytes(ImageRegion(i)) \cap Bytes(ImageRegion(j)) = {}
  BY ImageAssumption
<1> QED
  BY <1>2, <1>3

\* An image is added under its own load address, which no other one has.
LEMMA EmplacedImages ==
  ASSUME \A m \in moduleInfos : IsModule(m), NEW i \in AllImages
  PROVE  /\ \A m \in Emplace(ModuleInfo(i)) : IsModule(m)
         /\ {m.image : m \in Emplace(ModuleInfo(i))} = {m.image : m \in moduleInfos} \cup {i}
<1>1. IsModule(ModuleInfo(i)) /\ ModuleInfo(i).image = i /\ ModuleInfo(i).loadAddress = LoadAddress[i]
  BY DEF IsModule, ModuleInfo
<1>2. CASE \E n \in moduleInfos : n.loadAddress = ModuleInfo(i).loadAddress
  <2>1. PICK n \in moduleInfos : n.loadAddress = LoadAddress[i]
    BY <1>1, <1>2
  <2>2. n.image \in AllImages /\ LoadAddress[n.image] = LoadAddress[i]
    BY <2>1 DEF IsModule
  <2>3. n.image = i
    BY <2>2, LoadAddressesDiffer
  <2>4. Emplace(ModuleInfo(i)) = moduleInfos
    BY <1>2 DEF Emplace
  <2> QED
    BY <2>1, <2>3, <2>4
<1>3. CASE ~ \E n \in moduleInfos : n.loadAddress = ModuleInfo(i).loadAddress
  <2>1. Emplace(ModuleInfo(i)) = moduleInfos \cup {ModuleInfo(i)}
    BY <1>3 DEF Emplace
  <2> HIDE DEF ModuleInfo
  <2> QED
    BY <1>1, <2>1
<1> QED
  BY <1>2, <1>3

\* An image goes from those to be added to the list, or all of them are dropped.
LEMMA ListAddImage == ListInv /\ AddImage => ListInv'
<1> SUFFICES ASSUME ListInv, AddImage PROVE ListInv'
  OBVIOUS
<1>1. /\ reading = "images" /\ toAdd # <<>>
      /\ UNCHANGED <<infoArray, count, updating, updates, unloaded, snapshot, reading>>
      /\ UNCHANGED <<memory, zeros, pathAddress, walking>>
  BY DEF AddImage, memoryVars, dyldVars
<1>2. toAdd \in Seq(AllImages) /\ Head(toAdd) \in AllImages
  BY <1>1 DEF ListInv, Types
<1> PICK i \in AllImages : i = Head(toAdd)
  BY <1>2
<1>3. ToSet(toAdd) = {i} \cup ToSet(Tail(toAdd)) /\ Tail(toAdd) \in Seq(AllImages)
  <2>1. /\ Tail(toAdd) \in Seq(AllImages) /\ Len(Tail(toAdd)) = Len(toAdd) - 1
        /\ Len(toAdd) \in Nat \ {0} /\ i = toAdd[1]
        /\ \A k \in 1 .. Len(toAdd) - 1 : Tail(toAdd)[k] = toAdd[k + 1]
    BY <1>1, <1>2
  <2> DEFINE t == Tail(toAdd)
  <2> HIDE DEF t
  <2>2. /\ DOMAIN toAdd = 1 .. Len(toAdd) /\ DOMAIN t = 1 .. Len(t) /\ Len(t) = Len(toAdd) - 1
        /\ \A k \in DOMAIN t : t[k] = toAdd[k + 1] /\ k + 1 \in DOMAIN toAdd
    BY <1>2, <2>1 DEF t
  <2>3. ASSUME NEW k \in DOMAIN toAdd PROVE toAdd[k] \in {i} \cup ToSet(t)
    <3>1. CASE k = 1
      BY <2>1, <3>1
    <3>2. CASE k # 1
      <4>1. k - 1 \in DOMAIN t /\ (k - 1) + 1 = k
        BY <2>1, <2>2, <3>2
      <4> QED
        BY <2>2, <4>1 DEF ToSet
    <3> QED
      BY <3>1, <3>2
  <2>4. 1 \in DOMAIN toAdd
    BY <2>1, <2>2
  <2> QED
    BY <2>1, <2>2, <2>3, <2>4 DEF ToSet, t
<1>4. Loaded' = Loaded
  BY <1>1 DEF Loaded
<1>5. ArrayOK'
  BY <1>1 DEF ListInv, ArrayOK, Lasting
<1>6. CASE /\ CanCreate(i) /\ moduleInfos' = Emplace(ModuleInfo(i))
           /\ toAdd' = Tail(toAdd)
  <2>1. Types'
    BY <1>1, <1>3, <1>6 DEF ListInv, Types
  <2>2. /\ \A m \in moduleInfos' : IsModule(m)
        /\ {m.image : m \in moduleInfos'} = {m.image : m \in moduleInfos} \cup {i}
    BY <1>2, <1>6, EmplacedImages DEF ListInv, ListOK
  <2>3. moduleInfos' # {}
    BY <2>2
  <2>4. ListOK'
    <3>1. \A j \in {Dyld} \cup Lasting :
            j \in {m.image : m \in moduleInfos} \cup ToSet(toAdd)
      BY <1>1 DEF ListInv, ListOK
    <3>2. \A j \in {Dyld} \cup Lasting' :
            j \in {m.image : m \in moduleInfos'} \cup ToSet(toAdd')
      BY <1>1, <1>3, <1>6, <2>2, <3>1 DEF Lasting
    <3>3. \A m \in moduleInfos' : IsModule(m)'
      BY <2>2 DEF IsModule, SegmentsOf, Slide, TextOf
    <3> QED
      BY <1>1, <3>2, <3>3 DEF ListOK, Constructed
  <2>5. ReasonOK'
    BY <1>1, <1>3, <1>4, <1>6, <2>3 DEF ListInv, ReasonOK
  <2> QED
    BY <1>5, <2>1, <2>4, <2>5 DEF ListInv
<1>7. CASE ~CanCreate(i) /\ moduleInfos' = {} /\ toAdd' = <<>>
  <2>1. Types'
    BY <1>1, <1>7 DEF ListInv, Types
  <2>2. ListOK'
    BY <1>1, <1>7 DEF ListOK, Constructed
  <2>3. Reason'
    <3>1. updates \in Nat
      BY DEF ListInv, Types
    <3>2. CASE updates = 0
      <4>1. i \in Loaded \cup {Dyld}
        BY <1>1, <1>3, <3>2 DEF ListInv, ReasonOK
      <4>2. ~CanCreate(i)'
        BY <1>1, <1>7, CanCreateStays
      <4> QED
        BY <1>4, <4>1, <4>2 DEF Reason
    <3>3. CASE updates # 0
      BY <1>1, <3>1, <3>3 DEF Reason
    <3> QED
      BY <3>2, <3>3
  <2>4. ReasonOK'
    <3>1. ToSet(<<>>) = {}
      BY DEF ToSet
    <3> QED
      BY <1>7, <2>3, <3>1 DEF ReasonOK
  <2> QED
    BY <1>5, <2>1, <2>2, <2>4 DEF ListInv
<1> QED
  BY <1>6, <1>7 DEF AddImage

\* An empty list of images to be added is where the constructor ends.
LEMMA ListEndConstructor == ListInv /\ EndConstructor => ListInv'
<1> SUFFICES ASSUME ListInv, EndConstructor PROVE ListInv'
  OBVIOUS
<1>1. /\ reading = "images" /\ toAdd = <<>> /\ reading' = "done"
      /\ UNCHANGED <<infoArray, count, updating, updates, unloaded, snapshot, toAdd, moduleInfos>>
      /\ UNCHANGED <<memory, zeros, pathAddress, walking>>
  BY DEF EndConstructor, memoryVars, dyldVars
<1>2. Types' /\ ArrayOK'
  BY <1>1 DEF ListInv, Types, ArrayOK, Lasting
<1>3. ListOK'
  BY <1>1 DEF ListInv, ListOK, Lasting, Constructed, IsModule, SegmentsOf, Slide, TextOf
<1>4. ReasonOK'
  <2>1. Loaded' = Loaded /\ \A i : CanCreate(i)' = CanCreate(i)
    BY <1>1, CanCreateStays DEF Loaded
  <2>2. Reason' = Reason
    BY <1>1, <2>1 DEF Reason
  <2> QED
    BY <1>1, <2>2 DEF ListInv, ReasonOK
<1> QED
  BY <1>2, <1>3, <1>4 DEF ListInv

\* The assignment to one member of a module.
LEMMA MarkRecord ==
  ASSUME NEW i, NEW l, NEW p, NEW s, NEW e
  PROVE  [[image |-> i, loadAddress |-> l, pathLength |-> p, segments |-> s, executing |-> e]
            EXCEPT !.executing = TRUE]
         = [image |-> i, loadAddress |-> l, pathLength |-> p, segments |-> s, executing |-> TRUE]
<1> DEFINE Marked == [image : {i}, loadAddress : {l}, pathLength : {p}, segments : {s}, executing : {TRUE}]
           r == [image |-> i, loadAddress |-> l, pathLength |-> p, segments |-> s, executing |-> e]
<1>1. r \in [image : {i}, loadAddress : {l}, pathLength : {p}, segments : {s}, executing : {e}]
  OBVIOUS
<1> HIDE DEF r
<1>2. [r EXCEPT !.executing = TRUE] \in Marked
  BY <1>1
<1>3. ASSUME NEW n \in Marked
      PROVE  n = [image |-> i, loadAddress |-> l, pathLength |-> p, segments |-> s, executing |-> TRUE]
  OBVIOUS
<1> HIDE DEF Marked
<1> QED
  BY <1>2, <1>3 DEF r

\* Marking a module as executing changes nothing else about it.
LEMMA MarkedImages ==
  ASSUME \A m \in moduleInfos : IsModule(m), NEW a, MarkAsExecuting(a)
  PROVE  /\ \A m \in moduleInfos' : IsModule(m)
         /\ {m.image : m \in moduleInfos'} = {m.image : m \in moduleInfos}
<1> DEFINE found == ModuleForAddress(a)
           Mark(m) == [m EXCEPT !.executing = TRUE]
<1>1. found \subseteq moduleInfos
  BY DEF ModuleForAddress
<1>2. moduleInfos' = (moduleInfos \ found) \cup {Mark(m) : m \in found}
  BY DEF MarkAsExecuting
<1>3. ASSUME NEW m \in moduleInfos
      PROVE  IsModule(Mark(m)) /\ Mark(m).image = m.image
  <2>1. /\ m.image \in AllImages
        /\ m = [image |-> m.image, loadAddress |-> LoadAddress[m.image], pathLength |-> m.pathLength,
                segments |-> SegmentsOf(m.image), executing |-> m.executing]
    BY DEF IsModule
  <2>2. Mark(m) = [image |-> m.image, loadAddress |-> LoadAddress[m.image],
                   pathLength |-> m.pathLength, segments |-> SegmentsOf(m.image), executing |-> TRUE]
    BY <2>1, MarkRecord
  <2> HIDE DEF Mark
  <2> QED
    BY <2>1, <2>2 DEF IsModule
<1> HIDE DEF found, Mark
<1>4. \A m \in moduleInfos' : IsModule(m)
  BY <1>1, <1>2, <1>3
<1>5. ASSUME NEW m \in moduleInfos PROVE \E n \in moduleInfos' : n.image = m.image
  BY <1>1, <1>2, <1>3
<1>6. ASSUME NEW m \in moduleInfos' PROVE \E n \in moduleInfos : n.image = m.image
  BY <1>1, <1>2, <1>3
<1> QED
  BY <1>4, <1>5, <1>6

\* An address on a call stack marks a module.
LEMMA ListAddCode ==
  ASSUME ListInv, NEW ip \in CallStackAddresses, AddCode(ip)
  PROVE  ListInv'
<1>1. /\ reading = "done" /\ walking = "after"
      /\ UNCHANGED <<infoArray, count, updating, updates, unloaded, snapshot, toAdd, reading>>
      /\ UNCHANGED walking
  BY DEF AddCode, memoryVars, dyldVars
<1>2. MarkAsExecuting(ip)
  BY DEF AddCode
<1>3. /\ \A m \in moduleInfos' : IsModule(m)
      /\ {m.image : m \in moduleInfos'} = {m.image : m \in moduleInfos}
  BY <1>2, MarkedImages DEF ListInv, ListOK
<1>4. Types' /\ ArrayOK'
  BY <1>1 DEF ListInv, Types, ArrayOK, Lasting
<1>5. ListOK'
  <2>1. \A m \in moduleInfos' : IsModule(m)'
    BY <1>3 DEF IsModule, SegmentsOf, Slide, TextOf
  <2>2. toAdd' = <<>>
    BY <1>1 DEF ListInv, ListOK, Constructed
  <2>3. Lasting' = Lasting
    BY <1>1 DEF Lasting
  <2>4. CASE moduleInfos = {}
    <3>1. moduleInfos' = {}
      BY <1>3, <2>4
    <3> QED
      BY <1>1, <2>1, <2>2, <3>1 DEF ListOK
  <2>5. CASE moduleInfos # {}
    <3>1. \A i \in {Dyld} \cup Lasting : i \in {m.image : m \in moduleInfos} \cup ToSet(toAdd)
      BY <1>1, <2>5 DEF ListInv, ListOK
    <3> QED
      BY <1>1, <1>3, <2>1, <2>2, <2>3, <3>1 DEF ListOK
  <2> QED
    BY <2>4, <2>5
<1>6. ReasonOK'
  BY <1>1 DEF ReasonOK
<1> QED
  BY <1>4, <1>5, <1>6 DEF ListInv

\* The later parts of the dump do not touch the list.
LEMMA ListLater ==
  ASSUME ListInv, reading = "done" \/ reading = "collected", reading' = "collected" \/ reading' = "written",
         UNCHANGED <<memoryVars, dyldVars, snapshot, toAdd, moduleInfos>>
  PROVE  ListInv'
<1>1. /\ UNCHANGED <<infoArray, count, updating, updates, unloaded, snapshot, toAdd, moduleInfos>>
      /\ UNCHANGED <<memory, zeros, pathAddress, walking>>
  BY DEF memoryVars, dyldVars
<1>2. Types' /\ ArrayOK'
  BY <1>1 DEF ListInv, Types, ArrayOK, Lasting
<1>3. ListOK'
  BY <1>1 DEF ListInv, ListOK, Lasting, Constructed, IsModule, SegmentsOf, Slide, TextOf
<1>4. ReasonOK'
  <2>1. Loaded' = Loaded /\ \A i : CanCreate(i)' = CanCreate(i)
    BY <1>1, CanCreateStays DEF Loaded
  <2>2. Reason' = Reason
    BY <1>1, <2>1 DEF Reason
  <2> QED
    BY <1>1, <2>2 DEF ListInv, ReasonOK
<1> QED
  BY <1>2, <1>3, <1>4 DEF ListInv

\* Every step keeps the invariant of the list.
LEMMA ListNext == ListInv /\ [Next]_vars => ListInv'
<1> SUFFICES ASSUME ListInv, [Next]_vars PROVE ListInv'
  OBVIOUS
<1> USE DEF memoryVars, dyldVars, listVars, rangeVars, moduleVars
<1>0. updating \in BOOLEAN
  BY DEF ListInv, Types
<1>1. CASE BeginUpdate
  BY <1>1, ListQuiet DEF BeginUpdate
<1>2. ASSUME NEW i \in Images, Load(i) \/ Unload(i) PROVE ListInv'
  BY <1>2, ListLoad, ListUnload
<1>3. CASE ReadImageInfos
  BY <1>3, ListReadImageInfos
<1>4. CASE ReadInfoArray
  BY <1>4, ListReadInfoArray
<1>5. CASE AddImage
  BY <1>5, ListAddImage
<1>6. CASE EndConstructor
  BY <1>6, ListEndConstructor
<1>7. CASE RegionStep
  <2>1. walking' # "before"
    BY <1>7 DEF RegionStep, BeginWalk, AddRegion, AddLastRegion, ZoneGrows
  <2>2. UNCHANGED moduleVars
    BY <1>7 DEF RegionStep
  <2> QED
    BY <1>0, <2>1, <2>2, ListQuiet
<1>8. ASSUME NEW ip \in CallStackAddresses, AddCode(ip) PROVE ListInv'
  BY <1>8, ListAddCode
<1>9. ASSUME NEW sp \in StackPointers, AddStack(sp) PROVE ListInv'
  <2>1. UNCHANGED <<memoryVars, dyldVars, listVars>>
    BY <1>9 DEF AddStack
  <2> QED
    BY <1>0, <2>1, ListQuiet
<1>10. CASE AddSegments
  <2>1. reading = "done" /\ reading' = "collected"
    BY <1>10 DEF AddSegments
  <2>2. UNCHANGED <<memoryVars, dyldVars, snapshot, toAdd, moduleInfos>>
    BY <1>10 DEF AddSegments
  <2> QED
    BY <2>1, <2>2, ListLater
<1>11. CASE CreatePayload
  <2>1. reading = "collected" /\ reading' = "written"
    BY <1>11 DEF CreatePayload
  <2>2. UNCHANGED <<memoryVars, dyldVars, snapshot, toAdd, moduleInfos>>
    BY <1>11 DEF CreatePayload
  <2> QED
    BY <2>1, <2>2, ListLater
<1>12. CASE UNCHANGED vars
  BY <1>0, <1>12, ListQuiet DEF vars
<1> QED
  BY <1>1, <1>2, <1>3, <1>4, <1>5, <1>6, <1>7, <1>8, <1>9, <1>10, <1>11, <1>12
  DEF Next, DyldNext, LibraryNext, Finished

\* What the invariant is for.
LEMMA ListInvGivesComplete == ListInv => ListCompleteOrEmpty
<1> SUFFICES ASSUME ListInv PROVE ListCompleteOrEmpty
  OBVIOUS
<1>1. ToSet(<<>>) = {}
  BY DEF ToSet
<1>2. Constructed => reading \notin {"infos", "array"} /\ toAdd = <<>>
  BY DEF ListInv, ListOK, Constructed
<1>3. Constructed /\ moduleInfos # {} =>
        {Dyld} \cup (InitiallyLoaded \ unloaded) \subseteq {m.image : m \in moduleInfos}
  BY <1>1, <1>2 DEF ListInv, ListOK, Lasting
<1> QED
  BY <1>2, <1>3 DEF ListInv, ReasonOK, Reason, ListCompleteOrEmpty

\* However dyld's list changes while it is read, the module list is empty, and for
\* a reason, or it has dyld and every image that was loaded all the time.
THEOREM ListIsCompleteOrEmpty == Spec => []ListCompleteOrEmpty
<1>1. Spec => []ListInv
  BY ListInit, ListNext, PTL DEF Spec
<1> QED
  BY <1>1, ListInvGivesComplete, PTL
-----------------------------------------------------------------------------
(* Ordered sets of addresses. *)

\* The smallest and the largest of a set of addresses are in it.
LEMMA MinMax ==
  ASSUME NEW N \in Nat, NEW S \in SUBSET (0 .. N), S # {}
  PROVE  /\ Min(S) \in S /\ \A x \in S : Min(S) <= x
         /\ Max(S) \in S /\ \A x \in S : x <= Max(S)
<1>1. \E m \in S : \A k \in S : m <= k
  <2>1. S \in SUBSET Nat
    OBVIOUS
  <2> QED
    BY <2>1, LeastElement
<1>2. \E m \in S : \A k \in S : m >= k
  <2> DEFINE T == {N - x : x \in S}
  <2>1. T \in SUBSET Nat /\ T # {}
    <3>1. \A x \in S : N - x \in Nat
      OBVIOUS
    <3> QED
      BY <3>1
  <2>2. PICK d \in T : \A e \in T : d <= e
    <3> HIDE DEF T
    <3> QED
      BY <2>1, LeastElement
  <2>3. PICK m \in S : d = N - m
    BY <2>2
  <2>4. ASSUME NEW k \in S PROVE m >= k
    <3>1. N - m <= N - k
      BY <2>2, <2>3
    <3> QED
      BY <3>1
  <2> QED
    BY <2>4
<1>3. Min(S) \in S /\ \A x \in S : Min(S) =< x
  BY <1>1 DEF Min
<1>4. Max(S) \in S /\ \A x \in S : Max(S) >= x
  BY <1>2 DEF Max
<1> QED
  BY <1>3, <1>4

\* The lookup in an ordered map gives the last key that is not above the address,
\* if there is one.
LEMMA LookupKeyIsLast ==
  ASSUME NEW N \in Nat, NEW K \in SUBSET (0 .. N), K # {}, NEW a \in Nat
  PROVE  /\ LookupKey(K, a) \in K
         /\ \A k \in K : k <= a => k <= LookupKey(K, a) /\ LookupKey(K, a) <= a
<1> DEFINE A == {k \in K : k >= a}
           B == {k \in K : k < a}
<1>1. /\ A \in SUBSET (0 .. N) /\ B \in SUBSET (0 .. N) /\ A \subseteq K /\ B \subseteq K
      /\ \A k \in K : k \in Nat
  <2>1. A \subseteq K /\ B \subseteq K
    OBVIOUS
  <2>2. \A k \in K : k \in 0 .. N
    OBVIOUS
  <2>3. \A k \in 0 .. N : k \in Nat
    OBVIOUS
  <2> QED
    BY <2>1, <2>2, <2>3
<1>2. LookupKey(K, a) = IF A = {} THEN Max(K)
                        ELSE IF a \in K \/ Min(A) = Min(K) THEN Min(A) ELSE Max(B)
  BY DEF LookupKey
<1>3. Min(K) \in K /\ \A x \in K : Min(K) <= x /\ x <= Max(K)
  BY MinMax
<1>4. Max(K) \in K
  BY MinMax
<1>5. A # {} => Min(A) \in A /\ \A x \in A : Min(A) <= x
  <2> HIDE DEF A
  <2> QED
    BY <1>1, MinMax
<1>6. B # {} => Max(B) \in B /\ \A x \in B : x <= Max(B)
  <2> HIDE DEF B
  <2> QED
    BY <1>1, MinMax
<1>7. CASE A = {}
  <2>1. \A k \in K : k < a
    BY <1>1, <1>7
  <2>2. LookupKey(K, a) = Max(K)
    BY <1>2, <1>7
  <2>3. Max(K) <= a
    <3>1. \A k \in K : k \in Nat
      BY <1>1
    <3> HIDE DEF A, B
    <3>2. Max(K) \in Nat /\ Max(K) < a
      BY <1>4, <2>1, <3>1
    <3> QED
      BY <3>2
  <2> QED
    BY <1>3, <1>4, <2>2, <2>3
<1>8. CASE A # {} /\ a \in K
  <2>1. Min(A) = a
    <3>1. a \in A
      BY <1>8
    <3>2. Min(A) <= a /\ Min(A) \in A
      BY <1>5, <3>1
    <3> QED
      BY <1>1, <3>2
  <2> QED
    BY <1>1, <1>2, <1>8, <2>1
<1>9. CASE A # {} /\ a \notin K /\ Min(A) = Min(K)
  <2>1. \A k \in K : ~(k <= a)
    <3>1. Min(K) >= a
      BY <1>5, <1>9
    <3> QED
      BY <1>1, <1>3, <1>9, <3>1
  <2> QED
    BY <1>2, <1>3, <1>9, <2>1
<1>10. CASE A # {} /\ a \notin K /\ Min(A) # Min(K)
  <2>1. B # {}
    <3> SUFFICES ASSUME B = {} PROVE FALSE
      OBVIOUS
    <3>1. \A k \in K : k >= a
      BY <1>1
    <3>2. A = K
      BY <3>1
    <3> QED
      BY <1>10, <3>2
  <2>2. Max(B) \in K /\ Max(B) < a /\ \A k \in K : k < a => k <= Max(B)
    BY <1>6, <2>1
  <2>3. \A k \in K : k <= a => k < a
    BY <1>1, <1>10
  <2>4. LookupKey(K, a) = Max(B)
    BY <1>2, <1>10
  <2> QED
    BY <1>1, <2>2, <2>3, <2>4
<1> QED
  BY <1>7, <1>8, <1>9, <1>10
-----------------------------------------------------------------------------
(* The memory of the target: whole pages, in regions that do not overlap. *)

RegionOK(r) == r \in Regions /\ End(r) <= AddrLimit /\ PageSize <= r.size

\* One of two regions is behind the other.
Apart(r, s) == End(r) <= s.base \/ End(s) <= r.base

\* Images are mapped, and their memory is apart from everything else, as long as
\* dyld can still change its list.
MemoryOK ==
  /\ \A r \in memory : RegionOK(r)
  /\ \A r, s \in memory : r # s => Apart(r, s)
  /\ zeros \subseteq Addresses
  /\ ~Constructed =>
       /\ walking = "before"
       /\ \A i \in Images : \A r \in memory : r = ImageRegion(i) \/ Apart(r, ImageRegion(i))

\* The bounds of a region are numbers.
LEMMA RegionBounds ==
  ASSUME NEW r, RegionOK(r)
  PROVE  /\ r.base \in Nat /\ r.size \in Nat /\ r.size >= 1 /\ End(r) \in Nat
         /\ End(r) = r.base + r.size /\ r.base < End(r) /\ End(r) <= AddrLimit
         /\ AddrLimit \in Nat
         /\ \A b : b \in Bytes(r) <=> b \in Int /\ r.base <= b /\ b < End(r)
<1>1. AddrLimit \in Nat
  BY MemoryAssumption
<1>2. r.base \in 0 .. AddrLimit - 1 /\ r.size \in 1 .. AddrLimit /\ End(r) <= AddrLimit
  BY DEF RegionOK, Regions, Addresses
<1>3. r.base \in Nat /\ r.size \in Nat /\ r.size >= 1
  BY <1>1, <1>2
<1>4. End(r) = r.base + r.size
  BY DEF End
<1>5. End(r) \in Nat /\ r.base < End(r)
  BY <1>3, <1>4
<1> QED
  BY <1>1, <1>2, <1>3, <1>4, <1>5 DEF Bytes

\* Regions have no byte in common if, and only if, one is behind the other.
LEMMA ApartIsDisjoint ==
  ASSUME NEW r, NEW s, RegionOK(r), RegionOK(s)
  PROVE  Bytes(r) \cap Bytes(s) = {} <=> Apart(r, s)
<1>1. /\ r.base \in Nat /\ End(r) \in Nat /\ r.base < End(r)
      /\ \A b : b \in Bytes(r) <=> b \in Int /\ r.base <= b /\ b < End(r)
  BY RegionBounds
<1>2. /\ s.base \in Nat /\ End(s) \in Nat /\ s.base < End(s)
      /\ \A b : b \in Bytes(s) <=> b \in Int /\ s.base <= b /\ b < End(s)
  BY RegionBounds
<1>3. ASSUME Apart(r, s) PROVE Bytes(r) \cap Bytes(s) = {}
  <2> SUFFICES ASSUME NEW b \in Bytes(r), b \in Bytes(s) PROVE FALSE
    OBVIOUS
  <2> QED
    BY <1>1, <1>2, <1>3 DEF Apart
<1>4. ASSUME ~Apart(r, s) PROVE Bytes(r) \cap Bytes(s) # {}
  <2>1. s.base < End(r) /\ r.base < End(s)
    BY <1>1, <1>2, <1>4 DEF Apart
  <2>2. CASE r.base <= s.base
    <3>1. s.base \in Bytes(r) /\ s.base \in Bytes(s)
      BY <1>1, <1>2, <2>1, <2>2
    <3> QED
      BY <3>1
  <2>3. CASE ~(r.base <= s.base)
    <3>1. r.base \in Bytes(r) /\ r.base \in Bytes(s)
      BY <1>1, <1>2, <2>1, <2>3
    <3> QED
      BY <3>1
  <2> QED
    BY <2>2, <2>3
<1> QED
  BY <1>3, <1>4

\* Being apart has no direction.
LEMMA ApartSymmetric ==
  ASSUME NEW r, NEW s, Apart(r, s) PROVE Apart(s, r)
BY DEF Apart

\* Where an image is mapped.
LEMMA ImageRegionOK ==
  ASSUME NEW i \in AllImages
  PROVE  RegionOK(ImageRegion(i))
<1>1. LoadAddress[i] \in Nat /\ LoadAddress[i] + PageSize <= AddrLimit
  BY ImageAssumption
<1>2. AddrLimit \in Nat /\ PageSize \in Nat /\ PageSize >= 1 /\ PageSize <= AddrLimit
  BY MemoryAssumption
<1>3. LoadAddress[i] \in Addresses /\ PageSize \in 1 .. AddrLimit
  BY <1>1, <1>2 DEF Addresses
<1>4. ImageRegion(i) \in Regions
  BY <1>3 DEF ImageRegion, Regions, Tags
<1>5. ImageRegion(i).base = LoadAddress[i] /\ ImageRegion(i).size = PageSize
  BY DEF ImageRegion
<1> QED
  BY <1>1, <1>2, <1>4, <1>5 DEF RegionOK, End

\* A size that is not 0 and a multiple of the page size is at least that.
LEMMA WholePages ==
  ASSUME NEW p \in Nat \ {0}, NEW s \in Nat \ {0}, s % p = 0
  PROVE  p <= s
OBVIOUS

\* What is assumed of the maps that a target may start with.
LEMMA MemoryInitOK == Init => MemoryOK
<1> SUFFICES ASSUME Init PROVE MemoryOK
  OBVIOUS
<1>1. memory \in Maps /\ zeros \in ZeroBytes /\ walking = "before"
  BY DEF Init, MemoryInit
<1>2. PageSize \in Nat \ {0} /\ AddrLimit \in Nat
  BY MemoryAssumption
<1>3. ASSUME NEW r \in memory PROVE RegionOK(r)
  <2>1. r \in Regions /\ End(r) <= AddrLimit /\ r.size % PageSize = 0
    BY <1>1, MemoryAssumption
  <2>2. r.size \in Nat \ {0}
    BY <1>2, <2>1 DEF Regions
  <2>3. PageSize <= r.size
    BY <1>2, <2>1, <2>2, WholePages
  <2> QED
    BY <2>1, <2>3 DEF RegionOK
<1>4. ASSUME NEW r \in memory, NEW s \in memory, r # s PROVE Apart(r, s)
  <2>1. Bytes(r) \cap Bytes(s) = {}
    BY <1>1, <1>4, MemoryAssumption
  <2> QED
    BY <1>3, <2>1, ApartIsDisjoint
<1>5. zeros \subseteq Addresses
  BY <1>1, MemoryAssumption
<1>6. ASSUME NEW i \in Images, NEW r \in memory, r # ImageRegion(i) PROVE Apart(r, ImageRegion(i))
  <2>1. i \in AllImages
    BY DEF AllImages
  <2>2. Bytes(r) \cap Bytes(ImageRegion(i)) = {}
    BY <1>1, <1>6, <2>1, ImageAssumption
  <2> QED
    BY <1>3, <2>1, <2>2, ApartIsDisjoint, ImageRegionOK
<1> QED
  BY <1>1, <1>3, <1>4, <1>5, <1>6 DEF MemoryOK

\* dlopen maps an image where nothing else is, dlclose unmaps one.
LEMMA MemoryUpdated ==
  ASSUME MemoryOK, NEW i \in Images, Load(i) \/ Unload(i)
  PROVE  MemoryOK' /\ ~Constructed /\ ~Constructed'
<1>1. /\ ~Constructed /\ walking' = walking /\ reading' = reading /\ zeros' = zeros
      /\ memory' \subseteq memory \cup {ImageRegion(i)}
  BY DEF Load, Unload, EndUpdate, listVars
<1>2. i \in AllImages
  BY DEF AllImages
<1>3. \A r \in memory' : RegionOK(r)
  BY <1>1, <1>2, ImageRegionOK DEF MemoryOK
<1>4. \A r \in memory : r = ImageRegion(i) \/ (Apart(r, ImageRegion(i)) /\ Apart(ImageRegion(i), r))
  BY <1>1, ApartSymmetric DEF MemoryOK
<1>5. \A r, s \in memory' : r # s => Apart(r, s)
  BY <1>1, <1>4 DEF MemoryOK
<1>6. ASSUME NEW j \in Images, NEW r \in memory', r # ImageRegion(j)
      PROVE  Apart(r, ImageRegion(j))
  <2>1. CASE r \in memory
    BY <1>1, <1>6, <2>1 DEF MemoryOK
  <2>2. CASE r = ImageRegion(i)
    <3>1. i # j /\ j \in AllImages
      BY <1>6, <2>2 DEF AllImages
    <3>2. Bytes(ImageRegion(i)) \cap Bytes(ImageRegion(j)) = {}
      BY <1>2, <3>1, ImageAssumption
    <3> QED
      BY <1>2, <2>2, <3>1, <3>2, ApartIsDisjoint, ImageRegionOK
  <2> QED
    BY <1>1, <2>1, <2>2
<1>7. Constructed' = Constructed
  BY <1>1 DEF Constructed
<1> QED
  BY <1>1, <1>3, <1>5, <1>6, <1>7 DEF MemoryOK, ImageRegion

\* A region and what the kernel has made of it.
Extends(s, r) == s.base = r.base /\ r.size <= s.size /\ s.prot = r.prot /\ s.tag = r.tag

\* The zone maps a page in a gap: what was there stays, or becomes longer.
LEMMA MemoryGrown ==
  ASSUME MemoryOK, Constructed, Constructed', NEW page \in Addresses, ZoneGrows(page)
  PROVE  MemoryOK' /\ \A r \in memory : \E s \in memory' : Extends(s, r)
<1> DEFINE new  == [base |-> page, size |-> PageSize, prot |-> {"read"}, tag |-> "malloc"]
           prev == {r \in memory : End(r) = page /\ r.tag = "malloc" /\ r.prot = {"read"}}
           Longer(r) == [r EXCEPT !.size = @ + PageSize]
<1>1. /\ page + PageSize <= AddrLimit /\ zeros' = zeros
      /\ \A r \in memory : Bytes(r) \cap Bytes(new) = {}
      /\ \/ memory' = memory \cup {new}
         \/ memory' = (memory \ prev) \cup {Longer(r) : r \in prev}
  BY DEF ZoneGrows
<1>2. AddrLimit \in Nat /\ PageSize \in Nat /\ PageSize >= 1 /\ PageSize <= AddrLimit /\ page \in Nat
  BY MemoryAssumption DEF Addresses
<1>3. new \in Regions /\ new.base = page /\ new.size = PageSize
  <2>1. page \in Addresses /\ PageSize \in 1 .. AddrLimit
    BY <1>2
  <2> QED
    BY <2>1 DEF Regions, Tags
<1>4. RegionOK(new) /\ End(new) = page + PageSize
  BY <1>1, <1>2, <1>3 DEF RegionOK, End
<1> HIDE DEF new
<1>5. \A r \in memory : Apart(r, new) /\ Apart(new, r)
  BY <1>1, <1>4, ApartIsDisjoint, ApartSymmetric DEF MemoryOK
<1>6. ASSUME NEW r \in memory PROVE Extends(r, r)
  <2>1. r.size \in Nat
    BY RegionBounds DEF MemoryOK
  <2> QED
    BY <2>1 DEF Extends
<1>7. zeros' \subseteq Addresses
  BY <1>1 DEF MemoryOK
<1>8. CASE memory' = memory \cup {new}
  <2>1. (\A r \in memory' : RegionOK(r)) /\ (\A r, s \in memory' : r # s => Apart(r, s))
    BY <1>4, <1>5, <1>8 DEF MemoryOK
  <2>2. \A r \in memory : \E s \in memory' : Extends(s, r)
    BY <1>6, <1>8
  <2> QED
    BY <1>7, <2>1, <2>2 DEF MemoryOK
<1>9. CASE memory' = (memory \ prev) \cup {Longer(r) : r \in prev}
  <2>1. ASSUME NEW r \in prev
        PROVE  /\ r \in memory /\ RegionOK(Longer(r)) /\ Extends(Longer(r), r)
               /\ Longer(r).base = r.base /\ End(Longer(r)) = End(r) + PageSize /\ End(r) = page
    <3>1. r \in memory /\ End(r) = page
      OBVIOUS
    <3>2. RegionOK(r)
      BY <3>1 DEF MemoryOK
    <3>3. r \in Regions
      BY <3>2 DEF RegionOK
    <3>4. /\ r.base \in Nat /\ r.size \in Nat /\ r.size >= 1 /\ End(r) = r.base + r.size
      BY <3>2, RegionBounds
    <3>5. r.size + PageSize \in 1 .. AddrLimit
      BY <1>1, <1>2, <3>1, <3>4
    <3>6. /\ Longer(r) \in Regions /\ Longer(r).base = r.base /\ Longer(r).size = r.size + PageSize
          /\ Longer(r).prot = r.prot /\ Longer(r).tag = r.tag
      BY <3>3, <3>5 DEF Regions
    <3> HIDE DEF Longer, prev
    <3>7. End(Longer(r)) = End(r) + PageSize
      BY <1>2, <3>4, <3>6 DEF End
    <3>8. RegionOK(Longer(r))
      BY <1>1, <1>2, <3>1, <3>4, <3>6, <3>7 DEF RegionOK
    <3>9. Extends(Longer(r), r)
      BY <1>2, <3>4, <3>6 DEF Extends
    <3> QED
      BY <3>1, <3>6, <3>7, <3>8, <3>9
  <2>2. prev \subseteq memory
    OBVIOUS
  <2> HIDE DEF prev, Longer
  <2>3. ASSUME NEW r \in prev, NEW s \in prev PROVE r = s
    <3>1. /\ r.base \in Nat /\ s.base \in Nat /\ r.base < page /\ s.base < page
          /\ End(r) = page /\ End(s) = page
      BY <2>1, RegionBounds DEF MemoryOK
    <3>2. ~Apart(r, s)
      BY <1>2, <3>1 DEF Apart
    <3> QED
      BY <2>1, <3>2 DEF MemoryOK
  <2>4. ASSUME NEW r \in prev, NEW s \in memory, s # r PROVE Apart(s, Longer(r)) /\ Apart(Longer(r), s)
    <3>1. /\ s.base \in Nat /\ End(s) \in Nat /\ r.base \in Nat /\ End(r) \in Nat
          /\ s.base < End(s) /\ r.base < End(r)
      BY <2>1, RegionBounds DEF MemoryOK
    <3>2. Apart(s, r) /\ Apart(s, new)
      BY <1>5, <2>1, <2>4 DEF MemoryOK
    <3>3. End(s) <= r.base \/ page + PageSize <= s.base
      BY <1>2, <1>3, <1>4, <2>1, <3>1, <3>2 DEF Apart
    <3> QED
      BY <1>2, <2>1, <3>1, <3>3 DEF Apart
  <2>5. \A r \in memory' : RegionOK(r)
    BY <1>9, <2>1 DEF MemoryOK
  <2>6. \A r, s \in memory' : r # s => Apart(r, s)
    <3> SUFFICES ASSUME NEW r \in memory', NEW s \in memory', r # s PROVE Apart(r, s)
      OBVIOUS
    <3>1. CASE r \in memory \ prev /\ s \in memory \ prev
      BY <3>1 DEF MemoryOK
    <3>2. CASE r \in memory \ prev /\ s \in {Longer(q) : q \in prev}
      BY <2>4, <3>2
    <3>3. CASE s \in memory \ prev /\ r \in {Longer(q) : q \in prev}
      BY <2>4, <3>3
    <3>4. CASE r \in {Longer(q) : q \in prev} /\ s \in {Longer(q) : q \in prev}
      BY <2>3, <3>4
    <3> QED
      BY <1>9, <3>1, <3>2, <3>3, <3>4
  <2>7. \A r \in memory : \E s \in memory' : Extends(s, r)
    BY <1>6, <1>9, <2>1
  <2> QED
    BY <1>7, <2>5, <2>6, <2>7 DEF MemoryOK
<1> QED
  BY <1>1, <1>8, <1>9
-----------------------------------------------------------------------------
(* The walk over the regions. *)

\* An element of m_regionInfos comes from a region that is still there and has
\* been passed; the region may have become longer since.
Recorded(i) ==
  /\ i.vmaddr \in Nat /\ i.vmsize \in Nat /\ i.vmsize >= 1 /\ i.vmaddr + i.vmsize <= address
  /\ \E s \in memory : /\ s.base = i.vmaddr /\ i.vmaddr + i.vmsize <= End(s)
                       /\ i.prot = s.prot /\ i.type = RegionType(s)

\* The element that the failing call has left behind all others.
LeftOver(i) == walking = "after" /\ i.vmaddr = address /\ i.vmsize \in Nat

\* A region is in the list.
Found(r) ==
  /\ End(r) <= address
  /\ \E i \in regionInfos : /\ i.vmaddr = r.base /\ r.size <= i.vmsize
                            /\ i.prot = r.prot /\ i.type = RegionType(r)

\* A region that has been there all the time is ahead of the walk or in the list.
StableOK(r) ==
  /\ RegionOK(r)
  /\ \E s \in memory : Extends(s, r)
  /\ address <= r.base \/ Found(r)

WalkOK ==
  /\ walking \in {"before", "loop", "after"} /\ address \in 0 .. AddrLimit /\ last.size \in Nat
  /\ walking = "before" => regionInfos = {} /\ stable = {} /\ address = 0
  /\ \A i \in regionInfos : Recorded(i) \/ LeftOver(i)
  /\ \A i, j \in regionInfos : i.vmaddr = j.vmaddr => i = j
  /\ \A r \in stable : StableOK(r)
  /\ walking = "after" => \A r \in memory : End(r) <= address

RegionInv == MemoryOK /\ WalkOK

\* The walk has not begun.
LEMMA RegionInit == Init => RegionInv
<1> SUFFICES ASSUME Init PROVE RegionInv
  OBVIOUS
<1>1. MemoryOK
  BY MemoryInitOK
<1>2. AddrLimit \in Nat
  BY MemoryAssumption
<1>3. WalkOK
  BY <1>2 DEF Init, MemoryInit, WalkOK, NoRegion
<1> QED
  BY <1>1, <1>3 DEF RegionInv

\* Steps that are about neither the regions nor the constructor's last step.
LEMMA RegionQuiet ==
  ASSUME RegionInv, UNCHANGED memoryVars, Constructed => Constructed'
  PROVE  RegionInv'
<1>1. /\ memory' = memory /\ zeros' = zeros /\ walking' = walking /\ address' = address
      /\ last' = last /\ regionInfos' = regionInfos /\ stable' = stable
  BY DEF memoryVars
<1>2. MemoryOK'
  BY <1>1 DEF RegionInv, MemoryOK, RegionOK, Apart, ImageRegion
<1>3. WalkOK'
  BY <1>1 DEF RegionInv, WalkOK, Recorded, LeftOver, StableOK, Found, Extends
<1> QED
  BY <1>2, <1>3 DEF RegionInv

\* dyld changes memory only before the walk.
LEMMA RegionUpdated ==
  ASSUME RegionInv, NEW i \in Images, Load(i) \/ Unload(i)
  PROVE  RegionInv'
<1>1. MemoryOK' /\ ~Constructed
  BY MemoryUpdated DEF RegionInv
<1>2. /\ walking' = walking /\ address' = address
      /\ last' = last /\ regionInfos' = regionInfos /\ stable' = stable
  BY DEF Load, Unload
<1>3. walking = "before"
  BY <1>1 DEF RegionInv, MemoryOK
<1>4. WalkOK'
  BY <1>2, <1>3 DEF RegionInv, WalkOK
<1> QED
  BY <1>1, <1>4 DEF RegionInv

\* The region at an address, or the first one behind it.
LEMMA RegionAt ==
  ASSUME MemoryOK, NEW a, RegionsFrom(a) # {}
  PROVE  /\ vm_region_recurse_64(a) \in memory /\ a < End(vm_region_recurse_64(a))
         /\ \A s \in memory : a < End(s) => vm_region_recurse_64(a).base <= s.base
<1> DEFINE B == {r.base : r \in RegionsFrom(a)}
<1>1. B \in SUBSET Nat /\ B # {}
  <2>1. \A r \in RegionsFrom(a) : r.base \in Nat
    BY RegionBounds DEF MemoryOK, RegionsFrom
  <2> QED
    BY <2>1
<1>2. PICK m \in B : \A k \in B : m <= k
  <2> HIDE DEF B
  <2> QED
    BY <1>1, LeastElement
<1>3. \E r \in RegionsFrom(a) : \A s \in RegionsFrom(a) : r.base <= s.base
  BY <1>2
<1>4. /\ vm_region_recurse_64(a) \in RegionsFrom(a)
      /\ \A s \in RegionsFrom(a) : vm_region_recurse_64(a).base <= s.base
  BY <1>3 DEF vm_region_recurse_64
<1> QED
  BY <1>4 DEF RegionsFrom

\* The first call finds everything ahead.
LEMMA RegionBeginWalk ==
  ASSUME RegionInv, Constructed, BeginWalk, reading' = reading
  PROVE  RegionInv'
<1>1. /\ memory' = memory /\ zeros' = zeros /\ walking' = "loop" /\ address' = address
      /\ last' = last /\ regionInfos' = regionInfos /\ stable' = memory /\ walking = "before"
  BY DEF BeginWalk
<1>2. Constructed'
  BY DEF Constructed
<1>3. MemoryOK'
  BY <1>1, <1>2 DEF RegionInv, MemoryOK, RegionOK, Apart
<1>4. ASSUME NEW r \in memory PROVE StableOK(r)'
  <2>1. r.base \in Nat /\ r.size \in Nat /\ RegionOK(r)
    BY RegionBounds DEF RegionInv, MemoryOK
  <2>2. address' = 0
    BY <1>1 DEF RegionInv, WalkOK
  <2> QED
    BY <1>1, <2>1, <2>2 DEF StableOK, Extends, RegionOK
<1>5. WalkOK'
  BY <1>1, <1>4 DEF RegionInv, WalkOK
<1> QED
  BY <1>3, <1>5 DEF RegionInv

\* One more element, unless there is one with its key.
LEMMA InsertedRegion ==
  ASSUME NEW n, NEW E, E = InsertRegion(n), \A i, j \in regionInfos : i.vmaddr = j.vmaddr => i = j
  PROVE  /\ regionInfos \subseteq E /\ E \subseteq regionInfos \cup {n}
         /\ \A i, j \in E : i.vmaddr = j.vmaddr => i = j
         /\ (\A i \in regionInfos : i.vmaddr # n.vmaddr) => n \in E
BY DEF InsertRegion

\* A round of the loop passes exactly one region, and puts it into the list
\* unless it was passed before, when it was shorter.
LEMMA RegionAddRegion ==
  ASSUME RegionInv, Constructed, AddRegion, reading' = reading
  PROVE  RegionInv'
<1>1. /\ memory' = memory /\ zeros' = zeros /\ walking' = "loop" /\ walking = "loop"
      /\ stable' = stable /\ RegionsFrom(address) # {}
  BY DEF AddRegion
<1>2. PICK q : q = vm_region_recurse_64(address)
  OBVIOUS
<1>3. PICK n : n = RegionInfo(q.base, q)
  OBVIOUS
<1>4. regionInfos' = InsertRegion(n) /\ last' = q /\ address' = End(q)
  BY <1>2, <1>3 DEF AddRegion, NextAddress
<1>5. /\ q \in memory /\ address < End(q)
      /\ \A s \in memory : address < End(s) => q.base <= s.base
  BY <1>1, <1>2, RegionAt DEF RegionInv
<1>6. /\ q.base \in Nat /\ q.size \in Nat /\ q.size >= 1 /\ End(q) = q.base + q.size
      /\ End(q) \in 0 .. AddrLimit /\ q.base < End(q)
  BY <1>5, RegionBounds DEF RegionInv, MemoryOK
<1>7. n.vmaddr = q.base /\ n.vmsize = q.size /\ n.prot = q.prot /\ n.type = RegionType(q)
  BY <1>3 DEF RegionInfo
<1>8. /\ regionInfos \subseteq regionInfos' /\ regionInfos' \subseteq regionInfos \cup {n}
      /\ \A i, j \in regionInfos' : i.vmaddr = j.vmaddr => i = j
      /\ (\A i \in regionInfos : i.vmaddr # n.vmaddr) => n \in regionInfos'
  BY <1>4, InsertedRegion DEF RegionInv, WalkOK
<1>9. MemoryOK'
  <2>1. Constructed'
    BY DEF Constructed
  <2> QED
    BY <1>1, <2>1 DEF RegionInv, MemoryOK, RegionOK, Apart
<1>10. address \in Nat /\ address' \in Nat /\ address < address' /\ address' \in 0 .. AddrLimit
  BY <1>4, <1>5, <1>6 DEF RegionInv, WalkOK
<1>11. ASSUME NEW i \in regionInfos PROVE Recorded(i) /\ i.vmaddr < address
  <2>1. Recorded(i)
    BY <1>1 DEF RegionInv, WalkOK, LeftOver
  <2> QED
    BY <1>10, <2>1 DEF Recorded
<1>12. ASSUME NEW i \in regionInfos' PROVE Recorded(i)'
  <2>1. CASE i \in regionInfos
    BY <1>1, <1>10, <1>11, <2>1 DEF Recorded
  <2>2. CASE i = n
    BY <1>1, <1>4, <1>5, <1>6, <1>7, <2>2 DEF Recorded
  <2> QED
    BY <1>8, <2>1, <2>2
<1>13. ASSUME NEW r \in stable PROVE StableOK(r)'
  <2>1. StableOK(r)
    BY DEF RegionInv, WalkOK
  <2>2. /\ RegionOK(r) /\ r.base \in Nat /\ r.size \in Nat /\ End(r) \in Nat
        /\ End(r) = r.base + r.size /\ r.base < End(r)
    BY <2>1, RegionBounds DEF StableOK
  <2>3. PICK s \in memory : Extends(s, r)
    BY <2>1 DEF StableOK
  <2>4. /\ s.base = r.base /\ End(r) <= End(s) /\ End(s) \in Nat /\ s.base < End(s)
        /\ s.prot = r.prot /\ s.tag = r.tag /\ r.size <= s.size
    <3>1. s.base \in Nat /\ s.size \in Nat /\ End(s) = s.base + s.size /\ s.base < End(s) /\ End(s) \in Nat
      BY <2>3, RegionBounds DEF RegionInv, MemoryOK
    <3> QED
      BY <2>2, <2>3, <3>1 DEF Extends
  <2>5. CASE Found(r)
    <3>1. End(r) <= address'
      BY <1>10, <2>2, <2>5 DEF Found
    <3>2. Found(r)'
      BY <1>8, <2>5, <3>1 DEF Found, RegionType
    <3> QED
      BY <1>1, <2>2, <2>3, <3>2 DEF StableOK, Extends
  <2>6. CASE address <= r.base /\ s = q
    <3>1. \A i \in regionInfos : i.vmaddr # n.vmaddr
      <4>1. ASSUME NEW i \in regionInfos, i.vmaddr = n.vmaddr PROVE FALSE
        <5>1. i.vmaddr = r.base /\ i.vmaddr < address
          BY <1>7, <1>11, <2>4, <2>6, <4>1
        <5> QED
          BY <1>10, <2>2, <2>6, <5>1
      <4> QED
        BY <4>1
    <3>2. n \in regionInfos'
      BY <1>8, <3>1
    <3>3. End(r) <= address'
      BY <1>4, <2>4, <2>6
    <3>4. n.type = RegionType(r)
      BY <1>7, <2>4, <2>6 DEF RegionType
    <3>5. Found(r)'
      BY <1>7, <2>4, <2>6, <3>2, <3>3, <3>4 DEF Found, RegionType
    <3> QED
      BY <1>1, <2>2, <2>3, <3>5 DEF StableOK, Extends
  <2>7. CASE address <= r.base /\ s # q
    <3>1. q.base <= s.base
      BY <1>5, <1>10, <2>2, <2>4, <2>7
    <3>2. Apart(q, s)
      BY <1>5, <2>7 DEF RegionInv, MemoryOK
    <3>3. address' <= r.base
      BY <1>4, <1>6, <2>2, <2>4, <3>1, <3>2 DEF Apart
    <3> QED
      BY <1>1, <2>2, <2>3, <3>3 DEF StableOK, Extends
  <2> QED
    BY <2>1, <2>5, <2>6, <2>7 DEF StableOK
<1>14. WalkOK'
  BY <1>1, <1>4, <1>6, <1>8, <1>10, <1>12, <1>13 DEF WalkOK
<1> QED
  BY <1>9, <1>14 DEF RegionInv

\* The last round adds what is left over, behind everything.
LEMMA RegionAddLast ==
  ASSUME RegionInv, Constructed, AddLastRegion, reading' = reading
  PROVE  RegionInv'
<1>1. /\ memory' = memory /\ zeros' = zeros /\ walking' = "after" /\ walking = "loop"
      /\ stable' = stable /\ RegionsFrom(address) = {} /\ address' = address /\ last' = last
  BY DEF AddLastRegion
<1>2. PICK n : n = RegionInfo(address, last)
  OBVIOUS
<1>3. regionInfos' = InsertRegion(n)
  BY <1>2 DEF AddLastRegion
<1>4. n.vmaddr = address /\ n.vmsize = last.size
  BY <1>2 DEF RegionInfo
<1>5. /\ regionInfos \subseteq regionInfos' /\ regionInfos' \subseteq regionInfos \cup {n}
      /\ \A i, j \in regionInfos' : i.vmaddr = j.vmaddr => i = j
  BY <1>3, InsertedRegion DEF RegionInv, WalkOK
<1>6. MemoryOK'
  <2>1. Constructed'
    BY DEF Constructed
  <2> QED
    BY <1>1, <2>1 DEF RegionInv, MemoryOK, RegionOK, Apart
<1>7. ASSUME NEW i \in regionInfos' PROVE (Recorded(i) \/ LeftOver(i))'
  <2>1. CASE i \in regionInfos
    <3>1. Recorded(i)
      BY <1>1, <2>1 DEF RegionInv, WalkOK, LeftOver
    <3>2. Recorded(i)'
      BY <1>1, <3>1 DEF Recorded
    <3> QED
      BY <3>2
  <2>2. CASE i = n
    <3>1. last.size \in Nat
      BY DEF RegionInv, WalkOK
    <3>2. LeftOver(i)'
      BY <1>1, <1>4, <2>2, <3>1 DEF LeftOver
    <3> QED
      BY <3>2
  <2> QED
    BY <1>5, <2>1, <2>2
<1>8. ASSUME NEW r \in stable PROVE StableOK(r)'
  <2>1. StableOK(r)
    BY DEF RegionInv, WalkOK
  <2>2. Found(r) => Found(r)'
    BY <1>1, <1>5 DEF Found, RegionType
  <2> QED
    BY <1>1, <2>1, <2>2 DEF StableOK, Extends, RegionOK
<1>9. ASSUME NEW r \in memory PROVE End(r) <= address
  <2>1. End(r) \in Nat /\ address \in Nat
    BY RegionBounds DEF RegionInv, MemoryOK, WalkOK
  <2>2. ~(address < End(r))
    BY <1>1 DEF RegionsFrom
  <2> QED
    BY <2>1, <2>2
<1>10. WalkOK'
  BY <1>1, <1>5, <1>7, <1>8, <1>9 DEF RegionInv, WalkOK
<1> QED
  BY <1>6, <1>10 DEF RegionInv

\* The zone's pages change neither what is in the list nor what is ahead.
LEMMA RegionGrown ==
  ASSUME RegionInv, Constructed, NEW page \in Addresses, ZoneGrows(page), reading' = reading
  PROVE  RegionInv'
<1>1. /\ walking' = walking /\ walking = "loop" /\ stable' = stable /\ address' = address
      /\ last' = last /\ regionInfos' = regionInfos
  BY DEF ZoneGrows
<1>2. Constructed'
  BY DEF Constructed
<1>3. MemoryOK' /\ \A r \in memory : \E s \in memory' : Extends(s, r)
  BY <1>2, MemoryGrown DEF RegionInv
<1>4. ASSUME NEW r \in memory
      PROVE  \E t \in memory' : /\ Extends(t, r) /\ End(r) <= End(t) /\ End(t) \in Nat /\ End(r) \in Nat
                                /\ t.size \in Nat /\ r.size \in Nat
  <2>1. PICK t \in memory' : Extends(t, r)
    BY <1>3
  <2>2. r.base \in Nat /\ r.size \in Nat /\ End(r) = r.base + r.size /\ End(r) \in Nat
    BY RegionBounds DEF RegionInv, MemoryOK
  <2>3. t.base \in Nat /\ t.size \in Nat /\ End(t) = t.base + t.size /\ End(t) \in Nat
    <3>1. RegionOK(t)
      BY <1>3, <2>1 DEF MemoryOK
    <3> QED
      BY <3>1, RegionBounds
  <2>4. End(r) <= End(t)
    BY <2>1, <2>2, <2>3 DEF Extends
  <2> QED
    BY <2>1, <2>2, <2>3, <2>4
<1>5. ASSUME NEW i \in regionInfos PROVE Recorded(i)'
  <2>1. Recorded(i)
    BY <1>1 DEF RegionInv, WalkOK, LeftOver
  <2>2. PICK s \in memory : /\ s.base = i.vmaddr /\ i.vmaddr + i.vmsize <= End(s)
                            /\ i.prot = s.prot /\ i.type = RegionType(s)
    BY <2>1 DEF Recorded
  <2>3. PICK t \in memory' : Extends(t, s) /\ End(s) <= End(t) /\ End(t) \in Nat /\ End(s) \in Nat
    BY <1>4, <2>2
  <2>4. i.vmaddr + i.vmsize <= End(t)
    <3>1. i.vmaddr + i.vmsize \in Nat
      BY <2>1 DEF Recorded
    <3> QED
      BY <2>2, <2>3, <3>1
  <2>5. RegionType(t) = RegionType(s) /\ t.base = s.base /\ t.prot = s.prot
    BY <2>3 DEF Extends, RegionType
  <2> QED
    BY <1>1, <2>1, <2>2, <2>3, <2>4, <2>5 DEF Recorded, RegionType
<1>6. ASSUME NEW r \in stable PROVE StableOK(r)'
  <2>1. StableOK(r)
    BY DEF RegionInv, WalkOK
  <2>2. PICK s \in memory : Extends(s, r)
    BY <2>1 DEF StableOK
  <2>3. PICK t \in memory' : Extends(t, s) /\ t.size \in Nat /\ s.size \in Nat
    BY <1>4, <2>2
  <2>4. r.size \in Nat
    BY <2>1, RegionBounds DEF StableOK
  <2>5. Extends(t, r)
    BY <2>2, <2>3, <2>4 DEF Extends
  <2>6. Found(r) => Found(r)'
    BY <1>1 DEF Found, RegionType
  <2> QED
    BY <1>1, <2>1, <2>3, <2>5, <2>6 DEF StableOK, Extends, RegionOK
<1>7. WalkOK'
  BY <1>1, <1>5, <1>6 DEF RegionInv, WalkOK
<1> QED
  BY <1>3, <1>7 DEF RegionInv

\* Every step keeps the invariant of memory and the walk.
LEMMA RegionNext == RegionInv /\ [Next]_vars => RegionInv'
<1> SUFFICES ASSUME RegionInv, [Next]_vars PROVE RegionInv'
  OBVIOUS
<1>1. CASE BeginUpdate
  <2>1. UNCHANGED memoryVars /\ reading' = reading
    BY <1>1 DEF BeginUpdate, listVars
  <2> QED
    BY <2>1, RegionQuiet DEF Constructed
<1>2. ASSUME NEW i \in Images, Load(i) \/ Unload(i) PROVE RegionInv'
  BY <1>2, RegionUpdated
<1>3. CASE ReadImageInfos \/ ReadInfoArray \/ AddImage \/ EndConstructor
  <2>1. UNCHANGED memoryVars
    BY <1>3 DEF ReadImageInfos, ReadInfoArray, AddImage, EndConstructor
  <2>2. reading \in {"infos", "array", "images"}
    BY <1>3 DEF ReadImageInfos, ReadInfoArray, AddImage, EndConstructor
  <2> QED
    BY <2>1, <2>2, RegionQuiet DEF Constructed
<1>4. CASE RegionStep
  <2>1. reading = "done" /\ reading' = reading
    BY <1>4 DEF RegionStep, moduleVars, listVars
  <2>2. Constructed
    BY <2>1 DEF Constructed
  <2> QED
    BY <1>4, <2>1, <2>2, RegionBeginWalk, RegionAddRegion, RegionAddLast, RegionGrown DEF RegionStep
<1>5. CASE \/ \E ip \in CallStackAddresses : AddCode(ip)
           \/ \E sp \in StackPointers : AddStack(sp)
           \/ AddSegments \/ CreatePayload
  <2>1. UNCHANGED memoryVars
    BY <1>5 DEF AddCode, AddStack, AddSegments, CreatePayload
  <2>2. reading' \in {"done", "collected", "written"}
    BY <1>5 DEF AddCode, AddStack, AddSegments, CreatePayload, listVars
  <2> QED
    BY <2>1, <2>2, RegionQuiet DEF Constructed
<1>6. CASE UNCHANGED vars
  <2>1. UNCHANGED memoryVars /\ reading' = reading
    BY <1>6 DEF vars, moduleVars, listVars
  <2> QED
    BY <2>1, RegionQuiet DEF Constructed
<1> QED
  BY <1>1, <1>2, <1>3, <1>4, <1>5, <1>6 DEF Next, DyldNext, LibraryNext, Finished

\* The invariant of memory and the walk in every state.
LEMMA RegionInvariant == Spec => []RegionInv
BY RegionInit, RegionNext, PTL DEF Spec

\* The keys of the list are addresses.
LEMMA RegionKeysOK ==
  ASSUME RegionInv
  PROVE  /\ AddrLimit \in Nat /\ RegionKeys \in SUBSET (0 .. AddrLimit)
         /\ regionInfos # {} => RegionKeys # {}
<1>1. AddrLimit \in Nat /\ address \in 0 .. AddrLimit
  BY MemoryAssumption DEF RegionInv, WalkOK
<1>2. ASSUME NEW i \in regionInfos PROVE i.vmaddr \in 0 .. AddrLimit
  <2>1. CASE Recorded(i)
    BY <1>1, <2>1 DEF Recorded
  <2>2. CASE LeftOver(i)
    BY <1>1, <2>2 DEF LeftOver
  <2> QED
    BY <2>1, <2>2 DEF RegionInv, WalkOK
<1> QED
  BY <1>1, <1>2 DEF RegionKeys

\* A region at an address is the one that the kernel finds there.
LEMMA RegionOfByte ==
  ASSUME MemoryOK, NEW s \in memory, NEW a \in Bytes(s)
  PROVE  vm_region_recurse_64(a) = s /\ RegionsFrom(a) # {}
<1> DEFINE q == vm_region_recurse_64(a)
<1>1. /\ s.base \in Nat /\ End(s) \in Nat /\ s.base < End(s)
      /\ a \in Int /\ s.base <= a /\ a < End(s)
  BY RegionBounds DEF MemoryOK
<1>2. RegionsFrom(a) # {}
  BY <1>1 DEF RegionsFrom
<1>3. q \in memory /\ a < End(q) /\ q.base <= s.base
  BY <1>1, <1>2, RegionAt
<1>4. q.base \in Nat /\ End(q) \in Nat
  BY <1>3, RegionBounds DEF MemoryOK
<1> HIDE DEF q
<1>5. ~Apart(q, s)
  BY <1>1, <1>3, <1>4 DEF Apart
<1>6. q = s
  BY <1>3, <1>5 DEF MemoryOK
<1> QED
  BY <1>2, <1>6 DEF q

\* What the lookup gives for an address of a region that has been there all the
\* time is the element of that region.
LEMMA StableRegionIsFound ==
  ASSUME RegionInv, walking = "after", NEW r \in stable, NEW a \in Bytes(r)
  PROVE  \E i \in RegionInfoForAddress(a) :
           /\ i.vmaddr = r.base /\ r.size <= i.vmsize
           /\ i.prot = r.prot /\ i.prot = MemoryProtection(a) /\ i.type = RegionType(r)
           /\ \A b \in a .. i.vmaddr + i.vmsize - 1 :
                \E s \in memory : b \in Bytes(s) /\ s.tag = r.tag
<1>1. StableOK(r)
  BY DEF RegionInv, WalkOK
<1>2. /\ RegionOK(r) /\ r.base \in Nat /\ r.size \in Nat /\ End(r) \in Nat
      /\ End(r) = r.base + r.size /\ r.base < End(r) /\ a \in Nat /\ r.base <= a /\ a < End(r)
  BY <1>1, RegionBounds DEF StableOK
<1>3. PICK t \in memory : Extends(t, r)
  BY <1>1 DEF StableOK
<1>4. /\ t.base = r.base /\ End(r) <= End(t) /\ End(t) \in Nat /\ t.prot = r.prot
      /\ End(t) <= address /\ address \in Nat
  <2>1. t.base \in Nat /\ t.size \in Nat /\ End(t) = t.base + t.size /\ End(t) \in Nat
    BY <1>3, RegionBounds DEF RegionInv, MemoryOK
  <2> QED
    BY <1>2, <1>3, <2>1 DEF Extends, RegionInv, WalkOK
<1>5. Found(r)
  BY <1>1, <1>2, <1>4 DEF StableOK
<1>6. PICK i \in regionInfos : /\ i.vmaddr = r.base /\ r.size <= i.vmsize
                               /\ i.prot = r.prot /\ i.type = RegionType(r)
  BY <1>5 DEF Found
<1>7. Recorded(i)
  <2>1. ~LeftOver(i)
    BY <1>2, <1>4, <1>6 DEF LeftOver
  <2> QED
    BY <2>1 DEF RegionInv, WalkOK
<1>8. PICK k : k = LookupKey(RegionKeys, a)
  OBVIOUS
<1>9. k \in RegionKeys /\ r.base <= k /\ k <= a /\ k \in Nat
  <2>1. r.base \in RegionKeys
    BY <1>6 DEF RegionKeys
  <2>2. AddrLimit \in Nat /\ RegionKeys \in SUBSET (0 .. AddrLimit)
    BY RegionKeysOK
  <2>3. k \in RegionKeys /\ r.base <= k /\ k <= a
    BY <1>2, <1>8, <2>1, <2>2, LookupKeyIsLast
  <2>4. k \in Nat
    BY <2>2, <2>3
  <2> QED
    BY <2>3, <2>4
<1>10. k = r.base
  <2>1. PICK j \in regionInfos : j.vmaddr = k
    BY <1>9 DEF RegionKeys
  <2>2. ~LeftOver(j)
    BY <1>2, <1>4, <1>9, <2>1 DEF LeftOver
  <2>3. PICK s \in memory : s.base = k
    BY <2>1, <2>2 DEF RegionInv, WalkOK, Recorded
  <2>4. End(s) \in Nat /\ k < End(s)
    BY <2>3, RegionBounds DEF RegionInv, MemoryOK
  <2>5. ~Apart(s, t)
    BY <1>2, <1>4, <1>9, <2>3, <2>4 DEF Apart
  <2>6. s = t
    BY <1>3, <2>5 DEF RegionInv, MemoryOK
  <2> QED
    BY <1>4, <2>3, <2>6
<1>11. Candidate(a) = i
  <2>1. \A j \in regionInfos : j.vmaddr = k => j = i
    BY <1>6, <1>10 DEF RegionInv, WalkOK
  <2> QED
    BY <1>6, <1>8, <1>10, <2>1 DEF Candidate
<1>12. i.vmaddr \in Nat /\ i.vmsize \in Nat
  BY <1>7 DEF Recorded
<1>13. IsInRegion(a, i)
  BY <1>2, <1>6, <1>12 DEF IsInRegion
<1>14. i \in RegionInfoForAddress(a)
  BY <1>6, <1>11, <1>13 DEF RegionInfoForAddress
<1>15. MemoryProtection(a) = r.prot
  <2>1. a \in Bytes(t)
    <3>1. RegionOK(t)
      BY <1>3 DEF RegionInv, MemoryOK
    <3> QED
      BY <1>2, <1>4, <3>1, RegionBounds
  <2> QED
    BY <1>3, <1>4, <2>1, RegionOfByte DEF MemoryProtection, RegionInv
<1>16. ASSUME NEW b \in a .. i.vmaddr + i.vmsize - 1
       PROVE  \E s \in memory : b \in Bytes(s) /\ s.tag = r.tag
  <2>1. PICK s \in memory : s.base = i.vmaddr /\ i.vmaddr + i.vmsize <= End(s)
    BY <1>7 DEF Recorded
  <2>2. RegionOK(s) /\ End(s) \in Nat
    BY <2>1, RegionBounds DEF RegionInv, MemoryOK
  <2>3. b \in Int /\ s.base <= b /\ b < End(s)
    BY <1>2, <1>6, <1>12, <2>1, <2>2
  <2>4. b \in Bytes(s)
    BY <2>2, <2>3, RegionBounds
  <2>5. s.tag = r.tag
    <3>1. s.base < End(s) /\ s.base = t.base /\ t.base < End(t)
      BY <1>2, <1>4, <1>6, <2>1, <2>2, RegionBounds
    <3>2. ~Apart(s, t)
      BY <1>2, <1>4, <2>2, <3>1 DEF Apart
    <3>3. s = t
      BY <1>3, <2>1, <3>2 DEF RegionInv, MemoryOK
    <3> QED
      BY <1>3, <3>3 DEF Extends
  <2> QED
    BY <2>4, <2>5
<1> QED
  BY <1>6, <1>14, <1>15, <1>16

\* A hit is in or right behind a region, or behind all of them.
LEMMA HitsAreBehind ==
  ASSUME RegionInv, walking = "after", NEW a \in Addresses, RegionInfoForAddress(a) # {}
  PROVE  \/ \E r \in memory : a \in Bytes(r) \/ a = End(r)
         \/ \A r \in stable : End(r) <= a
<1>1. regionInfos # {} /\ IsInRegion(a, Candidate(a))
  BY DEF RegionInfoForAddress
<1>2. a \in Nat
  BY MemoryAssumption DEF Addresses
<1>3. LookupKey(RegionKeys, a) \in RegionKeys
  <2>1. AddrLimit \in Nat /\ RegionKeys \in SUBSET (0 .. AddrLimit) /\ RegionKeys # {}
    BY <1>1, RegionKeysOK
  <2> QED
    BY <1>2, <2>1, LookupKeyIsLast
<1>4. PICK i \in regionInfos : i = Candidate(a)
  <2>1. \E i \in regionInfos : i.vmaddr = LookupKey(RegionKeys, a)
    BY <1>3 DEF RegionKeys
  <2> QED
    BY <2>1 DEF Candidate
<1>5. a >= i.vmaddr /\ a <= i.vmaddr + i.vmsize
  BY <1>1, <1>4 DEF IsInRegion
<1>6. CASE Recorded(i)
  <2>1. PICK s \in memory : s.base = i.vmaddr /\ i.vmaddr + i.vmsize <= End(s)
    BY <1>6 DEF Recorded
  <2>2. RegionOK(s)
    BY <2>1 DEF RegionInv, MemoryOK
  <2>3. End(s) \in Nat /\ s.base \in Nat
    BY <2>2, RegionBounds
  <2>4. s.base <= a /\ a <= End(s)
    BY <1>2, <1>5, <1>6, <2>1, <2>3 DEF Recorded
  <2>5. a = End(s) \/ a < End(s)
    BY <1>2, <2>3, <2>4
  <2>6. a \in Bytes(s) \/ a = End(s)
    BY <1>2, <2>2, <2>4, <2>5, RegionBounds
  <2> QED
    BY <2>6
<1>7. CASE LeftOver(i)
  <2> SUFFICES ASSUME NEW r \in stable PROVE End(r) <= a
    OBVIOUS
  <2>1. StableOK(r) /\ address \in Nat
    BY DEF RegionInv, WalkOK
  <2>2. PICK t \in memory : Extends(t, r)
    BY <2>1 DEF StableOK
  <2>3. End(t) <= address /\ address <= a
    BY <1>5, <1>7 DEF LeftOver, RegionInv, WalkOK
  <2>4. t.base \in Nat /\ t.size \in Nat /\ End(t) = t.base + t.size
    BY <2>2, RegionBounds DEF RegionInv, MemoryOK
  <2>5. r.base \in Nat /\ r.size \in Nat /\ End(r) = r.base + r.size
    BY <2>1, RegionBounds DEF StableOK
  <2> QED
    BY <1>2, <2>1, <2>2, <2>3, <2>4, <2>5 DEF Extends
<1> QED
  BY <1>6, <1>7 DEF RegionInv, WalkOK

\* Whatever the zone maps while the regions are walked, each mapped address that has
\* been there all the time is found: with what belongs to its own region, or, inside
\* of a submap, which the walk does not enter, with what belongs to the submap.
THEOREM StableRegionsAreFound == Spec => []MappedAddressesFound
<1>1. ASSUME RegionInv PROVE MappedAddressesFound
  <2> SUFFICES ASSUME walking = "after", NEW n \in LeavesOf(stable), NEW a \in Bytes(n)
               PROVE  \E i \in RegionInfoForAddress(a), r \in stable :
                        /\ a \in Bytes(r) /\ (r = n \/ IsSubmap(r))
                        /\ i.prot = r.prot /\ i.prot = MemoryProtection(a) /\ i.type = RegionType(r)
                        /\ r = n => \A b \in a .. i.vmaddr + i.vmsize - 1 :
                                     \E s \in Leaves : b \in Bytes(s)
    BY DEF MappedAddressesFound
  <2>1. PICK r \in stable : /\ a \in Bytes(r)
                            /\ (r = n /\ ~IsSubmap(r)) \/ (IsSubmap(r) /\ r # n)
    <3>1. CASE n \in stable /\ ~IsSubmap(n)
      BY <3>1
    <3>2. CASE n \in Nested /\ \E s \in stable : IsSubmap(s) /\ Bytes(n) \subseteq Bytes(s)
      BY <3>2, MemoryAssumption
    <3> QED
      BY <3>1, <3>2 DEF LeavesOf
  <2>2. PICK i \in RegionInfoForAddress(a) :
          /\ i.prot = r.prot /\ i.prot = MemoryProtection(a) /\ i.type = RegionType(r)
          /\ \A b \in a .. i.vmaddr + i.vmsize - 1 :
               \E s \in memory : b \in Bytes(s) /\ s.tag = r.tag
    BY <1>1, <2>1, StableRegionIsFound
  <2>3. ASSUME r = n, NEW b \in a .. i.vmaddr + i.vmsize - 1
        PROVE  \E s \in Leaves : b \in Bytes(s)
    <3>1. PICK s \in memory : b \in Bytes(s) /\ s.tag = r.tag
      BY <2>2, <2>3
    <3>2. s \in Leaves
      BY <2>1, <2>3, <3>1 DEF Leaves, LeavesOf, IsSubmap
    <3> QED
      BY <3>1, <3>2
  <2> QED
    BY <2>1, <2>2, <2>3
<1> QED
  BY <1>1, RegionInvariant, PTL

\* An unmapped address is taken for a valid one only right behind a region, behind
\* all regions, or in a gap of a submap, which the walk does not see.
THEOREM FalseHitsAreBehind == Spec => []FalseHitsOnlyBehind
<1>1. ASSUME RegionInv PROVE FalseHitsOnlyBehind
  <2> SUFFICES ASSUME walking = "after", NEW a \in Addresses, RegionInfoForAddress(a) # {}
               PROVE  \/ \E r \in Leaves : a \in Bytes(r) \/ a = End(r)
                      \/ \A r \in stable : End(r) <= a
                      \/ \E s \in memory : IsSubmap(s) /\ s.base <= a /\ a <= End(s)
    BY DEF FalseHitsOnlyBehind
  <2>1. CASE \A r \in stable : End(r) <= a
    BY <2>1
  <2>2. CASE \E r \in memory : a \in Bytes(r) \/ a = End(r)
    <3>1. PICK r \in memory : a \in Bytes(r) \/ a = End(r)
      BY <2>2
    <3>2. RegionOK(r)
      BY <1>1 DEF RegionInv, MemoryOK
    <3>3. r.base <= a /\ a <= End(r)
      BY <3>1, <3>2, RegionBounds
    <3> QED
      BY <3>1, <3>3 DEF Leaves, LeavesOf
  <2> QED
    BY <1>1, <2>1, <2>2, HitsAreBehind
<1> QED
  BY <1>1, RegionInvariant, PTL
-----------------------------------------------------------------------------
(* Strings. *)

\* std::min
LEMMA MinOfTwo ==
  ASSUME NEW x \in Nat, NEW y \in Nat
  PROVE  Min({x, y}) \in {x, y} /\ Min({x, y}) <= x /\ Min({x, y}) <= y
<1>1. \E m \in {x, y} : \A k \in {x, y} : m =< k
  OBVIOUS
<1>2. Min({x, y}) \in {x, y} /\ \A k \in {x, y} : Min({x, y}) =< k
  BY <1>1 DEF Min
<1> QED
  BY <1>2

\* What could be read if every entry were of one piece, as the depth of 0 has it.
EntryReadable(a, size) ==
  \A b \in a .. a + size - 1 : \E r \in memory : b \in Bytes(r) /\ "read" \in r.prot

\* The string that would then be read.
EntryString(a) ==
  IF RegionsFrom(a) = {} THEN NoString
  ELSE LET sizeToRead == Min({EndDistance(a), MaxString})
           ends == {b \in zeros : a <= b /\ b < a + sizeToRead}
       IN  IF EntryReadable(a, sizeToRead) /\ ends # {} THEN Min(ends) - a ELSE NoString

\* The distance is that of an address in front of the end of a region.
LEMMA EndDistanceIsNumber ==
  ASSUME MemoryOK, NEW a \in Addresses, RegionsFrom(a) # {}
  PROVE  EndDistance(a) \in Nat /\ EndDistance(a) >= 1
<1> DEFINE r == vm_region_recurse_64(a)
           dist == End(r) - a
           next == {s \in RegionsFrom(End(r)) :
                      s = vm_region_recurse_64(End(r)) /\ s.base = End(r) /\ "read" \in s.prot}
<1>1. a \in Nat
  BY MemoryAssumption DEF Addresses
<1>2. r \in memory /\ a < End(r)
  BY RegionAt, <1>1
<1>3. End(r) \in Nat
  BY <1>2, RegionBounds DEF MemoryOK
<1>4. dist \in Nat /\ dist >= 1
  BY <1>1, <1>2, <1>3
<1>5. EndDistance(a) = IF dist < PageSize /\ next # {}
                       THEN dist + (CHOOSE s \in next : TRUE).size ELSE dist
  BY DEF EndDistance
<1>6. next # {} => (CHOOSE s \in next : TRUE).size \in Nat
  <2>1. \A s \in next : s.size \in Nat
    BY RegionBounds DEF MemoryOK, RegionsFrom
  <2> HIDE DEF next
  <2> QED
    BY <2>1
<1> HIDE DEF next, dist
<1> QED
  BY <1>4, <1>5, <1>6

\* Whoever can read more can read less.
LEMMA ReadableLess ==
  ASSUME NEW a \in Nat, NEW m \in Nat, NEW n \in Nat, n <= m, EntryReadable(a, m)
  PROVE  EntryReadable(a, n)
<1>1. \A b \in a .. a + n - 1 : b \in a .. a + m - 1
  OBVIOUS
<1> QED
  BY <1>1 DEF EntryReadable

\* The distance reaches as far as it is safe to read, and stops short of a page
\* only if reading on would fail.
LEMMA EndDistanceIsSafe ==
  ASSUME MemoryOK, NEW r \in memory, "read" \in r.prot, NEW a \in Bytes(r)
  PROVE  /\ EndDistance(a) \in Nat /\ EndDistance(a) >= 1
         /\ EntryReadable(a, EndDistance(a))
         /\ EndDistance(a) < PageSize => ~EntryReadable(a, EndDistance(a) + 1)
<1> DEFINE next == {s \in RegionsFrom(End(r)) :
                      s = vm_region_recurse_64(End(r)) /\ s.base = End(r) /\ "read" \in s.prot}
           dist == End(r) - a
<1>1. /\ r.base \in Nat /\ End(r) \in Nat /\ a \in Nat /\ r.base <= a /\ a < End(r) /\ RegionOK(r)
  BY RegionBounds DEF MemoryOK
<1>2. dist \in Nat /\ dist >= 1 /\ a + dist = End(r)
  BY <1>1
<1>3. PageSize \in Nat /\ PageSize >= 1
  BY MemoryAssumption
<1>4. vm_region_recurse_64(a) = r
  BY RegionOfByte
<1>5. EndDistance(a) = IF dist < PageSize /\ next # {}
                       THEN dist + (CHOOSE s \in next : TRUE).size ELSE dist
  BY <1>4 DEF EndDistance
<1>6. ASSUME NEW b \in Nat, a <= b, b < End(r) PROVE b \in Bytes(r)
  BY <1>1, <1>6, RegionBounds
<1>7. CASE dist < PageSize /\ next # {}
  <2>1. PICK s \in next : s = CHOOSE q \in next : TRUE
    BY <1>7
  <2>2. s \in memory /\ s.base = End(r) /\ "read" \in s.prot
    BY <2>1 DEF RegionsFrom
  <2>3. RegionOK(s)
    BY <2>2 DEF MemoryOK
  <2>4. s.size \in Nat /\ s.size >= PageSize /\ End(s) = s.base + s.size
    BY <2>3, RegionBounds DEF RegionOK
  <2>5. EndDistance(a) = dist + s.size
    BY <1>5, <1>7, <2>1
  <2> HIDE DEF next, dist
  <2>6. EndDistance(a) \in Nat /\ EndDistance(a) >= 1 /\ ~(EndDistance(a) < PageSize)
    BY <1>2, <1>3, <2>4, <2>5
  <2>7. ASSUME NEW b \in a .. a + EndDistance(a) - 1
        PROVE  \E q \in memory : b \in Bytes(q) /\ "read" \in q.prot
    <3>1. b \in Nat /\ a <= b /\ b < End(s)
      BY <1>1, <1>2, <2>2, <2>4, <2>5
    <3>2. CASE b < End(r)
      BY <1>6, <3>1, <3>2
    <3>3. CASE ~(b < End(r))
      <4>1. b \in Bytes(s)
        BY <1>1, <2>2, <2>3, <3>1, <3>3, RegionBounds
      <4> QED
        BY <2>2, <4>1
    <3> QED
      BY <3>2, <3>3
  <2> QED
    BY <2>6, <2>7 DEF EntryReadable
<1>8. CASE ~(dist < PageSize /\ next # {})
  <2>1. EndDistance(a) = dist
    BY <1>5, <1>8
  <2>2. EntryReadable(a, dist)
    <3> SUFFICES ASSUME NEW b \in a .. a + dist - 1
                 PROVE  \E q \in memory : b \in Bytes(q) /\ "read" \in q.prot
      BY DEF EntryReadable
    <3>1. b \in Nat /\ a <= b /\ b < End(r)
      BY <1>1, <1>2
    <3> QED
      BY <1>6, <3>1
  <2>3. ASSUME dist < PageSize, EntryReadable(a, dist + 1) PROVE FALSE
    <3>1. next = {}
      BY <1>8, <2>3
    <3>2. End(r) \in a .. a + (dist + 1) - 1
      BY <1>1
    <3>3. PICK s \in memory : End(r) \in Bytes(s) /\ "read" \in s.prot
      BY <2>3, <3>2 DEF EntryReadable
    <3>4. vm_region_recurse_64(End(r)) = s
      BY <3>3, RegionOfByte
    <3>5. s.base \in Nat /\ End(s) \in Nat /\ s.base <= End(r) /\ End(r) < End(s)
      BY <3>3, RegionBounds DEF MemoryOK
    <3>6. s # r
      BY <1>1, <3>5
    <3>7. Apart(r, s)
      BY <3>6 DEF MemoryOK
    <3>8. s.base = End(r)
      BY <1>1, <3>5, <3>7 DEF Apart
    <3>9. s \in RegionsFrom(End(r))
      BY <3>5 DEF RegionsFrom
    <3> QED
      BY <3>1, <3>3, <3>4, <3>8, <3>9
  <2> QED
    BY <1>2, <2>1, <2>2, <2>3
<1> QED
  BY <1>7, <1>8

\* Where nothing can be read, no string is.
LEMMA UnreadableString ==
  ASSUME MemoryOK, NEW a \in Addresses, ~ \E r \in memory : a \in Bytes(r) /\ "read" \in r.prot
  PROVE  EntryString(a) = NoString /\ \A n \in Nat : n >= 1 => ~EntryReadable(a, n)
<1>1. a \in Nat
  BY MemoryAssumption DEF Addresses
<1>2. ASSUME NEW n \in Nat, n >= 1, EntryReadable(a, n) PROVE FALSE
  <2>1. a \in a .. a + n - 1
    BY <1>1, <1>2
  <2> QED
    BY <1>2, <2>1 DEF EntryReadable
<1>3. CASE RegionsFrom(a) = {}
  BY <1>2, <1>3 DEF EntryString
<1>4. CASE RegionsFrom(a) # {}
  <2>6. EndDistance(a) \in Nat /\ EndDistance(a) >= 1
    BY <1>4, EndDistanceIsNumber
  <2>7. MaxString \in Nat /\ MaxString >= 1
    BY MemoryAssumption
  <2>8. Min({EndDistance(a), MaxString}) \in Nat /\ Min({EndDistance(a), MaxString}) >= 1
    BY <2>6, <2>7, MinOfTwo
  <2>9. ~EntryReadable(a, Min({EndDistance(a), MaxString}))
    BY <1>2, <2>8
  <2> QED
    BY <1>2, <1>4, <2>9 DEF EntryString
<1> QED
  BY <1>3, <1>4

\* Without submaps, the string at an address is read exactly if it ends in time
\* and can be read.
LEMMA EntryStringIsExact ==
  ASSUME MemoryOK, NEW a \in Addresses
  PROVE  LET ends == {b \in zeros : a <= b /\ b < a + MaxString}
         IN  EntryString(a) = IF ends # {} /\ EntryReadable(a, Min(ends) - a + 1)
                             THEN Min(ends) - a ELSE NoString
<1> DEFINE ends == {b \in zeros : a <= b /\ b < a + MaxString}
<1>1. a \in Nat /\ MaxString \in Nat /\ MaxString >= 1 /\ PageSize \in Nat /\ MaxString <= PageSize
  BY MemoryAssumption DEF Addresses
<1>2. AddrLimit \in Nat /\ zeros \subseteq 0 .. AddrLimit
  BY MemoryAssumption DEF MemoryOK, Addresses
<1>3. ends # {} => Min(ends) \in ends /\ \A b \in ends : Min(ends) <= b
  <2>1. ends \in SUBSET (0 .. AddrLimit)
    BY <1>2
  <2> HIDE DEF ends
  <2> QED
    BY <1>2, <2>1, MinMax
<1>4. PICK m : m = Min(ends)
  OBVIOUS
<1>5. ends # {} => m \in Nat /\ a <= m /\ m < a + MaxString /\ m - a + 1 \in Nat /\ m - a + 1 >= 1
  <2>1. \A b \in ends : b \in Nat /\ a <= b /\ b < a + MaxString
    BY <1>2
  <2> HIDE DEF ends
  <2>2. ends # {} => m \in Nat /\ a <= m /\ m < a + MaxString
    BY <1>3, <1>4, <2>1
  <2> QED
    BY <1>1, <2>2
<1>6. CASE ~ \E r \in memory : a \in Bytes(r) /\ "read" \in r.prot
  <2>1. EntryString(a) = NoString /\ \A n \in Nat : n >= 1 => ~EntryReadable(a, n)
    BY <1>6, UnreadableString
  <2> HIDE DEF ends
  <2>2. ends # {} => ~EntryReadable(a, Min(ends) - a + 1)
    BY <1>4, <1>5, <2>1
  <2> QED
    BY <2>1, <2>2 DEF ends
<1>7. CASE \E r \in memory : a \in Bytes(r) /\ "read" \in r.prot
  <2>1. PICK r \in memory : a \in Bytes(r) /\ "read" \in r.prot
    BY <1>7
  <2>2. PICK d : d = EndDistance(a)
    OBVIOUS
  <2>3. d \in Nat /\ d >= 1 /\ EntryReadable(a, d) /\ (d < PageSize => ~EntryReadable(a, d + 1))
    BY <2>1, <2>2, EndDistanceIsSafe
  <2>4. PICK size : size = Min({d, MaxString})
    OBVIOUS
  <2>5. size \in {d, MaxString} /\ size <= d /\ size <= MaxString /\ size \in Nat
    BY <1>1, <2>3, <2>4, MinOfTwo
  <2>6. EntryReadable(a, size)
    BY <1>1, <2>3, <2>5, ReadableLess
  <2>7. ASSUME NEW n \in Nat, n <= MaxString, EntryReadable(a, n) PROVE n <= size
    <3> SUFFICES ASSUME ~(n <= size) PROVE FALSE
      OBVIOUS
    <3>1. size = d /\ d < PageSize /\ d + 1 <= n /\ d + 1 \in Nat
      BY <1>1, <2>3, <2>5, <2>7
    <3>2. EntryReadable(a, d + 1)
      BY <1>1, <2>7, <3>1, ReadableLess
    <3> QED
      BY <2>3, <3>1, <3>2
  <2> DEFINE e == {b \in zeros : a <= b /\ b < a + size}
  <2>8. RegionsFrom(a) # {}
    BY <2>1, RegionOfByte
  <2>9. EntryString(a) = IF EntryReadable(a, size) /\ e # {} THEN Min(e) - a ELSE NoString
    BY <2>2, <2>4, <2>8 DEF EntryString
  <2>10. e \subseteq ends
    <3>1. \A b \in e : b \in zeros /\ b \in Nat /\ a <= b /\ b < a + size
      BY <1>2
    <3>2. \A b \in e : b < a + MaxString
      BY <1>1, <2>5, <3>1
    <3> QED
      BY <3>1, <3>2
  <2>11. ASSUME ends # {}, EntryReadable(a, m - a + 1)
         PROVE  e # {} /\ Min(e) = m
    <3>1. m - a + 1 <= size
      BY <1>1, <1>5, <2>7, <2>11
    <3>2. m < a + size
      BY <1>1, <1>5, <2>5, <2>11, <3>1
    <3>3. m \in ends
      BY <1>3, <1>4, <2>11
    <3>4. m \in e
      BY <3>2, <3>3
    <3>5. e \in SUBSET (0 .. AddrLimit)
      BY <1>2
    <3>6. \A b \in e : m <= b
      BY <1>3, <1>4, <2>10, <2>11
    <3> HIDE DEF e
    <3>7. Min(e) \in e /\ Min(e) <= m
      BY <1>2, <3>4, <3>5, MinMax
    <3>8. m <= Min(e) /\ Min(e) \in Nat
      <4>1. \A b \in 0 .. AddrLimit : b \in Nat
        BY <1>2
      <4>2. Min(e) \in 0 .. AddrLimit
        BY <3>5, <3>7
      <4> QED
        BY <3>6, <3>7, <4>1, <4>2
    <3> QED
      BY <1>5, <2>11, <3>4, <3>7, <3>8
  <2>12. ASSUME ends # {}, ~EntryReadable(a, m - a + 1)
         PROVE  e = {}
    <3> SUFFICES ASSUME NEW b \in e PROVE FALSE
      OBVIOUS
    <3>1. b \in Nat /\ b < a + size /\ b \in ends
      BY <1>2, <2>10
    <3>2. m <= b
      BY <1>3, <1>4, <2>12, <3>1
    <3>3. m - a + 1 <= size
      BY <1>1, <1>5, <2>5, <2>12, <3>1, <3>2
    <3>4. EntryReadable(a, m - a + 1)
      BY <1>1, <1>5, <2>5, <2>6, <2>12, <3>3, ReadableLess
    <3> QED
      BY <2>12, <3>4
  <2> HIDE DEF e, ends
  <2>13. CASE ends = {}
    <3>1. e = {}
      BY <2>10, <2>13
    <3> QED
      BY <2>9, <2>13, <3>1 DEF ends
  <2>14. CASE ends # {} /\ EntryReadable(a, m - a + 1)
    <3>1. EntryString(a) = m - a
      BY <2>6, <2>9, <2>11, <2>14
    <3> QED
      BY <1>4, <2>14, <3>1 DEF ends
  <2>15. CASE ends # {} /\ ~EntryReadable(a, m - a + 1)
    <3>1. EntryString(a) = NoString
      BY <2>9, <2>12, <2>15
    <3> QED
      BY <1>4, <2>15, <3>1 DEF ends
  <2> QED
    BY <2>13, <2>14, <2>15
<1> QED
  BY <1>6, <1>7

\* Bytes that are not masked are read as their entries have it.
LEMMA UnmaskedIsEntry ==
  ASSUME NEW a \in Nat, NEW n \in Nat, NEW k \in Nat, n <= k,
         ~ \E b \in a .. a + k - 1 : IsMasked(b)
  PROVE  Readable(a, n) <=> EntryReadable(a, n)
<1> SUFFICES ASSUME NEW b \in a .. a + n - 1
             PROVE  (\E r \in Leaves : b \in Bytes(r) /\ "read" \in r.prot)
                      <=> (\E r \in memory : b \in Bytes(r) /\ "read" \in r.prot)
  BY DEF Readable, EntryReadable
<1>1. b \in a .. a + k - 1 /\ b .. b + 1 - 1 = {b}
  OBVIOUS
<1>2. Readable(b, 1) <=> \E r \in Leaves : b \in Bytes(r) /\ "read" \in r.prot
  BY <1>1 DEF Readable
<1> QED
  BY <1>1, <1>2 DEF IsMasked

\* A string is read exactly, or a masked byte keeps it from being read.
LEMMA StringIsExact ==
  ASSUME MemoryOK, NEW a \in Addresses
  PROVE  LET ends == {b \in zeros : a <= b /\ b < a + MaxString}
         IN  \/ ReadString(a) = IF ends # {} /\ Readable(a, Min(ends) - a + 1)
                                THEN Min(ends) - a ELSE NoString
             \/ ReadString(a) = NoString /\ \E b \in a .. a + MaxString - 1 : IsMasked(b)
<1> DEFINE ends == {b \in zeros : a <= b /\ b < a + MaxString}
<1>1. a \in Nat /\ MaxString \in Nat /\ MaxString >= 1
  BY MemoryAssumption DEF Addresses
<1>2. AddrLimit \in Nat /\ zeros \subseteq 0 .. AddrLimit
  BY MemoryAssumption DEF MemoryOK, Addresses
<1>3. PICK m : m = Min(ends)
  OBVIOUS
<1>4. ends # {} => /\ m \in ends /\ \A b \in ends : m <= b
                   /\ m \in Nat /\ a <= m /\ m < a + MaxString
  <2>1. ends \in SUBSET (0 .. AddrLimit)
    BY <1>2
  <2>2. \A b \in ends : b \in Nat /\ a <= b /\ b < a + MaxString
    BY <1>2
  <2> HIDE DEF ends
  <2> QED
    BY <1>2, <1>3, <2>1, <2>2, MinMax
<1>5. PICK size : size = Min({EndDistance(a), MaxString})
  OBVIOUS
<1> DEFINE e == {b \in zeros : a <= b /\ b < a + size}
<1>6. RegionsFrom(a) # {} =>
        /\ size \in Nat /\ size <= MaxString
        /\ ReadString(a) = IF Readable(a, size) /\ e # {} THEN Min(e) - a ELSE NoString
        /\ EntryString(a) = IF EntryReadable(a, size) /\ e # {} THEN Min(e) - a ELSE NoString
  <2>1. RegionsFrom(a) # {} => EndDistance(a) \in Nat
    BY EndDistanceIsNumber
  <2> QED
    BY <1>1, <1>5, <2>1, MinOfTwo DEF ReadString, EntryString
<1>7. RegionsFrom(a) = {} => ReadString(a) = NoString /\ EntryString(a) = NoString
  BY DEF ReadString, EntryString
<1>8. CASE ~ \E b \in a .. a + MaxString - 1 : IsMasked(b)
  <2>1. \A n \in Nat : n <= MaxString => (Readable(a, n) <=> EntryReadable(a, n))
    BY <1>1, <1>8, UnmaskedIsEntry
  <2>2. ReadString(a) = EntryString(a)
    BY <1>6, <1>7, <2>1
  <2>3. EntryString(a) = IF ends # {} /\ EntryReadable(a, m - a + 1) THEN m - a ELSE NoString
    BY <1>3, EntryStringIsExact
  <2>4. ends # {} => m - a + 1 \in Nat /\ m - a + 1 <= MaxString
    BY <1>1, <1>4
  <2> HIDE DEF ends
  <2>5. ends # {} => (Readable(a, m - a + 1) <=> EntryReadable(a, m - a + 1))
    BY <2>1, <2>4
  <2> QED
    BY <1>3, <2>2, <2>3, <2>5 DEF ends
<1>9. CASE ReadString(a) # NoString
  <2>1. /\ size \in Nat /\ size <= MaxString /\ Readable(a, size) /\ e # {}
        /\ ReadString(a) = Min(e) - a
    BY <1>6, <1>7, <1>9
  <2>2. e \in SUBSET (0 .. AddrLimit)
    BY <1>2
  <2>10. \A b \in e : b \in Nat /\ a <= b /\ b < a + size
    BY <1>2
  <2>3. \A b \in e : b \in ends
    BY <1>1, <1>2, <2>1
  <2>4. ends # {}
    BY <2>1, <2>3
  <2>5. \A b \in ends : b < a + size => b \in e
    OBVIOUS
  <2> HIDE DEF e, ends
  <2>6. Min(e) \in e /\ \A b \in e : Min(e) <= b
    BY <1>2, <2>1, <2>2, MinMax
  <2>7. m \in Nat /\ a <= m /\ m \in ends /\ m <= Min(e) /\ Min(e) \in Nat /\ Min(e) < a + size
    BY <1>4, <2>3, <2>4, <2>6, <2>10
  <2>8. m = Min(e)
    <3>1. m < a + size
      BY <1>1, <2>1, <2>7
    <3>2. Min(e) <= m
      BY <2>5, <2>6, <2>7, <3>1
    <3> QED
      BY <2>7, <3>2
  <2>9. Readable(a, m - a + 1)
    <3>1. \A b \in a .. a + (m - a + 1) - 1 : b \in a .. a + size - 1
      BY <1>1, <2>1, <2>7, <2>8
    <3> QED
      BY <2>1, <3>1 DEF Readable
  <2> QED
    BY <1>3, <2>1, <2>4, <2>8, <2>9 DEF ends
<1> QED
  BY <1>8, <1>9

\* In every state of the target's memory, a string is read if and only if it ends
\* in time and all of its bytes can be read, unless a byte behind it or in it is in
\* a submap that says otherwise of it than what is inside.
THEOREM StringsAreReadExactly == Spec => []StringReadExact
<1>1. RegionInv => StringReadExact
  BY StringIsExact DEF RegionInv, StringReadExact
<1> QED
  BY <1>1, RegionInvariant, PTL
-----------------------------------------------------------------------------
(* Executing modules. *)

\* The modules have keys of their own, and marks belong to addresses.
ExecOK ==
  /\ \A m, n \in moduleInfos : m.loadAddress = n.loadAddress => m = n
  /\ \A m \in moduleInfos : m.executing \in BOOLEAN
  /\ ~Constructed => marked = {} /\ \A m \in moduleInfos : m.executing = FALSE
  /\ marked \subseteq CallStackAddresses

\* ExecutingExact with the bounds of the code written out.
ExecutingOK(m) ==
  LET l == LoadAddress[m.image]
      z == TextOf(m.image).size
  IN  /\ \A a \in marked : l <= a /\ a < l + z => m.executing
      /\ m.executing => \E a \in marked : l <= a /\ a <= l + z

ExecInv == ListInv /\ ExecOK /\ \A m \in moduleInfos : ExecutingOK(m)

\* The code of an image is in its region.
LEMMA TextFits ==
  ASSUME NEW i \in AllImages
  PROVE  /\ LoadAddress[i] \in Nat /\ TextOf(i).size \in Nat /\ TextOf(i).size >= 1
         /\ TextOf(i).size <= PageSize /\ PageSize \in Nat /\ LoadAddress[i] + PageSize <= AddrLimit
         /\ AddrLimit \in Nat
<1>1. PageSize \in Nat /\ AddrLimit \in Nat
  BY MemoryAssumption
<1>2. LoadAddress[i] \in Nat /\ TextOf(i).size \in 1 .. PageSize /\ LoadAddress[i] + PageSize <= AddrLimit
  BY ImageAssumption
<1> QED
  BY <1>1, <1>2

\* A segment command has a name, an address and a size.
LEMMA SegmentCommand ==
  ASSUME NEW i \in AllImages, NEW k \in DOMAIN Commands[i]
  PROVE  Commands[i][k] \in [name : STRING, vmaddr : Nat, size : Nat]
<1>1. Commands[i] \in Seq([name : STRING, vmaddr : Nat, size : Nat])
  BY ImageAssumption
<1>2. ASSUME NEW S, NEW q \in Seq(S) PROVE \A j \in DOMAIN q : q[j] \in S
  OBVIOUS
<1> QED
  BY <1>1, <1>2, Zenon

\* The only __TEXT segment of an image, slid, begins where the image does.
LEMMA TextSegment ==
  ASSUME NEW i \in AllImages
  PROVE  \E k \in DOMAIN SegmentsOf(i) :
           /\ SegmentsOf(i)[k].vmaddr = LoadAddress[i] /\ SegmentsOf(i)[k].size = TextOf(i).size
           /\ SegmentsOf(i)[k].name = "__TEXT"
           /\ \A j \in DOMAIN SegmentsOf(i) : SegmentsOf(i)[j].name = "__TEXT" => j = k
<1>1. PICK k \in DOMAIN Commands[i] : \A j \in DOMAIN Commands[i] :
              Commands[i][j].name = "__TEXT" <=> j = k
  BY ImageAssumption
<1>2. \A j \in DOMAIN Commands[i] : Commands[i][j] \in [name : STRING, vmaddr : Nat, size : Nat]
  BY SegmentCommand
<1>3. PICK c : c = Commands[i][k]
  OBVIOUS
<1>4. c \in [name : STRING, vmaddr : Nat, size : Nat] /\ c.name = "__TEXT"
  BY <1>1, <1>2, <1>3
<1>5. TextOf(i) = c
  <2>1. \A s \in ToSet(Commands[i]) : s.name = "__TEXT" => s = c
    BY <1>1, <1>3 DEF ToSet
  <2>2. c \in ToSet(Commands[i])
    BY <1>1, <1>3 DEF ToSet
  <2> QED
    BY <1>4, <2>1, <2>2 DEF TextOf
<1>6. PICK d : d = Slide(i)
  OBVIOUS
<1>7. LoadAddress[i] \in Nat /\ d = LoadAddress[i] - c.vmaddr
  BY <1>5, <1>6, TextFits DEF Slide
<1>8. DOMAIN SegmentsOf(i) = DOMAIN Commands[i]
  BY DEF SegmentsOf
<1>9. ASSUME NEW j \in DOMAIN Commands[i] PROVE SegmentsOf(i)[j].name = Commands[i][j].name
  <2>1. PICK e \in [name : STRING, vmaddr : Nat, size : Nat] : e = Commands[i][j]
    BY <1>2
  <2>2. SegmentsOf(i)[j] = IF e.name = "__PAGEZERO" THEN e ELSE [e EXCEPT !.vmaddr = @ + d]
    BY <1>6, <2>1 DEF SegmentsOf
  <2>3. [e EXCEPT !.vmaddr = @ + d].name = e.name
    BY <2>1
  <2> QED
    BY <2>1, <2>2, <2>3
<1>10. SegmentsOf(i)[k] = [c EXCEPT !.vmaddr = @ + d]
  BY <1>3, <1>4, <1>6 DEF SegmentsOf
<1>11. [c EXCEPT !.vmaddr = @ + d].vmaddr = c.vmaddr + d /\ [c EXCEPT !.vmaddr = @ + d].size = c.size
  BY <1>4
<1>12. c.vmaddr + d = LoadAddress[i]
  BY <1>4, <1>7
<1>13. SegmentsOf(i)[k].vmaddr = LoadAddress[i] /\ SegmentsOf(i)[k].size = TextOf(i).size
  BY <1>5, <1>10, <1>11, <1>12, Zenon
<1>14. SegmentsOf(i)[k].name = "__TEXT" /\ k \in DOMAIN SegmentsOf(i)
  BY <1>1, <1>8, <1>9, Zenon
<1>15. \A j \in DOMAIN SegmentsOf(i) : SegmentsOf(i)[j].name = "__TEXT" => j = k
  BY <1>1, <1>8, <1>9, Zenon
<1> QED
  BY <1>13, <1>14, <1>15, Zenon

\* The lambda of the lookup, for an element of the list.
LEMMA CodeInModule ==
  ASSUME NEW m, IsModule(m), NEW a \in Nat
  PROVE  IsCodeInModule(a, m) <=>
           LoadAddress[m.image] <= a /\ a <= LoadAddress[m.image] + TextOf(m.image).size
<1>1. m.image \in AllImages /\ m.segments = SegmentsOf(m.image)
  BY DEF IsModule
<1>2. PICK k \in DOMAIN m.segments :
           /\ m.segments[k].vmaddr = LoadAddress[m.image] /\ m.segments[k].size = TextOf(m.image).size
           /\ m.segments[k].name = "__TEXT"
           /\ \A j \in DOMAIN m.segments : m.segments[j].name = "__TEXT" => j = k
  BY <1>1, TextSegment
<1>3. IsCodeInModule(a, m) <=>
        a >= m.segments[k].vmaddr /\ a <= m.segments[k].vmaddr + m.segments[k].size
  BY <1>2 DEF IsCodeInModule
<1>4. LoadAddress[m.image] \in Nat /\ TextOf(m.image).size \in Nat
  BY <1>1, TextFits
<1> QED
  BY <1>2, <1>3, <1>4

\* An address in the code of a module is attributed to that module.
LEMMA CodeIsAttributed ==
  ASSUME \A n \in moduleInfos : IsModule(n), NEW m \in moduleInfos, NEW a \in Nat,
         LoadAddress[m.image] <= a, a < LoadAddress[m.image] + TextOf(m.image).size
  PROVE  m \in ModuleForAddress(a)
<1>1. /\ m.image \in AllImages /\ m.loadAddress = LoadAddress[m.image]
  BY DEF IsModule
<1>2. /\ m.loadAddress \in Nat /\ TextOf(m.image).size \in Nat
      /\ TextOf(m.image).size <= PageSize /\ PageSize \in Nat
  BY <1>1, TextFits
<1>3. AddrLimit \in Nat /\ ModuleKeys \in SUBSET (0 .. AddrLimit)
  <2>1. AddrLimit \in Nat
    BY <1>1, TextFits
  <2>2. ASSUME NEW n \in moduleInfos PROVE n.loadAddress \in 0 .. AddrLimit
    <3>1. n.image \in AllImages /\ n.loadAddress = LoadAddress[n.image]
      BY DEF IsModule
    <3>2. n.loadAddress \in Nat /\ n.loadAddress + PageSize <= AddrLimit
      BY <3>1, TextFits
    <3> QED
      BY <1>2, <2>1, <3>2
  <2> QED
    BY <2>1, <2>2 DEF ModuleKeys
<1>4. m.loadAddress \in ModuleKeys
  BY DEF ModuleKeys
<1>5. PICK k : k = LookupKey(ModuleKeys, a)
  OBVIOUS
<1>6. k \in ModuleKeys /\ m.loadAddress <= k /\ k <= a
  BY <1>1, <1>3, <1>4, <1>5, LookupKeyIsLast
<1>7. PICK n \in moduleInfos : n.loadAddress = k
  BY <1>6 DEF ModuleKeys
<1>8. n.image \in AllImages /\ n.loadAddress = LoadAddress[n.image] /\ k \in Nat
  <2>1. n.image \in AllImages /\ n.loadAddress = LoadAddress[n.image]
    BY DEF IsModule
  <2> QED
    BY <1>7, <2>1, TextFits
<1>9. n.image = m.image
  <2> SUFFICES ASSUME n.image # m.image PROVE FALSE
    OBVIOUS
  <2>1. k \in LoadAddress[m.image] .. LoadAddress[m.image] + PageSize - 1
    BY <1>1, <1>2, <1>6, <1>8
  <2>2. k \in k .. k + PageSize - 1
    <3>1. PageSize >= 1
      BY MemoryAssumption
    <3> QED
      BY <1>2, <1>8, <3>1
  <2>3. ASSUME NEW i \in AllImages
        PROVE  Bytes(ImageRegion(i)) = LoadAddress[i] .. LoadAddress[i] + PageSize - 1
    <3>1. ImageRegion(i).base = LoadAddress[i] /\ ImageRegion(i).size = PageSize
      BY DEF ImageRegion
    <3>2. LoadAddress[i] \in Nat
      BY TextFits
    <3> QED
      BY <1>2, <3>1, <3>2 DEF Bytes, End
  <2>4. Bytes(ImageRegion(m.image)) \cap Bytes(ImageRegion(n.image)) = {}
    BY <1>1, <1>8, ImageAssumption
  <2> QED
    BY <1>1, <1>7, <1>8, <2>1, <2>2, <2>3, <2>4
<1>10. m.loadAddress = LookupKey(ModuleKeys, a)
  BY <1>1, <1>5, <1>7, <1>8, <1>9
<1>11. IsCodeInModule(a, m)
  BY <1>1, <1>2, CodeInModule
<1> QED
  BY <1>10, <1>11 DEF ModuleForAddress

\* Nothing is marked while the constructor runs.
LEMMA ExecInit == Init => ExecInv
BY ListInit DEF Init, ExecInv, ExecOK

\* Steps that neither add a module nor mark one.
LEMMA ExecQuiet ==
  ASSUME ExecInv, ListInv', moduleInfos' = moduleInfos, marked' = marked, Constructed => Constructed'
  PROVE  ExecInv'
<1>1. ExecOK'
  BY DEF ExecInv, ExecOK
<1>2. ASSUME NEW m \in moduleInfos PROVE ExecutingOK(m)'
  <2>1. ExecutingOK(m)
    BY DEF ExecInv
  <2> QED
    BY <2>1 DEF ExecutingOK, TextOf
<1> QED
  BY <1>1, <1>2 DEF ExecInv

\* A new module is not executing.
LEMMA ExecAddImage ==
  ASSUME ExecInv, ListInv', AddImage
  PROVE  ExecInv'
<1>1. ~Constructed /\ ~Constructed' /\ marked' = marked
  BY DEF AddImage, Constructed
<1>2. marked = {} /\ \A m \in moduleInfos : m.executing = FALSE
  BY <1>1 DEF ExecInv, ExecOK
<1>3. PICK n : n = ModuleInfo(Head(toAdd))
  OBVIOUS
<1>4. n.executing = FALSE
  BY <1>3 DEF ModuleInfo
<1>5. /\ moduleInfos' \subseteq moduleInfos \cup {n}
      /\ \A k, m \in moduleInfos' : k.loadAddress = m.loadAddress => k = m
  <2>1. moduleInfos' = {} \/ moduleInfos' = Emplace(n)
    BY <1>3 DEF AddImage
  <2>2. \A k, m \in moduleInfos : k.loadAddress = m.loadAddress => k = m
    BY DEF ExecInv, ExecOK
  <2> QED
    BY <2>1, <2>2 DEF Emplace
<1>6. \A m \in moduleInfos' : m.executing = FALSE
  BY <1>2, <1>4, <1>5
<1>7. ExecOK'
  BY <1>1, <1>2, <1>5, <1>6 DEF ExecOK
<1>8. ASSUME NEW m \in moduleInfos' PROVE ExecutingOK(m)'
  BY <1>1, <1>2, <1>6 DEF ExecutingOK
<1> QED
  BY <1>7, <1>8 DEF ExecInv

\* An address on a call stack marks the module whose code it is in, and no other
\* one except for the address behind its code.
LEMMA ExecAddCode ==
  ASSUME ExecInv, ListInv', NEW ip \in CallStackAddresses, AddCode(ip)
  PROVE  ExecInv'
<1> DEFINE found == ModuleForAddress(ip)
           Mark(m) == [m EXCEPT !.executing = TRUE]
<1>1. /\ moduleInfos' = (moduleInfos \ found) \cup {Mark(m) : m \in found}
      /\ marked' = marked \cup {ip} /\ reading = "done" /\ reading' = reading
  BY DEF AddCode, MarkAsExecuting
<1>2. \A m \in moduleInfos : IsModule(m)
  BY DEF ExecInv, ListInv, ListOK
<1>3. ip \in Nat /\ \A a \in marked : a \in Nat
  <2>1. CallStackAddresses \subseteq 0 .. AddrLimit - SurroundingsRange - 2
    BY ImageAssumption
  <2>2. AddrLimit \in Nat /\ SurroundingsRange \in Nat
    BY ImageAssumption, MemoryAssumption
  <2>3. \A a \in CallStackAddresses : a \in Nat
    BY <2>1, <2>2
  <2> QED
    BY <2>3 DEF ExecInv, ExecOK
<1>4. ASSUME NEW m \in found
      PROVE  /\ m \in moduleInfos /\ Mark(m).image = m.image /\ Mark(m).executing = TRUE
             /\ Mark(m).loadAddress = m.loadAddress
             /\ LoadAddress[m.image] <= ip /\ ip <= LoadAddress[m.image] + TextOf(m.image).size
  <2>1. m \in moduleInfos /\ IsCodeInModule(ip, m)
    BY DEF ModuleForAddress
  <2>2. IsModule(m)
    BY <1>2, <2>1
  <2>3. Mark(m) = [image |-> m.image, loadAddress |-> LoadAddress[m.image],
                   pathLength |-> m.pathLength, segments |-> SegmentsOf(m.image), executing |-> TRUE]
    BY <2>2, MarkRecord DEF IsModule
  <2>4. m.loadAddress = LoadAddress[m.image]
    BY <2>2 DEF IsModule
  <2>5. LoadAddress[m.image] <= ip /\ ip <= LoadAddress[m.image] + TextOf(m.image).size
    BY <1>3, <2>1, <2>2, CodeInModule
  <2> HIDE DEF Mark, found
  <2> QED
    BY <2>1, <2>3, <2>4, <2>5
<1> HIDE DEF found, Mark
<1>5. ASSUME NEW m \in moduleInfos'
      PROVE  \/ m \in moduleInfos \ found
             \/ \E n \in found : m = Mark(n)
  BY <1>1
<1>6. ASSUME NEW m \in moduleInfos
      PROVE  /\ m.image \in AllImages /\ LoadAddress[m.image] \in Nat /\ TextOf(m.image).size \in Nat
             /\ ExecutingOK(m) /\ m.executing \in BOOLEAN
             /\ LoadAddress[m.image] <= ip /\ ip < LoadAddress[m.image] + TextOf(m.image).size => m \in found
  <2>1. m.image \in AllImages
    BY <1>2 DEF IsModule
  <2>2. LoadAddress[m.image] \in Nat /\ TextOf(m.image).size \in Nat
    BY <2>1, TextFits
  <2>3. ExecutingOK(m) /\ m.executing \in BOOLEAN
    BY DEF ExecInv, ExecOK
  <2>4. LoadAddress[m.image] <= ip /\ ip < LoadAddress[m.image] + TextOf(m.image).size => m \in found
    BY <1>2, <1>3, CodeIsAttributed DEF found
  <2> QED
    BY <2>1, <2>2, <2>3, <2>4
<1>7. ExecOK'
  <2>1. Constructed'
    BY <1>1 DEF Constructed
  <2>2. \A m \in moduleInfos' : m.executing \in BOOLEAN
    <3> SUFFICES ASSUME NEW m \in moduleInfos' PROVE m.executing \in BOOLEAN
      OBVIOUS
    <3>1. CASE m \in moduleInfos \ found
      BY <1>6, <3>1, Zenon
    <3>2. CASE \E n \in found : m = Mark(n)
      BY <1>4, <3>2, Zenon
    <3> QED
      BY <1>5, <3>1, <3>2
  <2>3. \A m, n \in moduleInfos : m.loadAddress = n.loadAddress => m = n
    BY DEF ExecInv, ExecOK
  <2>4. ASSUME NEW m \in moduleInfos', NEW n \in moduleInfos', m.loadAddress = n.loadAddress
        PROVE  m = n
    <3>1. CASE m \in moduleInfos \ found /\ n \in moduleInfos \ found
      BY <2>3, <2>4, <3>1
    <3>2. CASE m \in moduleInfos \ found /\ \E k \in found : n = Mark(k)
      <4>1. PICK k \in found : n = Mark(k)
        BY <3>2
      <4>2. k \in moduleInfos /\ m.loadAddress = k.loadAddress
        BY <1>4, <2>4, <4>1, Zenon
      <4> QED
        BY <2>3, <3>2, <4>2
    <3>3. CASE n \in moduleInfos \ found /\ \E k \in found : m = Mark(k)
      <4>1. PICK k \in found : m = Mark(k)
        BY <3>3
      <4>2. k \in moduleInfos /\ n.loadAddress = k.loadAddress
        BY <1>4, <2>4, <4>1, Zenon
      <4> QED
        BY <2>3, <3>3, <4>2
    <3>4. CASE (\E k \in found : m = Mark(k)) /\ (\E k \in found : n = Mark(k))
      <4>1. PICK j \in found, k \in found : m = Mark(j) /\ n = Mark(k)
        BY <3>4
      <4>2. j \in moduleInfos /\ k \in moduleInfos /\ j.loadAddress = k.loadAddress
        BY <1>4, <2>4, <4>1, Zenon
      <4> QED
        BY <2>3, <4>1, <4>2
    <3> QED
      BY <1>5, <3>1, <3>2, <3>3, <3>4
  <2>5. marked' \subseteq CallStackAddresses
    BY <1>1 DEF ExecInv, ExecOK
  <2> QED
    BY <2>1, <2>2, <2>4, <2>5 DEF ExecOK
<1>8. ASSUME NEW m \in moduleInfos' PROVE ExecutingOK(m)'
  <2>1. CASE m \in moduleInfos \ found
    <3>1. ~(LoadAddress[m.image] <= ip /\ ip < LoadAddress[m.image] + TextOf(m.image).size)
      BY <1>6, <2>1
    <3>2. ExecutingOK(m)
      BY <1>6, <2>1
    <3> QED
      BY <1>1, <3>1, <3>2 DEF ExecutingOK, TextOf
  <2>2. CASE \E n \in found : m = Mark(n)
    <3>1. PICK n \in found : m = Mark(n)
      BY <2>2
    <3>2. m.executing = TRUE /\ m.image = n.image
      BY <1>4, <3>1
    <3>3. LoadAddress[m.image] <= ip /\ ip <= LoadAddress[m.image] + TextOf(m.image).size
      BY <1>4, <3>2
    <3> QED
      BY <1>1, <3>2, <3>3 DEF ExecutingOK, TextOf
  <2> QED
    BY <1>5, <2>1, <2>2
<1> QED
  BY <1>7, <1>8 DEF ExecInv

\* Every step keeps the marks right.
LEMMA ExecNext == ExecInv /\ [Next]_vars => ExecInv'
<1> SUFFICES ASSUME ExecInv, [Next]_vars PROVE ExecInv'
  OBVIOUS
<1>0. ListInv'
  BY ListNext DEF ExecInv
<1>1. CASE BeginUpdate \/ (\E i \in Images : Load(i) \/ Unload(i))
  <2>1. moduleInfos' = moduleInfos /\ marked' = marked /\ reading' = reading
    BY <1>1 DEF BeginUpdate, Load, Unload, listVars
  <2> QED
    BY <1>0, <2>1, ExecQuiet DEF Constructed
<1>2. CASE ReadImageInfos \/ ReadInfoArray \/ EndConstructor
  <2>1. moduleInfos' = moduleInfos /\ marked' = marked
    BY <1>2 DEF ReadImageInfos, ReadInfoArray, EndConstructor
  <2>2. reading \in {"infos", "array", "images"}
    BY <1>2 DEF ReadImageInfos, ReadInfoArray, EndConstructor
  <2> QED
    BY <1>0, <2>1, <2>2, ExecQuiet DEF Constructed
<1>3. CASE AddImage
  BY <1>0, <1>3, ExecAddImage
<1>4. ASSUME NEW ip \in CallStackAddresses, AddCode(ip) PROVE ExecInv'
  BY <1>0, <1>4, ExecAddCode
<1>5. CASE RegionStep \/ (\E sp \in StackPointers : AddStack(sp)) \/ UNCHANGED vars
  <2>1. moduleInfos' = moduleInfos /\ marked' = marked /\ reading' = reading
    BY <1>5 DEF RegionStep, AddStack, vars, moduleVars, listVars
  <2> QED
    BY <1>0, <2>1, ExecQuiet DEF Constructed
<1>6. CASE AddSegments \/ CreatePayload
  <2>1. moduleInfos' = moduleInfos /\ marked' = marked /\ reading' \in {"collected", "written"}
    BY <1>6 DEF AddSegments, CreatePayload
  <2> QED
    BY <1>0, <2>1, ExecQuiet DEF Constructed
<1> QED
  BY <1>1, <1>2, <1>3, <1>4, <1>5, <1>6 DEF Next, DyldNext, LibraryNext, Finished

\* What the marks mean, in the terms of the list.
LEMMA ExecInvGivesExact == ExecInv => ExecutingExact
<1> SUFFICES ASSUME ExecInv, NEW m \in moduleInfos
             PROVE  /\ marked \cap TextBytes(m) # {} => m.executing
                    /\ m.executing => marked \cap (m.loadAddress .. Max(TextBytes(m)) + 1) # {}
  BY DEF ExecutingExact
<1>1. m.image \in AllImages /\ m.loadAddress = LoadAddress[m.image]
  BY DEF ExecInv, ListInv, ListOK, IsModule
<1>2. PICK l, z : l = LoadAddress[m.image] /\ z = TextOf(m.image).size
  OBVIOUS
<1>3. l \in Nat /\ z \in Nat /\ z >= 1
  BY <1>1, <1>2, TextFits
<1>4. TextBytes(m) = l .. l + z - 1
  BY <1>1, <1>2 DEF TextBytes
<1>5. Max(l .. l + z - 1) = l + z - 1
  <2>1. l + z - 1 \in l .. l + z - 1 /\ \A y \in l .. l + z - 1 : l + z - 1 >= y
    BY <1>3
  <2>2. \A x \in l .. l + z - 1 : (\A y \in l .. l + z - 1 : x >= y) => x = l + z - 1
    BY <1>3, <2>1
  <2> QED
    BY <2>1, <2>2 DEF Max
<1>6. /\ \A a \in marked : l <= a /\ a < l + z => m.executing
      /\ m.executing => \E a \in marked : l <= a /\ a <= l + z
  BY <1>2 DEF ExecInv, ExecutingOK
<1>7. \A a \in marked : a \in Nat
  <2>1. CallStackAddresses \subseteq 0 .. AddrLimit - SurroundingsRange - 2
    BY ImageAssumption
  <2>2. AddrLimit \in Nat /\ SurroundingsRange \in Nat
    BY ImageAssumption, MemoryAssumption
  <2>3. \A a \in CallStackAddresses : a \in Nat
    BY <2>1, <2>2
  <2> QED
    BY <2>3 DEF ExecInv, ExecOK
<1>8. ASSUME marked \cap TextBytes(m) # {} PROVE m.executing
  <2>1. PICK a \in marked : a \in l .. l + z - 1
    BY <1>4, <1>8
  <2>2. l <= a /\ a < l + z
    BY <1>3, <1>7, <2>1
  <2> QED
    BY <1>6, <2>2
<1>9. ASSUME m.executing PROVE marked \cap (m.loadAddress .. Max(TextBytes(m)) + 1) # {}
  <2>1. PICK a \in marked : l <= a /\ a <= l + z
    BY <1>6, <1>9
  <2>2. Max(TextBytes(m)) + 1 = l + z
    BY <1>3, <1>4, <1>5
  <2>3. a \in l .. l + z
    BY <1>3, <1>7, <2>1
  <2> QED
    BY <1>1, <1>2, <2>2, <2>3
<1> QED
  BY <1>8, <1>9

\* A module counts as executing if an address of its code is on a call stack, and
\* only if one of its code or the one right behind it is.
THEOREM MarksAreExact == Spec => []ExecutingExact
<1>1. Spec => []ExecInv
  BY ExecInit, ExecNext, PTL DEF Spec
<1> QED
  BY <1>1, ExecInvGivesExact, PTL
-----------------------------------------------------------------------------
(* The memory that is recorded. *)

\* Every address that was collected is in one maximal range.
LEMMA MaximalRange ==
  ASSUME NEW N \in Nat, NEW M \in SUBSET (0 .. N), NEW a \in M
  PROVE  \E s, e \in M : s <= a /\ a <= e /\ s .. e \subseteq M /\ s - 1 \notin M /\ e + 1 \notin M
<1> DEFINE S == {x \in 0 .. a : x .. a \subseteq M}
           T == {y \in a .. N : a .. y \subseteq M}
<1>1. a \in Nat /\ a <= N
  OBVIOUS
<1>2. a .. a \subseteq M
  BY <1>1
<1>3. a \in S /\ a \in T
  BY <1>1, <1>2
<1>4. S \in SUBSET (0 .. N) /\ T \in SUBSET (0 .. N)
  BY <1>1
<1>5. PICK s \in S : \A x \in S : s <= x
  <2> HIDE DEF S
  <2> QED
    BY <1>3, <1>4, MinMax
<1>6. PICK e \in T : \A y \in T : y <= e
  <2> HIDE DEF T
  <2> QED
    BY <1>3, <1>4, MinMax
<1>7. s \in Nat /\ s <= a /\ s .. a \subseteq M /\ e \in Nat /\ a <= e /\ a .. e \subseteq M
  BY <1>1, <1>5, <1>6
<1>8. s - 1 \notin M
  <2> SUFFICES ASSUME s - 1 \in M PROVE FALSE
    OBVIOUS
  <2>1. s - 1 \in 0 .. a
    BY <1>1, <1>7
  <2>2. \A x \in s - 1 .. a : x = s - 1 \/ x \in s .. a
    BY <1>1, <1>7
  <2>3. s - 1 \in S
    BY <1>7, <2>1, <2>2
  <2>4. s <= s - 1
    BY <1>5, <2>3
  <2> QED
    BY <1>7, <2>4
<1>9. e + 1 \notin M
  <2> SUFFICES ASSUME e + 1 \in M PROVE FALSE
    OBVIOUS
  <2>1. e + 1 \in a .. N
    BY <1>1, <1>7
  <2>2. \A x \in a .. e + 1 : x = e + 1 \/ x \in a .. e
    BY <1>1, <1>7
  <2>3. e + 1 \in T
    BY <1>7, <2>1, <2>2
  <2>4. e + 1 <= e
    BY <1>6, <2>3
  <2> QED
    BY <1>7, <2>4
<1>10. s .. e \subseteq M
  <2>1. \A x \in s .. e : x \in s .. a \/ x \in a .. e
    BY <1>1, <1>7
  <2> QED
    BY <1>7, <2>1
<1>11. s \in M /\ e \in M
  BY <1>7, <1>10
<1> QED
  BY <1>7, <1>8, <1>9, <1>10, <1>11

\* Two maximal ranges with a common address are the same.
LEMMA MaximalRangeUnique ==
  ASSUME NEW M \in SUBSET Nat, NEW a \in M, NEW s \in M, NEW e \in M, NEW t \in M, NEW f \in M,
         s <= a, a <= e, s .. e \subseteq M, s - 1 \notin M, e + 1 \notin M,
         t <= a, a <= f, t .. f \subseteq M, t - 1 \notin M, f + 1 \notin M
  PROVE  s = t /\ e = f
<1>1. a \in Nat /\ s \in Nat /\ e \in Nat /\ t \in Nat /\ f \in Nat
  OBVIOUS
<1>2. ~(s < t)
  <2> SUFFICES ASSUME s < t PROVE FALSE
    OBVIOUS
  <2>1. t - 1 \in s .. e
    BY <1>1
  <2> QED
    BY <2>1
<1>3. ~(t < s)
  <2> SUFFICES ASSUME t < s PROVE FALSE
    OBVIOUS
  <2>1. s - 1 \in t .. f
    BY <1>1
  <2> QED
    BY <2>1
<1>4. ~(e < f)
  <2> SUFFICES ASSUME e < f PROVE FALSE
    OBVIOUS
  <2>1. e + 1 \in t .. f
    BY <1>1
  <2> QED
    BY <2>1
<1>5. ~(f < e)
  <2> SUFFICES ASSUME f < e PROVE FALSE
    OBVIOUS
  <2>1. f + 1 \in s .. e
    BY <1>1
  <2> QED
    BY <2>1
<1> QED
  BY <1>1, <1>2, <1>3, <1>4, <1>5

\* The segment commands that AddSegments makes of what has been collected.
SegmentsOfRanges ==
  {[vmaddr |-> r[1], last |-> r[2], prot |-> MemoryProtection(r[1])]
     : r \in {q \in MergedRanges : HasProtection(q[1])}}

\* What has been asked for has been collected.
CodeCollected ==
  \A ip \in marked : InRange(ip) => ip - SurroundingsRange .. ip + SurroundingsRange \subseteq memoryRangesToAdd

StackCollected ==
  \A r \in stable : stackPointer \in Bytes(r) =>
    \A b \in Bytes(r) : b >= stackPointer => b \in memoryRangesToAdd

NeedInv ==
  /\ RegionInv
  /\ reading \in {"infos", "array", "images", "done", "collected", "written"}
  /\ marked \subseteq CallStackAddresses
  /\ stackPointer \in StackPointers \cup {NoPointer}
  /\ \E N \in Nat : memoryRangesToAdd \subseteq 0 .. N
  /\ CodeCollected
  /\ stackPointer # NoPointer => walking = "after" /\ Constructed /\ StackCollected
  /\ reading \in {"collected", "written"} => stackPointer # NoPointer
  /\ reading = "collected" => segments = SegmentsOfRanges

\* Nothing has been collected.
LEMMA NeedInit == Init => NeedInv
<1> SUFFICES ASSUME Init PROVE NeedInv
  OBVIOUS
<1>1. RegionInv
  BY RegionInit
<1>2. memoryRangesToAdd \subseteq 0 .. 0
  BY DEF Init
<1> QED
  BY <1>1, <1>2 DEF Init, NeedInv, CodeCollected

\* The kernel says the same about the same memory.
LEMMA ProtectionStays ==
  ASSUME memory' = memory, memoryRangesToAdd' = memoryRangesToAdd
  PROVE  SegmentsOfRanges' = SegmentsOfRanges
<1>1. \A a : RegionsFrom(a)' = RegionsFrom(a)
  BY DEF RegionsFrom
<1>2. \A a : MemoryProtection(a)' = MemoryProtection(a)
  BY <1>1 DEF vm_region_recurse_64, MemoryProtection
<1>3. \A a : HasProtection(a)' = HasProtection(a)
  BY <1>1 DEF HasProtection
<1>4. MergedRanges' = MergedRanges
  BY DEF MergedRanges
<1> QED
  BY <1>2, <1>3, <1>4 DEF SegmentsOfRanges

\* Steps that collect nothing, before the segments are made.
LEMMA NeedQuiet ==
  ASSUME NeedInv, RegionInv', UNCHANGED <<marked, stackPointer, memoryRangesToAdd, segments>>,
         stackPointer # NoPointer => UNCHANGED <<memory, walking, stable>>,
         reading' = reading \/ (~Constructed /\ reading' \in {"array", "images", "done"})
  PROVE  NeedInv'
<1>1. CodeCollected'
  BY DEF NeedInv, CodeCollected, InRange
<1>2. reading' \in {"infos", "array", "images", "done", "collected", "written"}
  BY DEF NeedInv
<1>3. stackPointer' # NoPointer => walking' = "after" /\ Constructed' /\ StackCollected'
  BY DEF NeedInv, StackCollected, Constructed
<1>4. reading' \in {"collected", "written"} => reading' = reading /\ stackPointer # NoPointer
  BY DEF NeedInv, Constructed
<1>5. reading' = "collected" => segments' = SegmentsOfRanges'
  <2> SUFFICES ASSUME reading' = "collected" PROVE segments' = SegmentsOfRanges'
    OBVIOUS
  <2>1. segments = SegmentsOfRanges /\ memory' = memory
    BY <1>4 DEF NeedInv
  <2> QED
    BY <2>1, ProtectionStays
<1> QED
  BY <1>1, <1>2, <1>3, <1>4, <1>5 DEF NeedInv

\* The surroundings of an address are collected.
LEMMA NeedAddCode ==
  ASSUME NeedInv, RegionInv', NEW ip \in CallStackAddresses, AddCode(ip)
  PROVE  NeedInv'
<1>1. /\ reading = "done" /\ reading' = reading /\ stackPointer = NoPointer
      /\ stackPointer' = stackPointer /\ marked' = marked \cup {ip}
  BY DEF AddCode
<1>2. PICK S : S = SurroundingsRange
  OBVIOUS
<1>3. S \in Nat /\ AddrLimit \in Nat /\ ip \in Nat
  <2>1. CallStackAddresses \subseteq 0 .. AddrLimit - SurroundingsRange - 2
    BY ImageAssumption
  <2>2. AddrLimit \in Nat /\ SurroundingsRange \in Nat
    BY ImageAssumption, MemoryAssumption
  <2> QED
    BY <1>2, <2>1, <2>2
<1>4. /\ InRange(ip) => memoryRangesToAdd' = memoryRangesToAdd \cup (ip - S) .. (ip + S)
      /\ ~InRange(ip) => memoryRangesToAdd' = memoryRangesToAdd
  <2>1. CASE InRange(ip)
    <3>1. memoryRangesToAdd' = memoryRangesToAdd \cup (ip - S) .. (ip - S + (2 * S + 1) - 1)
      BY <1>2, <2>1 DEF AddCode, Ranges!Add
    <3>2. ip - S + (2 * S + 1) - 1 = ip + S
      BY <1>3
    <3> QED
      BY <2>1, <3>1, <3>2
  <2>2. CASE ~InRange(ip)
    BY <2>2 DEF AddCode
  <2> QED
    BY <2>1, <2>2
<1>5. InRange(ip) => (ip - S) .. (ip + S) \subseteq 0 .. ip + S
  BY <1>2, <1>3 DEF InRange
<1>6. \E N \in Nat : memoryRangesToAdd' \subseteq 0 .. N
  <2>1. PICK N \in Nat : memoryRangesToAdd \subseteq 0 .. N
    BY DEF NeedInv
  <2>2. 0 .. N \subseteq 0 .. N + (ip + S) /\ 0 .. ip + S \subseteq 0 .. N + (ip + S) /\ N + (ip + S) \in Nat
    BY <1>3
  <2>3. memoryRangesToAdd' \subseteq 0 .. N + (ip + S)
    BY <1>4, <1>5, <2>1, <2>2
  <2> QED
    BY <2>2, <2>3
<1>7. memoryRangesToAdd \subseteq memoryRangesToAdd'
  BY <1>4
<1>8. CodeCollected'
  <2> SUFFICES ASSUME NEW a \in marked', InRange(a)
               PROVE  a - S .. a + S \subseteq memoryRangesToAdd'
    BY <1>2 DEF CodeCollected, InRange
  <2>1. CASE a \in marked
    BY <1>2, <1>7, <2>1 DEF NeedInv, CodeCollected
  <2>2. CASE a = ip
    BY <1>4, <2>2
  <2> QED
    BY <1>1, <2>1, <2>2
<1>9. marked' \subseteq CallStackAddresses
  BY <1>1 DEF NeedInv
<1> QED
  BY <1>1, <1>6, <1>8, <1>9 DEF NeedInv

\* The size of the stack is subtracted from its end to get its start.
LEMMA Backwards ==
  ASSUME NEW v \in Nat, NEW z \in Nat, NEW s \in Nat
  PROVE  (v + z - (v + z - s)) .. (v + z - (v + z - s) + (v + z - s) - 1) = s .. (v + z - 1)
<1>1. v + z - (v + z - s) = s /\ v + z - (v + z - s) + (v + z - s) - 1 = v + z - 1
  OBVIOUS
<1> QED
  BY <1>1

\* The stack is collected to the end of the region that the list has for it.
LEMMA NeedAddStack ==
  ASSUME NeedInv, RegionInv', NEW sp \in StackPointers, AddStack(sp)
  PROVE  NeedInv'
<1>1. /\ reading = "done" /\ reading' = reading /\ walking = "after" /\ stackPointer' = sp
      /\ marked' = marked
      /\ memory' = memory /\ walking' = walking /\ stable' = stable
  BY DEF AddStack, memoryVars, listVars
<1>2. sp \in Nat
  BY ImageAssumption, MemoryAssumption DEF Addresses
<1>3. RegionInv
  BY DEF NeedInv
<1>4. ASSUME NEW i \in RegionInfoForAddress(sp)
      PROVE  i.vmaddr \in Nat /\ i.vmsize \in Nat /\ RegionInfoForAddress(sp) = {i} /\ i \in regionInfos
  <2>1. regionInfos # {} /\ RegionInfoForAddress(sp) = {i} /\ i = Candidate(sp)
    BY DEF RegionInfoForAddress
  <2>2. LookupKey(RegionKeys, sp) \in RegionKeys
    <3>1. AddrLimit \in Nat /\ RegionKeys \in SUBSET (0 .. AddrLimit) /\ RegionKeys # {}
      BY <1>3, <2>1, RegionKeysOK
    <3> QED
      BY <1>2, <3>1, LookupKeyIsLast
  <2>3. i \in regionInfos
    <3>1. \E j \in regionInfos : j.vmaddr = LookupKey(RegionKeys, sp)
      BY <2>2 DEF RegionKeys
    <3> QED
      BY <2>1, <3>1 DEF Candidate
  <2>4. Recorded(i) \/ LeftOver(i)
    BY <1>3, <2>3 DEF RegionInv, WalkOK
  <2>5. address \in Nat
    BY <1>3 DEF RegionInv, WalkOK
  <2> QED
    BY <2>1, <2>3, <2>4, <2>5 DEF Recorded, LeftOver
<1>5. \/ RegionInfoForAddress(sp) = {} /\ memoryRangesToAdd' = memoryRangesToAdd
      \/ \E i \in RegionInfoForAddress(sp) :
           memoryRangesToAdd' = memoryRangesToAdd \cup sp .. (i.vmaddr + i.vmsize - 1)
  <2>1. CASE RegionInfoForAddress(sp) = {} /\ UNCHANGED memoryRangesToAdd
    BY <2>1
  <2>2. ASSUME NEW i \in RegionInfoForAddress(sp),
               Ranges!Add(i.vmaddr + i.vmsize - (i.vmaddr + i.vmsize - sp), i.vmaddr + i.vmsize - sp)
        PROVE  memoryRangesToAdd' = memoryRangesToAdd \cup sp .. (i.vmaddr + i.vmsize - 1)
    <3>1. memoryRangesToAdd' = memoryRangesToAdd \cup (i.vmaddr + i.vmsize - (i.vmaddr + i.vmsize - sp))
              .. (i.vmaddr + i.vmsize - (i.vmaddr + i.vmsize - sp) + (i.vmaddr + i.vmsize - sp) - 1)
      BY <2>2, Zenon DEF Ranges!Add
    <3>2. i.vmaddr \in Nat /\ i.vmsize \in Nat
      BY <1>4
    <3>3. (i.vmaddr + i.vmsize - (i.vmaddr + i.vmsize - sp))
              .. (i.vmaddr + i.vmsize - (i.vmaddr + i.vmsize - sp) + (i.vmaddr + i.vmsize - sp) - 1)
            = sp .. (i.vmaddr + i.vmsize - 1)
      BY <1>2, <3>2, Backwards, Zenon
    <3> QED
      BY <3>1, <3>3, Zenon
  <2> QED
    BY <2>1, <2>2 DEF AddStack
<1>6. memoryRangesToAdd \subseteq memoryRangesToAdd'
  BY <1>5
<1>7. \E N \in Nat : memoryRangesToAdd' \subseteq 0 .. N
  <2>1. PICK N \in Nat : memoryRangesToAdd \subseteq 0 .. N
    BY DEF NeedInv
  <2>2. CASE memoryRangesToAdd' = memoryRangesToAdd
    BY <2>1, <2>2
  <2>3. ASSUME NEW i \in RegionInfoForAddress(sp),
               memoryRangesToAdd' = memoryRangesToAdd \cup sp .. (i.vmaddr + i.vmsize - 1)
        PROVE  \E K \in Nat : memoryRangesToAdd' \subseteq 0 .. K
    <3>1. PICK e \in Nat : e = i.vmaddr + i.vmsize
      BY <1>4
    <3>2. 0 .. N \subseteq 0 .. N + e /\ sp .. e - 1 \subseteq 0 .. N + e /\ N + e \in Nat
      BY <1>2
    <3>3. memoryRangesToAdd' = memoryRangesToAdd \cup sp .. (e - 1)
      BY <1>4, <2>3, <3>1
    <3>4. memoryRangesToAdd' \subseteq 0 .. N + e
      BY <2>1, <3>2, <3>3
    <3> QED
      BY <3>2, <3>4
  <2> QED
    BY <1>5, <2>2, <2>3
<1>8. CodeCollected'
  BY <1>1, <1>6 DEF NeedInv, CodeCollected, InRange
<1>9. StackCollected'
  <2> SUFFICES ASSUME NEW r \in stable, sp \in Bytes(r), NEW b \in Bytes(r), b >= sp
               PROVE  b \in memoryRangesToAdd'
    BY <1>1 DEF StackCollected
  <2>1. PICK i \in RegionInfoForAddress(sp) : i.vmaddr = r.base /\ r.size <= i.vmsize
    BY <1>1, <1>3, StableRegionIsFound
  <2>2. RegionOK(r)
    BY <1>3 DEF RegionInv, WalkOK, StableOK
  <2>3. r.base \in Nat /\ r.size \in Nat /\ b \in Int /\ b < r.base + r.size
    BY <2>2, RegionBounds
  <2>4. i.vmaddr \in Nat /\ i.vmsize \in Nat /\ RegionInfoForAddress(sp) = {i}
    BY <1>4, <2>1
  <2>5. memoryRangesToAdd' = memoryRangesToAdd \cup sp .. (i.vmaddr + i.vmsize - 1)
    BY <1>5, <2>4
  <2>6. b \in sp .. (i.vmaddr + i.vmsize - 1)
    BY <1>2, <2>1, <2>3, <2>4
  <2> QED
    BY <2>5, <2>6
<1>10. Constructed'
  BY <1>1 DEF Constructed
<1> QED
  BY <1>1, <1>7, <1>8, <1>9, <1>10 DEF NeedInv

\* The later parts of the dump.
LEMMA NeedSegments ==
  ASSUME NeedInv, RegionInv', AddSegments \/ CreatePayload
  PROVE  NeedInv'
<1>1. UNCHANGED <<marked, stackPointer, memoryRangesToAdd>> /\ UNCHANGED memoryVars
  BY DEF AddSegments, CreatePayload, rangeVars
<1>2. stackPointer # NoPointer /\ reading' \in {"collected", "written"}
  BY DEF AddSegments, CreatePayload, NeedInv
<1>3. memory' = memory /\ walking' = walking /\ stable' = stable
  BY <1>1 DEF memoryVars
<1>4. CodeCollected' /\ StackCollected'
  BY <1>1, <1>2, <1>3 DEF NeedInv, CodeCollected, StackCollected, InRange
<1>5. reading' = "collected" => segments' = SegmentsOfRanges'
  <2>1. CASE AddSegments
    <3>1. segments' = SegmentsOfRanges
      BY <2>1 DEF AddSegments, SegmentsOfRanges
    <3> QED
      BY <1>1, <1>3, <3>1, ProtectionStays
  <2>2. CASE CreatePayload
    BY <2>2 DEF CreatePayload
  <2> QED
    BY <2>1, <2>2
<1>6. Constructed'
  BY <1>2 DEF Constructed
<1> QED
  BY <1>1, <1>2, <1>3, <1>4, <1>5, <1>6 DEF NeedInv

\* Every step keeps what has been collected.
LEMMA NeedNext == NeedInv /\ [Next]_vars => NeedInv'
<1> SUFFICES ASSUME NeedInv, [Next]_vars PROVE NeedInv'
  OBVIOUS
<1>0. RegionInv'
  BY RegionNext DEF NeedInv
<1>1. CASE BeginUpdate \/ \E i \in Images : Load(i) \/ Unload(i)
  <2>1. UNCHANGED <<marked, stackPointer, memoryRangesToAdd, segments, reading>> /\ ~Constructed
    BY <1>1 DEF BeginUpdate, Load, Unload, EndUpdate, listVars, rangeVars
  <2>2. stackPointer = NoPointer
    BY <2>1 DEF NeedInv
  <2> QED
    BY <1>0, <2>1, <2>2, NeedQuiet
<1>2. CASE ReadImageInfos \/ ReadInfoArray \/ AddImage \/ EndConstructor
  <2>1. UNCHANGED <<marked, stackPointer, memoryRangesToAdd, segments>> /\ UNCHANGED memoryVars
    BY <1>2 DEF ReadImageInfos, ReadInfoArray, AddImage, EndConstructor, rangeVars
  <2>2. reading \in {"infos", "array", "images"} /\ reading' \in {"array", "images", "done"}
    BY <1>2 DEF ReadImageInfos, ReadInfoArray, AddImage, EndConstructor
  <2>3. memory' = memory /\ walking' = walking /\ stable' = stable
    BY <2>1 DEF memoryVars
  <2> QED
    BY <1>0, <2>1, <2>2, <2>3, NeedQuiet DEF Constructed
<1>3. CASE RegionStep
  <2>1. UNCHANGED <<marked, stackPointer, memoryRangesToAdd, segments, reading>>
    BY <1>3 DEF RegionStep, moduleVars, listVars, rangeVars
  <2>2. walking # "after"
    BY <1>3 DEF RegionStep, BeginWalk, AddRegion, AddLastRegion, ZoneGrows
  <2>3. stackPointer = NoPointer
    BY <2>2 DEF NeedInv
  <2> QED
    BY <1>0, <2>1, <2>3, NeedQuiet
<1>4. ASSUME NEW ip \in CallStackAddresses, AddCode(ip) PROVE NeedInv'
  BY <1>0, <1>4, NeedAddCode
<1>5. ASSUME NEW sp \in StackPointers, AddStack(sp) PROVE NeedInv'
  BY <1>0, <1>5, NeedAddStack
<1>6. CASE AddSegments \/ CreatePayload
  BY <1>0, <1>6, NeedSegments
<1>7. CASE UNCHANGED vars
  <2>1. UNCHANGED <<marked, stackPointer, memoryRangesToAdd, segments, reading>>
    BY <1>7 DEF vars, moduleVars, listVars, rangeVars
  <2>2. memory' = memory /\ walking' = walking /\ stable' = stable
    BY <1>7 DEF vars, memoryVars
  <2> QED
    BY <1>0, <2>1, <2>2, NeedQuiet
<1> QED
  BY <1>1, <1>2, <1>3, <1>4, <1>5, <1>6, <1>7 DEF Next, DyldNext, LibraryNext, Finished

\* The segments cover what has been collected and is mapped, each byte once.
LEMMA CollectedIsRecorded ==
  ASSUME NeedInv, reading = "collected", NEW a \in memoryRangesToAdd, NEW r \in memory, a \in Bytes(r)
  PROVE  \E g \in segments :
           /\ {h \in segments : h.vmaddr <= a /\ a <= h.last} = {g}
           /\ "exec" \in r.prot =>
                "exec" \in g.prot \/ \E q \in memory \ {r} : g.vmaddr < End(q) /\ q.base < a
<1> DEFINE M == memoryRangesToAdd
<1>1. MemoryOK /\ segments = SegmentsOfRanges
  BY DEF NeedInv, RegionInv
<1>2. PICK N \in Nat : M \subseteq 0 .. N
  BY DEF NeedInv
<1>3. M \in SUBSET Nat /\ M \in SUBSET (0 .. N)
  BY <1>2
<1>4. PICK s \in M, e \in M :
        s <= a /\ a <= e /\ s .. e \subseteq M /\ s - 1 \notin M /\ e + 1 \notin M
  BY <1>2, <1>3, MaximalRange
<1>5. s \in Nat /\ e \in Nat /\ a \in Nat /\ s <= e
  BY <1>3, <1>4
<1>6. <<s, e>> \in MergedRanges
  BY <1>4, <1>5 DEF MergedRanges
<1>7. r.base \in Nat /\ End(r) \in Nat /\ r.base <= a /\ a < End(r)
  BY <1>1, RegionBounds DEF MemoryOK
<1>8. s < End(r) /\ RegionsFrom(s) # {}
  BY <1>4, <1>5, <1>7 DEF RegionsFrom
<1>9. PICK g : g = [vmaddr |-> s, last |-> e, prot |-> MemoryProtection(s)]
  OBVIOUS
<1>10. g.vmaddr = s /\ g.last = e /\ g.prot = MemoryProtection(s)
  BY <1>9
<1>11. g \in segments
  <2>1. HasProtection(s)
    BY <1>8 DEF HasProtection
  <2>2. PICK p : p = <<s, e>>
    OBVIOUS
  <2>3. p[1] = s /\ p[2] = e /\ p \in MergedRanges
    BY <1>6, <2>2
  <2> QED
    BY <1>1, <1>9, <2>1, <2>3 DEF SegmentsOfRanges
<1>12. ASSUME NEW h \in segments, h.vmaddr <= a, a <= h.last PROVE h = g
  <2>1. PICK p \in MergedRanges : h = [vmaddr |-> p[1], last |-> p[2], prot |-> MemoryProtection(p[1])]
    BY <1>1 DEF SegmentsOfRanges
  <2>2. PICK t, f : t = p[1] /\ f = p[2]
    OBVIOUS
  <2>3. /\ t \in M /\ f \in M /\ t .. f \subseteq M /\ t - 1 \notin M /\ f + 1 \notin M
    BY <2>1, <2>2 DEF MergedRanges
  <2>4. h.vmaddr = t /\ h.last = f /\ h = [vmaddr |-> t, last |-> f, prot |-> MemoryProtection(t)]
    BY <2>1, <2>2
  <2>5. t <= a /\ a <= f
    BY <1>12, <2>4
  <2>6. s = t /\ e = f
    <3> HIDE DEF M
    <3>1. a \in M
      BY DEF M
    <3> QED
      BY <1>3, <1>4, <2>3, <2>5, <3>1, MaximalRangeUnique
  <2> QED
    BY <1>9, <2>4, <2>6
<1>13. {h \in segments : h.vmaddr <= a /\ a <= h.last} = {g}
  BY <1>4, <1>10, <1>11, <1>12
<1>14. ASSUME "exec" \in r.prot
       PROVE  "exec" \in g.prot \/ \E q \in memory \ {r} : g.vmaddr < End(q) /\ q.base < a
  <2>1. PICK q : q = vm_region_recurse_64(s)
    OBVIOUS
  <2>2. q \in memory /\ s < End(q) /\ q.base <= r.base
    BY <1>1, <1>8, <2>1, RegionAt
  <2>3. CASE q = r
    BY <1>10, <1>14, <2>1, <2>3 DEF MemoryProtection
  <2>4. CASE q # r
    <3>1. q.base \in Nat /\ End(q) \in Nat /\ q.base < End(q)
      BY <1>1, <2>2, RegionBounds DEF MemoryOK
    <3>2. Apart(q, r)
      BY <1>1, <2>2, <2>4 DEF MemoryOK
    <3>3. q.base < a
      BY <1>5, <1>7, <2>2, <3>1, <3>2 DEF Apart
    <3> QED
      BY <1>10, <2>2, <2>4, <3>3
  <2> QED
    BY <2>3, <2>4
<1> QED
  BY <1>11, <1>13, <1>14

\* What is needed has been collected.
LEMMA NeededIsCollected ==
  ASSUME NeedInv, reading = "collected"
  PROVE  Needed \subseteq memoryRangesToAdd
<1> DEFINE Code   == {ip - SurroundingsRange .. ip + SurroundingsRange : ip \in {x \in marked : InRange(x)}}
           Stacks == {{b \in Bytes(r) : b >= stackPointer} : r \in {q \in stable : stackPointer \in Bytes(q)}}
<1>1. ASSUME NEW T \in Code PROVE T \subseteq memoryRangesToAdd
  <2>1. PICK ip \in {x \in marked : InRange(x)} : T = ip - SurroundingsRange .. ip + SurroundingsRange
    BY <1>1, Zenon
  <2> QED
    BY <2>1 DEF NeedInv, CodeCollected
<1>2. ASSUME NEW T \in Stacks PROVE T \subseteq memoryRangesToAdd
  <2>1. PICK r \in {q \in stable : stackPointer \in Bytes(q)} : T = {b \in Bytes(r) : b >= stackPointer}
    BY <1>2, Zenon
  <2> QED
    BY <2>1 DEF NeedInv, StackCollected
<1>3. Needed = (UNION Code) \cup (UNION Stacks)
  BY DEF Needed
<1> HIDE DEF Code, Stacks
<1> QED
  BY <1>1, <1>2, <1>3

\* Each mapped byte that a debugger needs is in exactly one segment, and code is
\* recorded as executable unless another region comes first in its segment.
THEOREM NeededIsRecorded == Spec => []NeededMemoryRecorded
<1>1. Spec => []NeedInv
  BY NeedInit, NeedNext, PTL DEF Spec
<1>2. ASSUME NeedInv PROVE NeededMemoryRecorded
  <2> SUFFICES ASSUME reading = "collected", NEW a \in Needed, NEW r \in memory, a \in Bytes(r)
               PROVE  /\ Cardinality({g \in segments : g.vmaddr <= a /\ a <= g.last}) = 1
                      /\ a \in marked /\ "exec" \in r.prot =>
                           \E g \in segments :
                             /\ g.vmaddr <= a /\ a <= g.last
                             /\ \/ "exec" \in g.prot
                                \/ \E q \in memory \ {r} : g.vmaddr < End(q) /\ q.base < a
    BY DEF NeededMemoryRecorded
  <2>1. a \in memoryRangesToAdd
    BY <1>2, NeededIsCollected
  <2>2. PICK g \in segments :
           /\ {h \in segments : h.vmaddr <= a /\ a <= h.last} = {g}
           /\ "exec" \in r.prot =>
                "exec" \in g.prot \/ \E q \in memory \ {r} : g.vmaddr < End(q) /\ q.base < a
    BY <1>2, <2>1, CollectedIsRecorded
  <2>3. Cardinality({h \in segments : h.vmaddr <= a /\ a <= h.last}) = 1
    BY <2>2, FS_Singleton
  <2>4. g.vmaddr <= a /\ a <= g.last
    BY <2>2
  <2> QED
    BY <2>2, <2>3, <2>4
<1> QED
  BY <1>1, <1>2, PTL

-----------------------------------------------------------------------------
(* Where the segments of the modules are. *)

Listed(x) == \E k \in 1 .. count : infoArray[k] = x

\* Every image that the constructor meets is loaded, or was.
Known(x) == x = Dyld \/ x \in unloaded \/ Listed(x)

\* A region is there, as it was or longer.
Kept(r) == \E s \in memory : Extends(s, r)

\* An entry behind the count is one that was unloaded, or has moved up.
AllKnown ==
  /\ \A k \in 1 .. Len(infoArray) : Known(infoArray[k])
  /\ \A k \in DOMAIN toAdd : Known(toAdd[k])
  /\ \A m \in moduleInfos : Known(m.image)

ImagesMapped ==
  \A x \in AllImages : Listed(x) /\ x \notin unloaded => Kept(ImageRegion(x))

\* What is no image's first page stays as it was at the beginning.
Background ==
  \E m \in Maps : \A r \in m : (\E j \in Images : r = ImageRegion(j)) \/ Kept(r)

SegmentInv == ListInv /\ RegionInv /\ AllKnown /\ ImagesMapped /\ Background

\* The regions of two images are apart.
LEMMA ImagesApart ==
  ASSUME NEW i \in AllImages, NEW j \in AllImages, i # j
  PROVE  Apart(ImageRegion(i), ImageRegion(j))
<1>1. Bytes(ImageRegion(i)) \cap Bytes(ImageRegion(j)) = {}
  BY ImageAssumption
<1>2. RegionOK(ImageRegion(i)) /\ RegionOK(ImageRegion(j))
  BY ImageRegionOK
<1> QED
  BY <1>1, <1>2, ApartIsDisjoint

\* The regions of an initial map are what is assumed of them.
LEMMA MapRegionOK ==
  ASSUME NEW m \in Maps, NEW r \in m
  PROVE  RegionOK(r)
<1>1. PageSize \in Nat \ {0} /\ AddrLimit \in Nat
  BY MemoryAssumption
<1>2. r \in Regions /\ End(r) <= AddrLimit /\ r.size % PageSize = 0
  BY MemoryAssumption
<1>3. r.size \in Nat \ {0}
  BY <1>2 DEF Regions
<1> QED
  BY <1>1, <1>2, <1>3, WholePages DEF RegionOK

\* A region of an initial map is that of an image, or apart from it.
LEMMA MapRegions ==
  ASSUME NEW m \in Maps, NEW r \in m, NEW i \in Images
  PROVE  r = ImageRegion(i) \/ Apart(r, ImageRegion(i))
<1>1. i \in AllImages
  BY DEF AllImages
<1>2. r = ImageRegion(i) \/ Bytes(r) \cap Bytes(ImageRegion(i)) = {}
  BY <1>1, ImageAssumption
<1>3. RegionOK(ImageRegion(i)) /\ RegionOK(r)
  BY <1>1, ImageRegionOK, MapRegionOK
<1> QED
  BY <1>2, <1>3, ApartIsDisjoint

\* A region stays when one that is apart from it is unmapped.
LEMMA KeptUnmapped ==
  ASSUME NEW i, RegionOK(ImageRegion(i)), memory' = memory \ {ImageRegion(i)},
         NEW r, RegionOK(r), Apart(r, ImageRegion(i)), Kept(r)
  PROVE  Kept(r)'
<1>1. PICK s \in memory : Extends(s, r)
  BY DEF Kept
<1>2. PICK q : q = ImageRegion(i)
  OBVIOUS
<1>3. q.base \in Nat /\ End(q) \in Nat /\ q.base < End(q)
  BY <1>2, RegionBounds
<1>4. r.base \in Nat /\ End(r) \in Nat /\ r.base < End(r)
  BY RegionBounds
<1>5. End(r) <= q.base \/ End(q) <= r.base
  BY <1>2 DEF Apart
<1>6. q.base # r.base
  BY <1>3, <1>4, <1>5
<1>7. s # q
  BY <1>1, <1>6 DEF Extends
<1>8. s \in memory'
  BY <1>2, <1>7
<1> QED
  BY <1>1, <1>8 DEF Kept

\* A region that becomes longer again is still an extension.
LEMMA KeptGrown ==
  ASSUME MemoryOK, MemoryOK', \A q \in memory : \E s \in memory' : Extends(s, q),
         NEW r, RegionOK(r), Kept(r)
  PROVE  Kept(r)'
<1>1. PICK q \in memory : Extends(q, r)
  BY DEF Kept
<1>2. PICK s \in memory' : Extends(s, q)
  OBVIOUS
<1>3. q.size \in Nat /\ r.size \in Nat
  BY RegionBounds DEF MemoryOK
<1>4. s.size \in Nat
  <2>1. RegionOK(s)
    BY DEF MemoryOK
  <2> QED
    BY <2>1, RegionBounds
<1>5. Extends(s, r)
  BY <1>1, <1>2, <1>3, <1>4 DEF Extends
<1> QED
  BY <1>5 DEF Kept

\* The images that are loaded at the beginning are mapped then.
LEMMA SegmentInit == Init => SegmentInv
<1> SUFFICES ASSUME Init PROVE SegmentInv
  OBVIOUS
<1>1. ListInv /\ RegionInv
  BY ListInit, RegionInit
<1>2. memory \in Maps /\ count = Len(infoArray) /\ toAdd = <<>> /\ moduleInfos = {}
  BY DEF Init, MemoryInit
<1>3. AllKnown
  BY <1>2 DEF AllKnown, Known, Listed
<1>4. ASSUME NEW r \in memory PROVE Kept(r)
  <2>1. r.size \in Nat
    BY <1>1, RegionBounds DEF RegionInv, MemoryOK
  <2> QED
    BY <2>1 DEF Kept, Extends
<1>5. Background
  BY <1>2, <1>4 DEF Background
<1>6. ASSUME NEW x, Listed(x) PROVE x \in InitiallyLoaded
  <2>1. PICK q \in SetToSeqs(InitiallyLoaded \ {Main}) : infoArray = <<Main>> \o q
    BY Zenon DEF Init
  <2>2. IsFiniteSet(InitiallyLoaded \ {Main})
    BY ImageAssumption, FS_Difference
  <2>3. q \in Seq(InitiallyLoaded \ {Main})
    BY <2>1, <2>2, NamesAll
  <2>4. q \in Seq(InitiallyLoaded) /\ Main \in InitiallyLoaded
    BY <2>3, ImageAssumption
  <2>5. infoArray \in Seq(InitiallyLoaded)
    BY <2>1, <2>4
  <2> QED
    BY <1>2, <1>6, <2>5 DEF Listed
<1>7. ImagesMapped
  BY <1>2, <1>4, <1>6, SegmentAssumption DEF ImagesMapped
<1> QED
  BY <1>1, <1>3, <1>5, <1>7 DEF SegmentInv

\* A step that leaves dyld's list alone and keeps the regions.
LEMMA SegmentQuiet ==
  ASSUME SegmentInv, ListInv', RegionInv',
         UNCHANGED <<infoArray, count, unloaded>>,
         \A q \in memory : \E s \in memory' : Extends(s, q),
         \A k \in DOMAIN toAdd' : Known(toAdd'[k]),
         \A m \in moduleInfos' : Known(m.image)
  PROVE  SegmentInv'
<1>1. \A x : (Known(x)' <=> Known(x)) /\ (Listed(x)' <=> Listed(x))
  BY DEF Known, Listed
<1>2. AllKnown'
  BY <1>1 DEF SegmentInv, AllKnown
<1>3. MemoryOK /\ MemoryOK'
  BY DEF SegmentInv, RegionInv
<1>4. ImagesMapped'
  <2> SUFFICES ASSUME NEW x \in AllImages, Kept(ImageRegion(x)) PROVE Kept(ImageRegion(x))'
    BY <1>1 DEF SegmentInv, ImagesMapped, ImageRegion
  <2>1. RegionOK(ImageRegion(x))
    BY ImageRegionOK
  <2>2. PICK r : r = ImageRegion(x)
    OBVIOUS
  <2>3. Kept(r)'
    BY <1>3, <2>1, <2>2, KeptGrown
  <2> QED
    BY <2>2, <2>3 DEF ImageRegion
<1>5. Background'
  <2>1. PICK m \in Maps : \A r \in m : (\E j \in Images : r = ImageRegion(j)) \/ Kept(r)
    BY DEF SegmentInv, Background
  <2>2. ASSUME NEW r \in m, Kept(r) PROVE Kept(r)'
    <3>1. RegionOK(r)
      BY MapRegionOK
    <3> QED
      BY <1>3, <2>2, <3>1, KeptGrown
  <2> QED
    BY <2>1, <2>2 DEF Background, ImageRegion
<1> QED
  BY <1>2, <1>4, <1>5 DEF SegmentInv

\* Memory that does not change extends itself.
LEMMA MemorySame ==
  ASSUME RegionInv, memory' = memory
  PROVE  \A q \in memory : \E s \in memory' : Extends(s, q)
<1> SUFFICES ASSUME NEW q \in memory PROVE Extends(q, q)
  OBVIOUS
<1>1. q.size \in Nat
  BY RegionBounds DEF RegionInv, MemoryOK
<1> QED
  BY <1>1 DEF Extends

\* dlopen: the new image is mapped, and replaces an entry that is not in use.
LEMMA SegmentLoad ==
  ASSUME SegmentInv, ListInv', RegionInv', NEW i \in Images, Load(i)
  PROVE  SegmentInv'
<1>1. /\ UNCHANGED <<toAdd, unloaded>> /\ moduleInfos' = moduleInfos /\ count' = count + 1
      /\ infoArray' = IF count < Len(infoArray) THEN [infoArray EXCEPT ![count + 1] = i]
                      ELSE Append(infoArray, i)
      /\ memory' = memory \cup {ImageRegion(i)}
  BY DEF Load, listVars
<1>2. infoArray \in Seq(Images) /\ count \in 0 .. Len(infoArray)
  BY DEF SegmentInv, ListInv, Types
<1>3. /\ \A k \in 1 .. count : infoArray'[k] = infoArray[k]
      /\ infoArray'[count + 1] = i
      /\ Len(infoArray') = IF count < Len(infoArray) THEN Len(infoArray) ELSE Len(infoArray) + 1
      /\ \A k \in 1 .. Len(infoArray') : k = count + 1 \/ (k \in 1 .. Len(infoArray) /\ infoArray'[k] = infoArray[k])
  <2>1. CASE count < Len(infoArray)
    BY <1>1, <1>2, <2>1
  <2>2. CASE ~(count < Len(infoArray))
    BY <1>1, <1>2, <2>2
  <2> QED
    BY <2>1, <2>2
<1>4. \A k \in 1 .. count' : k = count + 1 \/ k \in 1 .. count
  BY <1>1, <1>2
<1>5. \A k \in 1 .. count : k \in 1 .. count'
  BY <1>1, <1>2
<1>6. count + 1 \in 1 .. count'
  BY <1>1, <1>2
<1>7. ASSUME NEW x PROVE Listed(x)' <=> x = i \/ Listed(x)
  BY <1>3, <1>4, <1>5, <1>6 DEF Listed
<1>8. \A x : Known(x) => Known(x)'
  BY <1>1, <1>7 DEF Known
<1>9. AllKnown'
  <2>1. ASSUME NEW k \in 1 .. Len(infoArray') PROVE Known(infoArray[k])'
    <3>1. CASE k = count + 1
      <4>1. Listed(i)'
        BY <1>7
      <4> QED
        BY <1>3, <3>1, <4>1 DEF Known
    <3>2. CASE k \in 1 .. Len(infoArray) /\ infoArray'[k] = infoArray[k]
      <4>1. Known(infoArray[k])
        BY <3>2 DEF SegmentInv, AllKnown
      <4>2. PICK x : x = infoArray[k]
        OBVIOUS
      <4>3. Known(x)'
        BY <1>8, <4>1, <4>2
      <4> QED
        BY <3>2, <4>2, <4>3 DEF Known, Listed
    <3> QED
      BY <1>3, <3>1, <3>2
  <2>2. ASSUME NEW k \in DOMAIN toAdd PROVE Known(toAdd[k])'
    <3>1. PICK x : x = toAdd[k] /\ x = toAdd'[k]
      BY <1>1
    <3>2. Known(x)'
      BY <1>8, <3>1 DEF SegmentInv, AllKnown
    <3> QED
      BY <3>1, <3>2 DEF Known, Listed
  <2>3. \A m \in moduleInfos' : Known(m.image)'
    BY <1>1, <1>8 DEF SegmentInv, AllKnown
  <2> QED
    BY <1>1, <2>1, <2>2, <2>3 DEF AllKnown
<1>10. \A r : Kept(r) => Kept(r)'
  BY <1>1 DEF Kept
<1>11. Kept(ImageRegion(i))'
  <2>1. PICK r : r = ImageRegion(i)
    OBVIOUS
  <2>2. r.size \in Nat
    BY <2>1, ImageRegionOK, RegionBounds DEF AllImages
  <2>3. Kept(r)'
    BY <1>1, <2>1, <2>2 DEF Kept, Extends
  <2> QED
    BY <2>1, <2>3 DEF ImageRegion
<1>12. ImagesMapped'
  <2> SUFFICES ASSUME NEW x \in AllImages, Listed(x)', x \notin unloaded
               PROVE  Kept(ImageRegion(x))'
    BY <1>1 DEF ImagesMapped, ImageRegion
  <2>1. CASE x = i
    BY <1>11, <2>1
  <2>2. CASE Listed(x)
    <3>1. PICK r : r = ImageRegion(x)
      OBVIOUS
    <3>2. Kept(r)
      BY <2>2, <3>1 DEF SegmentInv, ImagesMapped
    <3>3. Kept(r)'
      BY <1>10, <3>2
    <3> QED
      BY <3>1, <3>3 DEF ImageRegion
  <2> QED
    BY <1>7, <2>1, <2>2
<1>13. Background'
  BY <1>10 DEF SegmentInv, Background, ImageRegion
<1> QED
  BY <1>9, <1>12, <1>13 DEF SegmentInv

\* dlclose: the other images stay mapped, and in the array or behind its end.
LEMMA SegmentUnload ==
  ASSUME SegmentInv, ListInv', RegionInv', NEW i \in Images, Unload(i)
  PROVE  SegmentInv'
<1> DEFINE k0 == CHOOSE k \in 1 .. count : infoArray[k] = i
<1>1. /\ UNCHANGED toAdd /\ moduleInfos' = moduleInfos
      /\ unloaded' = unloaded \cup {i}
      /\ count' = count - 1 /\ i \in Loaded
      /\ infoArray' = [j \in DOMAIN infoArray |->
                         IF k0 <= j /\ j < count THEN infoArray[j + 1] ELSE infoArray[j]]
      /\ memory' = memory \ {ImageRegion(i)}
  BY DEF Unload, listVars
<1>2. infoArray \in Seq(Images) /\ count \in 0 .. Len(infoArray)
  BY DEF SegmentInv, ListInv, Types
<1>3. \E k \in 1 .. count : infoArray[k] = i
  BY <1>1, <1>2 DEF Loaded, ToSet
<1>4. k0 \in 1 .. count /\ infoArray[k0] = i
  BY <1>3
<1> HIDE DEF k0
<1>5. Len(infoArray') = Len(infoArray) /\ DOMAIN infoArray = 1 .. Len(infoArray) /\ DOMAIN infoArray' = DOMAIN infoArray
  <2>1. DOMAIN infoArray' = 1 .. Len(infoArray) /\ DOMAIN infoArray = 1 .. Len(infoArray)
    BY <1>1, <1>2
  <2>2. infoArray' \in Seq(Images)
    BY DEF ListInv, Types
  <2>3. Len(infoArray') \in Nat /\ DOMAIN infoArray' = 1 .. Len(infoArray') /\ Len(infoArray) \in Nat
    BY <1>2, <2>2
  <2> QED
    BY <2>1, <2>3
<1>6. ASSUME NEW x, Listed(x)' PROVE Listed(x)
  <2>1. PICK k \in 1 .. count' : infoArray'[k] = x
    BY <1>6 DEF Listed
  <2>2. k \in DOMAIN infoArray /\ k \in 1 .. count /\ k + 1 \in 1 .. count
    BY <1>1, <1>2, <1>4, <1>5
  <2>3. x = infoArray[k] \/ x = infoArray[k + 1]
    BY <1>1, <2>1, <2>2
  <2> QED
    BY <2>2, <2>3 DEF Listed
<1>7. ASSUME NEW x, Listed(x), x # i PROVE Listed(x)'
  <2>1. PICK k \in 1 .. count : infoArray[k] = x
    BY <1>7 DEF Listed
  <2>2. k # k0 /\ k \in DOMAIN infoArray
    BY <1>2, <1>4, <1>5, <1>7, <2>1
  <2>3. CASE k < k0
    <3>1. k \in 1 .. count' /\ ~(k0 <= k)
      BY <1>1, <1>2, <1>4, <2>3
    <3>2. infoArray'[k] = x
      BY <1>1, <2>1, <2>2, <3>1
    <3> QED
      BY <3>1, <3>2 DEF Listed
  <2>4. CASE k > k0
    <3>1. /\ k - 1 \in 1 .. count' /\ k - 1 \in DOMAIN infoArray
          /\ k0 <= k - 1 /\ k - 1 < count /\ (k - 1) + 1 = k
      BY <1>1, <1>2, <1>4, <1>5, <2>4
    <3>2. infoArray'[k - 1] = x
      BY <1>1, <2>1, <3>1
    <3> QED
      BY <3>1, <3>2 DEF Listed
  <2> QED
    BY <1>4, <2>2, <2>3, <2>4
<1>8. ASSUME NEW x, Known(x) PROVE Known(x)'
  BY <1>1, <1>7, <1>8 DEF Known
<1>9. AllKnown'
  <2>1. ASSUME NEW k \in 1 .. Len(infoArray') PROVE Known(infoArray[k])'
    <3>1. k \in DOMAIN infoArray
      BY <1>5
    <3>2. k < count => k + 1 \in 1 .. Len(infoArray)
      BY <1>2, <1>5
    <3>3. \E j \in 1 .. Len(infoArray) : infoArray'[k] = infoArray[j]
      BY <1>1, <1>5, <3>1, <3>2
    <3>4. PICK x : x = infoArray'[k]
      OBVIOUS
    <3>5. Known(x)
      BY <3>3, <3>4 DEF SegmentInv, AllKnown
    <3>6. Known(x)'
      BY <1>8, <3>5
    <3> QED
      BY <3>4, <3>6 DEF Known, Listed
  <2>2. ASSUME NEW k \in DOMAIN toAdd PROVE Known(toAdd[k])'
    <3>1. PICK x : x = toAdd[k] /\ x = toAdd'[k]
      BY <1>1
    <3>2. Known(x)'
      BY <1>8, <3>1 DEF SegmentInv, AllKnown
    <3> QED
      BY <3>1, <3>2 DEF Known, Listed
  <2>3. \A m \in moduleInfos' : Known(m.image)'
    BY <1>1, <1>8 DEF SegmentInv, AllKnown
  <2> QED
    BY <1>1, <2>1, <2>2, <2>3 DEF AllKnown
<1>10. i \in AllImages /\ RegionOK(ImageRegion(i))
  BY ImageRegionOK DEF AllImages
<1>11. ImagesMapped'
  <2> SUFFICES ASSUME NEW x \in AllImages, Listed(x)', x \notin unloaded, x # i
               PROVE  Kept(ImageRegion(x))'
    BY <1>1 DEF ImagesMapped, ImageRegion
  <2>1. PICK r : r = ImageRegion(x)
    OBVIOUS
  <2>2. Kept(r)
    BY <1>6, <2>1 DEF SegmentInv, ImagesMapped
  <2>3. RegionOK(r) /\ Apart(r, ImageRegion(i))
    BY <1>10, <2>1, ImageRegionOK, ImagesApart
  <2>4. Kept(r)'
    BY <1>1, <1>10, <2>2, <2>3, KeptUnmapped
  <2> QED
    BY <2>1, <2>4 DEF ImageRegion
<1>12. Background'
  <2>1. PICK m \in Maps : \A r \in m : (\E j \in Images : r = ImageRegion(j)) \/ Kept(r)
    BY DEF SegmentInv, Background
  <2>2. ASSUME NEW r \in m, ~(\E j \in Images : r = ImageRegion(j)) PROVE Kept(r)'
    <3>1. RegionOK(r) /\ Apart(r, ImageRegion(i))
      BY <2>2, MapRegionOK, MapRegions
    <3> QED
      BY <1>1, <1>10, <2>1, <2>2, <3>1, KeptUnmapped
  <2> QED
    BY <2>1, <2>2 DEF Background, ImageRegion
<1> QED
  BY <1>9, <1>11, <1>12 DEF SegmentInv

\* The constructor takes what is in the array.
LEMMA SegmentReadInfoArray ==
  ASSUME SegmentInv, ListInv', RegionInv', ReadInfoArray
  PROVE  SegmentInv'
<1>1. /\ reading = "array" /\ UNCHANGED <<infoArray, count, unloaded, moduleInfos>> /\ memory' = memory
  BY DEF ReadInfoArray, memoryVars, dyldVars
<1>2. \A q \in memory : \E s \in memory' : Extends(s, q)
  BY <1>1, MemorySame DEF SegmentInv
<1>3. ASSUME NEW k \in DOMAIN toAdd' PROVE Known(toAdd'[k])
  <2>1. CASE toAdd' = toAdd
    BY <2>1 DEF SegmentInv, AllKnown
  <2>2. CASE toAdd' = <<Dyld>> \o SubSeq(infoArray, 1, snapshot.count)
    <3> DEFINE read == SubSeq(infoArray, 1, snapshot.count)
    <3>1. infoArray \in Seq(Images) /\ snapshot.count \in 0 .. Len(infoArray)
      BY <1>1 DEF SegmentInv, ListInv, Types, ArrayOK
    <3>2. /\ read \in Seq(Images) /\ Len(read) = snapshot.count
          /\ \A j \in 1 .. snapshot.count : read[j] = infoArray[j]
      BY <3>1
    <3> HIDE DEF read
    <3>3. toAdd' = <<Dyld>> \o read
      BY <2>2 DEF read
    <3>4. Len(toAdd') = 1 + snapshot.count /\ toAdd' \in Seq(AllImages)
      BY <3>1, <3>2, <3>3 DEF ListInv, Types
    <3>5. CASE k = 1
      <4>1. toAdd'[1] = Dyld
        BY <3>2, <3>3
      <4> QED
        BY <3>5, <4>1 DEF Known
    <3>6. CASE k # 1
      <4>1. k - 1 \in 1 .. snapshot.count /\ k - 1 \in 1 .. Len(infoArray) /\ k \in 1 .. 1 + snapshot.count
        BY <3>1, <3>4, <3>6
      <4>2. toAdd'[k] = read[k - 1]
        BY <3>1, <3>2, <3>3, <3>6, <4>1
      <4>3. toAdd'[k] = infoArray[k - 1]
        BY <3>2, <4>1, <4>2
      <4> QED
        BY <4>1, <4>3 DEF SegmentInv, AllKnown
    <3> QED
      BY <3>5, <3>6
  <2> QED
    BY <2>1, <2>2 DEF ReadInfoArray
<1>4. \A m \in moduleInfos' : Known(m.image)
  BY <1>1 DEF SegmentInv, AllKnown
<1> QED
  BY <1>1, <1>2, <1>3, <1>4, SegmentQuiet

\* A module is one of the images to be added.
LEMMA SegmentAddImage ==
  ASSUME SegmentInv, ListInv', RegionInv', AddImage
  PROVE  SegmentInv'
<1>1. /\ toAdd # <<>> /\ UNCHANGED <<infoArray, count, unloaded>> /\ memory' = memory
  BY DEF AddImage, memoryVars, dyldVars
<1>2. \A q \in memory : \E s \in memory' : Extends(s, q)
  BY <1>1, MemorySame DEF SegmentInv
<1>3. toAdd \in Seq(AllImages)
  BY DEF SegmentInv, ListInv, Types
<1>4. PICK i : i = Head(toAdd)
  OBVIOUS
<1>5. 1 \in DOMAIN toAdd /\ i = toAdd[1]
  BY <1>1, <1>3, <1>4
<1>6. Known(i) /\ i \in AllImages
  BY <1>3, <1>5 DEF SegmentInv, AllKnown
<1>7. CASE moduleInfos' = Emplace(ModuleInfo(i)) /\ toAdd' = Tail(toAdd)
  <2>1. \A m \in moduleInfos' : m \in moduleInfos \/ m.image = i
    BY <1>7 DEF Emplace, ModuleInfo
  <2>2. \A m \in moduleInfos' : Known(m.image)
    BY <1>6, <2>1 DEF SegmentInv, AllKnown
  <2>3. ASSUME NEW k \in DOMAIN toAdd' PROVE Known(toAdd'[k])
    <3>1. k + 1 \in DOMAIN toAdd /\ toAdd'[k] = toAdd[k + 1]
      BY <1>1, <1>3, <1>7
    <3> QED
      BY <3>1 DEF SegmentInv, AllKnown
  <2> QED
    BY <1>1, <1>2, <2>2, <2>3, SegmentQuiet
<1>8. CASE moduleInfos' = {} /\ toAdd' = <<>>
  BY <1>1, <1>2, <1>8, SegmentQuiet
<1> QED
  BY <1>4, <1>7, <1>8 DEF AddImage

\* Every step keeps the images that have not been unloaded mapped.
LEMMA SegmentNext == SegmentInv /\ [Next]_vars => SegmentInv'
<1> SUFFICES ASSUME SegmentInv, [Next]_vars PROVE SegmentInv'
  OBVIOUS
<1>1. ListInv' /\ RegionInv'
  BY ListNext, RegionNext DEF SegmentInv
<1>2. /\ \A k \in DOMAIN toAdd : Known(toAdd[k])
      /\ \A m \in moduleInfos : Known(m.image)
  BY DEF SegmentInv, AllKnown
<1>3. CASE BeginUpdate \/ ReadImageInfos \/ EndConstructor \/ AddSegments \/ CreatePayload \/ UNCHANGED vars
           \/ \E sp \in StackPointers : AddStack(sp)
  <2>1. UNCHANGED <<infoArray, count, unloaded, toAdd, moduleInfos, memory>>
    BY <1>3 DEF BeginUpdate, ReadImageInfos, EndConstructor, AddSegments, CreatePayload, AddStack,
                vars, memoryVars, dyldVars, listVars, moduleVars
  <2>2. \A q \in memory : \E s \in memory' : Extends(s, q)
    BY <2>1, MemorySame DEF SegmentInv
  <2> QED
    BY <1>1, <1>2, <2>1, <2>2, SegmentQuiet
<1>4. ASSUME NEW i \in Images, Load(i) \/ Unload(i) PROVE SegmentInv'
  BY <1>1, <1>4, SegmentLoad, SegmentUnload
<1>5. CASE ReadInfoArray
  BY <1>1, <1>5, SegmentReadInfoArray
<1>6. CASE AddImage
  BY <1>1, <1>6, SegmentAddImage
<1>7. CASE RegionStep
  <2>1. UNCHANGED <<infoArray, count, unloaded, toAdd, moduleInfos, reading>> /\ reading = "done"
    BY <1>7 DEF RegionStep, moduleVars, dyldVars, listVars
  <2>2. CASE memory' = memory
    <3>1. \A q \in memory : \E s \in memory' : Extends(s, q)
      BY <2>2, MemorySame DEF SegmentInv
    <3> QED
      BY <1>1, <1>2, <2>1, <3>1, SegmentQuiet
  <2>3. ASSUME NEW a \in Addresses, ZoneGrows(a) PROVE SegmentInv'
    <3>1. \A q \in memory : \E s \in memory' : Extends(s, q)
      <4>1. Constructed /\ Constructed'
        BY <2>1 DEF Constructed
      <4>2. MemoryOK
        BY DEF SegmentInv, RegionInv
      <4> QED
        BY <2>3, <4>1, <4>2, MemoryGrown
    <3> QED
      BY <1>1, <1>2, <2>1, <3>1, SegmentQuiet
  <2> QED
    BY <1>7, <2>2, <2>3 DEF RegionStep, BeginWalk, AddRegion, AddLastRegion
<1>8. ASSUME NEW ip \in CallStackAddresses, AddCode(ip) PROVE SegmentInv'
  <2>1. UNCHANGED <<infoArray, count, unloaded, toAdd, memory>> /\ MarkAsExecuting(ip)
    BY <1>8 DEF AddCode, memoryVars, dyldVars
  <2>2. \A q \in memory : \E s \in memory' : Extends(s, q)
    BY <2>1, MemorySame DEF SegmentInv
  <2>3. \A m \in moduleInfos : IsModule(m)
    BY DEF SegmentInv, ListInv, ListOK
  <2>4. {m.image : m \in moduleInfos'} = {m.image : m \in moduleInfos}
    BY <2>1, <2>3, MarkedImages
  <2>5. \A m \in moduleInfos' : Known(m.image)
    <3> SUFFICES ASSUME NEW m \in moduleInfos' PROVE Known(m.image)
      OBVIOUS
    <3>1. m.image \in {n.image : n \in moduleInfos}
      BY <2>4
    <3>2. PICK n \in moduleInfos : m.image = n.image
      BY <3>1
    <3> QED
      BY <1>2, <3>2
  <2> QED
    BY <1>1, <1>2, <2>1, <2>2, <2>5, SegmentQuiet
<1> QED
  BY <1>3, <1>4, <1>5, <1>6, <1>7, <1>8 DEF Next, DyldNext, LibraryNext, Finished

\* The bytes of a region that was kept are in one of its kind.
LEMMA KeptBytes ==
  ASSUME MemoryOK, NEW r, RegionOK(r), Kept(r)
  PROVE  \E s \in memory : Bytes(r) \subseteq Bytes(s) /\ s.tag = r.tag
<1>1. PICK s \in memory : Extends(s, r)
  BY DEF Kept
<1>2. RegionOK(s)
  BY DEF MemoryOK
<1>3. /\ r.base \in Nat /\ r.size \in Nat /\ End(r) = r.base + r.size
      /\ \A a : a \in Bytes(r) <=> a \in Int /\ r.base <= a /\ a < End(r)
  BY RegionBounds
<1>4. /\ s.base \in Nat /\ s.size \in Nat /\ End(s) = s.base + s.size
      /\ \A b : b \in Bytes(s) <=> b \in Int /\ s.base <= b /\ b < End(s)
  BY <1>2, RegionBounds
<1>5. ASSUME NEW a \in Bytes(r) PROVE a \in Bytes(s)
  BY <1>1, <1>3, <1>4 DEF Extends
<1> QED
  BY <1>1, <1>5 DEF Extends

\* What is a region of its own, and kept, is still mapped.
LEMMA KeptByte ==
  ASSUME MemoryOK, NEW r, RegionOK(r), Kept(r), ~IsSubmap(r), NEW a \in Bytes(r)
  PROVE  \E s \in Leaves : a \in Bytes(s)
<1>1. PICK s \in memory : Bytes(r) \subseteq Bytes(s) /\ s.tag = r.tag
  BY KeptBytes
<1>2. s \in Leaves
  BY <1>1 DEF Leaves, LeavesOf, IsSubmap
<1> QED
  BY <1>1, <1>2

\* So is what was in a map at the beginning and is no image of dyld's list, also
\* inside of a submap.
LEMMA LeafByte ==
  ASSUME MemoryOK, NEW m \in Maps,
         \A r \in m : (\E j \in Images : r = ImageRegion(j)) \/ Kept(r),
         NEW n \in LeavesOf(m), \A j \in Images : n # ImageRegion(j), NEW a \in Bytes(n)
  PROVE  \E s \in Leaves : a \in Bytes(s)
<1>1. CASE n \in m /\ ~IsSubmap(n)
  <2>1. Kept(n) /\ RegionOK(n)
    BY <1>1, MapRegionOK
  <2> QED
    BY <1>1, <2>1, KeptByte
<1>2. CASE n \in Nested /\ \E q \in m : IsSubmap(q) /\ Bytes(n) \subseteq Bytes(q)
  <2>1. PICK q \in m : IsSubmap(q) /\ Bytes(n) \subseteq Bytes(q)
    BY <1>2
  <2>2. \A j \in Images : q # ImageRegion(j)
    BY <2>1 DEF ImageRegion, IsSubmap
  <2>3. Kept(q) /\ RegionOK(q)
    BY <2>2, MapRegionOK
  <2>4. PICK s \in memory : Bytes(q) \subseteq Bytes(s) /\ s.tag = q.tag
    BY <2>3, KeptBytes
  <2>5. IsSubmap(s) /\ Bytes(n) \subseteq Bytes(s)
    BY <2>1, <2>4 DEF IsSubmap
  <2>6. n \in Leaves
    BY <1>2, <2>5 DEF Leaves, LeavesOf
  <2> QED
    BY <2>6
<1> QED
  BY <1>1, <1>2 DEF LeavesOf

\* dyld is mapped, on its own or in the shared cache.
LEMMA DyldIsMapped ==
  ASSUME NEW m \in Maps
  PROVE  ImageRegion(Dyld) \in LeavesOf(m)
BY SegmentAssumption

\* A segment is slid by the distance by which the image is.
LEMMA SlidSegment ==
  ASSUME NEW i \in AllImages, NEW k \in DOMAIN SegmentsOf(i), SegmentsOf(i)[k].name # "__PAGEZERO"
  PROVE  /\ k \in DOMAIN Commands[i] /\ Commands[i][k].name # "__PAGEZERO"
         /\ SegmentsOf(i)[k].vmaddr = Commands[i][k].vmaddr + (LoadAddress[i] - TextOf(i).vmaddr)
         /\ SegmentsOf(i)[k].size = Commands[i][k].size
<1>1. k \in DOMAIN Commands[i]
  BY DEF SegmentsOf
<1>2. PICK c \in [name : STRING, vmaddr : Nat, size : Nat] : c = Commands[i][k]
  BY <1>1, SegmentCommand
<1>3. SegmentsOf(i)[k] = IF c.name = "__PAGEZERO" THEN c ELSE [c EXCEPT !.vmaddr = @ + Slide(i)]
  BY <1>1, <1>2 DEF SegmentsOf
<1>4. c.name # "__PAGEZERO"
  BY <1>3
<1>5. SegmentsOf(i)[k] = [c EXCEPT !.vmaddr = @ + Slide(i)]
  BY <1>3, <1>4
<1>6. /\ SegmentsOf(i)[k].vmaddr = c.vmaddr + Slide(i)
      /\ SegmentsOf(i)[k].size = c.size
  BY <1>5
<1> QED
  BY <1>1, <1>2, <1>4, <1>6 DEF Slide

\* Every segment that the list names is mapped, however dyld's list has changed
\* and wherever the image was slid to: GetSegmentsOfModule slides them right, and
\* no image in the list has left the target's memory unless it was unloaded.
THEOREM SegmentsAreMapped == Spec => []SegmentsWhereMapped
<1>1. Spec => []SegmentInv
  BY SegmentInit, SegmentNext, PTL DEF Spec
<1>2. ASSUME SegmentInv PROVE SegmentsWhereMapped
  <2> SUFFICES ASSUME NEW m \in moduleInfos, m.image \notin unloaded,
                      NEW k \in DOMAIN m.segments, m.segments[k].name # "__PAGEZERO",
                      NEW a \in m.segments[k].vmaddr .. m.segments[k].vmaddr + m.segments[k].size - 1
               PROVE  \E r \in Leaves : a \in Bytes(r)
    BY DEF SegmentsWhereMapped
  <2>1. PICK i \in AllImages : i = m.image /\ m.segments = SegmentsOf(i)
    <3>1. IsModule(m)
      BY <1>2 DEF SegmentInv, ListInv, ListOK
    <3> QED
      BY <3>1 DEF IsModule
  <2>2. MemoryOK
    BY <1>2 DEF SegmentInv, RegionInv
  <2>3. PICK n \in Maps : \A r \in n : (\E j \in Images : r = ImageRegion(j)) \/ Kept(r)
    BY <1>2 DEF SegmentInv, Background
  <2>4. PICK v, z : /\ v = m.segments[k].vmaddr /\ z = m.segments[k].size
                    /\ k \in DOMAIN Commands[i] /\ Commands[i][k].name # "__PAGEZERO"
                    /\ v = Commands[i][k].vmaddr + (LoadAddress[i] - TextOf(i).vmaddr)
                    /\ z = Commands[i][k].size
    BY <2>1, SlidSegment
  <2>5. \/ a \in Bytes(ImageRegion(i))
        \/ \A q \in Maps : \E r \in LeavesOf(q) : a \in Bytes(r) /\ \A j \in Images : r # ImageRegion(j)
    BY <2>4, SegmentAssumption
  <2>6. CASE a \in Bytes(ImageRegion(i)) /\ i = Dyld
    <3>1. ImageRegion(i) \in LeavesOf(n)
      BY <2>6, DyldIsMapped
    <3>2. ASSUME NEW j \in Images PROVE ImageRegion(i) # ImageRegion(j)
      <4>1. j \in AllImages /\ j # i
        BY <2>6, ImageAssumption DEF AllImages
      <4>2. Bytes(ImageRegion(i)) \cap Bytes(ImageRegion(j)) = {}
        BY <4>1, ImageAssumption
      <4> QED
        BY <2>6, <4>2
    <3> QED
      BY <2>2, <2>3, <2>6, <3>1, <3>2, LeafByte
  <2>7. CASE a \in Bytes(ImageRegion(i)) /\ i # Dyld
    <3>1. Listed(i)
      BY <1>2, <2>1, <2>7 DEF SegmentInv, AllKnown, Known
    <3>2. Kept(ImageRegion(i)) /\ RegionOK(ImageRegion(i))
      BY <1>2, <2>1, <3>1, ImageRegionOK DEF SegmentInv, ImagesMapped
    <3>3. ~IsSubmap(ImageRegion(i))
      BY DEF ImageRegion, IsSubmap
    <3> QED
      BY <2>2, <2>7, <3>2, <3>3, KeptByte
  <2>8. CASE \A q \in Maps : \E r \in LeavesOf(q) : a \in Bytes(r) /\ \A j \in Images : r # ImageRegion(j)
    <3>1. PICK r \in LeavesOf(n) : a \in Bytes(r) /\ \A j \in Images : r # ImageRegion(j)
      BY <2>8, <2>3
    <3> QED
      BY <2>2, <2>3, <3>1, LeafByte
  <2> QED
    BY <2>5, <2>6, <2>7, <2>8
<1> QED
  BY <1>1, <1>2, PTL
-----------------------------------------------------------------------------
(* The modules in the order of the map. *)

\* Ascending load addresses.
Ascending(q) == \A j, k \in DOMAIN q : j < k => q[j].loadAddress < q[k].loadAddress

\* Finitely many modules with keys of their own can be brought into order: a
\* smallest set that cannot would still be one without its first module.
LEMMA OrderExists ==
  ASSUME NEW S, IsFiniteSet(S), \A m \in S : m.loadAddress \in Nat,
         \A m, n \in S : m.loadAddress = n.loadAddress => m = n
  PROVE  \E q \in SetToSeqs(S) : Ascending(q)
<1> DEFINE Good(R) == \E q \in SetToSeqs(R) : Ascending(q)
           T == {c \in Nat : \E R \in SUBSET S : Cardinality(R) = c /\ ~Good(R)}
<1>1. Cardinality(S) \in Nat
  BY FS_CardinalityType
<1> SUFFICES ASSUME T # {} PROVE FALSE
  BY <1>1
<1>2. PICK c \in T : \A d \in T : c <= d
  <2>1. T \in SUBSET Nat
    OBVIOUS
  <2> HIDE DEF T
  <2> QED
    BY <2>1, LeastElement
<1>3. PICK R \in SUBSET S : Cardinality(R) = c /\ ~Good(R)
  BY <1>2
<1>4. IsFiniteSet(R) /\ c \in Nat
  BY <1>2, FS_Subset
<1>5. CASE R = {}
  <2>1. c = 0
    BY <1>3, <1>5, FS_EmptySet
  <2> DEFINE q == [k \in 1 .. 0 |-> k]
  <2>2. q \in [1 .. c -> R] /\ (\A i, j \in 1 .. c : i # j => q[i] # q[j]) /\ Ascending(q)
    BY <2>1 DEF Ascending
  <2> HIDE DEF q
  <2>3. q \in SetToSeqs(R)
    BY <1>3, <2>2 DEF SetToSeqs
  <2> QED
    BY <1>3, <2>2, <2>3
<1>6. CASE R # {}
  <2> DEFINE K == {x.loadAddress : x \in R}
  <2>1. PICK m \in R : \A x \in R : m.loadAddress <= x.loadAddress
    <3>1. K \in SUBSET Nat /\ K # {}
      BY <1>6
    <3> HIDE DEF K
    <3>2. PICK a \in K : \A b \in K : a <= b
      BY <3>1, LeastElement
    <3> QED
      BY <3>2 DEF K
  <2>2. IsFiniteSet(R \ {m}) /\ Cardinality(R \ {m}) = c - 1
    BY <1>3, <1>4, <2>1, FS_RemoveElement
  <2>3. c - 1 \in Nat
    BY <2>2, FS_CardinalityType
  <2>4. PICK q \in SetToSeqs(R \ {m}) : Ascending(q)
    <3>1. c - 1 \notin T
      BY <1>2, <1>4, <2>3
    <3> QED
      BY <2>2, <2>3, <3>1
  <2>5. q \in [1 .. c - 1 -> R \ {m}] /\ \A i, j \in 1 .. c - 1 : i # j => q[i] # q[j]
    BY <2>2 DEF SetToSeqs
  <2> DEFINE p == [k \in 1 .. c |-> IF k = 1 THEN m ELSE q[k - 1]]
  <2>6. ASSUME NEW k \in 1 .. c, k # 1
        PROVE  k - 1 \in 1 .. c - 1 /\ p[k] = q[k - 1] /\ q[k - 1] \in R /\ q[k - 1] # m
    <3>1. k - 1 \in 1 .. c - 1
      BY <1>4, <2>6
    <3> QED
      BY <2>5, <2>6, <3>1
  <2>7. 1 \in 1 .. c /\ p[1] = m
    BY <1>4, <2>3
  <2>8. p \in [1 .. c -> R]
    BY <2>6
  <2>9. DOMAIN p = 1 .. c
    OBVIOUS
  <2> HIDE DEF p
  <2>10. ASSUME NEW i \in 1 .. c, NEW j \in 1 .. c, i < j
         PROVE  p[i].loadAddress < p[j].loadAddress
    <3>1. j # 1
      BY <1>4, <2>10
    <3>2. CASE i = 1
      <4>1. p[j] \in R /\ p[j] # m
        BY <2>6, <3>1
      <4>2. m.loadAddress <= p[j].loadAddress /\ m.loadAddress # p[j].loadAddress
        BY <2>1, <4>1
      <4>3. m.loadAddress \in Nat /\ p[j].loadAddress \in Nat
        BY <4>1
      <4> QED
        BY <2>7, <3>2, <4>2, <4>3
    <3>3. CASE i # 1
      <4>1. /\ i - 1 \in 1 .. c - 1 /\ j - 1 \in 1 .. c - 1 /\ i - 1 < j - 1
            /\ p[i] = q[i - 1] /\ p[j] = q[j - 1]
        BY <1>4, <2>6, <2>10, <3>1, <3>3
      <4> QED
        BY <2>4, <2>5, <4>1 DEF Ascending
    <3> QED
      BY <3>2, <3>3
  <2>11. Ascending(p)
    BY <2>9, <2>10 DEF Ascending
  <2>12. ASSUME NEW i \in 1 .. c, NEW j \in 1 .. c, i # j PROVE p[i] # p[j]
    <3>1. i < j \/ j < i
      BY <1>4, <2>12
    <3>2. p[i].loadAddress \in Nat /\ p[j].loadAddress \in Nat
      BY <2>8
    <3>3. p[i].loadAddress # p[j].loadAddress
      BY <2>10, <3>1, <3>2
    <3> QED
      BY <3>3
  <2>13. p \in SetToSeqs(R)
    BY <1>3, <2>8, <2>12 DEF SetToSeqs
  <2> QED
    BY <1>3, <2>11, <2>13
<1> QED
  BY <1>5, <1>6

\* The order of the map is one of all the given modules.
LEMMA InOrderIsOrder ==
  ASSUME NEW S, IsFiniteSet(S), \A m \in S : m.loadAddress \in Nat,
         \A m, n \in S : m.loadAddress = n.loadAddress => m = n
  PROVE  /\ InOrder(S) \in [1 .. Cardinality(S) -> S]
         /\ \A x \in S : \E k \in 1 .. Cardinality(S) : InOrder(S)[k] = x
<1>1. \E q \in SetToSeqs(S) : \A j, k \in DOMAIN q : j < k => q[j].loadAddress < q[k].loadAddress
  BY OrderExists DEF Ascending
<1>2. InOrder(S) \in SetToSeqs(S)
  BY <1>1, Zenon DEF InOrder
<1>3. PICK n, q : n = Cardinality(S) /\ q = InOrder(S)
  OBVIOUS
<1>4. q \in [1 .. n -> S] /\ \A i, j \in 1 .. n : i # j => q[i] # q[j]
  BY <1>2, <1>3 DEF SetToSeqs
<1>5. n \in Nat /\ IsFiniteSet(1 .. n) /\ Cardinality(1 .. n) = n
  BY <1>3, FS_CardinalityType, FS_Interval
<1>6. q \in Injection(1 .. n, S)
  BY <1>4 DEF Injection, IsInjective
<1>7. q \in Surjection(1 .. n, S)
  BY <1>3, <1>5, <1>6, FS_Injection
<1> QED
  BY <1>3, <1>4, <1>7 DEF Surjection

\* What else is known of the list: the main executable is never unloaded, and a
\* module has a path that could be read.
ModulesOK ==
  /\ updates <= MaxUpdates /\ unloaded \subseteq Images \ {Main} /\ pathAddress \in Paths
  /\ IsFiniteSet(moduleInfos)
  /\ \A m \in moduleInfos : m.pathLength \in Nat

\* The payload is made of the list that was complete before.
PayloadMade ==
  payload = IF reading = "written" /\ moduleInfos # {} THEN AllImageInfosPayload ELSE NoPayload

PayInv == ExecInv /\ NeedInv /\ ModulesOK /\ PayloadMade

\* The list is empty.
LEMMA PayInit == Init => PayInv
<1> SUFFICES ASSUME Init PROVE PayInv
  OBVIOUS
<1>1. ExecInv /\ NeedInv
  BY ExecInit, NeedInit
<1>2. 0 <= MaxUpdates
  BY ImageAssumption
<1>3. ModulesOK
  BY <1>2, FS_EmptySet DEF Init, ModulesOK
<1>4. PayloadMade
  BY DEF Init, PayloadMade
<1> QED
  BY <1>1, <1>3, <1>4 DEF PayInv

\* The payload depends on the list alone.
LEMMA PayloadOfList ==
  ASSUME moduleInfos' = moduleInfos
  PROVE  AllImageInfosPayload' = AllImageInfosPayload
<1>1. InPayload' = InPayload
  BY DEF InPayload, InOrder, IsMainExecutable
<1>2. nModules' = nModules
  BY DEF nModules
<1> QED
  BY <1>1, <1>2 DEF AllImageInfosPayload

\* The payload is not touched before it is made, and is the last thing made.
LEMMA PayloadStays ==
  ASSUME PayloadMade, payload' = payload,
         \/ reading # "written" /\ reading' # "written"
         \/ reading' = reading /\ moduleInfos' = moduleInfos
  PROVE  PayloadMade'
BY PayloadOfList DEF PayloadMade

\* A path that can be read has a length.
LEMMA PathHasLength ==
  ASSUME MemoryOK, pathAddress \in Paths, NEW i \in AllImages, CanCreate(i)
  PROVE  PathLength(i) \in Nat
<1>1. pathAddress[i] \in Addresses
  BY ImageAssumption
<1>2. PICK a : a = pathAddress[i]
  OBVIOUS
<1>3. ASSUME ReadString(a) # NoString PROVE ReadString(a) \in Nat
  <2> DEFINE sizeToRead == Min({EndDistance(a), MaxString})
             ends == {b \in zeros : a <= b /\ b < a + sizeToRead}
  <2>1. ReadString(a) = Min(ends) - a /\ ends # {}
    BY <1>3 DEF ReadString
  <2>2. AddrLimit \in Nat /\ a \in Nat
    BY <1>1, <1>2, MemoryAssumption DEF Addresses
  <2>3. zeros \subseteq 0 .. AddrLimit
    BY <2>2 DEF MemoryOK, Addresses
  <2>4. ends \in SUBSET (0 .. AddrLimit) /\ \A b \in ends : a <= b
    BY <2>3
  <2> HIDE DEF ends
  <2>5. Min(ends) \in ends
    BY <2>1, <2>2, <2>4, MinMax
  <2>6. PICK b \in 0 .. AddrLimit : b = Min(ends) /\ a <= b
    BY <2>4, <2>5
  <2> QED
    BY <2>1, <2>2, <2>6
<1>4. PathLength(i) # NoString
  BY DEF CanCreate
<1>5. DefaultPathLength \in Nat
  BY DEF DefaultPathLength
<1> QED
  BY <1>2, <1>3, <1>4, <1>5 DEF PathLength

\* A module is added with the path that was read for it.
LEMMA ModulesAddImage ==
  ASSUME ListInv, MemoryOK, ModulesOK, AddImage
  PROVE  ModulesOK'
<1>1. UNCHANGED <<updates, unloaded, pathAddress>> /\ reading = "images" /\ toAdd # <<>>
  BY DEF AddImage, dyldVars
<1>2. Head(toAdd) \in AllImages
  BY <1>1 DEF ListInv, Types
<1>3. CASE CanCreate(Head(toAdd)) /\ moduleInfos' = Emplace(ModuleInfo(Head(toAdd)))
  <2>1. PathLength(Head(toAdd)) \in Nat
    BY <1>2, <1>3, PathHasLength DEF ModulesOK
  <2>0. PICK n : n = ModuleInfo(Head(toAdd))
    OBVIOUS
  <2>2. n.pathLength \in Nat
    BY <2>0, <2>1 DEF ModuleInfo
  <2>3. moduleInfos' = moduleInfos \/ moduleInfos' = moduleInfos \cup {n}
    BY <1>3, <2>0 DEF Emplace
  <2>4. IsFiniteSet(moduleInfos')
    BY <2>3, FS_AddElement DEF ModulesOK
  <2> QED
    BY <1>1, <2>2, <2>3, <2>4 DEF ModulesOK
<1>4. CASE moduleInfos' = {}
  BY <1>1, <1>4, FS_EmptySet DEF ModulesOK
<1> QED
  BY <1>3, <1>4 DEF AddImage

\* A mark changes neither the number of modules nor their paths.
LEMMA ModulesAddCode ==
  ASSUME ListInv, ModulesOK, NEW ip \in CallStackAddresses, AddCode(ip)
  PROVE  ModulesOK'
<1> DEFINE found == ModuleForAddress(ip)
           Mark(m) == [m EXCEPT !.executing = TRUE]
           mark == [m \in found |-> Mark(m)]
           marks == {Mark(m) : m \in found}
<1>1. UNCHANGED <<updates, unloaded, pathAddress>>
  BY DEF AddCode, dyldVars
<1>2. moduleInfos' = (moduleInfos \ found) \cup marks
  BY DEF AddCode, MarkAsExecuting
<1>3. found \in SUBSET moduleInfos
  BY DEF ModuleForAddress
<1>4. IsFiniteSet(found) /\ IsFiniteSet(moduleInfos \ found)
  BY <1>3, FS_Subset DEF ModulesOK
<1>5. IsFiniteSet(marks)
  <2>1. mark \in Surjection(found, marks)
    BY DEF Surjection
  <2> HIDE DEF mark, marks, found
  <2> QED
    BY <1>4, <2>1, FS_Surjection
<1>6. IsFiniteSet(moduleInfos')
  <2> HIDE DEF marks, found
  <2> QED
    BY <1>2, <1>4, <1>5, FS_Union
<1>7. ASSUME NEW m \in found PROVE Mark(m).pathLength \in Nat
  <2>1. m.pathLength \in Nat
    BY <1>3 DEF ModulesOK
  <2>2. m = [image |-> m.image, loadAddress |-> LoadAddress[m.image], pathLength |-> m.pathLength,
             segments |-> SegmentsOf(m.image), executing |-> m.executing]
    BY <1>3 DEF ListInv, ListOK, IsModule
  <2>3. Mark(m) = [image |-> m.image, loadAddress |-> LoadAddress[m.image],
                   pathLength |-> m.pathLength, segments |-> SegmentsOf(m.image), executing |-> TRUE]
    BY <2>2, MarkRecord
  <2> HIDE DEF Mark
  <2> QED
    BY <2>1, <2>3
<1>8. \A m \in moduleInfos' : m.pathLength \in Nat
  <2> HIDE DEF Mark, found
  <2> QED
    BY <1>2, <1>7 DEF ModulesOK
<1> QED
  BY <1>1, <1>6, <1>8 DEF ModulesOK

\* Every step keeps the list as it should be, and only the last one makes the payload.
LEMMA PayNext == PayInv /\ [Next]_vars => PayInv'
<1> SUFFICES ASSUME PayInv, [Next]_vars PROVE PayInv'
  OBVIOUS
<1>0. ExecInv' /\ NeedInv' /\ ListInv /\ MemoryOK /\ ModulesOK /\ PayloadMade
  BY ExecNext, NeedNext DEF PayInv, ExecInv, NeedInv, RegionInv
<1> SUFFICES ModulesOK' /\ PayloadMade'
  BY <1>0 DEF PayInv
<1>1. CASE BeginUpdate
  <2>1. UNCHANGED <<updates, unloaded, pathAddress, moduleInfos, payload, reading>>
    BY <1>1 DEF BeginUpdate, listVars
  <2> QED
    BY <1>0, <2>1, PayloadStays DEF ModulesOK
<1>2. ASSUME NEW i \in Images, Load(i) \/ Unload(i) PROVE ModulesOK' /\ PayloadMade'
  <2>1. UNCHANGED <<pathAddress, moduleInfos, payload, reading>>
    BY <1>2 DEF Load, Unload, listVars
  <2>2. unloaded' \subseteq Images \ {Main}
    BY <1>0, <1>2 DEF ModulesOK, Load, Unload
  <2>3. updates' <= MaxUpdates
    <3>1. updates \in Nat /\ MaxUpdates \in Nat
      BY <1>0, ImageAssumption DEF ListInv, Types
    <3>2. updates < MaxUpdates /\ updates' = updates + 1
      BY <1>2 DEF Load, Unload, EndUpdate
    <3> QED
      BY <3>1, <3>2
  <2> QED
    BY <1>0, <2>1, <2>2, <2>3, PayloadStays DEF ModulesOK
<1>3. CASE ReadImageInfos \/ ReadInfoArray \/ EndConstructor
  <2>1. UNCHANGED <<updates, unloaded, pathAddress, moduleInfos, payload>>
    BY <1>3 DEF ReadImageInfos, ReadInfoArray, EndConstructor, dyldVars
  <2>2. reading # "written" /\ reading' # "written"
    BY <1>3 DEF ReadImageInfos, ReadInfoArray, EndConstructor
  <2> QED
    BY <1>0, <2>1, <2>2, PayloadStays DEF ModulesOK
<1>4. CASE AddImage
  <2>1. payload' = payload /\ reading = "images" /\ reading' = "images"
    BY <1>4 DEF AddImage
  <2> QED
    BY <1>0, <1>4, <2>1, ModulesAddImage, PayloadStays
<1>5. ASSUME NEW ip \in CallStackAddresses, AddCode(ip) PROVE ModulesOK' /\ PayloadMade'
  <2>1. payload' = payload /\ reading = "done" /\ reading' = "done"
    BY <1>5 DEF AddCode
  <2> QED
    BY <1>0, <1>5, <2>1, ModulesAddCode, PayloadStays
<1>6. CASE RegionStep \/ (\E sp \in StackPointers : AddStack(sp)) \/ UNCHANGED vars
  <2>1. UNCHANGED <<updates, unloaded, pathAddress, moduleInfos, payload, reading>>
    BY <1>6 DEF RegionStep, AddStack, vars, moduleVars, dyldVars, listVars
  <2> QED
    BY <1>0, <2>1, PayloadStays DEF ModulesOK
<1>7. CASE AddSegments
  <2>1. UNCHANGED <<updates, unloaded, pathAddress, moduleInfos, payload>>
    BY <1>7 DEF AddSegments, dyldVars
  <2>2. reading = "done" /\ reading' = "collected"
    BY <1>7 DEF AddSegments
  <2> QED
    BY <1>0, <2>1, <2>2, PayloadStays DEF ModulesOK
<1>8. CASE CreatePayload
  <2>1. UNCHANGED <<updates, unloaded, pathAddress, moduleInfos>> /\ reading' = "written"
    BY <1>8 DEF CreatePayload, dyldVars
  <2>2. payload' = IF moduleInfos = {} THEN NoPayload ELSE AllImageInfosPayload
    BY <1>8 DEF CreatePayload
  <2>3. ModulesOK'
    BY <1>0, <2>1 DEF ModulesOK
  <2>4. PayloadMade'
    BY <2>1, <2>2, PayloadOfList DEF PayloadMade, NoPayload
  <2> QED
    BY <2>3, <2>4
<1> QED
  BY <1>1, <1>2, <1>3, <1>4, <1>5, <1>6, <1>7, <1>8 DEF Next, DyldNext, LibraryNext, Finished

\* The invariant of everything that the constructor and the last steps make.
LEMMA PayInvariant == Spec => []PayInv
BY PayInit, PayNext, PTL DEF Spec
-----------------------------------------------------------------------------
(* The layout of the payload. *)

\* The parts of a payload with n entries, s segments and paths of z bytes of each.
HeaderPart == <<0, HeaderSize, "header", 0, 0>>
EntryPart(k) == <<HeaderSize + (k - 1) * EntrySize, EntrySize, "entry", k, 0>>
SegmentPart(n, s, k, j) ==
  <<HeaderSize + n * EntrySize + (SizesUpTo(s, k - 1) + j - 1) * SegmentSize,
    SegmentSize, "segment", k, j>>
PathPart(n, s, z, k) ==
  <<HeaderSize + n * EntrySize + SizesUpTo(s, n) * SegmentSize + SizesUpTo(z, k - 1),
    z[k], "path", k, 0>>

PartOf(n, s, z, p) ==
  \/ p = HeaderPart
  \/ \E k \in 1 .. n : p = EntryPart(k)
  \/ \E k \in 1 .. n : \E j \in 1 .. s[k] : p = SegmentPart(n, s, k, j)
  \/ \E k \in 1 .. n : p = PathPart(n, s, z, k)

PayloadSize(n, s, z) ==
  HeaderSize + n * EntrySize + SizesUpTo(s, n) * SegmentSize + SizesUpTo(z, n)

\* The number of elements in front of the k-th one, and with it.
LEMMA SumsBefore ==
  ASSUME NEW s \in Seq(Nat), NEW k \in 1 .. Len(s)
  PROVE  /\ SizesUpTo(s, k - 1) \in Nat /\ s[k] \in Nat /\ SizesUpTo(s, Len(s)) \in Nat
         /\ SizesUpTo(s, k - 1) + s[k] <= SizesUpTo(s, Len(s))
         /\ \A i \in 1 .. Len(s) : i < k => SizesUpTo(s, i - 1) + s[i] <= SizesUpTo(s, k - 1)
<1>1. Len(s) \in Nat /\ k \in 0 .. Len(s) /\ k - 1 \in 0 .. Len(s) /\ Len(s) \in 0 .. Len(s) /\ k <= Len(s)
  OBVIOUS
<1>2. /\ SizesUpTo(s, k - 1) \in Nat /\ s[k] \in Nat /\ SizesUpTo(s, Len(s)) \in Nat
      /\ SizesUpTo(s, k) = SizesUpTo(s, k - 1) + s[k]
  BY <1>1, Sums
<1>3. SizesUpTo(s, k) <= SizesUpTo(s, Len(s))
  BY <1>1, SumsMonotone
<1>4. ASSUME NEW i \in 1 .. Len(s), i < k PROVE SizesUpTo(s, i - 1) + s[i] <= SizesUpTo(s, k - 1)
  <2>1. SizesUpTo(s, i) = SizesUpTo(s, i - 1) + s[i]
    BY Sums
  <2>2. i \in 0 .. Len(s) /\ i <= k - 1
    BY <1>1, <1>4
  <2>3. SizesUpTo(s, i) <= SizesUpTo(s, k - 1)
    BY <1>1, <2>2, SumsMonotone
  <2> QED
    BY <2>1, <2>3
<1> QED
  BY <1>2, <1>3, <1>4

\* Each kind of part is in a range of its own, with the ranges in a row.
LEMMA PartZones ==
  ASSUME NEW n \in Nat, NEW s \in Seq(Nat), NEW z \in Seq(Nat), Len(s) = n, Len(z) = n
  PROVE  LET entries == HeaderSize
             segs    == HeaderSize + n * EntrySize
             paths   == HeaderSize + n * EntrySize + SizesUpTo(s, n) * SegmentSize
         IN  /\ entries \in Nat /\ segs \in Nat /\ paths \in Nat /\ PayloadSize(n, s, z) \in Nat
             /\ entries <= segs /\ segs <= paths /\ paths <= PayloadSize(n, s, z)
             /\ \A k \in 1 .. n : /\ EntryPart(k)[1] \in Nat /\ entries <= EntryPart(k)[1]
                                  /\ EntryPart(k)[1] + EntrySize <= segs
             /\ \A k \in 1 .. n : \A j \in 1 .. s[k] :
                  /\ SegmentPart(n, s, k, j)[1] \in Nat /\ segs <= SegmentPart(n, s, k, j)[1]
                  /\ SegmentPart(n, s, k, j)[1] + SegmentSize <= paths
             /\ \A k \in 1 .. n :
                  /\ PathPart(n, s, z, k)[1] \in Nat /\ z[k] \in Nat /\ paths <= PathPart(n, s, z, k)[1]
                  /\ PathPart(n, s, z, k)[1] + z[k] <= PayloadSize(n, s, z)
<1>1. HeaderSize = 24 /\ EntrySize = 48 /\ SegmentSize = 32
  BY DEF HeaderSize, EntrySize, SegmentSize
<1>2. PICK S, Z : S = SizesUpTo(s, n) /\ Z = SizesUpTo(z, n)
  OBVIOUS
<1>3. S \in Nat /\ Z \in Nat
  <2>1. n \in 0 .. n
    OBVIOUS
  <2> QED
    BY <1>2, <2>1, Sums
<1>4. PayloadSize(n, s, z) = 24 + n * 48 + S * 32 + Z
  BY <1>1, <1>2 DEF PayloadSize
<1>5. ASSUME NEW k \in 1 .. n
      PROVE  /\ EntryPart(k)[1] \in Nat /\ 24 <= EntryPart(k)[1]
             /\ EntryPart(k)[1] + 48 <= 24 + n * 48
  <2>1. EntryPart(k)[1] = 24 + (k - 1) * 48
    BY <1>1 DEF EntryPart
  <2> QED
    BY <2>1
<1>6. ASSUME NEW k \in 1 .. n, NEW j \in 1 .. s[k]
      PROVE  /\ SegmentPart(n, s, k, j)[1] \in Nat /\ 24 + n * 48 <= SegmentPart(n, s, k, j)[1]
             /\ SegmentPart(n, s, k, j)[1] + 32 <= 24 + n * 48 + S * 32
  <2>1. PICK a, c : a = SizesUpTo(s, k - 1) /\ c = s[k]
    OBVIOUS
  <2>2. a \in Nat /\ c \in Nat /\ a + c <= S
    BY <1>2, <2>1, SumsBefore
  <2>3. SegmentPart(n, s, k, j)[1] = 24 + n * 48 + (a + j - 1) * 32
    BY <1>1, <2>1 DEF SegmentPart
  <2>4. j \in Nat /\ j >= 1 /\ j <= c
    BY <2>1, <2>2
  <2> QED
    BY <1>3, <2>2, <2>3, <2>4
<1>7. ASSUME NEW k \in 1 .. n
      PROVE  /\ PathPart(n, s, z, k)[1] \in Nat /\ z[k] \in Nat
             /\ 24 + n * 48 + S * 32 <= PathPart(n, s, z, k)[1]
             /\ PathPart(n, s, z, k)[1] + z[k] <= 24 + n * 48 + S * 32 + Z
  <2>1. PICK a, c : a = SizesUpTo(z, k - 1) /\ c = z[k]
    OBVIOUS
  <2>2. a \in Nat /\ c \in Nat /\ a + c <= Z
    BY <1>2, <2>1, SumsBefore
  <2>3. PathPart(n, s, z, k)[1] = 24 + n * 48 + S * 32 + a
    BY <1>1, <1>2, <2>1 DEF PathPart
  <2>4. PICK d : d = 24 + n * 48 + S * 32
    OBVIOUS
  <2>5. d \in Nat /\ d + a \in Nat /\ d <= d + a /\ d + a + c <= d + Z
    BY <1>3, <2>2, <2>4
  <2> QED
    BY <2>1, <2>2, <2>3, <2>4, <2>5
<1>8. /\ 24 + n * 48 \in Nat /\ 24 + n * 48 + S * 32 \in Nat /\ 24 + n * 48 + S * 32 + Z \in Nat
      /\ 24 <= 24 + n * 48 /\ 24 + n * 48 <= 24 + n * 48 + S * 32
      /\ 24 + n * 48 + S * 32 <= 24 + n * 48 + S * 32 + Z
  BY <1>3
<1> QED
  BY <1>1, <1>2, <1>4, <1>5, <1>6, <1>7, <1>8

\* No two parts overlap: parts of different kinds are in different ranges, and of
\* one kind each begins after the ones in front of it.
LEMMA PartsApart ==
  ASSUME NEW n \in Nat, NEW s \in Seq(Nat), NEW z \in Seq(Nat), Len(s) = n, Len(z) = n,
         NEW p, NEW q, PartOf(n, s, z, p), PartOf(n, s, z, q), p # q
  PROVE  p[1] + p[2] <= q[1] \/ q[1] + q[2] <= p[1]
<1> DEFINE Header(x) == x[1] = 0 /\ x[2] = HeaderSize
           Within(x, a, b) == x[1] \in Nat /\ x[2] \in Nat /\ a <= x[1] /\ x[1] + x[2] <= b
           Entry(x) == \E k \in 1 .. n : x = EntryPart(k)
           Segm(x)  == \E k \in 1 .. n : \E j \in 1 .. s[k] : x = SegmentPart(n, s, k, j)
           Path(x)  == \E k \in 1 .. n : x = PathPart(n, s, z, k)
<1>0. HeaderSize = 24 /\ EntrySize = 48 /\ SegmentSize = 32
  BY DEF HeaderSize, EntrySize, SegmentSize
<1>1. PICK e, g, h, t : /\ e = HeaderSize /\ g = HeaderSize + n * EntrySize
                        /\ h = HeaderSize + n * EntrySize + SizesUpTo(s, n) * SegmentSize
                        /\ t = PayloadSize(n, s, z)
  OBVIOUS
<1>2. /\ e \in Nat /\ g \in Nat /\ h \in Nat /\ t \in Nat /\ e <= g /\ g <= h /\ h <= t
      /\ \A k \in 1 .. n : /\ EntryPart(k)[1] \in Nat /\ e <= EntryPart(k)[1]
                           /\ EntryPart(k)[1] + EntrySize <= g
      /\ \A k \in 1 .. n : \A j \in 1 .. s[k] :
           /\ SegmentPart(n, s, k, j)[1] \in Nat /\ g <= SegmentPart(n, s, k, j)[1]
           /\ SegmentPart(n, s, k, j)[1] + SegmentSize <= h
      /\ \A k \in 1 .. n :
           /\ PathPart(n, s, z, k)[1] \in Nat /\ z[k] \in Nat /\ h <= PathPart(n, s, z, k)[1]
           /\ PathPart(n, s, z, k)[1] + z[k] <= t
  BY <1>1, PartZones
<1>3. ASSUME NEW x, PartOf(n, s, z, x)
      PROVE  \/ x = HeaderPart /\ Within(x, 0, e)
             \/ Entry(x) /\ Within(x, e, g)
             \/ Segm(x) /\ Within(x, g, h)
             \/ Path(x) /\ Within(x, h, t)
  <2>1. CASE x = HeaderPart
    BY <1>0, <1>1, <2>1 DEF HeaderPart
  <2>2. ASSUME NEW k \in 1 .. n, x = EntryPart(k) PROVE Entry(x) /\ Within(x, e, g)
    <3>1. x[2] = EntrySize
      BY <2>2 DEF EntryPart
    <3> QED
      BY <1>0, <1>2, <2>2, <3>1
  <2>3. ASSUME NEW k \in 1 .. n, NEW j \in 1 .. s[k], x = SegmentPart(n, s, k, j)
        PROVE  Segm(x) /\ Within(x, g, h)
    <3>1. x[2] = SegmentSize
      BY <2>3 DEF SegmentPart
    <3> QED
      BY <1>0, <1>2, <2>3, <3>1
  <2>4. ASSUME NEW k \in 1 .. n, x = PathPart(n, s, z, k) PROVE Path(x) /\ Within(x, h, t)
    <3>1. x[2] = z[k]
      BY <2>4 DEF PathPart
    <3> QED
      BY <1>2, <2>4, <3>1
  <2> QED
    BY <1>3, <2>1, <2>2, <2>3, <2>4 DEF PartOf
<1>4. ASSUME Entry(p), Entry(q) PROVE p[1] + p[2] <= q[1] \/ q[1] + q[2] <= p[1]
  <2>1. PICK k \in 1 .. n : p = EntryPart(k)
    BY <1>4
  <2>2. PICK l \in 1 .. n : q = EntryPart(l)
    BY <1>4
  <2>3. k # l
    BY <2>1, <2>2
  <2>4. /\ p[1] = 24 + (k - 1) * 48 /\ p[2] = 48
        /\ q[1] = 24 + (l - 1) * 48 /\ q[2] = 48
    BY <1>0, <2>1, <2>2 DEF EntryPart
  <2> QED
    BY <2>3, <2>4
<1>5. ASSUME Path(p), Path(q) PROVE p[1] + p[2] <= q[1] \/ q[1] + q[2] <= p[1]
  <2>1. PICK k \in 1 .. n : p = PathPart(n, s, z, k)
    BY <1>5
  <2>2. PICK l \in 1 .. n : q = PathPart(n, s, z, l)
    BY <1>5
  <2>3. k < l \/ l < k
    BY <2>1, <2>2
  <2>4. PICK a, b : a = SizesUpTo(z, k - 1) /\ b = SizesUpTo(z, l - 1)
    OBVIOUS
  <2>5. /\ a \in Nat /\ b \in Nat /\ z[k] \in Nat /\ z[l] \in Nat
        /\ k < l => a + z[k] <= b
        /\ l < k => b + z[l] <= a
    BY <2>4, SumsBefore
  <2>6. p[1] = h + a /\ p[2] = z[k] /\ q[1] = h + b /\ q[2] = z[l]
    BY <1>1, <2>1, <2>2, <2>4 DEF PathPart
  <2> QED
    BY <1>2, <2>3, <2>5, <2>6
<1>6. ASSUME Segm(p), Segm(q) PROVE p[1] + p[2] <= q[1] \/ q[1] + q[2] <= p[1]
  <2>1. PICK k \in 1 .. n : \E j \in 1 .. s[k] : p = SegmentPart(n, s, k, j)
    BY <1>6
  <2>2. PICK i \in 1 .. s[k] : p = SegmentPart(n, s, k, i)
    BY <2>1
  <2>3. PICK l \in 1 .. n : \E j \in 1 .. s[l] : q = SegmentPart(n, s, l, j)
    BY <1>6
  <2>4. PICK j \in 1 .. s[l] : q = SegmentPart(n, s, l, j)
    BY <2>3
  <2>5. PICK a, b : a = SizesUpTo(s, k - 1) /\ b = SizesUpTo(s, l - 1)
    OBVIOUS
  <2>6. /\ a \in Nat /\ b \in Nat /\ s[k] \in Nat /\ s[l] \in Nat
        /\ k < l => a + s[k] <= b
        /\ l < k => b + s[l] <= a
    BY <2>5, SumsBefore
  <2>7. i \in Nat /\ 1 <= i /\ i <= s[k] /\ j \in Nat /\ 1 <= j /\ j <= s[l]
    BY <2>6
  <2>8. /\ p[1] = g + (a + i - 1) * 32 /\ p[2] = 32
        /\ q[1] = g + (b + j - 1) * 32 /\ q[2] = 32
    BY <1>0, <1>1, <2>2, <2>4, <2>5 DEF SegmentPart
  <2>9. a + i # b + j
    <3>1. CASE k = l
      <4>1. i # j /\ a = b
        BY <2>2, <2>4, <2>5, <3>1
      <4> QED
        BY <2>6, <2>7, <4>1
    <3>2. CASE k # l
      <4>1. k < l \/ l < k
        BY <3>2
      <4>2. PICK c, d : c = s[k] /\ d = s[l]
        OBVIOUS
      <4> QED
        BY <2>6, <2>7, <4>1, <4>2
    <3> QED
      BY <3>1, <3>2
  <2> QED
    BY <1>2, <2>6, <2>7, <2>8, <2>9
<1> HIDE DEF Entry, Segm, Path
<1>7. /\ p = HeaderPart \/ Entry(p) \/ Segm(p) \/ Path(p)
      /\ q = HeaderPart \/ Entry(q) \/ Segm(q) \/ Path(q)
  BY <1>3
<1> QED
  BY <1>2, <1>3, <1>4, <1>5, <1>6

\* Every byte of the payload is in a part.
LEMMA PartsFill ==
  ASSUME NEW n \in Nat, NEW s \in Seq(Nat), NEW z \in Seq(Nat), Len(s) = n, Len(z) = n,
         NEW b \in Nat, b < PayloadSize(n, s, z)
  PROVE  \E p : PartOf(n, s, z, p) /\ p[1] <= b /\ b < p[1] + p[2]
<1>0. HeaderSize = 24 /\ EntrySize = 48 /\ SegmentSize = 32
  BY DEF HeaderSize, EntrySize, SegmentSize
<1>1. PICK S, Z : S = SizesUpTo(s, n) /\ Z = SizesUpTo(z, n)
  OBVIOUS
<1>2. S \in Nat /\ Z \in Nat
  <2>1. n \in 0 .. n
    OBVIOUS
  <2> QED
    BY <1>1, <2>1, Sums
<1>3. b < 24 + n * 48 + S * 32 + Z
  BY <1>0, <1>1 DEF PayloadSize
<1>4. PICK g, h : g = 24 + n * 48 /\ h = 24 + n * 48 + S * 32
  OBVIOUS
<1>5. g \in Nat /\ h \in Nat /\ h = g + S * 32 /\ b < h + Z
  BY <1>2, <1>3, <1>4
<1>6. CASE b < 24
  <2>1. HeaderPart[1] = 0 /\ HeaderPart[2] = 24
    BY <1>0 DEF HeaderPart
  <2>2. PartOf(n, s, z, HeaderPart)
    BY DEF PartOf
  <2> QED
    BY <1>6, <2>1, <2>2
<1>7. CASE 24 <= b /\ b < g
  <2>1. PICK k \in 1 .. n : 24 + (k - 1) * 48 <= b /\ b < 24 + (k - 1) * 48 + 48
    <3>1. PICK d \in Nat : d * 48 <= b - 24 /\ b - 24 < d * 48 + 48
      <4>1. (b - 24) \div 48 \in Nat
        BY <1>7
      <4> QED
        BY <1>7, <4>1
    <3>2. PICK k \in 1 .. n : k - 1 = d
      <4>1. d + 1 \in 1 .. n /\ (d + 1) - 1 = d
        BY <1>4, <1>7, <3>1
      <4> QED
        BY <4>1
    <3>3. 24 + d * 48 <= b /\ b < 24 + d * 48 + 48
      BY <3>1
    <3> QED
      BY <3>2, <3>3
  <2>2. EntryPart(k)[1] = 24 + (k - 1) * 48 /\ EntryPart(k)[2] = 48
    BY <1>0 DEF EntryPart
  <2>3. PartOf(n, s, z, EntryPart(k))
    BY DEF PartOf
  <2> QED
    BY <2>1, <2>2, <2>3
<1>8. CASE g <= b /\ b < h
  <2>1. PICK d \in Nat : d * 32 <= b - g /\ b - g < d * 32 + 32
    <3>1. PICK c \in Nat : c = b - g
      BY <1>5, <1>8
    <3>2. c \div 32 \in Nat /\ (c \div 32) * 32 <= c /\ c < (c \div 32) * 32 + 32
      OBVIOUS
    <3> QED
      BY <3>1, <3>2
  <2>2. d < S
    BY <1>2, <1>5, <1>8, <2>1
  <2>3. PICK k \in 1 .. n : SizesUpTo(s, k - 1) <= d /\ d < SizesUpTo(s, k)
    BY <1>1, <2>2, SumsCover
  <2>4. PICK a, c : a = SizesUpTo(s, k - 1) /\ c = s[k]
    OBVIOUS
  <2>5. a \in Nat /\ c \in Nat /\ a <= d /\ d < a + c
    BY <2>3, <2>4, Sums, SumsBefore
  <2>6. PICK j \in 1 .. c : a + j - 1 = d
    <3>1. d - a + 1 \in 1 .. c /\ a + (d - a + 1) - 1 = d
      BY <2>5
    <3> QED
      BY <3>1
  <2>7. SegmentPart(n, s, k, j)[1] = g + d * 32 /\ SegmentPart(n, s, k, j)[2] = 32
    BY <1>0, <1>4, <2>4, <2>6 DEF SegmentPart
  <2>8. g + d * 32 <= b /\ b < g + d * 32 + 32
    BY <1>5, <2>1
  <2>9. PartOf(n, s, z, SegmentPart(n, s, k, j))
    BY <2>4, <2>6 DEF PartOf
  <2> QED
    BY <2>7, <2>8, <2>9
<1>9. CASE h <= b
  <2>1. PICK d \in Nat : d = b - h /\ d < Z
    BY <1>2, <1>5, <1>9
  <2>2. PICK k \in 1 .. n : SizesUpTo(z, k - 1) <= d /\ d < SizesUpTo(z, k)
    BY <1>1, <2>1, SumsCover
  <2>3. PICK a, c : a = SizesUpTo(z, k - 1) /\ c = z[k]
    OBVIOUS
  <2>4. a \in Nat /\ c \in Nat /\ a <= d /\ d < a + c
    BY <2>2, <2>3, Sums, SumsBefore
  <2>5. PathPart(n, s, z, k)[1] = h + a /\ PathPart(n, s, z, k)[2] = c
    BY <1>0, <1>1, <1>4, <2>3 DEF PathPart
  <2>6. h + a <= b /\ b < h + a + c
    BY <1>5, <2>1, <2>4
  <2>7. PartOf(n, s, z, PathPart(n, s, z, k))
    BY DEF PartOf
  <2> QED
    BY <2>5, <2>6, <2>7
<1> QED
  BY <1>5, <1>6, <1>7, <1>8, <1>9

\* The modules have numbers of segments, and one module per image.
LEMMA ModuleFacts ==
  ASSUME PayInv
  PROVE  /\ \A m \in moduleInfos : /\ m.image \in AllImages /\ m.loadAddress = LoadAddress[m.image]
                                   /\ m.loadAddress \in Nat /\ m.pathLength \in Nat
                                   /\ m.segments = SegmentsOf(m.image)
                                   /\ Len(m.segments) \in Nat
         /\ \A m, n \in moduleInfos : m.loadAddress = n.loadAddress => m = n
         /\ \A m, n \in moduleInfos : m.image = n.image => m = n
<1>1. ASSUME NEW m \in moduleInfos
      PROVE  /\ m.image \in AllImages /\ m.loadAddress = LoadAddress[m.image]
             /\ m.loadAddress \in Nat /\ m.pathLength \in Nat
             /\ m.segments = SegmentsOf(m.image) /\ Len(m.segments) \in Nat
  <2>1. /\ m.image \in AllImages
        /\ m = [image |-> m.image, loadAddress |-> LoadAddress[m.image], pathLength |-> m.pathLength,
                segments |-> SegmentsOf(m.image), executing |-> m.executing]
    BY DEF PayInv, ExecInv, ListInv, ListOK, IsModule
  <2>2. m.loadAddress = LoadAddress[m.image] /\ m.segments = SegmentsOf(m.image)
    BY <2>1
  <2>3. LoadAddress[m.image] \in Nat /\ Commands[m.image] \in Seq([name : STRING, vmaddr : Nat, size : Nat])
    BY <2>1, ImageAssumption
  <2>4. Len(SegmentsOf(m.image)) \in Nat
    <3>1. Len(Commands[m.image]) \in Nat /\ DOMAIN Commands[m.image] = 1 .. Len(Commands[m.image])
      BY <2>3
    <3>2. DOMAIN SegmentsOf(m.image) = 1 .. Len(Commands[m.image])
      BY <3>1 DEF SegmentsOf
    <3> QED
      BY <3>1, <3>2
  <2>5. m.pathLength \in Nat
    BY DEF PayInv, ModulesOK
  <2> QED
    BY <2>1, <2>2, <2>3, <2>4, <2>5
<1>2. \A m, n \in moduleInfos : m.loadAddress = n.loadAddress => m = n
  BY DEF PayInv, ExecInv, ExecOK
<1> QED
  BY <1>1, <1>2

\* The main executable is in a list that is not empty, and every other module
\* has a place in the payload.
LEMMA ModulesInPayload ==
  ASSUME PayInv, reading = "written", moduleInfos # {}
  PROVE  /\ \E m \in moduleInfos : m.image = Main
         /\ nModules \in Nat
         /\ InPayload \in [1 .. nModules -> {m \in moduleInfos : m.image # Main}]
         /\ \A m \in moduleInfos : m.image # Main => \E k \in 1 .. nModules : InPayload[k] = m
<1>1. PICK main \in moduleInfos : main.image = Main
  <2>1. ListInv /\ Main \notin unloaded /\ Main \in InitiallyLoaded
    BY ImageAssumption DEF PayInv, ExecInv, ModulesOK
  <2>2. Constructed /\ toAdd = <<>>
    BY <2>1 DEF Constructed, ListInv, ListOK
  <2>3. Main \in {m.image : m \in moduleInfos} \cup ToSet(toAdd)
    BY <2>1 DEF ListInv, ListOK, Lasting
  <2>4. ToSet(toAdd) = {}
    BY <2>2 DEF ToSet
  <2> QED
    BY <2>3, <2>4
<1> DEFINE S == {m \in moduleInfos : ~IsMainExecutable(m)}
<1>2. S = moduleInfos \ {main}
  BY <1>1, ModuleFacts DEF IsMainExecutable
<1>3. S = {m \in moduleInfos : m.image # Main}
  BY DEF IsMainExecutable
<1>4. IsFiniteSet(moduleInfos)
  BY DEF PayInv, ModulesOK
<1>5. IsFiniteSet(S) /\ Cardinality(S) = nModules
  BY <1>1, <1>2, <1>4, FS_RemoveElement DEF nModules
<1>6. /\ \A m \in S : m.loadAddress \in Nat
      /\ \A m, n \in S : m.loadAddress = n.loadAddress => m = n
  BY ModuleFacts
<1>7. InPayload = InOrder(S)
  BY DEF InPayload
<1> HIDE DEF S
<1>8. nModules \in Nat
  BY <1>5, FS_CardinalityType
<1>9. /\ InOrder(S) \in [1 .. nModules -> S]
      /\ \A x \in S : \E k \in 1 .. nModules : InOrder(S)[k] = x
  BY <1>5, <1>6, InOrderIsOrder
<1> QED
  BY <1>1, <1>3, <1>7, <1>8, <1>9

\* What is written where, in the terms of the layout, for s and z segments and
\* bytes of path of the modules.
LaidOut(n, s, z) ==
  /\ n \in Nat /\ Len(s) = n /\ Len(z) = n
  /\ payload.size = PayloadSize(n, s, z)
  /\ Len(payload.entries) = n /\ DOMAIN payload.entries = 1 .. n
  /\ DOMAIN payload.segments = 1 .. n /\ DOMAIN payload.paths = 1 .. n
  /\ \A k \in 1 .. n :
       /\ DOMAIN payload.segments[k] = 1 .. s[k]
       /\ s[k] = Len(InPayload[k].segments) /\ z[k] = InPayload[k].pathLength + 1
       /\ payload.entries[k].at = EntryPart(k)[1]
       /\ payload.entries[k].module = InPayload[k].image
       /\ payload.entries[k].segment_count = s[k]
       /\ payload.paths[k].at = PathPart(n, s, z, k)[1] /\ payload.paths[k].size = z[k]
       /\ payload.entries[k].filepath_offset = PayloadOffset + payload.paths[k].at
       /\ \A j \in 1 .. s[k] :
            /\ payload.segments[k][j].at = SegmentPart(n, s, k, j)[1]
            /\ payload.segments[k][j].vmaddr = InPayload[k].segments[j].vmaddr
            /\ payload.segments[k][j].at =
                 payload.entries[k].seg_addrs_offset - PayloadOffset + (j - 1) * SegmentSize

\* The code computes its positions backwards from the end, and still gets these.
LEMMA PayloadIs ==
  ASSUME PayInv, reading = "written", moduleInfos # {}
  PROVE  \E s, z \in Seq(Nat) : LaidOut(nModules, s, z)
<1>0. HeaderSize = 24 /\ EntrySize = 48 /\ SegmentSize = 32 /\ PayloadOffset \in Nat
  BY ImageAssumption DEF HeaderSize, EntrySize, SegmentSize
<1> DEFINE mods == InPayload
           n == nModules
           s == [k \in DOMAIN mods |-> Len(mods[k].segments)]
           z == [k \in DOMAIN mods |-> mods[k].pathLength + 1]
           S == SizesUpTo(s, Len(mods))
           Z == SizesUpTo(z, Len(mods))
           size == HeaderSize + n * EntrySize + S * SegmentSize + Z
<1>1. payload =
         [size |-> size,
          entries |-> [k \in DOMAIN mods |->
             [at |-> HeaderSize + (k - 1) * EntrySize, module |-> mods[k].image,
              filepath_offset |-> (PayloadOffset + size - Z) + SizesUpTo(z, k - 1),
              seg_addrs_offset |-> ((PayloadOffset + size - Z) - S * SegmentSize)
                                     + SizesUpTo(s, k - 1) * SegmentSize,
              segment_count |-> s[k], executing |-> mods[k].executing]],
          segments |-> [k \in DOMAIN mods |-> [j \in 1 .. s[k] |->
             [at |-> HeaderSize + n * EntrySize + (SizesUpTo(s, k - 1) + j - 1) * SegmentSize,
              vmaddr |-> mods[k].segments[j].vmaddr]]],
          paths |-> [k \in DOMAIN mods |->
             [at |-> size - Z + SizesUpTo(z, k - 1), size |-> z[k]]]]
  <2>1. payload = AllImageInfosPayload
    BY DEF PayInv, PayloadMade
  <2> QED
    BY <2>1, Zenon DEF AllImageInfosPayload
<1>2. n \in Nat /\ mods \in [1 .. n -> moduleInfos]
  BY ModulesInPayload
<1>3. /\ \A k \in DOMAIN mods : s[k] = Len(mods[k].segments) /\ z[k] = mods[k].pathLength + 1
      /\ DOMAIN s = DOMAIN mods /\ DOMAIN z = DOMAIN mods
  OBVIOUS
<1>4. \A k \in 1 .. n : Len(mods[k].segments) \in Nat /\ mods[k].pathLength + 1 \in Nat
  BY <1>2, ModuleFacts
<1> HIDE DEF mods, n
<1>5. DOMAIN mods = 1 .. n /\ Len(mods) = n
  BY <1>2
<1>6. s \in [1 .. n -> Nat] /\ z \in [1 .. n -> Nat]
  BY <1>4, <1>5
<1> HIDE DEF s, z
<1>7. s \in Seq(Nat) /\ z \in Seq(Nat) /\ Len(s) = n /\ Len(z) = n
  BY <1>2, <1>6
<1>8. S = SizesUpTo(s, n) /\ Z = SizesUpTo(z, n)
  BY <1>5
<1>9. size = 24 + n * 48 + S * 32 + Z
  BY <1>0
<1> HIDE DEF S, Z, size
<1>10. S \in Nat /\ Z \in Nat
  <2>1. n \in 0 .. n
    BY <1>2
  <2> QED
    BY <1>7, <1>8, <2>1, Sums
<1>11. size = PayloadSize(n, s, z) /\ payload.size = size
  BY <1>0, <1>1, <1>8, <1>9 DEF PayloadSize
<1>12. /\ Len(payload.entries) = n /\ DOMAIN payload.entries = 1 .. n
       /\ DOMAIN payload.segments = 1 .. n /\ DOMAIN payload.paths = 1 .. n
  BY <1>1, <1>2, <1>5
<1>13. ASSUME NEW k \in 1 .. n
       PROVE  /\ DOMAIN payload.segments[k] = 1 .. s[k]
              /\ s[k] = Len(mods[k].segments) /\ z[k] = mods[k].pathLength + 1
              /\ payload.entries[k].at = EntryPart(k)[1]
              /\ payload.entries[k].module = mods[k].image
              /\ payload.entries[k].segment_count = s[k]
              /\ payload.paths[k].at = PathPart(n, s, z, k)[1] /\ payload.paths[k].size = z[k]
              /\ payload.entries[k].filepath_offset = PayloadOffset + payload.paths[k].at
              /\ \A j \in 1 .. s[k] :
                   /\ payload.segments[k][j].at = SegmentPart(n, s, k, j)[1]
                   /\ payload.segments[k][j].vmaddr = mods[k].segments[j].vmaddr
                   /\ payload.segments[k][j].at =
                        payload.entries[k].seg_addrs_offset - PayloadOffset + (j - 1) * SegmentSize
  <2>1. PICK a, b : a = SizesUpTo(s, k - 1) /\ b = SizesUpTo(z, k - 1)
    OBVIOUS
  <2>2. a \in Nat /\ b \in Nat /\ PayloadOffset \in Nat
    BY <1>0, <1>7, <2>1, SumsBefore
  <2>3. /\ payload.entries[k].at = 24 + (k - 1) * 48
        /\ payload.entries[k].module = mods[k].image
        /\ payload.entries[k].segment_count = s[k]
        /\ payload.entries[k].filepath_offset = (PayloadOffset + size - Z) + b
        /\ payload.entries[k].seg_addrs_offset = ((PayloadOffset + size - Z) - S * 32) + a * 32
    BY <1>0, <1>1, <1>5, <2>1
  <2>4. payload.paths[k].at = size - Z + b /\ payload.paths[k].size = z[k]
    BY <1>1, <1>5, <2>1
  <2>5. /\ DOMAIN payload.segments[k] = 1 .. s[k]
        /\ \A j \in 1 .. s[k] : /\ payload.segments[k][j].at = 24 + n * 48 + (a + j - 1) * 32
                                /\ payload.segments[k][j].vmaddr = mods[k].segments[j].vmaddr
    BY <1>0, <1>1, <1>5, <2>1
  <2>6. s[k] = Len(mods[k].segments) /\ z[k] = mods[k].pathLength + 1 /\ s[k] \in Nat
    BY <1>3, <1>4, <1>5
  <2>7. EntryPart(k)[1] = 24 + (k - 1) * 48
    BY <1>0 DEF EntryPart
  <2>8. PathPart(n, s, z, k)[1] = 24 + n * 48 + S * 32 + b
    BY <1>0, <1>8, <2>1 DEF PathPart
  <2>9. size - Z + b = 24 + n * 48 + S * 32 + b /\ (PayloadOffset + size - Z) + b = PayloadOffset + (size - Z + b)
    BY <1>2, <1>9, <1>10, <2>2
  <2>10. ASSUME NEW j \in 1 .. s[k]
         PROVE  /\ payload.segments[k][j].at = SegmentPart(n, s, k, j)[1]
                /\ payload.segments[k][j].vmaddr = mods[k].segments[j].vmaddr
                /\ payload.segments[k][j].at =
                     payload.entries[k].seg_addrs_offset - PayloadOffset + (j - 1) * SegmentSize
    <3>1. SegmentPart(n, s, k, j)[1] = 24 + n * 48 + (a + j - 1) * 32
      BY <1>0, <2>1 DEF SegmentPart
    <3>2. j \in Nat
      BY <2>6
    <3>3. 24 + n * 48 + (a + j - 1) * 32
            = (((PayloadOffset + size - Z) - S * 32) + a * 32) - PayloadOffset + (j - 1) * 32
      BY <1>2, <1>9, <1>10, <2>2, <3>2
    <3> QED
      BY <1>0, <2>3, <2>5, <3>1, <3>3
  <2> QED
    BY <2>3, <2>4, <2>5, <2>6, <2>7, <2>8, <2>9, <2>10
<1>14. LaidOut(n, s, z)
  BY <1>2, <1>7, <1>11, <1>12, <1>13 DEF LaidOut, mods
<1> QED
  BY <1>7, <1>14 DEF n

\* The parts of the payload are those of the layout.
LEMMA PartsAre ==
  ASSUME NEW s \in Seq(Nat), NEW z \in Seq(Nat), NEW n, LaidOut(n, s, z), NEW p
  PROVE  p \in Parts <=> PartOf(n, s, z, p)
<1>1. HeaderPart = <<0, HeaderSize, "header", 0, 0>>
  BY DEF HeaderPart
<1>2. ASSUME NEW k \in 1 .. n
      PROVE  /\ <<payload.entries[k].at, EntrySize, "entry", k, 0>> = EntryPart(k)
             /\ <<payload.paths[k].at, payload.paths[k].size, "path", k, 0>> = PathPart(n, s, z, k)
             /\ \A j \in 1 .. s[k] :
                  <<payload.segments[k][j].at, SegmentSize, "segment", k, j>> = SegmentPart(n, s, k, j)
  BY DEF LaidOut, EntryPart, PathPart, SegmentPart
<1>3. /\ DOMAIN payload.entries = 1 .. n
      /\ DOMAIN payload.segments = 1 .. n /\ DOMAIN payload.paths = 1 .. n
      /\ \A k \in 1 .. n : DOMAIN payload.segments[k] = 1 .. s[k]
  BY DEF LaidOut
<1>4. (\E k \in DOMAIN payload.entries : p = <<payload.entries[k].at, EntrySize, "entry", k, 0>>)
        <=> \E k \in 1 .. n : p = EntryPart(k)
  BY <1>2, <1>3
<1>5. (\E k \in DOMAIN payload.segments : \E j \in DOMAIN payload.segments[k] :
         p = <<payload.segments[k][j].at, SegmentSize, "segment", k, j>>)
        <=> \E k \in 1 .. n : \E j \in 1 .. s[k] : p = SegmentPart(n, s, k, j)
  BY <1>2, <1>3
<1>6. (\E k \in DOMAIN payload.paths :
         p = <<payload.paths[k].at, payload.paths[k].size, "path", k, 0>>)
        <=> \E k \in 1 .. n : p = PathPart(n, s, z, k)
  BY <1>2, <1>3
<1>7. p \in Parts <=>
        \/ p = <<0, HeaderSize, "header", 0, 0>>
        \/ \E k \in DOMAIN payload.entries : p = <<payload.entries[k].at, EntrySize, "entry", k, 0>>
        \/ \E k \in DOMAIN payload.segments : \E j \in DOMAIN payload.segments[k] :
             p = <<payload.segments[k][j].at, SegmentSize, "segment", k, j>>
        \/ \E k \in DOMAIN payload.paths :
             p = <<payload.paths[k].at, payload.paths[k].size, "path", k, 0>>
  BY DEF Parts
<1> QED
  BY <1>1, <1>4, <1>5, <1>6, <1>7 DEF PartOf

\* Every part ends within the payload.
LEMMA PartsInside ==
  ASSUME NEW n \in Nat, NEW s \in Seq(Nat), NEW z \in Seq(Nat), Len(s) = n, Len(z) = n,
         NEW p, PartOf(n, s, z, p)
  PROVE  p[1] + p[2] <= PayloadSize(n, s, z)
<1>0. HeaderSize = 24 /\ EntrySize = 48 /\ SegmentSize = 32
  BY DEF HeaderSize, EntrySize, SegmentSize
<1>1. PICK g, h, t : /\ g = HeaderSize + n * EntrySize
                     /\ h = HeaderSize + n * EntrySize + SizesUpTo(s, n) * SegmentSize
                     /\ t = PayloadSize(n, s, z)
  OBVIOUS
<1>2. /\ g \in Nat /\ h \in Nat /\ t \in Nat /\ HeaderSize <= g /\ g <= h /\ h <= t
      /\ \A k \in 1 .. n : EntryPart(k)[1] \in Nat /\ EntryPart(k)[1] + EntrySize <= g
      /\ \A k \in 1 .. n : \A j \in 1 .. s[k] :
           SegmentPart(n, s, k, j)[1] \in Nat /\ SegmentPart(n, s, k, j)[1] + SegmentSize <= h
      /\ \A k \in 1 .. n : PathPart(n, s, z, k)[1] + z[k] <= t
  BY <1>1, PartZones
<1>3. CASE p = HeaderPart
  <2>1. p[1] = 0 /\ p[2] = HeaderSize
    BY <1>3 DEF HeaderPart
  <2> QED
    BY <1>0, <1>1, <1>2, <2>1
<1>4. ASSUME NEW k \in 1 .. n, p = EntryPart(k) PROVE p[1] + p[2] <= PayloadSize(n, s, z)
  <2>1. p[2] = EntrySize
    BY <1>4 DEF EntryPart
  <2> QED
    BY <1>0, <1>1, <1>2, <1>4, <2>1
<1>5. ASSUME NEW k \in 1 .. n, NEW j \in 1 .. s[k], p = SegmentPart(n, s, k, j)
      PROVE  p[1] + p[2] <= PayloadSize(n, s, z)
  <2>1. p[2] = SegmentSize
    BY <1>5 DEF SegmentPart
  <2> QED
    BY <1>0, <1>1, <1>2, <1>5, <2>1
<1>6. ASSUME NEW k \in 1 .. n, p = PathPart(n, s, z, k) PROVE p[1] + p[2] <= PayloadSize(n, s, z)
  <2>1. p[2] = z[k]
    BY <1>6 DEF PathPart
  <2> QED
    BY <1>1, <1>2, <1>6, <2>1
<1> QED
  BY <1>3, <1>4, <1>5, <1>6 DEF PartOf

\* The slide of the main executable is the one its loader gave it.
LEMMA MainSlide ==
  ASSUME PayInv, NEW main \in moduleInfos, main.image = Main
  PROVE  MainBinSpecSlides = {Slide(Main)}
<1>1. \A m \in moduleInfos : IsMainExecutable(m) <=> m = main
  BY ModuleFacts DEF IsMainExecutable
<1>2. {n \in moduleInfos : IsMainExecutable(n)} = {main}
  BY <1>1
<1>3. main.loadAddress - GetPreferredTextAddress(main) = Slide(Main)
  BY ModuleFacts DEF GetPreferredTextAddress, Slide
<1> QED
  BY <1>2, <1>3 DEF MainBinSpecSlides

\* A payload that is made of a complete list is sound.
LEMMA PayInvGivesSound == PayInv => PayloadSound
<1> SUFFICES ASSUME PayInv, reading = "written", moduleInfos # {} PROVE PayloadSound
  BY DEF PayloadSound
<1>1. PICK n, mods : n = nModules /\ mods = InPayload
  OBVIOUS
<1>2. PICK s, z \in Seq(Nat) : LaidOut(n, s, z)
  BY <1>1, PayloadIs
<1>3. PICK main \in moduleInfos : main.image = Main
  BY ModulesInPayload
<1>4. /\ mods \in [1 .. n -> {m \in moduleInfos : m.image # Main}]
      /\ \A m \in moduleInfos : m.image # Main => \E k \in 1 .. n : mods[k] = m
  BY <1>1, ModulesInPayload
<1>5. /\ n \in Nat /\ Len(s) = n /\ Len(z) = n /\ payload.size = PayloadSize(n, s, z)
      /\ Len(payload.entries) = n /\ DOMAIN payload.entries = 1 .. n
  BY <1>2 DEF LaidOut
<1>6. \A p \in Parts : PartOf(n, s, z, p)
  BY <1>2, PartsAre
<1>7. \A p, q \in Parts : p # q => p[1] + p[2] <= q[1] \/ q[1] + q[2] <= p[1]
  BY <1>5, <1>6, PartsApart
<1>8. \A p \in Parts : p[1] + p[2] <= payload.size
  BY <1>5, <1>6, PartsInside
<1>9. ASSUME NEW b \in 0 .. payload.size - 1 PROVE \E p \in Parts : p[1] <= b /\ b < p[1] + p[2]
  <2>1. PICK t \in Nat : t = PayloadSize(n, s, z)
    BY <1>5, PartZones
  <2>2. b \in Nat /\ b < PayloadSize(n, s, z)
    BY <1>5, <1>9, <2>1
  <2>3. PICK p : PartOf(n, s, z, p) /\ p[1] <= b /\ b < p[1] + p[2]
    BY <1>5, <2>2, PartsFill
  <2> QED
    BY <1>2, <2>3, PartsAre
<1>10. {e.module : e \in ToSet(payload.entries)} = {m.image : m \in moduleInfos} \ {Main}
  <2>1. ToSet(payload.entries) = {payload.entries[k] : k \in 1 .. n}
    BY <1>5 DEF ToSet
  <2>2. \A k \in 1 .. n : payload.entries[k].module = mods[k].image
    BY <1>1, <1>2 DEF LaidOut
  <2>3. {e.module : e \in ToSet(payload.entries)} = {mods[k].image : k \in 1 .. n}
    BY <2>1, <2>2
  <2>4. {mods[k].image : k \in 1 .. n} = {m.image : m \in moduleInfos} \ {Main}
    BY <1>4
  <2> QED
    BY <2>3, <2>4
<1>11. ASSUME NEW k \in DOMAIN payload.entries
       PROVE  LET e == payload.entries[k]
                  m == CHOOSE m \in moduleInfos : m.image = e.module
              IN  /\ e.filepath_offset = PayloadOffset + payload.paths[k].at
                  /\ payload.paths[k].size = m.pathLength + 1
                  /\ e.segment_count = Len(m.segments)
                  /\ \A j \in 1 .. e.segment_count :
                       /\ payload.segments[k][j].at =
                            e.seg_addrs_offset - PayloadOffset + (j - 1) * SegmentSize
                       /\ payload.segments[k][j].vmaddr = m.segments[j].vmaddr
  <2>1. k \in 1 .. n /\ mods[k] \in moduleInfos
    BY <1>4, <1>5
  <2>2. /\ s[k] = Len(mods[k].segments) /\ z[k] = mods[k].pathLength + 1
        /\ payload.entries[k].module = mods[k].image
        /\ payload.entries[k].segment_count = s[k] /\ payload.paths[k].size = z[k]
        /\ payload.entries[k].filepath_offset = PayloadOffset + payload.paths[k].at
        /\ \A j \in 1 .. s[k] :
             /\ payload.segments[k][j].vmaddr = mods[k].segments[j].vmaddr
             /\ payload.segments[k][j].at =
                  payload.entries[k].seg_addrs_offset - PayloadOffset + (j - 1) * SegmentSize
    BY <1>1, <1>2, <2>1 DEF LaidOut
  <2>3. mods[k] = CHOOSE m \in moduleInfos : m.image = payload.entries[k].module
    <3>1. \A m \in moduleInfos : m.image = payload.entries[k].module <=> m = mods[k]
      BY <2>1, <2>2, ModuleFacts
    <3> QED
      BY <2>1, <3>1
  <2> QED
    BY <2>2, <2>3
<1>12. MainBinSpecSlides = {Slide(Main)}
  BY <1>3, MainSlide
<1> QED
  BY <1>1, <1>5, <1>7, <1>8, <1>9, <1>10, <1>11, <1>12 DEF PayloadSound

\* The payload of the image list fills its vector without overlaps, has an entry
\* for each module but the main executable, and the offsets in an entry are those
\* of what belongs to it, for every list of modules.
THEOREM PayloadIsSound == Spec => []PayloadSound
BY PayInvariant, PayInvGivesSound, PTL
-----------------------------------------------------------------------------
(* The types. *)

\* Slid segments have addresses.
LEMMA SlidAddress ==
  ASSUME NEW i \in AllImages, NEW k \in DOMAIN SegmentsOf(i)
  PROVE  SegmentsOf(i)[k].vmaddr \in Nat
<1>1. k \in DOMAIN Commands[i]
  BY DEF SegmentsOf
<1>2. PICK c \in [name : STRING, vmaddr : Nat, size : Nat] : c = Commands[i][k]
  BY <1>1, SegmentCommand
<1>3. PICK d : d = Slide(i)
  OBVIOUS
<1>4. c.name # "__PAGEZERO" => c.vmaddr + d \in Nat
  BY <1>1, <1>2, <1>3, SegmentAssumption DEF Slide
<1>5. SegmentsOf(i)[k] = IF c.name = "__PAGEZERO" THEN c ELSE [c EXCEPT !.vmaddr = @ + d]
  BY <1>1, <1>2, <1>3 DEF SegmentsOf
<1>6. [c EXCEPT !.vmaddr = @ + d].vmaddr = c.vmaddr + d
  OBVIOUS
<1> QED
  BY <1>4, <1>5, <1>6

\* The invariants give every variable its type.
LEMMA PayInvGivesTypes == PayInv => TypeOK
<1> SUFFICES ASSUME PayInv PROVE TypeOK
  OBVIOUS
<1>1. /\ infoArray \in Seq(Images) /\ toAdd \in Seq(AllImages)
      /\ count \in 0 .. Len(infoArray) /\ updates \in Nat
      /\ reading \in {"infos", "array", "images", "done", "collected", "written"}
  BY DEF PayInv, ExecInv, ListInv, Types
<1>2. ToSet(infoArray) \subseteq Images /\ ToSet(toAdd) \subseteq AllImages
  BY <1>1 DEF ToSet
<1>3. updates \in 0 .. MaxUpdates /\ unloaded \subseteq Images \ {Main}
  BY <1>1, ImageAssumption DEF PayInv, ModulesOK
<1>4. ASSUME NEW m \in moduleInfos PROVE ModuleInfoOK(m)
  <2>1. /\ m.image \in AllImages /\ m.loadAddress = LoadAddress[m.image]
        /\ m.pathLength \in Nat /\ m.segments = SegmentsOf(m.image)
    BY ModuleFacts
  <2>2. m.loadAddress \in Addresses
    <3>1. /\ LoadAddress[m.image] \in Nat /\ PageSize \in Nat /\ PageSize >= 1 /\ AddrLimit \in Nat
          /\ LoadAddress[m.image] + PageSize <= AddrLimit
      BY <2>1, ImageAssumption, MemoryAssumption
    <3> QED
      BY <2>1, <3>1 DEF Addresses
  <2>3. m.executing \in BOOLEAN
    BY DEF PayInv, ExecInv, ExecOK
  <2>4. \A k \in DOMAIN m.segments : m.segments[k].vmaddr \in Nat
    BY <2>1, SlidAddress
  <2> QED
    BY <2>1, <2>2, <2>3, <2>4 DEF ModuleInfoOK
<1>5. \A m, n \in moduleInfos : m.loadAddress = n.loadAddress => m = n
  BY ModuleFacts
<1>6. /\ marked \subseteq CallStackAddresses /\ stackPointer \in StackPointers \cup {NoPointer}
      /\ memoryRangesToAdd \subseteq Nat
  BY DEF PayInv, NeedInv
<1>7. payload.size \in Nat
  <2>1. CASE reading = "written" /\ moduleInfos # {}
    <3>1. PICK n : n = nModules
      OBVIOUS
    <3>2. PICK s, z \in Seq(Nat) : LaidOut(n, s, z)
      BY <2>1, <3>1, PayloadIs
    <3>3. n \in Nat /\ Len(s) = n /\ Len(z) = n /\ payload.size = PayloadSize(n, s, z)
      BY <3>2 DEF LaidOut
    <3> QED
      BY <3>3, PartZones
  <2>2. CASE ~(reading = "written" /\ moduleInfos # {})
    <3>1. payload = NoPayload
      BY <2>2 DEF PayInv, PayloadMade
    <3> QED
      BY <3>1 DEF NoPayload
  <2> QED
    BY <2>1, <2>2
<1> QED
  BY <1>1, <1>2, <1>3, <1>4, <1>5, <1>6, <1>7 DEF TypeOK

\* The variables of the module list have their types, whatever dyld does to its
\* list in the meantime.
THEOREM ListTypeCorrect == Spec => []TypeOK
BY PayInvariant, PayInvGivesTypes, PTL
=============================================================================
