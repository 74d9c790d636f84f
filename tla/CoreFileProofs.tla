--------------------------- MODULE CoreFileProofs ---------------------------
(***************************************************************************)
(* For all sizes, and any number of threads and segments: the offsets that *)
(* the core file holds are those its parts are written at, and no part     *)
(* overwrites another one.                                                 *)
(***************************************************************************)
EXTENDS CoreFile, SumsProofs, SequenceTheorems

NoteType == [owner : {NoteOwners[j] : j \in DOMAIN NoteOwners}, size : Nat, offset : Nat]

SegmentType == [vmaddr : Nat, filesize : Nat \ {0}, fileoff : Nat]

BuilderTyped ==
  /\ m_loadCommandsFinalized \in BOOLEAN
  /\ m_header \in [ncmds : Nat, sizeofcmds : Nat]
  /\ m_note_cmds \in Seq(NoteType)
  /\ m_thread_cmds \in 0 .. MaxThreads
  /\ m_segment_cmds \in Seq(SegmentType)
  /\ imageInfosPayloadOffset \in Nat

LoopTyped == stage \in Stages /\ idx \in Nat \ {0} /\ off \in Nat

StreamTyped ==
  /\ pos \in Nat /\ shortWrites \in 0 .. MaxShortWrites
  /\ \A p \in file : p.at \in Nat /\ p.len \in Nat

Collecting == {"threads", "segments"}

\* The stages in which the number of commands is known, but not put down.
Unfinalized == {"addrable bits", "metadata", "finalize"}

\* The stages between FinalizeLoadCommands and Build.
Prepared == {"image infos", "main bin spec", "offsets", "header"}

\* The owners of the notes.
NotesAdded ==
  /\ Len(m_note_cmds) = 4
  /\ \A i \in 1 .. 4 : m_note_cmds[i].owner = NoteOwners[i]

\* In a segment, whole chunks have been written; the rest fits in.
ChunksOK ==
  LET size == m_segment_cmds[idx].filesize
  IN  /\ \E k \in Nat : off = k * ChunkSize(size)
      /\ off <= size
      /\ stage = "rest" => off + LeftOver(size) <= size

\* Where the loops of Build are.
LoopOK ==
  /\ stage \in {"note commands", "note payloads"} => idx <= 4
  /\ stage = "thread commands" => idx = 1 \/ idx <= m_thread_cmds
  /\ stage \in {"segment commands", "segment payloads"} => idx = 1 \/ idx <= Len(m_segment_cmds)
  /\ stage \in {"chunks", "rest"} => idx <= Len(m_segment_cmds) /\ ChunksOK

\* What the builder has at each stage.
Shape ==
  /\ stage \in Collecting => m_note_cmds = <<>>
  /\ stage \notin Collecting => NotesAdded
  /\ stage \in Collecting \cup Unfinalized => ~m_loadCommandsFinalized
  /\ stage \notin Collecting \cup Unfinalized \cup {"failed"} =>
       m_loadCommandsFinalized /\ m_header = CommandTotals
  /\ stage \in Collecting \cup Unfinalized \cup Prepared => idx = 1 /\ file = {} /\ pos = 0

ShapeInv == BuilderTyped /\ LoopTyped /\ StreamTyped /\ Shape /\ LoopOK
-----------------------------------------------------------------------------
(* Sizes and offsets. *)

\* Rounding up does not make a number smaller.
LEMMA RoundUpBound ==
  ASSUME NEW n \in Nat, NEW k \in Nat \ {0}
  PROVE  RoundUp(n, k) \in Nat /\ n <= RoundUp(n, k)
BY DEF RoundUp

\* One more command of some size.
LEMMA OneMore ==
  ASSUME NEW a \in Nat, NEW c \in Nat
  PROVE  a * c \in Nat /\ (a + 1) * c = a * c + c
OBVIOUS

\* The size of what is left over behind whole chunks.
LEMMA LeftOverBound ==
  ASSUME NEW s \in Nat, NEW c \in Nat \ {0}
  PROVE  s % c \in Nat /\ s % c < c /\ s % c <= s
OBVIOUS

\* Behind the last whole chunk there is exactly what is left over.
LEMMA LastChunk ==
  ASSUME NEW s \in Nat, NEW c \in Nat \ {0}, NEW k \in Nat, k * c <= s, s < k * c + c
  PROVE  k * c + (s % c) = s
<1> DEFINE q == s \div c
<1>1. q \in Nat /\ s = q * c + (s % c) /\ s % c \in Nat /\ s % c < c
  OBVIOUS
<1>2. q * c \in Nat /\ k * c \in Nat
  BY <1>1
<1> HIDE DEF q
<1>3. ~(q < k)
  <2> SUFFICES ASSUME q + 1 <= k PROVE FALSE
    BY <1>1
  <2>1. (q + 1) * c <= k * c
    BY <1>1
  <2>2. (q + 1) * c = q * c + c
    BY <1>1
  <2> QED
    BY <1>1, <1>2, <2>1, <2>2
<1>4. ~(k < q)
  <2> SUFFICES ASSUME k + 1 <= q PROVE FALSE
    BY <1>1
  <2>1. (k + 1) * c <= q * c
    BY <1>1
  <2>2. (k + 1) * c = k * c + c
    BY <1>1
  <2> QED
    BY <1>1, <1>2, <2>1, <2>2
<1>5. q = k
  BY <1>1, <1>3, <1>4
<1> QED
  BY <1>1, <1>2, <1>5

NoteSizeOf == [j \in DOMAIN m_note_cmds |-> m_note_cmds[j].size]

SegmentSizeOf == [j \in DOMAIN m_segment_cmds |-> m_segment_cmds[j].filesize]

\* The lists of commands, element by element.
LEMMA CommandTypes ==
  ASSUME BuilderTyped
  PROVE  /\ Len(m_note_cmds) \in Nat /\ DOMAIN m_note_cmds = 1 .. Len(m_note_cmds)
         /\ \A i \in 1 .. Len(m_note_cmds) : m_note_cmds[i] \in NoteType /\ m_note_cmds[i].size \in Nat
         /\ Len(m_segment_cmds) \in Nat /\ DOMAIN m_segment_cmds = 1 .. Len(m_segment_cmds)
         /\ \A i \in 1 .. Len(m_segment_cmds) :
              m_segment_cmds[i] \in SegmentType /\ m_segment_cmds[i].filesize \in Nat \ {0}
         /\ NoteSizeOf \in Seq(Nat) /\ Len(NoteSizeOf) = Len(m_note_cmds)
         /\ SegmentSizeOf \in Seq(Nat) /\ Len(SegmentSizeOf) = Len(m_segment_cmds)
         /\ m_thread_cmds \in Nat /\ m_header.sizeofcmds \in Nat
<1>1. m_note_cmds \in Seq(NoteType) /\ m_segment_cmds \in Seq(SegmentType)
  BY DEF BuilderTyped
<1>2. /\ Len(m_note_cmds) \in Nat /\ DOMAIN m_note_cmds = 1 .. Len(m_note_cmds)
      /\ \A i \in 1 .. Len(m_note_cmds) : m_note_cmds[i] \in NoteType
  BY <1>1
<1>3. /\ Len(m_segment_cmds) \in Nat /\ DOMAIN m_segment_cmds = 1 .. Len(m_segment_cmds)
      /\ \A i \in 1 .. Len(m_segment_cmds) : m_segment_cmds[i] \in SegmentType
  BY <1>1
<1>4. \A i \in 1 .. Len(m_note_cmds) : m_note_cmds[i].size \in Nat
  BY <1>2 DEF NoteType
<1>5. \A i \in 1 .. Len(m_segment_cmds) : m_segment_cmds[i].filesize \in Nat \ {0}
  BY <1>3 DEF SegmentType
<1>6. NoteSizeOf \in Seq(Nat) /\ Len(NoteSizeOf) = Len(m_note_cmds)
  BY <1>2, <1>4 DEF NoteSizeOf
<1>7. SegmentSizeOf \in Seq(Nat) /\ Len(SegmentSizeOf) = Len(m_segment_cmds)
  BY <1>3, <1>5 DEF SegmentSizeOf
<1>8. m_thread_cmds \in Nat /\ m_header.sizeofcmds \in Nat
  BY BoundAssumption DEF BuilderTyped
<1> QED
  BY <1>2, <1>3, <1>4, <1>5, <1>6, <1>7, <1>8

\* Where the payloads of the notes go.
LEMMA NoteOffsets ==
  ASSUME BuilderTyped
  PROVE  /\ \A i \in 1 .. Len(m_note_cmds) + 1 : NotePayloadOffset(i) \in Nat
         /\ \A i \in 1 .. Len(m_note_cmds) :
              NotePayloadOffset(i + 1) = NotePayloadOffset(i) + m_note_cmds[i].size
         /\ HeaderSize + m_header.sizeofcmds <= NotePayloadOffset(1)
<1> DEFINE base == RoundUp(HeaderSize + m_header.sizeofcmds, NoteAlign)
<1>1. HeaderSize + m_header.sizeofcmds \in Nat /\ NoteAlign \in Nat \ {0}
  BY CommandTypes, SizeAssumption
<1>2. base \in Nat /\ HeaderSize + m_header.sizeofcmds <= base
  BY <1>1, RoundUpBound
<1>3. \A i : NotePayloadOffset(i) = base + SizesUpTo(NoteSizeOf, i - 1)
  BY DEF NotePayloadOffset, NoteSizes, NoteSizeOf
<1> HIDE DEF base
<1> DEFINE n == Len(m_note_cmds)
<1>4. n \in Nat /\ NoteSizeOf \in Seq(Nat) /\ Len(NoteSizeOf) = n
  BY CommandTypes
<1>5. /\ SizesUpTo(NoteSizeOf, 0) = 0
      /\ \A i \in 0 .. n : SizesUpTo(NoteSizeOf, i) \in Nat
      /\ \A i \in 1 .. n : SizesUpTo(NoteSizeOf, i) = SizesUpTo(NoteSizeOf, i - 1) + NoteSizeOf[i]
  BY <1>4, Sums
<1>6. \A i \in 1 .. n : NoteSizeOf[i] = m_note_cmds[i].size /\ m_note_cmds[i].size \in Nat
  BY CommandTypes DEF NoteSizeOf
<1> HIDE DEF n
<1>7. ASSUME NEW i \in 1 .. n + 1 PROVE NotePayloadOffset(i) \in Nat
  <2>1. i - 1 \in 0 .. n
    BY <1>4
  <2>2. SizesUpTo(NoteSizeOf, i - 1) \in Nat
    BY <1>5, <2>1
  <2> QED
    BY <1>2, <1>3, <2>2
<1>8. ASSUME NEW i \in 1 .. n PROVE NotePayloadOffset(i + 1) = NotePayloadOffset(i) + m_note_cmds[i].size
  <2>1. i \in 0 .. n /\ i - 1 \in 0 .. n /\ (i + 1) - 1 = i
    BY <1>4
  <2>2. SizesUpTo(NoteSizeOf, i) = SizesUpTo(NoteSizeOf, i - 1) + m_note_cmds[i].size
    BY <1>5, <1>6
  <2>3. NotePayloadOffset(i + 1) = base + SizesUpTo(NoteSizeOf, i)
    BY <1>3, <2>1
  <2> QED
    BY <1>2, <1>3, <1>5, <1>6, <2>1, <2>2, <2>3
<1>9. NotePayloadOffset(1) = base
  <2>1. 1 - 1 = 0
    OBVIOUS
  <2> QED
    BY <1>2, <1>3, <1>5, <2>1
<1> QED
  BY <1>2, <1>7, <1>8, <1>9 DEF n

\* Where the payloads of the segments go.
LEMMA SegmentOffsets ==
  ASSUME BuilderTyped, NotesAdded
  PROVE  /\ \A i \in 1 .. Len(m_segment_cmds) + 1 : SegmentPayloadOffset(i) \in Nat
         /\ \A i \in 1 .. Len(m_segment_cmds) :
              SegmentPayloadOffset(i + 1) = SegmentPayloadOffset(i) + m_segment_cmds[i].filesize
         /\ NotePayloadOffset(4) + m_note_cmds[4].size <= SegmentPayloadOffset(1)
<1> DEFINE base == RoundUp(NotePayloadOffset(4) + m_note_cmds[4].size, SegmentAlign)
<1>1. NotePayloadOffset(4) + m_note_cmds[4].size \in Nat /\ SegmentAlign \in Nat \ {0}
  <2>1. Len(m_note_cmds) = 4 /\ 4 \in 1 .. Len(m_note_cmds) /\ 4 \in 1 .. Len(m_note_cmds) + 1
    BY DEF NotesAdded
  <2>2. NotePayloadOffset(4) \in Nat
    BY <2>1, NoteOffsets
  <2>3. m_note_cmds[4].size \in Nat
    BY <2>1, CommandTypes
  <2> QED
    BY <2>2, <2>3, SizeAssumption
<1>2. base \in Nat /\ NotePayloadOffset(4) + m_note_cmds[4].size <= base
  BY <1>1, RoundUpBound
<1>3. \A i : SegmentPayloadOffset(i) = base + SizesUpTo(SegmentSizeOf, i - 1)
  BY DEF SegmentPayloadOffset, SegmentSizesUpTo, SegmentSizeOf, NotesAdded
<1> HIDE DEF base
<1> DEFINE n == Len(m_segment_cmds)
<1>4. n \in Nat /\ SegmentSizeOf \in Seq(Nat) /\ Len(SegmentSizeOf) = n
  BY CommandTypes
<1>5. /\ SizesUpTo(SegmentSizeOf, 0) = 0
      /\ \A i \in 0 .. n : SizesUpTo(SegmentSizeOf, i) \in Nat
      /\ \A i \in 1 .. n : SizesUpTo(SegmentSizeOf, i) = SizesUpTo(SegmentSizeOf, i - 1) + SegmentSizeOf[i]
  BY <1>4, Sums
<1>6. \A i \in 1 .. n : SegmentSizeOf[i] = m_segment_cmds[i].filesize /\ m_segment_cmds[i].filesize \in Nat
  BY CommandTypes DEF SegmentSizeOf
<1> HIDE DEF n
<1>7. ASSUME NEW i \in 1 .. n + 1 PROVE SegmentPayloadOffset(i) \in Nat
  <2>1. i - 1 \in 0 .. n
    BY <1>4
  <2>2. SizesUpTo(SegmentSizeOf, i - 1) \in Nat
    BY <1>5, <2>1
  <2> QED
    BY <1>2, <1>3, <2>2
<1>8. ASSUME NEW i \in 1 .. n
      PROVE  SegmentPayloadOffset(i + 1) = SegmentPayloadOffset(i) + m_segment_cmds[i].filesize
  <2>1. i \in 0 .. n /\ i - 1 \in 0 .. n /\ (i + 1) - 1 = i
    BY <1>4
  <2>2. SizesUpTo(SegmentSizeOf, i) = SizesUpTo(SegmentSizeOf, i - 1) + m_segment_cmds[i].filesize
    BY <1>5, <1>6
  <2>3. SegmentPayloadOffset(i + 1) = base + SizesUpTo(SegmentSizeOf, i)
    BY <1>3, <2>1
  <2> QED
    BY <1>2, <1>3, <1>5, <1>6, <2>1, <2>2, <2>3
<1>9. SegmentPayloadOffset(1) = base
  <2>1. 1 - 1 = 0
    OBVIOUS
  <2> QED
    BY <1>2, <1>3, <1>5, <2>1
<1> QED
  BY <1>2, <1>7, <1>8, <1>9 DEF n
-----------------------------------------------------------------------------
(* What the steps of Build leave alone. *)

\* Only offsets in the commands change.
Kept ==
  /\ UNCHANGED <<m_loadCommandsFinalized, m_header, m_thread_cmds, imageInfosPayloadOffset>>
  /\ Len(m_note_cmds)' = Len(m_note_cmds) /\ Len(m_segment_cmds)' = Len(m_segment_cmds)
  /\ \A i \in 1 .. Len(m_note_cmds) :
       m_note_cmds'[i].owner = m_note_cmds[i].owner /\ m_note_cmds'[i].size = m_note_cmds[i].size
  /\ \A i \in 1 .. Len(m_segment_cmds) : m_segment_cmds'[i].filesize = m_segment_cmds[i].filesize

\* With the sizes, everything that is computed from them stays as it is.
LEMMA OffsetsKept ==
  ASSUME BuilderTyped, BuilderTyped', NotesAdded, Kept
  PROVE  /\ NotesAdded' /\ CommandTotals' = CommandTotals
         /\ \A i : NotePayloadOffset(i)' = NotePayloadOffset(i)
         /\ \A i : SegmentPayloadOffset(i)' = SegmentPayloadOffset(i)
<1>1. /\ DOMAIN m_note_cmds = 1 .. Len(m_note_cmds) /\ DOMAIN m_note_cmds' = 1 .. Len(m_note_cmds)
      /\ DOMAIN m_segment_cmds = 1 .. Len(m_segment_cmds)
      /\ DOMAIN m_segment_cmds' = 1 .. Len(m_segment_cmds)
      /\ Len(m_note_cmds) = 4
  BY DEF BuilderTyped, Kept, NotesAdded
<1>2. NotesAdded'
  BY <1>1 DEF NotesAdded, Kept
<1>3. CommandTotals' = CommandTotals
  BY DEF CommandTotals, Kept
<1>4. NoteSizeOf' = NoteSizeOf /\ SegmentSizeOf' = SegmentSizeOf
  BY <1>1 DEF NoteSizeOf, SegmentSizeOf, Kept
<1>5. \A i : NotePayloadOffset(i)' = NotePayloadOffset(i)
  <2>1. \A i : NoteSizes(i)' = NoteSizes(i)
    BY <1>4 DEF NoteSizes, NoteSizeOf
  <2>2. m_header' = m_header
    BY DEF Kept
  <2> QED
    BY <2>1, <2>2 DEF NotePayloadOffset
<1>6. \A i : SegmentPayloadOffset(i)' = SegmentPayloadOffset(i)
  <2>1. \A i : SegmentSizesUpTo(i)' = SegmentSizesUpTo(i)
    BY <1>4 DEF SegmentSizesUpTo, SegmentSizeOf
  <2>2. Len(m_note_cmds)' = 4 /\ m_note_cmds'[4].size = m_note_cmds[4].size
    BY <1>1 DEF Kept
  <2> QED
    BY <1>1, <1>5, <2>1, <2>2 DEF SegmentPayloadOffset
<1> QED
  BY <1>2, <1>3, <1>5, <1>6

\* A note command gets its offset.
LEMMA NoteOffsetSet ==
  ASSUME BuilderTyped, NEW k \in 1 .. Len(m_note_cmds), NEW o \in Nat,
         m_note_cmds' = [m_note_cmds EXCEPT ![k].offset = o],
         UNCHANGED <<m_loadCommandsFinalized, m_header, m_thread_cmds, m_segment_cmds, imageInfosPayloadOffset>>
  PROVE  BuilderTyped' /\ Kept
<1> DEFINE e == [m_note_cmds[k] EXCEPT !.offset = o]
<1>1. m_note_cmds \in Seq(NoteType) /\ m_note_cmds[k] \in NoteType
  BY DEF BuilderTyped
<1>2. e \in NoteType /\ e.owner = m_note_cmds[k].owner /\ e.size = m_note_cmds[k].size
  BY <1>1 DEF NoteType
<1>3. m_note_cmds' = [m_note_cmds EXCEPT ![k] = e]
  OBVIOUS
<1> HIDE DEF e
<1>4. m_note_cmds' \in Seq(NoteType) /\ Len(m_note_cmds') = Len(m_note_cmds)
  BY <1>1, <1>2, <1>3
<1>5. \A i \in 1 .. Len(m_note_cmds) :
        m_note_cmds'[i].owner = m_note_cmds[i].owner /\ m_note_cmds'[i].size = m_note_cmds[i].size
  BY <1>1, <1>2, <1>3
<1>6. BuilderTyped'
  BY <1>4 DEF BuilderTyped
<1> QED
  BY <1>4, <1>5, <1>6 DEF Kept

\* A segment command gets its offset.
LEMMA SegmentOffsetSet ==
  ASSUME BuilderTyped, NEW k \in 1 .. Len(m_segment_cmds), NEW o \in Nat,
         m_segment_cmds' = [m_segment_cmds EXCEPT ![k].fileoff = o],
         UNCHANGED <<m_loadCommandsFinalized, m_header, m_thread_cmds, m_note_cmds, imageInfosPayloadOffset>>
  PROVE  BuilderTyped' /\ Kept
<1> DEFINE e == [m_segment_cmds[k] EXCEPT !.fileoff = o]
<1>1. m_segment_cmds \in Seq(SegmentType) /\ m_segment_cmds[k] \in SegmentType
  BY DEF BuilderTyped
<1>2. e \in SegmentType /\ e.filesize = m_segment_cmds[k].filesize
  BY <1>1 DEF SegmentType
<1>3. m_segment_cmds' = [m_segment_cmds EXCEPT ![k] = e]
  OBVIOUS
<1> HIDE DEF e
<1>4. m_segment_cmds' \in Seq(SegmentType) /\ Len(m_segment_cmds') = Len(m_segment_cmds)
  BY <1>1, <1>2, <1>3
<1>5. \A i \in 1 .. Len(m_segment_cmds) : m_segment_cmds'[i].filesize = m_segment_cmds[i].filesize
  BY <1>1, <1>2, <1>3
<1>6. BuilderTyped'
  BY <1>4 DEF BuilderTyped
<1> QED
  BY <1>4, <1>5, <1>6 DEF Kept

\* Nothing of the builder changes.
LEMMA BuilderStands ==
  ASSUME BuilderTyped, UNCHANGED <<builderVars, imageInfosPayloadOffset>>
  PROVE  BuilderTyped' /\ Kept
<1>1. UNCHANGED <<m_loadCommandsFinalized, m_header, m_note_cmds, m_thread_cmds, m_segment_cmds,
                  imageInfosPayloadOffset>>
  BY DEF builderVars
<1>2. BuilderTyped'
  BY <1>1 DEF BuilderTyped
<1> QED
  BY <1>1, <1>2 DEF Kept

\* All segment commands get their offsets.
LEMMA AllOffsetsSet ==
  ASSUME BuilderTyped, NotesAdded, SetFileOffsets
  PROVE  BuilderTyped' /\ Kept
<1> DEFINE n == Len(m_segment_cmds)
           f == [i \in 1 .. n |-> [m_segment_cmds[i] EXCEPT !.fileoff = SegmentPayloadOffset(i)]]
<1>1. /\ m_segment_cmds' = f
      /\ UNCHANGED <<m_loadCommandsFinalized, m_header, m_thread_cmds, m_note_cmds, imageInfosPayloadOffset>>
  BY CommandTypes DEF SetFileOffsets
<1>2. n \in Nat /\ \A i \in 1 .. n : m_segment_cmds[i] \in SegmentType
  BY CommandTypes
<1>3. \A i \in 1 .. n : SegmentPayloadOffset(i) \in Nat
  <2>1. \A i \in 1 .. n : i \in 1 .. n + 1
    BY <1>2
  <2> QED
    BY <2>1, SegmentOffsets
<1>4. \A i \in 1 .. n : f[i] \in SegmentType /\ f[i].filesize = m_segment_cmds[i].filesize
  BY <1>2, <1>3 DEF SegmentType
<1>5. f \in [1 .. n -> SegmentType]
  BY <1>4
<1> HIDE DEF f, n
<1>6. f \in Seq(SegmentType) /\ Len(f) = n
  BY <1>2, <1>5
<1>7. BuilderTyped'
  BY <1>1, <1>6 DEF BuilderTyped
<1> QED
  BY <1>1, <1>4, <1>6, <1>7 DEF Kept, n

\* Builds steps on the builder: FinalizeLoadCommands does nothing a second time.
LEMMA BuildKeeps ==
  ASSUME ShapeInv, Build \/ SetFileOffsets
  PROVE  /\ BuilderTyped' /\ Kept /\ NotesAdded
         /\ stage \notin Collecting \cup Unfinalized \cup {"failed"}
<1>1. BuilderTyped /\ LoopTyped /\ Shape /\ LoopOK
  BY DEF ShapeInv
<1>2. stage \notin Collecting \cup Unfinalized \cup {"failed"}
  BY DEF Build, WriteHeader, WriteNoteCommand, WriteThreadCommand, WriteSegmentCommand, SkipEmptyLoop,
         WriteNotePayload, BeginSegment, WriteChunk, EndChunks, WriteRest, SetFileOffsets,
         Collecting, Unfinalized
<1>3. NotesAdded /\ m_loadCommandsFinalized
  BY <1>1, <1>2 DEF Shape
<1>4. CASE SetFileOffsets
  BY <1>1, <1>2, <1>3, <1>4, AllOffsetsSet
<1>5. CASE WriteHeader
  <2>1. UNCHANGED <<builderVars, imageInfosPayloadOffset>>
    BY <1>3, <1>5 DEF WriteHeader, FinalizeLoadCommands, builderVars, BuilderTyped
  <2> QED
    BY <1>1, <1>2, <1>3, <2>1, BuilderStands
<1>6. CASE WriteNoteCommand
  <2>1. idx \in 1 .. Len(m_note_cmds) /\ idx \in 1 .. Len(m_note_cmds) + 1
    <3>1. stage = "note commands"
      BY <1>6 DEF WriteNoteCommand
    <3>2. idx \in Nat \ {0} /\ idx <= 4 /\ Len(m_note_cmds) = 4
      BY <1>1, <1>3, <3>1 DEF LoopOK, LoopTyped, NotesAdded
    <3> QED
      BY <3>2
  <2>2. NotePayloadOffset(idx) \in Nat
    BY <1>1, <2>1, NoteOffsets
  <2>3. /\ m_note_cmds' = [m_note_cmds EXCEPT ![idx].offset = NotePayloadOffset(idx)]
        /\ UNCHANGED <<m_loadCommandsFinalized, m_header, m_thread_cmds, m_segment_cmds, imageInfosPayloadOffset>>
    BY <1>6 DEF WriteNoteCommand
  <2> HIDE DEF NotePayloadOffset
  <2> QED
    BY <1>1, <1>2, <1>3, <2>1, <2>2, <2>3, NoteOffsetSet
<1>7. CASE WriteSegmentCommand
  <2>1. idx \in 1 .. Len(m_segment_cmds) /\ idx \in 1 .. Len(m_segment_cmds) + 1
    <3>1. idx \in Nat \ {0} /\ idx <= Len(m_segment_cmds)
      BY <1>1, <1>7 DEF WriteSegmentCommand, LoopTyped
    <3>2. Len(m_segment_cmds) \in Nat
      BY <1>1, CommandTypes
    <3> QED
      BY <3>1, <3>2
  <2>2. SegmentPayloadOffset(idx) \in Nat
    BY <1>1, <1>3, <2>1, SegmentOffsets
  <2>3. /\ m_segment_cmds' = [m_segment_cmds EXCEPT ![idx].fileoff = SegmentPayloadOffset(idx)]
        /\ UNCHANGED <<m_loadCommandsFinalized, m_header, m_thread_cmds, m_note_cmds, imageInfosPayloadOffset>>
    BY <1>7 DEF WriteSegmentCommand
  <2> QED
    BY <1>1, <1>2, <1>3, <2>1, <2>2, <2>3, SegmentOffsetSet
<1>8. CASE WriteThreadCommand \/ SkipEmptyLoop \/ WriteNotePayload \/ BeginSegment \/ WriteChunk
             \/ EndChunks \/ WriteRest
  <2>1. UNCHANGED <<builderVars, imageInfosPayloadOffset>>
    BY <1>8 DEF WriteThreadCommand, SkipEmptyLoop, WriteNotePayload, BeginSegment, WriteChunk, EndChunks, WriteRest
  <2> QED
    BY <1>1, <1>2, <1>3, <2>1, BuilderStands
<1> QED
  BY <1>4, <1>5, <1>6, <1>7, <1>8 DEF Build
-----------------------------------------------------------------------------
(* The stream. *)

\* A piece of at most len bytes is written, and of len bytes if it is complete.
Put(at, len, part, ref) ==
  \E n \in 0 .. len :
    /\ file' = file \cup {Piece(at, n, part, ref)}
    /\ pos' = at + n
    /\ shortWrites' \in 0 .. MaxShortWrites
    /\ shortWrites' = 0 => shortWrites = 0 /\ n = len

\* What may be written of a number of bytes.
LEMMA LengthsWritten ==
  ASSUME shortWrites \in 0 .. MaxShortWrites, NEW len \in Nat, NEW n \in WrittenLengths(len),
         shortWrites' = IF n < len THEN shortWrites + 1 ELSE shortWrites
  PROVE  /\ n \in 0 .. len /\ shortWrites' \in 0 .. MaxShortWrites
         /\ shortWrites' = 0 => shortWrites = 0 /\ n = len
<1>1. MaxShortWrites \in Nat /\ shortWrites \in Nat /\ shortWrites <= MaxShortWrites
  BY BoundAssumption
<1>2. n = len \/ (n = len \div 2 /\ shortWrites < MaxShortWrites)
  BY DEF WrittenLengths, ShortLength
<1>3. n \in 0 .. len
  BY <1>2
<1> QED
  BY <1>1, <1>2, <1>3

\* A write at the position of the stream.
LEMMA WriteStep ==
  ASSUME shortWrites \in 0 .. MaxShortWrites, NEW len \in Nat, NEW part, NEW ref, Write(len, part, ref)
  PROVE  Put(pos, len, part, ref)
<1>1. PICK n \in WrittenLengths(len) :
        /\ file' = file \cup {Piece(pos, n, part, ref)}
        /\ pos' = pos + n
        /\ shortWrites' = IF n < len THEN shortWrites + 1 ELSE shortWrites
  BY DEF Write
<1>2. /\ n \in 0 .. len /\ shortWrites' \in 0 .. MaxShortWrites
      /\ shortWrites' = 0 => shortWrites = 0 /\ n = len
  BY <1>1, LengthsWritten
<1> QED
  BY <1>1, <1>2 DEF Put

\* The stream keeps its type.
LEMMA PutTyped ==
  ASSUME StreamTyped, NEW at \in Nat, NEW len \in Nat, NEW part, NEW ref, Put(at, len, part, ref)
  PROVE  StreamTyped'
<1>1. PICK n \in 0 .. len :
        /\ file' = file \cup {Piece(at, n, part, ref)} /\ pos' = at + n
        /\ shortWrites' \in 0 .. MaxShortWrites
  BY DEF Put
<1>2. Piece(at, n, part, ref).at = at /\ Piece(at, n, part, ref).len = n
  BY DEF Piece
<1>3. pos' \in Nat
  BY <1>1
<1>4. \A p \in file' : p.at \in Nat /\ p.len \in Nat
  BY <1>1, <1>2 DEF StreamTyped
<1> QED
  BY <1>1, <1>3, <1>4 DEF StreamTyped

\* The steps of Build as a change of stage, and what they write.
HeaderStep ==
  /\ stage = "header" /\ stage' = "note commands" /\ UNCHANGED <<idx, off>>
  /\ Put(pos, HeaderSize, <<"header">>, m_header)

NoteStep ==
  /\ stage = "note commands" /\ Advance("note commands", Len(m_note_cmds), "thread commands") /\ UNCHANGED off
  /\ Put(pos, NoteCmdSize, <<"note", idx>>, [offset |-> NotePayloadOffset(idx), size |-> m_note_cmds[idx].size])

ThreadStep ==
  /\ stage = "thread commands" /\ idx <= m_thread_cmds
  /\ Advance("thread commands", m_thread_cmds, "segment commands") /\ UNCHANGED off
  /\ Put(pos, ThreadCmdSize, <<"thread", idx>>, 0)

SegmentStep ==
  /\ stage = "segment commands" /\ idx <= Len(m_segment_cmds)
  /\ Advance("segment commands", Len(m_segment_cmds), "note payloads") /\ UNCHANGED off
  /\ Put(pos, SegmentCmdSize, <<"segment", idx>>,
         [offset |-> SegmentPayloadOffset(idx), size |-> m_segment_cmds[idx].filesize])

SkipStep ==
  /\ \/ stage = "thread commands" /\ m_thread_cmds = 0 /\ stage' = "segment commands"
     \/ stage = "segment commands" /\ m_segment_cmds = <<>> /\ stage' = "note payloads"
     \/ stage = "segment payloads" /\ m_segment_cmds = <<>> /\ stage' = "built"
  /\ UNCHANGED <<idx, off, pos, file, shortWrites>>

NotePayloadStep ==
  /\ stage = "note payloads" /\ Advance("note payloads", Len(m_note_cmds), "segment payloads") /\ UNCHANGED off
  /\ Put(NotePayloadOffset(idx), m_note_cmds[idx].size, <<"note payload", idx>>, 0)

BeginStep ==
  /\ stage = "segment payloads" /\ stage' = "chunks" /\ idx <= Len(m_segment_cmds)
  /\ pos' = SegmentPayloadOffset(idx) /\ off' = 0 /\ UNCHANGED <<idx, file, shortWrites>>

ChunkStep ==
  /\ stage = "chunks" /\ UNCHANGED <<stage, idx>>
  /\ LET chunk == ChunkSize(m_segment_cmds[idx].filesize)
     IN  /\ off + chunk <= m_segment_cmds[idx].filesize /\ off' = off + chunk
         /\ Put(pos, chunk, <<"segment payload", idx>>, off)

ToRestStep == stage = "chunks" /\ stage' = "rest" /\ UNCHANGED <<idx, off, pos, file, shortWrites>>

RestStep ==
  /\ stage = "rest" /\ Advance("segment payloads", Len(m_segment_cmds), "built") /\ UNCHANGED off
  /\ LET left == LeftOver(m_segment_cmds[idx].filesize)
     IN  \/ left = 0 /\ UNCHANGED <<pos, file, shortWrites>>
         \/ Put(pos, left, <<"segment payload", idx>>, off)

FailStep == stage' = "failed" /\ UNCHANGED <<idx, off, pos, file, shortWrites>>

BuildStep ==
  \/ HeaderStep \/ NoteStep \/ ThreadStep \/ SegmentStep \/ SkipStep \/ NotePayloadStep
  \/ BeginStep \/ ChunkStep \/ ToRestStep \/ RestStep \/ FailStep

\* Numbers about the segment that is being written.
LEMMA SegmentNumbers ==
  ASSUME BuilderTyped, NEW k \in 1 .. Len(m_segment_cmds)
  PROVE  LET size == m_segment_cmds[k].filesize
         IN  /\ size \in Nat \ {0} /\ ChunkSize(size) \in Nat \ {0}
             /\ LeftOver(size) \in Nat /\ LeftOver(size) < ChunkSize(size)
<1> DEFINE size == m_segment_cmds[k].filesize
<1>1. size \in Nat \ {0}
  BY CommandTypes
<1> HIDE DEF size
<1>2. ChunkSize(size) \in Nat \ {0}
  BY <1>1, SizeAssumption DEF ChunkSize
<1>3. LeftOver(size) \in Nat /\ LeftOver(size) < ChunkSize(size)
  BY <1>1, <1>2, LeftOverBound DEF LeftOver
<1> QED
  BY <1>1, <1>2, <1>3 DEF size

\* Where the loops of Build are, as positions in the lists.
LEMMA LoopPositions ==
  ASSUME ShapeInv
  PROVE  /\ stage \notin Collecting => Len(m_note_cmds) = 4
         /\ stage \in {"note commands", "note payloads"} => idx \in 1 .. 4
         /\ idx <= Len(m_segment_cmds) => idx \in 1 .. Len(m_segment_cmds)
         /\ stage \in {"chunks", "rest"} => idx \in 1 .. Len(m_segment_cmds)
<1>1. idx \in Nat \ {0} /\ Len(m_segment_cmds) \in Nat
  BY CommandTypes DEF ShapeInv, LoopTyped
<1>2. stage \notin Collecting => Len(m_note_cmds) = 4
  BY DEF ShapeInv, Shape, NotesAdded
<1>3. /\ stage \in {"note commands", "note payloads"} => idx <= 4
      /\ stage \in {"chunks", "rest"} => idx <= Len(m_segment_cmds)
  BY DEF ShapeInv, LoopOK
<1>4. idx <= 4 => idx \in 1 .. 4
  BY <1>1
<1>5. idx <= Len(m_segment_cmds) => idx \in 1 .. Len(m_segment_cmds)
  BY <1>1
<1> QED
  BY <1>2, <1>3, <1>4, <1>5, Zenon

\* The actions of Build are such steps.
LEMMA BuildCases ==
  ASSUME ShapeInv, Build
  PROVE  BuildStep
<1>1. shortWrites \in 0 .. MaxShortWrites /\ BuilderTyped
  BY DEF ShapeInv, StreamTyped
<1>2. {HeaderSize, NoteCmdSize, ThreadCmdSize, SegmentCmdSize} \subseteq Nat
  BY SizeAssumption
<1>3. CASE WriteFails
  BY <1>3 DEF WriteFails, streamVars, BuildStep, FailStep
<1>4. CASE WriteHeader /\ ~WriteFails
  <2>1. m_header' = m_header
    BY <1>4, BuildKeeps DEF Kept, Build
  <2>2. Write(HeaderSize, <<"header">>, m_header) /\ stage = "header" /\ stage' = "note commands" /\ UNCHANGED <<idx, off>>
    BY <1>4, <2>1 DEF WriteHeader
  <2> QED
    BY <1>1, <1>2, <2>2, WriteStep DEF HeaderStep, BuildStep
<1>5. CASE WriteNoteCommand /\ ~WriteFails
  <2>1. /\ stage = "note commands" /\ Advance("note commands", Len(m_note_cmds), "thread commands") /\ UNCHANGED off
        /\ Write(NoteCmdSize, <<"note", idx>>, [offset |-> NotePayloadOffset(idx), size |-> m_note_cmds[idx].size])
    BY <1>5 DEF WriteNoteCommand
  <2> QED
    BY <1>1, <1>2, <2>1, WriteStep DEF NoteStep, BuildStep
<1>6. CASE WriteThreadCommand /\ ~WriteFails
  <2>1. /\ stage = "thread commands" /\ idx <= m_thread_cmds
        /\ Advance("thread commands", m_thread_cmds, "segment commands") /\ UNCHANGED off
        /\ Write(ThreadCmdSize, <<"thread", idx>>, 0)
    BY <1>6 DEF WriteThreadCommand
  <2> QED
    BY <1>1, <1>2, <2>1, WriteStep DEF ThreadStep, BuildStep
<1>7. CASE WriteSegmentCommand /\ ~WriteFails
  <2>1. /\ stage = "segment commands" /\ idx <= Len(m_segment_cmds)
        /\ Advance("segment commands", Len(m_segment_cmds), "note payloads") /\ UNCHANGED off
        /\ Write(SegmentCmdSize, <<"segment", idx>>,
                 [offset |-> SegmentPayloadOffset(idx), size |-> m_segment_cmds[idx].filesize])
    BY <1>7 DEF WriteSegmentCommand
  <2> QED
    BY <1>1, <1>2, <2>1, WriteStep DEF SegmentStep, BuildStep
<1>8. CASE SkipEmptyLoop
  BY <1>8 DEF SkipEmptyLoop, SkipStep, BuildStep, streamVars
<1>9. CASE WriteNotePayload /\ ~WriteFails
  <2>1. /\ stage = "note payloads" /\ Advance("note payloads", Len(m_note_cmds), "segment payloads") /\ UNCHANGED off
    BY <1>9 DEF WriteNotePayload
  <2>2. m_note_cmds[idx].size \in Nat
    BY <1>1, <2>1, LoopPositions, CommandTypes DEF Collecting
  <2>3. PICK n \in WrittenLengths(m_note_cmds[idx].size) :
          /\ file' = file \cup {Piece(NotePayloadOffset(idx), n, <<"note payload", idx>>, 0)}
          /\ pos' = NotePayloadOffset(idx) + n
          /\ shortWrites' = IF n < m_note_cmds[idx].size THEN shortWrites + 1 ELSE shortWrites
    BY <1>9 DEF WriteNotePayload
  <2>4. /\ n \in 0 .. m_note_cmds[idx].size /\ shortWrites' \in 0 .. MaxShortWrites
        /\ shortWrites' = 0 => shortWrites = 0 /\ n = m_note_cmds[idx].size
    BY <1>1, <2>2, <2>3, LengthsWritten
  <2>5. Put(NotePayloadOffset(idx), m_note_cmds[idx].size, <<"note payload", idx>>, 0)
    BY <2>3, <2>4 DEF Put
  <2> QED
    BY <2>1, <2>5 DEF NotePayloadStep, BuildStep
<1>10. CASE BeginSegment
  BY <1>10 DEF BeginSegment, BeginStep, BuildStep
<1>11. CASE WriteChunk /\ ~WriteFails
  <2> DEFINE chunk == ChunkSize(m_segment_cmds[idx].filesize)
  <2>1. \/ /\ stage = "chunks" /\ UNCHANGED <<stage, idx>>
           /\ off + chunk <= m_segment_cmds[idx].filesize /\ off' = off + chunk
           /\ Write(chunk, <<"segment payload", idx>>, off)
        \/ ToRestStep
    BY <1>11 DEF WriteChunk, ToRestStep, streamVars
  <2>2. stage = "chunks" => chunk \in Nat
    BY <1>1, LoopPositions, SegmentNumbers
  <2> HIDE DEF chunk
  <2>3. \/ /\ stage = "chunks" /\ UNCHANGED <<stage, idx>>
           /\ off + chunk <= m_segment_cmds[idx].filesize /\ off' = off + chunk
           /\ Put(pos, chunk, <<"segment payload", idx>>, off)
        \/ ToRestStep
    BY <1>1, <2>1, <2>2, WriteStep
  <2> QED
    BY <2>3 DEF ChunkStep, BuildStep, chunk
<1>12. CASE EndChunks
  BY <1>12 DEF EndChunks, ToRestStep, BuildStep, streamVars
<1>13. CASE WriteRest /\ ~WriteFails
  <2> DEFINE left == LeftOver(m_segment_cmds[idx].filesize)
  <2>1. /\ stage = "rest" /\ Advance("segment payloads", Len(m_segment_cmds), "built") /\ UNCHANGED off
        /\ \/ left = 0 /\ UNCHANGED <<pos, file, shortWrites>>
           \/ Write(left, <<"segment payload", idx>>, off)
    BY <1>13 DEF WriteRest, streamVars
  <2>2. left \in Nat
    BY <1>1, <2>1, LoopPositions, SegmentNumbers
  <2> HIDE DEF left
  <2>3. \/ left = 0 /\ UNCHANGED <<pos, file, shortWrites>>
        \/ Put(pos, left, <<"segment payload", idx>>, off)
    BY <1>1, <2>1, <2>2, WriteStep
  <2> QED
    BY <2>1, <2>3 DEF RestStep, BuildStep, left
<1> QED
  BY <1>3, <1>4, <1>5, <1>6, <1>7, <1>8, <1>9, <1>10, <1>11, <1>12, <1>13 DEF Build
-----------------------------------------------------------------------------
(* The shape of the builder and the loops. *)

Building ==
  {"note commands", "thread commands", "segment commands", "note payloads", "segment payloads",
   "chunks", "rest", "built", "failed"}

\* Where a step of Build goes.
LEMMA BuildLoops ==
  ASSUME ShapeInv, BuildStep, BuilderTyped', Kept, stage \notin Collecting
  PROVE  LoopTyped' /\ StreamTyped' /\ LoopOK' /\ stage' \in Building
<1>1. /\ BuilderTyped /\ stage \in Stages /\ idx \in Nat \ {0} /\ off \in Nat /\ StreamTyped /\ pos \in Nat
      /\ Len(m_note_cmds) = 4 /\ Len(m_segment_cmds) \in Nat /\ m_thread_cmds \in Nat
  BY LoopPositions, CommandTypes DEF ShapeInv, LoopTyped, StreamTyped
<1>2. /\ Len(m_note_cmds)' = 4 /\ Len(m_segment_cmds)' = Len(m_segment_cmds) /\ m_thread_cmds' = m_thread_cmds
      /\ \A i \in 1 .. Len(m_segment_cmds) : m_segment_cmds'[i].filesize = m_segment_cmds[i].filesize
  BY <1>1 DEF Kept
<1>3. {HeaderSize, NoteCmdSize, ThreadCmdSize, SegmentCmdSize} \subseteq Nat
  BY SizeAssumption
<1>4. /\ idx + 1 \in Nat \ {0} /\ 1 \in Nat \ {0} /\ 0 \in Nat /\ 1 <= 4
      /\ \A n \in Nat : idx < n => idx + 1 <= n
  BY <1>1
<1>5. Building \subseteq Stages
  BY DEF Building, Stages
<1>6. CASE HeaderStep \/ FailStep
  <2>1. StreamTyped'
    BY <1>1, <1>3, <1>6, PutTyped DEF HeaderStep, FailStep, StreamTyped
  <2>2. stage' \in Building /\ UNCHANGED <<idx, off>>
    BY <1>6 DEF HeaderStep, FailStep, Building
  <2>3. stage' = "failed" \/ (stage' = "note commands" /\ idx' = 1)
    BY <1>6 DEF HeaderStep, FailStep, ShapeInv, Shape, Prepared
  <2> QED
    BY <1>1, <1>4, <1>5, <2>1, <2>2, <2>3 DEF LoopTyped, LoopOK
<1>7. CASE NoteStep
  <2>1. StreamTyped'
    BY <1>1, <1>3, <1>7, PutTyped DEF NoteStep
  <2>2. /\ off' = off
        /\ \/ stage' = "note commands" /\ idx' = idx + 1 /\ idx + 1 <= 4
           \/ stage' = "thread commands" /\ idx' = 1
    BY <1>1, <1>4, <1>7 DEF NoteStep, Advance
  <2> QED
    BY <1>1, <1>4, <2>1, <2>2 DEF LoopTyped, LoopOK, Stages, Building
<1>8. CASE ThreadStep
  <2>1. StreamTyped'
    BY <1>1, <1>3, <1>8, PutTyped DEF ThreadStep
  <2>2. /\ off' = off
        /\ \/ stage' = "thread commands" /\ idx' = idx + 1 /\ idx + 1 <= m_thread_cmds
           \/ stage' = "segment commands" /\ idx' = 1
    BY <1>1, <1>4, <1>8 DEF ThreadStep, Advance
  <2> QED
    BY <1>1, <1>2, <1>4, <2>1, <2>2 DEF LoopTyped, LoopOK, Stages, Building
<1>9. CASE SegmentStep
  <2>1. StreamTyped'
    BY <1>1, <1>3, <1>9, PutTyped DEF SegmentStep
  <2>2. /\ off' = off
        /\ \/ stage' = "segment commands" /\ idx' = idx + 1 /\ idx + 1 <= Len(m_segment_cmds)
           \/ stage' = "note payloads" /\ idx' = 1
    BY <1>1, <1>4, <1>9 DEF SegmentStep, Advance
  <2> QED
    BY <1>1, <1>2, <1>4, <2>1, <2>2 DEF LoopTyped, LoopOK, Stages, Building
<1>10. CASE SkipStep
  <2>1. StreamTyped' /\ UNCHANGED <<idx, off>>
    BY <1>1, <1>10 DEF SkipStep, StreamTyped
  <2>2. stage' \in {"segment commands", "note payloads", "built"} /\ idx = 1
    <3>1. m_segment_cmds = <<>> => Len(m_segment_cmds) = 0
      OBVIOUS
    <3>2. stage = "thread commands" => idx = 1 \/ idx <= m_thread_cmds
      BY DEF ShapeInv, LoopOK
    <3>3. stage \in {"segment commands", "segment payloads"} => idx = 1 \/ idx <= Len(m_segment_cmds)
      BY DEF ShapeInv, LoopOK
    <3>4. ~(idx <= 0)
      BY <1>1
    <3> QED
      BY <1>10, <3>1, <3>2, <3>3, <3>4 DEF SkipStep
  <2> QED
    BY <1>1, <1>4, <2>1, <2>2 DEF LoopTyped, LoopOK, Stages, Building
<1>11. CASE NotePayloadStep
  <2>1. StreamTyped'
    <3>1. stage = "note payloads"
      BY <1>11 DEF NotePayloadStep
    <3>2. idx \in 1 .. Len(m_note_cmds) /\ idx \in 1 .. Len(m_note_cmds) + 1
      <4>1. idx \in 1 .. 4
        BY <3>1, LoopPositions
      <4> QED
        BY <1>1, <4>1
    <3>3. NotePayloadOffset(idx) \in Nat /\ m_note_cmds[idx].size \in Nat
      BY <1>1, <3>2, NoteOffsets, CommandTypes
    <3> QED
      BY <1>1, <1>11, <3>3, PutTyped DEF NotePayloadStep
  <2>2. /\ off' = off
        /\ \/ stage' = "note payloads" /\ idx' = idx + 1 /\ idx + 1 <= 4
           \/ stage' = "segment payloads" /\ idx' = 1
    BY <1>1, <1>4, <1>11 DEF NotePayloadStep, Advance
  <2> QED
    BY <1>1, <1>4, <2>1, <2>2 DEF LoopTyped, LoopOK, Stages, Building
<1>12. CASE BeginStep
  <2>1. /\ stage' = "chunks" /\ idx <= Len(m_segment_cmds) /\ idx' = idx /\ off' = 0
        /\ pos' = SegmentPayloadOffset(idx) /\ UNCHANGED <<file, shortWrites>>
    BY <1>12 DEF BeginStep
  <2>2. idx \in 1 .. Len(m_segment_cmds) /\ idx \in 1 .. Len(m_segment_cmds) + 1
    BY <1>1, <2>1
  <2>3. SegmentPayloadOffset(idx) \in Nat
    BY <1>1, <2>2, SegmentOffsets DEF ShapeInv, Shape
  <2>4. StreamTyped'
    BY <1>1, <2>1, <2>3 DEF StreamTyped
  <2>5. ChunksOK'
    <3> DEFINE size == m_segment_cmds'[idx].filesize
    <3>1. size \in Nat \ {0} /\ ChunkSize(size) \in Nat \ {0}
      BY <1>1, <1>2, <2>2, SegmentNumbers
    <3> HIDE DEF size
    <3>2. 0 = 0 * ChunkSize(size) /\ 0 <= size
      BY <3>1
    <3>3. off' = 0 /\ size = m_segment_cmds'[idx'].filesize /\ stage' # "rest" /\ 0 \in Nat
      BY <2>1 DEF size
    <3> QED
      BY <3>2, <3>3 DEF ChunksOK
  <2> QED
    BY <1>1, <1>2, <1>4, <2>1, <2>4, <2>5 DEF LoopTyped, LoopOK, Stages, Building
<1>13. CASE ChunkStep
  <2> DEFINE size == m_segment_cmds[idx].filesize
             chunk == ChunkSize(size)
  <2>1. /\ stage = "chunks" /\ stage' = "chunks" /\ idx' = idx /\ off + chunk <= size /\ off' = off + chunk
        /\ Put(pos, chunk, <<"segment payload", idx>>, off)
    BY <1>13 DEF ChunkStep
  <2>11. off' = off + chunk
    BY <2>1
  <2>2. idx \in 1 .. Len(m_segment_cmds) /\ idx <= Len(m_segment_cmds)
    <3> HIDE DEF size, chunk
    <3>1. idx \in 1 .. Len(m_segment_cmds)
      BY <2>1, LoopPositions
    <3> QED
      BY <1>1, <3>1
  <2>3. size \in Nat \ {0} /\ chunk \in Nat \ {0} /\ size = m_segment_cmds'[idx'].filesize
    BY <1>1, <1>2, <2>1, <2>2, SegmentNumbers
  <2>4. PICK k \in Nat : off = k * chunk
    BY <2>1 DEF ShapeInv, LoopOK, ChunksOK
  <2>5. ChunksOK'
    <3> HIDE DEF size
    <3>1. k + 1 \in Nat /\ off' = (k + 1) * chunk
      <4> HIDE DEF chunk
      <4>1. (k + 1) * chunk = k * chunk + chunk
        BY <2>3, OneMore
      <4> QED
        BY <2>11, <2>4, <4>1
    <3>2. off' <= size /\ stage' # "rest"
      BY <2>1
    <3> QED
      BY <2>3, <3>1, <3>2 DEF ChunksOK
  <2>6. StreamTyped' /\ off' \in Nat
    <3> HIDE DEF size, chunk
    <3>1. off' \in Nat
      <4>1. off \in Nat
        BY <1>1
      <4> QED
        BY <2>11, <2>3, <4>1
    <3>2. StreamTyped'
      BY <1>1, <2>1, <2>3, PutTyped
    <3> QED
      BY <3>1, <3>2
  <2> HIDE DEF chunk, size
  <2> QED
    BY <1>1, <1>2, <1>4, <2>1, <2>2, <2>5, <2>6 DEF LoopTyped, LoopOK, Stages, Building
<1>14. CASE ToRestStep
  <2> DEFINE size == m_segment_cmds[idx].filesize
             chunk == ChunkSize(size)
             left == LeftOver(size)
  <2>1. /\ stage = "chunks" /\ stage' = "rest" /\ idx' = idx /\ off' = off
        /\ UNCHANGED <<pos, file, shortWrites>>
    BY <1>14 DEF ToRestStep
  <2>2. idx \in 1 .. Len(m_segment_cmds) /\ idx <= Len(m_segment_cmds)
    BY <1>1, <2>1, LoopPositions
  <2>3. /\ size \in Nat \ {0} /\ chunk \in Nat \ {0} /\ size = m_segment_cmds'[idx'].filesize
        /\ left \in Nat /\ left < chunk
    BY <1>1, <1>2, <2>1, <2>2, SegmentNumbers
  <2>4. off <= size /\ \E k \in Nat : off = k * chunk
    BY <2>1 DEF ShapeInv, LoopOK, ChunksOK
  <2>5. off + left <= size
    <3>1. CASE off + chunk <= size
      <4> HIDE DEF size, chunk, left
      <4> QED
        BY <1>1, <2>3, <3>1
    <3>2. CASE ~(off + chunk <= size)
      <4>1. left = size % chunk
        BY DEF LeftOver
      <4> HIDE DEF size, chunk, left
      <4>2. PICK k \in Nat : off = k * chunk
        BY <2>4
      <4>3. k * chunk <= size /\ size < k * chunk + chunk
        BY <1>1, <2>3, <2>4, <3>2, <4>2
      <4>4. k * chunk + (size % chunk) = size
        BY <2>3, <4>3, LastChunk
      <4> QED
        BY <1>1, <2>3, <4>1, <4>2, <4>4
    <3> QED
      BY <3>1, <3>2
  <2>6. ChunksOK'
    BY <2>1, <2>3, <2>4, <2>5 DEF ChunksOK
  <2>7. StreamTyped'
    BY <1>1, <2>1 DEF StreamTyped
  <2> HIDE DEF size, chunk, left
  <2> QED
    BY <1>1, <1>2, <1>4, <2>1, <2>2, <2>6, <2>7 DEF LoopTyped, LoopOK, Stages, Building
<1>15. CASE RestStep
  <2> DEFINE left == LeftOver(m_segment_cmds[idx].filesize)
  <2>1. stage = "rest" /\ left \in Nat
    BY <1>1, <1>15, LoopPositions, SegmentNumbers DEF RestStep
  <2>2. \/ UNCHANGED <<pos, file, shortWrites>>
        \/ Put(pos, left, <<"segment payload", idx>>, off)
    BY <1>15 DEF RestStep
  <2>3. StreamTyped'
    <3> HIDE DEF left
    <3>1. CASE UNCHANGED <<pos, file, shortWrites>>
      BY <1>1, <3>1 DEF StreamTyped
    <3> QED
      BY <1>1, <2>1, <2>2, <3>1, PutTyped
  <2>4. /\ off' = off
        /\ \/ stage' = "segment payloads" /\ idx' = idx + 1 /\ idx + 1 <= Len(m_segment_cmds)
           \/ stage' = "built" /\ idx' = 1
    BY <1>1, <1>4, <1>15 DEF RestStep, Advance
  <2> QED
    BY <1>1, <1>2, <1>4, <2>3, <2>4 DEF LoopTyped, LoopOK, Stages, Building
<1> QED
  BY <1>6, <1>7, <1>8, <1>9, <1>10, <1>11, <1>12, <1>13, <1>14, <1>15 DEF BuildStep

\* The steps of Build.
LEMMA BuildShape ==
  ASSUME ShapeInv, Build
  PROVE  ShapeInv'
<1>1. BuilderTyped' /\ Kept /\ NotesAdded /\ stage \notin Collecting \cup Unfinalized \cup {"failed"}
  BY BuildKeeps
<1>2. BuilderTyped /\ m_loadCommandsFinalized /\ m_header = CommandTotals
  BY <1>1 DEF ShapeInv, Shape
<1>3. LoopTyped' /\ StreamTyped' /\ LoopOK' /\ stage' \in Building
  BY <1>1, BuildCases, BuildLoops
<1>4. NotesAdded' /\ CommandTotals' = CommandTotals
  BY <1>1, <1>2, OffsetsKept
<1>5. m_loadCommandsFinalized' /\ m_header' = CommandTotals'
  BY <1>1, <1>2, <1>4 DEF Kept
<1>6. stage' \notin Collecting \cup Unfinalized \cup Prepared
  BY <1>3 DEF Building, Collecting, Unfinalized, Prepared
<1>7. Shape'
  BY <1>4, <1>5, <1>6 DEF Shape
<1> QED
  BY <1>1, <1>3, <1>7 DEF ShapeInv

\* A function on 1 .. 4 with notes as values is a sequence of four notes.
LEMMA FourNotes ==
  ASSUME NEW f \in [1 .. 4 -> NoteType]
  PROVE  f \in Seq(NoteType) /\ Len(f) = 4
<1>1. PICK n \in Nat : n = 4
  OBVIOUS
<1>2. f \in [1 .. n -> NoteType]
  BY <1>1
<1>3. f \in Seq(NoteType)
  BY <1>2
<1>4. DOMAIN f = 1 .. n /\ DOMAIN f = 1 .. Len(f) /\ Len(f) \in Nat
  BY <1>2, <1>3
<1> QED
  BY <1>1, <1>3, <1>4

\* A list of notes gets the size of one payload.
LEMMA PayloadSet ==
  ASSUME BuilderTyped, NotesAdded, NEW owner, NEW size \in Nat, AddDataProviderForNoteCommand(owner, size)
  PROVE  /\ m_note_cmds' \in Seq(NoteType) /\ NotesAdded' /\ Len(m_note_cmds') = Len(m_note_cmds)
         /\ \A i \in 1 .. 4 : owner # NoteOwners[i] => m_note_cmds'[i] = m_note_cmds[i]
         /\ UNCHANGED <<m_loadCommandsFinalized, m_header, m_thread_cmds, m_segment_cmds>>
<1> DEFINE f == [i \in 1 .. 4 |-> IF IsNote(i, owner) THEN [m_note_cmds[i] EXCEPT !.size = size] ELSE m_note_cmds[i]]
<1>1. /\ DOMAIN m_note_cmds = 1 .. 4 /\ \A i \in 1 .. 4 : m_note_cmds[i] \in NoteType
      /\ \A i \in 1 .. 4 : m_note_cmds[i].owner = NoteOwners[i]
  BY CommandTypes DEF NotesAdded
<1>2. m_note_cmds' = f /\ UNCHANGED <<m_loadCommandsFinalized, m_header, m_thread_cmds, m_segment_cmds>>
  BY <1>1 DEF AddDataProviderForNoteCommand
<1>3. \A i \in 1 .. 4 : f[i] \in NoteType /\ f[i].owner = m_note_cmds[i].owner
  BY <1>1 DEF NoteType
<1>4. \A i \in 1 .. 4 : owner # NoteOwners[i] => f[i] = m_note_cmds[i]
  BY <1>1 DEF IsNote, Matches
<1>5. f \in [1 .. 4 -> NoteType]
  BY <1>3
<1> HIDE DEF f
<1>6. f \in Seq(NoteType) /\ Len(f) = 4
  BY <1>5, FourNotes
<1>7. NotesAdded' /\ Len(m_note_cmds) = 4
  BY <1>1, <1>2, <1>3, <1>6 DEF NotesAdded
<1> QED
  BY <1>2, <1>4, <1>6, <1>7

\* The totals that FinalizeLoadCommands puts down.
LEMMA TotalsTyped ==
  ASSUME BuilderTyped
  PROVE  CommandTotals \in [ncmds : Nat, sizeofcmds : Nat]
<1>1. /\ Len(m_note_cmds) \in Nat /\ Len(m_segment_cmds) \in Nat /\ m_thread_cmds \in Nat
      /\ NoteCmdSize \in Nat /\ ThreadCmdSize \in Nat /\ SegmentCmdSize \in Nat
  BY CommandTypes, SizeAssumption
<1>2. /\ Len(m_note_cmds) * NoteCmdSize \in Nat /\ m_thread_cmds * ThreadCmdSize \in Nat
      /\ Len(m_segment_cmds) * SegmentCmdSize \in Nat
  BY <1>1, OneMore
<1>3. /\ Len(m_note_cmds) + m_thread_cmds + Len(m_segment_cmds) \in Nat
      /\ Len(m_note_cmds) * NoteCmdSize + m_thread_cmds * ThreadCmdSize
           + Len(m_segment_cmds) * SegmentCmdSize \in Nat
  BY <1>1, <1>2
<1> QED
  BY <1>3 DEF CommandTotals

\* The collection of commands.
LEMMA CollectShape ==
  ASSUME ShapeInv, Collect
  PROVE  ShapeInv'
<1>1. BuilderTyped /\ LoopTyped /\ StreamTyped /\ Shape /\ LoopOK
  BY DEF ShapeInv
<1>2. /\ stage \in Collecting /\ UNCHANGED <<imageInfosPayloadOffset, idx, off, pos, file, shortWrites>>
      /\ UNCHANGED <<m_loadCommandsFinalized, m_header>>
  BY DEF Collect, CollectThread, CollectSegment, AddNotesToCore, AddThreadCommand, AddSegmentCommand,
         AddNoteCommands, streamVars, Collecting
<1>3. StreamTyped' /\ m_note_cmds = <<>> /\ ~m_loadCommandsFinalized /\ idx = 1 /\ file = {} /\ pos = 0
  BY <1>1, <1>2 DEF StreamTyped, Shape
<1>4. CASE CollectThread
  <2>1. m_thread_cmds' \in 0 .. MaxThreads /\ UNCHANGED <<m_note_cmds, m_segment_cmds, stage>>
    BY <1>1, <1>4, BoundAssumption DEF CollectThread, AddThreadCommand, BuilderTyped
  <2>2. BuilderTyped' /\ LoopTyped'
    BY <1>1, <1>2, <2>1 DEF BuilderTyped, LoopTyped
  <2>3. Shape' /\ LoopOK'
    BY <1>2, <1>3, <2>1 DEF Shape, LoopOK, Collecting
  <2> QED
    BY <1>3, <2>2, <2>3 DEF ShapeInv
<1>5. ASSUME NEW gap \in 0 .. 1, NEW size \in SegmentSizes, CollectSegment(gap, size) PROVE ShapeInv'
  <2>1. /\ m_segment_cmds' = Append(m_segment_cmds, NewSegment(NextAddress + gap, size))
        /\ UNCHANGED <<m_note_cmds, m_thread_cmds>> /\ stage' = "segments"
    BY <1>5 DEF CollectSegment, AddSegmentCommand
  <2>2. NextAddress \in Nat
    <3>1. CASE m_segment_cmds = <<>>
      BY <3>1 DEF NextAddress
    <3>2. CASE m_segment_cmds # <<>>
      <4> DEFINE e == m_segment_cmds[Len(m_segment_cmds)]
      <4>1. e \in SegmentType
        BY <1>1, <3>2 DEF BuilderTyped
      <4>2. e.vmaddr \in Nat /\ e.filesize \in Nat
        BY <4>1 DEF SegmentType
      <4>3. NextAddress = e.vmaddr + e.filesize + 1
        BY <3>2 DEF NextAddress
      <4> HIDE DEF e
      <4> QED
        BY <4>2, <4>3
    <3> QED
      BY <3>1, <3>2
  <2>3. NewSegment(NextAddress + gap, size) \in SegmentType
    <3>1. NextAddress + gap \in Nat /\ size \in Nat \ {0}
      BY <2>2, SizeAssumption
    <3> QED
      BY <3>1 DEF NewSegment, SegmentType
  <2>4. m_segment_cmds' \in Seq(SegmentType)
    BY <1>1, <2>1, <2>3 DEF BuilderTyped
  <2>5. BuilderTyped' /\ LoopTyped'
    BY <1>1, <1>2, <2>1, <2>4 DEF BuilderTyped, LoopTyped, Stages
  <2>6. Shape' /\ LoopOK'
    BY <1>2, <1>3, <2>1 DEF Shape, LoopOK, Collecting
  <2> QED
    BY <1>3, <2>5, <2>6 DEF ShapeInv
<1>6. CASE AddNotesToCore
  <2> DEFINE f == [i \in 1 .. 4 |-> NewNote(NoteOwners[i])]
  <2>1. /\ m_note_cmds' = m_note_cmds \o f /\ stage' = "addrable bits"
        /\ UNCHANGED <<m_segment_cmds, m_thread_cmds>>
    <3>1. DOMAIN NoteOwners = 1 .. 4
      BY DEF NoteOwners
    <3> QED
      BY <1>6, <3>1 DEF AddNotesToCore, AddNoteCommands
  <2>2. \A i \in 1 .. 4 : f[i] \in NoteType /\ f[i].owner = NoteOwners[i]
    BY DEF NewNote, NoteType, NoteOwners
  <2>3. f \in [1 .. 4 -> NoteType]
    BY <2>2
  <2> HIDE DEF f
  <2>4. f \in Seq(NoteType) /\ Len(f) = 4
    BY <2>3, FourNotes
  <2>5. m_note_cmds' = f
    BY <1>3, <2>1, <2>4, ConcatEmptySeq
  <2>6. BuilderTyped' /\ LoopTyped'
    BY <1>1, <1>2, <2>1, <2>4, <2>5 DEF BuilderTyped, LoopTyped, Stages
  <2>7. NotesAdded'
    BY <2>2, <2>4, <2>5 DEF NotesAdded
  <2>8. Shape' /\ LoopOK'
    BY <1>2, <1>3, <2>1, <2>7 DEF Shape, LoopOK, Collecting, Unfinalized
  <2> QED
    BY <1>3, <2>6, <2>8 DEF ShapeInv
<1> QED
  BY <1>4, <1>5, <1>6 DEF Collect

\* The payloads of the notes.
LEMMA PayloadsShape ==
  ASSUME ShapeInv, AddPayloads
  PROVE  ShapeInv'
<1>1. BuilderTyped /\ LoopTyped /\ StreamTyped /\ Shape /\ LoopOK
  BY DEF ShapeInv
<1>2. /\ stage \in Unfinalized \cup Prepared /\ UNCHANGED <<idx, off, pos, file, shortWrites>>
  BY DEF AddPayloads, AddAddrableBits, AddrableBitsFail, AddProcessMetadata, FinalizeForImageInfos,
         AddImageInfos, AddMainBinSpec, SetFileOffsets, SetPayload, streamVars, Unfinalized, Prepared
<1>3. /\ StreamTyped' /\ NotesAdded /\ idx = 1 /\ file = {} /\ pos = 0
      /\ idx \in Nat \ {0} /\ off \in Nat
  BY <1>1, <1>2 DEF StreamTyped, Shape, LoopTyped, Unfinalized, Prepared, Collecting
<1>4. ASSUME NEW owner, NEW size \in Nat, AddDataProviderForNoteCommand(owner, size), imageInfosPayloadOffset' \in Nat
      PROVE  BuilderTyped' /\ NotesAdded' /\ CommandTotals' = CommandTotals
             /\ UNCHANGED <<m_loadCommandsFinalized, m_header>>
  <2>1. /\ m_note_cmds' \in Seq(NoteType) /\ NotesAdded' /\ Len(m_note_cmds') = Len(m_note_cmds)
        /\ UNCHANGED <<m_loadCommandsFinalized, m_header, m_thread_cmds, m_segment_cmds>>
    BY <1>1, <1>3, <1>4, PayloadSet
  <2> QED
    BY <1>1, <1>4, <2>1 DEF BuilderTyped, CommandTotals
<1>5. ASSUME stage' \in Unfinalized \cup Prepared \cup {"failed"}, BuilderTyped', NotesAdded',
             stage' \in Unfinalized => ~m_loadCommandsFinalized',
             stage' \in Prepared => m_loadCommandsFinalized' /\ m_header' = CommandTotals'
      PROVE  ShapeInv'
  <2>1. LoopTyped'
    BY <1>2, <1>3, <1>5 DEF LoopTyped, Stages, Unfinalized, Prepared
  <2>2. Shape'
    BY <1>2, <1>3, <1>5 DEF Shape, Unfinalized, Prepared, Collecting
  <2>3. LoopOK'
    BY <1>5 DEF LoopOK, Unfinalized, Prepared
  <2> QED
    BY <1>3, <1>5, <2>1, <2>2, <2>3 DEF ShapeInv
<1>6. CASE AddAddrableBits \/ (\E size \in MetadataSizes : AddProcessMetadata(size)) \/ AddMainBinSpec
  <2>1. PICK at, owner, size, next : /\ SetPayload(at, owner, size, next) /\ size \in Nat
                                     /\ \/ at = "addrable bits" /\ next = "metadata"
                                        \/ at = "metadata" /\ next = "finalize"
                                        \/ at = "main bin spec" /\ next = "offsets"
    BY <1>6, SizeAssumption DEF AddAddrableBits, AddProcessMetadata, AddMainBinSpec,
                                AddrableBitsSize, MainBinSpecSize
  <2>2. /\ stage = at /\ AddDataProviderForNoteCommand(owner, size) /\ stage' = next
        /\ imageInfosPayloadOffset' = imageInfosPayloadOffset
    BY <2>1 DEF SetPayload
  <2>3. /\ BuilderTyped' /\ NotesAdded' /\ CommandTotals' = CommandTotals
        /\ UNCHANGED <<m_loadCommandsFinalized, m_header>>
    BY <1>1, <1>4, <2>1, <2>2 DEF BuilderTyped
  <2>4. /\ stage \in Unfinalized => ~m_loadCommandsFinalized
        /\ stage \in Prepared => m_loadCommandsFinalized /\ m_header = CommandTotals
    BY <1>1 DEF Shape, Unfinalized, Prepared, Collecting
  <2> QED
    BY <1>5, <2>1, <2>2, <2>3, <2>4 DEF Unfinalized, Prepared
<1>7. CASE AddrableBitsFail
  <2>1. stage' = "failed" /\ UNCHANGED <<builderVars, imageInfosPayloadOffset>>
    BY <1>7 DEF AddrableBitsFail
  <2>2. BuilderTyped' /\ NotesAdded'
    BY <1>1, <1>3, <2>1, BuilderStands, OffsetsKept
  <2> QED
    BY <1>5, <2>1, <2>2 DEF Unfinalized, Prepared
<1>8. CASE FinalizeForImageInfos
  <2>1. /\ stage = "finalize" /\ stage' = "image infos" /\ imageInfosPayloadOffset' = imageInfosPayloadOffset
        /\ m_header' = IF m_loadCommandsFinalized THEN m_header ELSE CommandTotals
        /\ m_loadCommandsFinalized' = TRUE /\ UNCHANGED <<m_note_cmds, m_thread_cmds, m_segment_cmds>>
    BY <1>8 DEF FinalizeForImageInfos, FinalizeLoadCommands
  <2>2. m_header' = CommandTotals
    BY <1>1, <2>1 DEF Shape, Unfinalized
  <2>3. CommandTotals' = CommandTotals
    BY <2>1 DEF CommandTotals
  <2>4. BuilderTyped' /\ NotesAdded'
    BY <1>1, <1>3, <2>1, <2>2, TotalsTyped DEF BuilderTyped, NotesAdded
  <2> QED
    BY <1>5, <2>1, <2>2, <2>3, <2>4 DEF Unfinalized, Prepared
<1>9. ASSUME NEW size \in ImageInfosSizes, AddImageInfos(size) PROVE ShapeInv'
  <2>1. stage = "image infos" /\ m_loadCommandsFinalized /\ m_header = CommandTotals /\ size \in Nat
    BY <1>1, <1>9, SizeAssumption DEF AddImageInfos, Shape, Collecting, Unfinalized
  <2>2. imageInfosPayloadOffset' \in Nat
    <3>1. PICK i \in DOMAIN m_note_cmds : imageInfosPayloadOffset' = NotePayloadOffset(i)
      BY <1>9 DEF AddImageInfos
    <3>2. i \in 1 .. Len(m_note_cmds) /\ Len(m_note_cmds) \in Nat
      BY <1>1, CommandTypes
    <3>3. i \in 1 .. Len(m_note_cmds) + 1
      BY <3>2
    <3> QED
      BY <1>1, <3>1, <3>3, NoteOffsets
  <2>3. CASE AddDataProviderForNoteCommand(AllImageInfosOwner, size) /\ stage' = "main bin spec"
    <3>1. /\ BuilderTyped' /\ NotesAdded' /\ CommandTotals' = CommandTotals
          /\ UNCHANGED <<m_loadCommandsFinalized, m_header>>
      BY <1>4, <2>1, <2>2, <2>3
    <3> QED
      BY <1>5, <2>1, <2>3, <3>1 DEF Unfinalized, Prepared
  <2>4. CASE stage' = "failed" /\ UNCHANGED builderVars
    <3>1. BuilderTyped' /\ NotesAdded'
      BY <1>1, <1>3, <2>2, <2>4 DEF BuilderTyped, NotesAdded, builderVars
    <3> QED
      BY <1>5, <2>4, <3>1 DEF Unfinalized, Prepared
  <2> QED
    BY <1>9, <2>3, <2>4 DEF AddImageInfos
<1>10. CASE SetFileOffsets
  <2>1. stage = "offsets" /\ stage' = "header"
    BY <1>10 DEF SetFileOffsets
  <2>2. BuilderTyped' /\ Kept
    BY <1>1, <1>3, <1>10, AllOffsetsSet
  <2>3. NotesAdded' /\ CommandTotals' = CommandTotals
    BY <1>1, <1>3, <2>2, OffsetsKept
  <2>4. m_loadCommandsFinalized /\ m_header = CommandTotals
    BY <1>1, <2>1 DEF Shape, Collecting, Unfinalized
  <2>5. m_loadCommandsFinalized' /\ m_header' = CommandTotals'
    BY <2>2, <2>3, <2>4 DEF Kept
  <2> QED
    BY <1>5, <2>1, <2>2, <2>3, <2>5 DEF Unfinalized, Prepared
<1> QED
  BY <1>6, <1>7, <1>8, <1>9, <1>10 DEF AddPayloads

\* Steps that change nothing.
LEMMA ShapeStands ==
  ASSUME ShapeInv, UNCHANGED vars
  PROVE  ShapeInv'
<1>1. /\ UNCHANGED <<m_loadCommandsFinalized, m_header, m_note_cmds, m_thread_cmds, m_segment_cmds>>
      /\ UNCHANGED <<imageInfosPayloadOffset, stage, idx, off, pos, file, shortWrites>>
  BY DEF vars, builderVars, streamVars
<1>2. BuilderTyped' /\ LoopTyped' /\ StreamTyped'
  BY <1>1 DEF ShapeInv, BuilderTyped, LoopTyped, StreamTyped
<1>3. Shape'
  BY <1>1 DEF ShapeInv, Shape, NotesAdded, CommandTotals
<1>4. LoopOK'
  BY <1>1 DEF ShapeInv, LoopOK, ChunksOK
<1> QED
  BY <1>2, <1>3, <1>4 DEF ShapeInv

\* The shape of the builder is an invariant.
LEMMA ShapeInvariance == Spec => []ShapeInv
<1>1. Init => ShapeInv
  <2> SUFFICES ASSUME Init PROVE ShapeInv
    OBVIOUS
  <2>1. BuilderTyped
    <3>1. <<>> \in Seq(NoteType) /\ <<>> \in Seq(SegmentType) /\ 0 \in 0 .. MaxThreads
      BY BoundAssumption
    <3>2. [ncmds |-> 0, sizeofcmds |-> 0] \in [ncmds : Nat, sizeofcmds : Nat]
      OBVIOUS
    <3> QED
      BY <3>1, <3>2 DEF Init, BuilderTyped
  <2>2. LoopTyped /\ StreamTyped
    BY BoundAssumption DEF Init, LoopTyped, StreamTyped, Stages
  <2>3. Shape /\ LoopOK
    BY DEF Init, Shape, LoopOK, Collecting
  <2> QED
    BY <2>1, <2>2, <2>3 DEF ShapeInv
<1>2. ShapeInv /\ [Next]_vars => ShapeInv'
  BY CollectShape, PayloadsShape, BuildShape, ShapeStands DEF Next, Finished
<1> QED
  BY <1>1, <1>2, PTL DEF Spec

\* Every variable has its type, for all numbers of threads and segments and all
\* sizes: the offsets and sums that the builder computes are naturals.
THEOREM BuilderTypeCorrect == Spec => []TypeOK
<1>1. ShapeInv => TypeOK
  <2> SUFFICES ASSUME ShapeInv PROVE TypeOK
    OBVIOUS
  <2>1. BuilderTyped /\ LoopTyped /\ StreamTyped
    BY DEF ShapeInv
  <2>2. \A i \in DOMAIN m_note_cmds : m_note_cmds[i] \in NoteType
    BY <2>1, CommandTypes
  <2>3. \A i \in DOMAIN m_segment_cmds : m_segment_cmds[i] \in SegmentType
    BY <2>1, CommandTypes
  <2>4. m_loadCommandsFinalized \in BOOLEAN /\ m_header \in [ncmds : Nat, sizeofcmds : Nat]
    BY <2>1 DEF BuilderTyped
  <2> QED
    BY <2>1, <2>2, <2>3, <2>4 DEF TypeOK, BuilderTyped, LoopTyped, StreamTyped, NoteType, SegmentType
<1> QED
  BY <1>1, ShapeInvariance, PTL
-----------------------------------------------------------------------------
(* Where the next piece goes. *)

\* The places of the commands in a file without incomplete writes.
NoteCmdAt(i) == HeaderSize + (i - 1) * NoteCmdSize

ThreadCmdAt(i) == NoteCmdAt(5) + (i - 1) * ThreadCmdSize

SegmentCmdAt(i) == ThreadCmdAt(m_thread_cmds + 1) + (i - 1) * SegmentCmdSize

\* All pieces are in front of x.
Behind(x) == \A p \in file : EndOf(p) <= x

\* The stream is at x, or short of it because of incomplete writes.
Reached(x) == pos <= x /\ (shortWrites = 0 => pos = x) /\ Behind(pos)

FrontOK ==
  /\ stage = "note commands" => Reached(NoteCmdAt(idx))
  /\ stage = "thread commands" => Reached(ThreadCmdAt(idx))
  /\ stage = "segment commands" => Reached(SegmentCmdAt(idx))
  /\ stage = "note payloads" => Behind(NotePayloadOffset(idx))
  /\ stage = "segment payloads" => Behind(SegmentPayloadOffset(idx))
  /\ stage \in {"chunks", "rest"} => Reached(SegmentPayloadOffset(idx) + off)

FrontInv == ShapeInv /\ FrontOK /\ PiecesDisjoint

\* One command follows the other, and the payloads follow the commands.
LEMMA CommandPlaces ==
  ASSUME BuilderTyped
  PROVE  /\ \A i \in Nat \ {0} : /\ NoteCmdAt(i) \in Nat /\ NoteCmdAt(i + 1) = NoteCmdAt(i) + NoteCmdSize
                                 /\ ThreadCmdAt(i) \in Nat /\ ThreadCmdAt(i + 1) = ThreadCmdAt(i) + ThreadCmdSize
                                 /\ SegmentCmdAt(i) \in Nat /\ SegmentCmdAt(i + 1) = SegmentCmdAt(i) + SegmentCmdSize
         /\ NoteCmdAt(1) = HeaderSize /\ ThreadCmdAt(1) = NoteCmdAt(5)
         /\ SegmentCmdAt(1) = ThreadCmdAt(m_thread_cmds + 1)
         /\ NotesAdded /\ m_header = CommandTotals =>
              /\ SegmentCmdAt(Len(m_segment_cmds) + 1) = HeaderSize + m_header.sizeofcmds
              /\ SegmentCmdAt(Len(m_segment_cmds) + 1) <= NotePayloadOffset(1)
<1>1. /\ HeaderSize \in Nat /\ NoteCmdSize \in Nat /\ ThreadCmdSize \in Nat /\ SegmentCmdSize \in Nat
      /\ m_thread_cmds \in Nat /\ Len(m_segment_cmds) \in Nat
  BY CommandTypes, SizeAssumption
<1>2. ASSUME NEW a \in Nat, NEW c \in Nat, NEW i \in Nat \ {0}
      PROVE  a + (i - 1) * c \in Nat /\ a + ((i + 1) - 1) * c = (a + (i - 1) * c) + c
  <2>1. i - 1 \in Nat /\ (i + 1) - 1 = (i - 1) + 1
    OBVIOUS
  <2>2. (i - 1) * c \in Nat /\ ((i - 1) + 1) * c = (i - 1) * c + c
    BY <2>1, OneMore
  <2> QED
    BY <2>1, <2>2
<1>3. ASSUME NEW a \in Nat, NEW c \in Nat PROVE a + (1 - 1) * c = a
  OBVIOUS
<1>4. \A i \in Nat \ {0} : NoteCmdAt(i) \in Nat /\ NoteCmdAt(i + 1) = NoteCmdAt(i) + NoteCmdSize
  BY <1>1, <1>2 DEF NoteCmdAt
<1>5. NoteCmdAt(5) \in Nat
  BY <1>4
<1>6. \A i \in Nat \ {0} : ThreadCmdAt(i) \in Nat /\ ThreadCmdAt(i + 1) = ThreadCmdAt(i) + ThreadCmdSize
  BY <1>1, <1>2, <1>5 DEF ThreadCmdAt
<1>7. ThreadCmdAt(m_thread_cmds + 1) \in Nat
  <2>1. m_thread_cmds + 1 \in Nat \ {0}
    BY <1>1
  <2> QED
    BY <1>6, <2>1
<1>8. \A i \in Nat \ {0} : SegmentCmdAt(i) \in Nat /\ SegmentCmdAt(i + 1) = SegmentCmdAt(i) + SegmentCmdSize
  BY <1>1, <1>2, <1>7 DEF SegmentCmdAt
<1>9. /\ NoteCmdAt(1) = HeaderSize /\ ThreadCmdAt(1) = NoteCmdAt(5)
      /\ SegmentCmdAt(1) = ThreadCmdAt(m_thread_cmds + 1)
  BY <1>1, <1>3, <1>5, <1>7 DEF NoteCmdAt, ThreadCmdAt, SegmentCmdAt
<1>10. ASSUME NotesAdded, m_header = CommandTotals
       PROVE  /\ SegmentCmdAt(Len(m_segment_cmds) + 1) = HeaderSize + m_header.sizeofcmds
              /\ SegmentCmdAt(Len(m_segment_cmds) + 1) <= NotePayloadOffset(1)
  <2> DEFINE t == m_thread_cmds * ThreadCmdSize
             n == Len(m_segment_cmds) * SegmentCmdSize
             h == HeaderSize
             c == 4 * NoteCmdSize
  <2>1. m_header.sizeofcmds = c + t + n
    BY <1>10 DEF CommandTotals, NotesAdded
  <2>2. (m_thread_cmds + 1) - 1 = m_thread_cmds /\ (Len(m_segment_cmds) + 1) - 1 = Len(m_segment_cmds) /\ 5 - 1 = 4
    BY <1>1
  <2>3. SegmentCmdAt(Len(m_segment_cmds) + 1) = ((h + c) + t) + n
    BY <2>2 DEF SegmentCmdAt, ThreadCmdAt, NoteCmdAt
  <2>4. t \in Nat /\ n \in Nat /\ c \in Nat /\ h \in Nat
    BY <1>1, OneMore
  <2>5. h + m_header.sizeofcmds <= NotePayloadOffset(1)
    BY NoteOffsets
  <2> HIDE DEF t, n, h, c
  <2>6. ((h + c) + t) + n = h + (c + t + n)
    BY <2>4
  <2> QED
    BY <2>1, <2>3, <2>5, <2>6 DEF h
<1> QED
  BY <1>4, <1>6, <1>8, <1>9, <1>10

\* What is put down behind all pieces overwrites none of them.
LEMMA PutBehind ==
  ASSUME StreamTyped, PiecesDisjoint, NEW at \in Nat, NEW len \in Nat, NEW part, NEW ref,
         Put(at, len, part, ref), Behind(at)
  PROVE  /\ PiecesDisjoint' /\ Behind(pos)' /\ pos' \in Nat /\ pos' <= at + len
         /\ shortWrites' = 0 => shortWrites = 0 /\ pos' = at + len
<1>1. PICK n \in 0 .. len :
        /\ file' = file \cup {Piece(at, n, part, ref)} /\ pos' = at + n
        /\ shortWrites' = 0 => shortWrites = 0 /\ n = len
  BY DEF Put
<1> DEFINE q == Piece(at, n, part, ref)
<1>2. q.at = at /\ EndOf(q) = at + n
  BY DEF Piece, EndOf
<1>3. \A p \in file : EndOf(p) \in Nat /\ EndOf(p) <= at
  BY DEF StreamTyped, Behind, EndOf
<1> HIDE DEF q
<1>4. PiecesDisjoint'
  <2> SUFFICES ASSUME NEW a \in file', NEW b \in file', a # b PROVE EndOf(a) <= b.at \/ EndOf(b) <= a.at
    BY DEF PiecesDisjoint, EndOf
  <2>1. (a \in file \/ a = q) /\ (b \in file \/ b = q)
    BY <1>1 DEF q
  <2> QED
    BY <1>2, <1>3, <2>1 DEF PiecesDisjoint
<1>5. pos' \in Nat /\ pos' <= at + len /\ at <= pos' /\ EndOf(q) = pos'
  BY <1>1, <1>2
<1>6. Behind(pos)'
  <2> SUFFICES ASSUME NEW a \in file' PROVE EndOf(a) <= pos'
    BY DEF Behind, EndOf
  <2>1. CASE a \in file
    BY <1>3, <1>5, <2>1
  <2>2. CASE a = q
    BY <1>5, <2>2
  <2> QED
    BY <1>1, <2>1, <2>2 DEF q
<1>7. shortWrites' = 0 => shortWrites = 0 /\ pos' = at + len
  BY <1>1
<1> QED
  BY <1>4, <1>5, <1>6, <1>7

\* What is put down where the stream is brings it to the next place.
LEMMA PutReaches ==
  ASSUME StreamTyped, PiecesDisjoint, NEW x \in Nat, Reached(x), NEW len \in Nat, NEW part, NEW ref,
         Put(pos, len, part, ref)
  PROVE  /\ PiecesDisjoint' /\ Behind(pos)' /\ pos' \in Nat /\ pos' <= x + len
         /\ shortWrites' = 0 => shortWrites = 0 /\ pos' = x + len
<1>1. pos \in Nat /\ pos <= x /\ (shortWrites = 0 => pos = x) /\ Behind(pos)
  BY DEF StreamTyped, Reached
<1>2. /\ PiecesDisjoint' /\ Behind(pos)' /\ pos' \in Nat /\ pos' <= pos + len
      /\ shortWrites' = 0 => shortWrites = 0 /\ pos' = pos + len
  BY <1>1, PutBehind
<1>3. pos' <= x + len
  BY <1>1, <1>2
<1> QED
  BY <1>1, <1>2, <1>3

\* Pieces that are behind a place are behind a later one.
LEMMA BehindLater ==
  ASSUME StreamTyped, NEW x \in Nat, NEW y \in Nat, Behind(x), x <= y
  PROVE  Behind(y)
BY DEF StreamTyped, Behind, EndOf

\* The steps of Build.
LEMMA BuildFront ==
  ASSUME FrontInv, ShapeInv', BuildStep, Kept, stage \notin Collecting
  PROVE  FrontOK' /\ PiecesDisjoint'
<1>1. /\ ShapeInv /\ BuilderTyped /\ StreamTyped /\ StreamTyped' /\ PiecesDisjoint /\ FrontOK
      /\ idx \in Nat \ {0} /\ pos \in Nat /\ off \in Nat /\ BuilderTyped' /\ NotesAdded
  BY DEF FrontInv, ShapeInv, StreamTyped, LoopTyped, Shape
<1>2. /\ Len(m_note_cmds) = 4 /\ Len(m_segment_cmds) \in Nat /\ m_thread_cmds \in Nat
      /\ m_thread_cmds' = m_thread_cmds
  BY <1>1, CommandTypes DEF NotesAdded, Kept
<1>3. /\ \A i : NotePayloadOffset(i)' = NotePayloadOffset(i)
      /\ \A i : SegmentPayloadOffset(i)' = SegmentPayloadOffset(i)
  BY <1>1, OffsetsKept
<1>4. HeaderSize \in Nat /\ NoteCmdSize \in Nat /\ ThreadCmdSize \in Nat /\ SegmentCmdSize \in Nat
  BY SizeAssumption
<1>5. \A i \in Nat \ {0} : /\ NoteCmdAt(i) \in Nat /\ NoteCmdAt(i + 1) = NoteCmdAt(i) + NoteCmdSize
                           /\ ThreadCmdAt(i) \in Nat /\ ThreadCmdAt(i + 1) = ThreadCmdAt(i) + ThreadCmdSize
                           /\ SegmentCmdAt(i) \in Nat /\ SegmentCmdAt(i + 1) = SegmentCmdAt(i) + SegmentCmdSize
  BY <1>1, CommandPlaces
<1>6. /\ NoteCmdAt(1) = HeaderSize /\ ThreadCmdAt(1) = NoteCmdAt(5)
      /\ SegmentCmdAt(1) = ThreadCmdAt(m_thread_cmds + 1)
  BY <1>1, CommandPlaces
<1>7. ASSUME stage \in {"segment commands"}
      PROVE  SegmentCmdAt(Len(m_segment_cmds) + 1) <= NotePayloadOffset(1) /\ NotePayloadOffset(1) \in Nat
  <2>1. m_header = CommandTotals
    BY <1>1, <1>7 DEF ShapeInv, Shape, Collecting, Unfinalized
  <2>2. 1 \in 1 .. Len(m_note_cmds) + 1
    BY <1>2
  <2> QED
    BY <1>1, <2>1, <2>2, CommandPlaces, NoteOffsets
<1>8. \A i : SegmentCmdAt(i)' = SegmentCmdAt(i)
  BY <1>2 DEF SegmentCmdAt, ThreadCmdAt, NoteCmdAt
<1> DEFINE At(y) == pos' <= y /\ (shortWrites' = 0 => pos' = y) /\ Behind(pos)'
<1>9. CASE HeaderStep
  <2>1. stage' = "note commands" /\ idx' = 1 /\ Put(pos, HeaderSize, <<"header">>, m_header) /\ file = {} /\ pos = 0
    BY <1>9 DEF HeaderStep, FrontInv, ShapeInv, Shape, Prepared
  <2>2. Reached(0) /\ 0 \in Nat /\ 0 + HeaderSize = HeaderSize
    <3>1. file = {} /\ pos = 0
      BY <2>1
    <3>2. Reached(0)
      BY <3>1 DEF Reached, Behind
    <3> QED
      BY <1>4, <3>2
  <2>3. PiecesDisjoint' /\ At(HeaderSize)
    BY <1>1, <1>4, <2>1, <2>2, PutReaches
  <2> QED
    BY <1>6, <2>1, <2>3 DEF FrontOK, Reached
<1>10. CASE NoteStep
  <2>1. /\ Reached(NoteCmdAt(idx)) /\ \E part, ref : Put(pos, NoteCmdSize, part, ref)
        /\ \/ stage' = "note commands" /\ idx' = idx + 1
           \/ stage' = "thread commands" /\ idx' = 1 /\ idx + 1 = 5
    <3>1. /\ stage = "note commands"
          /\ Put(pos, NoteCmdSize, <<"note", idx>>, [offset |-> NotePayloadOffset(idx), size |-> m_note_cmds[idx].size])
          /\ Advance("note commands", Len(m_note_cmds), "thread commands")
      BY <1>10 DEF NoteStep
    <3>2. idx \in 1 .. 4 /\ (~(idx < 4) => idx + 1 = 5)
      <4>1. idx \in 1 .. 4
        BY <1>1, <3>1, LoopPositions
      <4> QED
        BY <4>1
    <3> QED
      BY <1>1, <1>2, <3>1, <3>2 DEF FrontOK, Advance
  <2>2. PiecesDisjoint' /\ At(NoteCmdAt(idx) + NoteCmdSize)
    BY <1>1, <1>4, <1>5, <2>1, PutReaches
  <2> QED
    BY <1>1, <1>5, <1>6, <2>1, <2>2 DEF FrontOK, Reached
<1>11. CASE ThreadStep
  <2>1. /\ Reached(ThreadCmdAt(idx)) /\ Put(pos, ThreadCmdSize, <<"thread", idx>>, 0)
        /\ \/ stage' = "thread commands" /\ idx' = idx + 1
           \/ stage' = "segment commands" /\ idx' = 1 /\ idx = m_thread_cmds
    <3>1. idx <= m_thread_cmds /\ ~(idx < m_thread_cmds) => idx = m_thread_cmds
      BY <1>1, <1>2
    <3> QED
      BY <1>1, <1>11, <3>1 DEF ThreadStep, Advance, FrontOK
  <2>2. PiecesDisjoint' /\ At(ThreadCmdAt(idx) + ThreadCmdSize)
    BY <1>1, <1>4, <1>5, <2>1, PutReaches
  <2>3. PiecesDisjoint' /\ At(ThreadCmdAt(idx + 1))
    BY <1>1, <1>5, <2>2
  <2>4. CASE stage' = "thread commands" /\ idx' = idx + 1
    BY <2>3, <2>4 DEF FrontOK, Reached
  <2>5. CASE stage' = "segment commands" /\ idx' = 1 /\ idx = m_thread_cmds
    <3>1. At(SegmentCmdAt(idx)')
      BY <1>6, <1>8, <2>3, <2>5
    <3> QED
      BY <2>3, <2>5, <3>1 DEF FrontOK, Reached
  <2> QED
    BY <2>1, <2>4, <2>5
<1>12. CASE SegmentStep
  <2>1. /\ Reached(SegmentCmdAt(idx)) /\ stage = "segment commands" /\ \E part, ref : Put(pos, SegmentCmdSize, part, ref)
        /\ \/ stage' = "segment commands" /\ idx' = idx + 1
           \/ stage' = "note payloads" /\ idx' = 1 /\ idx = Len(m_segment_cmds)
    <3>1. idx <= Len(m_segment_cmds) /\ ~(idx < Len(m_segment_cmds)) => idx = Len(m_segment_cmds)
      BY <1>1, <1>2
    <3> QED
      BY <1>1, <1>12, <3>1 DEF SegmentStep, Advance, FrontOK
  <2>2. PiecesDisjoint' /\ At(SegmentCmdAt(idx) + SegmentCmdSize) /\ pos' \in Nat
    BY <1>1, <1>4, <1>5, <2>1, PutReaches
  <2>3. PiecesDisjoint' /\ At(SegmentCmdAt(idx + 1))
    BY <1>1, <1>5, <2>2
  <2>4. CASE stage' = "segment commands" /\ idx' = idx + 1
    <3>1. At(SegmentCmdAt(idx)')
      BY <1>8, <2>3, <2>4
    <3> QED
      BY <2>3, <2>4, <3>1 DEF FrontOK, Reached
  <2>5. CASE stage' = "note payloads" /\ idx' = 1 /\ idx = Len(m_segment_cmds)
    <3>1. pos' <= SegmentCmdAt(idx + 1) /\ Behind(pos)' /\ SegmentCmdAt(idx + 1) \in Nat
      BY <1>1, <1>5, <2>3
    <3>2. SegmentCmdAt(idx + 1) <= NotePayloadOffset(1) /\ NotePayloadOffset(1) \in Nat
      BY <1>7, <2>1, <2>5
    <3>3. \A p \in file' : EndOf(p) <= NotePayloadOffset(1)
      <4>1. pos' <= NotePayloadOffset(1)
        BY <2>2, <3>1, <3>2
      <4> QED
        BY <1>1, <2>2, <3>1, <3>2, <4>1 DEF Behind, StreamTyped, EndOf
    <3>4. Behind(NotePayloadOffset(idx))'
      BY <1>3, <2>5, <3>3 DEF Behind, EndOf
    <3> QED
      BY <2>3, <2>5, <3>4 DEF FrontOK
  <2> QED
    BY <2>1, <2>4, <2>5
<1>13. CASE NotePayloadStep
  <2>1. stage = "note payloads" /\ idx \in 1 .. 4
    BY <1>1, <1>13, LoopPositions DEF NotePayloadStep
  <2>11. idx \in 1 .. 4 /\ (idx < 4 \/ idx = 4)
    <3>1. idx \in 1 .. 4
      BY <2>1
    <3> QED
      BY <3>1
  <2>2. idx \in 1 .. Len(m_note_cmds) /\ idx \in 1 .. Len(m_note_cmds) + 1 /\ 4 \in 1 .. Len(m_note_cmds)
    BY <1>2, <2>11
  <2> DEFINE x == NotePayloadOffset(idx)
             len == m_note_cmds[idx].size
  <2>3. x \in Nat /\ len \in Nat /\ NotePayloadOffset(idx + 1) = x + len
    BY <1>1, <2>2, NoteOffsets, CommandTypes
  <2>4. /\ Behind(x) /\ Put(x, len, <<"note payload", idx>>, 0)
        /\ \/ stage' = "note payloads" /\ idx' = idx + 1
           \/ stage' = "segment payloads" /\ idx' = 1 /\ idx = 4
    BY <1>1, <1>2, <1>13, <2>1, <2>11 DEF NotePayloadStep, Advance, FrontOK
  <2>5. x + len \in Nat
    <3> HIDE DEF x, len
    <3> QED
      BY <2>3
  <2>6. PiecesDisjoint' /\ \A p \in file' : EndOf(p) <= x + len
    <3> HIDE DEF x, len
    <3>1. PiecesDisjoint' /\ Behind(pos)' /\ pos' \in Nat /\ pos' <= x + len
      BY <1>1, <2>3, <2>4, PutBehind
    <3> QED
      BY <1>1, <2>5, <3>1 DEF Behind, StreamTyped, EndOf
  <2>7. CASE stage' = "note payloads" /\ idx' = idx + 1
    <3>1. Behind(NotePayloadOffset(idx))'
      BY <1>3, <2>3, <2>6, <2>7 DEF Behind, EndOf
    <3> QED
      BY <2>6, <2>7, <3>1 DEF FrontOK
  <2>8. CASE stage' = "segment payloads" /\ idx' = 1 /\ idx = 4
    <3>1. x + len <= SegmentPayloadOffset(1) /\ SegmentPayloadOffset(1) \in Nat
      <4>1. 1 \in 1 .. Len(m_segment_cmds) + 1
        BY <1>2
      <4> QED
        BY <1>1, <2>8, <4>1, SegmentOffsets
    <3>2. \A p \in file' : EndOf(p) <= SegmentPayloadOffset(1)
      <4> HIDE DEF x, len
      <4> QED
        BY <1>1, <2>5, <2>6, <3>1 DEF StreamTyped, EndOf
    <3>3. Behind(SegmentPayloadOffset(idx))'
      BY <1>3, <2>8, <3>2 DEF Behind, EndOf
    <3> QED
      BY <2>6, <2>8, <3>3 DEF FrontOK
  <2> QED
    BY <2>4, <2>7, <2>8
<1>14. CASE SkipStep
  <2>1. file' = file /\ pos' = pos /\ shortWrites' = shortWrites /\ idx' = idx
    BY <1>14 DEF SkipStep
  <2>2. PiecesDisjoint'
    BY <1>1, <2>1 DEF PiecesDisjoint
  <2>3. idx = 1
    <3>1. m_segment_cmds = <<>> => Len(m_segment_cmds) = 0
      OBVIOUS
    <3>2. stage = "thread commands" => idx = 1 \/ idx <= m_thread_cmds
      BY <1>1 DEF ShapeInv, LoopOK
    <3>3. stage \in {"segment commands", "segment payloads"} => idx = 1 \/ idx <= Len(m_segment_cmds)
      BY <1>1 DEF ShapeInv, LoopOK
    <3>4. ~(idx <= 0)
      BY <1>1
    <3> QED
      BY <1>14, <3>1, <3>2, <3>3, <3>4 DEF SkipStep
  <2>4. CASE stage = "thread commands" /\ m_thread_cmds = 0 /\ stage' = "segment commands"
    <3>1. ThreadCmdAt(1) = SegmentCmdAt(1)
      <4>1. m_thread_cmds = 0
        BY <2>4
      <4>2. m_thread_cmds + 1 = 1
        BY <4>1
      <4> QED
        BY <1>6, <4>2
    <3>2. Reached(ThreadCmdAt(1))
      BY <1>1, <2>3, <2>4 DEF FrontOK
    <3>3. Reached(SegmentCmdAt(idx))'
      BY <1>8, <2>1, <2>3, <3>1, <3>2 DEF Reached, Behind
    <3> QED
      BY <2>2, <2>4, <3>3 DEF FrontOK
  <2>5. CASE stage = "segment commands" /\ m_segment_cmds = <<>> /\ stage' = "note payloads"
    <3>1. Len(m_segment_cmds) + 1 = 1 /\ 1 \in Nat \ {0}
      <4>1. m_segment_cmds = <<>>
        BY <2>5
      <4> QED
        BY <4>1
    <3>2. SegmentCmdAt(1) <= NotePayloadOffset(1) /\ NotePayloadOffset(1) \in Nat /\ SegmentCmdAt(1) \in Nat
      BY <1>5, <1>7, <2>5, <3>1, Zenon
    <3>3. Reached(SegmentCmdAt(1))
      BY <1>1, <2>3, <2>5 DEF FrontOK
    <3>4. pos <= NotePayloadOffset(1)
      BY <1>1, <3>2, <3>3 DEF Reached
    <3>5. Behind(NotePayloadOffset(1))
      BY <1>1, <3>2, <3>3, <3>4, BehindLater DEF Reached
    <3>6. Behind(NotePayloadOffset(idx))'
      BY <1>3, <2>1, <2>3, <3>5 DEF Behind
    <3> QED
      BY <2>2, <2>5, <3>6 DEF FrontOK
  <2>6. CASE stage' = "built"
    BY <2>2, <2>6 DEF FrontOK
  <2> QED
    BY <1>14, <2>4, <2>5, <2>6 DEF SkipStep
<1>15. CASE FailStep
  BY <1>1, <1>15 DEF FailStep, FrontOK, PiecesDisjoint
<1>16. CASE BeginStep
  <2>1. /\ stage = "segment payloads" /\ stage' = "chunks" /\ idx <= Len(m_segment_cmds)
        /\ pos' = SegmentPayloadOffset(idx) /\ off' = 0 /\ idx' = idx /\ file' = file
    BY <1>16 DEF BeginStep
  <2>2. idx \in 1 .. Len(m_segment_cmds) + 1
    <3>1. idx <= Len(m_segment_cmds)
      BY <2>1
    <3> QED
      BY <1>1, <1>2, <3>1
  <2>3. SegmentPayloadOffset(idx) \in Nat
    BY <1>1, <2>2, SegmentOffsets
  <2>4. pos' = SegmentPayloadOffset(idx)' + off' /\ pos' <= pos'
    <3>1. pos' = SegmentPayloadOffset(idx) /\ SegmentPayloadOffset(idx)' = SegmentPayloadOffset(idx) /\ off' = 0
      BY <1>3, <2>1
    <3> QED
      BY <2>3, <3>1
  <2>5. PiecesDisjoint' /\ Behind(pos)'
    BY <1>1, <2>1 DEF FrontOK, Behind, PiecesDisjoint
  <2>6. Reached(SegmentPayloadOffset(idx) + off)'
    BY <2>4, <2>5 DEF Reached
  <2> QED
    BY <2>1, <2>5, <2>6 DEF FrontOK
<1>17. CASE ChunkStep \/ ToRestStep \/ RestStep
  <2>1. stage \in {"chunks", "rest"} /\ idx \in 1 .. Len(m_segment_cmds)
    BY <1>1, <1>17, LoopPositions DEF ChunkStep, ToRestStep, RestStep
  <2> DEFINE size == m_segment_cmds[idx].filesize
             chunk == ChunkSize(size)
             left == LeftOver(size)
             base == SegmentPayloadOffset(idx)
  <2>2. /\ size \in Nat \ {0} /\ chunk \in Nat \ {0} /\ left \in Nat
        /\ base \in Nat /\ SegmentPayloadOffset(idx + 1) = base + size
    <3>1. idx \in 1 .. Len(m_segment_cmds) + 1
      BY <1>2, <2>1
    <3> QED
      BY <1>1, <2>1, <3>1, SegmentNumbers, SegmentOffsets
  <2>3. Reached(base + off) /\ base + off \in Nat
    <3>1. Reached(base + off)
      BY <1>1, <2>1 DEF FrontOK
    <3> HIDE DEF base
    <3> QED
      BY <1>1, <2>2, <3>1
  <2>4. CASE ChunkStep
    <3>1. /\ stage' = "chunks" /\ idx' = idx /\ off' = off + chunk
          /\ Put(pos, chunk, <<"segment payload", idx>>, off)
      BY <2>4 DEF ChunkStep
    <3>2. off' = off + chunk
      BY <3>1
    <3>3. SegmentPayloadOffset(idx)' = base
      BY <1>3, <3>1
    <3> HIDE DEF base, chunk, size
    <3>4. base + off' = (base + off) + chunk
      <4>1. off \in Nat /\ base \in Nat /\ chunk \in Nat
        BY <1>1, <2>2
      <4> QED
        BY <3>2, <4>1
    <3>5. PiecesDisjoint' /\ At((base + off) + chunk)
      BY <1>1, <2>2, <2>3, <3>1, PutReaches
    <3>6. Reached(SegmentPayloadOffset(idx) + off)'
      BY <3>3, <3>4, <3>5 DEF Reached
    <3> QED
      BY <3>1, <3>5, <3>6 DEF FrontOK
  <2>5. CASE ToRestStep
    <3>1. stage' = "rest" /\ idx' = idx /\ off' = off /\ pos' = pos /\ file' = file /\ shortWrites' = shortWrites
      BY <2>5 DEF ToRestStep
    <3>2. SegmentPayloadOffset(idx)' = base
      BY <1>3, <3>1
    <3> HIDE DEF base
    <3>3. Reached(SegmentPayloadOffset(idx) + off)'
      BY <2>3, <3>1, <3>2 DEF Reached, Behind
    <3>4. PiecesDisjoint'
      BY <1>1, <3>1 DEF PiecesDisjoint
    <3> QED
      BY <3>1, <3>3, <3>4 DEF FrontOK
  <2>6. CASE RestStep
    <3>1. /\ stage = "rest" /\ Advance("segment payloads", Len(m_segment_cmds), "built")
          /\ \/ UNCHANGED <<pos, file, shortWrites>>
             \/ Put(pos, left, <<"segment payload", idx>>, off)
      BY <2>6 DEF RestStep
    <3>2. off + left <= size
      BY <1>1, <3>1 DEF ShapeInv, LoopOK, ChunksOK
    <3>3. stage' = "built" \/ (stage' = "segment payloads" /\ idx' = idx + 1)
      BY <3>1 DEF Advance
    <3>4. (idx' = idx + 1) => SegmentPayloadOffset(idx)' = base + size
      BY <1>3, <2>2
    <3> HIDE DEF base, size, left
    <3>5. PiecesDisjoint' /\ pos' \in Nat /\ pos' <= base + size /\ Behind(pos)'
      <4>1. off \in Nat /\ base \in Nat /\ left \in Nat /\ size \in Nat
        BY <1>1, <2>2
      <4>2. CASE UNCHANGED <<pos, file, shortWrites>>
        <5>1. pos' = pos /\ pos \in Nat /\ pos <= base + off /\ Behind(pos)
          BY <1>1, <2>3, <4>2 DEF Reached
        <5>2. pos' <= base + size
          BY <3>2, <4>1, <5>1
        <5> QED
          BY <1>1, <4>2, <5>1, <5>2 DEF PiecesDisjoint, Behind
      <4>3. CASE Put(pos, left, <<"segment payload", idx>>, off)
        <5>1. PiecesDisjoint' /\ Behind(pos)' /\ pos' \in Nat /\ pos' <= (base + off) + left
          BY <1>1, <2>2, <2>3, <4>3, PutReaches
        <5>2. pos' <= base + size
          BY <3>2, <4>1, <5>1
        <5> QED
          BY <5>1, <5>2
      <4> QED
        BY <3>1, <4>2, <4>3
    <3>6. \A p \in file' : EndOf(p) <= base + size
      BY <1>1, <2>2, <3>5 DEF StreamTyped, Behind, EndOf
    <3>7. idx' = idx + 1 => Behind(SegmentPayloadOffset(idx))'
      BY <3>4, <3>6 DEF Behind, EndOf
    <3> QED
      BY <3>3, <3>5, <3>7 DEF FrontOK
  <2> QED
    BY <1>17, <2>4, <2>5, <2>6
<1> QED
  BY <1>9, <1>10, <1>11, <1>12, <1>13, <1>14, <1>15, <1>16, <1>17 DEF BuildStep

\* Before Build, nothing is written.
LEMMA BeforeBuild ==
  ASSUME ShapeInv, Collect \/ AddPayloads
  PROVE  /\ file = {} /\ file' = {} /\ stage \notin Building
         /\ stage' \in Collecting \cup Unfinalized \cup Prepared \cup {"failed"}
<1>1. /\ stage \in Collecting \cup Unfinalized \cup Prepared /\ file' = file
      /\ stage' \in Collecting \cup Unfinalized \cup Prepared \cup {"failed"}
  <2>1. CASE Collect
    BY <2>1 DEF Collect, CollectThread, CollectSegment, AddNotesToCore, streamVars, Collecting, Unfinalized, Prepared
  <2>2. CASE AddPayloads
    BY <2>2 DEF AddPayloads, AddAddrableBits, AddrableBitsFail, AddProcessMetadata, FinalizeForImageInfos,
                AddImageInfos, AddMainBinSpec, SetFileOffsets, SetPayload, streamVars, Unfinalized, Prepared
  <2> QED
    BY <2>1, <2>2
<1>2. file = {}
  BY <1>1 DEF ShapeInv, Shape
<1> QED
  BY <1>1, <1>2 DEF Collecting, Unfinalized, Prepared, Building

\* The front of the file is an invariant.
LEMMA FrontInvariance == Spec => []FrontInv
<1>1. Init => FrontOK /\ PiecesDisjoint
  BY DEF Init, FrontOK, PiecesDisjoint
<1>2. ASSUME FrontInv, ShapeInv', [Next]_vars PROVE FrontInv'
  <2>1. CASE Collect \/ AddPayloads
    <3>1. file' = {} /\ stage' \in Collecting \cup Unfinalized \cup Prepared \cup {"failed"}
      BY <1>2, <2>1, BeforeBuild DEF FrontInv
    <3> QED
      BY <1>2, <3>1 DEF FrontInv, FrontOK, PiecesDisjoint, Collecting, Unfinalized, Prepared
  <2>2. CASE Build
    <3>1. Kept /\ stage \notin Collecting /\ BuildStep
      BY <1>2, <2>2, BuildKeeps, BuildCases DEF FrontInv
    <3> QED
      BY <1>2, <3>1, BuildFront DEF FrontInv
  <2>3. CASE UNCHANGED vars
    <3>1. /\ UNCHANGED <<m_header, m_note_cmds, m_thread_cmds, m_segment_cmds>>
          /\ UNCHANGED <<stage, idx, off, pos, file, shortWrites>>
      BY <2>3 DEF vars, builderVars, streamVars
    <3>2. /\ NoteCmdAt(idx)' = NoteCmdAt(idx) /\ ThreadCmdAt(idx)' = ThreadCmdAt(idx)
          /\ SegmentCmdAt(idx)' = SegmentCmdAt(idx)
      BY <3>1 DEF SegmentCmdAt, ThreadCmdAt, NoteCmdAt
    <3>3. NotePayloadOffset(idx)' = NotePayloadOffset(idx)
      BY <3>1 DEF NotePayloadOffset, NoteSizes
    <3>4. SegmentPayloadOffset(idx)' = SegmentPayloadOffset(idx)
      BY <3>1 DEF SegmentPayloadOffset, SegmentSizesUpTo, NotePayloadOffset, NoteSizes
    <3>5. FrontOK'
      BY <1>2, <3>1, <3>2, <3>3, <3>4 DEF FrontInv, FrontOK, Reached, Behind
    <3>6. PiecesDisjoint'
      BY <1>2, <3>1 DEF FrontInv, PiecesDisjoint
    <3> QED
      BY <1>2, <3>5, <3>6 DEF FrontInv
  <2> QED
    BY <1>2, <2>1, <2>2, <2>3 DEF Next, Finished
<1>3. FrontOK /\ PiecesDisjoint /\ ShapeInv => FrontInv
  BY DEF FrontInv
<1> QED
  BY <1>1, <1>2, <1>3, ShapeInvariance, PTL DEF Spec

\* No piece of the file overwrites another one, whatever the sizes of commands,
\* notes and segments are, which writes are incomplete, and which memory cannot
\* be read.
THEOREM NothingIsOverwritten == Spec => []PiecesDisjoint
<1>1. FrontInv => PiecesDisjoint
  BY DEF FrontInv
<1> QED
  BY <1>1, FrontInvariance, PTL
-----------------------------------------------------------------------------
(* What is written. *)

NoteRef(i) == [offset |-> NotePayloadOffset(i), size |-> m_note_cmds[i].size]

SegmentRef(i) == [offset |-> SegmentPayloadOffset(i), size |-> m_segment_cmds[i].filesize]

\* The commands hold the offsets and sizes, the payloads are where these say.
IsNotePiece(p, i) == p.part = <<"note", i>> /\ p.ref = NoteRef(i)

IsSegmentPiece(p, i) == p.part = <<"segment", i>> /\ p.ref = SegmentRef(i)

IsNotePayload(p, i) == p.part = <<"note payload", i>> /\ p.at = NotePayloadOffset(i)

IsSegmentPayload(p, i) ==
  /\ p.part = <<"segment payload", i>> /\ p.ref \in Nat
  /\ shortWrites = 0 => /\ p.at = SegmentPayloadOffset(i) + p.ref
                        /\ p.ref + p.len <= m_segment_cmds[i].filesize

PieceOK(p) ==
  \/ p.part = <<"header">>
  \/ \E i \in 1 .. 4 : IsNotePiece(p, i) \/ IsNotePayload(p, i)
  \/ \E i \in Nat : p.part = <<"thread", i>>
  \/ \E i \in 1 .. Len(m_segment_cmds) : IsSegmentPiece(p, i) \/ IsSegmentPayload(p, i)

\* The offset in the payload of the second note is the one it gets.
Embedded ==
  stage \in {"main bin spec", "offsets", "header"} \/ stage \in Building \ {"failed"} \/ file # {} =>
    imageInfosPayloadOffset = NotePayloadOffset(2)

ContentInv == FrontInv /\ (\A p \in file : PieceOK(p)) /\ Embedded

\* A piece stays what it is.
LEMMA PieceKept ==
  ASSUME BuilderTyped, BuilderTyped', NotesAdded, Kept, shortWrites' = 0 => shortWrites = 0,
         NEW p, PieceOK(p)
  PROVE  PieceOK(p)'
<1>1. /\ Len(m_note_cmds) = 4 /\ Len(m_segment_cmds)' = Len(m_segment_cmds)
      /\ \A i \in 1 .. 4 : m_note_cmds'[i].size = m_note_cmds[i].size
      /\ \A i \in 1 .. Len(m_segment_cmds) : m_segment_cmds'[i].filesize = m_segment_cmds[i].filesize
  BY DEF NotesAdded, Kept
<1>2. /\ \A i : NotePayloadOffset(i)' = NotePayloadOffset(i)
      /\ \A i : SegmentPayloadOffset(i)' = SegmentPayloadOffset(i)
  BY OffsetsKept
<1>3. ASSUME NEW i \in 1 .. 4 PROVE (IsNotePiece(p, i) => IsNotePiece(p, i)') /\ (IsNotePayload(p, i) => IsNotePayload(p, i)')
  BY <1>1, <1>2 DEF IsNotePiece, IsNotePayload, NoteRef
<1>4. ASSUME NEW i \in 1 .. Len(m_segment_cmds)
      PROVE  (IsSegmentPiece(p, i) => IsSegmentPiece(p, i)') /\ (IsSegmentPayload(p, i) => IsSegmentPayload(p, i)')
  BY <1>1, <1>2 DEF IsSegmentPiece, IsSegmentPayload, SegmentRef
<1> QED
  BY <1>1, <1>3, <1>4 DEF PieceOK

\* The piece that is put down.
Added(q, at, len, part, ref) ==
  /\ file' = file \cup {q} /\ pos' = at + q.len
  /\ q.at = at /\ q.len \in 0 .. len /\ q.part = part /\ q.ref = ref
  /\ shortWrites' = 0 => shortWrites = 0 /\ q.len = len

LEMMA PutPiece ==
  ASSUME NEW at, NEW len, NEW part, NEW ref, Put(at, len, part, ref)
  PROVE  \E q : Added(q, at, len, part, ref)
<1>1. PICK n \in 0 .. len :
        /\ file' = file \cup {Piece(at, n, part, ref)} /\ pos' = at + n
        /\ shortWrites' = 0 => shortWrites = 0 /\ n = len
  BY DEF Put
<1> DEFINE q == Piece(at, n, part, ref)
<1>2. q.at = at /\ q.len = n /\ q.part = part /\ q.ref = ref
  BY DEF Piece
<1> HIDE DEF q
<1>3. Added(q, at, len, part, ref)
  BY <1>1, <1>2 DEF Added, q
<1> QED
  BY <1>3

\* The steps of Build.
LEMMA BuildContent ==
  ASSUME ContentInv, BuilderTyped', BuildStep, Kept, stage \notin Collecting
  PROVE  \A p \in file' : PieceOK(p)'
<1>1. /\ ShapeInv /\ BuilderTyped /\ StreamTyped /\ FrontOK /\ NotesAdded /\ Len(m_note_cmds) = 4
      /\ idx \in Nat \ {0} /\ off \in Nat /\ \A p \in file : PieceOK(p)
  BY DEF ContentInv, FrontInv, ShapeInv, LoopTyped, Shape, NotesAdded
<1>2. CASE UNCHANGED <<file, shortWrites>>
  BY <1>1, <1>2, PieceKept
<1>3. ASSUME NEW q, file' = file \cup {q}, shortWrites' = 0 => shortWrites = 0, PieceOK(q)'
      PROVE  \A p \in file' : PieceOK(p)'
  <2>1. \A p \in file : PieceOK(p)'
    BY <1>1, <1>3, PieceKept
  <2> QED
    BY <1>3, <2>1
<1>4. /\ \A i : NotePayloadOffset(i)' = NotePayloadOffset(i)
      /\ \A i : SegmentPayloadOffset(i)' = SegmentPayloadOffset(i)
  BY <1>1, OffsetsKept
<1>5. /\ HeaderSize \in Nat /\ NoteCmdSize \in Nat /\ ThreadCmdSize \in Nat /\ SegmentCmdSize \in Nat
      /\ Len(m_segment_cmds)' = Len(m_segment_cmds) /\ Len(m_segment_cmds) \in Nat
      /\ \A i \in 1 .. 4 : m_note_cmds'[i].size = m_note_cmds[i].size
      /\ \A i \in 1 .. Len(m_segment_cmds) : m_segment_cmds'[i].filesize = m_segment_cmds[i].filesize
  BY <1>1, SizeAssumption, CommandTypes DEF Kept
<1>6. PICK k \in Nat : k = idx
  BY <1>1
<1>7. CASE HeaderStep
  <2>1. PICK q : Added(q, pos, HeaderSize, <<"header">>, m_header)
    BY <1>7, PutPiece DEF HeaderStep
  <2> QED
    BY <1>3, <2>1 DEF PieceOK, Added
<1>8. CASE ThreadStep
  <2>1. PICK q : Added(q, pos, ThreadCmdSize, <<"thread", k>>, 0)
    BY <1>6, <1>8, PutPiece DEF ThreadStep
  <2> QED
    BY <1>3, <2>1 DEF PieceOK, Added
<1>9. CASE NoteStep
  <2>1. Put(pos, NoteCmdSize, <<"note", k>>, NoteRef(k)) /\ k \in 1 .. 4
    BY <1>1, <1>6, <1>9, LoopPositions DEF NoteStep, NoteRef
  <2>2. PICK q : Added(q, pos, NoteCmdSize, <<"note", k>>, NoteRef(k))
    BY <2>1, PutPiece
  <2>3. NoteRef(k)' = NoteRef(k)
    BY <1>4, <1>5, <2>1 DEF NoteRef
  <2> QED
    BY <1>3, <2>1, <2>2, <2>3 DEF PieceOK, IsNotePiece, Added
<1>10. CASE SegmentStep
  <2>1. Put(pos, SegmentCmdSize, <<"segment", k>>, SegmentRef(k)) /\ k \in 1 .. Len(m_segment_cmds)
    BY <1>1, <1>6, <1>10, LoopPositions DEF SegmentStep, SegmentRef
  <2>2. PICK q : Added(q, pos, SegmentCmdSize, <<"segment", k>>, SegmentRef(k))
    BY <2>1, PutPiece
  <2>3. SegmentRef(k)' = SegmentRef(k) /\ k \in 1 .. Len(m_segment_cmds)'
    BY <1>4, <1>5, <2>1 DEF SegmentRef
  <2> QED
    BY <1>3, <2>2, <2>3 DEF PieceOK, IsSegmentPiece, Added
<1>11. CASE NotePayloadStep
  <2>1. Put(NotePayloadOffset(k), m_note_cmds[k].size, <<"note payload", k>>, 0) /\ k \in 1 .. 4
    BY <1>1, <1>6, <1>11, LoopPositions DEF NotePayloadStep
  <2>2. PICK q : Added(q, NotePayloadOffset(k), m_note_cmds[k].size, <<"note payload", k>>, 0)
    BY <2>1, PutPiece
  <2> QED
    BY <1>3, <1>4, <2>1, <2>2 DEF PieceOK, IsNotePayload, Added
<1>12. CASE ChunkStep \/ (RestStep /\ ~UNCHANGED <<file, shortWrites>>)
  <2> DEFINE size == m_segment_cmds[k].filesize
             base == SegmentPayloadOffset(k)
  <2>1. stage \in {"chunks", "rest"} /\ k \in 1 .. Len(m_segment_cmds)
    BY <1>1, <1>6, <1>12, LoopPositions DEF ChunkStep, RestStep
  <2>2. size \in Nat /\ ChunkSize(size) \in Nat /\ LeftOver(size) \in Nat /\ base \in Nat
    <3>1. k \in 1 .. Len(m_segment_cmds) + 1
      BY <1>5, <2>1
    <3> QED
      BY <1>1, <2>1, <3>1, SegmentNumbers, SegmentOffsets
  <2>3. PICK len \in Nat : Put(pos, len, <<"segment payload", k>>, off) /\ off + len <= size
    <3>1. CASE ChunkStep
      BY <1>6, <2>2, <3>1 DEF ChunkStep
    <3>2. CASE RestStep /\ ~UNCHANGED <<file, shortWrites>>
      <4>1. Put(pos, LeftOver(size), <<"segment payload", k>>, off) /\ stage = "rest"
        BY <1>6, <3>2 DEF RestStep
      <4>2. off + LeftOver(size) <= size
        BY <1>1, <1>6, <4>1 DEF ShapeInv, LoopOK, ChunksOK
      <4> QED
        BY <2>2, <4>1, <4>2
    <3> QED
      BY <1>12, <3>1, <3>2
  <2>10. PICK q : Added(q, pos, len, <<"segment payload", k>>, off)
    BY <2>3, PutPiece
  <2>4. /\ file' = file \cup {q} /\ q.part = <<"segment payload", k>> /\ q.ref = off /\ q.at = pos
        /\ shortWrites' = 0 => shortWrites = 0 /\ q.len = len
    BY <2>10 DEF Added
  <2>5. shortWrites' = 0 => q.at = base + q.ref /\ q.ref + q.len <= size
    <3>1. shortWrites = 0 => pos = base + off
      BY <1>1, <1>6, <2>1 DEF FrontOK, Reached
    <3> QED
      BY <2>3, <2>4, <3>1
  <2>6. /\ base = SegmentPayloadOffset(k)' /\ size = m_segment_cmds'[k].filesize
        /\ k \in 1 .. Len(m_segment_cmds)' /\ q.ref \in Nat
    BY <1>1, <1>4, <1>5, <2>1, <2>4
  <2> HIDE DEF base, size
  <2>7. PieceOK(q)'
    BY <2>4, <2>5, <2>6 DEF PieceOK, IsSegmentPayload
  <2> QED
    BY <1>3, <2>4, <2>7
<1>13. CASE SkipStep \/ FailStep \/ BeginStep \/ ToRestStep
  BY <1>2, <1>13 DEF SkipStep, FailStep, BeginStep, ToRestStep
<1> QED
  BY <1>2, <1>7, <1>8, <1>9, <1>10, <1>11, <1>12, <1>13 DEF BuildStep

\* Where the second note goes depends on the first one alone.
LEMMA SecondNote ==
  ASSUME BuilderTyped, NotesAdded
  PROVE  /\ NotePayloadOffset(2) = RoundUp(HeaderSize + m_header.sizeofcmds, NoteAlign) + m_note_cmds[1].size
         /\ NotePayloadOffset(2) \in Nat
<1>1. Len(m_note_cmds) = 4 /\ NoteSizeOf \in Seq(Nat) /\ Len(NoteSizeOf) = 4
  BY CommandTypes DEF NotesAdded
<1>2. /\ SizesUpTo(NoteSizeOf, 0) = 0
      /\ \A i \in 1 .. 4 : SizesUpTo(NoteSizeOf, i) = SizesUpTo(NoteSizeOf, i - 1) + NoteSizeOf[i]
  BY <1>1, Sums
<1>3. NoteSizeOf[1] = m_note_cmds[1].size /\ m_note_cmds[1].size \in Nat
  BY <1>1, CommandTypes DEF NoteSizeOf
<1>4. SizesUpTo(NoteSizeOf, 1) = m_note_cmds[1].size
  <2>1. SizesUpTo(NoteSizeOf, 1) = SizesUpTo(NoteSizeOf, 1 - 1) + NoteSizeOf[1]
    BY <1>2
  <2>2. 1 - 1 = 0
    OBVIOUS
  <2> QED
    BY <1>2, <1>3, <2>1, <2>2
<1>5. 2 - 1 = 1 /\ 2 \in 1 .. 4 + 1
  OBVIOUS
<1> QED
  BY <1>1, <1>4, <1>5, NoteOffsets DEF NotePayloadOffset, NoteSizes, NoteSizeOf

\* The names of the notes.
LEMMA NoteNames ==
  /\ NoteOwners[1] = "addrable bits" /\ NoteOwners[2] = "all image infos"
  /\ NoteOwners[3] = "main bin spec" /\ NoteOwners[4] = "process metadata"
BY DEF NoteOwners, AddrableBitsOwner, AllImageInfosOwner, MainBinSpecOwner, ProcessMetadataOwner

\* The image infos are the second note.
LEMMA ImageInfosNote ==
  ASSUME NotesAdded, NEW i \in 1 .. 4, m_note_cmds[i].owner = AllImageInfosOwner
  PROVE  i = 2
<1>1. NoteOwners[i] = AllImageInfosOwner /\ i \in {1, 2, 3, 4}
  BY DEF NotesAdded
<1> QED
  BY <1>1, NoteNames DEF AllImageInfosOwner

\* The image infos stay where their payload says.
LEMMA EmbeddedStays ==
  ASSUME ContentInv, ShapeInv', Next
  PROVE  Embedded'
<1>1. ShapeInv /\ BuilderTyped /\ BuilderTyped' /\ Embedded
  BY DEF ContentInv, FrontInv, ShapeInv
<1>2. CASE (Build \/ SetFileOffsets)
  <2>1. Kept /\ NotesAdded /\ stage \notin Collecting \cup Unfinalized \cup {"failed"}
    BY <1>1, <1>2, BuildKeeps
  <2>2. imageInfosPayloadOffset' = imageInfosPayloadOffset /\ NotePayloadOffset(2)' = NotePayloadOffset(2)
    BY <1>1, <2>1, OffsetsKept DEF Kept
  <2>3. stage # "image infos"
    BY <1>2 DEF Build, WriteHeader, WriteNoteCommand, WriteThreadCommand, WriteSegmentCommand, SkipEmptyLoop,
         WriteNotePayload, BeginSegment, WriteChunk, EndChunks, WriteRest, SetFileOffsets
  <2>4. stage \in {"main bin spec", "offsets", "header"} \/ stage \in Building \ {"failed"}
    BY <1>1, <2>1, <2>3 DEF ShapeInv, LoopTyped, Stages, Building, Collecting, Unfinalized
  <2> QED
    BY <1>1, <2>2, <2>4 DEF Embedded
<1>3. CASE Collect \/ AddPayloads
  <2>1. file' = {} /\ stage' \in Collecting \cup Unfinalized \cup Prepared \cup {"failed"}
    BY <1>1, <1>3, BeforeBuild
  <2>2. ASSUME stage' \in {"main bin spec", "offsets"} PROVE imageInfosPayloadOffset' = NotePayloadOffset(2)'
    <3>1. \/ AddMainBinSpec
          \/ \E size \in ImageInfosSizes : AddImageInfos(size)
      BY <1>3, <2>2 DEF Collect, CollectThread, CollectSegment, AddNotesToCore, AddPayloads, AddAddrableBits,
         AddrableBitsFail, AddProcessMetadata, FinalizeForImageInfos, SetFileOffsets, SetPayload
    <3>2. stage \in {"main bin spec", "image infos"}
      BY <3>1 DEF AddMainBinSpec, SetPayload, AddImageInfos
    <3>3. NotesAdded
      BY <1>1, <3>2 DEF ShapeInv, Shape, Collecting
    <3>4. PICK owner, size : /\ size \in Nat /\ AddDataProviderForNoteCommand(owner, size)
                             /\ owner \in {AllImageInfosOwner, MainBinSpecOwner}
      BY <2>2, <3>1, SizeAssumption DEF AddMainBinSpec, SetPayload, AddImageInfos, MainBinSpecSize
    <3>5. /\ NotesAdded' /\ m_header' = m_header
          /\ \A i \in 1 .. 4 : owner # NoteOwners[i] => m_note_cmds'[i] = m_note_cmds[i]
      BY <1>1, <3>3, <3>4, PayloadSet
    <3>6. m_note_cmds'[1] = m_note_cmds[1]
      <4>1. owner # NoteOwners[1] /\ 1 \in 1 .. 4
        <5>1. owner \in {"all image infos", "main bin spec"}
          BY <3>4 DEF AllImageInfosOwner, MainBinSpecOwner
        <5>2. owner # "addrable bits"
          BY <5>1
        <5>3. owner # NoteOwners[1]
          BY <5>2, NoteNames
        <5> QED
          BY <5>3
      <4> QED
        BY <3>5, <4>1
    <3>7. NotePayloadOffset(2) = RoundUp(HeaderSize + m_header.sizeofcmds, NoteAlign) + m_note_cmds[1].size
      BY <1>1, <3>3, SecondNote
    <3>8. (NotePayloadOffset(2) = RoundUp(HeaderSize + m_header.sizeofcmds, NoteAlign) + m_note_cmds[1].size)'
      BY <1>1, <3>5, SecondNote, PTL
    <3>9. NotePayloadOffset(2)' = NotePayloadOffset(2)
      BY <3>5, <3>6, <3>7, <3>8
    <3>10. imageInfosPayloadOffset' = NotePayloadOffset(2)
      <4>1. CASE AddMainBinSpec
        BY <1>1, <4>1 DEF AddMainBinSpec, SetPayload, Embedded
      <4>2. CASE \E s \in ImageInfosSizes : AddImageInfos(s)
        <5>1. PICK i \in DOMAIN m_note_cmds : IsNote(i, AllImageInfosOwner) /\ imageInfosPayloadOffset' = NotePayloadOffset(i)
          BY <4>2 DEF AddImageInfos
        <5>2. i \in 1 .. 4 /\ m_note_cmds[i].owner = AllImageInfosOwner
          BY <1>1, <3>3, <5>1, CommandTypes DEF IsNote, Matches, NotesAdded
        <5>3. i = 2
          BY <3>3, <5>2, ImageInfosNote
        <5> QED
          BY <5>1, <5>3
      <4> QED
        BY <3>1, <4>1, <4>2
    <3> QED
      BY <3>9, <3>10
  <2>3. stage' = "header" => SetFileOffsets
    BY <1>3 DEF Collect, CollectThread, CollectSegment, AddNotesToCore, AddPayloads, AddAddrableBits,
         AddrableBitsFail, AddProcessMetadata, FinalizeForImageInfos, AddImageInfos, AddMainBinSpec, SetPayload
  <2>4. stage' \notin Building \ {"failed"}
    BY <2>1 DEF Collecting, Unfinalized, Prepared, Building
  <2> QED
    BY <1>2, <2>1, <2>2, <2>3, <2>4 DEF Embedded
<1>4. CASE UNCHANGED vars
  <2>1. UNCHANGED <<m_header, m_note_cmds, imageInfosPayloadOffset, stage, file>>
    BY <1>4 DEF vars, builderVars, streamVars
  <2>2. NotePayloadOffset(2)' = NotePayloadOffset(2)
    BY <2>1 DEF NotePayloadOffset, NoteSizes
  <2> QED
    BY <1>1, <2>1, <2>2 DEF Embedded
<1> QED
  BY <1>2, <1>3, <1>4 DEF Next, Finished

\* What the pieces hold is an invariant.
LEMMA ContentInvariance == Spec => []ContentInv
<1>1. Init => (\A p \in file : PieceOK(p)) /\ Embedded
  BY DEF Init, Embedded, Building
<1>2. ASSUME ContentInv, FrontInv', [Next]_vars PROVE ContentInv'
  <2>1. FrontInv /\ ShapeInv /\ ShapeInv' /\ BuilderTyped' /\ \A p \in file : PieceOK(p)
    BY <1>2 DEF ContentInv, FrontInv, ShapeInv
  <2>2. CASE Collect \/ AddPayloads
    <3>1. file' = {}
      BY <2>1, <2>2, BeforeBuild
    <3> QED
      BY <1>2, <2>1, <2>2, <3>1, EmbeddedStays DEF ContentInv, Next
  <2>3. CASE Build
    <3>1. Kept /\ stage \notin Collecting /\ BuildStep
      BY <2>1, <2>3, BuildKeeps, BuildCases
    <3> QED
      BY <1>2, <2>1, <2>3, <3>1, BuildContent, EmbeddedStays DEF ContentInv, Next
  <2>4. CASE UNCHANGED vars
    <3>1. UNCHANGED <<builderVars, imageInfosPayloadOffset>> /\ UNCHANGED <<stage, file, shortWrites>>
      BY <2>4 DEF vars, streamVars
    <3>2. BuilderTyped /\ Kept
      BY <2>1, <3>1, BuilderStands DEF ShapeInv
    <3>3. CASE file = {}
      <4>1. UNCHANGED <<m_header, m_note_cmds, imageInfosPayloadOffset, stage, file>>
        BY <3>1 DEF builderVars
      <4>2. NotePayloadOffset(2)' = NotePayloadOffset(2)
        BY <4>1 DEF NotePayloadOffset, NoteSizes
      <4>3. Embedded'
        BY <1>2, <4>1, <4>2 DEF ContentInv, Embedded
      <4> QED
        BY <1>2, <3>3, <4>1, <4>3 DEF ContentInv
    <3>4. CASE file # {}
      <4>1. NotesAdded
        BY <2>1, <3>4 DEF ShapeInv, Shape
      <4>2. \A p \in file' : PieceOK(p)'
        BY <2>1, <3>1, <3>2, <4>1, PieceKept
      <4>3. NotePayloadOffset(2)' = NotePayloadOffset(2)
        BY <2>1, <3>2, <4>1, OffsetsKept
      <4>4. Embedded'
        BY <1>2, <3>1, <4>3 DEF ContentInv, Embedded
      <4> QED
        BY <1>2, <4>2, <4>4 DEF ContentInv
    <3> QED
      BY <3>3, <3>4
  <2> QED
    BY <1>2, <2>2, <2>3, <2>4 DEF Next, Finished
<1>3. FrontInv /\ (\A p \in file : PieceOK(p)) /\ Embedded => ContentInv
  BY DEF ContentInv
<1> QED
  BY <1>1, <1>2, <1>3, FrontInvariance, PTL DEF Spec

\* The two elements of a part.
LEMMA PartElements ==
  ASSUME NEW i, NEW part
  PROVE  /\ part = <<"note payload", i>> => part[1] = "note payload" /\ part[2] = i
         /\ part = <<"segment payload", i>> => part[1] = "segment payload" /\ part[2] = i
<1>1. PICK kind : kind = "note payload"
  OBVIOUS
<1>2. PICK other : other = "segment payload"
  OBVIOUS
<1>3. /\ part = <<kind, i>> => part[1] = kind /\ part[2] = i
      /\ part = <<other, i>> => part[1] = other /\ part[2] = i
  OBVIOUS
<1> QED
  BY <1>1, <1>2, <1>3, Zenon

\* The kinds of pieces, by the first element of their parts.
LEMMA PieceKinds ==
  ASSUME NEW p, PieceOK(p)
  PROVE  /\ p.part[1] = "note" => \E i \in 1 .. 4 : IsNotePiece(p, i) /\ p.part[2] = i
         /\ p.part[1] = "note payload" => \E i \in 1 .. 4 : IsNotePayload(p, i) /\ p.part[2] = i
         /\ p.part[1] = "segment" =>
              \E i \in 1 .. Len(m_segment_cmds) : IsSegmentPiece(p, i) /\ p.part[2] = i
         /\ p.part[1] = "segment payload" =>
              \E i \in 1 .. Len(m_segment_cmds) : IsSegmentPayload(p, i) /\ p.part[2] = i
<1>1. CASE p.part = <<"header">>
  BY <1>1
<1>2. CASE \E i \in Nat : p.part = <<"thread", i>>
  BY <1>2
<1>3. ASSUME NEW i \in 1 .. 4, IsNotePiece(p, i)
      PROVE  p.part[1] = "note" /\ p.part[2] = i
  BY <1>3 DEF IsNotePiece
<1>4. ASSUME NEW i \in 1 .. 4, IsNotePayload(p, i)
      PROVE  p.part[1] = "note payload" /\ p.part[2] = i
  <2>1. p.part = <<"note payload", i>>
    BY <1>4 DEF IsNotePayload
  <2> QED
    BY <2>1, PartElements, Zenon
<1>5. ASSUME NEW i \in 1 .. Len(m_segment_cmds), IsSegmentPiece(p, i)
      PROVE  p.part[1] = "segment" /\ p.part[2] = i
  BY <1>5 DEF IsSegmentPiece
<1>6. ASSUME NEW i \in 1 .. Len(m_segment_cmds), IsSegmentPayload(p, i)
      PROVE  p.part[1] = "segment payload" /\ p.part[2] = i
  <2>1. p.part = <<"segment payload", i>>
    BY <1>6 DEF IsSegmentPayload
  <2> QED
    BY <2>1, PartElements, Zenon
<1> QED
  BY <1>1, <1>2, <1>3, <1>4, <1>5, <1>6 DEF PieceOK

\* A piece of a segment, and the command of the segment.
LEMMA SegmentMatches ==
  ASSUME shortWrites = 0, NEW i, NEW c, NEW p, IsSegmentPiece(c, i), IsSegmentPayload(p, i)
  PROVE  p.at = c.ref.offset + p.ref /\ p.ref + p.len <= c.ref.size
<1>1. c.ref = SegmentRef(i)
  BY DEF IsSegmentPiece
<1>2. c.ref.offset = SegmentPayloadOffset(i) /\ c.ref.size = m_segment_cmds[i].filesize
  BY <1>1 DEF SegmentRef
<1>3. p.at = SegmentPayloadOffset(i) + p.ref /\ p.ref + p.len <= m_segment_cmds[i].filesize
  BY Zenon DEF IsSegmentPayload
<1> QED
  BY <1>2, <1>3, Zenon

\* For all sizes of segments and chunks: unless a write was incomplete, what is
\* written of a segment stands where its command says, also behind a chunk that
\* could not be read, and nothing is written behind the segment's end.
THEOREM SegmentBytesAreInPlace == Spec => []SegmentBytesInPlace
<1>1. ContentInv => SegmentBytesInPlace
  <2> SUFFICES ASSUME ContentInv, shortWrites = 0,
                      NEW c \in PiecesOf("segment"), NEW p \in PiecesOf("segment payload"), p.part[2] = c.part[2]
               PROVE  p.at = c.ref.offset + p.ref /\ p.ref + p.len <= c.ref.size
    BY DEF SegmentBytesInPlace
  <2>1. PICK i \in 1 .. Len(m_segment_cmds) : IsSegmentPiece(c, i) /\ c.part[2] = i
    BY PieceKinds DEF ContentInv, PiecesOf
  <2>2. PICK j \in 1 .. Len(m_segment_cmds) : IsSegmentPayload(p, j) /\ p.part[2] = j
    BY PieceKinds DEF ContentInv, PiecesOf
  <2>3. i = j
    BY <2>1, <2>2, Zenon
  <2> QED
    BY <2>1, <2>2, <2>3, SegmentMatches, Zenon
<1> QED
  BY <1>1, ContentInvariance, PTL

\* The offset that is built into the all image infos payload before the later
\* notes have their sizes is where that payload is written in the end, for all
\* sizes of the notes.
THEOREM EmbeddedOffsetStays == Spec => []EmbeddedOffsetIsFinal
<1>1. ContentInv => EmbeddedOffsetIsFinal
  <2> SUFFICES ASSUME ContentInv, NEW p \in PiecesOf("note payload"),
                      m_note_cmds[p.part[2]].owner = AllImageInfosOwner
               PROVE  p.at = imageInfosPayloadOffset
    BY DEF EmbeddedOffsetIsFinal
  <2>1. PICK i \in 1 .. 4 : IsNotePayload(p, i) /\ p.part[2] = i
    BY PieceKinds DEF ContentInv, PiecesOf
  <2>2. file # {}
    BY DEF PiecesOf
  <2>3. NotesAdded
    BY <2>2 DEF ContentInv, FrontInv, ShapeInv, Shape
  <2>5. i = 2
    BY <2>1, <2>3, ImageInfosNote, Zenon
  <2>6. imageInfosPayloadOffset = NotePayloadOffset(2)
    BY <2>2 DEF ContentInv, Embedded
  <2> QED
    BY <2>1, <2>5, <2>6 DEF IsNotePayload
<1> QED
  BY <1>1, ContentInvariance, PTL
-----------------------------------------------------------------------------
(* The way of a reader through the file. *)

CommandStages == {"note commands", "thread commands", "segment commands"}

\* The commands written so far.
CmdsWritten ==
  IF stage = "note commands" THEN idx - 1
  ELSE IF stage = "thread commands" THEN 3 + idx
  ELSE IF stage = "segment commands" THEN 3 + m_thread_cmds + idx
  ELSE m_header.ncmds

HeaderPiece == Piece(0, HeaderSize, <<"header">>, m_header)

PayloadPiece(i) == Piece(NotePayloadOffset(i), m_note_cmds[i].size, <<"note payload", i>>, 0)

\* Every command follows on another one or on the header.
Chained == \A c \in Commands : \E p \in Commands \cup {HeaderPiece} : EndOf(p) = c.at

\* So will the next one.
Tip == \E p \in Commands \cup {HeaderPiece} : EndOf(p) = pos

CommandsDone ==
  /\ \E c \in Commands : EndOf(c) = HeaderSize + m_header.sizeofcmds
  /\ \A c \in Commands : EndOf(c) <= HeaderSize + m_header.sizeofcmds

PayloadsDone(n) == \A i \in 1 .. n : PayloadPiece(i) \in file

Layout ==
  /\ HeaderPiece \in file
  /\ IsFiniteSet(Commands) /\ Cardinality(Commands) = CmdsWritten
  /\ Chained
  /\ stage \in CommandStages => Tip
  /\ stage \notin CommandStages => CommandsDone
  /\ stage = "note payloads" => PayloadsDone(idx - 1)
  /\ stage \in {"segment payloads", "chunks", "rest", "built"} => PayloadsDone(4)

LayoutOK == shortWrites = 0 /\ stage \in Building \ {"failed"} => Layout

LayoutInv == ContentInv /\ LayoutOK

CommandKinds == {"note", "thread", "segment"}

\* The commands are the pieces of these kinds.
LEMMA CommandPieces == Commands = {p \in file : p.part[1] \in CommandKinds}
BY DEF Commands, PiecesOf, CommandKinds

\* Pieces of other kinds leave the commands alone.
LEMMA CommandsStay ==
  ASSUME NEW q, file' = file \cup {q}, q.part[1] \notin CommandKinds
  PROVE  Commands' = Commands
<1>1. Commands' = {p \in file' : p.part[1] \in CommandKinds}
  BY DEF Commands, PiecesOf, CommandKinds
<1> QED
  BY <1>1, CommandPieces

\* A command that is put down behind all pieces.
LEMMA CommandAdded ==
  ASSUME StreamTyped, Behind(pos), NEW q, file' = file \cup {q}, q.at = pos, q.len \in Nat \ {0},
         q.part[1] \in CommandKinds, UNCHANGED m_header, IsFiniteSet(Commands), Chained, Tip
  PROVE  /\ IsFiniteSet(Commands') /\ Cardinality(Commands') = Cardinality(Commands) + 1
         /\ Chained' /\ Commands' = Commands \cup {q} /\ EndOf(q) = pos + q.len
<1>1. Commands' = Commands \cup {q}
  <2>1. Commands' = {p \in file' : p.part[1] \in CommandKinds}
    BY DEF Commands, PiecesOf, CommandKinds
  <2> QED
    BY <2>1, CommandPieces
<1>2. EndOf(q) = pos + q.len
  BY DEF EndOf
<1>3. q \notin Commands
  <2>1. ~(EndOf(q) <= pos)
    BY <1>2 DEF StreamTyped
  <2> QED
    BY <2>1 DEF Commands, PiecesOf, Behind
<1>4. IsFiniteSet(Commands') /\ Cardinality(Commands') = Cardinality(Commands) + 1
  BY <1>1, <1>3, FS_AddElement
<1>5. HeaderPiece' = HeaderPiece
  BY DEF HeaderPiece, Piece
<1>6. Chained'
  <2> SUFFICES ASSUME NEW c \in Commands' PROVE \E p \in Commands' \cup {HeaderPiece} : EndOf(p) = c.at
    BY <1>5 DEF Chained, EndOf
  <2>1. CASE c \in Commands
    BY <1>1, <2>1 DEF Chained
  <2>2. CASE c = q
    BY <1>1, <2>2 DEF Tip
  <2> QED
    BY <1>1, <2>1, <2>2
<1> QED
  BY <1>1, <1>2, <1>4, <1>6

\* Steps that write no command, in the stages behind the commands.
LEMMA LayoutStays ==
  ASSUME Layout, stage \notin CommandStages, stage' \notin CommandStages \cup {"note payloads"},
         Kept, NotesAdded, \A i : NotePayloadOffset(i)' = NotePayloadOffset(i),
         Commands' = Commands, file \subseteq file', PayloadsDone(4)
  PROVE  Layout'
<1>1. HeaderPiece' = HeaderPiece /\ m_header' = m_header
  BY DEF HeaderPiece, Piece, Kept
<1>2. \A i \in 1 .. 4 : PayloadPiece(i)' = PayloadPiece(i)
  <2>1. \A i \in 1 .. 4 : m_note_cmds'[i].size = m_note_cmds[i].size
    BY DEF Kept, NotesAdded
  <2> QED
    BY <2>1, Zenon DEF PayloadPiece, Piece
<1>3. CmdsWritten = m_header.ncmds /\ CmdsWritten' = m_header'.ncmds
  BY DEF CmdsWritten, CommandStages
<1>4. HeaderPiece' \in file' /\ IsFiniteSet(Commands') /\ Cardinality(Commands') = CmdsWritten'
  BY <1>1, <1>3 DEF Layout
<1>5. Chained' /\ CommandsDone'
  BY <1>1 DEF Layout, Chained, CommandsDone, EndOf
<1>6. PayloadsDone(4)'
  BY <1>2, Zenon DEF PayloadsDone
<1> QED
  BY <1>4, <1>5, <1>6, Zenon DEF Layout

\* The steps of Build.
LEMMA BuildLayout ==
  ASSUME LayoutInv, BuilderTyped', BuildStep, Kept, stage \notin Collecting,
         shortWrites' = 0, stage' \in Building \ {"failed"}
  PROVE  Layout'
<1>1. /\ ShapeInv /\ BuilderTyped /\ StreamTyped /\ FrontOK /\ NotesAdded /\ Len(m_note_cmds) = 4
      /\ idx \in Nat \ {0} /\ off \in Nat /\ pos \in Nat
  BY DEF LayoutInv, ContentInv, FrontInv, ShapeInv, LoopTyped, StreamTyped, Shape, NotesAdded
<1>2. /\ m_header' = m_header /\ m_thread_cmds' = m_thread_cmds
      /\ m_thread_cmds \in Nat /\ Len(m_segment_cmds) \in Nat
      /\ \A i \in 1 .. 4 : m_note_cmds'[i].size = m_note_cmds[i].size
  BY <1>1, CommandTypes DEF Kept
<1>3. \A i : NotePayloadOffset(i)' = NotePayloadOffset(i)
  BY <1>1, OffsetsKept
<1>4. /\ HeaderSize \in Nat \ {0} /\ NoteCmdSize \in Nat \ {0} /\ ThreadCmdSize \in Nat \ {0}
      /\ SegmentCmdSize \in Nat \ {0}
  BY SizeAssumption
<1>5. HeaderPiece' = HeaderPiece
  BY <1>2 DEF HeaderPiece, Piece
<1>6. CASE HeaderStep
  <2>1. stage = "header" /\ stage' = "note commands" /\ idx' = idx /\ Put(pos, HeaderSize, <<"header">>, m_header)
    BY <1>6 DEF HeaderStep
  <2>2. file = {} /\ idx = 1 /\ pos = 0
    BY <1>1, <2>1 DEF ShapeInv, Shape, Prepared
  <2>3. file' = {HeaderPiece} /\ pos' = HeaderSize
    <3>1. PICK n \in 0 .. HeaderSize : /\ file' = file \cup {Piece(pos, n, <<"header">>, m_header)} /\ pos' = pos + n
                                       /\ n = HeaderSize
      BY <2>1 DEF Put
    <3>2. pos' = HeaderSize
      BY <1>4, <2>2, <3>1
    <3> QED
      BY <2>2, <3>1, <3>2 DEF HeaderPiece
  <2>4. HeaderPiece.part[1] = "header" /\ EndOf(HeaderPiece) = 0 + HeaderSize
    BY DEF HeaderPiece, Piece, EndOf
  <2>5. Commands' = {}
    <3>1. Commands' = {p \in file' : p.part[1] \in CommandKinds}
      BY DEF Commands, PiecesOf, CommandKinds
    <3> QED
      BY <2>3, <2>4, <3>1 DEF CommandKinds
  <2>6. IsFiniteSet(Commands') /\ Cardinality(Commands') = CmdsWritten'
    <3>1. CmdsWritten' = 1 - 1
      BY <2>1, <2>2 DEF CmdsWritten
    <3> QED
      BY <2>5, <3>1, FS_EmptySet
  <2>7. Chained' /\ Tip'
    <3>1. EndOf(HeaderPiece) = HeaderSize
      BY <1>4, <2>4
    <3> QED
      BY <1>5, <2>3, <2>5, <3>1 DEF Chained, Tip, EndOf
  <2>8. HeaderPiece' \in file'
    BY <1>5, <2>3
  <2> QED
    BY <2>1, <2>6, <2>7, <2>8 DEF Layout, CommandStages
<1>7. ASSUME stage # "header" PROVE shortWrites = 0 /\ Layout
  <2>1. shortWrites = 0
    BY <1>7 DEF BuildStep, HeaderStep, NoteStep, ThreadStep, SegmentStep, SkipStep, NotePayloadStep,
                BeginStep, ChunkStep, ToRestStep, RestStep, FailStep, Put
  <2>2. stage \in Building \ {"failed"}
    BY <1>7 DEF BuildStep, HeaderStep, NoteStep, ThreadStep, SegmentStep, SkipStep, NotePayloadStep,
                BeginStep, ChunkStep, ToRestStep, RestStep, FailStep, Building
  <2> QED
    BY <2>1, <2>2 DEF LayoutInv, LayoutOK
<1>8. m_header.ncmds = 4 + m_thread_cmds + Len(m_segment_cmds)
  <2>1. stage \notin Collecting \cup Unfinalized \cup {"failed"}
    BY DEF BuildStep, HeaderStep, NoteStep, ThreadStep, SegmentStep, SkipStep, NotePayloadStep,
           BeginStep, ChunkStep, ToRestStep, RestStep, FailStep, Building, Collecting, Unfinalized
  <2>2. m_header = CommandTotals
    BY <1>1, <2>1 DEF ShapeInv, Shape
  <2> QED
    BY <1>1, <2>2 DEF CommandTotals
<1>9. ASSUME stage \in CommandStages, NEW len \in Nat \ {0}, NEW kind \in CommandKinds, NEW i, NEW ref,
             Put(pos, len, <<kind, i>>, ref)
      PROVE  /\ IsFiniteSet(Commands') /\ Cardinality(Commands') = CmdsWritten + 1 /\ Chained' /\ Tip'
             /\ pos' = pos + len /\ HeaderPiece' \in file'
             /\ (\E c \in Commands' : EndOf(c) = pos') /\ (\A c \in Commands' : EndOf(c) <= pos')
  <2>1. /\ HeaderPiece \in file /\ IsFiniteSet(Commands) /\ Cardinality(Commands) = CmdsWritten /\ Chained /\ Tip
    BY <1>7, <1>9 DEF CommandStages, Layout
  <2>2. Behind(pos)
    BY <1>1, <1>9 DEF CommandStages, FrontOK, Reached
  <2>3. PICK q : Added(q, pos, len, <<kind, i>>, ref)
    BY <1>9, PutPiece
  <2>4. /\ file' = file \cup {q} /\ q.at = pos /\ q.len = len /\ pos' = pos + len
        /\ q.part[1] \in CommandKinds
    BY <1>9, <2>3 DEF Added
  <2>5. /\ IsFiniteSet(Commands') /\ Cardinality(Commands') = CmdsWritten + 1
        /\ Chained' /\ Commands' = Commands \cup {q} /\ EndOf(q) = pos'
    BY <1>1, <1>2, <2>1, <2>2, <2>4, CommandAdded
  <2>6. Tip'
    BY <2>5 DEF Tip, EndOf
  <2>7. \A c \in Commands' : EndOf(c) <= pos'
    <3>1. \A c \in Commands : EndOf(c) \in Nat /\ EndOf(c) <= pos
      BY <1>1, <2>2 DEF Commands, PiecesOf, Behind, StreamTyped, EndOf
    <3>2. pos <= pos' /\ pos' \in Nat
      BY <1>1, <1>9, <2>4
    <3>3. EndOf(q) <= pos'
      BY <2>5, <3>2
    <3> QED
      BY <1>1, <2>5, <3>1, <3>2, <3>3
  <2> QED
    BY <1>5, <2>1, <2>4, <2>5, <2>6, <2>7
<1>10. CASE NoteStep
  <2>1. /\ stage = "note commands"
        /\ \/ stage' = "note commands" /\ idx' = idx + 1
           \/ stage' = "thread commands" /\ idx' = 1 /\ idx = 4
        /\ \E ref : Put(pos, NoteCmdSize, <<"note", idx>>, ref)
    <3>1. /\ stage = "note commands" /\ Advance("note commands", 4, "thread commands")
          /\ \E ref : Put(pos, NoteCmdSize, <<"note", idx>>, ref)
      BY <1>1, <1>10 DEF NoteStep
    <3>2. idx \in 1 .. 4
      BY <1>1, <3>1, LoopPositions
    <3>3. ~(idx < 4) => idx = 4
      BY <3>2
    <3> QED
      BY <3>1, <3>3 DEF Advance
  <2>2. /\ IsFiniteSet(Commands') /\ Cardinality(Commands') = CmdsWritten + 1 /\ Chained' /\ Tip'
        /\ HeaderPiece' \in file'
    BY <1>4, <1>9, <2>1 DEF CommandStages, CommandKinds
  <2>3. CmdsWritten' = CmdsWritten + 1
    <3>1. /\ CmdsWritten = idx - 1
          /\ \/ CmdsWritten' = idx' - 1 /\ idx' = idx + 1
             \/ CmdsWritten' = 3 + 1 /\ idx = 4
      BY <2>1 DEF CmdsWritten
    <3> QED
      BY <1>1, <3>1
  <2> QED
    BY <2>1, <2>2, <2>3 DEF Layout, CommandStages
<1>11. CASE ThreadStep
  <2>1. /\ stage = "thread commands" /\ Put(pos, ThreadCmdSize, <<"thread", idx>>, 0)
        /\ \/ stage' = "thread commands" /\ idx' = idx + 1
           \/ stage' = "segment commands" /\ idx' = 1 /\ idx = m_thread_cmds
    <3>1. idx <= m_thread_cmds /\ ~(idx < m_thread_cmds) => idx = m_thread_cmds
      BY <1>1, <1>2
    <3> QED
      BY <1>11, <3>1 DEF ThreadStep, Advance
  <2>2. /\ IsFiniteSet(Commands') /\ Cardinality(Commands') = CmdsWritten + 1 /\ Chained' /\ Tip'
        /\ HeaderPiece' \in file'
    BY <1>4, <1>9, <2>1 DEF CommandStages, CommandKinds
  <2>3. CmdsWritten' = CmdsWritten + 1
    <3>1. /\ CmdsWritten = 3 + idx
          /\ \/ CmdsWritten' = 3 + idx' /\ idx' = idx + 1
             \/ CmdsWritten' = 3 + m_thread_cmds + 1 /\ idx = m_thread_cmds
      BY <1>2, <2>1 DEF CmdsWritten
    <3> QED
      BY <1>1, <1>2, <3>1
  <2> QED
    BY <2>1, <2>2, <2>3 DEF Layout, CommandStages
<1>12. CASE SegmentStep
  <2>1. /\ stage = "segment commands" /\ \E ref : Put(pos, SegmentCmdSize, <<"segment", idx>>, ref)
        /\ \/ stage' = "segment commands" /\ idx' = idx + 1
           \/ stage' = "note payloads" /\ idx' = 1 /\ idx = Len(m_segment_cmds)
    <3>1. idx <= Len(m_segment_cmds) /\ ~(idx < Len(m_segment_cmds)) => idx = Len(m_segment_cmds)
      BY <1>1, <1>2
    <3> QED
      BY <1>12, <3>1 DEF SegmentStep, Advance
  <2>2. /\ IsFiniteSet(Commands') /\ Cardinality(Commands') = CmdsWritten + 1 /\ Chained' /\ Tip'
        /\ pos' = pos + SegmentCmdSize /\ HeaderPiece' \in file'
        /\ (\E c \in Commands' : EndOf(c) = pos') /\ (\A c \in Commands' : EndOf(c) <= pos')
    BY <1>4, <1>9, <2>1 DEF CommandStages, CommandKinds
  <2>3. CmdsWritten' = CmdsWritten + 1
    <3>1. /\ CmdsWritten = 3 + m_thread_cmds + idx
          /\ \/ CmdsWritten' = 3 + m_thread_cmds + idx' /\ idx' = idx + 1
             \/ CmdsWritten' = 4 + m_thread_cmds + Len(m_segment_cmds) /\ idx = Len(m_segment_cmds)
      BY <1>2, <1>8, <2>1 DEF CmdsWritten
    <3>2. CASE CmdsWritten' = 3 + m_thread_cmds + idx' /\ idx' = idx + 1
      BY <1>1, <1>2, <3>1, <3>2
    <3>3. CASE CmdsWritten' = 4 + m_thread_cmds + Len(m_segment_cmds) /\ idx = Len(m_segment_cmds)
      <4> DEFINE n == Len(m_segment_cmds)
      <4>1. CmdsWritten' = 4 + m_thread_cmds + n /\ CmdsWritten = 3 + m_thread_cmds + n /\ n \in Nat
        BY <1>2, <3>1, <3>3
      <4> HIDE DEF n
      <4> QED
        BY <1>2, <4>1
    <3> QED
      BY <3>1, <3>2, <3>3
  <2>4. ASSUME stage' = "note payloads" PROVE CommandsDone' /\ PayloadsDone(idx - 1)'
    <3>1. idx' = 1 /\ idx = Len(m_segment_cmds)
      BY <2>1, <2>4
    <3>2. pos = SegmentCmdAt(idx)
      BY <1>1, <1>7, <2>1 DEF FrontOK, Reached
    <3>3. m_header = CommandTotals
      BY <1>1, <2>1 DEF ShapeInv, Shape, Collecting, Unfinalized
    <3>4. SegmentCmdAt(idx + 1) = SegmentCmdAt(idx) + SegmentCmdSize
      BY <1>1, CommandPlaces
    <3>5. SegmentCmdAt(Len(m_segment_cmds) + 1) = HeaderSize + m_header.sizeofcmds
      BY <1>1, <3>3, CommandPlaces
    <3>6. pos' = HeaderSize + m_header'.sizeofcmds
      BY <1>2, <2>2, <3>1, <3>2, <3>4, <3>5
    <3>7. CommandsDone'
      BY <2>2, <3>6 DEF CommandsDone, EndOf
    <3>8. 1 .. idx' - 1 = {}
      BY <3>1
    <3> QED
      BY <3>7, <3>8 DEF PayloadsDone
  <2> QED
    BY <2>1, <2>2, <2>3, <2>4 DEF Layout, CommandStages
<1>13. CASE SkipStep
  <2>1. UNCHANGED <<idx, off, pos, file, shortWrites>>
    BY <1>13 DEF SkipStep
  <2>2. Layout /\ shortWrites = 0
    BY <1>7, <1>13 DEF SkipStep
  <2>3. idx = 1
    <3>1. m_segment_cmds = <<>> => Len(m_segment_cmds) = 0
      OBVIOUS
    <3>2. stage = "thread commands" => idx = 1 \/ idx <= m_thread_cmds
      BY <1>1 DEF ShapeInv, LoopOK
    <3>3. stage \in {"segment commands", "segment payloads"} => idx = 1 \/ idx <= Len(m_segment_cmds)
      BY <1>1 DEF ShapeInv, LoopOK
    <3>4. ~(idx <= 0)
      BY <1>1
    <3> QED
      BY <1>13, <3>1, <3>2, <3>3, <3>4 DEF SkipStep
  <2>4. Commands' = Commands /\ HeaderPiece' \in file' /\ Chained' /\ (Tip => Tip')
    BY <1>5, <2>1, <2>2 DEF Layout, Commands, PiecesOf, Chained, Tip
  <2>5. CASE stage = "thread commands" /\ m_thread_cmds = 0 /\ stage' = "segment commands"
    <3>1. CmdsWritten' = CmdsWritten
      <4>1. CmdsWritten = 3 + idx /\ CmdsWritten' = 3 + m_thread_cmds + idx /\ m_thread_cmds = 0
        BY <1>2, <2>1, <2>5 DEF CmdsWritten
      <4> QED
        BY <1>1, <4>1
    <3> QED
      BY <2>2, <2>4, <2>5, <3>1 DEF Layout, CommandStages
  <2>6. CASE stage = "segment commands" /\ m_segment_cmds = <<>> /\ stage' = "note payloads"
    <3>1. Len(m_segment_cmds) = 0 /\ Len(m_segment_cmds) + 1 = 1
      <4>1. m_segment_cmds = <<>>
        BY <2>6
      <4> QED
        BY <4>1
    <3>2. CmdsWritten' = CmdsWritten
      <4>1. CmdsWritten = 3 + m_thread_cmds + idx /\ CmdsWritten' = m_header.ncmds
        BY <1>2, <2>6 DEF CmdsWritten
      <4> QED
        BY <1>2, <1>8, <2>3, <3>1, <4>1
    <3>3. pos = SegmentCmdAt(1) /\ Behind(pos)
      BY <1>1, <2>2, <2>3, <2>6 DEF FrontOK, Reached
    <3>4. m_header = CommandTotals
      BY <1>1, <2>6 DEF ShapeInv, Shape, Collecting, Unfinalized
    <3>5. pos = HeaderSize + m_header.sizeofcmds
      <4>1. SegmentCmdAt(Len(m_segment_cmds) + 1) = HeaderSize + m_header.sizeofcmds
        BY <1>1, <3>4, CommandPlaces
      <4> QED
        BY <3>1, <3>3, <4>1
    <3>6. m_header.sizeofcmds # 0
      <4>1. m_header.sizeofcmds = 4 * NoteCmdSize + m_thread_cmds * ThreadCmdSize + 0 * SegmentCmdSize
        BY <1>1, <3>1, <3>4 DEF CommandTotals
      <4>2. m_thread_cmds * ThreadCmdSize \in Nat /\ 0 * SegmentCmdSize = 0
        BY <1>2, <1>4, OneMore
      <4> QED
        BY <1>4, <4>1, <4>2
    <3>7. EndOf(HeaderPiece) # pos
      <4>1. EndOf(HeaderPiece) = 0 + HeaderSize
        BY DEF HeaderPiece, Piece, EndOf
      <4>2. m_header.sizeofcmds \in Nat
        BY <1>1, CommandTypes
      <4> QED
        BY <1>4, <3>5, <3>6, <4>1, <4>2
    <3>8. \E c \in Commands : EndOf(c) = pos
      <4>1. Tip
        BY <2>2, <2>6 DEF Layout, CommandStages
      <4> QED
        BY <3>7, <4>1 DEF Tip
    <3>9. CommandsDone
      <4>1. \A c \in Commands : EndOf(c) <= pos
        BY <3>3 DEF Behind, Commands, PiecesOf
      <4> QED
        BY <3>5, <3>8, <4>1 DEF CommandsDone
    <3>10. CommandsDone'
      BY <1>2, <2>4, <3>9 DEF CommandsDone
    <3>11. 1 .. idx' - 1 = {}
      <4>1. idx' = 1
        BY <2>1, <2>3
      <4> QED
        BY <4>1
    <3> QED
      BY <2>2, <2>4, <2>6, <3>2, <3>10, <3>11 DEF Layout, CommandStages, PayloadsDone
  <2>7. CASE stage = "segment payloads" /\ stage' = "built"
    <3>1. PayloadsDone(4)
      BY <2>2, <2>7 DEF Layout
    <3> QED
      BY <1>1, <1>3, <2>1, <2>2, <2>4, <2>7, <3>1, LayoutStays DEF CommandStages
  <2> QED
    BY <1>13, <2>5, <2>6, <2>7 DEF SkipStep
<1>14. CASE NotePayloadStep
  <2>1. stage = "note payloads" /\ Layout
    BY <1>7, <1>14 DEF NotePayloadStep
  <2>2. idx \in 1 .. 4
    BY <1>1, <2>1, LoopPositions
  <2>3. /\ \/ stage' = "note payloads" /\ idx' = idx + 1
           \/ stage' = "segment payloads" /\ idx' = 1 /\ idx = 4
    <3>1. Advance("note payloads", 4, "segment payloads")
      BY <1>1, <1>14 DEF NotePayloadStep
    <3>2. ~(idx < 4) => idx = 4
      BY <2>2
    <3> QED
      BY <3>1, <3>2 DEF Advance
  <2>4. file' = file \cup {PayloadPiece(idx)}
    BY <1>14, Zenon DEF NotePayloadStep, Put, PayloadPiece
  <2>5. PayloadPiece(idx).part[1] \notin CommandKinds
    <3>1. PayloadPiece(idx).part = <<"note payload", idx>>
      BY DEF PayloadPiece, Piece
    <3>2. PayloadPiece(idx).part[1] = "note payload"
      <4>1. PICK part, i : part = PayloadPiece(idx).part /\ part = <<"note payload", i>>
        BY <3>1
      <4>2. part[1] = "note payload" /\ part[2] = i
        <5>1. part = <<"note payload", i>>
          BY <4>1
        <5> QED
          BY <5>1, PartElements, Zenon
      <4> QED
        BY <4>1, <4>2, Zenon
    <3> QED
      BY <3>2 DEF CommandKinds
  <2>6. Commands' = Commands
    BY <2>4, <2>5, CommandsStay
  <2>7. \A i \in 1 .. 4 : PayloadPiece(i)' = PayloadPiece(i)
    BY <1>2, <1>3, Zenon DEF PayloadPiece, Piece
  <2>8. \A i \in 1 .. idx : PayloadPiece(i) \in file'
    <3>1. \A i \in 1 .. idx - 1 : PayloadPiece(i) \in file
      BY <2>1 DEF Layout, PayloadsDone
    <3>2. \A i \in 1 .. idx : i \in 1 .. idx - 1 \/ i = idx
      BY <1>1
    <3> QED
      BY <2>4, <3>1, <3>2
  <2>9. CmdsWritten = m_header.ncmds /\ CmdsWritten' = m_header.ncmds
    BY <1>2, <2>1, <2>3 DEF CmdsWritten
  <2>10. /\ HeaderPiece' \in file' /\ IsFiniteSet(Commands') /\ Cardinality(Commands') = CmdsWritten'
    BY <1>5, <2>1, <2>4, <2>6, <2>9 DEF Layout
  <2>11. Chained' /\ CommandsDone'
    BY <1>2, <1>5, <2>1, <2>6 DEF Layout, Chained, CommandsDone, CommandStages
  <2>12. CASE stage' = "note payloads" /\ idx' = idx + 1
    <3>1. idx' - 1 = idx
      <4>1. idx' = idx + 1
        BY <2>12
      <4> QED
        BY <1>1, <4>1
    <3>2. 1 .. idx \subseteq 1 .. 4
      BY <2>2
    <3>3. PayloadsDone(idx - 1)'
      BY <2>7, <2>8, <3>1, <3>2 DEF PayloadsDone
    <3> QED
      BY <2>10, <2>11, <2>12, <3>3 DEF Layout, CommandStages
  <2>13. CASE stage' = "segment payloads" /\ idx = 4
    <3>1. PayloadsDone(4)'
      BY <2>7, <2>8, <2>13 DEF PayloadsDone
    <3> QED
      BY <2>10, <2>11, <2>13, <3>1 DEF Layout, CommandStages
  <2> QED
    BY <2>3, <2>12, <2>13
<1>15. CASE BeginStep \/ ToRestStep
  <2>1. /\ stage \in {"segment payloads", "chunks"} /\ stage' \in {"chunks", "rest"} /\ file' = file
    BY <1>15 DEF BeginStep, ToRestStep
  <2>2. Layout /\ PayloadsDone(4) /\ Commands' = Commands
    BY <1>7, <2>1 DEF Layout, Commands, PiecesOf
  <2> QED
    BY <1>1, <1>3, <2>1, <2>2, LayoutStays DEF CommandStages
<1>16. CASE ChunkStep \/ RestStep
  <2>1. stage \in {"chunks", "rest"} /\ stage' \in {"chunks", "segment payloads", "built"}
    BY <1>16 DEF ChunkStep, RestStep, Advance
  <2>2. Layout /\ PayloadsDone(4)
    BY <1>7, <2>1 DEF Layout
  <2>3. file' = file \/ \E len : Put(pos, len, <<"segment payload", idx>>, off)
    BY <1>16, Zenon DEF ChunkStep, RestStep
  <2>4. Commands' = Commands /\ file \subseteq file'
    <3>1. CASE file' = file
      BY <3>1 DEF Commands, PiecesOf
    <3>2. CASE \E len : Put(pos, len, <<"segment payload", idx>>, off)
      <4>1. PICK len, q : Added(q, pos, len, <<"segment payload", idx>>, off)
        BY <3>2, PutPiece, Zenon
      <4>2. file' = file \cup {q} /\ q.part = <<"segment payload", idx>>
        BY <4>1, Zenon DEF Added
      <4>3. q.part[1] = "segment payload"
        <5>1. PICK i : q.part = <<"segment payload", i>>
          BY <4>2
        <5>2. q.part[1] = "segment payload" /\ q.part[2] = i
          BY <5>1, PartElements, Zenon
        <5> QED
          BY <5>2
      <4>4. q.part[1] \notin CommandKinds
        BY <4>3 DEF CommandKinds
      <4>5. file' = file \cup {q}
        BY <4>2, Zenon
      <4> QED
        BY <4>4, <4>5, CommandsStay
    <3> QED
      BY <2>3, <3>1, <3>2
  <2> QED
    BY <1>1, <1>3, <2>1, <2>2, <2>4, LayoutStays DEF CommandStages
<1>17. ~FailStep
  BY DEF FailStep
<1> QED
  BY <1>6, <1>10, <1>11, <1>12, <1>13, <1>14, <1>15, <1>16, <1>17 DEF BuildStep

\* Steps that change nothing.
LEMMA LayoutStands ==
  ASSUME LayoutOK, UNCHANGED vars
  PROVE  LayoutOK'
<1>1. /\ UNCHANGED <<m_header, m_note_cmds, m_thread_cmds>>
      /\ UNCHANGED <<stage, idx, pos, file, shortWrites>>
  BY DEF vars, builderVars, streamVars
<1>2. HeaderPiece' = HeaderPiece /\ Commands' = Commands /\ CmdsWritten' = CmdsWritten
  BY <1>1 DEF HeaderPiece, Piece, Commands, PiecesOf, CmdsWritten
<1>3. \A i : PayloadPiece(i)' = PayloadPiece(i)
  <2>1. \A i : NotePayloadOffset(i)' = NotePayloadOffset(i)
    BY <1>1 DEF NotePayloadOffset, NoteSizes
  <2> QED
    BY <1>1, <2>1, Zenon DEF PayloadPiece, Piece
<1>4. (Chained => Chained') /\ (Tip => Tip') /\ (CommandsDone => CommandsDone')
  BY <1>1, <1>2 DEF Chained, Tip, CommandsDone
<1>5. (PayloadsDone(idx - 1) => PayloadsDone(idx - 1)') /\ (PayloadsDone(4) => PayloadsDone(4)')
  BY <1>1, <1>3 DEF PayloadsDone
<1> QED
  BY <1>1, <1>2, <1>4, <1>5 DEF LayoutOK, Layout

\* The layout is an invariant.
LEMMA LayoutInvariance == Spec => []LayoutInv
<1>1. Init => LayoutOK
  BY DEF Init, LayoutOK, Building
<1>2. ASSUME LayoutInv, ContentInv', [Next]_vars PROVE LayoutInv'
  <2>1. ShapeInv /\ BuilderTyped' /\ LayoutOK
    BY <1>2 DEF LayoutInv, ContentInv, FrontInv, ShapeInv
  <2>2. CASE Collect \/ AddPayloads
    <3>1. stage' \in Collecting \cup Unfinalized \cup Prepared \cup {"failed"}
      BY <2>1, <2>2, BeforeBuild
    <3>2. stage' \notin Building \ {"failed"}
      BY <3>1 DEF Collecting, Unfinalized, Prepared, Building
    <3> QED
      BY <1>2, <3>2 DEF LayoutInv, LayoutOK
  <2>3. CASE Build
    <3>1. Kept /\ stage \notin Collecting /\ BuildStep
      BY <2>1, <2>3, BuildKeeps, BuildCases
    <3>2. LayoutOK'
      BY <1>2, <2>1, <3>1, BuildLayout DEF LayoutOK
    <3> QED
      BY <1>2, <3>2 DEF LayoutInv
  <2>4. CASE UNCHANGED vars
    BY <1>2, <2>1, <2>4, LayoutStands DEF LayoutInv
  <2> QED
    BY <1>2, <2>2, <2>3, <2>4 DEF Next, Finished
<1>3. ContentInv /\ LayoutOK => LayoutInv
  BY DEF LayoutInv
<1> QED
  BY <1>1, <1>2, <1>3, ContentInvariance, PTL DEF Spec

\* The payload that a note command leads to.
LEMMA PayloadOfNote ==
  ASSUME PayloadsDone(4), NEW i \in 1 .. 4, NEW c, IsNotePiece(c, i)
  PROVE  \E p \in file : /\ p.part = <<"note payload", i>>
                         /\ p.at = c.ref.offset /\ p.len = c.ref.size
<1>1. PayloadPiece(i) \in file
  BY DEF PayloadsDone
<1>2. c.ref = NoteRef(i)
  BY DEF IsNotePiece
<1>3. c.ref.offset = NotePayloadOffset(i) /\ c.ref.size = m_note_cmds[i].size
  BY <1>2 DEF NoteRef
<1>4. /\ PayloadPiece(i).part = <<"note payload", i>> /\ PayloadPiece(i).at = NotePayloadOffset(i)
      /\ PayloadPiece(i).len = m_note_cmds[i].size
  BY DEF PayloadPiece, Piece
<1> QED
  BY <1>1, <1>3, <1>4, Zenon

\* A reader of a core file that Build reported as written finds its way, for all
\* numbers of threads and segments and all sizes, unless a write was incomplete:
\* the header is at the start, the commands follow it without a gap and are as
\* many and as long as it says, every note command leads to its payload.
THEOREM CompleteFileIsReadable == Spec => []LayoutSoundIfComplete
<1>1. LayoutInv => LayoutSoundIfComplete
  <2> SUFFICES ASSUME LayoutInv, shortWrites = 0, stage = "built" PROVE LayoutSound
    BY DEF LayoutSoundIfComplete, LayoutSound
  <2>1. Layout /\ \A p \in file : PieceOK(p)
    BY DEF LayoutInv, LayoutOK, ContentInv, Building
  <2>2. /\ HeaderPiece \in file /\ Cardinality(Commands) = m_header.ncmds /\ Chained /\ CommandsDone
        /\ PayloadsDone(4)
    BY <2>1 DEF Layout, CmdsWritten, CommandStages
  <2>3. /\ HeaderPiece.part = <<"header">> /\ HeaderPiece.at = 0 /\ HeaderPiece.len = HeaderSize
        /\ HeaderPiece.ref = m_header
    BY DEF HeaderPiece, Piece
  <2>4. ASSUME NEW c \in PiecesOf("note")
        PROVE  \E p \in file : /\ p.part = <<"note payload", c.part[2]>>
                               /\ p.at = c.ref.offset /\ p.len = c.ref.size
    <3>1. PieceOK(c) /\ c.part[1] = "note"
      BY <2>1 DEF PiecesOf
    <3>2. PICK i \in 1 .. 4 : IsNotePiece(c, i) /\ c.part[2] = i
      BY <3>1, PieceKinds
    <3> QED
      BY <2>2, <3>2, PayloadOfNote, Zenon
  <2>5. \A c \in Commands : \E p \in Commands \cup {HeaderPiece} : EndOf(p) = c.at
    BY <2>2 DEF Chained
  <2>6. /\ \E c \in Commands : EndOf(c) = HeaderSize + HeaderPiece.ref.sizeofcmds
        /\ \A c \in Commands : EndOf(c) <= HeaderSize + HeaderPiece.ref.sizeofcmds
    BY <2>2, <2>3 DEF CommandsDone
  <2>7. Cardinality(Commands) = HeaderPiece.ref.ncmds
    BY <2>2, <2>3
  <2> QED
    BY <2>2, <2>3, <2>4, <2>5, <2>6, <2>7, Zenon DEF LayoutSound
<1> QED
  BY <1>1, LayoutInvariance, PTL
=============================================================================
