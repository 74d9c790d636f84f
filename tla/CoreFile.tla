------------------------------ MODULE CoreFile ------------------------------
(***************************************************************************)
(* MachOCoreDumpBuilder as AddThreadsToCore, AddNotesToCore and            *)
(* AddPayloadsAndWrite use it, and the stream it writes to.                *)
(*                                                                         *)
(* The core file refers to itself by offsets, which depend on how many     *)
(* load commands there are and on the sizes of payloads that become known  *)
(* one after the other.  The model keeps the commands and the sizes, and   *)
(* the file as the set of pieces written to it; what a piece contains is   *)
(* given by its part, and by the offsets it holds.                         *)
(***************************************************************************)
EXTENDS Integers, Sequences, FiniteSets, Sums

CONSTANTS
  HeaderSize, NoteCmdSize, ThreadCmdSize, SegmentCmdSize,  \* sizes of the structs
  NoteAlign, SegmentAlign,  \* where the first note and segment payload may start
  MaxChunkSize,             \* longest piece of a segment written at once
  MaxThreads,               \* bound on the number of thread commands
  MaxSegments,              \* bound on the number of segments
  SegmentSizes,             \* lengths of the collected memory ranges
  MetadataSizes,            \* lengths of the JSON list of thread ids
  ImageInfosSizes,          \* lengths of the list of images, 0 if it is unusable
  MaxShortWrites            \* bound on the number of incomplete writes

ASSUME SizeAssumption ==
  /\ {HeaderSize, NoteCmdSize, ThreadCmdSize, SegmentCmdSize} \subseteq Nat \ {0}
  /\ {NoteAlign, SegmentAlign, MaxChunkSize} \subseteq Nat \ {0}
  /\ SegmentSizes \subseteq Nat \ {0}
  /\ MetadataSizes \subseteq Nat \ {0}
  /\ ImageInfosSizes \subseteq Nat

ASSUME BoundAssumption == {MaxThreads, MaxSegments, MaxShortWrites} \subseteq Nat

VARIABLES
  m_loadCommandsFinalized,
  m_header,                \* ncmds and sizeofcmds
  m_note_cmds,             \* owner, size and offset of every note
  m_thread_cmds,           \* how many thread commands there are
  m_segment_cmds,          \* vmaddr, filesize and fileoff of every segment
  imageInfosPayloadOffset, \* the offset used inside the all image infos payload
  stage,                   \* where AddPayloadsAndWrite and Build are
  idx,                     \* index of Build's loop over commands
  off,                     \* offset in the segment that is being written
  pos, file,               \* the stream: its position and the pieces written
  shortWrites              \* number of incomplete writes

builderVars == <<m_loadCommandsFinalized, m_header, m_note_cmds, m_thread_cmds, m_segment_cmds>>
streamVars == <<pos, file, shortWrites>>
vars == <<builderVars, imageInfosPayloadOffset, stage, idx, off, streamVars>>
-----------------------------------------------------------------------------
AddrableBitsOwner == "addrable bits"
AllImageInfosOwner == "all image infos"
MainBinSpecOwner == "main bin spec"
ProcessMetadataOwner == "process metadata"

AddrableBitsSize == 16
MainBinSpecSize == 48

MutantRoundUp(number, roundTo) == (number \div roundTo) * roundTo

RoundUp(number, roundTo) ==
  IF number % roundTo = 0 THEN number ELSE (number \div roundTo + 1) * roundTo

\* The sizes of the payloads of the first i notes, and of the first i segments.
NoteSizes(i) == SizesUpTo([j \in DOMAIN m_note_cmds |-> m_note_cmds[j].size], i)

SegmentSizesUpTo(i) == SizesUpTo([j \in DOMAIN m_segment_cmds |-> m_segment_cmds[j].filesize], i)

\* GetOffsetForNoteCommandPayload: where the payload of note i goes.  Build asks
\* with the owner field of the note itself; no two notes have the same owner.
NotePayloadOffset(i) ==
  RoundUp(HeaderSize + m_header.sizeofcmds, NoteAlign) + NoteSizes(i - 1)

\* GetOffsetForSegmentCommandPayload: the segments follow the last note.  It
\* asks by address; no two segments start at the same one.
SegmentPayloadOffset(i) ==
  LET n == Len(m_note_cmds)
  IN  RoundUp(NotePayloadOffset(n) + m_note_cmds[n].size, SegmentAlign)
        + SegmentSizesUpTo(i - 1)

\* A note is looked up by its owner, the first one that matches.  An owner of 16
\* characters is not terminated: it matches while the next byte, the lowest one
\* of the note's offset, is 0.
Matches(i, owner) ==
  /\ m_note_cmds[i].owner = owner
  /\ owner = ProcessMetadataOwner => m_note_cmds[i].offset % 256 = 0

IsNote(i, owner) ==
  /\ i \in DOMAIN m_note_cmds
  /\ Matches(i, owner)
  /\ \A j \in 1 .. i - 1 : ~Matches(j, owner)

NewNote(owner) == [owner |-> owner, size |-> 0, offset |-> 0]

MutantNewSegment(vmaddr, size) == [vmaddr |-> vmaddr, filesize |-> 0, fileoff |-> 0]

NewSegment(vmaddr, size) == [vmaddr |-> vmaddr, filesize |-> size, fileoff |-> 0]

\* The first address behind the segments so far; ranges are never adjacent.
NextAddress ==
  IF m_segment_cmds = <<>> THEN 0
  ELSE LET last == m_segment_cmds[Len(m_segment_cmds)] IN last.vmaddr + last.filesize + 1
-----------------------------------------------------------------------------
(* The operations of the builder. *)

\* Unlike its siblings this one does not ask m_loadCommandsFinalized.
AddThreadCommand ==
  /\ m_thread_cmds < MaxThreads
  /\ m_thread_cmds' = m_thread_cmds + 1
  /\ UNCHANGED <<m_loadCommandsFinalized, m_header, m_note_cmds, m_segment_cmds>>

AddSegmentCommand(vmaddr, size) ==
  /\ ~m_loadCommandsFinalized
  /\ Len(m_segment_cmds) < MaxSegments
  /\ m_segment_cmds' = Append(m_segment_cmds, NewSegment(vmaddr, size))
  /\ UNCHANGED <<m_loadCommandsFinalized, m_header, m_note_cmds, m_thread_cmds>>

AddNoteCommands(owners) ==
  /\ ~m_loadCommandsFinalized
  /\ m_note_cmds' = m_note_cmds \o [i \in DOMAIN owners |-> NewNote(owners[i])]
  /\ UNCHANGED <<m_loadCommandsFinalized, m_header, m_thread_cmds, m_segment_cmds>>

\* The result, FALSE for an unknown owner, is ignored by the callers.
AddDataProviderForNoteCommand(owner, size) ==
  /\ m_note_cmds' = [i \in DOMAIN m_note_cmds |->
                       IF IsNote(i, owner)
                       THEN [m_note_cmds[i] EXCEPT !.size = size]
                       ELSE m_note_cmds[i]]
  /\ UNCHANGED <<m_loadCommandsFinalized, m_header, m_thread_cmds, m_segment_cmds>>

\* What FinalizeLoadCommands puts into the header.
CommandTotals ==
  [ncmds      |-> Len(m_note_cmds) + m_thread_cmds + Len(m_segment_cmds),
   sizeofcmds |-> Len(m_note_cmds) * NoteCmdSize + m_thread_cmds * ThreadCmdSize
                    + Len(m_segment_cmds) * SegmentCmdSize]

FinalizeLoadCommands ==
  /\ m_header' = IF m_loadCommandsFinalized THEN m_header ELSE CommandTotals
  /\ m_loadCommandsFinalized' = TRUE
  /\ UNCHANGED <<m_note_cmds, m_thread_cmds, m_segment_cmds>>
-----------------------------------------------------------------------------
(* The stream. *)

Piece(at, len, part, ref) == [at |-> at, len |-> len, part |-> part, ref |-> ref]

ShortLength(len) == len \div 2

\* FileOStream::Write succeeds when write (2) wrote anything at all.
WrittenLengths(len) ==
  {len} \cup IF shortWrites < MaxShortWrites /\ ShortLength(len) > 0
             THEN {ShortLength(len)} ELSE {}

Write(len, part, ref) ==
  \E n \in WrittenLengths(len) :
    /\ file' = file \cup {Piece(pos, n, part, ref)}
    /\ pos' = pos + n
    /\ shortWrites' = IF n < len THEN shortWrites + 1 ELSE shortWrites

\* write (2) fails and with it Build.
WriteFails ==
  /\ stage' = "failed"
  /\ UNCHANGED <<idx, off, streamVars>>
-----------------------------------------------------------------------------
Init ==
  /\ m_loadCommandsFinalized = FALSE
  /\ m_header = [ncmds |-> 0, sizeofcmds |-> 0]
  /\ m_note_cmds = <<>>
  /\ m_thread_cmds = 0
  /\ m_segment_cmds = <<>>
  /\ imageInfosPayloadOffset = 0
  /\ stage = "threads"
  /\ idx = 1 /\ off = 0
  /\ pos = 0 /\ file = {} /\ shortWrites = 0
-----------------------------------------------------------------------------
(* AddThreadsToCore and AddNotesToCore. *)

CollectThread ==
  /\ stage = "threads"
  /\ AddThreadCommand
  /\ UNCHANGED <<imageInfosPayloadOffset, stage, idx, off, streamVars>>

CollectSegment(gap, size) ==
  /\ stage \in {"threads", "segments"}
  /\ AddSegmentCommand(NextAddress + gap, size)
  /\ stage' = "segments"
  /\ UNCHANGED <<imageInfosPayloadOffset, idx, off, streamVars>>

MutantNoteOwners ==
  <<AddrableBitsOwner, MainBinSpecOwner, AllImageInfosOwner, ProcessMetadataOwner>>

NoteOwners ==
  <<AddrableBitsOwner, AllImageInfosOwner, MainBinSpecOwner, ProcessMetadataOwner>>

AddNotesToCore ==
  /\ stage \in {"threads", "segments"}
  /\ AddNoteCommands(NoteOwners)
  /\ stage' = "addrable bits"
  /\ UNCHANGED <<imageInfosPayloadOffset, idx, off, streamVars>>
-----------------------------------------------------------------------------
(* AddPayloadsAndWrite. *)

SetPayload(at, owner, size, next) ==
  /\ stage = at
  /\ AddDataProviderForNoteCommand(owner, size)
  /\ stage' = next
  /\ UNCHANGED <<imageInfosPayloadOffset, idx, off, streamVars>>

\* sysctlbyname tells the number of address bits, or the dump fails.
AddAddrableBits == SetPayload("addrable bits", AddrableBitsOwner, AddrableBitsSize, "metadata")

AddrableBitsFail ==
  /\ stage = "addrable bits"
  /\ stage' = "failed"
  /\ UNCHANGED <<builderVars, imageInfosPayloadOffset, idx, off, streamVars>>

AddProcessMetadata(size) == SetPayload("metadata", ProcessMetadataOwner, size, "finalize")

FinalizeForImageInfos ==
  /\ stage = "finalize"
  /\ FinalizeLoadCommands
  /\ stage' = "image infos"
  /\ UNCHANGED <<imageInfosPayloadOffset, idx, off, streamVars>>

\* The payload is made for the offset the note has now; an empty one fails.
AddImageInfos(size) ==
  /\ stage = "image infos"
  /\ \E i \in DOMAIN m_note_cmds :
       /\ IsNote(i, AllImageInfosOwner)
       /\ imageInfosPayloadOffset' = NotePayloadOffset(i)
  /\ \/ /\ size > 0
        /\ AddDataProviderForNoteCommand(AllImageInfosOwner, size)
        /\ stage' = "main bin spec"
     \/ size = 0 /\ stage' = "failed" /\ UNCHANGED builderVars
  /\ UNCHANGED <<idx, off, streamVars>>

AddMainBinSpec == SetPayload("main bin spec", MainBinSpecOwner, MainBinSpecSize, "offsets")

\* The loop over the segment commands in front of Build.
SetFileOffsets ==
  /\ stage = "offsets"
  /\ m_segment_cmds' = [i \in DOMAIN m_segment_cmds |->
                          [m_segment_cmds[i] EXCEPT !.fileoff = SegmentPayloadOffset(i)]]
  /\ stage' = "header"
  /\ UNCHANGED <<m_loadCommandsFinalized, m_header, m_note_cmds, m_thread_cmds,
                 imageInfosPayloadOffset, idx, off, streamVars>>
-----------------------------------------------------------------------------
(* Build. *)

WriteHeader ==
  /\ stage = "header"
  /\ FinalizeLoadCommands
  /\ \/ /\ Write(HeaderSize, <<"header">>, m_header')
        /\ stage' = "note commands"
        /\ UNCHANGED <<idx, off>>
     \/ WriteFails
  /\ UNCHANGED imageInfosPayloadOffset

\* Build's loop at `at' goes on to the next of n elements, or to the next loop.
Advance(at, n, next) ==
  IF idx < n
  THEN stage' = at /\ idx' = idx + 1
  ELSE stage' = next /\ idx' = 1

MutantWriteNoteCommand ==    \* the command is written before it has its offset
  /\ stage = "note commands"
  /\ \/ /\ Write(NoteCmdSize, <<"note", idx>>,
                 [offset |-> m_note_cmds[idx].offset, size |-> m_note_cmds[idx].size])
        /\ Advance("note commands", Len(m_note_cmds), "thread commands")
        /\ UNCHANGED off
     \/ WriteFails
  /\ UNCHANGED <<builderVars, imageInfosPayloadOffset>>

\* A note command gets its offset and is written.
WriteNoteCommand ==
  /\ stage = "note commands"
  /\ m_note_cmds' = [m_note_cmds EXCEPT ![idx].offset = NotePayloadOffset(idx)]
  /\ \/ /\ Write(NoteCmdSize, <<"note", idx>>,
                 [offset |-> NotePayloadOffset(idx), size |-> m_note_cmds[idx].size])
        /\ Advance("note commands", Len(m_note_cmds), "thread commands")
        /\ UNCHANGED off
     \/ WriteFails
  /\ UNCHANGED <<m_loadCommandsFinalized, m_header, m_thread_cmds, m_segment_cmds,
                 imageInfosPayloadOffset>>

WriteThreadCommand ==
  /\ stage = "thread commands"
  /\ idx <= m_thread_cmds
  /\ \/ /\ Write(ThreadCmdSize, <<"thread", idx>>, 0)
        /\ Advance("thread commands", m_thread_cmds, "segment commands")
        /\ UNCHANGED off
     \/ WriteFails
  /\ UNCHANGED <<builderVars, imageInfosPayloadOffset>>

WriteSegmentCommand ==
  /\ stage = "segment commands"
  /\ idx <= Len(m_segment_cmds)
  /\ m_segment_cmds' = [m_segment_cmds EXCEPT ![idx].fileoff = SegmentPayloadOffset(idx)]
  /\ \/ /\ Write(SegmentCmdSize, <<"segment", idx>>,
                 [offset |-> SegmentPayloadOffset(idx), size |-> m_segment_cmds[idx].filesize])
        /\ Advance("segment commands", Len(m_segment_cmds), "note payloads")
        /\ UNCHANGED off
     \/ WriteFails
  /\ UNCHANGED <<m_loadCommandsFinalized, m_header, m_note_cmds, m_thread_cmds,
                 imageInfosPayloadOffset>>

\* A loop over no elements.
SkipEmptyLoop ==
  /\ \/ stage = "thread commands" /\ m_thread_cmds = 0 /\ stage' = "segment commands"
     \/ stage = "segment commands" /\ m_segment_cmds = <<>> /\ stage' = "note payloads"
     \/ stage = "segment payloads" /\ m_segment_cmds = <<>> /\ stage' = "built"
  /\ UNCHANGED <<builderVars, imageInfosPayloadOffset, idx, off, streamVars>>

\* SetPosition, then the payload.
WriteNotePayload ==
  /\ stage = "note payloads"
  /\ \/ \E n \in WrittenLengths(m_note_cmds[idx].size) :
          /\ file' = file \cup {Piece(NotePayloadOffset(idx), n, <<"note payload", idx>>, 0)}
          /\ pos' = NotePayloadOffset(idx) + n
          /\ shortWrites' = IF n < m_note_cmds[idx].size THEN shortWrites + 1 ELSE shortWrites
          /\ Advance("note payloads", Len(m_note_cmds), "segment payloads")
          /\ UNCHANGED off
     \/ WriteFails
  /\ UNCHANGED <<builderVars, imageInfosPayloadOffset>>

ChunkSize(size) == IF size <= MaxChunkSize THEN size ELSE MaxChunkSize

LeftOver(size) == size % ChunkSize(size)

BeginSegment ==
  /\ stage = "segment payloads"
  /\ idx <= Len(m_segment_cmds)
  /\ pos' = SegmentPayloadOffset(idx)
  /\ off' = 0
  /\ stage' = "chunks"
  /\ UNCHANGED <<builderVars, imageInfosPayloadOffset, idx, file, shortWrites>>

MutantWriteChunk ==          \* a chunk that cannot be read is passed over
  LET size == m_segment_cmds[idx].filesize
  IN  /\ stage = "chunks"
      /\ off + ChunkSize(size) <= size
      /\ off' = off + ChunkSize(size)
      /\ Write(ChunkSize(size), <<"segment payload", idx>>, off) \/ UNCHANGED streamVars
      /\ UNCHANGED <<builderVars, imageInfosPayloadOffset, stage, idx>>

MutantStuckChunk ==          \* an unreadable chunk is tried again and again
  /\ stage = "chunks"
  /\ UNCHANGED vars

\* A full chunk is read from the target and written.  If it cannot be read, the
\* loop over the chunks ends and the segment's rest is tried.
WriteChunk ==
  LET size == m_segment_cmds[idx].filesize
  IN  /\ stage = "chunks"
      /\ off + ChunkSize(size) <= size
      /\ \/ /\ Write(ChunkSize(size), <<"segment payload", idx>>, off)
            /\ off' = off + ChunkSize(size)
            /\ UNCHANGED <<stage, idx>>
         \/ stage' = "rest" /\ UNCHANGED <<idx, off, streamVars>>
         \/ WriteFails
      /\ UNCHANGED <<builderVars, imageInfosPayloadOffset>>

EndChunks ==
  LET size == m_segment_cmds[idx].filesize
  IN  /\ stage = "chunks"
      /\ off + ChunkSize(size) > size
      /\ stage' = "rest"
      /\ UNCHANGED <<builderVars, imageInfosPayloadOffset, idx, off, streamVars>>

\* The left-over bytes; memory that cannot be read makes write (2) fail.
WriteRest ==
  LET left == LeftOver(m_segment_cmds[idx].filesize)
  IN  /\ stage = "rest"
      /\ \/ /\ IF left = 0 THEN UNCHANGED streamVars
               ELSE Write(left, <<"segment payload", idx>>, off)
            /\ Advance("segment payloads", Len(m_segment_cmds), "built")
            /\ UNCHANGED off
         \/ left > 0 /\ WriteFails
      /\ UNCHANGED <<builderVars, imageInfosPayloadOffset>>

Finished == stage \in {"built", "failed"} /\ UNCHANGED vars
-----------------------------------------------------------------------------
Collect ==
  \/ CollectThread
  \/ \E gap \in 0 .. 1, size \in SegmentSizes : CollectSegment(gap, size)
  \/ AddNotesToCore

AddPayloads ==
  \/ AddAddrableBits \/ AddrableBitsFail
  \/ \E size \in MetadataSizes : AddProcessMetadata(size)
  \/ FinalizeForImageInfos
  \/ \E size \in ImageInfosSizes : AddImageInfos(size)
  \/ AddMainBinSpec \/ SetFileOffsets

Build ==
  \/ WriteHeader \/ WriteNoteCommand \/ WriteThreadCommand \/ WriteSegmentCommand
  \/ SkipEmptyLoop \/ WriteNotePayload
  \/ BeginSegment \/ WriteChunk \/ EndChunks \/ WriteRest

Next == Collect \/ AddPayloads \/ Build \/ Finished

Spec == Init /\ [][Next]_vars

FairSpec == Spec /\ WF_vars(AddPayloads \/ Build)
-----------------------------------------------------------------------------
Stages == {"threads", "segments", "addrable bits", "metadata", "finalize", "image infos",
           "main bin spec", "offsets", "header", "note commands", "thread commands",
           "segment commands", "note payloads", "segment payloads", "chunks", "rest",
           "built", "failed"}

\* Every variable has its type.
TypeOK ==
  /\ m_loadCommandsFinalized \in BOOLEAN
  /\ m_header \in [ncmds : Nat, sizeofcmds : Nat]
  /\ \A i \in DOMAIN m_note_cmds :
       m_note_cmds[i] \in [owner : {NoteOwners[j] : j \in DOMAIN NoteOwners},
                          size : Nat, offset : Nat]
  /\ m_thread_cmds \in 0 .. MaxThreads
  /\ \A i \in DOMAIN m_segment_cmds :
       m_segment_cmds[i] \in [vmaddr : Nat, filesize : Nat \ {0}, fileoff : Nat]
  /\ imageInfosPayloadOffset \in Nat
  /\ stage \in Stages
  /\ idx \in Nat \ {0} /\ off \in Nat
  /\ pos \in Nat /\ shortWrites \in 0 .. MaxShortWrites
  /\ \A p \in file : p.at \in Nat /\ p.len \in Nat

EndOf(p) == p.at + p.len

PiecesOf(kind) == {p \in file : p.part[1] = kind}

Commands == PiecesOf("note") \cup PiecesOf("thread") \cup PiecesOf("segment")

\* A reader of a core file that Build reported as written finds its way: the
\* header is at the start, the commands follow it without a gap and are as
\* many and as long as it says, every note command leads to its payload.
LayoutSound ==
  stage = "built" =>
    \E h \in file :
      /\ h.part = <<"header">> /\ h.at = 0 /\ h.len = HeaderSize
      /\ Cardinality(Commands) = h.ref.ncmds
      /\ \A c \in Commands : \E p \in Commands \cup {h} : EndOf(p) = c.at
      /\ \E c \in Commands : EndOf(c) = HeaderSize + h.ref.sizeofcmds
      /\ \A c \in Commands : EndOf(c) <= HeaderSize + h.ref.sizeofcmds
      /\ \A c \in PiecesOf("note") : \E p \in file :
           /\ p.part = <<"note payload", c.part[2]>>
           /\ p.at = c.ref.offset /\ p.len = c.ref.size

\* Unless a write was incomplete (which FileOStream does not report), the layout
\* is sound, whatever memory could be read and whichever write failed.
LayoutSoundIfComplete == shortWrites = 0 => LayoutSound

\* No piece of the file overwrites another one, what the debug build of
\* WriteToOStream watches for.
PiecesDisjoint ==
  \A p, q \in file : p # q => EndOf(p) <= q.at \/ EndOf(q) <= p.at

\* Unless a write was incomplete, what is written of a segment stands where its
\* command says, also when a chunk in the middle could not be read.
SegmentBytesInPlace ==
  shortWrites = 0 => \A c \in PiecesOf("segment"), p \in PiecesOf("segment payload") :
    p.part[2] = c.part[2] =>
      p.at = c.ref.offset + p.ref /\ p.ref + p.len <= c.ref.size

\* The offset that was built into the all image infos payload before the later
\* notes had their payloads is the one the payload ends up at.
EmbeddedOffsetIsFinal ==
  \A p \in PiecesOf("note payload") :
    m_note_cmds[p.part[2]].owner = AllImageInfosOwner => p.at = imageInfosPayloadOffset

\* The segments of a core file that Build reported as written lie inside it.
SegmentsInsideFile ==
  stage = "built" =>
    \A c \in PiecesOf("segment") :
      \E p \in file : EndOf(p) >= c.ref.offset + c.ref.size

\* Build comes to an end, whatever can be read and written.
BuildEnds == stage = "header" ~> stage \in {"built", "failed"}
=============================================================================
