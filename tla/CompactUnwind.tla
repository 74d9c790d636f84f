--------------------------- MODULE CompactUnwind ---------------------------
(***************************************************************************)
(* LookupStackFrameForPC on arm64: does the function at the program        *)
(* counter have a stack frame?  The linker's compact unwind information is *)
(* a two-level table in the target's memory: an index of pages, sorted by  *)
(* the first function of each page, and pages of functions.  Both levels   *)
(* are searched by bisection, with one read of target memory per probe.    *)
(*                                                                         *)
(* An unwind info is a record of                                           *)
(*   functions, end   what the linker encoded: start and mode of every     *)
(*                    function, in order, and where the last one ends      *)
(*   index            functionOffset and page of every first-level entry,  *)
(*                    page 0 in the sentinel that closes the table         *)
(*   pages            kind, entries and encodings of the second-level pages*)
(*   common           the encodings shared by all compressed pages         *)
(* Program counters are offsets from the module's load address; code sizes *)
(* are far below 2^32, where the offset would be cut off.                  *)
(***************************************************************************)
EXTENDS Integers, Sequences

CONSTANTS
  UnwindInfos,   \* the unwind infos of modules
  PCOffsets      \* program counters, as offsets into the module

Modes == {"frame", "frameless", "dwarf"}

PageKinds == {"regular", "compressed"}

PageAt(u, i) == u.pages[u.index[i].page]

\* What the linker encodes in entry k of the page at position i of the index: an
\* entry of a compressed page starts relative to the page, and its encoding is
\* one of the common ones or, behind those, one of the page's own.
EncodedStart(u, i, k) ==
  LET entry == PageAt(u, i).entries[k]
  IN  IF PageAt(u, i).kind = "regular" THEN entry.functionOffset
      ELSE u.index[i].functionOffset + entry.functionOffset

EncodedMode(u, i, k) ==
  LET entry == PageAt(u, i).entries[k]
  IN  IF PageAt(u, i).kind = "regular" THEN entry.encoding
      ELSE (u.common \o PageAt(u, i).encodings)[entry.encoding + 1]

\* The page at position i has the functions from position cut[i] + 1 up to
\* position cut[i + 1].  A page starts with its first function; padding, and
\* pages of a kind the library does not know, are only in front of all functions.
PageLaidOut(u, cut, i) ==
  IF PageAt(u, i).kind \in PageKinds
  THEN /\ cut[i + 1] = cut[i] + Len(PageAt(u, i).entries)
       /\ \A k \in 1 .. Len(PageAt(u, i).entries) :
            /\ EncodedStart(u, i, k) = u.functions[cut[i] + k].start
            /\ EncodedMode(u, i, k) = u.functions[cut[i] + k].mode
       /\ cut[i] # 0 => cut[i + 1] # cut[i] /\ EncodedStart(u, i, 1) = u.index[i].functionOffset
  ELSE cut[i] = 0 /\ cut[i + 1] = 0

\* Functions and pages are in order, and a sentinel at the end closes the index.
LaidOut(u, cut) ==
  /\ cut[1] = 0 /\ cut[Len(u.index)] = Len(u.functions)
  /\ u.index[Len(u.index)] = [functionOffset |-> u.end, page |-> 0]
  /\ \A i \in 1 .. Len(u.index) - 1 : u.index[i].page # 0 /\ PageLaidOut(u, cut, i)
  /\ \A i \in 1 .. Len(u.index), f \in 1 .. Len(u.functions) :
       IF f <= cut[i] THEN u.functions[f].start <= u.index[i].functionOffset
       ELSE u.functions[f].start >= u.index[i].functionOffset

PageEntry(u, page) ==
  [functionOffset : Nat,
   encoding : IF page.kind = "regular" THEN Modes
              ELSE 0 .. Len(u.common) + Len(page.encodings) - 1]

\* The table is what a linker makes of the functions.
ASSUME UnwindAssumption ==
  /\ PCOffsets \subseteq Nat
  /\ \A u \in UnwindInfos :
       /\ u.functions \in Seq([start : Nat, mode : Modes]) /\ u.end \in Nat
       /\ u.index \in Seq([functionOffset : Nat, page : 0 .. Len(u.pages)]) \ {<<>>}
       /\ u.common \in Seq(Modes)
       /\ \A p \in 1 .. Len(u.pages) :
            /\ u.pages[p].encodings \in Seq(Modes)
            /\ u.pages[p].kind \in PageKinds => u.pages[p].entries \in Seq(PageEntry(u, u.pages[p]))
       /\ \A i, j \in 1 .. Len(u.index) :
            i <= j => u.index[i].functionOffset <= u.index[j].functionOffset
       /\ \A i, j \in 1 .. Len(u.functions) :
            i <= j => u.functions[i].start <= u.functions[j].start
       /\ \E cut \in [1 .. Len(u.index) -> 0 .. Len(u.functions)] : LaidOut(u, cut)

VARIABLES
  unwindInfo,          \* of the module the program counter is in
  pcOffset,
  stage,               \* where the lookup is
  low, high,           \* the interval that is still being searched
  target,              \* the entry of the index that the first search has found
  frameLookupResult,
  readFailed           \* the information was missing or could not be read

lookupVars == <<unwindInfo, pcOffset, stage, low, high, target, frameLookupResult, readFailed>>
-----------------------------------------------------------------------------
Page == unwindInfo.pages[unwindInfo.index[target].page]

\* The lookup gives up; the caller then assumes that there is a frame.
Unknown ==
  /\ stage' = "looked up"
  /\ frameLookupResult' = "Unknown"
  /\ UNCHANGED <<low, high, target>>

ReadFails == Unknown /\ readFailed' = TRUE

\* The function or page that starts at functionOffset starts at or below the pc.
StartsBelow(functionOffset) == functionOffset <= pcOffset

\* Entries of a compressed page hold offsets from the start of the page's range.
EntryStartsBelow(entry) ==
  CASE Page.kind = "regular" -> StartsBelow(entry.functionOffset)
    [] Page.kind = "compressed" ->
         entry.functionOffset <= pcOffset - unwindInfo.index[target].functionOffset

MutantBisect(mid, below) ==           \* the upper part keeps the probed entry
  IF below THEN low' = mid /\ UNCHANGED high
           ELSE high' = mid /\ UNCHANGED low

MutantBisectSwapped(mid, below) ==    \* the comparison is the wrong way round
  IF below THEN high' = mid /\ UNCHANGED low
           ELSE low' = mid + 1 /\ UNCHANGED high

\* One probe: go on in the upper or in the lower part.
Bisect(mid, below) ==
  IF below THEN low' = mid + 1 /\ UNCHANGED high
           ELSE high' = mid /\ UNCHANGED low

\* Positions of the code count from 0, those of a sequence from 1.
At(entries, position) == entries[position + 1]
-----------------------------------------------------------------------------
LookupInit ==
  /\ unwindInfo \in UnwindInfos
  /\ pcOffset \in PCOffsets
  /\ stage = "idle"
  /\ low = 0 /\ high = 0 /\ target = 0
  /\ frameLookupResult = "Unknown"
  /\ readFailed = FALSE

\* No module at the pc, no __TEXT segment or __unwind_info section in it, or an
\* unreadable header of the section; else the search in the index begins.
LookupStackFrameForPC ==
  /\ stage = "idle"
  /\ \/ ReadFails
     \/ /\ low' = 0 /\ high' = Len(unwindInfo.index)
        /\ stage' = "index"
        /\ UNCHANGED <<target, frameLookupResult, readFailed>>
  /\ UNCHANGED <<unwindInfo, pcOffset>>

SearchIndex ==
  /\ stage = "index" /\ low < high
  /\ LET mid == low + (high - low) \div 2
     IN  \/ ReadFails
         \/ /\ Bisect(mid, StartsBelow(At(unwindInfo.index, mid).functionOffset))
            /\ UNCHANGED <<stage, target, frameLookupResult, readFailed>>
  /\ UNCHANGED <<unwindInfo, pcOffset>>

\* The page that the first search has found: none in front of the first entry,
\* and none at the sentinel.
FoundPage == IF low = 0 THEN 0 ELSE unwindInfo.index[low].page

ChoosePage ==
  /\ stage = "index" /\ low >= high
  /\ \/ low # 0 /\ ReadFails
     \/ FoundPage = 0 /\ Unknown /\ UNCHANGED readFailed
     \/ /\ FoundPage # 0 /\ unwindInfo.pages[FoundPage].kind \notin PageKinds
        /\ Unknown /\ UNCHANGED readFailed
     \/ /\ FoundPage # 0 /\ unwindInfo.pages[FoundPage].kind \in PageKinds
        /\ target' = low
        /\ low' = 0 /\ high' = Len(unwindInfo.pages[FoundPage].entries)
        /\ stage' = "page"
        /\ UNCHANGED <<frameLookupResult, readFailed>>
  /\ UNCHANGED <<unwindInfo, pcOffset>>

SearchPage ==
  /\ stage = "page" /\ low < high
  /\ LET mid == low + (high - low) \div 2
     IN  \/ ReadFails
         \/ /\ Bisect(mid, EntryStartsBelow(At(Page.entries, mid)))
            /\ UNCHANGED <<stage, target, frameLookupResult, readFailed>>
  /\ UNCHANGED <<unwindInfo, pcOffset>>

MutantEncoding(entry) ==              \* off by one behind the common encodings
  IF Page.kind = "regular" THEN entry.encoding
  ELSE At(unwindInfo.common \o <<"dwarf">> \o Page.encodings, entry.encoding)

\* A compressed entry has an index into the common encodings, and then into
\* those of the page; a regular one has the encoding itself.
Encoding(entry) ==
  IF Page.kind = "regular" THEN entry.encoding
  ELSE IF entry.encoding < Len(unwindInfo.common)
       THEN At(unwindInfo.common, entry.encoding)
       ELSE At(Page.encodings, entry.encoding - Len(unwindInfo.common))

ResultForMode(mode) ==
  CASE mode = "frame" -> "HasFrame"
    [] mode = "frameless" -> "Frameless"
    [] OTHER -> "Unknown"

ChooseFunction ==
  /\ stage = "page" /\ low >= high
  /\ \/ low # 0 /\ ReadFails
     \/ low = 0 /\ Unknown /\ UNCHANGED readFailed
     \/ /\ low # 0
        /\ frameLookupResult' = ResultForMode(Encoding(Page.entries[low]))
        /\ stage' = "looked up"
        /\ UNCHANGED <<low, high, target, readFailed>>
  /\ UNCHANGED <<unwindInfo, pcOffset>>

Lookup ==
  LookupStackFrameForPC \/ SearchIndex \/ ChoosePage \/ SearchPage \/ ChooseFunction
-----------------------------------------------------------------------------
\* The function the pc is in is the last one that starts at or below it: of
\* functions with the same start all but the last one are empty.
ResultForPC ==
  IF \/ pcOffset >= unwindInfo.end
     \/ \A i \in DOMAIN unwindInfo.functions : unwindInfo.functions[i].start > pcOffset
  THEN "Unknown"
  ELSE LET i == CHOOSE i \in DOMAIN unwindInfo.functions :
                  \A j \in DOMAIN unwindInfo.functions :
                    unwindInfo.functions[j].start <= pcOffset <=> j <= i
       IN  ResultForMode(unwindInfo.functions[i].mode)

\* The two searches of LookupStackFrameForPC find the function that the pc is
\* in, as the linker described it, for functions at both ends of a page, empty
\* functions, both kinds of pages, and program counters outside all functions.
LookupFindsFunction ==
  stage = "looked up" /\ ~readFailed => frameLookupResult = ResultForPC

\* The bisections lose nothing: what is below low starts at or below the pc, what
\* is at high or above starts behind it.
SearchKeepsTarget ==
  /\ stage = "index" =>
       \A i \in DOMAIN unwindInfo.index :
         /\ i <= low => StartsBelow(unwindInfo.index[i].functionOffset)
         /\ i > high => ~StartsBelow(unwindInfo.index[i].functionOffset)
  /\ stage = "page" =>
       \A i \in DOMAIN Page.entries :
         /\ i <= low => EntryStartsBelow(Page.entries[i])
         /\ i > high => ~EntryStartsBelow(Page.entries[i])
=============================================================================
