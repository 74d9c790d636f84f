-------------------------- MODULE StackWalkProofs --------------------------
(***************************************************************************)
(* For every table that a linker makes, and every stack: the bisections of *)
(* LookupStackFrameForPC find the function of the program counter, a       *)
(* finished walk has followed the chain of frame records exactly, and      *)
(* WalkStack throws only when that chain runs in a circle.                 *)
(***************************************************************************)
EXTENDS StackWalk, SumsProofs, SequenceTheorems

Stages == {"idle", "index", "page", "looked up", "not needed"}

\* The lookup is in a table, and its searches are within the bounds of their
\* arrays; the page is the one whose range the pc is in.
InBounds ==
  /\ unwindInfo \in UnwindInfos /\ pcOffset \in Nat
  /\ stage \in Stages
  /\ stage \in {"index", "page"} => low \in Nat /\ high \in Nat /\ low <= high
  /\ stage = "index" => high <= Len(unwindInfo.index)
  /\ stage = "page" =>
       /\ target \in 1 .. Len(unwindInfo.index) - 1
       /\ Page.kind \in PageKinds
       /\ StartsBelow(unwindInfo.index[target].functionOffset)
       /\ ~StartsBelow(unwindInfo.index[target + 1].functionOffset)
       /\ high <= Len(Page.entries)

LookupInv == InBounds /\ SearchKeepsTarget /\ LookupFindsFunction
-----------------------------------------------------------------------------
(* The linker's table. *)

\* The elements of a sequence.
LEMMA ElementsOf ==
  ASSUME NEW S, NEW s \in Seq(S)
  PROVE  Len(s) \in Nat /\ DOMAIN s = 1 .. Len(s) /\ \A i \in 1 .. Len(s) : s[i] \in S
OBVIOUS

\* The elements of two sequences, one behind the other, counted from 0.
LEMMA ConcatAt ==
  ASSUME NEW S, NEW s \in Seq(S), NEW t \in Seq(S), NEW e \in 0 .. Len(s) + Len(t) - 1
  PROVE  (s \o t)[e + 1] = IF e < Len(s) THEN s[e + 1] ELSE t[e - Len(s) + 1]
<1>1. Len(s) \in Nat /\ Len(t) \in Nat /\ e + 1 \in 1 .. Len(s) + Len(t)
  OBVIOUS
<1>2. CASE e < Len(s)
  BY <1>1, <1>2
<1>3. CASE ~(e < Len(s))
  <2>1. (s \o t)[e + 1] = t[e + 1 - Len(s)]
    BY <1>1, <1>3
  <2>2. e + 1 - Len(s) = e - Len(s) + 1
    BY <1>1
  <2> QED
    BY <1>3, <2>1, <2>2
<1> QED
  BY <1>2, <1>3

\* The parts of a table have their types, and its pages are laid out in order.
LEMMA TableTypes ==
  ASSUME NEW u \in UnwindInfos
  PROVE  /\ u.functions \in Seq([start : Nat, mode : Modes]) /\ u.end \in Nat
         /\ u.index \in Seq([functionOffset : Nat, page : 0 .. Len(u.pages)])
         /\ Len(u.index) \in Nat \ {0}
         /\ \A i \in 1 .. Len(u.index) : u.index[i].functionOffset \in Nat
         /\ \A i, j \in 1 .. Len(u.index) :
              i <= j => u.index[i].functionOffset <= u.index[j].functionOffset
         /\ \A f, g \in 1 .. Len(u.functions) :
              f <= g => u.functions[f].start <= u.functions[g].start
         /\ \A f \in 1 .. Len(u.functions) : u.functions[f].start \in Nat
<1>1. u.index \in Seq([functionOffset : Nat, page : 0 .. Len(u.pages)]) /\ u.index # <<>>
  BY UnwindAssumption
<1>2. u.functions \in Seq([start : Nat, mode : Modes]) /\ u.end \in Nat
  BY UnwindAssumption
<1>3. Len(u.index) \in Nat \ {0}
  BY <1>1
<1>4. \A i \in 1 .. Len(u.index) : u.index[i].functionOffset \in Nat
  <2>1. \A i \in 1 .. Len(u.index) : u.index[i] \in [functionOffset : Nat, page : 0 .. Len(u.pages)]
    BY <1>1, ElementsOf
  <2> QED
    BY <2>1
<1>5. \A f \in 1 .. Len(u.functions) : u.functions[f].start \in Nat
  <2>1. \A f \in 1 .. Len(u.functions) : u.functions[f] \in [start : Nat, mode : Modes]
    BY <1>2, ElementsOf
  <2> QED
    BY <2>1
<1>6. /\ \A i, j \in 1 .. Len(u.index) :
           i <= j => u.index[i].functionOffset <= u.index[j].functionOffset
      /\ \A f, g \in 1 .. Len(u.functions) :
           f <= g => u.functions[f].start <= u.functions[g].start
  BY UnwindAssumption
<1> QED
  BY <1>1, <1>2, <1>3, <1>4, <1>5, <1>6

\* A page that the index leads to and the code knows.
LEMMA PageTypes ==
  ASSUME NEW u \in UnwindInfos, NEW i \in 1 .. Len(u.index), u.index[i].page # 0
  PROVE  /\ PageAt(u, i).encodings \in Seq(Modes)
         /\ u.common \in Seq(Modes)
         /\ PageAt(u, i).kind \in PageKinds =>
              PageAt(u, i).entries \in Seq(PageEntry(u, PageAt(u, i)))
<1>1. u.index[i].page \in 0 .. Len(u.pages)
  <2>1. u.index \in Seq([functionOffset : Nat, page : 0 .. Len(u.pages)])
    BY TableTypes
  <2>2. u.index[i] \in [functionOffset : Nat, page : 0 .. Len(u.pages)]
    BY <2>1, ElementsOf
  <2> QED
    BY <2>2
<1>2. u.index[i].page \in 1 .. Len(u.pages)
  BY <1>1
<1> QED
  BY <1>2, UnwindAssumption DEF PageAt

\* The functions of a known page: their starts and modes are what the entries
\* encode, they are sorted, and what follows belongs to the next page.
LEMMA PageFunctions ==
  ASSUME NEW u \in UnwindInfos, NEW i \in 1 .. Len(u.index) - 1, PageAt(u, i).kind \in PageKinds
  PROVE  \E before \in 0 .. Len(u.functions) :
           /\ before + Len(PageAt(u, i).entries) <= Len(u.functions)
           /\ \A k \in 1 .. Len(PageAt(u, i).entries) :
                /\ EncodedStart(u, i, k) = u.functions[before + k].start
                /\ EncodedMode(u, i, k) = u.functions[before + k].mode
           /\ before # 0 =>
                Len(PageAt(u, i).entries) # 0 /\ EncodedStart(u, i, 1) = u.index[i].functionOffset
           /\ \A f \in 1 .. Len(u.functions) :
                f > before + Len(PageAt(u, i).entries)
                  => u.functions[f].start >= u.index[i + 1].functionOffset
<1> DEFINE n == Len(PageAt(u, i).entries)
<1>1. PICK cut \in [1 .. Len(u.index) -> 0 .. Len(u.functions)] : LaidOut(u, cut)
  BY UnwindAssumption
<1>2. Len(u.index) \in Nat \ {0} /\ Len(u.functions) \in Nat
  BY TableTypes
<1>3. u.index[i].page # 0 /\ PageLaidOut(u, cut, i)
  BY <1>1 DEF LaidOut
<1>4. PageAt(u, i).entries \in Seq(PageEntry(u, PageAt(u, i)))
  BY <1>2, <1>3, PageTypes
<1>5. n \in Nat
  BY <1>4
<1>6. cut[i] \in 0 .. Len(u.functions) /\ cut[i + 1] \in 0 .. Len(u.functions)
  BY <1>2
<1>7. /\ cut[i + 1] = cut[i] + n
      /\ \A k \in 1 .. n :
           /\ EncodedStart(u, i, k) = u.functions[cut[i] + k].start
           /\ EncodedMode(u, i, k) = u.functions[cut[i] + k].mode
      /\ cut[i] # 0 => cut[i + 1] # cut[i] /\ EncodedStart(u, i, 1) = u.index[i].functionOffset
  BY <1>3 DEF PageLaidOut
<1>8. \A f \in 1 .. Len(u.functions) :
        f > cut[i + 1] => u.functions[f].start >= u.index[i + 1].functionOffset
  <2> SUFFICES ASSUME NEW f \in 1 .. Len(u.functions), f > cut[i + 1]
               PROVE  u.functions[f].start >= u.index[i + 1].functionOffset
    OBVIOUS
  <2>1. ~(f <= cut[i + 1])
    BY <1>2, <1>6
  <2>2. i + 1 \in 1 .. Len(u.index)
    BY <1>2
  <2> QED
    BY <1>1, <2>1, <2>2 DEF LaidOut
<1> HIDE DEF n
<1> WITNESS cut[i] \in 0 .. Len(u.functions)
<1> QED
  BY <1>2, <1>5, <1>6, <1>7, <1>8 DEF n

\* The comparison in a page is that of the start which the entry encodes.
LEMMA EntryComparison ==
  ASSUME InBounds, stage = "page", NEW k \in 1 .. Len(Page.entries)
  PROVE  /\ EncodedStart(unwindInfo, target, k) \in Nat
         /\ EntryStartsBelow(Page.entries[k]) <=> EncodedStart(unwindInfo, target, k) <= pcOffset
<1> DEFINE u == unwindInfo
<1>1. /\ u \in UnwindInfos /\ pcOffset \in Nat /\ target \in 1 .. Len(u.index) - 1
      /\ Page = PageAt(u, target) /\ Page.kind \in PageKinds
  BY DEF InBounds, Page, PageAt
<1>2. Len(u.index) \in Nat \ {0} /\ u.index[target].functionOffset \in Nat
  <2>1. Len(u.index) \in Nat \ {0} /\ \A i \in 1 .. Len(u.index) : u.index[i].functionOffset \in Nat
    BY <1>1, TableTypes
  <2>2. target \in 1 .. Len(u.index)
    BY <1>1, <2>1
  <2> QED
    BY <2>1, <2>2
<1>3. u.index[target].page # 0
  <2>1. PICK cut \in [1 .. Len(u.index) -> 0 .. Len(u.functions)] : LaidOut(u, cut)
    BY <1>1, UnwindAssumption
  <2> QED
    BY <1>1, <2>1 DEF LaidOut
<1>4. Page.entries \in Seq(PageEntry(u, Page))
  BY <1>1, <1>2, <1>3, PageTypes
<1>5. Page.entries[k].functionOffset \in Nat
  <2>1. Page.entries[k] \in PageEntry(u, Page)
    BY <1>4, ElementsOf
  <2> QED
    BY <2>1 DEF PageEntry
<1>6. CASE Page.kind = "regular"
  BY <1>1, <1>5, <1>6 DEF EncodedStart, EntryStartsBelow, StartsBelow
<1>7. CASE Page.kind = "compressed"
  <2>1. EncodedStart(u, target, k) = u.index[target].functionOffset + Page.entries[k].functionOffset
    BY <1>1, <1>7 DEF EncodedStart
  <2>2. EntryStartsBelow(Page.entries[k])
          <=> Page.entries[k].functionOffset <= pcOffset - u.index[target].functionOffset
    BY <1>7 DEF EntryStartsBelow
  <2>3. pcOffset \in Nat /\ u.index[target].functionOffset \in Nat
    BY <1>1, <1>2
  <2> QED
    BY <1>5, <2>1, <2>2, <2>3
<1> QED
  BY <1>1, <1>6, <1>7 DEF PageKinds

\* The entries of a page are sorted.
LEMMA EntriesSorted ==
  ASSUME InBounds, stage = "page", NEW j \in 1 .. Len(Page.entries), NEW k \in 1 .. Len(Page.entries),
         j <= k
  PROVE  EntryStartsBelow(Page.entries[k]) => EntryStartsBelow(Page.entries[j])
<1> DEFINE u == unwindInfo
           n == Len(Page.entries)
<1>1. /\ u \in UnwindInfos /\ pcOffset \in Nat /\ target \in 1 .. Len(u.index) - 1
      /\ Page = PageAt(u, target) /\ Page.kind \in PageKinds
  BY DEF InBounds, Page, PageAt
<1>2. PICK before \in 0 .. Len(u.functions) :
        /\ before + n <= Len(u.functions)
        /\ \A i \in 1 .. n : EncodedStart(u, target, i) = u.functions[before + i].start
  BY <1>1, PageFunctions
<1>3. Len(u.functions) \in Nat
  BY <1>1, TableTypes, ElementsOf
<1>4. /\ before + j \in 1 .. Len(u.functions) /\ before + k \in 1 .. Len(u.functions)
      /\ before + j <= before + k
  BY <1>2, <1>3 DEF InBounds
<1>5. u.functions[before + j].start <= u.functions[before + k].start
  BY <1>1, <1>4, TableTypes
<1>6. EncodedStart(u, target, j) <= EncodedStart(u, target, k)
  BY <1>2, <1>5
<1>7. /\ EncodedStart(u, target, j) \in Nat /\ EncodedStart(u, target, k) \in Nat
      /\ EntryStartsBelow(Page.entries[j]) <=> EncodedStart(u, target, j) <= pcOffset
      /\ EntryStartsBelow(Page.entries[k]) <=> EncodedStart(u, target, k) <= pcOffset
  BY EntryComparison
<1> QED
  BY <1>1, <1>6, <1>7
-----------------------------------------------------------------------------
(* The result of the searches. *)

\* When all functions start behind the pc, or the pc is behind them all, the
\* function is not known.
LEMMA OutsideAll ==
  ASSUME InBounds,
         pcOffset >= unwindInfo.end
           \/ \A f \in 1 .. Len(unwindInfo.functions) : unwindInfo.functions[f].start > pcOffset
  PROVE  ResultForPC = "Unknown"
<1>1. DOMAIN unwindInfo.functions = 1 .. Len(unwindInfo.functions)
  BY TableTypes, ElementsOf DEF InBounds
<1> QED
  BY <1>1 DEF ResultForPC

\* The last function that starts at or below the pc is the one it is in.
LEMMA InsideFunction ==
  ASSUME InBounds, pcOffset < unwindInfo.end,
         NEW m \in 1 .. Len(unwindInfo.functions),
         \A f \in 1 .. Len(unwindInfo.functions) :
           unwindInfo.functions[f].start <= pcOffset <=> f <= m
  PROVE  ResultForPC = ResultForMode(unwindInfo.functions[m].mode)
<1> DEFINE F == unwindInfo.functions
           Last(i) == \A j \in DOMAIN F : F[j].start <= pcOffset <=> j <= i
<1>1. DOMAIN F = 1 .. Len(F) /\ Len(F) \in Nat /\ \A f \in 1 .. Len(F) : F[f].start \in Nat
  BY TableTypes, ElementsOf DEF InBounds
<1>2. m \in DOMAIN F /\ Last(m)
  BY <1>1
<1>3. ASSUME NEW i \in DOMAIN F, Last(i) PROVE i = m
  <2>1. F[i].start <= pcOffset /\ F[m].start <= pcOffset
    BY <1>1, <1>2, <1>3
  <2>2. i <= m /\ m <= i
    BY <1>1, <1>2, <1>3, <2>1
  <2> QED
    BY <1>1, <2>2
<1>4. (CHOOSE i \in DOMAIN F : Last(i)) = m
  BY <1>2, <1>3
<1>5. ~(pcOffset >= unwindInfo.end)
  <2>1. unwindInfo.end \in Nat /\ pcOffset \in Nat
    BY TableTypes DEF InBounds
  <2> QED
    BY <2>1
<1>6. ~(\A i \in DOMAIN F : F[i].start > pcOffset)
  BY <1>1, <1>2 DEF InBounds
<1> QED
  BY <1>4, <1>5, <1>6 DEF ResultForPC

\* The first search ends at the entry whose range the pc is in.
LEMMA IndexFound ==
  ASSUME LookupInv, stage = "index", low >= high
  PROVE  /\ low \in 0 .. Len(unwindInfo.index)
         /\ \A i \in 1 .. Len(unwindInfo.index) :
              unwindInfo.index[i].functionOffset <= pcOffset <=> i <= low
<1> DEFINE u == unwindInfo
<1>1. u \in UnwindInfos /\ low = high /\ low \in 0 .. Len(u.index)
  BY TableTypes DEF LookupInv, InBounds
<1>2. DOMAIN u.index = 1 .. Len(u.index)
  BY <1>1, TableTypes, ElementsOf
<1> QED
  BY <1>1, <1>2 DEF LookupInv, SearchKeepsTarget, StartsBelow

\* Nothing is found in front of the first page, behind the last one, and in a
\* page of a kind that is not known.
LEMMA NoPageFound ==
  ASSUME LookupInv, stage = "index", low >= high,
         FoundPage = 0 \/ unwindInfo.pages[FoundPage].kind \notin PageKinds
  PROVE  ResultForPC = "Unknown"
<1> DEFINE u == unwindInfo
           n == Len(u.index)
<1>1. u \in UnwindInfos /\ InBounds /\ pcOffset \in Nat
  BY DEF LookupInv, InBounds
<1>2. /\ n \in Nat \ {0} /\ Len(u.functions) \in Nat /\ u.end \in Nat
      /\ \A i \in 1 .. n : u.index[i].functionOffset \in Nat
      /\ \A f \in 1 .. Len(u.functions) : u.functions[f].start \in Nat
  BY <1>1, TableTypes, ElementsOf
<1>3. low \in 0 .. n /\ \A i \in 1 .. n : u.index[i].functionOffset <= pcOffset <=> i <= low
  BY IndexFound
<1>4. PICK cut \in [1 .. n -> 0 .. Len(u.functions)] : LaidOut(u, cut)
  BY <1>1, UnwindAssumption
<1>5. \A i \in 1 .. n, f \in 1 .. Len(u.functions) :
        IF f <= cut[i] THEN u.functions[f].start <= u.index[i].functionOffset
        ELSE u.functions[f].start >= u.index[i].functionOffset
  BY <1>4 DEF LaidOut
<1>6. CASE low = 0
  <2>1. 1 \in 1 .. n /\ u.index[1].functionOffset > pcOffset /\ cut[1] = 0
    BY <1>1, <1>2, <1>3, <1>4, <1>6 DEF LaidOut
  <2>2. \A f \in 1 .. Len(u.functions) : u.functions[f].start >= u.index[1].functionOffset
    BY <1>5, <2>1
  <2>3. \A f \in 1 .. Len(u.functions) : u.functions[f].start > pcOffset
    BY <1>1, <1>2, <2>1, <2>2
  <2> QED
    BY <1>1, <2>3, OutsideAll
<1>7. CASE low = n
  <2>1. u.index[n].functionOffset = u.end /\ n \in 1 .. n
    BY <1>2, <1>4 DEF LaidOut
  <2>2. u.end <= pcOffset
    BY <1>2, <1>3, <1>7, <2>1
  <2> QED
    BY <1>1, <1>2, <2>2, OutsideAll
<1>8. CASE low \in 1 .. n - 1
  <2>1. u.index[low].page # 0 /\ PageLaidOut(u, cut, low)
    BY <1>4, <1>8 DEF LaidOut
  <2>2. FoundPage = u.index[low].page /\ PageAt(u, low).kind \notin PageKinds
    BY <1>2, <1>8, <2>1 DEF FoundPage, PageAt
  <2>3. cut[low + 1] = 0 /\ low + 1 \in 1 .. n
    BY <1>2, <1>8, <2>1, <2>2 DEF PageLaidOut
  <2>4. u.index[low + 1].functionOffset > pcOffset
    BY <1>1, <1>2, <1>3, <2>3
  <2>5. \A f \in 1 .. Len(u.functions) : u.functions[f].start >= u.index[low + 1].functionOffset
    BY <1>5, <2>3
  <2>6. \A f \in 1 .. Len(u.functions) : u.functions[f].start > pcOffset
    BY <1>1, <1>2, <2>3, <2>4, <2>5
  <2> QED
    BY <1>1, <2>6, OutsideAll
<1> QED
  BY <1>2, <1>3, <1>6, <1>7, <1>8

\* The second search ends at the entry of the function that the pc is in.
LEMMA FunctionFound ==
  ASSUME LookupInv, stage = "page", low >= high
  PROVE  ResultForPC = IF low = 0 THEN "Unknown" ELSE ResultForMode(Encoding(Page.entries[low]))
<1> DEFINE u == unwindInfo
           n == Len(Page.entries)
<1>1. /\ u \in UnwindInfos /\ InBounds /\ pcOffset \in Nat /\ target \in 1 .. Len(u.index) - 1
      /\ Page = PageAt(u, target) /\ Page.kind \in PageKinds
      /\ u.index[target].functionOffset <= pcOffset
      /\ ~(u.index[target + 1].functionOffset <= pcOffset)
  BY DEF LookupInv, InBounds, Page, PageAt, StartsBelow
<1>2. /\ Len(u.index) \in Nat \ {0} /\ Len(u.functions) \in Nat /\ u.end \in Nat
      /\ \A i \in 1 .. Len(u.index) : u.index[i].functionOffset \in Nat
      /\ \A f \in 1 .. Len(u.functions) : u.functions[f].start \in Nat
  BY <1>1, TableTypes, ElementsOf
<1>3. target \in 1 .. Len(u.index) /\ target + 1 \in 1 .. Len(u.index)
  BY <1>1, <1>2
<1>4. PICK cut \in [1 .. Len(u.index) -> 0 .. Len(u.functions)] : LaidOut(u, cut)
  BY <1>1, UnwindAssumption
<1>5. u.index[target].page # 0 /\ u.index[Len(u.index)].functionOffset = u.end
  BY <1>1, <1>4 DEF LaidOut
<1>6. pcOffset < u.end /\ pcOffset < u.index[target + 1].functionOffset
  <2>1. u.index[target + 1].functionOffset <= u.index[Len(u.index)].functionOffset
    <3>1. Len(u.index) \in 1 .. Len(u.index) /\ target + 1 <= Len(u.index)
      BY <1>1, <1>2
    <3> QED
      BY <1>1, <1>3, <3>1, TableTypes
  <2>2. u.index[target + 1].functionOffset \in Nat
    BY <1>2, <1>3
  <2> QED
    BY <1>1, <1>2, <1>5, <2>1, <2>2
<1>7. /\ u.common \in Seq(Modes) /\ Page.encodings \in Seq(Modes)
      /\ Page.entries \in Seq(PageEntry(u, Page))
  BY <1>1, <1>3, <1>5, PageTypes
<1>8. low = high /\ low \in 0 .. n /\ n \in Nat
  BY <1>7 DEF LookupInv, InBounds
<1>9. ASSUME NEW k \in 1 .. n
      PROVE  EncodedStart(u, target, k) <= pcOffset <=> k <= low
  <2>1. k \in DOMAIN Page.entries
    BY <1>7, ElementsOf
  <2>2. EntryStartsBelow(Page.entries[k]) <=> k <= low
    BY <1>8, <2>1 DEF LookupInv, SearchKeepsTarget
  <2> QED
    BY <1>1, <2>2, EntryComparison
<1>10. PICK before \in 0 .. Len(u.functions) :
        /\ before + n <= Len(u.functions)
        /\ \A k \in 1 .. n :
             /\ EncodedStart(u, target, k) = u.functions[before + k].start
             /\ EncodedMode(u, target, k) = u.functions[before + k].mode
        /\ before # 0 => n # 0 /\ EncodedStart(u, target, 1) = u.index[target].functionOffset
        /\ \A f \in 1 .. Len(u.functions) :
             f > before + n => u.functions[f].start >= u.index[target + 1].functionOffset
  BY <1>1, PageFunctions
<1> HIDE DEF n
<1>11. ASSUME NEW f \in 1 .. Len(u.functions), f > before + low PROVE u.functions[f].start > pcOffset
  <2>1. CASE f > before + n
    <3>1. u.functions[f].start >= u.index[target + 1].functionOffset
      BY <1>10, <2>1
    <3>2. u.functions[f].start \in Nat /\ u.index[target + 1].functionOffset \in Nat
      BY <1>2, <1>3
    <3>3. pcOffset \in Nat
      BY <1>1
    <3> QED
      BY <1>6, <3>1, <3>2, <3>3
  <2>2. CASE f <= before + n
    <3>1. f - before \in 1 .. n /\ before + (f - before) = f
      BY <1>2, <1>8, <1>10, <1>11, <2>2
    <3>2. ~(f - before <= low)
      BY <1>8, <1>10, <1>11
    <3>3. ~(u.functions[f].start <= pcOffset)
      BY <1>9, <1>10, <3>1, <3>2
    <3> QED
      BY <1>1, <1>2, <3>3
  <2> QED
    BY <1>8, <1>10, <2>1, <2>2
<1>12. CASE low = 0
  <2>1. before = 0
    <3> SUFFICES ASSUME before # 0 PROVE FALSE
      OBVIOUS
    <3>1. 1 \in 1 .. n /\ EncodedStart(u, target, 1) <= pcOffset
      BY <1>1, <1>8, <1>10
    <3> QED
      BY <1>9, <1>12, <3>1
  <2>2. \A f \in 1 .. Len(u.functions) : u.functions[f].start > pcOffset
    BY <1>2, <1>11, <1>12, <2>1
  <2> QED
    BY <1>1, <1>12, <2>2, OutsideAll
<1>13. CASE low # 0
  <2>1. low \in 1 .. n /\ before + low \in 1 .. Len(u.functions)
    BY <1>2, <1>8, <1>10, <1>13
  <2>2. u.functions[before + low].start <= pcOffset
    BY <1>8, <1>9, <1>10, <2>1
  <2>3. ASSUME NEW f \in 1 .. Len(u.functions), f <= before + low
        PROVE  u.functions[f].start <= pcOffset
    <3>1. u.functions[f].start <= u.functions[before + low].start
      BY <1>1, <2>1, <2>3, TableTypes
    <3>2. /\ u.functions[f].start \in Nat /\ u.functions[before + low].start \in Nat
          /\ pcOffset \in Nat
      BY <1>1, <1>2, <2>1
    <3> QED
      BY <2>2, <3>1, <3>2
  <2>4. \A f \in 1 .. Len(u.functions) : u.functions[f].start <= pcOffset <=> f <= before + low
    <3> SUFFICES ASSUME NEW f \in 1 .. Len(u.functions)
                 PROVE  u.functions[f].start <= pcOffset <=> f <= before + low
      OBVIOUS
    <3>1. f \in Nat /\ before + low \in Nat /\ u.functions[f].start \in Nat
      BY <1>2, <2>1
    <3>2. f > before + low => ~(u.functions[f].start <= pcOffset)
      BY <1>1, <1>11, <3>1
    <3> QED
      BY <2>3, <3>1, <3>2
  <2>5. ResultForPC = ResultForMode(u.functions[before + low].mode)
    BY <1>1, <1>6, <2>1, <2>4, InsideFunction
  <2>6. EncodedMode(u, target, low) = Encoding(Page.entries[low])
    <3>1. Page.entries[low] \in PageEntry(u, Page)
      BY <1>7, <2>1, ElementsOf DEF n
    <3>2. CASE Page.kind = "regular"
      BY <1>1, <3>2 DEF EncodedMode, Encoding
    <3>3. CASE Page.kind = "compressed"
      <4>1. Page.entries[low].encoding \in 0 .. Len(u.common) + Len(Page.encodings) - 1
        BY <3>1, <3>3 DEF PageEntry
      <4>2. EncodedMode(u, target, low) = (u.common \o Page.encodings)[Page.entries[low].encoding + 1]
        BY <1>1, <3>3 DEF EncodedMode
      <4>3. Encoding(Page.entries[low])
              = IF Page.entries[low].encoding < Len(u.common)
                THEN u.common[Page.entries[low].encoding + 1]
                ELSE Page.encodings[Page.entries[low].encoding - Len(u.common) + 1]
        BY <3>3 DEF Encoding, At
      <4> QED
        BY <1>7, <4>1, <4>2, <4>3, ConcatAt
    <3> QED
      BY <1>1, <3>2, <3>3 DEF PageKinds
  <2>7. EncodedMode(u, target, low) = u.functions[before + low].mode
    BY <1>10, <2>1
  <2> QED
    BY <1>13, <2>5, <2>6, <2>7
<1> QED
  BY <1>12, <1>13
-----------------------------------------------------------------------------
(* The steps of the lookup. *)

\* What a step that ends the lookup must show.
LEMMA EndOfLookup ==
  ASSUME LookupInv, stage' = "looked up", UNCHANGED <<unwindInfo, pcOffset>>,
         readFailed' \/ frameLookupResult' = ResultForPC
  PROVE  LookupInv'
<1>1. InBounds'
  BY DEF LookupInv, InBounds, Stages
<1>2. SearchKeepsTarget'
  BY DEF SearchKeepsTarget
<1>3. LookupFindsFunction'
  BY DEF LookupFindsFunction, ResultForPC
<1> QED
  BY <1>1, <1>2, <1>3 DEF LookupInv

\* One probe of a search halves an interval and stays within it.
LEMMA Midpoint ==
  ASSUME NEW l \in Nat, NEW h \in Nat, l < h
  PROVE  LET mid == l + (h - l) \div 2 IN mid \in Nat /\ l <= mid /\ mid < h
OBVIOUS

\* A probe of the index.
LEMMA SearchIndexPreserves ==
  ASSUME LookupInv, SearchIndex
  PROVE  LookupInv'
<1> DEFINE u == unwindInfo
           mid == low + (high - low) \div 2
           fo(i) == u.index[i].functionOffset
<1>1. /\ stage = "index" /\ low < high /\ UNCHANGED <<unwindInfo, pcOffset>>
      /\ low \in Nat /\ high \in Nat /\ high <= Len(u.index) /\ u \in UnwindInfos /\ pcOffset \in Nat
  BY DEF SearchIndex, LookupInv, InBounds
<1>2. mid \in Nat /\ low <= mid /\ mid < high
  BY <1>1, Midpoint
<1>3. CASE ReadFails
  BY <1>1, <1>3, EndOfLookup DEF ReadFails, Unknown
<1>4. CASE /\ Bisect(mid, StartsBelow(At(u.index, mid).functionOffset))
           /\ UNCHANGED <<stage, target, frameLookupResult, readFailed>>
  <2>1. Len(u.index) \in Nat /\ DOMAIN u.index = 1 .. Len(u.index)
    BY <1>1, TableTypes, ElementsOf
  <2>2. /\ mid + 1 \in 1 .. Len(u.index)
        /\ \A i \in 1 .. Len(u.index) : fo(i) \in Nat
        /\ \A i, j \in 1 .. Len(u.index) : i <= j => fo(i) <= fo(j)
    <3>1. mid + 1 \in 1 .. Len(u.index)
      BY <1>1, <1>2, <2>1
    <3> QED
      BY <1>1, <3>1, TableTypes
  <2>3. \A i \in 1 .. Len(u.index) :
          (i <= low => fo(i) <= pcOffset) /\ (i > high => ~(fo(i) <= pcOffset))
    BY <1>1, <2>1 DEF LookupInv, SearchKeepsTarget, StartsBelow
  <2>4. IF fo(mid + 1) <= pcOffset THEN low' = mid + 1 /\ high' = high ELSE high' = mid /\ low' = low
    BY <1>4 DEF Bisect, StartsBelow, At
  <2> HIDE DEF mid, fo
  <2>5. low' \in Nat /\ high' \in Nat /\ low' <= high' /\ high' <= Len(u.index)
    BY <1>1, <1>2, <2>1, <2>4
  <2>6. ASSUME NEW i \in 1 .. Len(u.index)
        PROVE  (i <= low' => fo(i) <= pcOffset) /\ (i > high' => ~(fo(i) <= pcOffset))
    <3>1. fo(i) \in Nat /\ fo(mid + 1) \in Nat
      BY <2>2
    <3>2. i <= mid + 1 => fo(i) <= fo(mid + 1)
      BY <2>2
    <3>3. i > mid => fo(mid + 1) <= fo(i)
      BY <1>2, <2>2
    <3>4. CASE fo(mid + 1) <= pcOffset
      BY <1>1, <2>3, <2>4, <3>1, <3>2, <3>4
    <3>5. CASE ~(fo(mid + 1) <= pcOffset)
      BY <1>1, <2>3, <2>4, <3>1, <3>3, <3>5
    <3> QED
      BY <3>4, <3>5
  <2>7. InBounds'
    BY <1>1, <1>4, <2>5 DEF InBounds, Stages
  <2>8. SearchKeepsTarget'
    BY <1>1, <1>4, <2>1, <2>6 DEF SearchKeepsTarget, StartsBelow, fo
  <2>9. LookupFindsFunction'
    BY <1>1, <1>4 DEF LookupFindsFunction
  <2> QED
    BY <2>7, <2>8, <2>9 DEF LookupInv
<1> QED
  BY <1>3, <1>4 DEF SearchIndex

\* The page of the entry that was found is searched next.
LEMMA ChoosePagePreserves ==
  ASSUME LookupInv, ChoosePage
  PROVE  LookupInv'
<1> DEFINE u == unwindInfo
<1>1. /\ stage = "index" /\ low >= high /\ UNCHANGED <<unwindInfo, pcOffset>>
      /\ u \in UnwindInfos /\ pcOffset \in Nat
  BY DEF ChoosePage, LookupInv, InBounds
<1>2. CASE ReadFails
  BY <1>1, <1>2, EndOfLookup DEF ReadFails, Unknown
<1>3. CASE FoundPage = 0 /\ Unknown
  BY <1>1, <1>3, NoPageFound, EndOfLookup DEF Unknown
<1>4. CASE unwindInfo.pages[FoundPage].kind \notin PageKinds /\ Unknown
  BY <1>1, <1>4, NoPageFound, EndOfLookup DEF Unknown
<1>5. CASE /\ FoundPage # 0 /\ unwindInfo.pages[FoundPage].kind \in PageKinds
           /\ target' = low
           /\ low' = 0 /\ high' = Len(unwindInfo.pages[FoundPage].entries)
           /\ stage' = "page"
           /\ UNCHANGED <<frameLookupResult, readFailed>>
  <2>1. Len(u.index) \in Nat \ {0} /\ \A i \in 1 .. Len(u.index) : u.index[i].functionOffset \in Nat
    BY <1>1, TableTypes
  <2>2. /\ low \in 0 .. Len(u.index)
        /\ \A i \in 1 .. Len(u.index) : u.index[i].functionOffset <= pcOffset <=> i <= low
    BY <1>1, IndexFound
  <2>3. FoundPage = u.index[low].page /\ low # 0
    BY <1>5 DEF FoundPage
  <2>4. low # Len(u.index)
    <3>1. PICK cut \in [1 .. Len(u.index) -> 0 .. Len(u.functions)] : LaidOut(u, cut)
      BY <1>1, UnwindAssumption
    <3>2. u.index[Len(u.index)].page = 0
      BY <3>1 DEF LaidOut
    <3> QED
      BY <1>5, <2>3, <3>2
  <2>5. low \in 1 .. Len(u.index) - 1 /\ low \in 1 .. Len(u.index) /\ low + 1 \in 1 .. Len(u.index)
    BY <2>1, <2>2, <2>3, <2>4
  <2>6. /\ u.index[low].functionOffset <= pcOffset
        /\ ~(u.index[low + 1].functionOffset <= pcOffset)
    BY <2>2, <2>5
  <2>7. Page' = PageAt(u, low) /\ u.pages[FoundPage] = PageAt(u, low)
    BY <1>1, <1>5, <2>3 DEF Page, PageAt
  <2>8. PageAt(u, low).entries \in Seq(PageEntry(u, PageAt(u, low)))
    BY <1>1, <1>5, <2>3, <2>5, <2>7, PageTypes
  <2>9. /\ Len(PageAt(u, low).entries) \in Nat
        /\ DOMAIN PageAt(u, low).entries = 1 .. Len(PageAt(u, low).entries)
    BY <2>8, ElementsOf
  <2>10. InBounds'
    BY <1>1, <1>5, <2>5, <2>6, <2>7, <2>9 DEF InBounds, Stages, StartsBelow
  <2>11. SearchKeepsTarget'
    BY <1>1, <1>5, <2>7, <2>9 DEF SearchKeepsTarget
  <2>12. LookupFindsFunction'
    BY <1>5 DEF LookupFindsFunction
  <2> QED
    BY <2>10, <2>11, <2>12 DEF LookupInv
<1> QED
  BY <1>2, <1>3, <1>4, <1>5 DEF ChoosePage

\* A probe of a page.
LEMMA SearchPagePreserves ==
  ASSUME LookupInv, SearchPage
  PROVE  LookupInv'
<1> DEFINE n == Len(Page.entries)
           mid == low + (high - low) \div 2
           Below(i) == EntryStartsBelow(Page.entries[i])
<1>1. /\ stage = "page" /\ low < high /\ UNCHANGED <<unwindInfo, pcOffset>>
      /\ low \in Nat /\ high \in Nat /\ high <= n /\ InBounds
  BY DEF SearchPage, LookupInv, InBounds
<1>2. mid \in Nat /\ low <= mid /\ mid < high
  BY <1>1, Midpoint
<1>3. CASE ReadFails
  BY <1>1, <1>3, EndOfLookup DEF ReadFails, Unknown
<1>4. CASE /\ Bisect(mid, EntryStartsBelow(At(Page.entries, mid)))
           /\ UNCHANGED <<stage, target, frameLookupResult, readFailed>>
  <2>1. n \in Nat /\ DOMAIN Page.entries = 1 .. n
    <3>1. /\ unwindInfo \in UnwindInfos /\ target \in 1 .. Len(unwindInfo.index) - 1
          /\ Page = PageAt(unwindInfo, target) /\ Page.kind \in PageKinds
      BY <1>1 DEF InBounds, Page, PageAt
    <3>2. Len(unwindInfo.index) \in Nat \ {0}
      BY <3>1, TableTypes
    <3>3. unwindInfo.index[target].page # 0
      <4>1. PICK cut \in [1 .. Len(unwindInfo.index) -> 0 .. Len(unwindInfo.functions)] :
              LaidOut(unwindInfo, cut)
        BY <3>1, UnwindAssumption
      <4> QED
        BY <3>1, <4>1 DEF LaidOut
    <3>4. Page.entries \in Seq(PageEntry(unwindInfo, Page))
      BY <3>1, <3>2, <3>3, PageTypes
    <3> QED
      BY <3>4, ElementsOf
  <2>2. mid + 1 \in 1 .. n
    BY <1>1, <1>2, <2>1
  <2>3. \A i, j \in 1 .. n : i <= j => (Below(j) => Below(i))
    BY <1>1, EntriesSorted
  <2>4. \A i \in 1 .. n : (i <= low => Below(i)) /\ (i > high => ~Below(i))
    BY <1>1, <2>1 DEF LookupInv, SearchKeepsTarget
  <2>5. IF Below(mid + 1) THEN low' = mid + 1 /\ high' = high ELSE high' = mid /\ low' = low
    BY <1>4 DEF Bisect, At
  <2>6. Page' = Page /\ \A i : EntryStartsBelow(Page.entries[i])' <=> Below(i)
    BY <1>1, <1>4 DEF Page, EntryStartsBelow, StartsBelow
  <2> HIDE DEF n, mid, Below
  <2>7. low' \in Nat /\ high' \in Nat /\ low' <= high' /\ high' <= n
    BY <1>1, <1>2, <2>1, <2>5
  <2>8. ASSUME NEW i \in 1 .. n
        PROVE  (i <= low' => Below(i)) /\ (i > high' => ~Below(i))
    <3>1. i <= mid + 1 /\ Below(mid + 1) => Below(i)
      BY <2>2, <2>3
    <3>2. i > mid /\ Below(i) => Below(mid + 1)
      BY <1>2, <2>2, <2>3
    <3> QED
      BY <2>4, <2>5, <3>1, <3>2
  <2>9. InBounds'
    BY <1>1, <1>4, <2>6, <2>7 DEF InBounds, Stages, StartsBelow, n
  <2>10. SearchKeepsTarget'
    BY <1>1, <1>4, <2>1, <2>6, <2>8 DEF SearchKeepsTarget, n
  <2>11. LookupFindsFunction'
    BY <1>1, <1>4 DEF LookupFindsFunction
  <2> QED
    BY <2>9, <2>10, <2>11 DEF LookupInv
<1> QED
  BY <1>3, <1>4 DEF SearchPage

\* The lookup as a whole.
LEMMA LookupPreserves ==
  ASSUME LookupInv, Lookup
  PROVE  LookupInv'
<1>1. CASE LookupStackFrameForPC
  <2>1. stage = "idle" /\ UNCHANGED <<unwindInfo, pcOffset>>
    BY <1>1 DEF LookupStackFrameForPC
  <2>2. CASE ReadFails
    BY <2>1, <2>2, EndOfLookup DEF ReadFails, Unknown
  <2>3. CASE /\ low' = 0 /\ high' = Len(unwindInfo.index) /\ stage' = "index"
    <3>1. /\ Len(unwindInfo.index) \in Nat
          /\ DOMAIN unwindInfo.index = 1 .. Len(unwindInfo.index)
      BY TableTypes, ElementsOf DEF LookupInv, InBounds
    <3>2. InBounds'
      BY <2>1, <2>3, <3>1 DEF LookupInv, InBounds, Stages
    <3>3. SearchKeepsTarget' /\ LookupFindsFunction'
      BY <2>1, <2>3, <3>1 DEF SearchKeepsTarget, LookupFindsFunction
    <3> QED
      BY <3>2, <3>3 DEF LookupInv
  <2> QED
    BY <1>1, <2>2, <2>3 DEF LookupStackFrameForPC
<1>2. CASE ChooseFunction
  <2>1. /\ stage = "page" /\ low >= high /\ UNCHANGED <<unwindInfo, pcOffset>>
        /\ stage' = "looked up"
    BY <1>2 DEF ChooseFunction, ReadFails, Unknown
  <2>2. \/ readFailed'
        \/ low = 0 /\ frameLookupResult' = "Unknown"
        \/ low # 0 /\ frameLookupResult' = ResultForMode(Encoding(Page.entries[low]))
    BY <1>2 DEF ChooseFunction, ReadFails, Unknown
  <2> QED
    BY <2>1, <2>2, FunctionFound, EndOfLookup
<1> QED
  BY <1>1, <1>2, SearchIndexPreserves, ChoosePagePreserves, SearchPagePreserves DEF Lookup

\* The invariant of the lookup, in the walk that makes it.
LEMMA LookupInvariance == Spec => []LookupInv
<1>1. Init => LookupInv
  <2> SUFFICES ASSUME Init PROVE LookupInv
    OBVIOUS
  <2>1. unwindInfo \in UnwindInfos /\ pcOffset \in Nat /\ stage = "idle"
    BY UnwindAssumption DEF Init, LookupInit
  <2> QED
    BY <2>1 DEF LookupInv, InBounds, Stages, SearchKeepsTarget, LookupFindsFunction
<1>2. LookupInv /\ [Next]_vars => LookupInv'
  <2> SUFFICES ASSUME LookupInv, [Next]_vars PROVE LookupInv'
    OBVIOUS
  <2>1. CASE UNCHANGED lookupVars
    <3>1. InBounds'
      BY <2>1 DEF LookupInv, InBounds, lookupVars, Page, StartsBelow
    <3>2. SearchKeepsTarget'
      BY <2>1 DEF LookupInv, SearchKeepsTarget, lookupVars, Page, StartsBelow, EntryStartsBelow
    <3>3. LookupFindsFunction'
      BY <2>1 DEF LookupInv, LookupFindsFunction, lookupVars, ResultForPC
    <3> QED
      BY <3>1, <3>2, <3>3 DEF LookupInv
  <2>2. CASE WalkStack
    <3>1. CASE stage' = stage
      BY <2>1, <2>2, <3>1 DEF WalkStack, lookupVars
    <3>2. CASE stage' = "not needed"
      <4>1. UNCHANGED <<unwindInfo, pcOffset>>
        BY <2>2 DEF WalkStack
      <4> QED
        BY <3>2, <4>1 DEF LookupInv, InBounds, Stages, SearchKeepsTarget, LookupFindsFunction
    <3> QED
      BY <2>2, <3>1, <3>2 DEF WalkStack
  <2>3. CASE LookupStep
    BY <2>3, LookupPreserves DEF LookupStep
  <2>4. CASE UseLookupResult \/ NextFrame \/ Finished \/ UNCHANGED vars
    BY <2>1, <2>4 DEF UseLookupResult, NextFrame, Finished, vars, lookupVars
  <2> QED
    BY <2>2, <2>3, <2>4 DEF Next, Walk
<1> QED
  BY <1>1, <1>2, PTL DEF Spec

\* The bisections lose nothing: what is below low starts at or below the pc, what
\* is at high or above starts behind it, in tables of every size.
THEOREM SearchesKeepTarget == Spec => []SearchKeepsTarget
<1>1. LookupInv => SearchKeepsTarget
  BY DEF LookupInv
<1> QED
  BY <1>1, LookupInvariance, PTL

\* LookupStackFrameForPC finds the function that the pc is in, in every table
\* that describes functions the way the linker does.
THEOREM LookupIsExact == Spec => []LookupFindsFunction
<1>1. LookupInv => LookupFindsFunction
  BY DEF LookupInv
<1> QED
  BY <1>1, LookupInvariance, PTL
-----------------------------------------------------------------------------
(* The walk. *)

Addresses == {StripPACFromPointer(ip) : ip \in Nat}

\* The first addresses of the result, with or without the one in the lr register.
First(lr) ==
  <<StripPACFromPointer(instructionPointer)>>
    \o (IF lr THEN <<StripPACFromPointer(LinkRegister)>> ELSE <<>>)

\* The return addresses of the first n - 1 records of a path.
Returns(path, n) == [i \in 1 .. n - 1 |-> StripPACFromPointer(stack[path[i]].ip)]

\* A path along the chain on which no record comes twice.
Simple(path, n) ==
  /\ path[1] = basePointer
  /\ \A i \in 1 .. n - 1 :
       path[i] \in DOMAIN stack /\ stack[path[i]].bp # 0 /\ path[i + 1] = stack[path[i]].bp
  /\ \A i, j \in 1 .. n : path[i] = path[j] => i = j

\* The walk has followed path to its end.
Straight(path, n) ==
  /\ Simple(path, n)
  /\ path[n] = prevBasePointer
  /\ result = First(topPCNoStackFrame /\ frameIndex # 0) \o Returns(path, n)
  /\ UsesLinkRegister => n = 1

StraightSoFar == \E n \in Nat \ {0} : \E path \in [1 .. n -> Nat] : Straight(path, n)

\* Records that lead from the frame pointer in a circle.
Circle(C) ==
  /\ C \subseteq DOMAIN stack /\ basePointer \in C
  /\ \A a \in C : stack[a].bp # 0 /\ stack[a].bp \in C

InCircle == \E C : Circle(C) /\ prevBasePointer \in C

\* A stack and frame pointer that a thread may have.
OfThread(s, b) == \E t \in ThreadStates : s = t.stack /\ b = t.basePointer

\* What WalkStack knows of the top function.
TopInv ==
  /\ OfThread(stack, basePointer)
  /\ readFailed => stage = "looked up" /\ frameLookupResult = "Unknown"
  /\ at \in {"begin", "lookup", "frames", "done", "threw"}
  /\ at = "begin" => stage = "idle" /\ ~readFailed /\ result = <<>> /\ frameIndex = 0
  /\ at = "lookup" =>
       /\ ~CalledInvalidPointer /\ frameIndex = 0
       /\ basePointer # 0 /\ prevBasePointer = basePointer
       /\ result = First(FALSE)
  /\ at = "frames" =>
       /\ basePointer # 0 /\ prevBasePointer # 0 /\ frameIndex \in Nat
       /\ topPCNoStackFrame \in BOOLEAN /\ (topPCNoStackFrame <=> TopFunctionHasNoFrame)

\* The walk has followed the chain without a repetition, or goes in a circle.
WalkInv ==
  /\ TopInv
  /\ at = "frames" => StraightSoFar \/ InCircle
  /\ WalkIsExact

\* An exception is the end of a walk in a circle.
ThrowInv == at = "threw" => \E C : Circle(C)
-----------------------------------------------------------------------------
(* Chains of frame records. *)

\* The stack of a thread state.
LEMMA StackTypes ==
  ASSUME TopInv
  PROVE  /\ basePointer \in Nat /\ IsFiniteSet(DOMAIN stack)
         /\ \A a \in DOMAIN stack : a \in Nat \ {0} /\ stack[a].bp \in Nat /\ stack[a].ip \in Nat
BY StackAssumption DEF TopInv, OfThread

\* A chain in a circle does not end.
LEMMA CircleIsCyclic ==
  ASSUME NEW C, Circle(C)
  PROVE  ~Acyclic
<1> SUFFICES ASSUME NEW path \in Paths, Chain(basePointer, path) PROVE FALSE
  BY DEF Acyclic
<1>1. PICK n \in 1 .. Cardinality(DOMAIN stack) + 1 :
        path \in [1 .. n -> DOMAIN stack \cup {s.bp : s \in {stack[a] : a \in DOMAIN stack}} \cup {basePointer}]
  BY DEF Paths
<1>2. n \in Nat \ {0} /\ Len(path) = n
  BY <1>1
<1>3. /\ path[1] = basePointer
      /\ \A i \in 1 .. n - 1 : path[i + 1] = stack[path[i]].bp
      /\ DerefPtr(path[n]).bp = 0
  BY <1>2 DEF Chain
<1> DEFINE T == {i \in 1 .. n : path[i] \notin C}
<1>4. T = {}
  <2> SUFFICES ASSUME T # {} PROVE FALSE
    OBVIOUS
  <2>1. T \in SUBSET Nat
    OBVIOUS
  <2>2. PICK m \in T : \A k \in T : m <= k
    <3> HIDE DEF T
    <3> QED
      BY <2>1, LeastElement
  <2>3. m # 1
    BY <1>3 DEF Circle
  <2>4. m - 1 \in 1 .. n - 1 /\ m - 1 \notin T /\ m \in 1 .. n
    BY <1>2, <2>2, <2>3
  <2>5. path[m - 1] \in C /\ path[(m - 1) + 1] = stack[path[m - 1]].bp
    BY <1>2, <1>3, <2>4
  <2>6. path[m] \in C
    BY <2>4, <2>5 DEF Circle
  <2> QED
    BY <2>2, <2>6
<1>5. path[n] \in C
  BY <1>2, <1>4
<1> QED
  BY <1>3, <1>5 DEF Circle, DerefPtr

\* No more records than there are: the pigeonhole principle.
LEMMA DistinctRecords ==
  ASSUME NEW n \in Nat, NEW path, IsFiniteSet(DOMAIN stack),
         \A i \in 1 .. n : path[i] \in DOMAIN stack,
         \A i, j \in 1 .. n : path[i] = path[j] => i = j
  PROVE  Cardinality(DOMAIN stack) \in Nat /\ n <= Cardinality(DOMAIN stack)
<1> DEFINE f == [i \in 1 .. n |-> path[i]]
<1>1. f \in [1 .. n -> DOMAIN stack] /\ IsInjective(f)
  BY DEF IsInjective
<1>2. f \in Injection(1 .. n, DOMAIN stack)
  BY <1>1 DEF Injection
<1>3. Cardinality(1 .. n) <= Cardinality(DOMAIN stack)
  <2> HIDE DEF f
  <2> QED
    BY <1>2, FS_Injection
<1>4. Cardinality(1 .. n) = n
  BY FS_Interval
<1> QED
  BY <1>3, <1>4, FS_CardinalityType

\* The results of the walk are sequences of addresses.
LEMMA ResultTypes ==
  ASSUME InBounds, TopInv, NEW n \in Nat \ {0}, NEW path, Simple(path, n), NEW lr \in BOOLEAN
  PROVE  /\ First(lr) \in Seq(Addresses) /\ Len(First(lr)) = IF lr THEN 2 ELSE 1
         /\ Returns(path, n) \in Seq(Addresses) /\ Len(Returns(path, n)) = n - 1
<1>1. instructionPointer \in Nat /\ LinkRegister \in Nat
  BY StackAssumption DEF InBounds, instructionPointer
<1>2. StripPACFromPointer(instructionPointer) \in Addresses /\ StripPACFromPointer(LinkRegister) \in Addresses
  BY <1>1 DEF Addresses
<1>3. \A i \in 1 .. n - 1 : StripPACFromPointer(stack[path[i]].ip) \in Addresses
  BY StackTypes DEF Simple, Addresses
<1> HIDE DEF Addresses
<1>4. First(lr) \in Seq(Addresses) /\ Len(First(lr)) = IF lr THEN 2 ELSE 1
  BY <1>2 DEF First
<1>5. Returns(path, n) \in Seq(Addresses) /\ Len(Returns(path, n)) = n - 1
  BY <1>3 DEF Returns
<1> QED
  BY <1>4, <1>5

\* A path that ends in a frame record with a next one, and that one.
LEMMA LongerPath ==
  ASSUME InBounds, TopInv, NEW n \in Nat \ {0}, NEW path \in [1 .. n -> Nat], Simple(path, n),
         path[n] \in DOMAIN stack, stack[path[n]].bp # 0, \A i \in 1 .. n : path[i] # stack[path[n]].bp
  PROVE  \E longer \in [1 .. n + 1 -> Nat] :
           /\ Simple(longer, n + 1) /\ longer[n + 1] = stack[path[n]].bp
           /\ Returns(longer, n + 1)
                = Append(Returns(path, n), StripPACFromPointer(stack[path[n]].ip))
<1> DEFINE longer == [i \in 1 .. n + 1 |-> IF i = n + 1 THEN stack[path[n]].bp ELSE path[i]]
<1>1. longer \in [1 .. n + 1 -> Nat]
  BY StackTypes
<1>2. /\ \A i \in 1 .. n : i \in 1 .. n + 1 /\ longer[i] = path[i]
      /\ longer[n + 1] = stack[path[n]].bp
      /\ \A i \in 1 .. n + 1 : i \in 1 .. n \/ i = n + 1
      /\ 1 \in 1 .. n /\ n \in 1 .. n
  OBVIOUS
<1> HIDE DEF longer
<1>3. \A i \in 1 .. n : /\ longer[i] \in DOMAIN stack /\ stack[longer[i]].bp # 0
                        /\ longer[i + 1] = stack[longer[i]].bp
  <2> SUFFICES ASSUME NEW i \in 1 .. n
               PROVE  /\ longer[i] \in DOMAIN stack /\ stack[longer[i]].bp # 0
                      /\ longer[i + 1] = stack[longer[i]].bp
    OBVIOUS
  <2>1. CASE i = n
    BY <1>2, <2>1
  <2>2. CASE i # n
    <3>1. i \in 1 .. n - 1 /\ i + 1 \in 1 .. n
      BY <2>2
    <3> QED
      BY <1>2, <3>1 DEF Simple
  <2> QED
    BY <2>1, <2>2
<1>4. \A i, j \in 1 .. n + 1 : longer[i] = longer[j] => i = j
  BY <1>2 DEF Simple
<1>5. Simple(longer, n + 1)
  <2>1. longer[1] = basePointer
    BY <1>2 DEF Simple
  <2>2. (n + 1) - 1 = n
    OBVIOUS
  <2> QED
    BY <1>3, <1>4, <2>1, <2>2 DEF Simple
<1>6. Returns(longer, n + 1) = Append(Returns(path, n), StripPACFromPointer(stack[path[n]].ip))
  <2> DEFINE a == Returns(longer, n + 1)
             e == StripPACFromPointer(stack[path[n]].ip)
             b == Append(Returns(path, n), e)
  <2>1. a \in Seq(Addresses) /\ Len(a) = n
    <3>1. n + 1 \in Nat \ {0} /\ (n + 1) - 1 = n
      OBVIOUS
    <3>2. a \in Seq(Addresses) /\ Len(a) = (n + 1) - 1
      BY <1>5, <3>1, ResultTypes
    <3> QED
      BY <3>1, <3>2
  <2>2. Returns(path, n) \in Seq(Addresses) /\ Len(Returns(path, n)) = n - 1
    BY ResultTypes
  <2>3. e \in Addresses
    BY StackTypes DEF Addresses
  <2>4. /\ b \in Seq(Addresses) /\ Len(b) = n /\ b[n] = e
        /\ \A i \in 1 .. n - 1 : b[i] = Returns(path, n)[i]
    <3> HIDE DEF Addresses, e
    <3>1. /\ b \in Seq(Addresses) /\ Len(b) = (n - 1) + 1 /\ b[(n - 1) + 1] = e
          /\ \A i \in 1 .. n - 1 : b[i] = Returns(path, n)[i]
      BY <2>2, <2>3, AppendProperties
    <3>2. (n - 1) + 1 = n
      OBVIOUS
    <3> QED
      BY <3>1, <3>2
  <2>5. \A i \in 1 .. n : a[i] = StripPACFromPointer(stack[longer[i]].ip)
    <3>1. (n + 1) - 1 = n
      OBVIOUS
    <3> QED
      BY <3>1 DEF Returns
  <2>6. ASSUME NEW i \in 1 .. n PROVE a[i] = b[i]
    <3>1. CASE i = n
      BY <1>2, <2>4, <2>5, <3>1
    <3>2. CASE i # n
      <4>1. i \in 1 .. n - 1
        BY <3>2
      <4>2. b[i] = StripPACFromPointer(stack[path[i]].ip)
        BY <2>4, <4>1 DEF Returns
      <4> QED
        BY <1>2, <2>5, <4>2
    <3> QED
      BY <3>1, <3>2
  <2> HIDE DEF a, b
  <2>7. a = b
    BY <2>1, <2>4, <2>6, SeqEqual
  <2> QED
    BY <2>7 DEF a, b
<1> QED
  BY <1>1, <1>2, <1>5, <1>6

\* A path whose last record leads back to one of its records is a circle.
LEMMA ClosedPath ==
  ASSUME NEW n \in Nat \ {0}, NEW path \in [1 .. n -> Nat], Simple(path, n),
         path[n] \in DOMAIN stack, stack[path[n]].bp # 0,
         NEW j \in 1 .. n, path[j] = stack[path[n]].bp
  PROVE  \E C : Circle(C) /\ path[j] \in C
<1> DEFINE C == {path[i] : i \in 1 .. n}
<1>1. ASSUME NEW i \in 1 .. n
      PROVE  path[i] \in DOMAIN stack /\ stack[path[i]].bp # 0 /\ stack[path[i]].bp \in C
  <2>1. CASE i = n
    BY <2>1
  <2>2. CASE i # n
    <3>1. i \in 1 .. n - 1 /\ i + 1 \in 1 .. n
      BY <2>2
    <3> QED
      BY <3>1 DEF Simple
  <2> QED
    BY <2>1, <2>2
<1>2. basePointer \in C
  <2>1. 1 \in 1 .. n
    OBVIOUS
  <2> QED
    BY <2>1 DEF Simple
<1>3. Circle(C)
  BY <1>1, <1>2 DEF Circle
<1> QED
  BY <1>3

\* A path to a record that ends the chain is the chain.
LEMMA PathIsChain ==
  ASSUME TopInv, NEW n \in Nat \ {0}, NEW path \in [1 .. n -> Nat], Simple(path, n),
         DerefPtr(path[n]).bp = 0
  PROVE  path \in Paths /\ Len(path) = n /\ Chain(basePointer, path)
<1> DEFINE P == DOMAIN stack \cup {s.bp : s \in {stack[a] : a \in DOMAIN stack}} \cup {basePointer}
<1>1. Len(path) = n
  OBVIOUS
<1>2. n - 1 \in Nat /\ \A i \in 1 .. n - 1 : i \in 1 .. n
  OBVIOUS
<1>3. Cardinality(DOMAIN stack) \in Nat /\ n - 1 <= Cardinality(DOMAIN stack)
  <2>1. IsFiniteSet(DOMAIN stack)
    BY StackTypes
  <2>2. /\ \A i \in 1 .. n - 1 : path[i] \in DOMAIN stack
        /\ \A i, j \in 1 .. n - 1 : path[i] = path[j] => i = j
    BY <1>2 DEF Simple
  <2> QED
    BY <1>2, <2>1, <2>2, DistinctRecords
<1>4. n \in 1 .. Cardinality(DOMAIN stack) + 1
  BY <1>3
<1>5. ASSUME NEW i \in 1 .. n PROVE path[i] \in P
  <2>1. CASE i = n /\ n = 1
    BY <2>1 DEF Simple
  <2>2. CASE i # n
    <3>1. i \in 1 .. n - 1
      BY <2>2
    <3> QED
      BY <3>1 DEF Simple
  <2>3. CASE i = n /\ n # 1
    <3>1. n - 1 \in 1 .. n - 1 /\ (n - 1) + 1 = n
      BY <2>3
    <3>2. path[n - 1] \in DOMAIN stack /\ path[n] = stack[path[n - 1]].bp
      BY <3>1 DEF Simple
    <3> QED
      BY <2>3, <3>2
  <2> QED
    BY <2>1, <2>2, <2>3
<1>6. path \in [1 .. n -> P]
  BY <1>5
<1>7. path \in Paths
  BY <1>4, <1>6 DEF Paths
<1> QED
  BY <1>1, <1>7 DEF Chain, Simple
-----------------------------------------------------------------------------
(* The steps of the walk. *)

\* What one step of the walk along the chain does.
LEMMA FrameStep ==
  ASSUME NextFrame, at = "frames"
  PROVE  /\ UNCHANGED <<lookupVars, threadVars, topPCNoStackFrame>>
         /\ \E bp, ip :
              /\ UsesLinkRegister => bp = prevBasePointer /\ ip = LinkRegister
              /\ ~UsesLinkRegister => bp = DerefPtr(prevBasePointer).bp /\ ip = DerefPtr(prevBasePointer).ip
              /\ \/ bp = 0 /\ at' = "done" /\ result' = result
                 \/ /\ bp # 0 /\ at' = "frames"
                    /\ AddIPToResult(ip) /\ prevBasePointer' = bp /\ frameIndex' = frameIndex + 1
                 \/ bp # 0 /\ Len(result) >= MaxFrames /\ at' = "threw"
<1> DEFINE next == IF UsesLinkRegister THEN [bp |-> prevBasePointer, ip |-> LinkRegister]
                   ELSE DerefPtr(prevBasePointer)
<1>1. /\ UsesLinkRegister => next.bp = prevBasePointer /\ next.ip = LinkRegister
      /\ ~UsesLinkRegister => next.bp = DerefPtr(prevBasePointer).bp /\ next.ip = DerefPtr(prevBasePointer).ip
  OBVIOUS
<1>2. /\ UNCHANGED <<lookupVars, threadVars, topPCNoStackFrame>>
      /\ \/ next.bp = 0 /\ at' = "done" /\ result' = result
         \/ /\ next.bp # 0 /\ at' = "frames"
            /\ AddIPToResult(next.ip) /\ prevBasePointer' = next.bp /\ frameIndex' = frameIndex + 1
         \/ next.bp # 0 /\ Len(result) >= MaxFrames /\ at' = "threw"
  BY DEF NextFrame, PushBackFails
<1> HIDE DEF next
<1> QED
  BY <1>1, <1>2

\* The stack does not change under the walk.
LEMMA SameStack ==
  ASSUME UNCHANGED <<lookupVars, threadVars>>
  PROVE  /\ \A path, n : Simple(path, n)' <=> Simple(path, n)
         /\ \A path, n : Returns(path, n)' = Returns(path, n)
         /\ \A lr : First(lr)' = First(lr)
         /\ \A C : Circle(C)' <=> Circle(C)
<1>1. stack' = stack /\ basePointer' = basePointer /\ pcOffset' = pcOffset
  BY DEF lookupVars, threadVars
<1>2. \A path, n : Simple(path, n)' <=> Simple(path, n)
  BY <1>1 DEF Simple
<1>3. \A path, n : Returns(path, n)' = Returns(path, n)
  BY <1>1 DEF Returns
<1>4. \A lr : First(lr)' = First(lr)
  BY <1>1 DEF First, instructionPointer
<1>5. \A C : Circle(C)' <=> Circle(C)
  BY <1>1 DEF Circle
<1> QED
  BY <1>2, <1>3, <1>4, <1>5

\* What is appended to two sequences is appended to the second one.
LEMMA AppendToConcat ==
  ASSUME NEW f \in Seq(Addresses), NEW g \in Seq(Addresses), NEW x \in Addresses
  PROVE  Append(f \o g, x) = f \o Append(g, x)
OBVIOUS

\* One more frame: the chain is followed without a repetition, or in a circle.
LEMMA AddFrame ==
  ASSUME InBounds, TopInv, at = "frames", StraightSoFar \/ InCircle,
         UNCHANGED <<lookupVars, threadVars, topPCNoStackFrame>>,
         NEW bp, NEW ip, bp # 0,
         UsesLinkRegister => bp = prevBasePointer /\ ip = LinkRegister,
         ~UsesLinkRegister => bp = DerefPtr(prevBasePointer).bp /\ ip = DerefPtr(prevBasePointer).ip,
         AddIPToResult(ip), prevBasePointer' = bp, frameIndex' = frameIndex + 1
  PROVE  StraightSoFar' \/ InCircle'
<1>1. frameIndex \in Nat /\ frameIndex' # 0 /\ topPCNoStackFrame \in BOOLEAN /\ ~UsesLinkRegister'
  <2>1. frameIndex \in Nat /\ topPCNoStackFrame \in BOOLEAN
    BY DEF TopInv
  <2>2. frameIndex' # 0
    BY <2>1
  <2> QED
    BY <2>1, <2>2 DEF UsesLinkRegister
<1>2. ~UsesLinkRegister /\ bp # 0 => prevBasePointer \in DOMAIN stack
  BY DEF DerefPtr
<1>3. CASE InCircle
  <2>1. PICK C : Circle(C) /\ prevBasePointer \in C
    BY <1>3 DEF InCircle
  <2>2. bp \in C
    BY <2>1 DEF Circle, DerefPtr
  <2> QED
    BY <2>1, <2>2, SameStack DEF InCircle
<1>4. CASE StraightSoFar
  <2>1. PICK n \in Nat \ {0} : \E path \in [1 .. n -> Nat] : Straight(path, n)
    BY <1>4 DEF StraightSoFar
  <2>2. PICK path \in [1 .. n -> Nat] : Straight(path, n)
    BY <2>1
  <2>3. Simple(path, n) /\ path[n] = prevBasePointer
    BY <2>2 DEF Straight
  <2>4. result' = Append(result, StripPACFromPointer(ip))
    BY DEF AddIPToResult
  <2>5. CASE UsesLinkRegister
    <3>1. n = 1 /\ topPCNoStackFrame /\ frameIndex = 0 /\ result = First(FALSE) \o Returns(path, 1)
      BY <2>2, <2>5 DEF Straight, UsesLinkRegister
    <3>2. Returns(path, 1) = <<>>
      BY DEF Returns
    <3>3. /\ First(FALSE) \in Seq(Addresses) /\ First(TRUE) \in Seq(Addresses)
      BY <2>3, <3>1, ResultTypes
    <3>4. result = First(FALSE) /\ First(TRUE) \o Returns(path, 1) = First(TRUE)
      BY <3>1, <3>2, <3>3, ConcatEmptySeq
    <3>5. result' = First(TRUE)
      BY <2>4, <2>5, <3>4 DEF First
    <3>6. Straight(path, n)'
      <4>1. Simple(path, n)' /\ Returns(path, n)' = Returns(path, n) /\ First(TRUE)' = First(TRUE)
        BY <2>3, SameStack
      <4>2. (topPCNoStackFrame /\ frameIndex # 0)' = TRUE
        BY <1>1, <3>1
      <4>3. result' = First(TRUE)' \o Returns(path, n)'
        BY <3>1, <3>4, <3>5, <4>1
      <4>4. path[n] = prevBasePointer'
        BY <2>3, <2>5
      <4> QED
        BY <1>1, <4>1, <4>2, <4>3, <4>4 DEF Straight
    <3> QED
      BY <3>6 DEF StraightSoFar
  <2>6. CASE ~UsesLinkRegister
    <3>1. path[n] \in DOMAIN stack /\ bp = stack[path[n]].bp /\ ip = stack[path[n]].ip
      BY <1>2, <2>3, <2>6 DEF DerefPtr
    <3>2. CASE \E j \in 1 .. n : path[j] = bp
      <4>1. PICK C : Circle(C) /\ bp \in C
        BY <2>3, <3>1, <3>2, ClosedPath
      <4> QED
        BY <4>1, SameStack DEF InCircle
    <3>3. CASE \A j \in 1 .. n : path[j] # bp
      <4>1. PICK longer \in [1 .. n + 1 -> Nat] :
              /\ Simple(longer, n + 1) /\ longer[n + 1] = bp
              /\ Returns(longer, n + 1) = Append(Returns(path, n), StripPACFromPointer(ip))
        BY <2>3, <3>1, <3>3, LongerPath
      <4>0. PICK lr \in BOOLEAN : lr = (topPCNoStackFrame /\ frameIndex # 0)
        OBVIOUS
      <4> DEFINE e == StripPACFromPointer(ip)
                 r == Returns(path, n)
      <4>2. lr \in BOOLEAN /\ lr = topPCNoStackFrame
        BY <1>1, <2>6, <4>0 DEF UsesLinkRegister
      <4>3. First(lr) \in Seq(Addresses) /\ r \in Seq(Addresses)
        BY <2>3, <4>2, ResultTypes
      <4>4. e \in Addresses
        BY <3>1, StackTypes DEF Addresses
      <4>5. result = First(lr) \o r
        BY <2>2, <4>0 DEF Straight
      <4>6. Append(First(lr) \o r, e) = First(lr) \o Append(r, e)
        <5> HIDE DEF e, r
        <5> QED
          BY <4>3, <4>4, AppendToConcat
      <4>7. result' = First(lr) \o Returns(longer, n + 1)
        BY <2>4, <4>1, <4>5, <4>6
      <4>8. Straight(longer, n + 1)'
        <5>1. /\ Simple(longer, n + 1)' /\ Returns(longer, n + 1)' = Returns(longer, n + 1)
              /\ First(lr)' = First(lr)
          BY <4>1, SameStack
        <5>2. (topPCNoStackFrame /\ frameIndex # 0)' = lr
          BY <1>1, <4>2
        <5> QED
          BY <1>1, <4>1, <4>7, <5>1, <5>2 DEF Straight
      <4>9. n + 1 \in Nat \ {0}
        OBVIOUS
      <4> QED
        BY <4>8, <4>9 DEF StraightSoFar
    <3> QED
      BY <3>2, <3>3
  <2> QED
    BY <2>5, <2>6
<1> QED
  BY <1>3, <1>4

\* The end of the chain: the walk has its return addresses.
LEMMA EndOfChain ==
  ASSUME InBounds, TopInv, at = "frames", StraightSoFar \/ InCircle,
         ~UsesLinkRegister, DerefPtr(prevBasePointer).bp = 0
  PROVE  \E path \in Paths :
           /\ Chain(basePointer, path)
           /\ result = First(TopFunctionHasNoFrame) \o Returns(path, Len(path))
<1>1. ~InCircle
  BY DEF InCircle, Circle, DerefPtr
<1>2. PICK n \in Nat \ {0} : \E path \in [1 .. n -> Nat] : Straight(path, n)
  BY <1>1 DEF StraightSoFar
<1>3. PICK path \in [1 .. n -> Nat] : Straight(path, n)
  BY <1>2
<1>4. Simple(path, n) /\ path[n] = prevBasePointer
  BY <1>3 DEF Straight
<1>5. path \in Paths /\ Len(path) = n /\ Chain(basePointer, path)
  BY <1>4, PathIsChain
<1>6. (topPCNoStackFrame /\ frameIndex # 0) <=> TopFunctionHasNoFrame
  BY DEF TopInv, UsesLinkRegister
<1>7. result = First(TopFunctionHasNoFrame) \o Returns(path, n)
  BY <1>3, <1>6 DEF Straight, First
<1> QED
  BY <1>5, <1>7

\* What the walk does not change: the thread and what the lookup knows of it.
LEMMA SameThread ==
  ASSUME UNCHANGED <<lookupVars, threadVars>>
  PROVE  /\ OfThread(stack, basePointer)' <=> OfThread(stack, basePointer)
         /\ CalledInvalidPointer' <=> CalledInvalidPointer
         /\ TopFunctionHasNoFrame' <=> TopFunctionHasNoFrame
         /\ Paths' = Paths
         /\ \A path : Chain(basePointer, path)' <=> Chain(basePointer, path)
<1>1. UNCHANGED <<stack, basePointer, top, pcOffset, unwindInfo, readFailed>>
  BY DEF lookupVars, threadVars
<1>2. OfThread(stack, basePointer)' <=> OfThread(stack, basePointer)
  BY <1>1 DEF OfThread
<1>3. CalledInvalidPointer' <=> CalledInvalidPointer
  BY <1>1 DEF CalledInvalidPointer
<1>4. ResultForPC' = ResultForPC
  BY <1>1 DEF ResultForPC
<1>5. TopFunctionHasNoFrame' <=> TopFunctionHasNoFrame
  BY <1>1, <1>3, <1>4 DEF TopFunctionHasNoFrame
<1>6. Paths' = Paths
  BY <1>1 DEF Paths
<1>7. \A path : Chain(basePointer, path)' <=> Chain(basePointer, path)
  BY <1>1 DEF Chain, DerefPtr
<1> QED
  BY <1>2, <1>3, <1>5, <1>6, <1>7

\* The steps along the chain.
LEMMA NextFramePreserves ==
  ASSUME InBounds, WalkInv, NextFrame
  PROVE  WalkInv'
<1>1. TopInv /\ at = "frames" /\ (StraightSoFar \/ InCircle)
  BY DEF WalkInv, NextFrame
<1>2. UNCHANGED <<lookupVars, threadVars, topPCNoStackFrame>>
  BY <1>1, FrameStep
<1>3. PICK bp, ip :
        /\ UsesLinkRegister => bp = prevBasePointer /\ ip = LinkRegister
        /\ ~UsesLinkRegister => bp = DerefPtr(prevBasePointer).bp /\ ip = DerefPtr(prevBasePointer).ip
        /\ \/ bp = 0 /\ at' = "done" /\ result' = result
           \/ /\ bp # 0 /\ at' = "frames"
              /\ AddIPToResult(ip) /\ prevBasePointer' = bp /\ frameIndex' = frameIndex + 1
           \/ bp # 0 /\ Len(result) >= MaxFrames /\ at' = "threw"
  BY <1>1, FrameStep
<1>4. /\ UNCHANGED <<stage, readFailed, frameLookupResult, stack, basePointer, topPCNoStackFrame>>
      /\ basePointer # 0 /\ prevBasePointer # 0 /\ frameIndex \in Nat
  BY <1>1, <1>2 DEF lookupVars, threadVars, TopInv
<1>5. CASE bp = 0 /\ at' = "done" /\ result' = result
  <2>1. TopInv'
    BY <1>1, <1>2, <1>4, <1>5, SameThread DEF TopInv
  <2>2. ~UsesLinkRegister /\ DerefPtr(prevBasePointer).bp = 0
    BY <1>3, <1>4, <1>5
  <2>3. PICK path \in Paths :
          /\ Chain(basePointer, path)
          /\ result = First(TopFunctionHasNoFrame) \o Returns(path, Len(path))
    BY <1>1, <2>2, EndOfChain
  <2>4. /\ path \in Paths' /\ Chain(basePointer, path)'
        /\ result' = First(TopFunctionHasNoFrame)' \o Returns(path, Len(path))'
    <3>1. First(TopFunctionHasNoFrame)' = First(TopFunctionHasNoFrame)
      BY <1>2, SameThread DEF First, instructionPointer, lookupVars
    <3> QED
      BY <1>2, <1>5, <2>3, <3>1, SameThread, SameStack
  <2>5. WalkIsExact'
    BY <2>4 DEF WalkIsExact, First, Returns
  <2> QED
    BY <1>5, <2>1, <2>5 DEF WalkInv
<1>6. CASE /\ bp # 0 /\ at' = "frames"
           /\ AddIPToResult(ip) /\ prevBasePointer' = bp /\ frameIndex' = frameIndex + 1
  <2>3. frameIndex' \in Nat /\ prevBasePointer' # 0
    BY <1>4, <1>6
  <2>4. topPCNoStackFrame' \in BOOLEAN /\ (topPCNoStackFrame' <=> TopFunctionHasNoFrame')
    <3>1. TopFunctionHasNoFrame' <=> TopFunctionHasNoFrame
      BY <1>2, SameThread
    <3>2. topPCNoStackFrame \in BOOLEAN /\ (topPCNoStackFrame <=> TopFunctionHasNoFrame)
      BY <1>1 DEF TopInv
    <3>3. topPCNoStackFrame' = topPCNoStackFrame
      BY <1>4
    <3> QED
      BY <3>1, <3>2, <3>3, Zenon
  <2>5. OfThread(stack, basePointer)'
    BY <1>1, <1>2, SameThread DEF TopInv
  <2>6. readFailed' => stage' = "looked up" /\ frameLookupResult' = "Unknown"
    BY <1>1, <1>4 DEF TopInv
  <2>1. TopInv'
    BY <1>4, <1>6, <2>3, <2>4, <2>5, <2>6 DEF TopInv
  <2>2. StraightSoFar' \/ InCircle'
    BY <1>1, <1>2, <1>3, <1>6, AddFrame
  <2> QED
    BY <1>6, <2>1, <2>2 DEF WalkInv, WalkIsExact
<1>7. CASE bp # 0 /\ at' = "threw"
  <2>1. TopInv'
    BY <1>1, <1>2, <1>4, <1>7, SameThread DEF TopInv
  <2> QED
    BY <1>7, <2>1 DEF WalkInv, WalkIsExact
<1> QED
  BY <1>3, <1>5, <1>6, <1>7

\* The beginning of the walk, at which one address is known.
LEMMA FirstFrame ==
  ASSUME basePointer \in Nat, prevBasePointer = basePointer, frameIndex = 0, result = First(FALSE)
  PROVE  StraightSoFar
<1> DEFINE path == [i \in 1 .. 1 |-> basePointer]
<1>1. path \in [1 .. 1 -> Nat] /\ path[1] = basePointer
  OBVIOUS
<1>2. Simple(path, 1)
  BY DEF Simple
<1>3. First(FALSE) \o Returns(path, 1) = First(FALSE)
  <2>1. Returns(path, 1) = <<>>
    BY DEF Returns
  <2>2. First(FALSE) \in Seq({StripPACFromPointer(instructionPointer)})
    BY DEF First
  <2> QED
    BY <2>1, <2>2, ConcatEmptySeq
<1>4. Straight(path, 1)
  <2>1. First(topPCNoStackFrame /\ frameIndex # 0) = First(FALSE)
    BY DEF First
  <2> HIDE DEF path
  <2> QED
    BY <1>1, <1>2, <1>3, <2>1 DEF Straight
<1>5. 1 \in Nat \ {0}
  OBVIOUS
<1> HIDE DEF path
<1>6. \E p \in [1 .. 1 -> Nat] : Straight(p, 1)
  BY <1>1, <1>4
<1> QED
  BY <1>5, <1>6 DEF StraightSoFar

\* The beginning: threads without a frame pointer are not walked.
LEMMA WalkStackPreserves ==
  ASSUME InBounds, WalkInv, WalkStack
  PROVE  WalkInv'
<1>1. /\ TopInv /\ at = "begin" /\ stage = "idle" /\ ~readFailed /\ result = <<>> /\ frameIndex = 0
      /\ UNCHANGED <<stack, basePointer, top, frameIndex, unwindInfo, pcOffset, readFailed, frameLookupResult>>
  BY DEF WalkInv, TopInv, WalkStack, threadVars
<1>2. OfThread(stack, basePointer)' /\ basePointer \in Nat
  BY <1>1, StackTypes DEF TopInv, OfThread
<1>3. CASE basePointer = 0 /\ at' = "done"
  <2>1. TopInv'
    BY <1>1, <1>2, <1>3 DEF TopInv
  <2> QED
    BY <1>1, <1>3, <2>1 DEF WalkInv, WalkIsExact
<1>4. CASE /\ basePointer # 0 /\ AddIPToResult(instructionPointer)
           /\ topPCNoStackFrame' = CalledInvalidPointer
           /\ at' = (IF CalledInvalidPointer THEN "frames" ELSE "lookup")
           /\ prevBasePointer' = basePointer
  <2>1. CalledInvalidPointer' <=> CalledInvalidPointer
    BY <1>1 DEF CalledInvalidPointer
  <2>2. result' = First(FALSE)'
    BY <1>1, <1>4 DEF AddIPToResult, First, instructionPointer
  <2>3. CalledInvalidPointer \in BOOLEAN
    BY DEF CalledInvalidPointer
  <2>4. CASE CalledInvalidPointer
    <3>1. TopFunctionHasNoFrame'
      BY <2>1, <2>4 DEF TopFunctionHasNoFrame
    <3>2. TopInv'
      BY <1>1, <1>2, <1>4, <2>2, <2>4, <3>1 DEF TopInv
    <3>3. StraightSoFar'
      <4>1. (basePointer \in Nat /\ prevBasePointer = basePointer /\ frameIndex = 0 /\ result = First(FALSE))'
        BY <1>1, <1>2, <1>4, <2>2
      <4> QED
        BY <4>1, FirstFrame, PTL
    <3> QED
      BY <1>4, <2>4, <3>2, <3>3 DEF WalkInv, WalkIsExact
  <2>5. CASE ~CalledInvalidPointer
    <3>1. TopInv'
      BY <1>1, <1>2, <1>4, <2>1, <2>2, <2>5 DEF TopInv
    <3> QED
      BY <1>4, <2>5, <3>1 DEF WalkInv, WalkIsExact
  <2> QED
    BY <2>4, <2>5
<1> QED
  BY <1>3, <1>4 DEF WalkStack

\* The lookup, and what WalkStack makes of its result.
LEMMA LookupPartPreserves ==
  ASSUME InBounds, LookupFindsFunction, WalkInv, LookupStep \/ UseLookupResult
  PROVE  WalkInv'
<1>1. /\ TopInv /\ at = "lookup" /\ ~CalledInvalidPointer /\ frameIndex = 0
      /\ basePointer # 0 /\ prevBasePointer = basePointer /\ result = First(FALSE)
  BY DEF WalkInv, TopInv, LookupStep, UseLookupResult
<1>2. CASE LookupStep
  <2>1. UNCHANGED <<stack, basePointer, top, at, topPCNoStackFrame, frameIndex, prevBasePointer, result>>
    BY <1>2 DEF LookupStep, threadVars, walkVars
  <2>2. pcOffset' = pcOffset
    BY <1>2 DEF LookupStep, Lookup, LookupStackFrameForPC, SearchIndex, ChoosePage, SearchPage, ChooseFunction
  <2>3. readFailed' => stage' = "looked up" /\ frameLookupResult' = "Unknown"
    <3>1. stage # "looked up"
      BY <1>2 DEF LookupStep, Lookup, LookupStackFrameForPC, SearchIndex, ChoosePage, SearchPage, ChooseFunction
    <3>2. ~readFailed
      BY <1>1, <3>1 DEF TopInv
    <3>3. \/ stage' = "looked up" /\ frameLookupResult' = "Unknown"
          \/ readFailed' = readFailed
      BY <1>2 DEF LookupStep, Lookup, LookupStackFrameForPC, SearchIndex, ChoosePage, SearchPage,
                  ChooseFunction, ReadFails, Unknown
    <3> QED
      BY <3>2, <3>3
  <2>4. OfThread(stack, basePointer)' /\ (CalledInvalidPointer' <=> CalledInvalidPointer)
    BY <1>1, <2>1 DEF TopInv, OfThread, CalledInvalidPointer
  <2>5. First(FALSE)' = First(FALSE)
    BY <2>2 DEF First, instructionPointer
  <2>6. TopInv'
    BY <1>1, <2>1, <2>3, <2>4, <2>5 DEF TopInv
  <2> QED
    BY <1>1, <2>1, <2>6 DEF WalkInv, WalkIsExact
<1>3. CASE UseLookupResult
  <2>1. /\ UNCHANGED <<lookupVars, threadVars>> /\ UNCHANGED <<frameIndex, prevBasePointer, result>>
        /\ stage = "looked up" /\ at' = "frames"
        /\ topPCNoStackFrame' =
             (frameLookupResult = "Frameless" \/ (frameLookupResult = "Unknown" /\ top.afterSVC))
    BY <1>3 DEF UseLookupResult
  <2>2. /\ UNCHANGED <<stage, readFailed, frameLookupResult, stack, basePointer, pcOffset>>
    BY <2>1 DEF lookupVars, threadVars
  <2>3. frameLookupResult = IF readFailed THEN "Unknown" ELSE ResultForPC
    BY <1>1, <2>1 DEF TopInv, LookupFindsFunction
  <2>4. (frameLookupResult = "Frameless" \/ (frameLookupResult = "Unknown" /\ top.afterSVC)) <=> TopFunctionHasNoFrame
    BY <1>1, <2>3 DEF TopFunctionHasNoFrame
  <2>5. topPCNoStackFrame' \in BOOLEAN /\ (topPCNoStackFrame' <=> TopFunctionHasNoFrame')
    <3>1. TopFunctionHasNoFrame' <=> TopFunctionHasNoFrame
      BY <2>1, SameThread
    <3> QED
      BY <2>1, <2>4, <3>1
  <2>6. OfThread(stack, basePointer)' /\ basePointer \in Nat
    BY <1>1, <2>1, SameThread, StackTypes DEF TopInv
  <2>7. TopInv'
    <3>1. readFailed' => stage' = "looked up" /\ frameLookupResult' = "Unknown"
      BY <1>1, <2>2 DEF TopInv
    <3>2. basePointer' # 0 /\ prevBasePointer' # 0 /\ frameIndex' \in Nat
      BY <1>1, <2>1, <2>2
    <3> QED
      BY <2>1, <2>5, <2>6, <3>1, <3>2 DEF TopInv
  <2>8. StraightSoFar'
    <3>1. First(FALSE)' = First(FALSE)
      BY <2>1, SameStack
    <3>2. (basePointer \in Nat /\ prevBasePointer = basePointer /\ frameIndex = 0 /\ result = First(FALSE))'
      BY <1>1, <2>1, <2>2, <2>6, <3>1
    <3> QED
      BY <3>2, FirstFrame, PTL
  <2> QED
    BY <2>1, <2>7, <2>8 DEF WalkInv, WalkIsExact
<1> QED
  BY <1>2, <1>3

\* Steps that change nothing.
LEMMA WalkStands ==
  ASSUME WalkInv, UNCHANGED vars
  PROVE  WalkInv'
<1>1. /\ UNCHANGED <<lookupVars, threadVars>>
      /\ UNCHANGED <<at, topPCNoStackFrame, frameIndex, prevBasePointer, result>>
      /\ UNCHANGED <<stage, readFailed, frameLookupResult, basePointer, stack, pcOffset>>
  BY DEF vars, walkVars, lookupVars, threadVars
<1>2. TopInv'
  <2>1. First(FALSE)' = First(FALSE)
    BY <1>1, SameStack
  <2>2. (topPCNoStackFrame <=> TopFunctionHasNoFrame) => (topPCNoStackFrame <=> TopFunctionHasNoFrame)'
    BY <1>1, SameThread, Zenon
  <2> QED
    BY <1>1, <2>1, <2>2, SameThread DEF WalkInv, TopInv
<1>3. StraightSoFar => StraightSoFar'
  <2>1. \A path, n : Straight(path, n) => Straight(path, n)'
    BY <1>1 DEF Straight, Simple, First, Returns, instructionPointer, UsesLinkRegister
  <2> QED
    BY <2>1 DEF StraightSoFar
<1>4. InCircle => InCircle'
  BY <1>1, SameStack DEF InCircle
<1>5. WalkIsExact'
  <2>1. UNCHANGED <<Paths, instructionPointer>>
    BY <1>1, SameThread DEF instructionPointer
  <2>2. TopFunctionHasNoFrame' <=> TopFunctionHasNoFrame
    BY <1>1, SameThread
  <2>3. \A path : Chain(basePointer, path)' <=> Chain(basePointer, path)
    BY <1>1, SameThread
  <2> QED
    BY <1>1, <2>1, <2>2, <2>3 DEF WalkInv, WalkIsExact
<1> QED
  BY <1>1, <1>2, <1>3, <1>4, <1>5 DEF WalkInv

\* The invariant of the walk, with that of the lookup.
LEMMA WalkInvariance == Spec => []WalkInv
<1>1. Init => WalkInv
  BY DEF Init, LookupInit, WalkInv, TopInv, OfThread, WalkIsExact
<1>2. LookupInv /\ WalkInv /\ [Next]_vars => WalkInv'
  <2> SUFFICES ASSUME LookupInv, WalkInv, [Next]_vars PROVE WalkInv'
    OBVIOUS
  <2>1. InBounds /\ LookupFindsFunction
    BY DEF LookupInv
  <2> QED
    BY <2>1, WalkStackPreserves, LookupPartPreserves, NextFramePreserves, WalkStands
       DEF Next, Walk, Finished
<1> QED
  BY <1>1, <1>2, LookupInvariance, PTL DEF Spec
-----------------------------------------------------------------------------
\* A finished walk has the pc, the caller in the lr register if and only if the
\* top function has no frame, and the return address of every frame record of
\* the chain but the last, for stacks of every size and shape.
THEOREM WalkFollowsChain == Spec => []WalkIsExact
<1>1. WalkInv => WalkIsExact
  BY DEF WalkInv
<1> QED
  BY <1>1, WalkInvariance, PTL

\* There is memory for the addresses of every record in the stack, and for those
\* in the pc and lr registers.
RoomForAll == \A t \in ThreadStates : Cardinality(DOMAIN t.stack) + 2 <= MaxFrames

\* A chain without a repetition does not fill the memory.
LEMMA StraightHasRoom ==
  ASSUME InBounds, TopInv, at = "frames", RoomForAll, StraightSoFar,
         UsesLinkRegister \/ prevBasePointer \in DOMAIN stack
  PROVE  ~(Len(result) >= MaxFrames)
<1>1. PICK n \in Nat \ {0} : \E path \in [1 .. n -> Nat] : Straight(path, n)
  BY DEF StraightSoFar
<1>2. PICK path \in [1 .. n -> Nat] : Straight(path, n)
  BY <1>1
<1>3. Simple(path, n) /\ path[n] = prevBasePointer
  BY <1>2 DEF Straight
<1>4. PICK lr \in BOOLEAN : lr = (topPCNoStackFrame /\ frameIndex # 0)
  OBVIOUS
<1>5. result = First(lr) \o Returns(path, n)
  BY <1>2, <1>4 DEF Straight
<1>6. Len(result) \in Nat /\ Len(result) <= n + 1
  <2>1. /\ First(lr) \in Seq(Addresses) /\ Len(First(lr)) \in {1, 2}
        /\ Returns(path, n) \in Seq(Addresses) /\ Len(Returns(path, n)) = n - 1
    BY <1>3, ResultTypes
  <2>2. Len(result) = Len(First(lr)) + Len(Returns(path, n))
    <3> HIDE DEF Addresses
    <3> QED
      BY <1>5, <2>1, ConcatProperties
  <2>3. Len(First(lr)) + (n - 1) \in Nat /\ Len(First(lr)) + (n - 1) <= n + 1
    <3>1. ASSUME NEW k \in {1, 2} PROVE k + (n - 1) \in Nat /\ k + (n - 1) <= n + 1
      BY <3>1
    <3> QED
      BY <2>1, <3>1
  <2> QED
    BY <2>1, <2>2, <2>3
<1>7. /\ Cardinality(DOMAIN stack) \in Nat /\ MaxFrames \in Nat
      /\ Cardinality(DOMAIN stack) + 2 <= MaxFrames
  <2>1. Cardinality(DOMAIN stack) \in Nat
    BY StackTypes, FS_CardinalityType
  <2>2. Cardinality(DOMAIN stack) + 2 <= MaxFrames
    BY DEF TopInv, OfThread, RoomForAll
  <2> QED
    BY <2>1, <2>2, StackAssumption
<1>8. CASE UsesLinkRegister
  <2>1. n = 1 /\ lr = FALSE
    BY <1>2, <1>4, <1>8 DEF Straight, UsesLinkRegister
  <2>2. Len(result) = 1
    <3>1. Returns(path, 1) = <<>> /\ First(FALSE) \in Seq(Addresses) /\ Len(First(FALSE)) = 1
      <4>1. Returns(path, 1) = <<>>
        BY DEF Returns
      <4> QED
        BY <1>3, <2>1, <4>1, ResultTypes
    <3>2. result = First(FALSE)
      <4> HIDE DEF Addresses
      <4> QED
        BY <1>5, <2>1, <3>1, ConcatEmptySeq
    <3> QED
      BY <3>1, <3>2
  <2> QED
    BY <1>7, <2>2
<1>9. CASE prevBasePointer \in DOMAIN stack
  <2>1. ASSUME NEW i \in 1 .. n PROVE path[i] \in DOMAIN stack
    <3>1. CASE i = n
      BY <1>3, <1>9, <3>1
    <3>2. CASE i # n
      <4>1. i \in 1 .. n - 1
        BY <3>2
      <4> QED
        BY <1>3, <4>1 DEF Simple
    <3> QED
      BY <3>1, <3>2
  <2>2. \A i, j \in 1 .. n : path[i] = path[j] => i = j
    BY <1>3 DEF Simple
  <2>3. n <= Cardinality(DOMAIN stack)
    BY <2>1, <2>2, StackTypes, DistinctRecords
  <2> QED
    BY <1>6, <1>7, <2>3
<1> QED
  BY <1>8, <1>9

\* WalkStack throws only when the frame records lead in a circle, if there is
\* memory for the addresses of all of them: it does not look for circles, but a
\* sound stack, however deep, never makes it fail.
THEOREM SoundStackDoesNotThrow ==
  ASSUME RoomForAll
  PROVE  Spec => []ThrowsOnlyOnCycle
<1>1. Init => ThrowInv
  BY DEF Init, ThrowInv
<1>2. LookupInv /\ WalkInv /\ ThrowInv /\ [Next]_vars => ThrowInv'
  <2> SUFFICES ASSUME LookupInv, WalkInv, ThrowInv, [Next]_vars, at' = "threw"
               PROVE  \E C : Circle(C)'
    BY DEF ThrowInv
  <2>1. CASE NextFrame
    <3>1. InBounds /\ TopInv /\ at = "frames" /\ (StraightSoFar \/ InCircle)
      BY <2>1 DEF LookupInv, WalkInv, NextFrame
    <3>2. UNCHANGED <<lookupVars, threadVars>>
      BY <2>1, <3>1, FrameStep
    <3>3. Len(result) >= MaxFrames /\ (UsesLinkRegister \/ DerefPtr(prevBasePointer).bp # 0)
      BY <2>1, <3>1, FrameStep
    <3>4. UsesLinkRegister \/ prevBasePointer \in DOMAIN stack
      BY <3>3 DEF DerefPtr
    <3>5. InCircle
      BY <3>1, <3>3, <3>4, StraightHasRoom
    <3> QED
      BY <3>2, <3>5, SameStack DEF InCircle
  <2>2. CASE WalkStack \/ LookupStep \/ UseLookupResult
    BY <2>2 DEF WalkStack, LookupStep, UseLookupResult, walkVars
  <2>3. CASE Finished \/ UNCHANGED vars
    <3>1. UNCHANGED <<lookupVars, threadVars>> /\ at' = at
      BY <2>3 DEF Finished, vars, walkVars
    <3> QED
      BY <3>1, SameStack DEF ThrowInv
  <2> QED
    BY <2>1, <2>2, <2>3 DEF Next, Walk
<1>3. ThrowInv => ThrowsOnlyOnCycle
  BY CircleIsCyclic DEF ThrowInv, ThrowsOnlyOnCycle
<1> QED
  BY <1>1, <1>2, <1>3, LookupInvariance, WalkInvariance, PTL DEF Spec
=============================================================================
