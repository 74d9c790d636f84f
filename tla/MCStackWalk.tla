---------------------------- MODULE MCStackWalk ----------------------------
(***************************************************************************)
(* StackWalk on the unwind infos a linker makes of up to three functions,  *)
(* distributed over pages of both kinds, and on sound and damaged stacks.  *)
(***************************************************************************)
EXTENDS StackWalk, TLC

Starts == {<<1>>} \cup {<<1, s>> : s \in {1, 2, 4}}
          \cup {<<1, s, r>> : s, r \in {1, 2, 4}}

SortedStarts == {s \in Starts : \A i, j \in DOMAIN s : i <= j => s[i] <= s[j]}

CodeEnd == 5

\* The modes take turns, beginning with the one at position first.
FunctionsFrom(starts, first) ==
  [i \in DOMAIN starts |->
     [start |-> starts[i],
      mode |-> <<"frame", "frameless", "dwarf">>[((i + first) % 3) + 1]]]

\* Encodings of compressed entries: 0 and 1 are common, 2 is the page's own.
CompressedIndex(mode) ==
  CASE mode = "frame" -> 0 [] mode = "frameless" -> 2 [] mode = "dwarf" -> 1

\* The functions from position i to position j as a page of the given kind.
PageOf(functions, i, j, kind) ==
  [kind |-> kind,
   encodings |-> <<"frameless">>,
   entries |-> [k \in 1 .. j - i + 1 |->
     LET f == functions[i + k - 1]
     IN  IF kind = "compressed"
         THEN [functionOffset |-> f.start - functions[i].start,
               encoding |-> CompressedIndex(f.mode)]
         ELSE [functionOffset |-> f.start, encoding |-> f.mode]]]

\* The first split functions are in the first page, the others in a second one.
InfoOf(functions, split, kinds) ==
  LET n == Len(functions)
      sentinel == [functionOffset |-> CodeEnd, page |-> 0]
      first == [functionOffset |-> functions[1].start, page |-> 1]
  IN  [functions |-> functions, end |-> CodeEnd, common |-> <<"frame", "dwarf">>,
       index |-> IF split = n THEN <<first, sentinel>>
                 ELSE <<first, [functionOffset |-> functions[split + 1].start, page |-> 2],
                        sentinel>>,
       pages |-> IF split = n THEN <<PageOf(functions, 1, n, kinds[1])>>
                 ELSE <<PageOf(functions, 1, split, kinds[1]),
                        PageOf(functions, split + 1, n, kinds[2])>>]

\* One page of a kind the library does not know; one page that begins with
\* padding in front of its only function.
OddInfos ==
  LET info == InfoOf(FunctionsFrom(<<1>>, 1), 1, <<"regular", "regular">>)
  IN  {[info EXCEPT !.pages[1].kind = "other", !.functions = <<>>],
       [info EXCEPT !.pages[1].entries[1].functionOffset = 3, !.functions[1].start = 3]}

MCUnwindInfos ==
  UNION {{InfoOf(FunctionsFrom(s, first), split, kinds) :
            first \in 0 .. 1, split \in 1 .. Len(s),
            kinds \in {"regular", "compressed"} \X {"regular", "compressed"}}
         : s \in SortedStarts}
  \cup OddInfos

MCPac == 1024

Record(bp, ip) == [bp |-> bp, ip |-> ip]

\* Sound stacks: chains of one to three records.  Damaged ones: cut off by an unreadable
\* record, a return address that cannot be read, and circles.
MCStacks ==
  {1 :> Record(0, 0),
   1 :> Record(2, MCPac + 51) @@ 2 :> Record(0, 0),
   1 :> Record(2, MCPac + 51) @@ 2 :> Record(3, MCPac + 52) @@ 3 :> Record(0, 60),
   1 :> Record(2, MCPac + 51) @@ 2 :> Record(9, MCPac + 52),
   1 :> Record(2, 0) @@ 2 :> Record(0, 0),
   1 :> Record(1, MCPac + 51),
   1 :> Record(2, MCPac + 51) @@ 2 :> Record(1, 52)}

\* The frame pointer is at the first record, or 0, or points to nowhere.
MCThreadStates ==
  [stack : MCStacks, basePointer : {1}]
  \cup [stack : {1 :> Record(0, 0)}, basePointer : {0, 9}]

\* No abort; an abort in code, outside code, and outside code after a call.
MCTops ==
  {[abort |-> a[1], executable |-> a[2], afterBL |-> a[3], afterSVC |-> svc] :
     svc \in BOOLEAN,
     a \in {<<FALSE, TRUE, TRUE>>, <<TRUE, TRUE, TRUE>>, <<TRUE, FALSE, FALSE>>,
            <<TRUE, FALSE, TRUE>>}}
=============================================================================
