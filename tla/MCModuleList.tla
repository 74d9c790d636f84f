---------------------------- MODULE MCModuleList ----------------------------
(***************************************************************************)
(* A small address space in pages of four bytes: nothing at 0, the code of *)
(* the main executable and right behind it that of a library, their data,  *)
(* a page with strings, one behind it that differs from map to map, one    *)
(* that only the zone may use, a submap of two pages, with dyld in the one *)
(* and nothing in the other, and room for a plug-in.                       *)
(***************************************************************************)
EXTENDS ModuleList

Region(base, size, prot, tag) == [base |-> base, size |-> size, prot |-> prot, tag |-> tag]

Common == {Region(4, 4, {"read", "exec"}, "other"), Region(8, 4, {"read", "exec"}, "other"),
           Region(12, 4, {"read"}, "other"), Region(28, 8, {"read"}, "submap")}

MCNested == {Region(28, 4, {"read", "exec"}, "other")}

\* The page behind the strings: part of their region, another one, a stack, its
\* guard page, or not mapped.
MCMaps ==
  {Common \cup {Region(16, 8, {"read"}, "malloc")}}
  \cup {Common \cup {Region(16, 4, {"read"}, "malloc"), Region(20, 4, p, "stack")} : p \in {{}, {"read"}}}
  \cup {Common \cup {Region(16, 4, {"read"}, "malloc")}}

MCZeroBytes == {{17, 21}, {19, 31}}

MCLoadAddress == [main |-> 4, lib |-> 8, plugin |-> 36, dyld |-> 28]

Segment(name, vmaddr, size) == [name |-> name, vmaddr |-> vmaddr, size |-> size]

MCCommands ==
  [main   |-> <<Segment("__PAGEZERO", 0, 4), Segment("__TEXT", 40, 4), Segment("__DATA", 48, 2)>>,
   lib    |-> <<Segment("__TEXT", 0, 4), Segment("__LINKEDIT", 6, 2)>>,
   plugin |-> <<Segment("__TEXT", 0, 4)>>,
   dyld   |-> <<Segment("__TEXT", 0, 3), Segment("__DATA", 3, 1)>>]

\* Paths that end in their page or, depending on the zero bytes, run on into the
\* next one, which an image fails with if that is not there; dyld's begins in it.
MCPaths == {[main |-> 18, lib |-> 17, plugin |-> 16, dyld |-> 20]}
=============================================================================
