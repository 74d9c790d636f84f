----------------------------- MODULE MCCoreFile -----------------------------
(***************************************************************************)
(* Instances of CoreFile with the sizes of the arm64 build.                *)
(***************************************************************************)
EXTENDS CoreFile
=============================================================================
