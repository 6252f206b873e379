---------------------------- MODULE MCProcTable ----------------------------
(***************************************************************************)
(* ProcTable for TLC.  Page directories are interchangeable: no definition *)
(* compares them otherwise than for equality.                              *)
(***************************************************************************)
EXTENDS ProcTable, TLC

PgDirSymmetry == Permutations(PgDirs)
=============================================================================
