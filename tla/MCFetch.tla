------------------------------ MODULE MCFetch ------------------------------
(***************************************************************************)
(* Fetch on small instances.  The processes, the files and None are model  *)
(* values; processes are interchangeable, and so are files.                *)
(***************************************************************************)
EXTENDS FetchRefines, TLC

Symmetry == Permutations(Procs) \cup Permutations(Inodes)

=============================================================================
