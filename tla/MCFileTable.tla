---------------------------- MODULE MCFileTable ----------------------------
(***************************************************************************)
(* FileTable with its tasks, open files and pipes interchangeable.         *)
(***************************************************************************)
EXTENDS FileTable, TLC

Symmetry == Permutations(Tasks) \cup Permutations(Objs) \cup Permutations(Pipes)

=============================================================================
