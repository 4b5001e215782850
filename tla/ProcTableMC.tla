---------------------------- MODULE ProcTableMC ----------------------------
(* ProcTable for TLC.                                                      *)
EXTENDS ProcTable, TLC

\* The CPUs, and the slots other than init's, are interchangeable.
Symmetry == Permutations(CPU) \cup Permutations(Proc \ {InitProc})
=============================================================================
