--------------------------- MODULE MCSharedMemory ---------------------------
(***************************************************************************)
(* Two threads, two contexts and three addresses.                          *)
(***************************************************************************)
EXTENDS SharedMemory, TLC

Symmetry == Permutations(Threads) \cup Permutations(Contexts)
=============================================================================
