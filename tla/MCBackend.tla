------------------------------ MODULE MCBackend ------------------------------
(***************************************************************************)
(* Instances of BackendManager: two context binaries, each with one        *)
(* EPContext node, and two SoCs.  A file's path is itself a key of the     *)
(* table, as GetContextBinMap lists it among the names of its nodes.       *)
(***************************************************************************)
EXTENDS BackendManager

TwoFiles == {"f1", "f2"}

NodesOfTwo == [f \in TwoFiles |-> IF f = "f1" THEN {"f1", "n1"} ELSE {"f2", "n2"}]
=============================================================================
