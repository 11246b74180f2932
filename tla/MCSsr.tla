------------------------------- MODULE MCSsr -------------------------------
(***************************************************************************)
(* Instances of SsrRecovery.                                               *)
(***************************************************************************)
EXTENDS SsrRecovery

OneBinary == [m \in Models |-> "x.bin"]

=============================================================================
