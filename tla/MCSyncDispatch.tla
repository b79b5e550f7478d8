--------------------------- MODULE MCSyncDispatch ---------------------------
(* Instances of SyncDispatch for TLC: the worker loops are interchangeable  *)
(* wherever no liveness is checked.                                         *)
EXTENDS SyncDispatch, TLC

Interchangeable == Permutations(Workers)

=============================================================================
