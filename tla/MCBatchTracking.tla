-------------------------- MODULE MCBatchTracking --------------------------
(* Instances of BatchTracking for TLC. *)
EXTENDS BatchTracking, TLC

DeviceSymmetry == Permutations(Devices)
=============================================================================
