-------------------------- MODULE MCDeviceRegistry --------------------------
(* Instances of DeviceRegistry for TLC. *)
EXTENDS DeviceRegistry

CONSTANT d1

\* An empty list, one that names its device once, and one that names it twice.
UpToTwice == {<<>>, <<d1>>, <<d1, d1>>}
=============================================================================
