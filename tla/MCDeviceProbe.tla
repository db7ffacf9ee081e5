--------------------------- MODULE MCDeviceProbe ---------------------------
(* Instances of DeviceProbe for TLC. *)
EXTENDS DeviceProbe, TLC

Interchangeable == Permutations(Devices)
=============================================================================
