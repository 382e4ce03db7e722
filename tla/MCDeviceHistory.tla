-------------------------- MODULE MCDeviceHistory --------------------------
(* Instances of DeviceHistory: rings and a window that a few polls wrap     *)
(* around and outlast.                                                      *)
EXTENDS DeviceHistory

=============================================================================
