------------------------- MODULE MCDeviceLifecycle --------------------------
(* A small instance of DeviceLifecycle for TLC: its constant is in the cfg. *)
EXTENDS DeviceLifecycle
=============================================================================
