---------------------------- MODULE MCDeviceLife ----------------------------
(* Each driver with two programs, loaded twice, where anything may fail.   *)
EXTENDS DeviceLife

MCAny == Resources \ {"counter"}
=============================================================================
