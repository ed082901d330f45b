-------------------------- MODULE MCSanitizerLaunch --------------------------
(* A bounded instance of SanitizerLaunch: two devices and two sizes.         *)
EXTENDS SanitizerLaunch

MCSize == {2, 3}
=============================================================================
