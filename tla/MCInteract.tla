----------------------------- MODULE MCInteract -----------------------------
(* Bounded instances of Simulator, and so of Interact and Devices: two        *)
(* threads share device d1, a third has device d2 to itself; under the        *)
(* profiler and the simulator all of them share one connection.               *)
EXTENDS Simulator, TLC

CONSTANTS t1, t2, t3, d1, d2, d3

cThread == {t1, t2, t3}
cDeviceOf == t1 :> d1 @@ t2 :> d1 @@ t3 :> d2
cTools == {"sanitizer", "profiler", "simulator"}
cKind == {"IPC_RECORD", "KERNEL_RECORD", "DATA_PATH", "COLLECT_START", "PROF_FINISH"}
cNoKinds == t1 :> {} @@ t2 :> {} @@ t3 :> {}
cKindsOf ==
    "sanitizer" :> (t1 :> {"IPC_RECORD"} @@ t2 :> {"KERNEL_RECORD"} @@ t3 :> {"IPC_RECORD"})
    @@ "profiler" :> (t1 :> {"DATA_PATH"} @@ t2 :> {"DATA_PATH"} @@ t3 :> {"DATA_PATH", "COLLECT_START"})
    @@ "simulator" :> cNoKinds
cMaxRequest ==
    "sanitizer" :> (t1 :> 2 @@ t2 :> 1 @@ t3 :> 0)
    @@ "profiler" :> (t1 :> 0 @@ t2 :> 1 @@ t3 :> 2)
    @@ "simulator" :> (t1 :> 6 @@ t2 :> 6 @@ t3 :> 0)
cSwitches ==
    "sanitizer" :> (t1 :> 1 @@ t2 :> 0 @@ t3 :> 0)
    @@ "profiler" :> (t1 :> 1 @@ t2 :> 0 @@ t3 :> 0)
    @@ "simulator" :> (t1 :> 0 @@ t2 :> 0 @@ t3 :> 0)
=============================================================================
