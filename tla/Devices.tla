------------------------------ MODULE Devices ------------------------------
(***************************************************************************)
(* The device each thread of the application works on, and what the tool   *)
(* keeps of it: ThreadContext, one per thread, and DeviceContext, one per  *)
(* device, written by the hooks of the functions that change the device    *)
(* (src/csrc/runtime and src/csrc/acl_rt_impl).  Under the simulator there *)
(* is one device, whatever the application asks for.                       *)
(***************************************************************************)
EXTENDS Naturals, FiniteSets

CONSTANTS Tools,      \* the tools the application may run under
          Thread,     \* threads of the application
          Device,     \* devices
          Home,       \* device 0: of the simulator, and of a context never written
          DeviceOf,   \* the device each thread has at first
          NoDevice,   \* of a thread without a context
          Switches    \* bound on the device calls of each thread, by tool

ASSUME ToolAssumption == Tools \subseteq {"sanitizer", "profiler", "simulator"}
ASSUME DeviceAssumption ==
    /\ DeviceOf \in [Thread -> Device] /\ Home \in Device /\ NoDevice \notin Device
    /\ Switches \in [Tools -> [Thread -> Nat]]

VARIABLES
    tool,          \* what the application runs under
    driver,        \* the device of each thread's current context
    threadDevice,  \* ThreadContext::deviceId_
    devId,         \* DeviceContext::devId_ of each device
    used,          \* usedDevIds: the devices some call to set them was hooked for
    misplaced,     \* the threads that used a call which may misplace the number
    switched       \* the device calls of each thread so far

deviceVars == <<driver, threadDevice, devId, used, misplaced, switched>>

Profiled == tool \in {"profiler", "simulator"}
Simulated == tool = "simulator"

\* The device the driver is called with.
Passed(d) == IF Simulated THEN Home ELSE d

\* Every thread has used rtSetDevice for its device, and GetDeviceId since.
DevicesInit ==
    /\ tool \in Tools
    /\ driver = [t \in Thread |-> Passed(DeviceOf[t])]
    /\ threadDevice = DeviceOf
    /\ devId = [d \in Device |-> IF \E t \in Thread : DeviceOf[t] = d THEN d ELSE Home]
    /\ used = IF tool = "sanitizer" THEN {DeviceOf[t] : t \in Thread} ELSE {}
    /\ misplaced = {}
    /\ switched = [t \in Thread |-> 0]

-----------------------------------------------------------------------------
(* ThreadContext and DeviceContext.                                         *)

\* GetDeviceId asks the driver, and answers as before where that fails.
Answered(where, stored) == IF where # NoDevice THEN where ELSE stored

\* The device whose contexts and connection a thread uses.
Local(t) == Answered(driver[t], threadDevice[t])

\* The key of the LaunchManager a thread uses.
ManagerOf(t) == devId[Local(t)]

-----------------------------------------------------------------------------
(* The hooks.  pre: ThreadContext is told before the call; writes: "own",  *)
(* the context of the new device is written after the call; "old", that of *)
(* the device before it, "local", that of the device after it.  checks: a  *)
(* failed call writes nothing; reports: the sanitizer tells the tool.      *)

rtSetDevice_old ==
    [pre |-> FALSE, writes |-> "old", checks |-> FALSE, reports |-> TRUE]
rtSetDevice ==
    [pre |-> FALSE, writes |-> "own", checks |-> FALSE, reports |-> TRUE]
rtSetDeviceV2 ==
    [pre |-> TRUE, writes |-> "old", checks |-> FALSE, reports |-> FALSE]
rtSetDeviceEx == rtSetDeviceV2
rtCtxCreate ==
    [pre |-> FALSE, writes |-> "old", checks |-> FALSE, reports |-> FALSE]
rtCtxCreateV2 == rtCtxCreate
rtCtxCreateEx == rtCtxCreate
aclrtSetDeviceImpl ==
    [pre |-> FALSE, writes |-> "own", checks |-> TRUE, reports |-> TRUE]
aclrtCreateContextImpl ==
    [pre |-> FALSE, writes |-> "local", checks |-> FALSE, reports |-> FALSE]

EarlyHook == {rtSetDeviceV2, rtSetDeviceEx, rtCtxCreate, rtCtxCreateV2, rtCtxCreateEx}
SetHook == EarlyHook \cup {rtSetDevice, aclrtSetDeviceImpl, aclrtCreateContextImpl}

\* The profiler binds every hook; the sanitizer two, and only for the first call
\* with a device's number (IsDevIdUsed), whether that call passes or not.
ProfilerBinds == SetHook
SanitizerBinds == {rtSetDevice, aclrtSetDeviceImpl}
Bound == IF Profiled THEN ProfilerBinds ELSE SanitizerBinds
IsDevIdUsed(d) == ~Profiled /\ d \in used
Hooked(h, d) == h \in Bound /\ ~IsDevIdUsed(d)

\* The device's number may be written into the context of another device, or
\* be written nowhere.
Misplaces(h, d, ok) ==
    \/ Profiled /\ (h \in EarlyHook \/ (h = aclrtCreateContextImpl /\ ~ok))
    \/ ~Profiled /\ devId[d] # d /\ (~Hooked(h, d) \/ (h.checks /\ ~ok))

Posts(h, ok) == ok \/ ~h.checks

\* Thread t asks for device d through h; a context that is made is also the
\* thread's current one.
HookedSwitch(t, h, d, ok) ==
    LET stored == IF h.pre THEN d ELSE threadDevice[t]
        now == IF ok THEN Passed(d) ELSE driver[t]
        told == CASE h.writes = "own" -> IF Posts(h, ok) THEN d ELSE stored
                  [] h.writes = "old" -> Answered(driver[t], stored)
                  [] h.writes = "local" -> Answered(now, stored)
    IN  /\ Hooked(h, d)
        /\ used' = IF Profiled THEN used ELSE used \cup {d}
        /\ threadDevice' = [threadDevice EXCEPT ![t] = told]
        /\ devId' = IF Posts(h, ok)
                    THEN [devId EXCEPT ![told] = IF h.writes = "local" THEN Passed(d) ELSE d]
                    ELSE devId

\* A call that is not hooked, or whose device is used: OriginCall.
OriginSwitch(h, d) == ~Hooked(h, d) /\ UNCHANGED <<threadDevice, devId, used>>

Switch(t, h, d, ok) ==
    /\ switched[t] < Switches[tool][t]
    /\ switched' = [switched EXCEPT ![t] = @ + 1]
    /\ driver' = IF ok THEN [driver EXCEPT ![t] = Passed(d)] ELSE driver
    /\ misplaced' = IF Misplaces(h, d, ok) THEN misplaced \cup {t} ELSE misplaced
    /\ HookedSwitch(t, h, d, ok) \/ OriginSwitch(h, d)

\* Device d is reset: the contexts of the device are gone, in all threads.
Reset(t, d, ok) ==
    /\ switched[t] < Switches[tool][t]
    /\ switched' = [switched EXCEPT ![t] = @ + 1]
    /\ driver' = [u \in Thread |-> IF ok /\ driver[u] = Passed(d) THEN NoDevice ELSE driver[u]]
    /\ UNCHANGED <<threadDevice, devId, used, misplaced>>

rtDeviceReset(t, d, ok) == Reset(t, d, ok)
rtDeviceResetEx(t, d, ok) == Reset(t, d, ok)
aclrtResetDeviceImpl(t, d, ok) == Reset(t, d, ok)

\* The sanitizer tells the tool of a device after a call that passed; it does
\* not bind rtDeviceResetEx.
ResetReports(ok) == ok
SetReports(h, d, ok) == Hooked(h, d) /\ h.reports /\ Posts(h, ok)

-----------------------------------------------------------------------------
\* Threads of different devices use different LaunchManagers, also after failed
\* calls and resets, as long as nobody used a call that writes the new device's
\* number into the context of the old one, or leaves it unwritten
\* (LaunchManager.cpp:32 takes the number kept in the context, not the key of
\* the context).
IdsApart ==
    misplaced = {} => \A t, u \in Thread :
        driver[t] # NoDevice /\ driver[u] # NoDevice /\ driver[t] # driver[u]
            => ManagerOf(t) # ManagerOf(u)
=============================================================================
