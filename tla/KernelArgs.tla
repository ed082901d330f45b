---------------------------- MODULE KernelArgs ----------------------------
(***************************************************************************)
(* The arguments of an acl launch.  ArgsManager keeps, at the address of   *)
(* an argument handle or of raw arguments, what the application put there  *)
(* (ArgsHandleContext, ArgsRawContext); an instrumented launch passes them *)
(* with the pointer of the tool's buffer added (ExpandArgs) and tells the  *)
(* conversion of the kernel where that pointer is (DBITaskConfig's         *)
(* argsSize_; 0 leaves it to the conversion).                              *)
(*                                                                         *)
(* A position counts units of four bytes: a pointer takes two.  A handle's *)
(* parameters are pointers.  One thread, whose calls on the arguments do   *)
(* not overlap.  All arguments together, and a placeholder's data, fit in  *)
(* MAX_ALL_PARAM_SIZE, and the library replays a handle without failure.   *)
(***************************************************************************)
EXTENDS Integers, Sequences, SequencesExt, FiniteSetsExt, Functions

CONSTANTS Kernel,
          Interface,   \* of each kernel: "handle", "host" or "device"
          Layout,      \* of raw arguments: their size, and the placeholders
          Overflow,    \* a slot for the overflow status follows the pointers
          Address, Value,
          Oversized,   \* parameters larger than MAX_SINGLE_PARAM_SIZE
          Stubs,       \* which task runs on which interface
          MayFail,
          Params, Launches, Updates,  \* bounds
          None

Align == 2
Pointer == 2
ASSUME LayoutAssumption ==
    \A k \in Kernel : \A i \in DOMAIN Layout[k].holders :
        LET h == Layout[k].holders[i]
        IN  /\ h.data < Layout[k].size
            /\ \A j \in DOMAIN Layout[k].holders :
                  Layout[k].holders[j].addr + Pointer + (IF Overflow THEN Pointer ELSE 0) <= h.data

-----------------------------------------------------------------------------
VARIABLES tool,       \* "prof" or "sanitizer"
          given,      \* library: the handles the application fills
          contexts,   \* ArgsManager::contexts_
          argsSize,   \* DBITaskConfig::argsSize_
          converted,  \* the offset each copy was made for
          call, nr

vars == <<tool, given, contexts, argsSize, converted, call, nr>>

Idle == [pc |-> "idle", addr |-> None, kernel |-> None, todo |-> <<>>, runs |-> None]

Init ==
    /\ tool \in {"prof", "sanitizer"}
    /\ given = [a \in Address |-> None] /\ contexts = [a \in Address |-> None]
    /\ argsSize = 0 /\ converted = <<>>
    /\ call = Idle /\ nr = [launches |-> 0, updates |-> 0]

May(what) == {TRUE} \cup IF what \in MayFail THEN {FALSE} ELSE {}

-----------------------------------------------------------------------------
(* Filling a handle: what the library does, and what Post caches of it.    *)

Param(id, kind, v) == [id |-> id, kind |-> kind, val |-> v, src |-> FALSE]
Ready == call.pc = "idle"
Fillable(a) == Ready /\ given[a] # None /\ ~given[a].final
Cached(a) == contexts[a] # None /\ contexts[a].type = "handle"

\* aclrtKernelArgsInit and ...InitByUserMem.
KernelArgsInit(a, k) ==
    /\ Ready /\ Interface[k] = "handle"
    /\ given' = [given EXCEPT ![a] =
                    [kernel |-> k, params |-> <<>>, final |-> FALSE, large |-> FALSE]]
    /\ contexts' = [contexts EXCEPT ![a] = [type |-> "handle", params |-> <<>>]]
    /\ UNCHANGED <<tool, argsSize, converted, call, nr>>

\* The handle is given a parameter too large to be cached.
Larger(g, v) == [g EXCEPT !.large = @ \/ v \in Oversized]
Appended(a, p) == [contexts EXCEPT ![a].params = Append(@, p)]

KernelArgsAppend(a, v) ==
    /\ Fillable(a) /\ Len(given[a].params) < Params
    /\ LET p == Param(Len(given[a].params) + 1, "NORMAL", v)
       IN  /\ given' = [given EXCEPT ![a] = Larger([@ EXCEPT !.params = Append(@, p)], v)]
           /\ contexts' = IF Cached(a) /\ v \notin Oversized THEN Appended(a, p) ELSE contexts
    /\ UNCHANGED <<tool, argsSize, converted, call, nr>>

KernelArgsAppendPlaceHolder(a) ==
    /\ Fillable(a) /\ Len(given[a].params) < Params
    /\ LET p == Param(Len(given[a].params) + 1, "PLACEHOLDER", None)
       IN  /\ given' = [given EXCEPT ![a].params = Append(@, p)]
           /\ contexts' = IF Cached(a) THEN Appended(a, p) ELSE contexts
    /\ UNCHANGED <<tool, argsSize, converted, call, nr>>

\* The first parameter with this handle.
Found(a, i) == {j \in DOMAIN contexts[a].params : contexts[a].params[j].id = i}
CachedParam(a, i, p) ==
    IF Cached(a) /\ Found(a, i) # {}
    THEN [contexts EXCEPT ![a].params[Min(Found(a, i))] = p] ELSE contexts

KernelArgsGetPlaceHolderBuffer(a, i) ==
    /\ Fillable(a) /\ i \in DOMAIN given[a].params
    /\ given[a].params[i].kind = "PLACEHOLDER" /\ ~given[a].params[i].src
    /\ given' = [given EXCEPT ![a].params[i].src = TRUE]
    /\ contexts' = CachedParam(a, i, [given[a].params[i] EXCEPT !.src = TRUE, !.val = None])
    /\ UNCHANGED <<tool, argsSize, converted, call, nr>>

\* The application writes into the buffer it got; no hook.
FillBuffer(a, i, v) ==
    /\ Fillable(a) /\ i \in DOMAIN given[a].params
    /\ given[a].params[i].src /\ given[a].params[i].val # v /\ v \notin Oversized
    /\ given' = [given EXCEPT ![a].params[i].val = v]
    /\ UNCHANGED <<tool, contexts, argsSize, converted, call, nr>>

\* A parameter may be changed between two launches.
KernelArgsParaUpdate(a, i, v) ==
    /\ Ready /\ given[a] # None /\ i \in DOMAIN given[a].params /\ nr.updates < Updates
    /\ given[a].params[i].kind = "NORMAL" /\ given[a].params[i].val # v
    /\ given' = [given EXCEPT ![a] = Larger([@ EXCEPT !.params[i].val = v], v)]
    /\ contexts' = IF v \in Oversized THEN contexts
                   ELSE CachedParam(a, i, [given[a].params[i] EXCEPT !.val = v])
    /\ nr' = [nr EXCEPT !.updates = @ + 1]
    /\ UNCHANGED <<tool, argsSize, converted, call>>

\* Finalize copies the buffers.
Finalized(a) ==
    [j \in DOMAIN contexts[a].params |->
        LET p == contexts[a].params[j]
        IN  IF p.kind = "PLACEHOLDER" /\ p.src
            THEN [p EXCEPT !.val = given[a].params[p.id].val] ELSE p]

KernelArgsFinalize(a) ==
    /\ Fillable(a) /\ \A i \in DOMAIN given[a].params : given[a].params[i].val # None
    /\ given' = [given EXCEPT ![a].final = TRUE]
    /\ contexts' = IF Cached(a) THEN [contexts EXCEPT ![a].params = Finalized(a)] ELSE contexts
    /\ UNCHANGED <<tool, argsSize, converted, call, nr>>

-----------------------------------------------------------------------------
(* Expanding.  Raw arguments are words, with pointers the library fills in *)
(* at addr to the data that is at data.                                    *)

Word(k, i) == <<"word", k, i>>
Padding == <<"padding">>
Buffer(b) == <<"buffer", b>>
RawArgs(k) == [type |-> "raw", words |-> [i \in 1 .. Layout[k].size |-> Word(k, i)],
               holders |-> Layout[k].holders]

CeilByAlignSize(n) == ((n + Align - 1) \div Align) * Align
Aligned(words) == words \o [i \in 1 .. CeilByAlignSize(Len(words)) - Len(words) |-> Padding]
LastAddr(holders) == Max({holders[i].addr : i \in DOMAIN holders})

AfterHolders(holders) == LastAddr(holders) + Pointer + (IF Overflow THEN Pointer ELSE 0)

\* The offset to come, told before the arguments are expanded.
GetLastParamOffset_exact(ctx) ==
    IF ctx.type = "handle" THEN 0
    ELSE IF ctx.holders = <<>> THEN Len(ctx.words) ELSE AfterHolders(ctx.holders)
GetLastParamOffset(ctx) ==
    IF ctx.type = "handle" THEN 0
    ELSE IF ctx.holders = <<>> THEN CeilByAlignSize(Len(ctx.words)) ELSE AfterHolders(ctx.holders)

Inserted(words, pos, b) ==
    SubSeq(words, 1, pos) \o <<Buffer(b), Buffer(b)>> \o SubSeq(words, pos + 1, Len(words))

\* ExpandArgs: after the placeholders' pointers, or at the end.  A handle's
\* buffer is one more parameter, and its position is not written back.
ParamOffset(ctx) ==
    IF ctx.holders = <<>> THEN Len(Aligned(ctx.words)) ELSE AfterHolders(ctx.holders)
Expanded(ctx, b) ==
    IF ctx.type = "handle"
    THEN [ctx EXCEPT !.params = Append(@, Param(None, "NORMAL", Buffer(b)))]
    ELSE [ctx EXCEPT !.words = Inserted(Aligned(ctx.words), ParamOffset(ctx), b),
                     !.holders = [i \in DOMAIN @ |-> [@[i] EXCEPT !.data = @ + Pointer]]]
OffsetOf(ctx, before) == IF ctx.type = "handle" THEN before ELSE ParamOffset(ctx)

-----------------------------------------------------------------------------
(* What a kernel sees of its arguments.                                    *)

Pair(v) == <<v, v>>
HandleWords(params) == FlattenSeq([i \in DOMAIN params |-> Pair(params[i].val)])
\* The library writes each placeholder's pointer.
Patched(words, holders) ==
    [i \in DOMAIN words |->
        IF \E h \in Range(holders) : i \in h.addr + 1 .. h.addr + Pointer
        THEN <<"to", words[(CHOOSE h \in Range(holders) :
                               i \in h.addr + 1 .. h.addr + Pointer).data + 1]>>
        ELSE words[i]]
\* GenerateArgsHandle replays the parameters.
Seen(ctx) == IF ctx.type = "handle" THEN HandleWords(ctx.params) ELSE Patched(ctx.words, ctx.holders)

-----------------------------------------------------------------------------
(* Launching.                                                              *)

Tasks == IF tool = "sanitizer" THEN {"SANITIZER"} ELSE {"CUSTOMIZE", "BB_COUNT"}
Todo(k) == SelectSeq(<<"CUSTOMIZE", "BB_COUNT", "SANITIZER">>,
                     LAMBDA type : type \in Tasks /\ <<Interface[k], type>> \in Stubs)

\* A handle's context is the one that was filled; raw arguments get a new one.
Launch(k, a) ==
    /\ Ready /\ nr.launches < Launches
    /\ IF Interface[k] = "handle"
       THEN given[a] # None /\ given[a].final /\ given[a].kernel = k /\ UNCHANGED <<given, contexts>>
       ELSE /\ given' = [given EXCEPT ![a] = None]
            /\ contexts' = [contexts EXCEPT ![a] = RawArgs(k)]
    /\ call' = [Idle EXCEPT !.pc = "task", !.addr = a, !.kernel = k, !.todo = Todo(k)]
    /\ nr' = [nr EXCEPT !.launches = @ + 1]
    /\ UNCHANGED <<tool, argsSize, converted>>

TaskKey(type) == [kernel |-> call.kernel, type |-> type]
\* The offset the conversion is told: blocks are counted before the
\* arguments are expanded, with the offset that is to come.
Told(type, ctx) ==
    IF type = "BB_COUNT" THEN GetLastParamOffset(ctx) ELSE OffsetOf(ctx, argsSize)

\* Profiling expands a clone, the sanitizer the context of the launch.
Replaced_inPlace(type, ctx) == [contexts EXCEPT ![call.addr] = ctx]
Replaced(type, ctx) ==
    IF type = "SANITIZER" THEN [contexts EXCEPT ![call.addr] = ctx] ELSE contexts

Stubbed(args, offset) == [args |-> args, offset |-> offset]
RunTask ==
    LET type == Head(call.todo)
        ctx == contexts[call.addr]
        expanded == Expanded(ctx, nr.launches)
        told == Told(type, ctx)
        key == TaskKey(type)
    IN  /\ call.pc = "task" /\ call.todo # <<>>
        /\ \E made \in IF key \in DOMAIN converted THEN {TRUE} ELSE May("Convert") :
              /\ converted' = IF made THEN converted @@ (key :> told) ELSE converted
              /\ call' = [call EXCEPT !.pc = "ran",
                                      !.runs = IF made THEN Stubbed(Seen(expanded), converted'[key])
                                               ELSE None]
        /\ contexts' = Replaced(type, expanded)
        /\ argsSize' = OffsetOf(ctx, told)
        /\ UNCHANGED <<tool, given, nr>>

\* No memory for the buffer: nothing is replaced, but a counted kernel has
\* been replaced by then.
NoMemory ==
    /\ call.pc = "task" /\ call.todo # <<>>
    /\ IF Head(call.todo) = "BB_COUNT"
       THEN LET told == Told("BB_COUNT", contexts[call.addr])
            IN  /\ "CountMemory" \in MayFail
                /\ converted' = converted @@ (TaskKey("BB_COUNT") :> told)
                /\ argsSize' = told
                /\ call' = [call EXCEPT !.pc = "ran",
                               !.runs = Stubbed(Seen(contexts[call.addr]),
                                                converted'[TaskKey("BB_COUNT")])]
       ELSE /\ "Memory" \in MayFail
            /\ call' = [call EXCEPT !.pc = "ran"]
            /\ UNCHANGED <<argsSize, converted>>
    /\ UNCHANGED <<tool, given, contexts, nr>>

\* The copy has run: the next task, or the end of the launch.
Ran ==
    /\ call.pc = "ran" \/ (call.pc = "task" /\ call.todo = <<>>)
    /\ call' = IF Len(call.todo) > 1
               THEN [call EXCEPT !.pc = "task", !.todo = Tail(@), !.runs = None] ELSE Idle
    /\ UNCHANGED <<tool, given, contexts, argsSize, converted, nr>>

Next ==
    \/ \E a \in Address :
          \/ \E k \in Kernel : KernelArgsInit(a, k) \/ Launch(k, a)
          \/ \E v \in Value : KernelArgsAppend(a, v)
          \/ KernelArgsAppendPlaceHolder(a)
          \/ \E i \in 1 .. Params :
                \/ KernelArgsGetPlaceHolderBuffer(a, i)
                \/ \E v \in Value : FillBuffer(a, i, v) \/ KernelArgsParaUpdate(a, i, v)
          \/ KernelArgsFinalize(a)
    \/ RunTask \/ NoMemory \/ Ran

Spec == Init /\ [][Next]_vars

-----------------------------------------------------------------------------
(* What must hold.                                                         *)

\* What the application passes with this launch.
AppWords ==
    IF Interface[call.kernel] = "handle" THEN HandleWords(given[call.addr].params)
    ELSE Aligned(Patched(RawArgs(call.kernel).words, RawArgs(call.kernel).holders))

\* Where the buffer's pointer is among the words a kernel sees.
Places(args) == {i \in DOMAIN args : \E b \in 1 .. Launches : args[i] = Buffer(b)}

\* A parameter the contexts are too small for is neither kept nor passed.
Kept == Interface[call.kernel] = "handle" => ~given[call.addr].large

\* The sanitizer expands the context a handle is cached in: a launch of the
\* handle after another passes the pointers of those before it too.
LeftBehind(word) ==
    /\ Interface[call.kernel] = "handle" /\ tool = "sanitizer"
    /\ \E b \in 1 .. nr.launches - 1 : word = Buffer(b)

\* An instrumented kernel sees the application's arguments as they are at
\* this launch, whatever was passed before at the same address, and the
\* pointer of its own buffer once.  But for the two cases above
\* (ArgsHandleContext.cpp:49-245, ArgsRawContext.cpp:44-95).
StubSeesItsArgs ==
    call.runs # None /\ Kept =>
        \E pos \in 0 .. Len(AppWords) :
            SelectSeq(call.runs.args, LAMBDA word : ~LeftBehind(word))
                = Inserted(AppWords, pos, nr.launches)

\* The expansion of a handle does not write the offset: its copies but the
\* counting one are told what an earlier launch left.
OffsetWritten == Interface[call.kernel] = "handle" => Head(call.todo) = "BB_COUNT"

\* The pointer is where the copy was made to look for it, where the launch
\* writes the offset at all (DBITask.cpp:121-169, ArgsRawContext.cpp:44-114).
OffsetIsTold ==
    call.runs # None /\ OffsetWritten =>
        call.runs.offset = 0 \/ call.runs.offset + 1 = Min(Places(call.runs.args))
=============================================================================
