---------------------------- MODULE MCHostMemory ----------------------------
(* Two blocks that touch, heaps in the middle, at the end, at the start of   *)
(* one and over the whole of it, a region of a heap, a range reported by     *)
(* hand and two sections that touch; one launch of every kind of api.        *)
EXTENDS HostMemory

R(a, n) == [addr |-> a, length |-> n]

MCBlock == {R(2, 4), R(6, 2)}
MCHeapRange == {R(2, 2), R(3, 2), R(4, 2), R(2, 4)}
MCRegionRange == {R(3, 1)}
MCManualRange == {R(9, 1)}
MCSection == {R(10, 1), R(12, 1)}
MCShape == [op |-> <<1, 3>>]
\* A kernel without tensors; an operator with two tensors at one address and a
\* pointer to pointers; an mc2 operator; a kernel and an operator of acl.
L(api, inputs) == [api |-> api, inputs |-> inputs, tiling |-> <<>>, index |-> None, mc2 |-> FALSE,
                   windows |-> <<>>, double |-> {}, hosts |-> <<>>]
MCLaunch ==
    {L("rtKernelLaunch", <<>>),
     [L("rtKernelLaunchWithFlagV2", <<R(2, 1), R(2, 2), R(0, 1)>>) EXCEPT !.tiling = <<R(14, 1)>>,
        !.index = "op", !.double = {2}, !.hosts = <<[at |-> 2, to |-> <<R(16, 1)>>]>>],
     [L("rtKernelLaunchWithFlagV2", <<R(18, 1), R(2, 1)>>) EXCEPT !.tiling = <<R(14, 1)>>,
        !.mc2 = TRUE, !.windows = <<R(6, 2), R(20, 2)>>],
     L("aclrtLaunchKernel", <<R(2, 1)>>),
     [L("aclrtLaunchKernelWithHostArgs", <<R(2, 2)>>) EXCEPT !.tiling = <<R(14, 1)>>,
        !.index = "op", !.double = {0},
        !.hosts = <<[at |-> 1, to |-> <<R(14, 1)>>], [at |-> 0, to |-> <<R(16, 1)>>]>>]}
=============================================================================
