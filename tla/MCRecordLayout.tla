--------------------------- MODULE MCRecordLayout ---------------------------
(* Bounded instances of RecordLayout: cache sizes at the edges of what the   *)
(* code treats differently, on the three kinds of devices.                   *)
EXTENDS RecordLayout

Device == {[sub |-> FALSE, simt |-> FALSE], [sub |-> TRUE, simt |-> FALSE],
           [sub |-> TRUE, simt |-> TRUE]}

Launches(caches, checks, dims, hosts) ==
    {[cache |-> m, check |-> k, blockDim |-> n, sub |-> d.sub, simt |-> d.simt,
      host |-> h] :
        m \in caches, k \in checks, n \in dims, d \in Device, h \in hosts}

\* 0 and 8193 are refused, 1 leaves no room for threads, 23 and 24 are at the
\* edge of the shadow memory, 4095 is the last whose block size fits a uint32_t.
MCConfig ==
    Launches({0, 1, 5, 23, 24, 100, 4095, 8193}, {-1, 0, 1, 3}, {1, 2}, {0, 5})

=============================================================================
