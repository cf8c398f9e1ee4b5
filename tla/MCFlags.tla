------------------------------ MODULE MCFlags ------------------------------
(* Every set of interface flags that have a name, with and without one     *)
(* that has none (bit 16, IFF_LOWER_UP), and every set of header flags     *)
(* that a message of the kernel carries: NLM_F_MULTI, NLM_F_DUMP_INTR,     *)
(* NLM_F_DUMP_FILTERED and those of the request that made the change.      *)
EXTENDS Flags

KernelHeaderFlags == SUBSET {1, 4, 5, 8, 9, 10, 11}

IfiFlags == {s \cup t : s \in SUBSET (0 .. 11), t \in {{}, {16}}}

Messages ==
  [hdr : KernelHeaderFlags, link : {FALSE}, ifi : {{}}]
    \cup [hdr : {{}, {1}}, link : {TRUE}, ifi : IfiFlags]

=============================================================================
