----------------------------- MODULE MCCoreMark -----------------------------
(* The builds of the makefile with one or two iterations, not 1000: the    *)
(* performance and profile runs their size selects, the validation run and *)
(* both with 6000 bytes, and the validation run through the seeds 1, 0, 0; *)
(* then small blocks with odd numbers of searches, where the text ends     *)
(* close to the end of its block, and with different first seeds.          *)
EXTENDS CoreMark, CoreState, CoreMatrix

Build(kind, total, n) ==
    [seed1 |-> get_seed_32(kind, n, 1), seed2 |-> get_seed_32(kind, n, 2),
     seed3 |-> get_seed_32(kind, n, 3), size |-> total,
     iterations |-> get_seed_32(kind, n, 4)]

MCParameters ==
    {Build(BuildKind(2000), 2000, 2), Build(BuildKind(1200), 1200, 2),
     Build("VALIDATION_RUN", 2000, 2), Build("VALIDATION_RUN", 6000, 1),
     Build("PERFORMANCE_RUN", 6000, 1),
     [seed1 |-> 1, seed2 |-> 0, seed3 |-> 0, size |-> 2000, iterations |-> 1],
     [seed1 |-> 0, seed2 |-> 0, seed3 |-> 0, size |-> 900, iterations |-> 1],
     [seed1 |-> 5, seed2 |-> 5, seed3 |-> 3, size |-> 462, iterations |-> 2],
     [seed1 |-> 24, seed2 |-> 40, seed3 |-> 7, size |-> 700, iterations |-> 2]}
=============================================================================
