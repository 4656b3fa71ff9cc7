-------------------------- MODULE MCPseudoCharDriver --------------------------
(* Small instances of PseudoCharDriver.                                      *)
EXTENDS PseudoCharRefinement, TLC

CONSTANTS t1, t2, fa, fb

\* Each thread has a file of its own.
Private == t1 :> {fa} @@ t2 :> {fb}

\* Both threads use one file, as after fork() or in one process.
Shared == t1 :> {fa} @@ t2 :> {fa}

MCOffsets == {-1, 0, 1}

Symmetry == Permutations({t1, t2})
=============================================================================
