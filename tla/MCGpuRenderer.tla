---------------------------- MODULE MCGpuRenderer ----------------------------
(* Instances of GpuRenderer for TLC. *)
EXTENDS GpuRenderer, TLC

CONSTANTS t1, t2, w1, w2, a1, a2, d1, d2, i1, i2, x1, x2, x3

\* The members of these sets are named nowhere else.
Interchangeable ==
    Permutations({t1, t2}) \cup Permutations({w1, w2}) \cup Permutations({a1, a2})
      \cup Permutations({d1, d2}) \cup Permutations({i1, i2}) \cup Permutations({x1, x2, x3})

=============================================================================
