------------------------ MODULE MCEnrollmentRollout ------------------------
(* A small fleet for TLC.                                                   *)
EXTENDS EnrollmentRollout, TLC

CONSTANTS i1, i2, s1, s2

\* The whole fleet is built from one source, s1, which need not be the current one.
OneSource == [i \in Instances |-> s1]

\* Nothing orders the instances or the versions.
Symmetry == Permutations(Instances) \cup Permutations(Versions)
=============================================================================
