--------------------------- MODULE MCInstallLock ---------------------------
(* InstallLock on small fleets: every attempt is interchangeable.           *)
EXTENDS InstallLock, TLC

Symmetry == Permutations(Attempts)

=============================================================================
