--------------------------- MODULE MCLogRotation ---------------------------
(* Small instances of LogRotation: the workers are interchangeable.        *)
EXTENDS LogRotation, TLC

Symmetry == Permutations(Loggers)
=============================================================================
