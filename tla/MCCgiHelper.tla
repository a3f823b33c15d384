---------------------------- MODULE MCCgiHelper ----------------------------
(* Small instances of CgiHelper: requests are interchangeable, except for  *)
(* echo pages and failing system calls.                                    *)
EXTENDS CgiHelper, TLC

Symmetry == Permutations(Requests \ (ForkFails \cup OpenFails \cup Echoes))
=============================================================================
