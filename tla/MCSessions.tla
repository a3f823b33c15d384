----------------------------- MODULE MCSessions -----------------------------
(* Small instances of Sessions: clients are interchangeable.               *)
EXTENDS Sessions, TLC

CONSTANT Planted   \* an id that is none of the generator's

\* It, and the first id that is minted, named before anybody was given it.
MCPresented == {<<0, 1>>, Planted}

Symmetry == Permutations(Clients)
=============================================================================
