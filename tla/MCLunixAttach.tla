---------------------------- MODULE MCLunixAttach ----------------------------
(* An instance of LunixAttach for TLC: helpers and lines are interchangeable. *)
EXTENDS LunixAttach, TLC

CONSTANTS h1, h2, h3, t1, t2, u1

Symmetry == Permutations(Helpers) \union Permutations(TTYs)
=============================================================================
