---------------------------- MODULE MCLunixChrdev ----------------------------
(* Instances of LunixChrdev for TLC: two raw values whose texts differ in    *)
(* length, so that a text can be replaced by a shorter one.                  *)
EXTENDS LunixChrdev, TLC

CONSTANTS p1, p2, f1, f2, s1, s2, long, short

MCRawValues == {long, short}
MCTextLen == [v \in MCRawValues |-> [t \in {0, 1} |-> IF v = long THEN 3 ELSE 1]]
Symmetry == Permutations(Procs) \union Permutations(Files) \union Permutations(Sensors)
=============================================================================
