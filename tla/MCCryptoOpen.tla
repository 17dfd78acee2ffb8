----------------------------- MODULE MCCryptoOpen -----------------------------
(* Instances of CryptoOpen for TLC: one process for each device, or several   *)
(* for one device.                                                            *)
EXTENDS CryptoOpen, TLC

CONSTANTS p1, p2, p3, d1, d2, d3

OwnDevice == p1 :> d1 @@ p2 :> d2 @@ p3 :> d3
SameDevice == p1 :> d1 @@ p2 :> d1 @@ p3 :> d1
BlockingSymmetry == Permutations(Openers \ NonBlocking)
=============================================================================
