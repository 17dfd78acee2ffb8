---------------------------- MODULE MCCryptoIoctl ----------------------------
(* Instances of CryptoIoctl for TLC: two processes that share a device, or one *)
(* that has it for itself.                                                     *)
EXTENDS CryptoIoctl, TLC

CONSTANTS p1, p2
=============================================================================
