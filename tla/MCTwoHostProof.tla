---------------------------- MODULE MCTwoHostProof ----------------------------
(* TwoHostProof for TLC: a sender on another host, one on the receiver's own *)
(* and one without the secret compete for a single session slot.            *)
EXTENDS TwoHostProof
=============================================================================
