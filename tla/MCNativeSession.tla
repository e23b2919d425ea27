---------------------------- MODULE MCNativeSession ----------------------------
(* NativeSession for TLC.                                                   *)
EXTENDS NativeSession, TLC

CONSTANTS o1, o2, o3

\* B's owner does not admit o3.
PolicyOf == [d \in Sides |-> IF d = "A" THEN Offers ELSE Offers \ {o3}]

\* Bound on the frames sealed in one behaviour.
FewFrames == Cardinality(wire) <= 2

Symmetry == Permutations(Accepts) \cup Permutations(Payloads)
=============================================================================
