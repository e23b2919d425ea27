--------------------------- MODULE MCCognitiveMemory ---------------------------
(* CognitiveMemory for TLC.                                                   *)
EXTENDS CognitiveMemory, TLC

CONSTANTS i1, i2, i3, r1, r2

Evidence(i, r, verified, success, contribution) ==
  [id |-> i, relation |-> r, verified |-> verified,
   success |-> success, failure |-> ~success,
   recovery |-> contribution = "RECOVERY",
   verification_contribution |-> contribution = "VERIFICATION"]

\* Two executions over one relationship, of which the second recovers; a third
\* that is first reported unverified, then without its relationship, and then
\* as a verification over another relationship.
Delivered ==
  {Evidence(i1, r1, TRUE, FALSE, "RECOVERY"), Evidence(i2, r1, TRUE, TRUE, "RECOVERY"),
   Evidence(i3, r2, FALSE, TRUE, "VERIFICATION"), Evidence(i3, NULL, TRUE, TRUE, "NONE"),
   Evidence(i3, r2, TRUE, TRUE, "VERIFICATION")}

Symmetry == Permutations(Saves) \cup Permutations(Pids)
=============================================================================
