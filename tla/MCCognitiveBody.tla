--------------------------- MODULE MCCognitiveBody ---------------------------
(***************************************************************************)
(* CognitiveBody for TLC.  `scenario` picks which of the system's callers  *)
(* are at work: owners of processes and callers that graduate, compose and *)
(* promote them; observers of a feed that may throw or be closed; callers  *)
(* and a run of the body that execute a capability; callers of the post-   *)
(* synthesized runtime; one run while the graph changes; or two runs.      *)
(***************************************************************************)
EXTENDS CognitiveBody

CONSTANTS a, b, c, k1, i1, pa, pb, pc, v1, px, g1, r1, r2

VARIABLE scenario

MCOutcomes ==
  {[success |-> TRUE, verified |-> TRUE, contribution |-> "EXECUTION"],
   [success |-> FALSE, verified |-> TRUE, contribution |-> "RECOVERY"]}

\* Counts of a caller's own, and evidence with every field or with none.
MCClaims ==
  {[executions |-> 1, verified_successes |-> 1, failures |-> 0, verifications |-> 1]}
MCStatements == {EvidenceFields, {}}

MCCompositions == {[skill_ids |-> <<a, b>>, composition_kind |-> "SEQUENTIAL"]}
MCEvidence == {required, required \ {"sandbox_passed"}}
MCGraphs == {<<a, b, c>>, <<a, b>>, <<a>>, <<b>>}

Port(type, priority, targets, verified, handler, graph) ==
  [port_type |-> type, priority |-> priority, intent_classes |-> {"compute"},
   evidence_targets |-> targets, verification_required |-> verified,
   handler |-> handler, graph |-> graph]

\* Two process ports of one priority whose evidence comes from different
\* skills, and two of a lower priority, one of which executes a capability.
MCDescriptor ==
  (i1 :> Port("INTENT", 0, {}, FALSE, "plain", <<>>)) @@
  (g1 :> Port("COGNITON", 0, {}, FALSE, "plain", <<>>)) @@
  (pa :> Port("PROCESS", 1, {a}, FALSE, "dynamic", <<a>>)) @@
  (pb :> Port("PROCESS", 1, {b, c}, TRUE, "dynamic", <<b>>)) @@
  (pc :> Port("PROCESS", 0, {}, FALSE, "plain", <<>>)) @@
  (px :> Port("PROCESS", 0, {}, FALSE, "capability", <<>>)) @@
  (v1 :> Port("VERIFICATION", 0, {}, FALSE, "plain", <<>>))

MCOrder == (i1 :> 1) @@ (g1 :> 2) @@ (pa :> 3) @@ (pc :> 4) @@ (pb :> 5) @@ (v1 :> 6) @@ (px :> 7)

\* The intent, cogniton and verification ports come first.
InOrder ==
  \A p \in ports' \ ports : p \in {pa, pb, pc} => {i1, g1, v1} \subseteq ports

MCInit == Init /\ scenario \in {"learning", "feed", "capability", "dynamic", "graph", "body"}

\* A process graduates on a caller's word at most once from one genome.
OncePerGenome ==
  \A g, h \in graduated' : g.process = h.process /\ g.genome = h.genome => g = h

MCNext ==
  /\ UNCHANGED scenario
  /\ \/ /\ scenario = "learning"
        /\ OutsideStep /\ UNCHANGED <<exec, subscribed, missed>>
        /\ genome'[b] = 1 /\ tally'[c].executions = 0 /\ OncePerGenome
        /\ tally'[b].executions <= 1
        /\ (\A g \in graduated' : g.process = a => g.source = "tracker" /\ g.stated # {})
     \/ /\ scenario = "feed"
        /\ OutsideStep /\ UNCHANGED <<genome, profile, registry, synthesisVars, exec>>
        /\ tally'[c].executions = 0
     \/ /\ scenario = "capability"
        /\ (OutsideStep /\ exec'.mode # "dynamic") \/ BodyStep
        /\ UNCHANGED <<genome, profile, graphVars, subscribed>> /\ OncePerGenome
        /\ (\A g \in graduated' : g.source = "caller" /\ g.stated # {} /\ g.process # c)
        /\ ports' \subseteq {i1, px, v1} /\ phase'[r2] = "idle"
        /\ tally' # tally => exec' # exec
     \/ /\ scenario = "dynamic"
        /\ \/ ProcessStep
           \/ /\ exec = NoExecution /\ UNCHANGED bodyVars
              /\ CloseBoundary \/ \E g \in DynamicGraphs : ExecuteDynamic(g)
     \/ /\ scenario = "graph"
        /\ BodyStep
        /\ ports' \subseteq {i1, pc, v1} /\ phase'[r2] = "idle"
     \/ /\ scenario = "body"
        /\ BodyStep
        /\ InOrder /\ px \notin ports' /\ UNCHANGED graphVars
        /\ tally'[c].executions = 0 /\ exec'.events = <<>>

MCSpec == MCInit /\ [][MCNext]_<<vars, scenario>> /\ Fairness
=============================================================================
