---------------------------- MODULE CognitiveBody ----------------------------
(***************************************************************************)
(* cognitive-body.mjs over process-intelligence.mjs: a graph of cognitons, *)
(* a fabric of ports, the DCML compiler that selects ports by priority and *)
(* by what the Synaptizer has learned, and the execution of the plans.     *)
(*                                                                         *)
(* A plan is compiled from snapshots and executed port after port, with an *)
(* await between two ports: while one run waits, the fabric, the graph and *)
(* the evidence may change and another run may use the process runtime.    *)
(*                                                                         *)
(* A state root stands for the state it digests.  Kinds, roles, values and *)
(* relations of cognitons and the receipt of a boundary request (constant  *)
(* in the boundary that is attached) are left out, and so is context_ref.  *)
(***************************************************************************)
EXTENDS ProcessIntelligence, SequencesExt

CONSTANTS
  PortIds, Descriptor,  \* what registerPort is called with, per port id
  PortOrder,            \* the place of a port id in localeCompare order
  Intents, CognitonIds,
  Runs,                 \* calls of compile and executeActivationPlan
  MaxVersion            \* bound on the contents added under one cogniton id

COGNITIVE_PORT_TYPES == {"INTENT", "COGNITON", "PROCESS", "VERIFICATION"}

\* `handler` is what the port's handler does: return a new state, dispatch
\* EXECUTE_CAPABILITY to the process boundary, or execute `graph` on the
\* post-synthesized runtime.
PortDescriptor ==
  [port_type : COGNITIVE_PORT_TYPES, priority : Nat, intent_classes : SUBSET (Intents \cup {"*"}),
   evidence_targets : SUBSET Processes, verification_required : BOOLEAN,
   handler : {"plain", "capability", "dynamic"}, graph : Seq(Processes)]

\* What the caller of an execution gets to see of it.
Result == [graph : Seq(Processes), recorded : Seq(Processes)]

Plan ==
  [intent_class : Intents,
   graph_state_root : [cognitons : [CognitonIds -> 0 .. MaxVersion],
                       active : SUBSET CognitonIds],
   fabric_state_root : SUBSET PortIds,
   selection_evidence : [Processes -> Int],
   active_port_ids : Seq(PortIds),
   process_port_id : PortIds,
   verification_port_id : PortIds \cup {NULL},
   verification_required : BOOLEAN]

ASSUME DescriptorsAssumption ==
  /\ Descriptor \in [PortIds -> PortDescriptor]
  /\ PortOrder \in [PortIds -> Nat]
  /\ \A p, q \in PortIds : PortOrder[p] = PortOrder[q] => p = q
  /\ IsFiniteSet(PortIds)
  /\ \A p \in PortIds :
       /\ IsFiniteSet(Descriptor[p].evidence_targets)
       /\ Descriptor[p].handler = "dynamic" => Descriptor[p].graph \in DynamicGraphs
  /\ NULL \notin PortIds /\ NULL \notin Runs /\ NULL \notin Result

ASSUME BoundAssumption == MaxVersion \in Nat

VARIABLES
  cognitons,  \* graph._cognitons: version of each id, 0 if absent
  active,     \* graph._active
  ports,      \* fabric._ports
  plan,       \* the plan of a run, or NULL
  phase,      \* where a run's execution is
  activated,  \* history: the ports of a run whose handler returned
  returned,   \* history: the execution a run's handler last returned from, or NULL
  caller      \* the run whose handler entered the process runtime, or NULL

graphVars == <<cognitons, active>>
runVars == <<plan, phase, activated, returned, caller>>
bodyVars == <<graphVars, ports, runVars>>
vars == <<piVars, bodyVars>>

-----------------------------------------------------------------------------
(* The graph and the fabric.                                               *)

\* CognitiveGraph.add: the same id again replaces the cogniton, and an
\* active one stays active with its new content.
AddCogniton(c, version) ==
  /\ cognitons' = [cognitons EXCEPT ![c] = version]
  /\ UNCHANGED <<active, ports, runVars, piVars>>

ActivateCogniton(c) ==
  /\ cognitons[c] # 0
  /\ active' = active \cup {c}
  /\ UNCHANGED <<cognitons, ports, runVars, piVars>>

DeactivateCogniton(c) ==
  /\ active' = active \ {c}
  /\ UNCHANGED <<cognitons, ports, runVars, piVars>>

\* Mutant: a new port replaces the registered ports of its type.
RegisterPortReplaces(p) ==
  /\ p \notin ports
  /\ ports' = {p} \cup {q \in ports : Descriptor[q].port_type # Descriptor[p].port_type}
  /\ UNCHANGED <<graphVars, runVars, piVars>>

\* CognitivePortFabric.registerPort: an id is registered once, never removed.
RegisterPort(p) ==
  /\ p \notin ports
  /\ ports' = ports \cup {p}
  /\ UNCHANGED <<graphVars, runVars, piVars>>

-----------------------------------------------------------------------------
(* The compiler.                                                           *)

matchesIntent(p, intent) ==
  LET classes == Descriptor[p].intent_classes
  IN classes = {} \/ "*" \in classes \/ intent \in classes

synapticEvidenceScore(p, evidence) ==
  SumFunctionOnSet(evidence, Descriptor[p].evidence_targets)

\* Mutant: the least reinforced port comes first.
OutranksReversed(p, q, evidence) ==
  LET sp == synapticEvidenceScore(p, evidence)
      sq == synapticEvidenceScore(q, evidence)
  IN \/ Descriptor[p].priority > Descriptor[q].priority
     \/ /\ Descriptor[p].priority = Descriptor[q].priority
        /\ sp < sq \/ (sp = sq /\ PortOrder[p] < PortOrder[q])

\* Mutant: evidence counts before priority.
OutranksByEvidence(p, q, evidence) ==
  LET sp == synapticEvidenceScore(p, evidence)
      sq == synapticEvidenceScore(q, evidence)
  IN sp > sq \/ (sp = sq /\ PortOrder[p] < PortOrder[q])

\* The comparison rankPorts sorts by.
Outranks(p, q, evidence) ==
  LET sp == synapticEvidenceScore(p, evidence)
      sq == synapticEvidenceScore(q, evidence)
  IN \/ Descriptor[p].priority > Descriptor[q].priority
     \/ /\ Descriptor[p].priority = Descriptor[q].priority
        /\ sp > sq \/ (sp = sq /\ PortOrder[p] < PortOrder[q])

\* The ports rankPorts sorts.  Callers only ever take the first of its result.
rankPorts(type, intent) ==
  {p \in ports : Descriptor[p].port_type = type /\ matchesIntent(p, intent)}

\* selectOne, as a sequence of at most one port: the one no other port precedes.
selectOne(type, intent) ==
  LET ranked == rankPorts(type, intent)
  IN IF ranked = {} THEN <<>>
     ELSE <<CHOOSE p \in ranked : \A q \in ranked \ {p} : Outranks(p, q, learned)>>

\* Mutant: the verification port is optional whatever the process demands.
compileUnverified(intent, wanted) ==
  [intent_class |-> intent,
   graph_state_root |-> [cognitons |-> cognitons, active |-> active],
   fabric_state_root |-> ports, selection_evidence |-> learned,
   active_port_ids |-> selectOne("INTENT", intent) \o selectOne("COGNITON", intent)
                         \o selectOne("PROCESS", intent),
   process_port_id |-> Head(selectOne("PROCESS", intent)),
   verification_port_id |-> NULL,
   verification_required |-> wanted]

\* Mutant: the absent cogniton port is not filtered out.
compileUnfiltered(intent, wanted) ==
  LET process == Head(selectOne("PROCESS", intent))
      cogniton == selectOne("COGNITON", intent)
      verification == selectOne("VERIFICATION", intent)
  IN [intent_class |-> intent,
      graph_state_root |-> [cognitons |-> cognitons, active |-> active],
      fabric_state_root |-> ports, selection_evidence |-> learned,
      active_port_ids |-> selectOne("INTENT", intent)
                            \o (IF cogniton = <<>> THEN <<NULL>> ELSE cogniton)
                            \o <<process>> \o verification,
      process_port_id |-> process,
      verification_port_id |-> IF verification = <<>> THEN NULL ELSE Head(verification),
      verification_required |-> wanted \/ Descriptor[process].verification_required]

\* DCMLCompiler.compile's plan; `wanted` is input.verification_required.
compile(intent, wanted) ==
  LET process == Head(selectOne("PROCESS", intent))
      verification == selectOne("VERIFICATION", intent)
  IN [intent_class |-> intent,
      graph_state_root |-> [cognitons |-> cognitons, active |-> active],
      fabric_state_root |-> ports, selection_evidence |-> learned,
      active_port_ids |-> selectOne("INTENT", intent) \o selectOne("COGNITON", intent)
                            \o <<process>> \o verification,
      process_port_id |-> process,
      verification_port_id |-> IF verification = <<>> THEN NULL ELSE Head(verification),
      verification_required |-> wanted \/ Descriptor[process].verification_required]

\* A run compiles its plan, unless a port it needs is unavailable.
Compile(r, intent, wanted) ==
  /\ Idle
  /\ phase[r] = "idle"
  /\ selectOne("INTENT", intent) # <<>>
  /\ selectOne("PROCESS", intent) # <<>>
  /\ LET compiled == compile(intent, wanted)
     IN /\ compiled.verification_required => selectOne("VERIFICATION", intent) # <<>>
        /\ plan' = [plan EXCEPT ![r] = compiled]
  /\ phase' = [phase EXCEPT ![r] = "executing"]
  /\ UNCHANGED <<graphVars, ports, activated, returned, caller, piVars>>

-----------------------------------------------------------------------------
(* executeActivationPlan.                                                  *)

nextPort(r) == plan[r].active_port_ids[Len(activated[r]) + 1]

\* The loop of a run stands at an await that has been settled.
Resumable(r) ==
  /\ Idle
  /\ phase[r] = "executing"
  /\ Len(activated[r]) < Len(plan[r].active_port_ids)
  /\ nextPort(r) \in ports

\* The next port's handler runs and returns.
ActivatePlain(r) ==
  /\ Resumable(r)
  /\ Descriptor[nextPort(r)].handler = "plain"
  /\ activated' = [activated EXCEPT ![r] = Append(@, nextPort(r))]
  /\ UNCHANGED <<graphVars, ports, plan, phase, returned, caller, piVars>>

\* The next port's handler enters the process runtime: with a capability it
\* holds, through the boundary's EXECUTE_CAPABILITY, or with its own graph.
\* Without a promoted capability it throws, which is FailRun.
ActivateProcess(r) ==
  /\ Resumable(r)
  /\ \/ /\ Descriptor[nextPort(r)].handler = "capability"
        /\ \E c \in held : ExecuteCapability(c)
     \/ /\ Descriptor[nextPort(r)].handler = "dynamic"
        /\ ExecuteDynamic(Descriptor[nextPort(r)].graph)
  /\ caller' = r
  /\ phase' = [phase EXCEPT ![r] = "in_process"]
  /\ UNCHANGED <<graphVars, ports, plan, activated, returned>>

resultOf(execution) == [graph |-> execution.graph, recorded |-> execution.recorded]

\* Mutant: a rejected execution lets its run go on.
ProcessStepUnchecked ==
  /\ ExecutionStep
  /\ IF exec'.status = "running" \/ caller = NULL
     THEN UNCHANGED <<phase, activated, returned, caller>>
     ELSE /\ caller' = NULL
          /\ phase' = [phase EXCEPT ![caller] = "executing"]
          /\ activated' = [activated EXCEPT ![caller] = Append(@, nextPort(caller))]
          /\ returned' = [returned EXCEPT ![caller] = resultOf(exec')]
  /\ UNCHANGED <<graphVars, ports, plan>>

\* A step of the process runtime.  When the execution is over the handler
\* that entered it returns or throws, and a throw ends the run.
ProcessStep ==
  /\ ExecutionStep
  /\ IF exec'.status = "running" \/ caller = NULL
     THEN UNCHANGED <<phase, activated, returned, caller>>
     ELSE /\ caller' = NULL
          /\ IF exec'.status = "done"
             THEN /\ phase' = [phase EXCEPT ![caller] = "executing"]
                  /\ activated' = [activated EXCEPT ![caller] = Append(@, nextPort(caller))]
                  /\ returned' = [returned EXCEPT ![caller] = resultOf(exec')]
             ELSE /\ phase' = [phase EXCEPT ![caller] = "failed"]
                  /\ UNCHANGED <<activated, returned>>
  /\ UNCHANGED <<graphVars, ports, plan>>

\* The next port is missing or its handler throws.
FailRun(r) ==
  /\ Idle
  /\ phase[r] = "executing"
  /\ Len(activated[r]) < Len(plan[r].active_port_ids)
  /\ phase' = [phase EXCEPT ![r] = "failed"]
  /\ UNCHANGED <<graphVars, ports, plan, activated, returned, caller, piVars>>

\* Mutant: the loop waits for one port more than the plan has.
CompleteRunLate(r) ==
  /\ Idle
  /\ phase[r] = "executing"
  /\ Len(activated[r]) > Len(plan[r].active_port_ids)
  /\ phase' = [phase EXCEPT ![r] = "completed"]
  /\ UNCHANGED <<graphVars, ports, plan, activated, returned, caller, piVars>>

\* The last handler has returned.
CompleteRun(r) ==
  /\ Idle
  /\ phase[r] = "executing"
  /\ Len(activated[r]) = Len(plan[r].active_port_ids)
  /\ phase' = [phase EXCEPT ![r] = "completed"]
  /\ UNCHANGED <<graphVars, ports, plan, activated, returned, caller, piVars>>

RunStep(r) ==
  ActivatePlain(r) \/ ActivateProcess(r) \/ FailRun(r) \/ CompleteRun(r)

-----------------------------------------------------------------------------

Init ==
  /\ PIInit
  /\ cognitons = [c \in CognitonIds |-> 0]
  /\ active = {}
  /\ ports = {}
  /\ plan = [r \in Runs |-> NULL]
  /\ phase = [r \in Runs |-> "idle"]
  /\ activated = [r \in Runs |-> <<>>]
  /\ returned = [r \in Runs |-> NULL]
  /\ caller = NULL

BodyStep ==
  \/ /\ Idle
     /\ \E c \in CognitonIds : \/ \E v \in 1 .. MaxVersion : AddCogniton(c, v)
                               \/ ActivateCogniton(c)
                               \/ DeactivateCogniton(c)
  \/ Idle /\ \E p \in PortIds : RegisterPort(p)
  \/ \E r \in Runs, intent \in Intents, wanted \in BOOLEAN : Compile(r, intent, wanted)
  \/ \E r \in Runs : RunStep(r)
  \/ ProcessStep

\* Callers of the module beside the runs of plans.
OutsideStep == (LearningStep \/ StartStep) /\ UNCHANGED bodyVars

Next == BodyStep \/ OutsideStep

\* Handlers settle and the event loop serves every settled await.
Fairness ==
  /\ WF_vars(ProcessStep)
  /\ \A r \in Runs : SF_vars(RunStep(r))

Spec == Init /\ [][Next]_vars /\ Fairness

-----------------------------------------------------------------------------
(* Properties.                                                             *)

TypeOK ==
  /\ PITypeOK
  /\ cognitons \in [CognitonIds -> 0 .. MaxVersion]
  /\ active \subseteq CognitonIds
  /\ ports \subseteq PortIds
  /\ plan \in [Runs -> Plan \cup {NULL}]
  /\ phase \in [Runs -> {"idle", "executing", "in_process", "completed", "failed"}]
  /\ activated \in [Runs -> Seq(PortIds)]
  /\ returned \in [Runs -> Result \cup {NULL}]
  /\ caller \in Runs \cup {NULL}

Planned == {r \in Runs : plan[r] # NULL}

\* A plan's ports stay in the fabric for as long as the plan may run: no run
\* fails halfway because a port it was promised is gone.
PlannedPortsRemain ==
  \A r \in Planned : ToSet(plan[r].active_port_ids) \subseteq ports

\* In the snapshot it was made from, nothing beats the selected process port:
\* no matching port has a higher priority, none of its priority has more
\* reinforcement.
NothingBeatsSelection ==
  \A r \in Planned :
    LET pl == plan[r]
        chosen == pl.process_port_id
        score(p) == synapticEvidenceScore(p, pl.selection_evidence)
    IN \A q \in pl.fabric_state_root :
         Descriptor[q].port_type = "PROCESS" /\ matchesIntent(q, pl.intent_class) =>
           /\ Descriptor[q].priority <= Descriptor[chosen].priority
           /\ Descriptor[q].priority = Descriptor[chosen].priority =>
                score(q) <= score(chosen)

\* Two plans for one intent over one fabric that select different process
\* ports differ by evidence alone: the ports have the same priority and the
\* Synaptizer preferred each in its own plan.
EvidenceDecidesTies ==
  \A r, s \in Planned :
    LET p == plan[r].process_port_id
        q == plan[s].process_port_id
    IN /\ plan[r].intent_class = plan[s].intent_class
       /\ plan[r].fabric_state_root = plan[s].fabric_state_root
       /\ p # q
       => /\ Descriptor[p].priority = Descriptor[q].priority
          /\ synapticEvidenceScore(p, plan[r].selection_evidence)
               - synapticEvidenceScore(q, plan[r].selection_evidence)
             # synapticEvidenceScore(p, plan[s].selection_evidence)
               - synapticEvidenceScore(q, plan[s].selection_evidence)

\* A run completes only after its process port returned, and, when the
\* caller or the process port demands verification, after a verification
\* port looked at what the process returned.  If the process port entered the
\* runtime, that is an execution every skill of whose final graph ran and was
\* recorded, in this order, although others executed and recomposed in
\* between and the port knows only that nothing was thrown.
VerifiedAfterProcess ==
  \A r \in Runs :
    phase[r] = "completed" =>
      LET n == Len(activated[r])
          process == Descriptor[plan[r].process_port_id]
      IN /\ IF plan[r].verification_required \/ process.verification_required
            THEN /\ n >= 2
                 /\ activated[r][n - 1] = plan[r].process_port_id
                 /\ Descriptor[activated[r][n]].port_type = "VERIFICATION"
            ELSE plan[r].process_port_id \in ToSet(activated[r])
         /\ process.handler # "plain" =>
              /\ returned[r] # NULL
              /\ returned[r].recorded = returned[r].graph

\* Plans select what priority and evidence demand, stay executable while the
\* fabric changes, and verify what they must.
PlansSound ==
  PlannedPortsRemain /\ NothingBeatsSelection /\ EvidenceDecidesTies /\ VerifiedAfterProcess

\* Every run that has a plan completes or fails.
RunsEnd == \A r \in Runs : (phase[r] = "executing") ~> (phase[r] \in {"completed", "failed"})

\* Budgets bound the runtime: every execution and every run ends.
RuntimeBounded == ExecutionTerminates /\ RunsEnd
=============================================================================
