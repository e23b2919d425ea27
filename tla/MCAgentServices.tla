---------------------------- MODULE MCAgentServices ----------------------------
(***************************************************************************)
(* AgentServices for TLC: two companions, one of them in several states,   *)
(* requests whose texts collide once they are joined, and a catalog of     *)
(* four descriptors for three ids.                                         *)
(***************************************************************************)
EXTENDS AgentServices, TLC

VARIABLE scenario

Companion(agent, state, level) ==
  [agent_id |-> agent, agent_class |-> "living_companion", capabilities |-> {},
   prohibited_capabilities |-> {}, allowed_capabilities |-> {}, grant_refs |-> {},
   ceiling |-> level, budget_refs |-> {}, lifecycle_state |-> state, revoked_at |-> NULL]

MCNamespaceOf == [ana |-> "companion:ana", bo |-> "companion:bo"]

MCConsent == [ana |-> "ana's consent", bo |-> "bo's consent"]

QueryFor(limit, risk) ==
  [action_types |-> {}, data_classification |-> "internal", risk_ceiling |-> risk,
   result_limit |-> limit]

Input(service, identity, request, content) ==
  [service |-> service, identity |-> identity, request_id |-> request, content |-> content,
   permissions |-> {"companion.communicate", "companion.memory.propose"},
   namespace_refs |-> {MCNamespaceOf[identity.agent_id]},
   consent |-> IF service = "discovery" THEN NULL ELSE MCConsent[identity.agent_id],
   user_message_id |-> IF service = "communication" THEN "u" ELSE NULL,
   version |-> NULL, target_namespace_ref |-> NULL, query |-> NULL]

MemoryInput(agent, request, version, content) ==
  [Input("memory", Companion(agent, "active", 1), request, content) EXCEPT
     !.version = version, !.target_namespace_ref = MCNamespaceOf[agent]]

DiscoveryInput(request, query) ==
  [Input("discovery", Companion("ana", "active", 1), request, <<>>) EXCEPT !.query = query]

\* Two memory proposals whose parts join to one text and another agent's with
\* the same request; communications that differ in content, lifecycle state
\* and authority ceiling; and a memory proposal for a namespace of another.
MCInputs ==
  {MemoryInput("ana", <<"m">>, "1", <<"2", "hello">>),
   MemoryInput("ana", <<"m", "1">>, "2", <<"hello">>),
   MemoryInput("bo", <<"m">>, "2", <<"hello">>),
   [MemoryInput("bo", <<"m">>, "1", <<"hello">>)
      EXCEPT !.target_namespace_ref = MCNamespaceOf["ana"]],
   Input("communication", Companion("ana", "active", 1), <<"m">>, <<"hello">>),
   Input("communication", Companion("ana", "suspended", 1), <<"m">>, <<"bye">>),
   Input("communication", Companion("ana", "active", 0), <<"m">>, <<"hi">>),
   DiscoveryInput(<<"m">>, QueryFor(2, "high")),
   DiscoveryInput(<<"m">>, QueryFor(1, "low")),
   DiscoveryInput(<<"d">>, QueryFor(2, "high"))}

Descriptor(c, risk) ==
  [capability_id |-> c, risk_ceiling |-> risk, action_type |-> "reasoning",
   allowed_agent_classes |-> {"living_companion"}, data_classifications |-> {"internal"}]

MCCatalogDocs ==
  {Descriptor("c1", "low"), Descriptor("c1", "high"), Descriptor("c2", "medium"),
   Descriptor("c3", "low")}

MCOrder == [c1 |-> 1, c2 |-> 2, c3 |-> 3]

MCInit == Init /\ scenario \in {"catalog", "proposals", "decision"}

\* Decisions keep no state and time takes nothing from a receipt: a behaviour
\* makes at most one decision, as its last step and at an early time.
MCNext ==
  /\ UNCHANGED scenario /\ decision = NULL
  /\ \/ /\ scenario = "catalog"
        /\ \/ clock = 0 /\ admissions = <<>> /\ CatalogStep
           \/ SetAvailability("c1", FALSE)
           \/ DiscoveryStep
     \/ scenario = "proposals" /\ ProposalStep
     \/ scenario = "decision" /\ (ProposalStep \/ DecisionStep)
     \/ (scenario = "decision" => clock = 0) /\ Tick

MCSpec == MCInit /\ [][MCNext]_<<vars, scenario>>
=============================================================================
