---------------------------- MODULE MCAgentGateway ----------------------------
(***************************************************************************)
(* Instances of AgentGateway for TLC: the documents and envelopes that     *)
(* callers present in each scenario, on agents and grants of their own, and*)
(* the revocation loop written as the code runs it.                        *)
(***************************************************************************)
EXTENDS AgentGateway

VARIABLE scenario

Agents == {"a1", "a2", "a3"}
Caps == {"c1", "tool", "pay"}
Grants == {"g1", "g2", "g3", "g4", "g5"}
Revocations == {"r1", "r2", "r3"}

AuthRefs ==
  [c \in RUNTIME_COMPONENTS |->
     IF c \in {"brainstem", "kindred_cloud"} THEN {c} ELSE {}]

-----------------------------------------------------------------------------

IdentityDoc(a, refs, state) ==
  [agent_id |-> a, agent_class |-> "worker", capabilities |-> {"c1"},
   prohibited_capabilities |-> {}, allowed_capabilities |-> {"c1"},
   grant_refs |-> refs, ceiling |-> 2, budget_refs |-> {"b1"},
   lifecycle_state |-> state, revoked_at |-> NULL]

CapabilityDoc(c, owner, action, mode) ==
  [capability_id |-> c, owner_component |-> owner, action_type |-> action,
   execution_mode |-> mode, allowed_agent_classes |-> {"worker"},
   required_authority |-> 1, data_classifications |-> {"internal"}]

GrantDoc(g, a, parent, level, types, expiry) ==
  [grant_id |-> g, subject_agent_id |-> a, authentication_ref |-> a,
   authority_level |-> level, capability_ids |-> {"c1"}, message_types |-> types,
   permissions |-> {}, budget_refs |-> {"b1"}, parent_grant_ref |-> parent,
   issued_at |-> 0, expires_at |-> expiry, status |-> "active", revoked_at |-> NULL]

Agent(a) == [principal_type |-> "agent", id |-> a]
Component(c) == [principal_type |-> "runtime_component", id |-> c]

Blank(sender, nonce, expiry) ==
  [message_type |-> "status", sender |-> sender, recipient |-> Component("brainstem"),
   authority_ref |-> NULL, nonce |-> nonce, timestamp |-> 0, expires_at |-> expiry,
   data_classification |-> "internal", requested_capability |-> NULL,
   budget_ref |-> NULL, evidence_refs |-> {"ev"}, delegation_ref |-> NULL,
   authentication_ref |-> sender.id, payload |-> NULL]

Request(a, g, parent, to, nonce, expiry) ==
  [Blank(Agent(a), nonce, expiry) EXCEPT
     !.message_type = "request", !.recipient = to, !.authority_ref = g,
     !.requested_capability = "c1", !.budget_ref = "b1", !.delegation_ref = parent]

Revocation(r, type, target, nonce, at, expiry) ==
  [Blank(Component("brainstem"), nonce, expiry) EXCEPT
     !.message_type = "revocation", !.data_classification = "restricted",
     !.timestamp = at,
     !.payload = [revocation_id |-> r, target_type |-> type, target_id |-> target,
                  effective_at |-> at, evidence_refs |-> {"ev"},
                  cascade_dependents |-> TRUE, effects_requested |-> FALSE]]

-----------------------------------------------------------------------------
(* Delegation: a tree g1 <- g2 <- g3, g1 <- g4 of two agents, documents that *)
(* would widen it or close it into a cycle, requests under it and          *)
(* revocations of its root and of the agent in the middle.                 *)

DelegationIdentities ==
  {IdentityDoc("a1", {"g1", "g3"}, "active"), IdentityDoc("a2", {"g2", "g4"}, "active"),
   IdentityDoc("a2", {"g2", "g4"}, "suspended")}

DelegationCapabilities ==
  {CapabilityDoc("c1", "brainstem", "communication", "proposal_only")}

DelegationGrants ==
  {GrantDoc("g1", "a1", NULL, 2, {"request", "task"}, 9),
   GrantDoc("g2", "a2", "g1", 1, {"request"}, 9),
   GrantDoc("g3", "a1", "g2", 1, {"request"}, 9),
   GrantDoc("g3", "a1", "g2", 1, {"request", "task"}, 9),  \* wider than g2
   GrantDoc("g4", "a2", "g1", 2, {"task"}, 2),
   GrantDoc("g1", "a1", "g3", 1, {"request"}, 9),          \* under its descendant
   [GrantDoc("g2", "a2", NULL, 1, {"request"}, 9) EXCEPT !.status = "suspended"]}

DelegationEnvelopes ==
  {Request("a2", "g2", "g1", Component("brainstem"), "n1", 4),
   Request("a1", "g3", "g2", Agent("a2"), "n1", 4),
   Revocation("r1", "authority_grant", "g1", "n2", 1, 4),
   Revocation("r2", "agent", "a2", "n3", 1, 4),
   Revocation("r3", "authority_grant", "g2", "n2", 0, 3)}

-----------------------------------------------------------------------------
(* Replay: a guard of small capacity, nonces shared by two senders, short    *)
(* lifetimes, a discovery grant, the component routes and a revocation     *)
(* that competes for the guard.                                            *)

ReplayIdentities == {IdentityDoc("a3", {"g5"}, "active")}

ReplayCapabilities ==
  {CapabilityDoc("tool", "kindred_cloud", "tool", "governed_external"),
   CapabilityDoc("pay", "retrobank", "settlement", "governed_local_reversible")}

ReplayGrants ==
  {[GrantDoc("g5", "a3", NULL, 1, {"discovery"}, 3) EXCEPT
      !.capability_ids = {}, !.budget_refs = {},
      !.permissions = {"capability.discover"}]}

ReplayEnvelopes ==
  {Blank(Agent("a3"), "n1", 2),
   [Blank(Agent("a3"), "n2", 3) EXCEPT
      !.message_type = "discovery", !.authority_ref = "g5"],
   [Blank(Component("brainstem"), "n1", 3) EXCEPT
      !.message_type = "execution_request", !.recipient = Component("kindred_cloud"),
      !.authority_ref = "g5", !.requested_capability = "tool"],
   [Blank(Component("brainstem"), "n3", 4) EXCEPT
      !.message_type = "settlement_request", !.recipient = Component("retrobank"),
      !.authority_ref = "g5", !.budget_ref = "b1", !.requested_capability = "pay"],
   Revocation("r1", "agent", "a3", "n4", 1, 3)}

MCIdentities == DelegationIdentities \cup ReplayIdentities
MCCapabilities == DelegationCapabilities \cup ReplayCapabilities
MCGrants == DelegationGrants \cup ReplayGrants
MCEnvelopes == DelegationEnvelopes \cup ReplayEnvelopes

MCInit == Init /\ scenario \in {"delegation", "replay"}

\* Every step uses documents and envelopes of its scenario only.
MCNext ==
  /\ Next
  /\ UNCHANGED scenario
  /\ LET others == IF scenario = "delegation" THEN ReplayEnvelopes ELSE DelegationEnvelopes
         agents == IF scenario = "delegation" THEN {"a3"} ELSE {"a1", "a2"}
         caps == IF scenario = "delegation" THEN {"tool", "pay"} ELSE {"c1"}
     IN /\ \A e \in others : acceptCount'[e] = 0
        /\ \A a \in agents : identities'[a] = NULL
        /\ \A c \in caps : capabilities'[c] = NULL

MCSpec == MCInit /\ [][MCNext]_<<vars, scenario>>
=============================================================================
