----------------------------- MODULE AgentServices -----------------------------
(***************************************************************************)
(* The services around the gateway: capability-discovery.mjs, the builders *)
(* of companion proposals (companion-communication.mjs,                    *)
(* companion-memory-proposal.mjs) and Brainstem's decisions on them        *)
(* (brainstem-companion-decision.mjs, brainstem-memory-decision.mjs).      *)
(*                                                                         *)
(* Every request gets a gateway of its own, filled with the documents that *)
(* were built for it; what requests share is the replay guard, which reads *)
(* its own clock, while the request runs at a `now` its caller captured up *)
(* to Lag earlier.  Decisions keep no state: they look at the envelope,    *)
(* the receipt and the identity that are put before them, which need not   *)
(* belong together; the envelope may also carry one value of another one.  *)
(*                                                                         *)
(* A text is the sequence of its parts between colons, since digest()      *)
(* joins texts with colons; digests are ideal.  Documents are the records  *)
(* of AgentGateway; an identity's permissions and the namespaces of its    *)
(* memory scope come with the input.                                       *)
(***************************************************************************)
EXTENDS Naturals, Sequences, FiniteSets, SequencesExt

CONSTANTS
  Inputs,           \* inputs of the three builders
  CatalogDocs,      \* capabilities offered to the catalog
  namespaceOf,      \* "companion:local-companion-" and the suffix of an agent id
  CapabilityOrder,  \* the place of a capability id in localeCompare order
  maxCapabilities,  \* capacity of the catalog
  maxEntries,       \* capacity of the shared replay guard
  TTL,              \* DISCOVERY_TTL_MS and PROPOSAL_TTL_MS
  Lag,              \* bound on the age of a captured `now`
  MaxTime, MaxIssued, MaxAdmissions, \* bounds on clock, envelopes, admissions
  NULL

CatalogIds == {d.capability_id : d \in CatalogDocs}

VARIABLES
  catalog,     \* catalog.entries: [capability, available] or NULL
  entries,     \* replayGuard.entries
  clock,       \* replayGuard.now()
  issued,      \* proposals in callers' hands: [input, at]
  admissions,  \* receipts in callers' hands, in the order of acceptance
  result,      \* the last discovery, or NULL
  decision     \* the last decision, or NULL

vars == <<catalog, entries, clock, issued, admissions, result, decision>>

riskOrder == [low |-> 0, medium |-> 1, high |-> 2, critical |-> 3]

-----------------------------------------------------------------------------
(* The builders.                                                           *)

permission ==
  [discovery |-> "capability.discover", communication |-> "companion.communicate",
   memory |-> "companion.memory.propose"]

\* communicationCapability() and memoryProposalCapability()
companionCapability(service) ==
  [capability_id |-> service,
   owner_component |-> IF service = "memory" THEN "brainstem" ELSE "emit_core",
   action_type |-> IF service = "memory" THEN "memory_proposal" ELSE "communication",
   allowed_agent_classes |-> {"living_companion"}, required_authority |-> 1,
   data_classifications |-> {"confidential"}, execution_mode |-> "proposal_only"]

\* The digest every id of a request is made from.  It does not cover the
\* content of a communication, nor the query of a discovery.
seed(in) ==
  CASE in.service = "discovery" -> <<"discovery", in.identity.agent_id>> \o in.request_id
    [] in.service = "communication" ->
         <<"communication", in.identity.agent_id, in.consent>> \o in.request_id
    [] in.service = "memory" ->
         <<"memory", in.identity.agent_id, in.consent>> \o in.request_id
           \o <<in.version>> \o in.content

\* A companion that holds no capability, grant or budget of its own.
ScopeEmpty(identity) ==
  /\ identity.agent_class = "living_companion"
  /\ {identity.capabilities, identity.grant_refs, identity.budget_refs,
      identity.allowed_capabilities} = {{}}

requestedCapabilities(in) == IF in.service = "discovery" THEN {} ELSE {in.service}

\* Mutant: the grant is built for another type of message.
grantMisrouted(a) ==
  [grant_id |-> seed(a.input), subject_agent_id |-> a.input.identity.agent_id,
   authentication_ref |-> seed(a.input), authority_level |-> 1,
   capability_ids |-> requestedCapabilities(a.input), message_types |-> {"request"},
   permissions |-> {permission[a.input.service]}, budget_refs |-> {},
   parent_grant_ref |-> NULL, issued_at |-> a.at, expires_at |-> a.at + TTL,
   status |-> "active", revoked_at |-> NULL]

messageType(in) == IF in.service = "discovery" THEN "discovery" ELSE "proposal"

\* The temporary grant of a request.
grant(a) ==
  [grant_id |-> seed(a.input), subject_agent_id |-> a.input.identity.agent_id,
   authentication_ref |-> seed(a.input), authority_level |-> 1,
   capability_ids |-> requestedCapabilities(a.input),
   message_types |-> {messageType(a.input)},
   permissions |-> {permission[a.input.service]}, budget_refs |-> {},
   parent_grant_ref |-> NULL, issued_at |-> a.at, expires_at |-> a.at + TTL,
   status |-> "active", revoked_at |-> NULL]

\* The identity with the temporary grant and, for a companion, the capability.
scopedIdentity(a) ==
  LET in == a.input
  IN [in.identity EXCEPT
        !.grant_refs = @ \cup {seed(in)},
        !.capabilities = @ \cup requestedCapabilities(in),
        !.allowed_capabilities = @ \cup requestedCapabilities(in)]

\* Mutant: the nonce covers the time of building.
nonceTimed(a) == Append(seed(a.input), a.at)

nonce(a) == seed(a.input)

\* The payload of a proposal; the fields the two contracts do not share are
\* NULL where they do not occur.
proposal(in) ==
  [purpose |-> in.service, companion_principal_id |-> in.identity.agent_id,
   consent_receipt_ref |-> in.consent, client_request_id |-> in.request_id,
   user_message_id |-> in.user_message_id, expected_memory_version |-> in.version,
   target_namespace_ref |-> in.target_namespace_ref, content |-> in.content]

envelope(a) ==
  [message_id |-> seed(a.input), correlation_id |-> a.input.request_id,
   causation_id |->
     IF a.input.service = "memory" THEN a.input.version ELSE a.input.user_message_id,
   message_type |-> messageType(a.input),
   sender |-> [principal_type |-> "agent", id |-> a.input.identity.agent_id],
   recipient |-> [principal_type |-> "runtime_component", id |-> "brainstem"],
   authority_ref |-> seed(a.input), nonce |-> nonce(a),
   timestamp |-> a.at, expires_at |-> a.at + TTL,
   data_classification |->
     IF a.input.service = "discovery" THEN "internal" ELSE "confidential",
   requested_capability |-> IF a.input.service = "discovery" THEN NULL ELSE a.input.service,
   budget_ref |-> NULL,
   evidence_refs |-> {a.input.consent, a.input.target_namespace_ref} \ {NULL},
   authentication_ref |-> seed(a.input), delegation_ref |-> NULL,
   payload |-> IF a.input.service = "discovery" THEN NULL ELSE proposal(a.input)]

\* The shapes the contracts give to inputs.
Identity ==
  [agent_id : STRING, agent_class : STRING, capabilities : SUBSET STRING,
   prohibited_capabilities : SUBSET STRING, allowed_capabilities : SUBSET STRING,
   grant_refs : SUBSET Seq(STRING), ceiling : 0 .. 3, budget_refs : SUBSET STRING,
   lifecycle_state : STRING, revoked_at : Nat \cup {NULL}]

Query ==
  [action_types : SUBSET STRING, data_classification : STRING,
   risk_ceiling : DOMAIN riskOrder, result_limit : Nat \ {0}]

ASSUME InputsAssumption ==
  \A in \in Inputs :
    /\ in.service \in {"discovery", "communication", "memory"}
    /\ in.identity \in Identity
    /\ in.request_id \in Seq(STRING) /\ in.content \in Seq(STRING)
    /\ in.service = "discovery" => in.query \in Query
    /\ in.service # "discovery" => in.consent # NULL

\* The patterns of consent receipts and of namespaces have nothing in common.
ASSUME PatternsAssumption ==
  \A in, other \in Inputs : in.consent # NULL => in.consent # other.target_namespace_ref

ASSUME CatalogAssumption ==
  /\ IsFiniteSet(CatalogDocs)
  /\ \A d \in CatalogDocs : d.risk_ceiling \in DOMAIN riskOrder
  /\ CapabilityOrder \in [CatalogIds -> Nat]
  /\ \A c, d \in CatalogIds : CapabilityOrder[c] = CapabilityOrder[d] => c = d

ASSUME NullAssumption ==
  /\ NULL \notin {"communication", "memory"}
  /\ NULL \notin {companionCapability("communication"), companionCapability("memory")}
  /\ \A a \in [input : Inputs, at : 0 .. MaxTime] :
       NULL \notin {seed(a.input), grant(a), scopedIdentity(a)}

ASSUME BoundsAssumption ==
  /\ {maxCapabilities, maxEntries, Lag, MaxTime, MaxIssued, MaxAdmissions} \subseteq Nat
  /\ TTL \in Nat \ {0}

-----------------------------------------------------------------------------
(* The gateway of one request.                                             *)

\* A gateway in which the artifacts of a have been registered.
Gateway(a) ==
  INSTANCE AgentGateway WITH
    AgentIds <- {a.input.identity.agent_id}, GrantIds <- {seed(a.input)},
    CapabilityIds <- requestedCapabilities(a.input), RevocationIds <- {},
    IdentityDocs <- {scopedIdentity(a)}, GrantDocs <- {grant(a)},
    CapabilityDocs <- {companionCapability(s) : s \in requestedCapabilities(a.input)},
    Envelopes <- {envelope(a)}, componentAuthenticationRefs <- <<>>,
    MaxRevocations <- 0, MaxCascade <- 0, MaxEnvelopeTTL <- TTL, MaxFutureSkew <- 0,
    CallSpan <- 0,
    identities <- [x \in {a.input.identity.agent_id} |-> scopedIdentity(a)],
    capabilities <- [s \in requestedCapabilities(a.input) |-> companionCapability(s)],
    grants <- [g \in {seed(a.input)} |-> grant(a)],
    revocations <- <<>>, acceptCount <- [e \in {envelope(a)} |-> 0]

\* validateCompanionCommunicationProposal, validateCompanionMemoryProposal: the
\* fields of the contract, and the namespace that belongs to the principal.
ProposalValid(service, p) ==
  /\ p.purpose = service
  /\ p.user_message_id # NULL <=> service = "communication"
  /\ p.expected_memory_version # NULL <=> service = "memory"
  /\ p.target_namespace_ref =
       IF service = "memory" THEN namespaceOf[p.companion_principal_id] ELSE NULL

\* What the builders check.  The identity is validated as it comes and again
\* with its temporary scope; a communication is built for any lifecycle state,
\* and a companion's authority ceiling is not looked at.
Buildable(in) ==
  /\ Gateway([input |-> in, at |-> 0])!ValidIdentity(in.identity)
  /\ Gateway([input |-> in, at |-> 0])!ValidIdentity(scopedIdentity([input |-> in, at |-> 0]))
  /\ CASE in.service = "discovery" ->
            in.identity.lifecycle_state = "active" /\ in.identity.ceiling >= 1
       [] in.service = "communication" ->
            ScopeEmpty(in.identity) /\ ProposalValid("communication", proposal(in))
       [] in.service = "memory" ->
            /\ ScopeEmpty(in.identity)
            /\ in.identity.lifecycle_state = "active"
            /\ permission.memory \in in.permissions
            /\ in.namespace_refs = {in.target_namespace_ref}
            /\ ProposalValid("memory", proposal(in))

\* Registering the artifacts succeeds and the envelope is authorized at now.
Authorized(a, now) ==
  /\ Gateway(a)!ValidIdentity(scopedIdentity(a))
  /\ \A s \in requestedCapabilities(a.input) :
       Gateway(a)!ValidCapability(companionCapability(s))
  /\ Gateway(a)!ValidGrant(grant(a))
  /\ Gateway(a)!GrantWithinIdentity(grant(a))
  /\ Gateway(a)!GrantWithinParent(grant(a))
  /\ Gateway(a)!ValidEnvelope(envelope(a))
  /\ Gateway(a)!AuthorizeValidatedEnvelope(envelope(a), now)

\* The receipt of an admission: accepted_at is the request's now; `clock`
\* (history) is the guard's reading.
receipt(a, now) ==
  [message_id |-> seed(a.input), correlation_id |-> a.input.request_id,
   accepted_at |-> now, of |-> a, clock |-> clock]

\* acceptEnvelope of the request's gateway at now.
Accept(a, now) ==
  /\ Authorized(a, now)
  /\ Gateway(a)!Consumable(envelope(a), clock)
  /\ Len(admissions) < MaxAdmissions
  /\ entries' = Gateway(a)!Pruned(clock) \cup {Gateway(a)!Tombstone(envelope(a))}
  /\ admissions' = Append(admissions, receipt(a, now))

\* The guard refuses the envelope, after pruning.
Refused(a, now) ==
  /\ Authorized(a, now)
  /\ ~Gateway(a)!Consumable(envelope(a), clock)
  /\ entries' = Gateway(a)!Pruned(clock)

\* What a caller may have captured as `now`.
CapturedTimes == {now \in 0 .. clock : now + Lag >= clock}

-----------------------------------------------------------------------------
(* The catalog and discovery.                                              *)

Registered == {c \in CatalogIds : catalog[c] # NULL}

\* Mutant: off by one at the capacity of the catalog.
RegisterCapabilityOverCapacity(d, available) ==
  /\ IF d.capability_id \in Registered
     THEN catalog[d.capability_id].capability = d
     ELSE Cardinality(Registered) <= maxCapabilities
  /\ catalog' = [catalog EXCEPT
       ![d.capability_id] = [capability |-> d, available |-> available]]
  /\ UNCHANGED <<entries, clock, issued, admissions, result, decision>>

\* Registering the same capability again also sets its availability.
RegisterCapability(d, available) ==
  /\ IF d.capability_id \in Registered
     THEN catalog[d.capability_id].capability = d
     ELSE Cardinality(Registered) < maxCapabilities
  /\ catalog' = [catalog EXCEPT
       ![d.capability_id] = [capability |-> d, available |-> available]]
  /\ UNCHANGED <<entries, clock, issued, admissions, result, decision>>

SetAvailability(c, available) ==
  /\ c \in Registered
  /\ catalog' = [catalog EXCEPT ![c].available = available]
  /\ UNCHANGED <<entries, clock, issued, admissions, result, decision>>

Eligible(c, class, query) ==
  LET capability == catalog[c].capability
  IN /\ catalog[c].available
     /\ class \in capability.allowed_agent_classes
     /\ query.data_classification \in capability.data_classifications
     /\ riskOrder[capability.risk_ceiling] <= riskOrder[query.risk_ceiling]
     /\ query.action_types = {} \/ capability.action_type \in query.action_types

\* The ids of a set in localeCompare order: i - 1 of them precede the i-th.
sorted(S) ==
  [i \in 1 .. Cardinality(S) |->
     CHOOSE c \in S :
       Cardinality({d \in S : CapabilityOrder[d] < CapabilityOrder[c]}) = i - 1]

\* CapabilityDiscoveryCatalog.discover
discover(class, query) ==
  LET eligible == sorted({c \in Registered : Eligible(c, class, query)})
      count == IF Len(eligible) < query.result_limit THEN Len(eligible)
               ELSE query.result_limit
  IN [capabilities |-> SubSeq(eligible, 1, count), truncated |-> Len(eligible) > count]

\* executeCapabilityDiscovery: one synchronous call at the caller's now.
ExecuteDiscovery(in, now) ==
  LET a == [input |-> in, at |-> now]
  IN /\ in.service = "discovery" /\ Buildable(in)
     /\ \/ /\ Accept(a, now)
           /\ result' = [class |-> in.identity.agent_class, query |-> in.query,
                         listed |-> discover(in.identity.agent_class, in.query)]
        \/ Refused(a, now) /\ UNCHANGED <<admissions, result>>
     /\ UNCHANGED <<catalog, clock, issued, decision>>

-----------------------------------------------------------------------------
(* Companion proposals and Brainstem's decisions.                          *)

\* createCompanionCommunicationArtifacts, createCompanionMemoryProposalArtifacts
BuildProposal(in, now) ==
  /\ in.service # "discovery" /\ Buildable(in)
  /\ Cardinality(issued) < MaxIssued
  /\ issued' = issued \cup {[input |-> in, at |-> now]}
  /\ UNCHANGED <<catalog, entries, clock, admissions, result, decision>>

\* A host registers the artifacts in a new gateway and offers the envelope.
OfferProposal(a, now) ==
  /\ Accept(a, now) \/ (Refused(a, now) /\ UNCHANGED admissions)
  /\ UNCHANGED <<catalog, clock, issued, result, decision>>

\* Values of an envelope, and of its payload, that a decision reads.
EnvelopeValues ==
  {"message_id", "correlation_id", "causation_id", "message_type", "sender", "recipient",
   "authority_ref", "timestamp", "expires_at", "data_classification",
   "requested_capability", "evidence_refs"}

PayloadValues ==
  {"purpose", "companion_principal_id", "consent_receipt_ref", "client_request_id",
   "user_message_id", "expected_memory_version", "target_namespace_ref", "content"}

\* The envelope put before a decision: the one built for a, with its value of
\* k taken from the one built for b ("none" names no value).
presented(a, b, k) ==
  CASE k \in EnvelopeValues -> [envelope(a) EXCEPT ![k] = envelope(b)[k]]
    [] k \in PayloadValues -> [envelope(a) EXCEPT !.payload[k] = envelope(b).payload[k]]
    [] OTHER -> envelope(a)

\* Mutant: the causation is not compared with the payload.
RouteUncaused(service, e) ==
  /\ e.message_type = "proposal"
  /\ e.sender.principal_type = "agent"
  /\ e.recipient = [principal_type |-> "runtime_component", id |-> "brainstem"]
  /\ e.requested_capability = service
  /\ e.data_classification = "confidential"
  /\ e.correlation_id = e.payload.client_request_id
  /\ e.payload.consent_receipt_ref \in e.evidence_refs
  /\ service = "memory" => e.payload.target_namespace_ref \in e.evidence_refs

\* The envelope is a proposal to Brainstem whose references repeat its payload.
RouteValid(service, e) ==
  /\ e.message_type = "proposal"
  /\ e.sender.principal_type = "agent"
  /\ e.recipient = [principal_type |-> "runtime_component", id |-> "brainstem"]
  /\ e.requested_capability = service
  /\ e.data_classification = "confidential"
  /\ e.correlation_id = e.payload.client_request_id
  /\ e.causation_id = IF service = "memory" THEN e.payload.expected_memory_version
                      ELSE e.payload.user_message_id
  /\ e.payload.consent_receipt_ref \in e.evidence_refs
  /\ service = "memory" => e.payload.target_namespace_ref \in e.evidence_refs

\* Mutant: correlation ids are not compared.
AdmissionReceiptUncorrelated(r, e, now) ==
  /\ r.message_id = e.message_id
  /\ r.accepted_at >= e.timestamp /\ r.accepted_at < e.expires_at
  /\ r.accepted_at <= now

\* validateAdmissionReceipt.  That the decision itself is made within the
\* envelope's lifetime is not demanded.
AdmissionReceiptValid(r, e, now) ==
  /\ r.message_id = e.message_id
  /\ r.correlation_id = e.correlation_id
  /\ r.accepted_at >= e.timestamp /\ r.accepted_at < e.expires_at
  /\ r.accepted_at <= now

\* The identity built for c holds what this envelope needs and nothing else.
ScopeExact(service, c, e) ==
  LET identity == scopedIdentity(c)
  IN /\ identity.agent_class = "living_companion"
     /\ identity.agent_id = e.sender.id
     /\ identity.agent_id = e.payload.companion_principal_id
     /\ identity.ceiling = 1
     /\ identity.grant_refs = {e.authority_ref}
     /\ permission[service] \in c.input.permissions
     /\ identity.capabilities = {service}
     /\ identity.allowed_capabilities = {service}
     /\ service = "memory" => c.input.namespace_refs = {e.payload.target_namespace_ref}
     /\ identity.budget_refs = {}

\* inspect: the reason of the decision of the given service on an envelope,
\* the identity being the one built for c.
inspect(service, e, r, c, now) ==
  IF ~(Gateway(c)!ValidEnvelope(e) /\ ProposalValid(service, e.payload))
    THEN "proposal_contract_invalid"
  ELSE IF ~RouteValid(service, e) THEN "route_invalid"
  ELSE IF ~AdmissionReceiptValid(r, e, now) THEN "admission_receipt_invalid"
  ELSE IF c.input.identity.lifecycle_state # "active" THEN "principal_inactive"
  ELSE IF ~ScopeExact(service, c, e) THEN "authority_scope_invalid"
  ELSE "allowed"

\* decideCompanionCommunication and decideCompanionMemory.  `principal` and
\* `foreign` (history) are whose identity was shown and which value was
\* another envelope's.
Decide(service, a, b, k, r, c, now) ==
  LET e == presented(a, b, k)
      reason == inspect(service, e, r, c, now)
      approved == reason = "allowed"
  IN /\ IF k = "none" THEN a = b ELSE e # envelope(a)
     /\ decision' =
          [service |-> service, proposal_message_id |-> e.message_id,
           correlation_id |-> e.correlation_id, reason_class |-> reason,
           consent |-> IF approved THEN e.payload.consent_receipt_ref ELSE NULL,
           target_namespace_ref |->
             IF approved THEN e.payload.target_namespace_ref ELSE NULL,
           expected_memory_version |->
             IF approved THEN e.payload.expected_memory_version ELSE NULL,
           principal |-> c.input.identity.agent_id, foreign |-> k]
     /\ UNCHANGED <<catalog, entries, clock, issued, admissions, result>>

-----------------------------------------------------------------------------

Tick ==
  /\ clock < MaxTime
  /\ clock' = clock + 1
  /\ UNCHANGED <<catalog, entries, issued, admissions, result, decision>>

Init ==
  /\ catalog = [c \in CatalogIds |-> NULL]
  /\ entries = {}
  /\ clock = 0
  /\ issued = {}
  /\ admissions = <<>>
  /\ result = NULL
  /\ decision = NULL

CatalogStep ==
  \/ \E d \in CatalogDocs, available \in BOOLEAN : RegisterCapability(d, available)
  \/ \E c \in CatalogIds, available \in BOOLEAN : SetAvailability(c, available)

DiscoveryStep ==
  \E in \in Inputs, now \in CapturedTimes : ExecuteDiscovery(in, now)

ProposalStep ==
  \/ \E in \in Inputs, now \in CapturedTimes : BuildProposal(in, now)
  \/ \E a \in issued, now \in CapturedTimes : OfferProposal(a, now)

DecisionStep ==
  \E service \in {"communication", "memory"}, a, b, c \in issued,
     k \in EnvelopeValues \cup PayloadValues \cup {"none"},
     r \in ToSet(admissions), now \in CapturedTimes :
       Decide(service, a, b, k, r, c, now)

Next == CatalogStep \/ DiscoveryStep \/ ProposalStep \/ DecisionStep \/ Tick

Spec == Init /\ [][Next]_vars

-----------------------------------------------------------------------------
(* Properties.                                                             *)

\* Types, and the catalog within its capacity.
TypeOK ==
  /\ \A c \in CatalogIds : catalog[c] # NULL =>
       /\ catalog[c].capability \in CatalogDocs
       /\ catalog[c].capability.capability_id = c
       /\ catalog[c].available \in BOOLEAN
  /\ Cardinality(Registered) <= maxCapabilities
  /\ Cardinality(entries) <= maxEntries
  /\ clock \in 0 .. MaxTime
  /\ issued \subseteq [input : Inputs, at : 0 .. MaxTime]
  /\ \A i \in DOMAIN admissions : admissions[i].of.input \in Inputs

DiscoveryRequests == {in \in Inputs : in.service = "discovery" /\ Buildable(in)}

\* The documents the builders make satisfy every check of the gateway for
\* their whole lifetime: a request of an active agent that may be delegated to
\* is refused by the replay guard or not at all.  For other agents a
\* communication is built all the same, but never authorized.
FreshArtifactsAuthorized ==
  \A a \in issued \cup {[input |-> in, at |-> clock] : in \in DiscoveryRequests} :
    \A now \in a.at .. (a.at + TTL) :
      Authorized(a, now) <=>
        /\ a.input.identity.lifecycle_state = "active"
        /\ a.input.identity.ceiling >= 1
        /\ now < a.at + TTL

\* A message id is admitted again only when the envelope admitted before has
\* expired on the guard's clock: building the request again, later, with
\* another content or another query, does not get round its tombstone.
AdmittedAgainAfterExpiry ==
  \A i, j \in DOMAIN admissions :
    i < j /\ admissions[i].message_id = admissions[j].message_id =>
      admissions[j].clock >= admissions[i].of.at + TTL

\* An approved decision rests on an admission by the gateway of a proposal of
\* the very agent whose identity was shown, active then, with the same consent
\* and request and, for a memory, the same namespace and expected version:
\* although ids are digests of texts joined with colons, decisions see
\* envelopes, receipts and identities in any combination, and one value of the
\* envelope may be another's.  Two values are taken on trust: the message id,
\* which nothing ties to the payload, and the content, which nothing compares.
ApprovedWasAdmitted ==
  decision # NULL /\ decision.reason_class = "allowed" /\ decision.foreign # "message_id" =>
    \E i \in DOMAIN admissions :
      LET in == admissions[i].of.input
      IN /\ in.service = decision.service
         /\ in.identity.agent_id = decision.principal
         /\ in.identity.lifecycle_state = "active"
         /\ in.consent = decision.consent
         /\ in.request_id = decision.correlation_id
         /\ in.service = "memory" =>
              /\ in.version = decision.expected_memory_version
              /\ in.namespace_refs = {decision.target_namespace_ref}

\* What is built can be admitted, what is admitted is not admitted again in
\* its lifetime, and what is approved was admitted.
AdmissionSound == FreshArtifactsAuthorized /\ AdmittedAgainAfterExpiry /\ ApprovedWasAdmitted
=============================================================================
