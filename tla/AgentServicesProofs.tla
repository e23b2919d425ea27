-------------------------- MODULE AgentServicesProofs --------------------------
(***************************************************************************)
(* Machine-checked facts about AgentServices, for every set of inputs and  *)
(* catalog documents and every value of the bounds.                        *)
(***************************************************************************)
EXTENDS AgentServices, SequenceTheorems, FiniteSetTheorems, TLAPS

Artifacts == [input : Inputs, at : 0 .. MaxTime]

(* ------------------------- the documents of a request ------------------- *)

\* The shape of the documents built for a request.
LEMMA DocumentShapes ==
  ASSUME NEW a \in Artifacts
  PROVE  /\ a.input \in Inputs /\ a.at \in Nat
         /\ a.input.service \in {"discovery", "communication", "memory"}
         /\ a.input.identity \in Identity
         /\ a.input.request_id \in Seq(STRING) /\ a.input.content \in Seq(STRING)
         /\ TTL \in Nat /\ TTL > 0
<1>1. a.input \in Inputs /\ a.at \in 0 .. MaxTime
  BY DEF Artifacts
<1> QED
  BY <1>1, InputsAssumption, BoundsAssumption

\* The scoped identity differs from the input's in what the request adds.
LEMMA ScopedFields ==
  ASSUME NEW a \in Artifacts
  PROVE  LET identity == a.input.identity
             scoped == scopedIdentity(a)
             requested == requestedCapabilities(a.input)
         IN /\ scoped.agent_class = identity.agent_class
            /\ scoped.agent_id = identity.agent_id
            /\ scoped.capabilities = identity.capabilities \cup requested
            /\ scoped.allowed_capabilities = identity.allowed_capabilities \cup requested
            /\ scoped.prohibited_capabilities = identity.prohibited_capabilities
            /\ scoped.grant_refs = identity.grant_refs \cup {seed(a.input)}
            /\ scoped.ceiling = identity.ceiling /\ scoped.ceiling \in Nat
            /\ scoped.lifecycle_state = identity.lifecycle_state
            /\ scoped.revoked_at = identity.revoked_at
<1>1. a.input.identity \in Identity
  BY DocumentShapes
<1> QED
  BY <1>1 DEF scopedIdentity, Identity

\* A seed begins with the service and the agent; a companion's goes on with
\* the consent, the request and, for a memory, the version.
LEMMA SeedParts ==
  ASSUME NEW in \in Inputs
  PROVE  /\ seed(in)[1] = in.service
         /\ seed(in)[2] = in.identity.agent_id
         /\ in.service # "discovery" => seed(in)[3] = in.consent
         /\ in.service = "memory" => seed(in)[4 + Len(in.request_id)] = in.version
<1>1. /\ in.service \in {"discovery", "communication", "memory"}
      /\ in.request_id \in Seq(STRING) /\ in.content \in Seq(STRING)
  BY InputsAssumption
<1> DEFINE agent == in.identity.agent_id
<1>2. CASE in.service = "discovery"
  <2>1. seed(in) = <<"discovery", agent>> \o in.request_id
    BY <1>2 DEF seed
  <2> QED
    BY <1>1, <1>2, <2>1
<1>3. CASE in.service = "communication"
  <2>1. seed(in) = <<"communication", agent, in.consent>> \o in.request_id
    BY <1>3 DEF seed
  <2> QED
    BY <1>1, <1>3, <2>1
<1>4. CASE in.service = "memory"
  <2> DEFINE head == <<"memory", agent, in.consent>> \o in.request_id
             body == head \o <<in.version>>
             T == STRING \cup {"memory", agent, in.consent, in.version}
  <2>1. seed(in) = body \o in.content
    BY <1>4 DEF seed
  <2>2. in.request_id \in Seq(T) /\ in.content \in Seq(T) /\ Len(in.request_id) \in Nat
    BY <1>1
  <2>3. /\ head \in Seq(T) /\ Len(head) = 3 + Len(in.request_id)
        /\ head[1] = "memory" /\ head[2] = agent /\ head[3] = in.consent
    BY <2>2
  <2> HIDE DEF head
  <2>4. /\ body \in Seq(T) /\ Len(body) = 4 + Len(in.request_id)
        /\ body[1] = "memory" /\ body[2] = agent /\ body[3] = in.consent
        /\ body[4 + Len(in.request_id)] = in.version
    <3>1. <<in.version>> \in Seq(T) /\ Len(<<in.version>>) = 1 /\ <<in.version>>[1] = in.version
      OBVIOUS
    <3>2. body \in Seq(T) /\ Len(body) = 4 + Len(in.request_id)
      BY <2>2, <2>3, <3>1
    <3>3. \A i \in 1 .. Len(head) : body[i] = head[i]
      BY <2>2, <2>3, <3>1
    <3>4. body[Len(head) + 1] = in.version
      BY <2>2, <2>3, <3>1
    <3> QED
      BY <2>2, <2>3, <3>2, <3>3, <3>4
  <2> HIDE DEF body
  <2>5. \A i \in 1 .. Len(body) : (body \o in.content)[i] = body[i]
    BY <2>2, <2>4
  <2> QED
    BY <1>4, <2>1, <2>2, <2>4, <2>5
<1> QED
  BY <1>1, <1>2, <1>3, <1>4

\* What the gateway of a request looks up, document by document.
LEMMA GatewayFields ==
  ASSUME NEW a \in Artifacts
  PROVE  /\ grant(a).grant_id = seed(a.input)
         /\ grant(a).subject_agent_id = a.input.identity.agent_id
         /\ grant(a).authentication_ref = seed(a.input)
         /\ grant(a).authority_level = 1
         /\ grant(a).capability_ids = requestedCapabilities(a.input)
         /\ grant(a).message_types = {messageType(a.input)}
         /\ grant(a).permissions = {permission[a.input.service]}
         /\ grant(a).budget_refs = {} /\ grant(a).parent_grant_ref = NULL
         /\ grant(a).issued_at = a.at /\ grant(a).expires_at = a.at + TTL
         /\ grant(a).status = "active" /\ grant(a).revoked_at = NULL
         /\ seed(a.input) # NULL /\ grant(a) # NULL /\ scopedIdentity(a) # NULL
<1>1. NULL \notin {seed(a.input), grant(a), scopedIdentity(a)}
  BY NullAssumption DEF Artifacts
<1> QED
  BY <1>1 DEF grant

LEMMA EnvelopeFields ==
  ASSUME NEW a \in Artifacts
  PROVE  /\ envelope(a).message_type = messageType(a.input)
         /\ envelope(a).sender = [principal_type |-> "agent", id |-> a.input.identity.agent_id]
         /\ envelope(a).sender.principal_type = "agent"
         /\ envelope(a).sender.id = a.input.identity.agent_id
         /\ envelope(a).recipient = [principal_type |-> "runtime_component", id |-> "brainstem"]
         /\ envelope(a).recipient.principal_type = "runtime_component"
         /\ envelope(a).authority_ref = seed(a.input)
         /\ envelope(a).nonce = seed(a.input)
         /\ envelope(a).timestamp = a.at /\ envelope(a).expires_at = a.at + TTL
         /\ envelope(a).data_classification =
              IF a.input.service = "discovery" THEN "internal" ELSE "confidential"
         /\ envelope(a).requested_capability =
              IF a.input.service = "discovery" THEN NULL ELSE a.input.service
         /\ envelope(a).budget_ref = NULL /\ envelope(a).delegation_ref = NULL
         /\ envelope(a).authentication_ref = seed(a.input)
BY DEF envelope, nonce

\* The artifacts of a buildable request pass the gateway's registration when
\* the agent's ceiling admits a delegation at all.
LEMMA RegistrationAccepts ==
  ASSUME NEW a \in Artifacts, Buildable(a.input)
  PROVE  /\ Gateway(a)!ValidIdentity(scopedIdentity(a))
         /\ \A s \in requestedCapabilities(a.input) :
              Gateway(a)!ValidCapability(companionCapability(s))
         /\ Gateway(a)!ValidGrant(grant(a))
         /\ Gateway(a)!GrantWithinParent(grant(a))
         /\ Gateway(a)!ValidEnvelope(envelope(a))
         /\ Gateway(a)!GrantWithinIdentity(grant(a)) <=> a.input.identity.ceiling >= 1
<1> DEFINE b == [input |-> a.input, at |-> 0]
           C == requestedCapabilities(a.input)
<1>1. b \in Artifacts /\ b.input = a.input
  BY BoundsAssumption DEF Artifacts
<1>2. Gateway(b)!ValidIdentity(scopedIdentity(b))
  BY DEF Buildable
<1>3. Gateway(a)!ValidIdentity(scopedIdentity(a))
  <2>1. scopedIdentity(a) = scopedIdentity(b)
    BY <1>1 DEF scopedIdentity
  <2> QED
    BY <1>2, <2>1 DEF Gateway!ValidIdentity
<1>4. \A s \in C : Gateway(a)!ValidCapability(companionCapability(s))
  BY DEF Gateway!ValidCapability, companionCapability
<1>5. Gateway(a)!ValidGrant(grant(a))
  <2>1. a.at \in Nat /\ TTL \in Nat /\ TTL > 0
    BY DocumentShapes
  <2>2. /\ grant(a).message_types # {}
        /\ grant(a).expires_at = a.at + TTL /\ grant(a).issued_at = a.at
        /\ grant(a).status = "active" /\ grant(a).revoked_at = NULL
    BY GatewayFields
  <2> QED
    BY <2>1, <2>2 DEF Gateway!ValidGrant
<1>6. Gateway(a)!GrantWithinParent(grant(a))
  BY GatewayFields DEF Gateway!GrantWithinParent
<1>7. Gateway(a)!ValidEnvelope(envelope(a))
  <2>1. a.at \in Nat /\ TTL \in Nat /\ TTL > 0
    BY DocumentShapes
  <2>2. envelope(a).timestamp = a.at /\ envelope(a).expires_at = a.at + TTL
    BY EnvelopeFields
  <2> QED
    BY <2>1, <2>2 DEF Gateway!ValidEnvelope
<1>8. Gateway(a)!GrantWithinIdentity(grant(a)) <=> a.input.identity.ceiling >= 1
  <2>1. \A s \in C : companionCapability(s) # NULL
    BY NullAssumption, DocumentShapes DEF requestedCapabilities
  <2>2. scopedIdentity(a).capabilities \cap scopedIdentity(a).prohibited_capabilities = {}
    BY <1>3 DEF Gateway!ValidIdentity
  <2>3. /\ grant(a).subject_agent_id = a.input.identity.agent_id
        /\ grant(a).grant_id = seed(a.input)
        /\ grant(a).authority_level = 1
        /\ grant(a).capability_ids = C
        /\ scopedIdentity(a) # NULL
    BY GatewayFields
  <2>4. /\ seed(a.input) \in scopedIdentity(a).grant_refs
        /\ C \subseteq scopedIdentity(a).capabilities
        /\ scopedIdentity(a).ceiling = a.input.identity.ceiling
        /\ a.input.identity.ceiling \in Nat
    BY ScopedFields
  <2> QED
    BY <2>1, <2>2, <2>3, <2>4 DEF Gateway!GrantWithinIdentity
<1> QED
  BY <1>3, <1>4, <1>5, <1>6, <1>7, <1>8

\* The envelope is authorized exactly while it is valid and its sender active.
LEMMA GatewayAuthorizes ==
  ASSUME NEW a \in Artifacts, Buildable(a.input), NEW now \in a.at .. (a.at + TTL)
  PROVE  Gateway(a)!AuthorizeValidatedEnvelope(envelope(a), now)
         <=> a.input.identity.lifecycle_state = "active" /\ now < a.at + TTL
<1> DEFINE e == envelope(a)
           identity == a.input.identity
<1>1. now \in Int /\ a.at <= now
  BY DocumentShapes
<1>2. Gateway(a)!ActiveAgent(e.sender.id) <=> identity.lifecycle_state = "active"
  BY GatewayFields, EnvelopeFields, ScopedFields DEF Gateway!ActiveAgent
<1>3. now < a.at + TTL => Gateway(a)!CitesLiveGrant(e, now)
  BY <1>1, GatewayFields, EnvelopeFields DEF Gateway!CitesLiveGrant
<1>4. ASSUME now < a.at + TTL, identity.lifecycle_state = "active"
      PROVE  Gateway(a)!AuthorizeAgentEnvelope(e, now)
  <2>1. CASE a.input.service = "discovery"
    <3>1. /\ e.message_type = "discovery"
          /\ e.requested_capability = NULL /\ e.data_classification = "internal"
          /\ requestedCapabilities(a.input) = {}
      BY <2>1, EnvelopeFields DEF messageType, requestedCapabilities
    <3>2. permission[a.input.service] = "capability.discover"
      BY <2>1 DEF permission
    <3>3. Gateway(a)!AuthorizeDiscovery(e, now)
      BY <1>3, <1>4, <2>1, <3>1, <3>2, GatewayFields, EnvelopeFields
         DEF Gateway!AuthorizeDiscovery, Gateway!ToComponent, messageType
    <3> QED
      BY <1>2, <1>4, <3>1, <3>3, GatewayFields, EnvelopeFields
         DEF Gateway!AuthorizeAgentEnvelope, Gateway!directAgentExecutionTypes
  <2>2. CASE a.input.service # "discovery"
    <3> DEFINE service == a.input.service
    <3>1. /\ e.message_type = "proposal"
          /\ e.requested_capability = service
          /\ e.data_classification = "confidential"
          /\ service \in {"communication", "memory"} /\ service # NULL
          /\ requestedCapabilities(a.input) = {service}
      BY <2>2, EnvelopeFields, DocumentShapes, NullAssumption
         DEF messageType, requestedCapabilities
    <3>2. ScopeEmpty(identity) /\ identity.agent_class = "living_companion"
      BY <3>1 DEF Buildable, ScopeEmpty
    <3>3. /\ companionCapability(service) # NULL
          /\ companionCapability(service).allowed_agent_classes = {"living_companion"}
          /\ companionCapability(service).data_classifications = {"confidential"}
          /\ companionCapability(service).required_authority = 1
      BY <3>1, NullAssumption DEF companionCapability
    <3>4. scopedIdentity(a).capabilities \cap scopedIdentity(a).prohibited_capabilities = {}
      BY RegistrationAccepts DEF Gateway!ValidIdentity
    <3>5. Gateway(a)!ParentInForce(grant(a), now)
      BY GatewayFields DEF Gateway!ParentInForce
    <3>6. /\ scopedIdentity(a).agent_class = "living_companion"
          /\ service \in scopedIdentity(a).capabilities
          /\ service \in scopedIdentity(a).allowed_capabilities
          /\ service \notin scopedIdentity(a).prohibited_capabilities
      BY <3>1, <3>2, <3>4, ScopedFields
    <3>7. /\ e.sender.id = identity.agent_id
          /\ e.authority_ref = seed(a.input) /\ e.timestamp = a.at
          /\ e.delegation_ref = NULL /\ e.budget_ref = NULL
      BY EnvelopeFields
    <3>8. /\ grant(a).issued_at = a.at /\ grant(a).parent_grant_ref = NULL
          /\ service \in grant(a).capability_ids
          /\ "proposal" \in grant(a).message_types
          /\ grant(a).authority_level = 1
      BY <3>1, EnvelopeFields, GatewayFields
    <3>9. a.at \in Nat
      BY DocumentShapes
    <3>10. Gateway(a)!AuthorizeCapabilityUse(e, now)
      BY <1>3, <1>4, <3>1, <3>3, <3>5, <3>6, <3>7, <3>8, <3>9
         DEF Gateway!AuthorizeCapabilityUse
    <3> QED
      BY <1>2, <1>4, <3>1, <3>10, GatewayFields, EnvelopeFields
         DEF Gateway!AuthorizeAgentEnvelope, Gateway!directAgentExecutionTypes
  <2> QED
    BY <2>1, <2>2
<1>5. Gateway(a)!AuthorizeAgentEnvelope(e, now) => identity.lifecycle_state = "active"
  BY <1>2 DEF Gateway!AuthorizeAgentEnvelope
<1>6. /\ e.timestamp = a.at /\ e.expires_at = a.at + TTL
      /\ e.sender.principal_type = "agent"
      /\ e.recipient.principal_type = "runtime_component"
  BY EnvelopeFields
<1>7. a.at \in Nat /\ TTL \in Nat
  BY DocumentShapes
<1> QED
  BY <1>1, <1>4, <1>5, <1>6, <1>7 DEF Gateway!AuthorizeValidatedEnvelope

\* What is built is authorized for its lifetime, if its agent is active and
\* may be delegated to, and otherwise never.
LEMMA AuthorizedInLifetime ==
  ASSUME NEW a \in Artifacts, Buildable(a.input), NEW now \in a.at .. (a.at + TTL)
  PROVE  Authorized(a, now) <=>
           /\ a.input.identity.lifecycle_state = "active"
           /\ a.input.identity.ceiling >= 1
           /\ now < a.at + TTL
BY RegistrationAccepts, GatewayAuthorizes DEF Authorized

(* ------------------------- the inductive invariant ---------------------- *)

ReceiptOf(a, n, c) ==
  [message_id |-> seed(a.input), correlation_id |-> a.input.request_id,
   accepted_at |-> n, of |-> a, clock |-> c]

Receipts == {ReceiptOf(a, n, c) : a \in Artifacts, n \in Nat, c \in Nat}

CatalogTypes ==
  /\ catalog \in [CatalogIds -> [capability : CatalogDocs, available : BOOLEAN] \cup {NULL}]
  /\ \A c \in CatalogIds : catalog[c] # NULL => catalog[c].capability.capability_id = c
  /\ Cardinality(Registered) <= maxCapabilities

GuardTypes ==
  /\ IsFiniteSet(entries) /\ Cardinality(entries) <= maxEntries
  /\ clock \in 0 .. MaxTime

RequestTypes ==
  /\ issued \in SUBSET Artifacts
  /\ \A a \in issued : Buildable(a.input) /\ a.input.service # "discovery"
  /\ admissions \in Seq(Receipts)

TombstoneOf(a) ==
  [sender |-> [principal_type |-> "agent", id |-> a.input.identity.agent_id],
   nonce |-> seed(a.input), expires_at |-> a.at + TTL]

\* A memory is proposed for the agent's own namespace.
OwnNamespace(in) ==
  in.service = "memory" => in.namespace_refs = {namespaceOf[in.identity.agent_id]}

LEMMA BuildableOwnNamespace ==
  ASSUME NEW in \in Inputs, Buildable(in)
  PROVE  OwnNamespace(in)
<1> SUFFICES ASSUME in.service = "memory"
             PROVE  in.namespace_refs = {namespaceOf[in.identity.agent_id]}
  BY DEF OwnNamespace
<1>1. in.namespace_refs = {in.target_namespace_ref} /\ ProposalValid("memory", proposal(in))
  BY Zenon DEF Buildable
<1>2. in.target_namespace_ref = namespaceOf[in.identity.agent_id]
  BY <1>1 DEF ProposalValid, proposal
<1> QED
  BY <1>1, <1>2

\* What was admitted kept to its namespace, its agent was active, and until the admitted envelope expires on
\* the guard's own clock its tombstone is in the guard.
Held ==
  \A i \in DOMAIN admissions :
    /\ OwnNamespace(admissions[i].of.input)
    /\ admissions[i].of.input.identity.lifecycle_state = "active"
    /\ admissions[i].of.at + TTL > clock => TombstoneOf(admissions[i].of) \in entries

ServicesInv ==
  /\ CatalogTypes /\ GuardTypes /\ RequestTypes
  /\ Held /\ AdmittedAgainAfterExpiry /\ ApprovedWasAdmitted

LEMMA ReceiptFields ==
  ASSUME NEW r \in Receipts
  PROVE  /\ r.of \in Artifacts /\ r.message_id = seed(r.of.input)
         /\ r.correlation_id = r.of.input.request_id
         /\ r.clock \in Nat
<1>1. PICK a \in Artifacts, n \in Nat, c \in Nat : r = ReceiptOf(a, n, c)
  BY DEF Receipts
<1> QED
  BY <1>1 DEF ReceiptOf

\* An artifact built at a captured time.
LEMMA CapturedArtifact ==
  ASSUME GuardTypes, NEW in \in Inputs, NEW now \in CapturedTimes
  PROVE  /\ [input |-> in, at |-> now] \in Artifacts
         /\ now \in Nat /\ now <= clock /\ clock \in Nat
BY BoundsAssumption DEF GuardTypes, CapturedTimes, Artifacts

\* Pruning shrinks the guard and removes what has expired only.
LEMMA PruneKeeps ==
  ASSUME GuardTypes, NEW a
  PROVE  /\ IsFiniteSet(Gateway(a)!Pruned(clock))
         /\ Cardinality(Gateway(a)!Pruned(clock)) \in Nat
         /\ Cardinality(Gateway(a)!Pruned(clock)) <= Cardinality(entries)
         /\ Gateway(a)!Pruned(clock) = {t \in entries : t.expires_at > clock}
<1>1. Gateway(a)!Pruned(clock) = {t \in entries : t.expires_at > clock}
  BY DEF Gateway!Pruned
<1>2. Gateway(a)!Pruned(clock) \subseteq entries
  BY <1>1
<1> QED
  BY <1>1, <1>2, FS_Subset, FS_CardinalityType DEF GuardTypes

\* The documents of the guard a request leaves behind.
LEMMA RequestTombstone ==
  ASSUME NEW a \in Artifacts
  PROVE  /\ Gateway(a)!Tombstone(envelope(a)) = TombstoneOf(a)
         /\ TombstoneOf(a).sender = envelope(a).sender
         /\ TombstoneOf(a).nonce = envelope(a).nonce
         /\ TombstoneOf(a).expires_at = a.at + TTL
BY EnvelopeFields DEF Gateway!Tombstone, TombstoneOf

\* Tombstones of envelopes with one message id block each other.
LEMMA SameSeedSameKey ==
  ASSUME NEW a \in Artifacts, NEW b \in Artifacts, seed(a.input) = seed(b.input)
  PROVE  /\ TombstoneOf(a).sender = TombstoneOf(b).sender
         /\ TombstoneOf(a).nonce = TombstoneOf(b).nonce
<1>1. a.input \in Inputs /\ b.input \in Inputs
  BY DocumentShapes
<1>2. a.input.identity.agent_id = b.input.identity.agent_id
  BY <1>1, SeedParts
<1> QED
  BY <1>2 DEF TombstoneOf

\* Authorization needs an active sender.
LEMMA AuthorizedIsActive ==
  ASSUME NEW a \in Artifacts, NEW now, Authorized(a, now)
  PROVE  a.input.identity.lifecycle_state = "active"
<1>1. envelope(a).sender.principal_type = "agent"
  BY EnvelopeFields
<1>2. Gateway(a)!AuthorizeAgentEnvelope(envelope(a), now)
  BY <1>1 DEF Authorized, Gateway!AuthorizeValidatedEnvelope
<1>3. Gateway(a)!ActiveAgent(envelope(a).sender.id)
  BY <1>2 DEF Gateway!AuthorizeAgentEnvelope
<1> QED
  BY <1>3, EnvelopeFields, ScopedFields DEF Gateway!ActiveAgent

\* The gateway's Cardinality is Cardinality.
LEMMA GatewayCounts ==
  ASSUME NEW a, NEW S
  PROVE  Gateway(a)!Cardinality(S) = Cardinality(S)
BY DEF Gateway!Cardinality, Cardinality

\* What acceptEnvelope does to the guard and to the receipts.
LEMMA AcceptEffect ==
  ASSUME GuardTypes, RequestTypes, Held, AdmittedAgainAfterExpiry,
         NEW a \in Artifacts, Buildable(a.input), NEW now \in Nat,
         Accept(a, now), clock' = clock
  PROVE  /\ GuardTypes' /\ admissions' \in Seq(Receipts)
         /\ Held' /\ AdmittedAgainAfterExpiry'
         /\ \A i \in DOMAIN admissions :
              i \in DOMAIN admissions' /\ admissions'[i] = admissions[i]
<1> DEFINE r == receipt(a, now)
           n == Len(admissions)
           kept == Gateway(a)!Pruned(clock)
<1>1. clock \in Nat /\ n \in Nat /\ admissions \in Seq(Receipts)
  BY BoundsAssumption DEF GuardTypes, RequestTypes
<1>2. r \in Receipts /\ r.of = a /\ r.clock = clock /\ r.message_id = seed(a.input)
  BY <1>1 DEF receipt, ReceiptOf, Receipts
<1>3. admissions' = Append(admissions, r)
  BY DEF Accept
<1> HIDE DEF r
<1>4. /\ admissions' \in Seq(Receipts) /\ Len(admissions') = n + 1
      /\ DOMAIN admissions' = 1 .. (n + 1) /\ DOMAIN admissions = 1 .. n
      /\ admissions'[n + 1] = r
      /\ \A i \in 1 .. n : admissions'[i] = admissions[i]
  BY <1>1, <1>2, <1>3
<1>5. entries' = kept \cup {TombstoneOf(a)}
  BY RequestTombstone DEF Accept
<1>6. /\ IsFiniteSet(kept) /\ Cardinality(kept) \in Nat /\ Cardinality(kept) < maxEntries
      /\ kept = {t \in entries : t.expires_at > clock}
      /\ ~ \E t \in kept : t.sender = envelope(a).sender /\ t.nonce = envelope(a).nonce
  <2>1. Gateway(a)!Consumable(envelope(a), clock)
    BY DEF Accept
  <2>2. ~Gateway(a)!Has(envelope(a), clock) /\ Cardinality(kept) < maxEntries
    BY <2>1, GatewayCounts DEF Gateway!Consumable
  <2>3. ~ \E t \in kept : t.sender = envelope(a).sender /\ t.nonce = envelope(a).nonce
    BY <2>2 DEF Gateway!Has
  <2> QED
    BY <2>2, <2>3, PruneKeeps
<1> HIDE DEF kept
<1>7. GuardTypes'
  <2>1. /\ IsFiniteSet(kept \cup {TombstoneOf(a)})
        /\ Cardinality(kept \cup {TombstoneOf(a)}) \in
             {Cardinality(kept), Cardinality(kept) + 1}
    BY <1>6, FS_AddElement
  <2> QED
    BY <1>5, <1>6, <2>1, BoundsAssumption DEF GuardTypes
<1>8. \A i \in 1 .. n : /\ admissions[i] \in Receipts
                        /\ admissions[i].of \in Artifacts
                        /\ admissions[i].message_id = seed(admissions[i].of.input)
  BY <1>1, ReceiptFields
<1>9. Held'
  <2> SUFFICES ASSUME NEW i \in 1 .. (n + 1)
               PROVE  /\ OwnNamespace(admissions'[i].of.input)
                      /\ admissions'[i].of.input.identity.lifecycle_state = "active"
                      /\ admissions'[i].of.at + TTL > clock
                           => TombstoneOf(admissions'[i].of) \in entries'
    BY <1>4 DEF Held, TombstoneOf, OwnNamespace
  <2>1. CASE i = n + 1
    <3>1. OwnNamespace(a.input)
      BY DocumentShapes, BuildableOwnNamespace
    <3> QED
      BY <1>2, <1>4, <1>5, <2>1, <3>1, AuthorizedIsActive DEF Accept
  <2>2. CASE i \in 1 .. n
    <3>1. /\ admissions[i].of.input.identity.lifecycle_state = "active"
          /\ OwnNamespace(admissions[i].of.input)
      BY <1>4, <2>2 DEF Held
    <3>2. ASSUME admissions[i].of.at + TTL > clock
          PROVE  TombstoneOf(admissions[i].of) \in kept
      <4>1. TombstoneOf(admissions[i].of) \in entries
        BY <1>4, <2>2, <3>2 DEF Held
      <4>2. TombstoneOf(admissions[i].of).expires_at = admissions[i].of.at + TTL
        BY DEF TombstoneOf
      <4> QED
        BY <1>6, <3>2, <4>1, <4>2
    <3> QED
      BY <1>4, <1>5, <2>2, <3>1, <3>2
  <2> QED
    BY <1>1, <2>1, <2>2
<1>10. \A i \in 1 .. n : admissions[i].message_id = seed(a.input)
                        => clock >= admissions[i].of.at + TTL
  <2> SUFFICES ASSUME NEW i \in 1 .. n, admissions[i].message_id = seed(a.input),
                      admissions[i].of.at + TTL > clock
               PROVE  FALSE
    <3>1. \A i \in 1 .. n : admissions[i].of.at + TTL \in Nat
      BY <1>8, DocumentShapes
    <3> QED
      BY <1>1, <3>1
  <2> DEFINE b == admissions[i].of
  <2>1. b \in Artifacts /\ seed(b.input) = seed(a.input)
    BY <1>8
  <2>2. TombstoneOf(b) \in entries
    BY <1>4 DEF Held
  <2>3. TombstoneOf(b) \in kept
    BY <1>6, <2>1, <2>2, RequestTombstone
  <2>4. TombstoneOf(b).sender = envelope(a).sender /\ TombstoneOf(b).nonce = envelope(a).nonce
    BY <2>1, SameSeedSameKey, RequestTombstone
  <2> QED
    BY <1>6, <2>3, <2>4
<1>11. AdmittedAgainAfterExpiry'
  <2> SUFFICES ASSUME NEW i \in 1 .. (n + 1), NEW j \in 1 .. (n + 1), i < j,
                      admissions'[i].message_id = admissions'[j].message_id
               PROVE  admissions'[j].clock >= admissions'[i].of.at + TTL
    BY <1>4 DEF AdmittedAgainAfterExpiry
  <2>1. i \in 1 .. n
    BY <1>1
  <2>2. CASE j = n + 1
    BY <1>2, <1>4, <1>10, <2>1, <2>2
  <2>3. CASE j \in 1 .. n
    BY <1>4, <2>1, <2>3 DEF AdmittedAgainAfterExpiry
  <2> QED
    BY <1>1, <2>2, <2>3
<1> QED
  BY <1>1, <1>4, <1>7, <1>9, <1>11

\* What a refusal by the guard does.
LEMMA RefusedEffect ==
  ASSUME GuardTypes, RequestTypes, Held, NEW a \in Artifacts, NEW now,
         Refused(a, now), clock' = clock, admissions' = admissions
  PROVE  GuardTypes' /\ Held'
<1>1. entries' = {t \in entries : t.expires_at > clock}
  BY PruneKeeps DEF Refused
<1>2. GuardTypes'
  <2>1. IsFiniteSet(entries') /\ Cardinality(entries') <= Cardinality(entries)
        /\ Cardinality(entries') \in Nat /\ Cardinality(entries) \in Nat
    BY <1>1, FS_Subset, FS_CardinalityType DEF GuardTypes
  <2> QED
    BY <2>1, BoundsAssumption DEF GuardTypes
<1>3. Held'
  <2> SUFFICES ASSUME NEW i \in DOMAIN admissions, admissions[i].of.at + TTL > clock
               PROVE  TombstoneOf(admissions[i].of) \in entries'
    BY DEF Held, TombstoneOf
  <2>1. TombstoneOf(admissions[i].of).expires_at = admissions[i].of.at + TTL
    BY DEF TombstoneOf
  <2> QED
    BY <1>1, <2>1 DEF Held
<1> QED
  BY <1>2, <1>3

\* Whether a request can be built does not depend on the state.
LEMMA BuildableIsConstant ==
  ASSUME NEW a \in Artifacts, Buildable(a.input)
  PROVE  Buildable(a.input)'
BY DEF Buildable, Gateway!ValidIdentity, scopedIdentity, ScopeEmpty, permission,
       seed, requestedCapabilities, ProposalValid, proposal

\* Receipts are only added, so a decision keeps the admission it rests on.
LEMMA ApprovalKept ==
  ASSUME ApprovedWasAdmitted, decision' = decision,
         \A i \in DOMAIN admissions :
           i \in DOMAIN admissions' /\ admissions'[i] = admissions[i]
  PROVE  ApprovedWasAdmitted'
BY DEF ApprovedWasAdmitted

LEMMA CatalogIsFinite == IsFiniteSet(CatalogIds)
<1> DEFINE f == [d \in CatalogDocs |-> d.capability_id]
<1>1. f \in Surjection(CatalogDocs, CatalogIds)
  BY DEF CatalogIds, Surjection
<1> QED
  BY <1>1, CatalogAssumption, FS_Surjection

\* CapabilityDiscoveryCatalog keeps its limit.
LEMMA CatalogBounded ==
  ASSUME CatalogTypes, NEW c \in CatalogIds, Registered' \subseteq Registered \cup {c},
         c \in Registered \/ Cardinality(Registered) < maxCapabilities
  PROVE  Cardinality(Registered') <= maxCapabilities
<1>1. IsFiniteSet(CatalogIds)
  BY CatalogIsFinite
<1>2. IsFiniteSet(Registered) /\ Cardinality(Registered) \in Nat
  BY <1>1, FS_Subset, FS_CardinalityType DEF Registered
<1>3. /\ IsFiniteSet(Registered \cup {c})
      /\ Cardinality(Registered \cup {c}) \in Nat
      /\ Cardinality(Registered \cup {c}) <= maxCapabilities
  BY <1>2, FS_AddElement, BoundsAssumption DEF CatalogTypes
<1>4. /\ Cardinality(Registered') <= Cardinality(Registered \cup {c})
      /\ Cardinality(Registered') \in Nat
  BY <1>3, FS_Subset, FS_CardinalityType
<1> QED
  BY <1>3, <1>4, BoundsAssumption

LEMMA CatalogStepKeeps ==
  ASSUME CatalogTypes, CatalogStep
  PROVE  CatalogTypes' /\ UNCHANGED <<entries, clock, issued, admissions, result, decision>>
<1>1. ASSUME NEW d \in CatalogDocs, NEW available \in BOOLEAN,
             RegisterCapability(d, available)
      PROVE  CatalogTypes' /\ UNCHANGED <<entries, clock, issued, admissions, result, decision>>
  <2> DEFINE c == d.capability_id
             entry == [capability |-> d, available |-> available]
  <2>1. c \in CatalogIds /\ entry \in [capability : CatalogDocs, available : BOOLEAN]
    BY DEF CatalogIds
  <2>2. /\ catalog' = [catalog EXCEPT ![c] = entry]
        /\ c \in Registered \/ Cardinality(Registered) < maxCapabilities
    BY <1>1 DEF RegisterCapability
  <2>3. entry.capability = d
    OBVIOUS
  <2> HIDE DEF entry
  <2>4. /\ catalog' \in [CatalogIds -> [capability : CatalogDocs, available : BOOLEAN] \cup {NULL}]
        /\ catalog'[c] = entry
        /\ \A x \in CatalogIds : x # c => catalog'[x] = catalog[x]
    BY <2>1, <2>2 DEF CatalogTypes
  <2>5. \A x \in CatalogIds : catalog'[x] # NULL => catalog'[x].capability.capability_id = x
    BY <2>3, <2>4 DEF CatalogTypes
  <2>6. Registered' \subseteq Registered \cup {c}
    BY <2>4 DEF Registered
  <2>7. Cardinality(Registered') <= maxCapabilities
    BY <2>1, <2>2, <2>6, CatalogBounded
  <2> QED
    BY <1>1, <2>4, <2>5, <2>7 DEF RegisterCapability, CatalogTypes
<1>2. ASSUME NEW c \in CatalogIds, NEW available \in BOOLEAN, SetAvailability(c, available)
      PROVE  CatalogTypes' /\ UNCHANGED <<entries, clock, issued, admissions, result, decision>>
  <2>1. /\ c \in Registered
        /\ catalog' = [catalog EXCEPT ![c].available = available]
    BY <1>2 DEF SetAvailability
  <2>2. catalog[c] # NULL /\ catalog[c] \in [capability : CatalogDocs, available : BOOLEAN]
    BY <2>1 DEF Registered, CatalogTypes
  <2>3. PICK entry : entry = [catalog[c] EXCEPT !.available = available]
    OBVIOUS
  <2>4. /\ entry \in [capability : CatalogDocs, available : BOOLEAN]
        /\ entry.capability = catalog[c].capability
    BY <2>2, <2>3
  <2>5. /\ catalog' \in [CatalogIds -> [capability : CatalogDocs, available : BOOLEAN] \cup {NULL}]
        /\ catalog'[c] = entry
        /\ \A x \in CatalogIds : x # c => catalog'[x] = catalog[x]
    BY <2>1, <2>3, <2>4 DEF CatalogTypes
  <2>6. \A x \in CatalogIds : catalog'[x] # NULL => catalog'[x].capability.capability_id = x
    BY <2>2, <2>4, <2>5 DEF CatalogTypes
  <2>7. Registered' \subseteq Registered \cup {c}
    BY <2>5 DEF Registered
  <2>8. Cardinality(Registered') <= maxCapabilities
    BY <2>1, <2>7, CatalogBounded
  <2> QED
    BY <1>2, <2>5, <2>6, <2>8 DEF SetAvailability, CatalogTypes
<1> QED
  BY <1>1, <1>2 DEF CatalogStep

\* What a decision reads in the envelope put before it.
LEMMA PresentedValues ==
  ASSUME NEW a \in Artifacts, NEW b \in Artifacts,
         a.input.service # "discovery", b.input.service # "discovery",
         NEW k \in EnvelopeValues \cup PayloadValues \cup {"none"}
  PROVE  LET e == presented(a, b, k)
             of(x) == IF k = x THEN b ELSE a
         IN /\ e.message_id = seed(of("message_id").input)
            /\ e.correlation_id = of("correlation_id").input.request_id
            /\ e.causation_id = envelope(of("causation_id")).causation_id
            /\ e.sender.id = of("sender").input.identity.agent_id
            /\ e.requested_capability = of("requested_capability").input.service
            /\ e.evidence_refs = envelope(of("evidence_refs")).evidence_refs
            /\ e.payload.purpose = of("purpose").input.service
            /\ e.payload.companion_principal_id =
                 of("companion_principal_id").input.identity.agent_id
            /\ e.payload.consent_receipt_ref = of("consent_receipt_ref").input.consent
            /\ e.payload.client_request_id = of("client_request_id").input.request_id
            /\ e.payload.user_message_id = of("user_message_id").input.user_message_id
            /\ e.payload.expected_memory_version = of("expected_memory_version").input.version
            /\ e.payload.target_namespace_ref =
                 of("target_namespace_ref").input.target_namespace_ref
<1>1. CASE k \in EnvelopeValues
  <2>1. presented(a, b, k) = [envelope(a) EXCEPT ![k] = envelope(b)[k]]
    <3>1. k \notin PayloadValues
      BY <1>1 DEF EnvelopeValues, PayloadValues
    <3> QED
      BY <1>1, <3>1 DEF presented
  <2>2. envelope(a).payload = proposal(a.input)
    BY DEF envelope
  <2>3. /\ presented(a, b, k).payload = proposal(a.input)
        /\ k \notin {"purpose", "companion_principal_id", "consent_receipt_ref",
                    "client_request_id", "user_message_id", "expected_memory_version",
                    "target_namespace_ref"}
    BY <1>1, <2>1, <2>2 DEF EnvelopeValues, envelope
  <2>4. LET e == presented(a, b, k)
            of(x) == IF k = x THEN b ELSE a
        IN /\ e.message_id = seed(of("message_id").input)
           /\ e.correlation_id = of("correlation_id").input.request_id
           /\ e.causation_id = envelope(of("causation_id")).causation_id
           /\ e.sender.id = of("sender").input.identity.agent_id
           /\ e.requested_capability = of("requested_capability").input.service
           /\ e.evidence_refs = envelope(of("evidence_refs")).evidence_refs
    BY <1>1, <2>1 DEF EnvelopeValues, envelope
  <2> QED
    BY <2>3, <2>4 DEF proposal
<1>2. CASE k \in PayloadValues
  BY <1>2 DEF presented, EnvelopeValues, PayloadValues, envelope, proposal
<1>3. CASE k = "none"
  BY <1>3 DEF presented, EnvelopeValues, PayloadValues, envelope, proposal
<1> QED
  BY <1>1, <1>2, <1>3

\* An approval names the agent, the consent, the request, the version and the
\* namespace of an admitted proposal: a value of another envelope contradicts
\* one of a's own or equals it, and the parts of a seed cannot be shifted once
\* the correlation ids agree.
LEMMA DecisionRestsOnAdmission ==
  ASSUME RequestTypes, Held, NEW service \in {"communication", "memory"},
         NEW a \in issued, NEW b \in issued, NEW c \in issued,
         NEW k \in EnvelopeValues \cup PayloadValues \cup {"none"},
         NEW r \in ToSet(admissions), NEW now,
         Decide(service, a, b, k, r, c, now)
  PROVE  ApprovedWasAdmitted'
<1> SUFFICES ASSUME decision'.reason_class = "allowed", decision'.foreign # "message_id"
             PROVE  \E i \in DOMAIN admissions :
                      LET in == admissions[i].of.input
                      IN /\ in.service = decision'.service
                         /\ in.identity.agent_id = decision'.principal
                         /\ in.identity.lifecycle_state = "active"
                         /\ in.consent = decision'.consent
                         /\ in.request_id = decision'.correlation_id
                         /\ in.service = "memory" =>
                              /\ in.version = decision'.expected_memory_version
                              /\ in.namespace_refs = {decision'.target_namespace_ref}
  BY DEF ApprovedWasAdmitted, Decide
<1> DEFINE e == presented(a, b, k)
           p == e.payload
           reason == inspect(service, e, r, c, now)
<1>1. /\ reason = "allowed" /\ decision'.service = service /\ k # "message_id"
      /\ decision'.principal = c.input.identity.agent_id
      /\ decision'.consent = p.consent_receipt_ref
      /\ decision'.correlation_id = e.correlation_id
      /\ decision'.expected_memory_version = p.expected_memory_version
      /\ decision'.target_namespace_ref = p.target_namespace_ref
  BY DEF Decide
<1> HIDE DEF reason, e
<1>2. /\ ProposalValid(service, p) /\ RouteValid(service, e)
      /\ AdmissionReceiptValid(r, e, now) /\ ScopeExact(service, c, e)
  BY <1>1 DEF reason, inspect
<1>3. /\ a \in Artifacts /\ b \in Artifacts /\ c \in Artifacts
      /\ a.input.service # "discovery" /\ b.input.service # "discovery"
      /\ a.input \in Inputs /\ b.input \in Inputs /\ b.input.consent # NULL
  BY DocumentShapes, InputsAssumption DEF RequestTypes
<1> DEFINE of(x) == IF k = x THEN b ELSE a
<1>4. /\ e.message_id = seed(a.input)
      /\ e.correlation_id = of("correlation_id").input.request_id
      /\ e.causation_id = envelope(of("causation_id")).causation_id
      /\ e.sender.id = of("sender").input.identity.agent_id
      /\ e.requested_capability = of("requested_capability").input.service
      /\ e.evidence_refs = envelope(of("evidence_refs")).evidence_refs
      /\ p.purpose = of("purpose").input.service
      /\ p.companion_principal_id = of("companion_principal_id").input.identity.agent_id
      /\ p.consent_receipt_ref = of("consent_receipt_ref").input.consent
      /\ p.client_request_id = of("client_request_id").input.request_id
      /\ p.expected_memory_version = of("expected_memory_version").input.version
  BY <1>1, <1>3, PresentedValues DEF e
<1> HIDE DEF p
<1>5. a.input.service = service
  BY <1>2, <1>4 DEF ProposalValid, RouteValid
<1>6. e.correlation_id = a.input.request_id
  BY <1>2, <1>4 DEF RouteValid, p
<1>7. c.input.identity.agent_id = a.input.identity.agent_id
      /\ p.companion_principal_id = a.input.identity.agent_id
  <2>1. scopedIdentity(c).agent_id = c.input.identity.agent_id
    BY <1>3, ScopedFields
  <2>2. /\ c.input.identity.agent_id = e.sender.id
        /\ c.input.identity.agent_id = p.companion_principal_id
    BY <1>2, <2>1 DEF ScopeExact, p
  <2> QED
    BY <1>4, <2>2
<1>8. p.consent_receipt_ref = a.input.consent
  <2>1. envelope(a).evidence_refs = {a.input.consent, a.input.target_namespace_ref} \ {NULL}
    BY DEF envelope
  <2>2. b.input.consent # a.input.target_namespace_ref
    BY <1>3, PatternsAssumption
  <2>3. p.consent_receipt_ref \in e.evidence_refs
    BY <1>2 DEF RouteValid, p
  <2> QED
    BY <1>4, <2>1, <2>2, <2>3
<1>9. service = "memory" => p.expected_memory_version = a.input.version
  <2>1. service = "memory" => envelope(a).causation_id = a.input.version
    BY <1>5 DEF envelope
  <2>2. service = "memory" => e.causation_id = p.expected_memory_version
    BY <1>2 DEF RouteValid, p
  <2> QED
    BY <1>4, <2>1, <2>2
<1>10. service = "memory" => p.target_namespace_ref = namespaceOf[a.input.identity.agent_id]
  BY <1>2, <1>7 DEF ProposalValid
<1>11. r.message_id = seed(a.input) /\ r.correlation_id = a.input.request_id
  BY <1>2, <1>4, <1>6 DEF AdmissionReceiptValid
<1>12. PICK i \in DOMAIN admissions : admissions[i] = r
  BY DEF ToSet
<1>13. r \in Receipts
  BY <1>12 DEF RequestTypes
<1> DEFINE in == r.of.input
<1>14. in \in Inputs /\ seed(in) = seed(a.input) /\ in.request_id = a.input.request_id
  BY <1>11, <1>13, ReceiptFields, DocumentShapes
<1>15. in.identity.lifecycle_state = "active" /\ OwnNamespace(in)
  BY <1>12 DEF Held
<1> HIDE DEF in
<1>16. /\ in.service = service /\ in.identity.agent_id = a.input.identity.agent_id
       /\ in.consent = a.input.consent
  BY <1>3, <1>5, <1>14, SeedParts
<1>17. in.service = "memory" => in.version = a.input.version
  BY <1>3, <1>5, <1>14, <1>16, SeedParts
<1>18. in.service = "memory" => in.namespace_refs = {p.target_namespace_ref}
  BY <1>10, <1>15, <1>16 DEF OwnNamespace
<1> QED
  BY <1>1, <1>6, <1>7, <1>8, <1>9, <1>12, <1>14, <1>15, <1>16, <1>17, <1>18 DEF in

LEMMA DiscoveryKeeps ==
  ASSUME ServicesInv, NEW in \in Inputs, NEW now \in CapturedTimes,
         ExecuteDiscovery(in, now)
  PROVE  ServicesInv'
<1> DEFINE a == [input |-> in, at |-> now]
<1>1. a \in Artifacts /\ now \in Nat
  BY CapturedArtifact DEF ServicesInv
<1> HIDE DEF a
<1>2. /\ Accept(a, now) \/ (Refused(a, now) /\ admissions' = admissions)
      /\ UNCHANGED <<catalog, clock, issued, decision>>
  BY DEF ExecuteDiscovery, a
<1>3. CatalogTypes' /\ \A b \in issued : Buildable(b.input)'
  BY <1>2, BuildableIsConstant DEF ServicesInv, CatalogTypes, RequestTypes, Registered
<1>4. CASE Accept(a, now)
  <2>1. Buildable(a.input)
    BY DEF ExecuteDiscovery, a
  <2> QED
    BY <1>1, <1>2, <1>3, <1>4, <2>1, AcceptEffect, ApprovalKept DEF ServicesInv, RequestTypes
<1>5. CASE Refused(a, now) /\ admissions' = admissions
  BY <1>1, <1>2, <1>3, <1>5, RefusedEffect, ApprovalKept
     DEF ServicesInv, RequestTypes, AdmittedAgainAfterExpiry
<1> QED
  BY <1>2, <1>4, <1>5

LEMMA ProposalKeeps ==
  ASSUME ServicesInv, ProposalStep \/ DecisionStep
  PROVE  ServicesInv'
<1>1. ASSUME NEW in \in Inputs, NEW now \in CapturedTimes, BuildProposal(in, now)
      PROVE  ServicesInv'
  <2> DEFINE a == [input |-> in, at |-> now]
  <2>1. a \in Artifacts /\ a.input = in
    BY CapturedArtifact DEF ServicesInv
  <2> HIDE DEF a
  <2>2. /\ Buildable(a.input) /\ issued' = issued \cup {a}
        /\ UNCHANGED <<catalog, entries, clock, admissions, result, decision>>
    BY <1>1, <2>1 DEF BuildProposal, a
  <2>3. /\ issued' \in SUBSET Artifacts
        /\ \A b \in issued' : Buildable(b.input)' /\ b.input.service # "discovery"
    BY <1>1, <2>1, <2>2, BuildableIsConstant DEF ServicesInv, RequestTypes, BuildProposal
  <2> QED
    BY <2>2, <2>3 DEF ServicesInv, CatalogTypes, GuardTypes, RequestTypes, Registered,
       Held, AdmittedAgainAfterExpiry, ApprovedWasAdmitted, TombstoneOf, OwnNamespace
<1>2. ASSUME NEW a \in issued, NEW now \in CapturedTimes, OfferProposal(a, now)
      PROVE  ServicesInv'
  <2>1. a \in Artifacts /\ now \in Nat
    BY BoundsAssumption DEF ServicesInv, RequestTypes, CapturedTimes, GuardTypes
  <2>2. /\ Accept(a, now) \/ (Refused(a, now) /\ admissions' = admissions)
        /\ UNCHANGED <<catalog, clock, issued, decision>>
    BY <1>2 DEF OfferProposal
  <2>3. CatalogTypes' /\ \A b \in issued : Buildable(b.input)'
    BY <2>2, BuildableIsConstant DEF ServicesInv, CatalogTypes, RequestTypes, Registered
  <2>4. CASE Accept(a, now)
    BY <2>1, <2>2, <2>3, <2>4, AcceptEffect, ApprovalKept DEF ServicesInv, RequestTypes
  <2>5. CASE Refused(a, now) /\ admissions' = admissions
    BY <2>1, <2>2, <2>3, <2>5, RefusedEffect, ApprovalKept
       DEF ServicesInv, RequestTypes, AdmittedAgainAfterExpiry
  <2> QED
    BY <2>2, <2>4, <2>5
<1>3. ASSUME NEW service \in {"communication", "memory"},
             NEW a \in issued, NEW b \in issued, NEW c \in issued,
             NEW k \in EnvelopeValues \cup PayloadValues \cup {"none"},
             NEW r \in ToSet(admissions), NEW now \in CapturedTimes,
             Decide(service, a, b, k, r, c, now)
      PROVE  ServicesInv'
  <2>1. UNCHANGED <<catalog, entries, clock, issued, admissions, result>>
    BY <1>3 DEF Decide
  <2>2. ApprovedWasAdmitted'
    BY <1>3, DecisionRestsOnAdmission DEF ServicesInv
  <2>3. \A x \in issued' : Buildable(x.input)'
    BY <2>1, BuildableIsConstant DEF ServicesInv, RequestTypes
  <2> QED
    BY <2>1, <2>2, <2>3 DEF ServicesInv, CatalogTypes, GuardTypes, RequestTypes, Registered,
       Held, AdmittedAgainAfterExpiry, TombstoneOf, OwnNamespace
<1> QED
  BY <1>1, <1>2, <1>3 DEF ProposalStep, DecisionStep

LEMMA ServicesStep ==
  ASSUME ServicesInv, [Next]_vars
  PROVE  ServicesInv'
<1>1. \A x \in issued : issued' = issued => Buildable(x.input)'
  BY BuildableIsConstant DEF ServicesInv, RequestTypes
<1>2. CASE CatalogStep
  <2>1. CatalogTypes' /\ UNCHANGED <<entries, clock, issued, admissions, result, decision>>
    BY <1>2, CatalogStepKeeps DEF ServicesInv
  <2> QED
    BY <1>1, <2>1 DEF ServicesInv, GuardTypes, RequestTypes, Held,
       AdmittedAgainAfterExpiry, ApprovedWasAdmitted, TombstoneOf, OwnNamespace
<1>3. CASE DiscoveryStep
  BY <1>3, DiscoveryKeeps DEF DiscoveryStep
<1>4. CASE ProposalStep \/ DecisionStep
  BY <1>4, ProposalKeeps
<1>5. CASE Tick
  <2>1. /\ clock \in Nat /\ clock' = clock + 1 /\ clock' \in 0 .. MaxTime
        /\ UNCHANGED <<catalog, entries, issued, admissions, result, decision>>
    BY <1>5, BoundsAssumption DEF Tick, ServicesInv, GuardTypes
  <2>2. \A i \in DOMAIN admissions : admissions[i].of.at + TTL \in Nat
    BY ReceiptFields, DocumentShapes DEF ServicesInv, RequestTypes
  <2>3. Held'
    BY <2>1, <2>2 DEF ServicesInv, Held, TombstoneOf, OwnNamespace
  <2> QED
    BY <1>1, <2>1, <2>3 DEF ServicesInv, CatalogTypes, GuardTypes, RequestTypes, Registered,
       AdmittedAgainAfterExpiry, ApprovedWasAdmitted
<1>6. CASE UNCHANGED vars
  BY <1>1, <1>6 DEF vars, ServicesInv, CatalogTypes, GuardTypes, RequestTypes, Registered, Held,
     AdmittedAgainAfterExpiry, ApprovedWasAdmitted, TombstoneOf, OwnNamespace
<1> QED
  BY <1>2, <1>3, <1>4, <1>5, <1>6 DEF Next

LEMMA ServicesInvariance == Spec => []ServicesInv
<1>1. Init => ServicesInv
  <2> SUFFICES ASSUME Init
               PROVE  ServicesInv
    OBVIOUS
  <2>1. Registered = {}
    BY DEF Init, Registered
  <2>2. CatalogTypes
    BY <2>1, FS_EmptySet, BoundsAssumption DEF Init, CatalogTypes
  <2>3. GuardTypes
    BY FS_EmptySet, BoundsAssumption DEF Init, GuardTypes
  <2>4. RequestTypes /\ Held /\ AdmittedAgainAfterExpiry /\ ApprovedWasAdmitted
    BY DEF Init, RequestTypes, Held, AdmittedAgainAfterExpiry, ApprovedWasAdmitted
  <2> QED
    BY <2>2, <2>3, <2>4 DEF ServicesInv
<1>2. ServicesInv /\ [Next]_vars => ServicesInv'
  BY ServicesStep
<1> QED
  BY <1>1, <1>2, PTL DEF Spec

\* The catalog and the shared replay guard stay within their limits and hold
\* what the contracts say.
THEOREM TypeCorrect == Spec => []TypeOK
<1>1. ServicesInv => TypeOK
  <2> SUFFICES ASSUME ServicesInv
               PROVE  TypeOK
    OBVIOUS
  <2>1. \A i \in DOMAIN admissions : admissions[i].of.input \in Inputs
    BY ReceiptFields, DocumentShapes DEF ServicesInv, RequestTypes
  <2> QED
    BY <2>1 DEF ServicesInv, CatalogTypes, GuardTypes, RequestTypes, TypeOK, Artifacts
<1> QED
  BY <1>1, ServicesInvariance, PTL

\* What the builders make is what the gateway accepts, a message id is not
\* admitted twice within the lifetime of its envelope, and Brainstem approves
\* only what an admitted proposal of an active agent consented to.
THEOREM AdmissionAlwaysSound == Spec => []AdmissionSound
<1>1. ServicesInv => AdmissionSound
  <2> SUFFICES ASSUME ServicesInv
               PROVE  FreshArtifactsAuthorized
    BY DEF ServicesInv, AdmissionSound
  <2> SUFFICES ASSUME NEW a \in issued \cup {[input |-> in, at |-> clock] :
                                              in \in DiscoveryRequests},
                      NEW now \in a.at .. (a.at + TTL)
               PROVE  Authorized(a, now) <=>
                        /\ a.input.identity.lifecycle_state = "active"
                        /\ a.input.identity.ceiling >= 1
                        /\ now < a.at + TTL
    BY DEF FreshArtifactsAuthorized
  <2>1. a \in Artifacts /\ Buildable(a.input)
    BY DEF ServicesInv, RequestTypes, GuardTypes, Artifacts, DiscoveryRequests
  <2> QED
    BY <2>1, AuthorizedInLifetime
<1> QED
  BY <1>1, ServicesInvariance, PTL
=============================================================================
