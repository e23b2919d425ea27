------------------------------ MODULE AgentGateway ------------------------------
(***************************************************************************)
(* AgentProtocolGateway and ReplayGuard of agent-protocol.mjs: identities, *)
(* capabilities and authority grants are registered; envelopes are         *)
(* admitted at most once against them; a revocation atomically kills an    *)
(* agent or a grant together with everything delegated from it.            *)
(*                                                                         *)
(* Every method of the gateway is synchronous, so one call is one action.  *)
(* What is not atomic is time: acceptEnvelope and applyRevocation read the *)
(* clock once to authorize and ReplayGuard.consume reads it again, so an   *)
(* action takes the second reading `later` as a parameter.                 *)
(*                                                                         *)
(* The documents a caller may present are CONSTANT sets.  A document's     *)
(* field patterns and string bounds are abstracted; the conditions that    *)
(* relate two of its fields are kept as the Valid... predicates.           *)
(***************************************************************************)
EXTENDS Naturals, FiniteSets

CONSTANTS
  AgentIds, CapabilityIds, GrantIds, RevocationIds,
  IdentityDocs,     \* identities a caller may pass to registerIdentity
  CapabilityDocs,   \* capabilities a caller may pass to registerCapability
  GrantDocs,        \* grants a caller may pass to registerAuthorityGrant
  Envelopes,        \* envelopes that may arrive, each any number of times
  componentAuthenticationRefs, \* the constructor option, per component
  maxEntries,       \* capacity of the replay guard
  MaxRevocations,   \* 4096 in applyRevocation
  MaxCascade,       \* 4096 in applyRevocation
  MaxEnvelopeTTL, MaxFutureSkew,
  CallSpan,         \* bound on the clock's advance inside one gateway call
  MaxTime,          \* bound on the clock
  NULL

RUNTIME_COMPONENTS == {"brainstem", "kindred_cloud", "emit_core", "retrobank"}

AGENT_CLASSES == {"living_companion", "founder_intelligence", "worker", "service"}

\* authorityOrder: none, user_delegated, governance_delegated, founder_delegated
AUTHORITY_LEVELS == 0 .. 3

MESSAGE_TYPES ==
  {"discovery", "request", "response", "proposal", "negotiation", "agreement",
   "task", "delegation", "proof_request", "proof_result", "execution_request",
   "execution_receipt", "settlement_request", "dispute", "cancellation",
   "compensation", "health", "status", "revocation"}

capabilityMessageTypes ==
  MESSAGE_TYPES \ {"discovery", "health", "status", "revocation"}

directAgentExecutionTypes ==
  {"execution_request", "execution_receipt", "settlement_request"}

lifecycleSet ==
  {"registered", "active", "suspended", "revoked", "retired", "replaced"}

grantStatusSet == {"active", "suspended", "revoked"}

DATA_CLASSIFICATIONS == {"public", "internal", "confidential", "restricted"}

Optional(S) == S \cup {NULL}

Identity ==
  [agent_id : AgentIds, agent_class : AGENT_CLASSES,
   capabilities : SUBSET CapabilityIds,
   prohibited_capabilities : SUBSET CapabilityIds,
   allowed_capabilities : SUBSET CapabilityIds,
   grant_refs : SUBSET GrantIds, ceiling : AUTHORITY_LEVELS,
   budget_refs : SUBSET STRING, lifecycle_state : lifecycleSet,
   revoked_at : Optional(Nat)]

Capability ==
  [capability_id : CapabilityIds, owner_component : RUNTIME_COMPONENTS,
   action_type : STRING, execution_mode : STRING,
   allowed_agent_classes : SUBSET AGENT_CLASSES,
   required_authority : AUTHORITY_LEVELS,
   data_classifications : SUBSET DATA_CLASSIFICATIONS]

Grant ==
  [grant_id : GrantIds, subject_agent_id : AgentIds,
   authentication_ref : STRING, authority_level : AUTHORITY_LEVELS,
   capability_ids : SUBSET CapabilityIds, message_types : SUBSET MESSAGE_TYPES,
   permissions : SUBSET STRING, budget_refs : SUBSET STRING,
   parent_grant_ref : Optional(GrantIds), issued_at : Nat, expires_at : Nat,
   status : grantStatusSet, revoked_at : Optional(Nat)]

Principal ==
  [principal_type : {"agent"}, id : AgentIds]
    \cup [principal_type : {"runtime_component"}, id : RUNTIME_COMPONENTS]

\* The payload of a revocation envelope; effects_requested stands for the
\* provider, memory, tool, settlement and external_effects flags.
Notice ==
  [revocation_id : RevocationIds, target_type : {"agent", "authority_grant"},
   target_id : AgentIds \cup GrantIds, effective_at : Nat,
   evidence_refs : SUBSET STRING, cascade_dependents : BOOLEAN,
   effects_requested : BOOLEAN]

Envelope ==
  [message_type : MESSAGE_TYPES, sender : Principal, recipient : Principal,
   authority_ref : Optional(GrantIds), nonce : STRING,
   timestamp : Nat, expires_at : Nat,
   data_classification : DATA_CLASSIFICATIONS,
   requested_capability : Optional(CapabilityIds),
   budget_ref : Optional(STRING), evidence_refs : SUBSET STRING,
   authentication_ref : Optional(STRING), delegation_ref : Optional(GrantIds),
   payload : Optional(Notice)]

RevocationReceipt ==
  [target_type : {"agent", "authority_grant"},
   target_id : AgentIds \cup GrantIds, effective_at : Nat,
   grants_revoked : Nat]

ASSUME DocumentsAssumption ==
  /\ \A d \in IdentityDocs : d \in Identity
  /\ \A d \in CapabilityDocs : d \in Capability
  /\ \A d \in GrantDocs : d \in Grant
  /\ \A e \in Envelopes : e \in Envelope
  /\ componentAuthenticationRefs \in [RUNTIME_COMPONENTS -> SUBSET STRING]

ASSUME NullAssumption ==
  /\ NULL \notin AgentIds \cup CapabilityIds \cup GrantIds \cup Nat
  /\ NULL \notin Identity /\ NULL \notin Capability /\ NULL \notin Grant
  /\ NULL \notin RevocationReceipt

ASSUME BoundsAssumption ==
  /\ maxEntries \in Nat \ {0}
  /\ {MaxRevocations, MaxCascade, MaxEnvelopeTTL, MaxFutureSkew} \subseteq Nat
  /\ {CallSpan, MaxTime} \subseteq Nat
  /\ IsFiniteSet(GrantIds)

VARIABLES
  identities,    \* this.identities: AgentIds -> identity or NULL
  capabilities,  \* this.capabilities
  grants,        \* this.grants
  revocations,   \* this.revocations: receipts of applied revocations
  entries,       \* replayGuard.entries: tombstones of consumed nonces
  clock,         \* this.now()
  acceptCount    \* history: how often each envelope has been admitted

vars == <<identities, capabilities, grants, revocations, entries, clock, acceptCount>>

-----------------------------------------------------------------------------
(* Validation of a document on its own.                                    *)

ValidIdentity(d) ==
  /\ d.capabilities \cap d.prohibited_capabilities = {}
  /\ d.allowed_capabilities \subseteq d.capabilities
  /\ (d.lifecycle_state = "revoked") <=> (d.revoked_at # NULL)
  /\ d.agent_class = "living_companion" => d.ceiling # 3

ValidCapability(d) ==
  /\ d.allowed_agent_classes # {}
  /\ d.data_classifications # {}

ValidGrant(d) ==
  /\ d.message_types # {}
  /\ d.expires_at > d.issued_at
  /\ (d.status = "revoked") <=> (d.revoked_at # NULL)

ValidEnvelope(e) ==
  /\ e.expires_at > e.timestamp
  /\ e.expires_at - e.timestamp <= MaxEnvelopeTTL

ValidNotice(n) ==
  /\ n # NULL
  /\ n.target_type = "agent" => n.target_id \in AgentIds
  /\ n.target_type = "authority_grant" => n.target_id \in GrantIds
  /\ n.cascade_dependents /\ ~n.effects_requested
  /\ n.evidence_refs # {}

-----------------------------------------------------------------------------
(* Registration.  Registering the stored document again changes nothing;   *)
(* a different document under the same id is a conflict.                   *)

\* Mutant: a later registration replaces the stored identity.
RegisterIdentityOverwrites(d) ==
  /\ ValidIdentity(d)
  /\ identities' = [identities EXCEPT ![d.agent_id] = d]
  /\ UNCHANGED <<capabilities, grants, revocations, entries, clock, acceptCount>>

RegisterIdentity(d) ==
  /\ ValidIdentity(d)
  /\ identities[d.agent_id] \in {NULL, d}
  /\ identities' = [identities EXCEPT ![d.agent_id] = d]
  /\ UNCHANGED <<capabilities, grants, revocations, entries, clock, acceptCount>>

RegisterCapability(d) ==
  /\ ValidCapability(d)
  /\ capabilities[d.capability_id] \in {NULL, d}
  /\ capabilities' = [capabilities EXCEPT ![d.capability_id] = d]
  /\ UNCHANGED <<identities, grants, revocations, entries, clock, acceptCount>>

\* The subject declares the grant and may hold what it confers.  The
\* subject's lifecycle state is not consulted.
GrantWithinIdentity(d) ==
  LET identity == identities[d.subject_agent_id]
  IN /\ identity # NULL
     /\ d.grant_id \in identity.grant_refs
     /\ d.authority_level <= identity.ceiling
     /\ \A c \in d.capability_ids :
          /\ c \in identity.capabilities
          /\ c \notin identity.prohibited_capabilities
          /\ capabilities[c] # NULL

\* What a delegated grant may not widen.  Permissions and expiry are free.
WithinGrant(d, parent) ==
  /\ d.authority_level <= parent.authority_level
  /\ d.capability_ids \subseteq parent.capability_ids
  /\ d.message_types \subseteq parent.message_types
  /\ d.budget_refs \subseteq parent.budget_refs

\* Mutant: the parent must be active, its scope is not compared.
GrantParentActiveOnly(d) ==
  d.parent_grant_ref # NULL =>
    /\ grants[d.parent_grant_ref] # NULL
    /\ grants[d.parent_grant_ref].status = "active"

GrantWithinParent(d) ==
  d.parent_grant_ref # NULL =>
    LET parent == grants[d.parent_grant_ref]
    IN /\ parent # NULL
       /\ parent.status = "active"
       /\ WithinGrant(d, parent)

\* Mutant: a later registration replaces the stored grant.
RegisterGrantOverwrites(d) ==
  /\ ValidGrant(d)
  /\ GrantWithinIdentity(d)
  /\ GrantWithinParent(d)
  /\ grants' = [grants EXCEPT ![d.grant_id] = d]
  /\ UNCHANGED <<identities, capabilities, revocations, entries, clock, acceptCount>>

RegisterAuthorityGrant(d) ==
  /\ ValidGrant(d)
  /\ GrantWithinIdentity(d)
  /\ GrantWithinParent(d)
  /\ grants[d.grant_id] \in {NULL, d}
  /\ grants' = [grants EXCEPT ![d.grant_id] = d]
  /\ UNCHANGED <<identities, capabilities, revocations, entries, clock, acceptCount>>

-----------------------------------------------------------------------------
(* The replay guard.                                                       *)

\* Mutant: the tombstone lives as long as the sending time says.
TombstoneOfTimestamp(e) ==
  [sender |-> e.sender, nonce |-> e.nonce, expires_at |-> e.timestamp]

Tombstone(e) == [sender |-> e.sender, nonce |-> e.nonce, expires_at |-> e.expires_at]

\* prune(now)
Pruned(now) == {t \in entries : t.expires_at > now}

\* has(senderKey, nonce, now)
Has(e, now) == \E t \in Pruned(now) : t.sender = e.sender /\ t.nonce = e.nonce

\* Mutant: one entry too many.
ConsumableOverCapacity(e, later) ==
  /\ ~Has(e, later)
  /\ Cardinality(Pruned(later)) <= maxEntries

\* consume: the second reading of the clock prunes before the look-up.
Consumable(e, later) ==
  /\ ~Has(e, later)
  /\ Cardinality(Pruned(later)) < maxEntries

\* The values the second reading of the clock can return.
CallTimes == {t \in clock .. (clock + CallSpan) : t <= MaxTime}

-----------------------------------------------------------------------------
(* Authorization of an envelope.                                           *)

ActiveAgent(a) ==
  /\ a \in AgentIds
  /\ identities[a] # NULL
  /\ identities[a].lifecycle_state = "active"

ToComponent(e, component) ==
  e.recipient = [principal_type |-> "runtime_component", id |-> component]

\* The grant an envelope cites belongs to its sender, who quotes the grant's
\* authentication reference, and the grant is in force.
CitesLiveGrant(e, now) ==
  /\ e.authority_ref # NULL
  /\ grants[e.authority_ref] # NULL
  /\ LET grant == grants[e.authority_ref]
     IN /\ grant.subject_agent_id = e.sender.id
        /\ e.authentication_ref = grant.authentication_ref
        /\ grant.status = "active"
        /\ grant.issued_at <= now
        /\ grant.expires_at > now

AuthorizeDiscovery(e, now) ==
  /\ ToComponent(e, "brainstem")
  /\ e.requested_capability = NULL /\ e.budget_ref = NULL /\ e.delegation_ref = NULL
  /\ e.data_classification = "internal"
  /\ CitesLiveGrant(e, now)
  /\ LET grant == grants[e.authority_ref]
     IN /\ "discovery" \in grant.message_types
        /\ "capability.discover" \in grant.permissions
        /\ grant.capability_ids = {} /\ grant.budget_refs = {}
        /\ grant.parent_grant_ref = NULL

\* Only the direct parent of the cited grant is looked up.
ParentInForce(grant, now) ==
  grant.parent_grant_ref # NULL =>
    LET parent == grants[grant.parent_grant_ref]
    IN /\ parent # NULL
       /\ parent.status = "active"
       /\ parent.expires_at > now

AuthorizeCapabilityUse(e, now) ==
  LET identity == identities[e.sender.id]
      capability == capabilities[e.requested_capability]
  IN /\ capability # NULL
     /\ e.requested_capability \in
          (identity.capabilities \cap identity.allowed_capabilities)
            \ identity.prohibited_capabilities
     /\ identity.agent_class \in capability.allowed_agent_classes
     /\ e.data_classification \in capability.data_classifications
     /\ CitesLiveGrant(e, now)
     /\ LET grant == grants[e.authority_ref]
        IN /\ grant.issued_at <= e.timestamp
           /\ e.requested_capability \in grant.capability_ids
           /\ e.message_type \in grant.message_types
           /\ grant.authority_level >= capability.required_authority
           /\ e.delegation_ref = grant.parent_grant_ref
           /\ ParentInForce(grant, now)
           /\ e.budget_ref # NULL =>
                e.budget_ref \in identity.budget_refs \cap grant.budget_refs

AuthorizeAgentEnvelope(e, now) ==
  /\ ActiveAgent(e.sender.id)
  /\ e.message_type \notin directAgentExecutionTypes
  /\ e.authentication_ref # NULL
  /\ \/ /\ e.message_type = "discovery"
        /\ AuthorizeDiscovery(e, now)
     \/ /\ e.message_type # "discovery"
        /\ e.message_type \in capabilityMessageTypes => e.requested_capability # NULL
        /\ e.requested_capability # NULL => AuthorizeCapabilityUse(e, now)

\* The routes component messages are held to.  The grant that authority_ref
\* names is required but never looked up.
ComponentRoute(e) ==
  LET capability == capabilities[e.requested_capability]
  IN CASE e.message_type = "execution_request" ->
            /\ e.sender.id = "brainstem" /\ ToComponent(e, "kindred_cloud")
            /\ e.authority_ref # NULL /\ e.requested_capability # NULL
            /\ capability.owner_component = "kindred_cloud"
            /\ capability.action_type = "tool"
            /\ capability.execution_mode # "proposal_only"
       [] e.message_type = "execution_receipt" ->
            /\ e.sender.id = "kindred_cloud" /\ ToComponent(e, "brainstem")
            /\ e.evidence_refs # {}
       [] e.message_type = "settlement_request" ->
            /\ e.sender.id = "brainstem" /\ ToComponent(e, "retrobank")
            /\ e.authority_ref # NULL /\ e.budget_ref # NULL
            /\ e.requested_capability # NULL
            /\ capability.owner_component = "retrobank"
            /\ capability.action_type = "settlement"
            /\ capability.execution_mode = "governed_local_reversible"
       [] e.message_type = "revocation" ->
            /\ e.sender.id = "brainstem" /\ ToComponent(e, "brainstem")
            /\ e.authority_ref = NULL /\ e.requested_capability = NULL
            /\ e.budget_ref = NULL /\ e.delegation_ref = NULL
            /\ e.data_classification = "restricted"
       [] OTHER -> TRUE

AuthorizeComponentEnvelope(e) ==
  /\ e.authentication_ref # NULL
  /\ e.authentication_ref \in componentAuthenticationRefs[e.sender.id]
  /\ e.requested_capability # NULL =>
       /\ capabilities[e.requested_capability] # NULL
       /\ e.data_classification \in
            capabilities[e.requested_capability].data_classifications
  /\ ComponentRoute(e)

AuthorizeValidatedEnvelope(e, now) ==
  /\ e.timestamp <= now + MaxFutureSkew
  /\ e.expires_at > now
  /\ \/ e.sender.principal_type = "agent" /\ AuthorizeAgentEnvelope(e, now)
     \/ e.sender.principal_type = "runtime_component" /\ AuthorizeComponentEnvelope(e)
  /\ e.recipient.principal_type = "agent" => ActiveAgent(e.recipient.id)

-----------------------------------------------------------------------------
(* acceptEnvelope.                                                         *)

Acceptable(e) ==
  /\ ValidEnvelope(e)
  /\ e.message_type # "revocation"
  /\ AuthorizeValidatedEnvelope(e, clock)

\* What every successful consume does.
ConsumeAndCount(e, later) ==
  /\ Consumable(e, later)
  /\ entries' = Pruned(later) \cup {Tombstone(e)}
  /\ clock' = later
  /\ acceptCount' = [acceptCount EXCEPT ![e] = @ + 1]

AcceptEnvelope(e, later) ==
  /\ Acceptable(e)
  /\ ConsumeAndCount(e, later)
  /\ UNCHANGED <<identities, capabilities, grants, revocations>>

\* An authorized envelope the guard refuses (envelope_replay or
\* replay_capacity_reached) still prunes the guard.
RefuseEnvelope(e, later) ==
  /\ Acceptable(e)
  /\ ~Consumable(e, later)
  /\ entries' = Pruned(later)
  /\ clock' = later
  /\ UNCHANGED <<identities, capabilities, grants, revocations, acceptCount>>

-----------------------------------------------------------------------------
(* applyRevocation.                                                        *)

Registered(g) == grants[g] # NULL

Live(g) == Registered(g) /\ grants[g].status # "revoked"

\* S contains every live grant delegated from a member of S.
ClosedUnderDelegation(S) ==
  \A g \in GrantIds :
    (Live(g) /\ grants[g].parent_grant_ref \in S) => g \in S

\* Mutants: no cascade, and a cascade that stops after one pass.
CascadeNone(seed) == seed
CascadeOnePass(seed) ==
  seed \cup {g \in GrantIds : Live(g) /\ grants[g].parent_grant_ref \in seed}

\* What the `while (changed)` loop is for: the least closed superset.
Cascade(seed) ==
  {g \in GrantIds :
     \A S \in SUBSET GrantIds :
       (seed \subseteq S /\ ClosedUnderDelegation(S)) => g \in S}

\* A pass of the loop over the grants, and as many passes as there are grants.
\* The code's pass already sees what it has added itself, in the order of the
\* map, so that it may need fewer passes and ends with the same set.
CascadePass(S) ==
  S \cup {g \in GrantIds : Live(g) /\ grants[g].parent_grant_ref \in S}

CascadeLoop(seed) ==
  LET pass[k \in Nat] == IF k = 0 THEN seed ELSE CascadePass(pass[k - 1])
  IN pass[Cardinality({g \in GrantIds : Registered(g)})]

RevocationSeed(n) ==
  IF n.target_type = "agent"
    THEN {g \in GrantIds : Live(g) /\ grants[g].subject_agent_id = n.target_id}
    ELSE {n.target_id}

affectedGrantIds(n) == Cascade(RevocationSeed(n))

\* The checks that run before the replay guard is first touched.
RevocationAdmissible(e) ==
  /\ ValidEnvelope(e)
  /\ e.message_type = "revocation"
  /\ e.sender = [principal_type |-> "runtime_component", id |-> "brainstem"]
  /\ AuthorizeValidatedEnvelope(e, clock)
  /\ ValidNotice(e.payload)
  /\ e.payload.effective_at = e.timestamp
  /\ e.payload.effective_at <= clock
  /\ e.payload.evidence_refs = e.evidence_refs

TargetRevocable(n) ==
  IF n.target_type = "agent"
    THEN /\ identities[n.target_id] # NULL
         /\ identities[n.target_id].lifecycle_state
              \notin {"revoked", "retired", "replaced"}
    ELSE Live(n.target_id)

\* The checks between replayGuard.has and the second authorization.
RevocationApplicable(e) ==
  LET n == e.payload
  IN /\ ~Has(e, clock)
     /\ revocations[n.revocation_id] = NULL
     /\ Cardinality({r \in RevocationIds : revocations[r] # NULL}) < MaxRevocations
     /\ TargetRevocable(n)
     /\ Cardinality(affectedGrantIds(n)) <= MaxCascade

\* Mutant: the health value lands in the lifecycle state.
RevokeIdentityAsHealth(n) ==
  identities' =
    IF n.target_type = "agent"
      THEN [identities EXCEPT ![n.target_id].lifecycle_state = "unavailable",
                              ![n.target_id].revoked_at = n.effective_at]
      ELSE identities

RevokeIdentity(n) ==
  identities' =
    IF n.target_type = "agent"
      THEN [identities EXCEPT ![n.target_id].lifecycle_state = "revoked",
                              ![n.target_id].revoked_at = n.effective_at]
      ELSE identities

RevokeGrants(n) ==
  grants' = [g \in GrantIds |->
               IF g \in affectedGrantIds(n)
                 THEN [grants[g] EXCEPT !.status = "revoked",
                                        !.revoked_at = n.effective_at]
                 ELSE grants[g]]

revocationReceipt(n) ==
  [target_type |-> n.target_type, target_id |-> n.target_id,
   effective_at |-> n.effective_at,
   grants_revoked |-> Cardinality(affectedGrantIds(n))]

\* Mutant: records are written before the replay guard may refuse.
ApplyRevocationWritesFirst(e, later) ==
  /\ RevocationAdmissible(e)
  /\ RevocationApplicable(e)
  /\ RevokeIdentity(e.payload)
  /\ RevokeGrants(e.payload)
  /\ UNCHANGED capabilities
  /\ \/ /\ ConsumeAndCount(e, later)
        /\ revocations' =
             [revocations EXCEPT ![e.payload.revocation_id] = revocationReceipt(e.payload)]
     \/ /\ ~Consumable(e, later)
        /\ entries' = Pruned(later)
        /\ clock' = later
        /\ UNCHANGED <<revocations, acceptCount>>

ApplyRevocation(e, later) ==
  /\ RevocationAdmissible(e)
  /\ RevocationApplicable(e)
  /\ ConsumeAndCount(e, later)
  /\ RevokeIdentity(e.payload)
  /\ RevokeGrants(e.payload)
  /\ revocations' =
       [revocations EXCEPT ![e.payload.revocation_id] = revocationReceipt(e.payload)]
  /\ UNCHANGED capabilities

\* A revocation refused after replayGuard.has has only pruned the guard: at
\* the first reading of the clock, or at the second when consume refuses.
RefuseRevocation(e, later) ==
  /\ RevocationAdmissible(e)
  /\ \/ ~RevocationApplicable(e) /\ later = clock
     \/ RevocationApplicable(e) /\ ~Consumable(e, later)
  /\ entries' = Pruned(later)
  /\ clock' = later
  /\ UNCHANGED <<identities, capabilities, grants, revocations, acceptCount>>

-----------------------------------------------------------------------------

\* Time passes between calls.  Date.now is taken to be non-decreasing.
Tick ==
  /\ clock < MaxTime
  /\ clock' = clock + 1
  /\ UNCHANGED <<identities, capabilities, grants, revocations, entries, acceptCount>>

Init ==
  /\ identities = [a \in AgentIds |-> NULL]
  /\ capabilities = [c \in CapabilityIds |-> NULL]
  /\ grants = [g \in GrantIds |-> NULL]
  /\ revocations = [r \in RevocationIds |-> NULL]
  /\ entries = {}
  /\ clock = 0
  /\ acceptCount = [e \in Envelopes |-> 0]

Next ==
  \/ \E d \in IdentityDocs : RegisterIdentity(d)
  \/ \E d \in CapabilityDocs : RegisterCapability(d)
  \/ \E d \in GrantDocs : RegisterAuthorityGrant(d)
  \/ \E e \in Envelopes, later \in CallTimes : AcceptEnvelope(e, later)
  \/ \E e \in Envelopes, later \in CallTimes : RefuseEnvelope(e, later)
  \/ \E e \in Envelopes, later \in CallTimes : ApplyRevocation(e, later)
  \/ \E e \in Envelopes, later \in CallTimes : RefuseRevocation(e, later)
  \/ Tick

Spec == Init /\ [][Next]_vars

-----------------------------------------------------------------------------
(* Properties.                                                             *)

TombstoneSet == [sender : Principal, nonce : STRING, expires_at : Nat]

\* The maps of the gateway hold documents of their kind under their own id.
TypeOK ==
  /\ identities \in [AgentIds -> Optional(Identity)]
  /\ capabilities \in [CapabilityIds -> Optional(Capability)]
  /\ grants \in [GrantIds -> Optional(Grant)]
  /\ revocations \in [RevocationIds -> Optional(RevocationReceipt)]
  /\ entries \subseteq TombstoneSet
  /\ clock \in Nat
  /\ acceptCount \in [Envelopes -> Nat]

\* However registrations and revocations interleave, no live grant hangs
\* from a revoked one: applyRevocation's cascade leaves no survivor, and
\* registerAuthorityGrant never attaches a child to a dead parent.
CascadeClosed ==
  \A g \in GrantIds :
    (Registered(g) /\ grants[g].parent_grant_ref # NULL) =>
      /\ Registered(grants[g].parent_grant_ref)
      /\ grants[grants[g].parent_grant_ref].status = "revoked"
           => grants[g].status = "revoked"

\* The loop of applyRevocation ends, after no more passes than there are
\* grants, with exactly the least set that contains its targets and everything
\* live delegated from them.
CascadeIsLeastFixpoint ==
  \A seed \in SUBSET {g \in GrantIds : Live(g)} : Cascade(seed) = CascadeLoop(seed)

\* The delegation ancestors of a grant, itself included.
Lineage(g) ==
  {a \in GrantIds :
     \A S \in SUBSET GrantIds :
       (/\ g \in S
        /\ \A x \in S : (Registered(x) /\ grants[x].parent_grant_ref # NULL)
                          => grants[x].parent_grant_ref \in S)
         => a \in S}

\* Delegation never widens authority, over chains of any length, even though
\* registerAuthorityGrant compares a grant with its direct parent only and at
\* registration time only.
DelegationAttenuates ==
  \A g \in GrantIds : Registered(g) =>
    \A a \in Lineage(g) : Registered(a) /\ WithinGrant(grants[g], grants[a])

\* No grant is its own ancestor: the conflict check keeps a stored grant from
\* being re-registered under one of its descendants.
DelegationAcyclic ==
  \A g \in GrantIds :
    (Registered(g) /\ grants[g].parent_grant_ref # NULL) =>
      g \notin Lineage(grants[g].parent_grant_ref)

\* Every revocation that was acknowledged with a receipt is still in force:
\* no later registration brings its target back.
RevocationsInForce ==
  \A r \in RevocationIds : revocations[r] # NULL =>
    LET receipt == revocations[r]
    IN IF receipt.target_type = "agent"
         THEN /\ identities[receipt.target_id] # NULL
              /\ identities[receipt.target_id].lifecycle_state = "revoked"
         ELSE ~Live(receipt.target_id)

\* The forest of grants is sound however registrations and revocations
\* interleave: it has no cycle, authority only shrinks on the way down, and
\* nothing below a revoked grant and no revoked target is live.
DelegationSound ==
  CascadeClosed /\ DelegationAttenuates /\ DelegationAcyclic /\ RevocationsInForce

\* Revocation is final for identities and grants alike: no step alters a
\* revoked record.
RevokedIsFinal ==
  /\ \A a \in AgentIds :
       (identities[a] # NULL /\ identities[a].lifecycle_state = "revoked")
         => identities'[a] = identities[a]
  /\ \A g \in GrantIds :
       (Registered(g) /\ grants[g].status = "revoked") => grants'[g] = grants[g]

\* Some registered identity or grant changes.
Revokes ==
  \/ \E a \in AgentIds : identities[a] # NULL /\ identities'[a] # identities[a]
  \/ \E g \in GrantIds : Registered(g) /\ grants'[g] # grants[g]

\* The grants a notice names: its target, or what its target agent holds.
NamedBy(n) ==
  {t \in GrantIds :
     \/ n.target_type = "authority_grant" /\ t = n.target_id
     \/ n.target_type = "agent" /\ Live(t) /\ grants[t].subject_agent_id = n.target_id}

\* The step files n's receipt for one consumed envelope, and leaves the
\* target and whatever is delegated from it, at any depth, revoked.
FilesReceipt(n) ==
  /\ revocations[n.revocation_id] = NULL /\ revocations'[n.revocation_id] # NULL
  /\ n.target_type = "agent" => identities'[n.target_id].lifecycle_state = "revoked"
  /\ \A g \in GrantIds :
       Lineage(g) \cap NamedBy(n) # {} => grants'[g].status = "revoked"

\* applyRevocation is all or nothing: a step that revokes anything consumes
\* one revocation envelope and files its receipt, and a step that files a
\* receipt leaves its target and the target's whole subtree revoked - also
\* when the replay guard is full or the clock moves inside the call.
RevocationAtomic ==
  [][/\ Revokes <=> revocations' # revocations
     /\ Revokes => \E e \in Envelopes :
                     /\ acceptCount' = [acceptCount EXCEPT ![e] = @ + 1]
                     /\ e.payload # NULL
                     /\ FilesReceipt(e.payload)]_vars

Admitted(e) == acceptCount'[e] # acceptCount[e]

\* An agent's capability request is admitted only while its sender, its grant
\* and every ancestor of that grant are active, although the gateway looks
\* one level up only.
AdmissionNeedsLiveChain ==
  \A e \in Envelopes :
    (/\ Admitted(e)
     /\ e.sender.principal_type = "agent"
     /\ e.requested_capability # NULL) =>
      /\ identities[e.sender.id].lifecycle_state = "active"
      /\ \A a \in Lineage(e.authority_ref) : grants[a].status = "active"

\* What was revoked stays revoked, and what hangs from it admits nothing.
RevocationBlocks == [][RevokedIsFinal /\ AdmissionNeedsLiveChain]_vars

\* The replay guard never exceeds its capacity, even though expired
\* tombstones are only removed on use.
ReplayBounded == Cardinality(entries) <= maxEntries

\* An envelope is admitted a second time only by a call during which it
\* expires, and never a third time: until then its tombstone is in place.
ReplayOnlyAtExpiry ==
  \A e \in Envelopes :
    /\ acceptCount[e] <= 2
    /\ acceptCount[e] = 2 => e.expires_at <= clock

\* The replay guard keeps its bound without forgetting what is still valid.
ReplaySound == ReplayBounded /\ ReplayOnlyAtExpiry

\* An envelope is admitted at most once.
AcceptedAtMostOnce == \A e \in Envelopes : acceptCount[e] <= 1

\* A revoked grant admits nothing: no envelope that cites it is accepted.
RevokedGrantBlocksAdmission ==
  [][\A e \in Envelopes :
       (Admitted(e) /\ e.authority_ref # NULL) =>
         ~(Registered(e.authority_ref) /\ grants[e.authority_ref].status = "revoked")]_vars
=============================================================================
