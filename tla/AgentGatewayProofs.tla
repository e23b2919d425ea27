-------------------------- MODULE AgentGatewayProofs --------------------------
(***************************************************************************)
(* Machine-checked facts about AgentGateway, for every set of documents    *)
(* and envelopes and every value of the bounds.                            *)
(***************************************************************************)
EXTENDS AgentGateway, FiniteSetTheorems, WellFoundedInduction, TLAPS

(* ----------------------------- the cascade ----------------------------- *)

\* The cascade contains the grants it starts from.
LEMMA CascadeContainsSeed ==
  ASSUME NEW seed \in SUBSET GrantIds
  PROVE  seed \subseteq Cascade(seed)
BY DEF Cascade

\* The cascade reaches every live grant delegated from one of its members.
LEMMA CascadeIsClosed ==
  ASSUME NEW seed \in SUBSET GrantIds
  PROVE  ClosedUnderDelegation(Cascade(seed))
<1> SUFFICES ASSUME NEW g \in GrantIds, Live(g),
                    grants[g].parent_grant_ref \in Cascade(seed),
                    NEW S \in SUBSET GrantIds,
                    seed \subseteq S, ClosedUnderDelegation(S)
             PROVE  g \in S
  BY DEF ClosedUnderDelegation, Cascade
<1>1. grants[g].parent_grant_ref \in S
  BY DEF Cascade
<1> QED
  BY <1>1 DEF ClosedUnderDelegation

\* Started from live grants, the cascade touches live grants only.
LEMMA CascadeOfLive ==
  ASSUME NEW seed \in SUBSET GrantIds, \A g \in seed : Live(g)
  PROVE  \A g \in Cascade(seed) : g \in GrantIds /\ Live(g)
<1> DEFINE L == {g \in GrantIds : Live(g)}
<1>1. L \in SUBSET GrantIds /\ seed \subseteq L
  OBVIOUS
<1>2. ClosedUnderDelegation(L)
  BY DEF ClosedUnderDelegation
<1> QED
  BY <1>1, <1>2 DEF Cascade

\* What an admissible and applicable revocation is about.
LEMMA RevocationFacts ==
  ASSUME TypeOK, NEW e \in Envelopes,
         RevocationAdmissible(e), RevocationApplicable(e)
  PROVE  /\ e.payload \in Notice
         /\ e.payload.target_type = "agent" =>
              /\ e.payload.target_id \in AgentIds
              /\ identities[e.payload.target_id] \in Identity
         /\ RevocationSeed(e.payload) \in SUBSET GrantIds
         /\ \A g \in RevocationSeed(e.payload) : Live(g)
         /\ affectedGrantIds(e.payload) \in SUBSET GrantIds
         /\ \A g \in affectedGrantIds(e.payload) : Live(g) /\ grants[g] \in Grant
         /\ Cardinality(affectedGrantIds(e.payload)) \in Nat
<1> DEFINE n == e.payload
<1>1. n \in Notice /\ ValidNotice(n)
  BY DocumentsAssumption DEF RevocationAdmissible, ValidNotice, Envelope, Optional
<1>2. n.target_type \in {"agent", "authority_grant"}
  BY <1>1 DEF Notice
<1>3. ASSUME n.target_type = "agent"
      PROVE  n.target_id \in AgentIds /\ identities[n.target_id] \in Identity
  BY <1>1, <1>3 DEF ValidNotice, RevocationApplicable, TargetRevocable, TypeOK, Optional
<1>4. RevocationSeed(n) \in SUBSET GrantIds /\ \A g \in RevocationSeed(n) : Live(g)
  <2>1. CASE n.target_type = "agent"
    BY <2>1 DEF RevocationSeed
  <2>2. CASE n.target_type = "authority_grant"
    BY <1>1, <2>2 DEF RevocationSeed, ValidNotice, RevocationApplicable, TargetRevocable
  <2> QED
    BY <1>2, <2>1, <2>2
<1>5. \A g \in affectedGrantIds(n) : g \in GrantIds /\ Live(g)
  BY <1>4, CascadeOfLive DEF affectedGrantIds
<1>6. \A g \in affectedGrantIds(n) : grants[g] \in Grant
  BY <1>5 DEF Live, Registered, TypeOK, Optional
<1>7. affectedGrantIds(n) \in SUBSET GrantIds
  BY <1>5
<1>8. Cardinality(affectedGrantIds(n)) \in Nat
  BY <1>7, BoundsAssumption, FS_Subset, FS_CardinalityType
<1> QED
  BY <1>1, <1>3, <1>4, <1>5, <1>6, <1>7, <1>8

(* --------------------------- type correctness --------------------------- *)

LEMMA CallTimesNat ==
  ASSUME TypeOK, NEW later \in CallTimes
  PROVE  later \in Nat /\ clock <= later
BY BoundsAssumption DEF CallTimes, TypeOK

LEMMA ConsumeTypes ==
  ASSUME TypeOK, NEW e \in Envelopes, NEW later \in CallTimes,
         ConsumeAndCount(e, later)
  PROVE  /\ entries' \subseteq TombstoneSet
         /\ clock' \in Nat
         /\ acceptCount' \in [Envelopes -> Nat]
<1>1. e \in Envelope
  BY DocumentsAssumption
<1>2. Tombstone(e) \in TombstoneSet
  BY <1>1 DEF Tombstone, TombstoneSet, Envelope
<1>3. Pruned(later) \subseteq TombstoneSet
  BY DEF Pruned, TypeOK
<1> QED
  BY <1>2, <1>3, CallTimesNat DEF ConsumeAndCount, TypeOK

LEMMA TypeStep ==
  ASSUME TypeOK, [Next]_vars
  PROVE  TypeOK'
<1>1. ASSUME NEW d \in IdentityDocs, RegisterIdentity(d)
      PROVE  TypeOK'
  <2>1. d \in Identity
    BY DocumentsAssumption
  <2> QED
    BY <1>1, <2>1 DEF RegisterIdentity, TypeOK, Identity, Optional
<1>2. ASSUME NEW d \in CapabilityDocs, RegisterCapability(d)
      PROVE  TypeOK'
  <2>1. d \in Capability
    BY DocumentsAssumption
  <2> QED
    BY <1>2, <2>1 DEF RegisterCapability, TypeOK, Capability, Optional
<1>3. ASSUME NEW d \in GrantDocs, RegisterAuthorityGrant(d)
      PROVE  TypeOK'
  <2>1. d \in Grant
    BY DocumentsAssumption
  <2> QED
    BY <1>3, <2>1 DEF RegisterAuthorityGrant, TypeOK, Grant, Optional
<1>4. ASSUME NEW e \in Envelopes, NEW later \in CallTimes, AcceptEnvelope(e, later)
      PROVE  TypeOK'
  BY <1>4, ConsumeTypes DEF AcceptEnvelope, TypeOK
<1>5. ASSUME NEW e \in Envelopes, NEW later \in CallTimes, RefuseEnvelope(e, later)
      PROVE  TypeOK'
  BY <1>5, CallTimesNat DEF RefuseEnvelope, TypeOK, Pruned
<1>6. ASSUME NEW e \in Envelopes, NEW later \in CallTimes, ApplyRevocation(e, later)
      PROVE  TypeOK'
  <2> DEFINE n == e.payload
  <2>1. RevocationAdmissible(e) /\ RevocationApplicable(e)
    BY <1>6 DEF ApplyRevocation
  <2>2. n \in Notice /\ n.effective_at \in Nat /\ n.revocation_id \in RevocationIds
    BY <2>1, RevocationFacts DEF Notice
  <2>3. identities' \in [AgentIds -> Optional(Identity)]
    <3>1. CASE n.target_type = "agent"
      <4>1. n.target_id \in AgentIds /\ identities[n.target_id] \in Identity
        BY <2>1, <3>1, RevocationFacts
      <4>2. [identities[n.target_id] EXCEPT !.lifecycle_state = "revoked",
                                            !.revoked_at = n.effective_at] \in Identity
        BY <4>1, <2>2 DEF Identity, Optional, lifecycleSet
      <4>3. identities' = [identities EXCEPT ![n.target_id] =
               [identities[n.target_id] EXCEPT !.lifecycle_state = "revoked",
                                               !.revoked_at = n.effective_at]]
        BY <1>6, <3>1, <4>1 DEF ApplyRevocation, RevokeIdentity, TypeOK, Identity
      <4> QED
        BY <4>1, <4>2, <4>3 DEF TypeOK, Optional
    <3>2. CASE n.target_type # "agent"
      BY <1>6, <3>2 DEF ApplyRevocation, RevokeIdentity, TypeOK
    <3> QED
      BY <3>1, <3>2
  <2>4. grants' \in [GrantIds -> Optional(Grant)]
    <3>1. \A g \in affectedGrantIds(n) : grants[g] \in Grant
      BY <2>1, RevocationFacts
    <3>2. \A g \in affectedGrantIds(n) :
            [grants[g] EXCEPT !.status = "revoked", !.revoked_at = n.effective_at] \in Grant
      BY <3>1, <2>2 DEF Grant, Optional, grantStatusSet
    <3> QED
      BY <1>6, <3>2 DEF ApplyRevocation, RevokeGrants, TypeOK, Optional
  <2>5. revocationReceipt(n) \in RevocationReceipt
    BY <2>1, <2>2, RevocationFacts DEF revocationReceipt, RevocationReceipt, Notice
  <2>6. revocations' \in [RevocationIds -> Optional(RevocationReceipt)]
    BY <1>6, <2>2, <2>5 DEF ApplyRevocation, TypeOK, Optional
  <2>7. /\ entries' \subseteq TombstoneSet
        /\ clock' \in Nat
        /\ acceptCount' \in [Envelopes -> Nat]
    BY <1>6, ConsumeTypes DEF ApplyRevocation
  <2> QED
    BY <1>6, <2>3, <2>4, <2>6, <2>7 DEF ApplyRevocation, TypeOK
<1>7. ASSUME NEW e \in Envelopes, NEW later \in CallTimes, RefuseRevocation(e, later)
      PROVE  TypeOK'
  BY <1>7, CallTimesNat DEF RefuseRevocation, TypeOK, Pruned
<1>8. CASE Tick
  BY <1>8 DEF Tick, TypeOK
<1>9. CASE UNCHANGED vars
  BY <1>9 DEF vars, TypeOK
<1> QED
  BY <1>1, <1>2, <1>3, <1>4, <1>5, <1>6, <1>7, <1>8, <1>9 DEF Next

\* The maps of the gateway hold well-formed documents in every reachable
\* state, for any documents callers present and any order of calls.
THEOREM TypeCorrect == Spec => []TypeOK
<1>1. Init => TypeOK
  BY DEF Init, TypeOK, Optional
<1>2. TypeOK /\ [Next]_vars => TypeOK'
  BY TypeStep
<1> QED
  BY <1>1, <1>2, PTL DEF Spec

(* ------------------------- the delegation forest ------------------------ *)

HasParent(g) == Registered(g) /\ grants[g].parent_grant_ref # NULL

\* A grant stands under a registered parent that it does not exceed, and a
\* live grant stands under an active one.
UnderParent(g) ==
  LET p == grants[g].parent_grant_ref
  IN /\ Registered(p)
     /\ WithinGrant(grants[g], grants[p])
     /\ grants[g].status # "revoked" => grants[p].status = "active"

\* The inductive invariant of the grant map.  CascadeClosed alone is not
\* inductive: a grant registered late must not become somebody's parent.
DelegationInv == \A g \in GrantIds : HasParent(g) => UnderParent(g)

\* Registering a grant leaves every other grant alone, and leaves the grant
\* itself alone when it is already stored.
LEMMA RegisterGrantEffect ==
  ASSUME TypeOK, NEW d \in GrantDocs, RegisterAuthorityGrant(d)
  PROVE  /\ d \in Grant /\ d.grant_id \in GrantIds
         /\ grants'[d.grant_id] = d
         /\ \A g \in GrantIds : Registered(g) => grants'[g] = grants[g]
         /\ \A g \in GrantIds : g # d.grant_id => grants'[g] = grants[g]
<1>1. d \in Grant /\ d.grant_id \in GrantIds
  BY DocumentsAssumption DEF Grant
<1>2. grants' = [grants EXCEPT ![d.grant_id] = d] /\ grants[d.grant_id] \in {NULL, d}
  BY DEF RegisterAuthorityGrant
<1> QED
  BY <1>1, <1>2 DEF TypeOK, Registered

\* What an applied revocation does to one grant.
LEMMA RevokeGrantsEffect ==
  ASSUME TypeOK, NEW e \in Envelopes, NEW later \in CallTimes,
         ApplyRevocation(e, later), NEW g \in GrantIds
  PROVE  /\ g \notin affectedGrantIds(e.payload) => grants'[g] = grants[g]
         /\ g \in affectedGrantIds(e.payload) =>
              /\ Live(g) /\ grants'[g] \in Grant
              /\ grants'[g].status = "revoked"
              /\ grants'[g].parent_grant_ref = grants[g].parent_grant_ref
              /\ grants'[g].authority_level = grants[g].authority_level
              /\ grants'[g].capability_ids = grants[g].capability_ids
              /\ grants'[g].message_types = grants[g].message_types
              /\ grants'[g].budget_refs = grants[g].budget_refs
<1>1. RevocationAdmissible(e) /\ RevocationApplicable(e)
  BY DEF ApplyRevocation
<1>2. ASSUME g \notin affectedGrantIds(e.payload)
      PROVE  grants'[g] = grants[g]
  BY <1>2 DEF ApplyRevocation, RevokeGrants
<1>3. ASSUME g \in affectedGrantIds(e.payload)
      PROVE  /\ Live(g) /\ grants'[g] \in Grant
             /\ grants'[g].status = "revoked"
             /\ grants'[g].parent_grant_ref = grants[g].parent_grant_ref
             /\ grants'[g].authority_level = grants[g].authority_level
             /\ grants'[g].capability_ids = grants[g].capability_ids
             /\ grants'[g].message_types = grants[g].message_types
             /\ grants'[g].budget_refs = grants[g].budget_refs
  <2>1. Live(g) /\ grants[g] \in Grant /\ e.payload.effective_at \in Nat
    BY <1>1, <1>3, RevocationFacts DEF Notice
  <2>2. grants'[g] = [grants[g] EXCEPT !.status = "revoked",
                                       !.revoked_at = e.payload.effective_at]
    BY <1>3 DEF ApplyRevocation, RevokeGrants
  <2>3. grants'[g] \in Grant
    BY <2>1, <2>2 DEF Grant, Optional, grantStatusSet
  <2> QED
    BY <2>1, <2>2, <2>3 DEF Grant
<1> QED
  BY <1>2, <1>3

LEMMA DelegationStep ==
  ASSUME TypeOK, DelegationInv, [Next]_vars
  PROVE  DelegationInv'
<1> USE DEF HasParent, UnderParent, Registered
<1>1. ASSUME NEW d \in GrantDocs, RegisterAuthorityGrant(d)
      PROVE  DelegationInv'
  <2> SUFFICES ASSUME NEW g \in GrantIds, HasParent(g)'
               PROVE  UnderParent(g)'
    BY DEF DelegationInv
  <2>1. CASE Registered(g)
    <3>1. HasParent(g) /\ UnderParent(g) /\ grants'[g] = grants[g]
      BY <1>1, <2>1, RegisterGrantEffect DEF DelegationInv
    <3>2. grants[g].parent_grant_ref \in GrantIds
      BY <2>1, <3>1 DEF TypeOK, Grant, Optional
    <3>3. grants'[grants[g].parent_grant_ref] = grants[grants[g].parent_grant_ref]
      BY <1>1, <3>1, <3>2, RegisterGrantEffect
    <3> QED
      BY <3>1, <3>3 DEF WithinGrant
  <2>2. CASE ~Registered(g)
    <3>1. g = d.grant_id /\ grants'[g] = d
      BY <1>1, <2>2, RegisterGrantEffect
    <3>2. d.parent_grant_ref \in GrantIds
      BY <1>1, <3>1, RegisterGrantEffect DEF Grant, Optional
    <3>3. /\ Registered(d.parent_grant_ref)
          /\ grants[d.parent_grant_ref].status = "active"
          /\ WithinGrant(d, grants[d.parent_grant_ref])
      BY <1>1, <3>1 DEF RegisterAuthorityGrant, GrantWithinParent
    <3>4. grants'[d.parent_grant_ref] = grants[d.parent_grant_ref]
      BY <1>1, <3>2, <3>3, RegisterGrantEffect
    <3> QED
      BY <3>1, <3>3, <3>4 DEF WithinGrant
  <2> QED
    BY <2>1, <2>2
<1>2. ASSUME NEW e \in Envelopes, NEW later \in CallTimes, ApplyRevocation(e, later)
      PROVE  DelegationInv'
  <2> DEFINE A == affectedGrantIds(e.payload)
  <2> SUFFICES ASSUME NEW g \in GrantIds, HasParent(g)'
               PROVE  UnderParent(g)'
    BY DEF DelegationInv
  <2>1. HasParent(g) /\ grants'[g].parent_grant_ref = grants[g].parent_grant_ref
    BY <1>2, RevokeGrantsEffect DEF Live
  <2> DEFINE p == grants[g].parent_grant_ref
  <2>2. p \in GrantIds /\ UnderParent(g)
    BY <2>1 DEF DelegationInv, TypeOK, Grant, Optional
  <2>3. /\ grants'[p] # NULL
        /\ WithinGrant(grants'[g], grants'[p])
    BY <1>2, <2>2, RevokeGrantsEffect, NullAssumption DEF WithinGrant
  <2>4. ASSUME grants'[g].status # "revoked"
        PROVE  grants'[p].status = "active"
    <3>1. g \notin A /\ grants'[g] = grants[g]
      BY <1>2, <2>4, RevokeGrantsEffect
    <3>2. Live(g)
      BY <2>1, <2>4, <3>1 DEF Live
    <3>3. ClosedUnderDelegation(A)
      BY <1>2, RevocationFacts, CascadeIsClosed DEF ApplyRevocation, affectedGrantIds
    <3>4. p \notin A
      BY <3>1, <3>2, <3>3 DEF ClosedUnderDelegation
    <3> QED
      BY <1>2, <2>2, <3>1, <3>2, <3>4, RevokeGrantsEffect DEF Live
  <2> QED
    BY <2>1, <2>3, <2>4
<1>3. CASE UNCHANGED grants
  BY <1>3 DEF DelegationInv, WithinGrant
<1> QED
  BY <1>1, <1>2, <1>3 DEF Next, vars, RegisterIdentity, RegisterCapability,
     AcceptEnvelope, RefuseEnvelope, RefuseRevocation, Tick

LEMMA DelegationInvariance == Spec => [](TypeOK /\ DelegationInv)
<1>1. Init => DelegationInv
  BY DEF Init, DelegationInv, HasParent, Registered
<1>2. TypeOK /\ DelegationInv /\ [Next]_vars => DelegationInv'
  BY DelegationStep
<1> QED
  BY <1>1, <1>2, TypeCorrect, PTL DEF Spec

\* No live grant ever hangs from a revoked one: the revocation cascade of
\* applyRevocation and the parent check of registerAuthorityGrant together
\* keep the forest closed, whatever the order of the calls.
THEOREM CascadeAlwaysClosed == Spec => []CascadeClosed
<1>1. TypeOK /\ DelegationInv => CascadeClosed
  BY DEF DelegationInv, HasParent, UnderParent, CascadeClosed
<1> QED
  BY <1>1, DelegationInvariance, PTL

(* ------------------------ the loop of the cascade ----------------------- *)

\* A set of numbers that is not empty has a least one.
LEMMA LeastNatural ==
  ASSUME NEW S \in SUBSET Nat, S # {}
  PROVE  \E m \in S : \A k \in S : m <= k
<1>1. PICK m \in S : \A k \in S : ~(<<k, m>> \in OpToRel(<, Nat))
  BY NatLessThanWellFounded, WFMin, Zenon
<1>2. \A k \in Nat : k < m => <<k, m>> \in OpToRel(<, Nat)
  BY Zenon DEF OpToRel
<1>3. \A k \in S : ~(k < m)
  BY <1>1, <1>2, Zenon
<1> QED
  BY <1>3

\* Induction: what holds of 0 and of every successor holds of every number.
LEMMA Induction ==
  ASSUME NEW G \in SUBSET Nat, 0 \in G, \A k \in Nat : k \in G => k + 1 \in G
  PROVE  G = Nat
<1> SUFFICES ASSUME Nat \ G # {}
             PROVE  FALSE
  OBVIOUS
<1>1. PICK m \in Nat \ G : \A k \in Nat \ G : m <= k
  BY LeastNatural
<1>2. m - 1 \in Nat /\ m - 1 \notin Nat \ G
  BY <1>1
<1>3. (m - 1) + 1 \in G
  BY <1>2
<1> QED
  BY <1>1, <1>3

\* The first passes of the loop, started from seed.
Passes(f, seed, n) ==
  /\ f[0] = seed
  /\ \A k \in 1 .. n : f[k] = CascadePass(f[k - 1])

\* There is one course of the loop.
LEMMA PassesAgree ==
  ASSUME NEW seed, NEW f, NEW h, NEW n \in Nat, NEW m \in Nat,
         Passes(f, seed, n), Passes(h, seed, m)
  PROVE  \A k \in Nat : k <= n /\ k <= m => f[k] = h[k]
<1> DEFINE G == {k \in Nat : k <= n /\ k <= m => f[k] = h[k]}
<1>1. 0 \in G
  BY DEF Passes
<1>2. ASSUME NEW k \in Nat, k \in G
      PROVE  k + 1 \in G
  <2> SUFFICES ASSUME k + 1 <= n, k + 1 <= m
               PROVE  f[k + 1] = h[k + 1]
    OBVIOUS
  <2>1. f[k] = h[k] /\ k + 1 \in 1 .. n /\ k + 1 \in 1 .. m /\ (k + 1) - 1 = k
    BY <1>2
  <2>2. f[k + 1] = CascadePass(f[k]) /\ h[k + 1] = CascadePass(h[k])
    BY <2>1 DEF Passes
  <2> QED
    BY <2>1, <2>2
<1>3. G = Nat
  BY <1>1, <1>2, Induction
<1> QED
  BY <1>3

\* The loop takes any number of passes.
LEMMA PassesExist ==
  ASSUME NEW seed, NEW n \in Nat
  PROVE  \E f : Passes(f, seed, n)
<1> DEFINE G == {k \in Nat : \E f : Passes(f, seed, k)}
<1>1. 0 \in G
  <2>1. Passes([k \in {0} |-> seed], seed, 0)
    BY DEF Passes
  <2> QED
    BY <2>1
<1>2. ASSUME NEW k \in Nat, k \in G
      PROVE  k + 1 \in G
  <2>1. PICK f : Passes(f, seed, k)
    BY <1>2
  <2> DEFINE h == [i \in 0 .. k + 1 |-> IF i = k + 1 THEN CascadePass(f[k]) ELSE f[i]]
  <2>2. h[0] = seed
    BY <2>1 DEF Passes
  <2>3. ASSUME NEW i \in 1 .. k + 1
        PROVE  h[i] = CascadePass(h[i - 1])
    <3>1. i - 1 \in 0 .. k /\ h[i - 1] = f[i - 1]
      OBVIOUS
    <3>2. CASE i = k + 1
      <4>1. h[i] = CascadePass(f[k]) /\ i - 1 = k
        BY <3>2
      <4> QED
        BY <3>1, <4>1
    <3>3. CASE i # k + 1
      <4>1. i \in 1 .. k /\ h[i] = f[i]
        BY <3>3
      <4>2. f[i] = CascadePass(f[i - 1])
        BY <2>1, <4>1 DEF Passes
      <4> QED
        BY <3>1, <4>1, <4>2
    <3> QED
      BY <3>2, <3>3
  <2> HIDE DEF h
  <2>4. Passes(h, seed, k + 1)
    BY <2>2, <2>3 DEF Passes
  <2> QED
    BY <2>4
<1>3. G = Nat
  BY <1>1, <1>2, Induction
<1> QED
  BY <1>3

\* The recursion of CascadeLoop is well defined.
LEMMA LoopDefined ==
  ASSUME NEW seed, NEW n \in Nat, n = Cardinality({g \in GrantIds : Registered(g)})
  PROVE  \E f : Passes(f, seed, n) /\ CascadeLoop(seed) = f[n]
<1> DEFINE Eq(f) == f = [k \in Nat |-> IF k = 0 THEN seed ELSE CascadePass(f[k - 1])]
           pass == CHOOSE f : Eq(f)
<1>1. CascadeLoop(seed) = pass[n]
  BY Zenon DEF CascadeLoop
<1>2. \E f : Eq(f)
  <2> DEFINE at(k) == CHOOSE f : Passes(f, seed, k)
             h == [k \in Nat |-> at(k)[k]]
  <2>1. \A k \in Nat : Passes(at(k), seed, k)
    BY PassesExist, Zenon
  <2> HIDE DEF at
  <2>2. h[0] = seed
    BY <2>1 DEF Passes
  <2>3. ASSUME NEW k \in Nat, k # 0
        PROVE  h[k] = CascadePass(h[k - 1])
    <3>1. k - 1 \in Nat /\ k - 1 <= k /\ k \in 1 .. k
      BY <2>3
    <3>2. h[k] = at(k)[k] /\ h[k - 1] = at(k - 1)[k - 1]
      BY <3>1
    <3>3. at(k)[k] = CascadePass(at(k)[k - 1])
      BY <2>1, <3>1 DEF Passes
    <3>4. Passes(at(k), seed, k) /\ Passes(at(k - 1), seed, k - 1)
      BY <2>1, <3>1
    <3>5. at(k)[k - 1] = at(k - 1)[k - 1]
      BY <3>1, <3>4, PassesAgree
    <3> QED
      BY <3>2, <3>3, <3>5
  <2>4. h = [k \in Nat |-> IF k = 0 THEN seed ELSE CascadePass(h[k - 1])]
    <3>1. \A k \in Nat : h[k] = IF k = 0 THEN seed ELSE CascadePass(h[k - 1])
      BY <2>2, <2>3
    <3>2. h = [k \in Nat |-> h[k]]
      OBVIOUS
    <3> HIDE DEF h
    <3> QED
      BY <3>1, <3>2
  <2> HIDE DEF h
  <2> QED
    BY <2>4
<1>3. Eq(pass)
  BY <1>2, Zenon
<1> HIDE DEF pass
<1>4. Passes(pass, seed, n)
  <2>1. pass[0] = seed
    BY <1>3
  <2>2. ASSUME NEW k \in 1 .. n
        PROVE  pass[k] = CascadePass(pass[k - 1])
    <3>1. k \in Nat /\ k # 0
      OBVIOUS
    <3> QED
      BY <1>3, <3>1
  <2> QED
    BY <2>1, <2>2 DEF Passes
<1> QED
  BY <1>1, <1>4

Held == {g \in GrantIds : Registered(g)}

\* The passes only take in what the least fixpoint has, and while they are not
\* at it each of them takes in a grant.
LEMMA PassesProgress ==
  ASSUME IsFiniteSet(Held), NEW n \in Nat, NEW f,
         NEW seed \in SUBSET {g \in GrantIds : Live(g)}, Passes(f, seed, n)
  PROVE  \A k \in Nat : k <= n =>
           /\ seed \subseteq f[k] /\ f[k] \subseteq Cascade(seed) /\ f[k] \subseteq Held
           /\ ClosedUnderDelegation(f[k]) \/ Cardinality(f[k]) >= k
<1> DEFINE Good(k) == /\ seed \subseteq f[k] /\ f[k] \subseteq Cascade(seed) /\ f[k] \subseteq Held
                      /\ ClosedUnderDelegation(f[k]) \/ Cardinality(f[k]) >= k
           G == {k \in Nat : k <= n => Good(k)}
<1>0. seed \in SUBSET GrantIds /\ seed \subseteq Held
  BY DEF Live, Held
<1>1. 0 \in G
  <2>1. f[0] = seed /\ seed \subseteq Cascade(seed)
    BY <1>0, CascadeContainsSeed DEF Passes
  <2>2. Cardinality(seed) \in Nat
    BY <1>0, FS_Subset, FS_CardinalityType
  <2>3. Cardinality(seed) >= 0
    BY <2>2
  <2> QED
    BY <1>0, <2>1, <2>3
<1>2. ASSUME NEW k \in Nat, k \in G
      PROVE  k + 1 \in G
  <2> SUFFICES ASSUME k + 1 <= n
               PROVE  Good(k + 1)
    OBVIOUS
  <2> DEFINE S == f[k]
             T == f[k + 1]
  <2>1. Good(k)
    BY <1>2
  <2>2. T = CascadePass(S)
    <3>1. k + 1 \in 1 .. n /\ (k + 1) - 1 = k
      OBVIOUS
    <3> QED
      BY <3>1 DEF Passes
  <2> HIDE DEF S, T
  <2>3. /\ seed \subseteq S /\ S \subseteq Cascade(seed) /\ S \subseteq Held
        /\ ClosedUnderDelegation(S) \/ Cardinality(S) >= k
    BY <2>1 DEF S
  <2>4. S \subseteq T /\ seed \subseteq T /\ T \subseteq Held
    BY <2>2, <2>3 DEF CascadePass, Held, Live
  <2>5. T \subseteq Cascade(seed)
    BY <1>0, <2>2, <2>3, CascadeIsClosed DEF CascadePass, ClosedUnderDelegation
  <2>6. ClosedUnderDelegation(T) \/ Cardinality(T) >= k + 1
    <3>1. CASE ClosedUnderDelegation(S)
      <4>1. T = S
        BY <2>2, <3>1 DEF CascadePass, ClosedUnderDelegation
      <4> QED
        BY <3>1, <4>1
    <3>2. CASE ~ClosedUnderDelegation(S)
      <4>1. PICK g \in T : g \notin S
        BY <2>2, <3>2 DEF CascadePass, ClosedUnderDelegation
      <4>2. IsFiniteSet(T) /\ IsFiniteSet(S)
        BY <2>3, <2>4, FS_Subset
      <4>3. Cardinality(S \cup {g}) = Cardinality(S) + 1 /\ IsFiniteSet(S \cup {g})
        BY <4>1, <4>2, FS_AddElement
      <4>4. Cardinality(S \cup {g}) <= Cardinality(T)
        BY <2>4, <4>1, <4>2, FS_Subset
      <4>5. Cardinality(S) \in Nat /\ Cardinality(T) \in Nat /\ Cardinality(S) >= k
        BY <2>3, <3>2, <4>2, FS_CardinalityType
      <4> QED
        BY <4>3, <4>4, <4>5
    <3> QED
      BY <3>1, <3>2
  <2> QED
    BY <2>4, <2>5, <2>6 DEF S, T
<1> HIDE DEF Good
<1>3. G = Nat
  BY <1>1, <1>2, Induction
<1>4. \A k \in Nat : k <= n => Good(k)
  BY <1>3
<1> QED
  BY <1>4 DEF Good

\* After as many passes as there are grants nothing is left to take in.
LEMMA LoopReachesFixpoint ==
  ASSUME IsFiniteSet(Held), NEW seed \in SUBSET {g \in GrantIds : Live(g)}
  PROVE  Cascade(seed) = CascadeLoop(seed)
<1>1. PICK n \in Nat : n = Cardinality(Held)
  BY FS_CardinalityType
<1>2. PICK f : Passes(f, seed, n) /\ CascadeLoop(seed) = f[n]
  BY <1>1, LoopDefined DEF Held
<1>3. /\ seed \subseteq f[n] /\ f[n] \subseteq Cascade(seed) /\ f[n] \subseteq Held
      /\ ClosedUnderDelegation(f[n]) \/ Cardinality(f[n]) >= n
  BY <1>2, PassesProgress
<1>4. ClosedUnderDelegation(f[n])
  <2>1. CASE Cardinality(f[n]) >= n
    <3>1. Cardinality(f[n]) \in Nat /\ Cardinality(f[n]) <= n
      BY <1>1, <1>3, FS_Subset, FS_CardinalityType
    <3>2. Cardinality(f[n]) = Cardinality(Held)
      BY <1>1, <2>1, <3>1
    <3>3. f[n] = Held
      BY <1>3, <3>2, FS_Subset
    <3> QED
      BY <3>3 DEF ClosedUnderDelegation, Held, Live
  <2> QED
    BY <1>3, <2>1
<1>5. Cascade(seed) \subseteq f[n]
  <2>1. f[n] \in SUBSET GrantIds
    BY <1>3 DEF Held
  <2> QED
    BY <1>3, <1>4, <2>1 DEF Cascade
<1> QED
  BY <1>2, <1>3, <1>5

\* The gateway holds finitely many grants.
LEMMA HeldAlwaysFinite == Spec => []IsFiniteSet(Held)
<1>1. Init => IsFiniteSet(Held)
  <2> SUFFICES ASSUME Init PROVE IsFiniteSet(Held)
    OBVIOUS
  <2>1. Held = {}
    BY DEF Init, Held, Registered
  <2> QED
    BY <2>1, FS_EmptySet
<1>2. TypeOK /\ IsFiniteSet(Held) /\ [Next]_vars => IsFiniteSet(Held)'
  <2> SUFFICES ASSUME TypeOK, IsFiniteSet(Held), [Next]_vars
               PROVE  IsFiniteSet(Held')
    OBVIOUS
  <2>1. ASSUME NEW d \in GrantDocs, RegisterAuthorityGrant(d)
        PROVE  IsFiniteSet(Held')
    <3>1. Held' \subseteq Held \cup {d.grant_id}
      BY <2>1, RegisterGrantEffect DEF Held, Registered
    <3>2. IsFiniteSet(Held \cup {d.grant_id})
      BY FS_AddElement
    <3> QED
      BY <3>1, <3>2, FS_Subset
  <2>2. ASSUME NEW e \in Envelopes, NEW later \in CallTimes, ApplyRevocation(e, later)
        PROVE  IsFiniteSet(Held')
    <3>1. Held' \subseteq Held
      BY <2>2, RevokeGrantsEffect DEF Held, Registered, Live
    <3> QED
      BY <3>1, FS_Subset
  <2>3. ASSUME UNCHANGED grants
        PROVE  IsFiniteSet(Held')
    BY <2>3 DEF Held, Registered
  <2> QED
    BY <2>1, <2>2, <2>3 DEF Next, vars, RegisterIdentity, RegisterCapability,
       AcceptEnvelope, RefuseEnvelope, RefuseRevocation, Tick
<1> QED
  BY <1>1, <1>2, TypeCorrect, PTL DEF Spec

\* The revocation loop ends with exactly the live grants delegated, through
\* any number of grants, from its targets.
THEOREM CascadeAlwaysLeastFixpoint == Spec => []CascadeIsLeastFixpoint
<1>1. IsFiniteSet(Held) => CascadeIsLeastFixpoint
  BY LoopReachesFixpoint DEF CascadeIsLeastFixpoint
<1> QED
  BY <1>1, HeldAlwaysFinite, PTL

(* ------------------------------- lineages ------------------------------ *)

\* A set that contains g and is closed under taking parents contains the
\* whole lineage of g.
LEMMA LineageLeast ==
  ASSUME NEW g, NEW S \in SUBSET GrantIds, g \in S,
         \A x \in S : (Registered(x) /\ grants[x].parent_grant_ref # NULL)
                        => grants[x].parent_grant_ref \in S
  PROVE  Lineage(g) \subseteq S
BY DEF Lineage

\* Delegated authority never exceeds any ancestor's, at any depth, although
\* registerAuthorityGrant only ever compares a grant with its parent.
THEOREM DelegationAlwaysAttenuates == Spec => []DelegationAttenuates
<1>1. ASSUME TypeOK, DelegationInv
      PROVE  DelegationAttenuates
  <2> SUFFICES ASSUME NEW g \in GrantIds, Registered(g),
                      NEW a \in Lineage(g)
               PROVE  Registered(a) /\ WithinGrant(grants[g], grants[a])
    BY DEF DelegationAttenuates
  <2> DEFINE S == {x \in GrantIds : Registered(x) /\ WithinGrant(grants[g], grants[x])}
  <2>1. \A x \in GrantIds : Registered(x) => grants[x] \in Grant
    BY <1>1 DEF TypeOK, Registered, Optional
  <2>2. g \in S
    <3>1. grants[g].authority_level \in Nat
      BY <2>1 DEF Grant, AUTHORITY_LEVELS
    <3> QED
      BY <3>1 DEF WithinGrant
  <2>3. ASSUME NEW x \in S, Registered(x), grants[x].parent_grant_ref # NULL
        PROVE  grants[x].parent_grant_ref \in S
    <3> DEFINE p == grants[x].parent_grant_ref
    <3>1. p \in GrantIds
      BY <2>1, <2>3 DEF Grant, Optional
    <3>2. Registered(p) /\ WithinGrant(grants[x], grants[p])
      BY <1>1, <2>3 DEF DelegationInv, HasParent, UnderParent
    <3>3. /\ grants[g].authority_level \in Nat
          /\ grants[x].authority_level \in Nat
          /\ grants[p].authority_level \in Nat
      BY <2>1, <3>1, <3>2 DEF Grant, AUTHORITY_LEVELS
    <3>4. WithinGrant(grants[g], grants[p])
      BY <2>3, <3>2, <3>3 DEF WithinGrant
    <3> QED
      BY <3>1, <3>2, <3>4
  <2>4. Lineage(g) \subseteq S
    BY <2>2, <2>3, LineageLeast
  <2> QED
    BY <2>4
<1> QED
  BY <1>1, DelegationInvariance, PTL

\* What a step does to the forest: a registered grant stays registered under
\* the parent it has, and a new grant hangs from a registered one.
LEMMA ForestGrows ==
  ASSUME TypeOK, [Next]_vars, NEW g \in GrantIds
  PROVE  /\ Registered(g) => /\ Registered(g)'
                             /\ grants'[g].parent_grant_ref = grants[g].parent_grant_ref
         /\ ~Registered(g) /\ HasParent(g)' =>
              /\ grants'[g].parent_grant_ref \in GrantIds
              /\ Registered(grants'[g].parent_grant_ref)
<1> DEFINE Grows ==
       /\ Registered(g) => /\ Registered(g)'
                           /\ grants'[g].parent_grant_ref = grants[g].parent_grant_ref
       /\ ~Registered(g) /\ HasParent(g)' =>
            /\ grants'[g].parent_grant_ref \in GrantIds
            /\ Registered(grants'[g].parent_grant_ref)
<1> USE DEF Registered, HasParent
<1>1. ASSUME NEW d \in GrantDocs, RegisterAuthorityGrant(d)
      PROVE  Grows
  <2>1. CASE Registered(g)
    BY <1>1, <2>1, RegisterGrantEffect
  <2>2. CASE ~Registered(g) /\ HasParent(g)'
    <3>1. g = d.grant_id /\ grants'[g] = d /\ d \in Grant
      BY <1>1, <2>2, RegisterGrantEffect
    <3>2. d.parent_grant_ref \in GrantIds
      BY <2>2, <3>1 DEF Grant, Optional
    <3>3. Registered(d.parent_grant_ref)
      BY <1>1, <2>2, <3>1 DEF RegisterAuthorityGrant, GrantWithinParent
    <3> QED
      BY <2>2, <3>1, <3>2, <3>3
  <2> QED
    BY <2>1, <2>2
<1>2. ASSUME NEW e \in Envelopes, NEW later \in CallTimes, ApplyRevocation(e, later)
      PROVE  Grows
  BY <1>2, RevokeGrantsEffect, NullAssumption DEF Live
<1>3. CASE UNCHANGED grants
  BY <1>3
<1> QED
  BY <1>1, <1>2, <1>3 DEF Next, vars, RegisterIdentity, RegisterCapability,
     AcceptEnvelope, RefuseEnvelope, RefuseRevocation, Tick

\* A grant registered late is nobody's ancestor yet, and the lineage of its
\* parent consists of grants that were registered before it.
LEMMA AcyclicStep ==
  ASSUME TypeOK, DelegationInv, DelegationAcyclic, [Next]_vars
  PROVE  DelegationAcyclic'
<1> SUFFICES ASSUME NEW g \in GrantIds, HasParent(g)'
             PROVE  g \notin Lineage(grants[g].parent_grant_ref)'
  BY DEF DelegationAcyclic, HasParent, Registered
<1> DEFINE p == grants'[g].parent_grant_ref
           Closed(S) == \A x \in S : HasParent(x) => grants[x].parent_grant_ref \in S
<1>1. \A x \in GrantIds : HasParent(x) =>
        grants[x].parent_grant_ref \in GrantIds /\ Registered(grants[x].parent_grant_ref)
  BY DEF DelegationInv, HasParent, UnderParent, Registered, TypeOK, Grant, Optional
<1>2. p \in GrantIds /\ Registered(p)
  <2>1. CASE Registered(g)
    BY <1>1, <2>1, ForestGrows DEF HasParent
  <2>2. CASE ~Registered(g)
    BY <2>2, ForestGrows
  <2> QED
    BY <2>1, <2>2
<1>3. \E S \in SUBSET GrantIds : p \in S /\ Closed(S) /\ g \notin S
  <2>1. CASE Registered(g)
    <3>1. g \notin Lineage(p)
      BY <2>1, ForestGrows DEF DelegationAcyclic, HasParent
    <3> QED
      BY <3>1 DEF Lineage, HasParent
  <2>2. CASE ~Registered(g)
    <3> DEFINE S == {x \in GrantIds : Registered(x)}
    <3>1. S \in SUBSET GrantIds /\ p \in S /\ g \notin S
      BY <1>2, <2>2
    <3>2. Closed(S)
      BY <1>1
    <3> QED
      BY <3>1, <3>2
  <2> QED
    BY <2>1, <2>2
<1>4. PICK S \in SUBSET GrantIds : p \in S /\ Closed(S) /\ g \notin S
  BY <1>3
<1> DEFINE T == {x \in S : Registered(x)}
<1>5. T \in SUBSET GrantIds /\ p \in T /\ g \notin T
  BY <1>2, <1>4
<1>6. ASSUME NEW x \in T, HasParent(x)'
      PROVE  grants'[x].parent_grant_ref \in T
  <2>1. x \in GrantIds /\ grants'[x].parent_grant_ref = grants[x].parent_grant_ref
    BY <1>4, ForestGrows
  <2>2. HasParent(x)
    BY <1>6, <2>1 DEF HasParent
  <2> QED
    BY <1>1, <1>4, <2>1, <2>2
<1> QED
  BY <1>5, <1>6 DEF Lineage, HasParent, Registered

\* No grant is ever its own ancestor.
THEOREM DelegationAlwaysAcyclic == Spec => []DelegationAcyclic
<1>1. Init => DelegationAcyclic
  BY DEF Init, DelegationAcyclic, Registered
<1>2. TypeOK /\ DelegationInv /\ DelegationAcyclic /\ [Next]_vars => DelegationAcyclic'
  BY AcyclicStep
<1> QED
  BY <1>1, <1>2, DelegationInvariance, PTL DEF Spec

\* An agent's capability request is admitted only while the sender and every
\* grant its authority descends from are active.
LEMMA AdmissionStep ==
  ASSUME TypeOK, DelegationInv, [Next]_vars
  PROVE  AdmissionNeedsLiveChain
<1> SUFFICES ASSUME NEW e \in Envelopes, Admitted(e),
                    e.sender.principal_type = "agent",
                    e.requested_capability # NULL
             PROVE  /\ identities[e.sender.id].lifecycle_state = "active"
                    /\ \A a \in Lineage(e.authority_ref) : grants[a].status = "active"
  BY DEF AdmissionNeedsLiveChain
<1>1. e \in Envelope
  BY DocumentsAssumption
<1>2. \/ \E later \in CallTimes : AcceptEnvelope(e, later)
      \/ \E later \in CallTimes : ApplyRevocation(e, later)
  <2>1. ASSUME NEW f \in Envelopes, NEW later \in CallTimes, ConsumeAndCount(f, later)
        PROVE  f = e
    BY <2>1 DEF ConsumeAndCount, Admitted, TypeOK
  <2> QED
    BY <2>1 DEF Next, vars, Admitted, AcceptEnvelope, ApplyRevocation,
       RegisterIdentity, RegisterCapability, RegisterAuthorityGrant,
       RefuseEnvelope, RefuseRevocation, Tick
<1>3. \E later \in CallTimes : AcceptEnvelope(e, later)
  BY <1>1, <1>2 DEF ApplyRevocation, RevocationAdmissible, Envelope
<1>4. AuthorizeAgentEnvelope(e, clock)
  BY <1>3 DEF AcceptEnvelope, Acceptable, AuthorizeValidatedEnvelope
<1>5. ActiveAgent(e.sender.id) /\ AuthorizeCapabilityUse(e, clock)
  BY <1>4 DEF AuthorizeAgentEnvelope, AuthorizeDiscovery
<1>6. CitesLiveGrant(e, clock)
  BY <1>5 DEF AuthorizeCapabilityUse
<1> DEFINE S == {x \in GrantIds : Registered(x) /\ grants[x].status = "active"}
<1>7. e.authority_ref \in S
  BY <1>1, <1>6 DEF CitesLiveGrant, Envelope, Optional, Registered
<1>8. ASSUME NEW x \in S, Registered(x), grants[x].parent_grant_ref # NULL
      PROVE  grants[x].parent_grant_ref \in S
  <2>1. grants[x] \in Grant
    BY <1>8 DEF TypeOK, Registered, Optional
  <2>2. grants[x].parent_grant_ref \in GrantIds
    BY <1>8, <2>1 DEF Grant, Optional
  <2> QED
    BY <1>8, <2>2 DEF DelegationInv, HasParent, UnderParent
<1>9. Lineage(e.authority_ref) \subseteq S
  BY <1>7, <1>8, LineageLeast
<1> QED
  BY <1>5, <1>9 DEF ActiveAgent

(* ----------------------------- revocation ------------------------------- *)

IdentityRevoked(a) ==
  identities[a] # NULL /\ identities[a].lifecycle_state = "revoked"

GrantRevoked(g) == Registered(g) /\ grants[g].status = "revoked"

\* What an applied revocation does to one identity.
LEMMA RevokeIdentityEffect ==
  ASSUME TypeOK, NEW e \in Envelopes, NEW later \in CallTimes,
         ApplyRevocation(e, later), NEW a \in AgentIds
  PROVE  IF e.payload.target_type = "agent" /\ a = e.payload.target_id
           THEN identities[a] # NULL /\ ~IdentityRevoked(a) /\ IdentityRevoked(a)'
           ELSE identities'[a] = identities[a]
<1> DEFINE n == e.payload
<1>1. RevocationAdmissible(e) /\ RevocationApplicable(e) /\ RevokeIdentity(n)
  BY DEF ApplyRevocation
<1>2. CASE n.target_type = "agent" /\ a = n.target_id
  <2>1. identities[a] \in Identity
    BY <1>1, <1>2, RevocationFacts
  <2>2. identities[a] # NULL /\ ~IdentityRevoked(a)
    BY <1>1, <1>2 DEF RevocationApplicable, TargetRevocable, IdentityRevoked
  <2>3. identities'[a] = [identities[a] EXCEPT !.lifecycle_state = "revoked",
                                               !.revoked_at = n.effective_at]
    BY <1>1, <1>2, <2>1 DEF RevokeIdentity, TypeOK, Identity
  <2>4. identities'[a].lifecycle_state = "revoked"
    BY <2>1, <2>3 DEF Identity
  <2>5. identities'[a] \in Identity
    <3>1. n.effective_at \in Nat
      BY <1>1, RevocationFacts DEF Notice
    <3> QED
      BY <2>1, <2>3, <3>1 DEF Identity, Optional, lifecycleSet
  <2> QED
    BY <1>2, <2>2, <2>4, <2>5, NullAssumption DEF IdentityRevoked
<1>3. CASE n.target_type = "agent" /\ a # n.target_id
  BY <1>1, <1>3 DEF RevokeIdentity, TypeOK
<1>4. CASE n.target_type # "agent"
  BY <1>1, <1>4 DEF RevokeIdentity
<1> QED
  BY <1>2, <1>3, <1>4

LEMMA RevokedFinalStep ==
  ASSUME TypeOK, [Next]_vars
  PROVE  RevokedIsFinal
<1>1. ASSUME NEW d \in IdentityDocs, RegisterIdentity(d)
      PROVE  RevokedIsFinal
  <2>1. d.agent_id \in AgentIds
    BY DocumentsAssumption DEF Identity
  <2> QED
    BY <1>1, <2>1 DEF RegisterIdentity, RevokedIsFinal, IdentityRevoked, TypeOK
<1>2. ASSUME NEW d \in GrantDocs, RegisterAuthorityGrant(d)
      PROVE  RevokedIsFinal
  BY <1>2, RegisterGrantEffect DEF RegisterAuthorityGrant, RevokedIsFinal, GrantRevoked
<1>3. ASSUME NEW e \in Envelopes, NEW later \in CallTimes, ApplyRevocation(e, later)
      PROVE  RevokedIsFinal
  BY <1>3, RevokeIdentityEffect, RevokeGrantsEffect DEF RevokedIsFinal, IdentityRevoked, GrantRevoked, Live
<1>4. CASE UNCHANGED <<identities, grants>>
  BY <1>4 DEF RevokedIsFinal
<1> QED
  BY <1>1, <1>2, <1>3, <1>4 DEF Next, vars, RegisterCapability,
     AcceptEnvelope, RefuseEnvelope, RefuseRevocation, Tick

\* The target of a filed receipt is dead.
TargetRevoked(receipt) ==
  /\ receipt.target_type = "agent" =>
       receipt.target_id \in AgentIds /\ IdentityRevoked(receipt.target_id)
  /\ receipt.target_type # "agent" =>
       receipt.target_id \in GrantIds /\ GrantRevoked(receipt.target_id)

ReceiptInv == \A r \in RevocationIds : revocations[r] # NULL => TargetRevoked(revocations[r])

LEMMA ReceiptStep ==
  ASSUME TypeOK, ReceiptInv, [Next]_vars
  PROVE  ReceiptInv'
<1>1. RevokedIsFinal
  BY RevokedFinalStep
<1>2. ASSUME NEW e \in Envelopes, NEW later \in CallTimes, ApplyRevocation(e, later)
      PROVE  ReceiptInv'
  <2> DEFINE n == e.payload
             receipt == revocationReceipt(n)
  <2>1. RevocationAdmissible(e) /\ RevocationApplicable(e) /\ ValidNotice(n)
    BY <1>2 DEF ApplyRevocation, RevocationAdmissible
  <2>2. n \in Notice /\ n.revocation_id \in RevocationIds
    BY <2>1, RevocationFacts DEF Notice
  <2>3. receipt.target_type = n.target_type /\ receipt.target_id = n.target_id
    BY DEF revocationReceipt
  <2>4. ASSUME n.target_type = "agent"
        PROVE  n.target_id \in AgentIds /\ IdentityRevoked(n.target_id)'
    BY <1>2, <2>1, <2>4, RevocationFacts, RevokeIdentityEffect
  <2>5. ASSUME n.target_type # "agent"
        PROVE  n.target_id \in GrantIds /\ GrantRevoked(n.target_id)'
    <3>1. n.target_type = "authority_grant" /\ n.target_id \in GrantIds
      BY <2>1, <2>2, <2>5 DEF Notice, ValidNotice
    <3>2. n.target_id \in affectedGrantIds(n)
      BY <2>1, <2>5, RevocationFacts, CascadeContainsSeed DEF affectedGrantIds, RevocationSeed
    <3> QED
      BY <1>2, <3>1, <3>2, RevokeGrantsEffect, NullAssumption DEF GrantRevoked, Registered
  <2>6. revocations' = [revocations EXCEPT ![n.revocation_id] = receipt]
    BY <1>2 DEF ApplyRevocation
  <2> SUFFICES ASSUME NEW r \in RevocationIds, revocations'[r] # NULL
               PROVE  TargetRevoked(revocations[r])'
    BY DEF ReceiptInv
  <2>7. CASE r = n.revocation_id
    <3>1. /\ revocations'[r].target_type = n.target_type
          /\ revocations'[r].target_id = n.target_id
      BY <2>2, <2>3, <2>6, <2>7 DEF TypeOK
    <3> QED
      BY <2>4, <2>5, <3>1 DEF TargetRevoked, IdentityRevoked, GrantRevoked, Registered
  <2>8. CASE r # n.revocation_id
    <3>1. revocations'[r] = revocations[r]
      BY <2>2, <2>6, <2>8 DEF TypeOK
    <3>2. TargetRevoked(revocations[r])
      BY <3>1 DEF ReceiptInv
    <3> QED
      BY <1>1, <3>1, <3>2 DEF RevokedIsFinal, TargetRevoked, IdentityRevoked, GrantRevoked, Registered
  <2> QED
    BY <2>7, <2>8
<1>3. CASE UNCHANGED revocations
  BY <1>1, <1>3 DEF ReceiptInv, RevokedIsFinal, TargetRevoked, IdentityRevoked, GrantRevoked, Registered
<1> QED
  BY <1>2, <1>3 DEF Next, vars, RegisterIdentity, RegisterCapability,
     RegisterAuthorityGrant, AcceptEnvelope, RefuseEnvelope, RefuseRevocation, Tick

\* Every revocation acknowledged with a receipt stays in force.
THEOREM RevocationsAlwaysInForce == Spec => []RevocationsInForce
<1>1. Init => ReceiptInv
  BY DEF Init, ReceiptInv
<1>2. TypeOK /\ ReceiptInv /\ [Next]_vars => ReceiptInv'
  BY ReceiptStep
<1>3. ReceiptInv => RevocationsInForce
  BY DEF ReceiptInv, TargetRevoked, RevocationsInForce, IdentityRevoked, GrantRevoked, Live
<1> QED
  BY <1>1, <1>2, <1>3, TypeCorrect, PTL DEF Spec

\* A registration changes no record that is already stored.
LEMMA RegistrationRevokesNothing ==
  ASSUME TypeOK,
         \/ \E d \in IdentityDocs : RegisterIdentity(d)
         \/ \E d \in GrantDocs : RegisterAuthorityGrant(d)
  PROVE  ~Revokes /\ revocations' = revocations
<1>1. ASSUME NEW d \in IdentityDocs, RegisterIdentity(d)
      PROVE  ~Revokes /\ revocations' = revocations
  <2>1. d.agent_id \in AgentIds
    BY DocumentsAssumption DEF Identity
  <2>2. \A a \in AgentIds : identities[a] # NULL => identities'[a] = identities[a]
    BY <1>1, <2>1 DEF RegisterIdentity, TypeOK
  <2> QED
    BY <1>1, <2>2 DEF RegisterIdentity, Revokes
<1>2. ASSUME NEW d \in GrantDocs, RegisterAuthorityGrant(d)
      PROVE  ~Revokes /\ revocations' = revocations
  BY <1>2, RegisterGrantEffect DEF RegisterAuthorityGrant, Revokes
<1> QED
  BY <1>1, <1>2

\* Whatever is delegated from a grant a notice names is reached by the cascade
\* or was revoked before: the grants outside both are closed under parents.
LEMMA SubtreeReached ==
  ASSUME TypeOK, DelegationInv, NEW e \in Envelopes,
         RevocationAdmissible(e), RevocationApplicable(e),
         NEW g \in GrantIds, Lineage(g) \cap NamedBy(e.payload) # {}
  PROVE  Registered(g) /\ (g \in affectedGrantIds(e.payload) \/ ~Live(g))
<1> DEFINE n == e.payload
           A == affectedGrantIds(n)
           S == {x \in GrantIds : x \notin A /\ Live(x)}
           U == {g}
<1>1. NamedBy(n) = RevocationSeed(n)
  <2>1. n \in Notice /\ ValidNotice(n)
    BY RevocationFacts DEF RevocationAdmissible
  <2>2. n.target_type \in {"agent", "authority_grant"}
    BY <2>1 DEF Notice
  <2> QED
    BY <2>1, <2>2 DEF NamedBy, RevocationSeed, ValidNotice
<1>2. NamedBy(n) \subseteq A /\ \A t \in NamedBy(n) : Live(t)
  BY <1>1, RevocationFacts, CascadeContainsSeed DEF affectedGrantIds
<1>3. Registered(g)
  <2> SUFFICES ASSUME ~Registered(g)
               PROVE  FALSE
    OBVIOUS
  <2>1. Lineage(g) \subseteq U
    BY LineageLeast
  <2> QED
    BY <1>2, <2>1 DEF Live
<1>4. ASSUME g \notin A, Live(g)
      PROVE  FALSE
  <2>1. ClosedUnderDelegation(A)
    BY RevocationFacts, CascadeIsClosed DEF affectedGrantIds
  <2>2. ASSUME NEW x \in S, grants[x].parent_grant_ref # NULL
        PROVE  grants[x].parent_grant_ref \in S
    <3> DEFINE p == grants[x].parent_grant_ref
    <3>1. Registered(x) /\ grants[x] \in Grant
      BY DEF Live, Registered, TypeOK, Optional
    <3>2. p \in GrantIds
      BY <2>2, <3>1 DEF Grant, Optional
    <3>3. Registered(p) /\ grants[p].status = "active"
      BY <2>2, <3>1 DEF DelegationInv, HasParent, UnderParent, Live
    <3>4. p \notin A
      BY <2>1 DEF ClosedUnderDelegation
    <3> QED
      BY <3>2, <3>3, <3>4 DEF Live
  <2>3. Lineage(g) \subseteq S
    BY <1>4, <2>2, LineageLeast
  <2> QED
    BY <1>2, <2>3
<1> QED
  BY <1>3, <1>4

\* What applyRevocation does when it does anything.
LEMMA ApplyIsWhole ==
  ASSUME TypeOK, DelegationInv, NEW e \in Envelopes, NEW later \in CallTimes,
         ApplyRevocation(e, later)
  PROVE  /\ Revokes /\ revocations' # revocations
         /\ acceptCount' = [acceptCount EXCEPT ![e] = @ + 1]
         /\ e.payload # NULL
         /\ FilesReceipt(e.payload)
<1> DEFINE n == e.payload
<1>1. RevocationAdmissible(e) /\ RevocationApplicable(e) /\ ValidNotice(n)
  BY DEF ApplyRevocation, RevocationAdmissible
<1>2. /\ n \in Notice /\ n # NULL /\ n.revocation_id \in RevocationIds
      /\ n.target_type \in {"agent", "authority_grant"}
  BY <1>1, RevocationFacts DEF Notice, ValidNotice
<1>3. revocations[n.revocation_id] = NULL /\ revocations'[n.revocation_id] # NULL
  <2>1. revocationReceipt(n) \in RevocationReceipt
    BY <1>1, <1>2, RevocationFacts DEF revocationReceipt, RevocationReceipt, Notice
  <2>2. revocations'[n.revocation_id] = revocationReceipt(n)
    BY <1>2 DEF ApplyRevocation, TypeOK
  <2> QED
    BY <1>1, <2>1, <2>2, NullAssumption DEF RevocationApplicable
<1>4. ASSUME n.target_type = "agent"
      PROVE  /\ n.target_id \in AgentIds /\ identities[n.target_id] # NULL
             /\ identities'[n.target_id] # identities[n.target_id]
             /\ identities'[n.target_id].lifecycle_state = "revoked"
  <2>1. n.target_id \in AgentIds
    BY <1>1, <1>4 DEF ValidNotice
  <2> QED
    BY <1>4, <2>1, RevokeIdentityEffect DEF IdentityRevoked
<1>5. ASSUME n.target_type = "authority_grant"
      PROVE  \E g \in GrantIds : Registered(g) /\ grants'[g] # grants[g]
  <2>1. n.target_id \in GrantIds /\ n.target_id \in affectedGrantIds(n)
    BY <1>1, <1>5, RevocationFacts, CascadeContainsSeed
       DEF affectedGrantIds, RevocationSeed, ValidNotice
  <2> QED
    BY <2>1, RevokeGrantsEffect DEF Live
<1>6. Revokes
  BY <1>2, <1>4, <1>5 DEF Revokes
<1>7. revocations' # revocations
  BY <1>3
<1>8. ASSUME NEW g \in GrantIds, Lineage(g) \cap NamedBy(n) # {}
      PROVE  grants'[g].status = "revoked"
  <2>1. Registered(g) /\ (g \in affectedGrantIds(n) \/ ~Live(g))
    BY <1>1, <1>8, SubtreeReached
  <2> QED
    BY <2>1, RevokeGrantsEffect DEF Live
<1> QED
  BY <1>2, <1>3, <1>4, <1>6, <1>7, <1>8 DEF FilesReceipt, ApplyRevocation, ConsumeAndCount

(* --------------------------- the replay guard --------------------------- *)

\* Where an admitted envelope stands.  Its tombstone is in place until it
\* expires; a second admission needs a call in which the clock moved past its
\* expiry between the two readings.
ReplayState(e) ==
  \/ acceptCount[e] = 0
  \/ acceptCount[e] = 1 /\ (Tombstone(e) \in entries \/ e.expires_at <= clock)
  \/ acceptCount[e] = 2 /\ e.expires_at <= clock /\ CallSpan # 0

ReplayInv == \A e \in Envelopes : ReplayState(e)

LEMMA ExpiryIsNat ==
  ASSUME NEW e \in Envelopes
  PROVE  e.expires_at \in Nat /\ Tombstone(e).expires_at = e.expires_at
BY DocumentsAssumption DEF Envelope, Tombstone

\* Pruning at a time not before the clock keeps the invariant for an envelope
\* that is not admitted in the same call.
LEMMA PruneKeepsReplayState ==
  ASSUME TypeOK, NEW e \in Envelopes, ReplayState(e), NEW later \in CallTimes,
         Pruned(later) \subseteq entries', clock' = later,
         acceptCount'[e] = acceptCount[e]
  PROVE  ReplayState(e)'
<1>1. later \in Nat /\ clock \in Nat /\ clock <= later /\ e.expires_at \in Nat
  BY CallTimesNat, ExpiryIsNat DEF TypeOK
<1>2. e.expires_at <= clock => e.expires_at <= later
  BY <1>1
<1>3. Tombstone(e) \in entries => Tombstone(e) \in Pruned(later) \/ e.expires_at <= later
  BY <1>1, ExpiryIsNat DEF Pruned
<1> QED
  BY <1>2, <1>3 DEF ReplayState, Tombstone

LEMMA ConsumeKeepsReplayInv ==
  ASSUME TypeOK, ReplayInv, NEW f \in Envelopes, NEW later \in CallTimes,
         f.expires_at > clock, ConsumeAndCount(f, later)
  PROVE  ReplayInv'
<1> SUFFICES ASSUME NEW e \in Envelopes
             PROVE  ReplayState(e)'
  BY DEF ReplayInv
<1>1. ReplayState(e)
  BY DEF ReplayInv
<1>2. CASE e # f
  <2>1. acceptCount'[e] = acceptCount[e] /\ Pruned(later) \subseteq entries' /\ clock' = later
    BY <1>2 DEF ConsumeAndCount, TypeOK
  <2> QED
    BY <1>1, <2>1, PruneKeepsReplayState
<1>3. CASE e = f
  <2>1. /\ acceptCount[e] \in Nat /\ acceptCount'[e] = acceptCount[e] + 1
        /\ Tombstone(e) \in entries' /\ clock' = later
    BY <1>3 DEF ConsumeAndCount, TypeOK
  <2>2. later \in Nat /\ clock \in Nat /\ e.expires_at \in Nat /\ ~(e.expires_at <= clock)
    BY <1>3, CallTimesNat, ExpiryIsNat DEF TypeOK
  <2>3. CASE acceptCount[e] = 0
    <3>1. acceptCount'[e] = 1
      BY <2>1, <2>3
    <3> QED
      BY <2>1, <3>1 DEF ReplayState, Tombstone
  <2>4. CASE acceptCount[e] = 1
    <3>1. Tombstone(e) \in entries
      BY <1>1, <2>2, <2>4 DEF ReplayState
    <3>2. Tombstone(e) \notin Pruned(later)
      BY <1>3 DEF ConsumeAndCount, Consumable, Has, Tombstone
    <3>3. e.expires_at <= later
      BY <2>2, <3>1, <3>2, ExpiryIsNat DEF Pruned
    <3>4. CallSpan # 0
      BY <2>2, <3>3 DEF CallTimes
    <3>5. acceptCount'[e] = 2
      BY <2>1, <2>4
    <3> QED
      BY <2>1, <3>3, <3>4, <3>5 DEF ReplayState
  <2> QED
    BY <1>1, <2>2, <2>3, <2>4 DEF ReplayState
<1> QED
  BY <1>2, <1>3

LEMMA ReplayStep ==
  ASSUME TypeOK, ReplayInv, [Next]_vars
  PROVE  ReplayInv'
<1>1. ASSUME NEW e \in Envelopes, NEW later \in CallTimes,
             AcceptEnvelope(e, later) \/ ApplyRevocation(e, later)
      PROVE  ReplayInv'
  <2>1. ConsumeAndCount(e, later) /\ AuthorizeValidatedEnvelope(e, clock)
    BY <1>1 DEF AcceptEnvelope, Acceptable, ApplyRevocation, RevocationAdmissible
  <2>2. e.expires_at > clock
    BY <2>1 DEF AuthorizeValidatedEnvelope
  <2> QED
    BY <2>1, <2>2, ConsumeKeepsReplayInv
<1>2. ASSUME NEW e \in Envelopes, NEW later \in CallTimes,
             RefuseEnvelope(e, later) \/ RefuseRevocation(e, later)
      PROVE  ReplayInv'
  <2>1. entries' = Pruned(later) /\ clock' = later /\ acceptCount' = acceptCount
    BY <1>2 DEF RefuseEnvelope, RefuseRevocation
  <2> QED
    BY <2>1, PruneKeepsReplayState DEF ReplayInv
<1>3. CASE Tick
  <2>1. /\ clock \in Nat /\ clock' = clock + 1
        /\ entries' = entries /\ acceptCount' = acceptCount
    BY <1>3 DEF Tick, TypeOK
  <2>2. ASSUME NEW e \in Envelopes, e.expires_at <= clock
        PROVE  e.expires_at <= clock + 1
    BY <2>1, <2>2, ExpiryIsNat
  <2> QED
    BY <2>1, <2>2 DEF ReplayInv, ReplayState, Tombstone
<1>4. CASE UNCHANGED <<entries, clock, acceptCount>>
  BY <1>4 DEF ReplayInv, ReplayState, Tombstone
<1> QED
  BY <1>1, <1>2, <1>3, <1>4 DEF Next, vars, RegisterIdentity, RegisterCapability,
     RegisterAuthorityGrant

LEMMA ReplayInvariance == Spec => [](TypeOK /\ ReplayInv)
<1>1. Init => ReplayInv
  BY DEF Init, ReplayInv, ReplayState
<1>2. TypeOK /\ ReplayInv /\ [Next]_vars => ReplayInv'
  BY ReplayStep
<1> QED
  BY <1>1, <1>2, TypeCorrect, PTL DEF Spec

\* A second admission of an envelope happens only in a call during which the
\* envelope expires, and there is never a third.
THEOREM ReplayAlwaysAtExpiry == Spec => []ReplayOnlyAtExpiry
<1>1. ReplayInv => ReplayOnlyAtExpiry
  BY DEF ReplayInv, ReplayState, ReplayOnlyAtExpiry
<1> QED
  BY <1>1, ReplayInvariance, PTL

\* If the two clock readings of one call always agree, every envelope is
\* admitted at most once.
THEOREM AdmittedOnceIfReadingsAgree ==
  ASSUME CallSpan = 0
  PROVE  Spec => []AcceptedAtMostOnce
<1>1. ReplayInv => AcceptedAtMostOnce
  BY DEF ReplayInv, ReplayState, AcceptedAtMostOnce
<1> QED
  BY <1>1, ReplayInvariance, PTL

\* The guard holds finitely many tombstones, at most maxEntries of them.
GuardInv == IsFiniteSet(entries) /\ Cardinality(entries) <= maxEntries

LEMMA PrunedIsSmaller ==
  ASSUME GuardInv, NEW now
  PROVE  /\ IsFiniteSet(Pruned(now))
         /\ Cardinality(Pruned(now)) <= Cardinality(entries)
         /\ Cardinality(Pruned(now)) \in Nat /\ Cardinality(entries) \in Nat
<1>1. Pruned(now) \in SUBSET entries /\ IsFiniteSet(entries)
  BY DEF Pruned, GuardInv
<1> QED
  BY <1>1, FS_Subset, FS_CardinalityType

\* The replay guard never grows past its capacity.
THEOREM ReplayAlwaysBounded == Spec => []ReplayBounded
<1>1. Init => GuardInv
  BY FS_EmptySet, BoundsAssumption DEF Init, GuardInv
<1>2. ASSUME GuardInv, [Next]_vars
      PROVE  GuardInv'
  <2>1. ASSUME NEW e \in Envelopes, NEW later \in CallTimes, ConsumeAndCount(e, later)
        PROVE  GuardInv'
    <3>1. /\ IsFiniteSet(Pruned(later)) /\ Cardinality(Pruned(later)) \in Nat
          /\ Cardinality(Pruned(later)) < maxEntries
          /\ entries' = Pruned(later) \cup {Tombstone(e)}
      BY <1>2, <2>1, PrunedIsSmaller DEF ConsumeAndCount, Consumable
    <3>2. /\ IsFiniteSet(Pruned(later) \cup {Tombstone(e)})
          /\ \/ Cardinality(Pruned(later) \cup {Tombstone(e)}) = Cardinality(Pruned(later))
             \/ Cardinality(Pruned(later) \cup {Tombstone(e)}) = Cardinality(Pruned(later)) + 1
      BY <3>1, FS_AddElement
    <3> QED
      BY <3>1, <3>2, BoundsAssumption DEF GuardInv
  <2>2. ASSUME NEW now, entries' = Pruned(now)
        PROVE  GuardInv'
    BY <1>2, <2>2, PrunedIsSmaller, BoundsAssumption DEF GuardInv
  <2>3. CASE UNCHANGED entries
    BY <1>2, <2>3 DEF GuardInv
  <2> QED
    BY <1>2, <2>1, <2>2, <2>3 DEF Next, vars, RegisterIdentity, RegisterCapability,
       RegisterAuthorityGrant, AcceptEnvelope, RefuseEnvelope, ApplyRevocation,
       RefuseRevocation, Tick
<1>3. GuardInv => ReplayBounded
  BY DEF GuardInv, ReplayBounded
<1> QED
  BY <1>1, <1>2, <1>3, PTL DEF Spec

(* ------------------------------- together ------------------------------- *)

\* The forest of grants stays sound under every order of registerAuthorityGrant
\* and applyRevocation: acyclic, attenuating, and dead below what was revoked.
THEOREM DelegationAlwaysSound == Spec => []DelegationSound
<1>1. CascadeClosed /\ DelegationAttenuates /\ DelegationAcyclic /\ RevocationsInForce
        => DelegationSound
  BY DEF DelegationSound
<1> QED
  BY <1>1, CascadeAlwaysClosed, DelegationAlwaysAttenuates, DelegationAlwaysAcyclic,
     RevocationsAlwaysInForce, PTL

\* A revoked record never changes again, and acceptEnvelope admits nothing
\* that hangs from one.
THEOREM RevocationAlwaysBlocks == Spec => RevocationBlocks
<1>1. TypeOK /\ DelegationInv /\ [Next]_vars
        => [RevokedIsFinal /\ AdmissionNeedsLiveChain]_vars
  BY RevokedFinalStep, AdmissionStep
<1> QED
  BY <1>1, DelegationInvariance, PTL DEF Spec, RevocationBlocks

\* applyRevocation is all or nothing, for grants and agents alike: only a step
\* that consumes an envelope and files its receipt alters a stored record, and
\* it leaves nothing below the target alive.
THEOREM RevocationAlwaysAtomic == Spec => RevocationAtomic
<1> DEFINE Whole == /\ Revokes <=> revocations' # revocations
                    /\ Revokes => \E e \in Envelopes :
                                    /\ acceptCount' = [acceptCount EXCEPT ![e] = @ + 1]
                                    /\ e.payload # NULL
                                    /\ FilesReceipt(e.payload)
<1>1. ASSUME TypeOK, DelegationInv, [Next]_vars
      PROVE  Whole
  <2>1. CASE \/ \E d \in IdentityDocs : RegisterIdentity(d)
             \/ \E d \in GrantDocs : RegisterAuthorityGrant(d)
    BY <1>1, <2>1, RegistrationRevokesNothing
  <2>2. CASE \E e \in Envelopes, later \in CallTimes : ApplyRevocation(e, later)
    BY <1>1, <2>2, ApplyIsWhole
  <2>3. CASE UNCHANGED <<identities, grants, revocations>>
    BY <2>3 DEF Revokes
  <2> QED
    BY <1>1, <2>1, <2>2, <2>3 DEF Next, vars, RegisterCapability,
       AcceptEnvelope, RefuseEnvelope, RefuseRevocation, Tick
<1>2. TypeOK /\ DelegationInv /\ [Next]_vars => [Whole]_vars
  BY <1>1
<1> QED
  BY <1>2, DelegationInvariance, PTL DEF Spec, RevocationAtomic

\* ReplayGuard.consume keeps its bound, and forgets no envelope before the call
\* during which it expires.
THEOREM ReplayAlwaysSound == Spec => []ReplaySound
<1>1. ReplayBounded /\ ReplayOnlyAtExpiry => ReplaySound
  BY DEF ReplaySound
<1> QED
  BY <1>1, ReplayAlwaysBounded, ReplayAlwaysAtExpiry, PTL
=============================================================================
