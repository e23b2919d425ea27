-------------------------- MODULE NativeSessionProofs --------------------------
(***************************************************************************)
(* The invariants of NativeSession, for every number of offers, acceptances*)
(* and frames, every capacity and every drift between the two clocks.      *)
(***************************************************************************)
EXTENDS NativeSession, FiniteSetTheorems, TLAPS

Types ==
  /\ clock \in [Sides -> Nat]
  /\ expiresAt \in [Offers -> Nat]
  /\ finished \subseteq Offers
  /\ accepted \in [Accepts -> Offers \cup {NULL}]
  /\ acceptedAt \in [Accepts -> Nat]
  /\ used \subseteq Offers
  /\ revoked \subseteq Sides
  /\ endpoint \in [Endpoints -> {"none", "up", "closed"}]
  /\ tx \in [Endpoints -> Nat] /\ rx \in [Endpoints -> Nat]
  /\ wire \subseteq Frame
  /\ sent \in [Endpoints -> Seq(Payloads)] /\ got \in [Endpoints -> Seq(Payloads)]

Bounded == Cardinality(used) <= replayCapacity

\* An accepted offer was made, and B remembers it as long as it is valid.
RememberedWhileValid ==
  \A a \in Accepts :
    accepted[a] # NULL =>
      /\ expiresAt[accepted[a]] # 0
      /\ accepted[a] \in used \/ expiresAt[accepted[a]] <= clock["B"]

\* A session object exists only for a signed acceptance, at A only for a
\* finished offer.
EndpointsExplained ==
  \A e \in Endpoints :
    endpoint[e] # "none" =>
      /\ accepted[e[2]] # NULL
      /\ e[1] = "A" => accepted[e[2]] \in finished

\* The counters count, and they are zero where there is no session yet.
CountersExact ==
  \A e \in Endpoints :
    /\ Len(sent[e]) = tx[e]
    /\ Len(got[e]) = rx[e]
    /\ endpoint[e] = "none" => tx[e] = 0 /\ rx[e] = 0

\* A frame on the wire is an entry of what its endpoint has sealed.
FramesWereSent ==
  \A f \in wire : f.sequence < tx[f.from] /\ f.payload = sent[f.from][f.sequence + 1]

SessionInv ==
  /\ Types
  /\ Bounded
  /\ RememberedWhileValid
  /\ OfferAcceptedOnce
  /\ EndpointsExplained
  /\ CountersExact
  /\ FramesWereSent
  /\ OpenedIsPrefix

-----------------------------------------------------------------------------

\* Both names of an endpoint, and its peer is an endpoint.
LEMMA EndpointFacts ==
  /\ \A a \in Accepts : <<"A", a>> \in Endpoints /\ <<"B", a>> \in Endpoints
  /\ \A e \in Endpoints :
       /\ e[1] \in Sides /\ e[2] \in Accepts /\ e = <<e[1], e[2]>>
       /\ Peer(e) \in Endpoints /\ Peer(e) # e /\ Peer(e)[2] = e[2]
       /\ Peer(Peer(e)) = e
BY DEF Endpoints, Sides, Peer

\* Pruning keeps the replay table finite and within its bound; consuming an id
\* that is admissible keeps it within the capacity.
LEMMA UsedBounded ==
  ASSUME NEW S \in SUBSET Offers, NEW T \in SUBSET S, Cardinality(S) <= replayCapacity
  PROVE  /\ IsFiniteSet(T) /\ Cardinality(T) \in Nat /\ Cardinality(T) <= replayCapacity
         /\ \A o \in Offers :
              (o \notin T /\ Cardinality(T) < replayCapacity)
                => Cardinality(T \cup {o}) <= replayCapacity
<1>1. IsFiniteSet(S) /\ IsFiniteSet(T) /\ Cardinality(T) <= Cardinality(S)
  BY SessionAssumption, FS_Subset DEF SessionAssumption
<1>2. Cardinality(T) \in Nat /\ Cardinality(S) \in Nat
  BY <1>1, FS_CardinalityType
<1>3. ASSUME NEW o \in Offers, o \notin T PROVE Cardinality(T \cup {o}) = Cardinality(T) + 1
  BY <1>1, <1>3, FS_AddElement
<1> QED BY <1>1, <1>2, <1>3, SessionAssumption DEF SessionAssumption

LEMMA InitSession == Init => SessionInv
<1> SUFFICES ASSUME Init PROVE SessionInv
  OBVIOUS
<1>1. Types
  BY DEF Init, Types, Frame
<1>2. Bounded
  BY FS_EmptySet, SessionAssumption DEF Init, Bounded, SessionAssumption
<1>3. RememberedWhileValid /\ OfferAcceptedOnce
  BY SessionAssumption DEF Init, RememberedWhileValid, OfferAcceptedOnce, SessionAssumption
<1>4. EndpointsExplained /\ CountersExact /\ FramesWereSent
  BY DEF Init, EndpointsExplained, CountersExact, FramesWereSent
<1>5. OpenedIsPrefix
  BY EndpointFacts DEF Init, OpenedIsPrefix
<1> QED BY <1>1, <1>2, <1>3, <1>4, <1>5 DEF SessionInv

-----------------------------------------------------------------------------
(* One lemma per group of actions.                                         *)

\* The handshake steps of A: an offer is made or cancelled.
LEMMA OfferStep ==
  ASSUME SessionInv,
         \E o \in Offers : offerNativeSession(o) \/ Cancel(o)
  PROVE  SessionInv'
<1> PICK o \in Offers : offerNativeSession(o) \/ Cancel(o)
  OBVIOUS
<1> USE DEF SessionInv, handshakeVars, frameVars
<1>0. Lifetime \in Nat \ {0} /\ clock["A"] + Lifetime \in Nat
  BY SessionAssumption DEF Types, Sides, SessionAssumption
<1>1. Types'
  BY <1>0 DEF offerNativeSession, Cancel, Types
<1>2. Bounded'
  BY DEF offerNativeSession, Cancel, Bounded
<1>3. RememberedWhileValid' /\ OfferAcceptedOnce'
  <2>1. CASE Cancel(o)
    BY <2>1 DEF Cancel, RememberedWhileValid, OfferAcceptedOnce
  <2>2. CASE offerNativeSession(o)
    <3>1. \A a \in Accepts : accepted[a] # NULL => expiresAt'[accepted[a]] = expiresAt[accepted[a]]
      BY <2>2 DEF offerNativeSession, RememberedWhileValid, Types
    <3> QED BY <2>2, <3>1 DEF offerNativeSession, RememberedWhileValid, OfferAcceptedOnce
  <2> QED BY <2>1, <2>2
<1>4. EndpointsExplained'
  BY EndpointFacts DEF offerNativeSession, Cancel, EndpointsExplained, Types
<1>5. CountersExact' /\ FramesWereSent' /\ OpenedIsPrefix'
  BY DEF offerNativeSession, Cancel, CountersExact, FramesWereSent, OpenedIsPrefix
<1> QED BY <1>1, <1>2, <1>3, <1>4, <1>5

\* B's handler, whether it accepts or refuses.
LEMMA AcceptStep ==
  ASSUME SessionInv,
         \E o \in Offers : AcceptRefused(o) \/ \E a \in Accepts : acceptNativeSession(o, a)
  PROVE  SessionInv'
<1> PICK o \in Offers : AcceptRefused(o) \/ \E a \in Accepts : acceptNativeSession(o, a)
  OBVIOUS
<1> USE DEF SessionInv, handshakeVars, frameVars
<1> DEFINE kept == UnexpiredUsed(clock["B"])
<1>0. /\ used \in SUBSET Offers /\ kept \in SUBSET used
      /\ Cardinality(used) <= replayCapacity
      /\ clock["B"] \in Nat
  BY DEF Types, UnexpiredUsed, Bounded, Sides
<1>k. /\ Cardinality(kept) \in Nat /\ Cardinality(kept) <= replayCapacity
      /\ (o \notin kept /\ Cardinality(kept) < replayCapacity)
           => Cardinality(kept \cup {o}) <= replayCapacity
  <2> HIDE DEF kept
  <2> QED BY <1>0, UsedBounded
<1>r. CASE AcceptRefused(o)
  <2>1. Types'
    BY <1>0, <1>r DEF AcceptRefused, Types
  <2>2. Bounded'
    BY <1>0, <1>k, <1>r DEF AcceptRefused, Bounded
  <2>3. RememberedWhileValid' /\ OfferAcceptedOnce'
    BY <1>0, <1>r DEF AcceptRefused, RememberedWhileValid, OfferAcceptedOnce, UnexpiredUsed, Types
  <2>4. EndpointsExplained' /\ CountersExact' /\ FramesWereSent' /\ OpenedIsPrefix'
    BY <1>r DEF AcceptRefused, EndpointsExplained, CountersExact, FramesWereSent, OpenedIsPrefix
  <2> QED BY <2>1, <2>2, <2>3, <2>4
<1>a. ASSUME NEW a \in Accepts, acceptNativeSession(o, a) PROVE SessionInv'
  <2>0. <<"B", a>> \in Endpoints /\ used' \subseteq Offers
    BY <1>0, <1>a, EndpointFacts DEF acceptNativeSession
  <2>1. Types'
    BY <1>0, <1>a, <2>0 DEF acceptNativeSession, Types
  <2>2. Bounded'
    BY <1>0, <1>k, <1>a DEF acceptNativeSession, Consumable, Bounded
  <2>3. expiresAt[o] \in Nat /\ expiresAt[o] # 0 /\ expiresAt[o] > clock["B"]
    BY <1>0, <1>a DEF acceptNativeSession, OfferValid, control, Types
  <2>4. \A b \in Accepts : accepted[b] # o
    BY <1>0, <1>a, <2>3, SessionAssumption
       DEF acceptNativeSession, Consumable, UnexpiredUsed, RememberedWhileValid, SessionAssumption
  <2>5. OfferAcceptedOnce'
    BY <1>a, <2>4 DEF acceptNativeSession, OfferAcceptedOnce, Types
  <2>6. RememberedWhileValid'
    BY <1>0, <1>a, <2>3 DEF acceptNativeSession, RememberedWhileValid, UnexpiredUsed, Types
  <2>7. EndpointsExplained'
    <3>1. o # NULL /\ accepted'[a] = o
      BY <1>a, SessionAssumption DEF acceptNativeSession, Types, SessionAssumption
    <3>2. ASSUME NEW e \in Endpoints, endpoint'[e] # "none"
          PROVE  accepted'[e[2]] # NULL /\ (e[1] = "A" => accepted'[e[2]] \in finished')
      <4>1. CASE e = <<"B", a>>
        BY <1>a, <3>1, <4>1
      <4>2. CASE e # <<"B", a>>
        <5>1. endpoint[e] # "none"
          BY <1>a, <3>2, <4>2 DEF acceptNativeSession, Types
        <5>2. e[2] \in Accepts /\ accepted[e[2]] # NULL /\ e[2] # a
          BY <1>a, <5>1, EndpointFacts DEF EndpointsExplained, acceptNativeSession
        <5> QED BY <1>a, <5>1, <5>2 DEF acceptNativeSession, EndpointsExplained, Types
      <4> QED BY <4>1, <4>2
    <3> QED BY <3>2 DEF EndpointsExplained
  <2>8. CountersExact'
    BY <1>a, EndpointFacts DEF acceptNativeSession, CountersExact, Types
  <2>9. FramesWereSent' /\ OpenedIsPrefix'
    BY <1>a DEF acceptNativeSession, FramesWereSent, OpenedIsPrefix
  <2> QED BY <2>1, <2>2, <2>5, <2>6, <2>7, <2>8, <2>9
<1> QED BY <1>r, <1>a

\* finish makes A's session object out of nothing, so its counters were zero.
LEMMA FinishStep ==
  ASSUME SessionInv, NEW a \in Accepts, Finish(a)
  PROVE  SessionInv'
<1> USE DEF SessionInv, handshakeVars, frameVars
<1>1. <<"A", a>> \in Endpoints /\ endpoint[<<"A", a>>] = "none"
  BY EndpointFacts DEF Finish, EndpointsExplained, Types
<1>2. tx[<<"A", a>>] = 0 /\ rx[<<"A", a>>] = 0
  BY <1>1 DEF CountersExact
<1>3. tx' = tx /\ rx' = rx
  BY <1>1, <1>2 DEF Finish, Types
<1>4. accepted[a] \in Offers
  BY DEF Finish, Types
<1>5. Types'
  BY <1>1, <1>3, <1>4 DEF Finish, Types
<1>6. Bounded' /\ RememberedWhileValid' /\ OfferAcceptedOnce'
  BY DEF Finish, Bounded, RememberedWhileValid, OfferAcceptedOnce
<1>7. EndpointsExplained'
  BY <1>1, EndpointFacts DEF Finish, EndpointsExplained, Types
<1>8. CountersExact'
  BY <1>1, <1>3 DEF Finish, CountersExact, Types
<1>9. FramesWereSent' /\ OpenedIsPrefix'
  BY <1>3 DEF Finish, FramesWereSent, OpenedIsPrefix
<1> QED BY <1>5, <1>6, <1>7, <1>8, <1>9

\* seal and open.
LEMMA FrameStep ==
  ASSUME SessionInv, NEW e \in Endpoints,
         (\E p \in Payloads : seal(e, p)) \/ (\E f \in wire : open(e, f))
  PROVE  SessionInv'
<1> USE DEF SessionInv, handshakeVars, frameVars
<1>s. ASSUME NEW p \in Payloads, seal(e, p) PROVE SessionInv'
  <2>1. /\ tx[e] \in Nat /\ sent[e] \in Seq(Payloads) /\ Len(sent[e]) = tx[e]
        /\ tx'[e] = tx[e] + 1 /\ sent'[e] = Append(sent[e], p)
        /\ \A g \in Endpoints : g # e => tx'[g] = tx[g] /\ sent'[g] = sent[g]
    BY <1>s DEF seal, CountersExact, Types
  <2>2. [from |-> e, sequence |-> tx[e], payload |-> p] \in Frame
    BY <2>1 DEF Frame
  <2>3. Types'
    BY <1>s, <2>1, <2>2 DEF seal, Types
  <2>4. Bounded' /\ RememberedWhileValid' /\ OfferAcceptedOnce' /\ EndpointsExplained'
    BY <1>s DEF seal, Bounded, RememberedWhileValid, OfferAcceptedOnce, EndpointsExplained
  <2>5. /\ Len(sent'[e]) = tx[e] + 1 /\ sent'[e][tx[e] + 1] = p
        /\ \A i \in 1 .. tx[e] : sent'[e][i] = sent[e][i]
    BY <2>1
  <2>6. CountersExact'
    BY <1>s, <2>1, <2>5 DEF seal, active, CountersExact
  <2>7. \A f \in wire' : f.sequence < tx'[f.from] /\ f.payload = sent'[f.from][f.sequence + 1]
    <3> SUFFICES ASSUME NEW f \in wire'
                 PROVE  f.sequence < tx'[f.from] /\ f.payload = sent'[f.from][f.sequence + 1]
      OBVIOUS
    <3>1. CASE f = [from |-> e, sequence |-> tx[e], payload |-> p]
      BY <3>1, <2>1, <2>5
    <3>2. CASE f \in wire /\ f.from # e
      BY <3>2, <2>1 DEF FramesWereSent, Types, Frame
    <3>3. CASE f \in wire /\ f.from = e
      <4>1. f.sequence \in Nat /\ f.sequence < tx[e] /\ f.payload = sent[e][f.sequence + 1]
        BY <3>3 DEF FramesWereSent, Types, Frame
      <4> QED BY <4>1, <3>3, <2>1, <2>5
    <3> QED BY <1>s, <3>1, <3>2, <3>3 DEF seal
  <2>8. FramesWereSent'
    BY <2>7 DEF FramesWereSent
  <2>9. OpenedIsPrefix'
    <3> SUFFICES ASSUME NEW g \in Endpoints
                 PROVE  /\ Len(got[g]) <= Len(sent'[Peer(g)])
                        /\ \A i \in 1 .. Len(got[g]) : got[g][i] = sent'[Peer(g)][i]
      BY <1>s DEF seal, OpenedIsPrefix, Peer
    <3>1. Peer(g) \in Endpoints /\ got[g] \in Seq(Payloads) /\ Len(got[g]) \in Nat
      BY EndpointFacts DEF Types
    <3>2. Len(got[g]) <= Len(sent[Peer(g)]) /\ \A i \in 1 .. Len(got[g]) : got[g][i] = sent[Peer(g)][i]
      BY DEF OpenedIsPrefix
    <3>3. CASE Peer(g) # e
      BY <3>1, <3>2, <3>3, <2>1
    <3>4. CASE Peer(g) = e
      BY <3>1, <3>2, <3>4, <2>1, <2>5
    <3> QED BY <3>3, <3>4
  <2> QED BY <2>3, <2>4, <2>6, <2>8, <2>9
<1>o. ASSUME NEW f \in wire, open(e, f) PROVE SessionInv'
  <2>1. /\ rx[e] \in Nat /\ got[e] \in Seq(Payloads) /\ Len(got[e]) = rx[e]
        /\ rx'[e] = rx[e] + 1 /\ got'[e] = Append(got[e], f.payload)
        /\ \A g \in Endpoints : g # e => rx'[g] = rx[g] /\ got'[g] = got[g]
        /\ f.payload \in Payloads
    BY <1>o DEF open, CountersExact, Types, Frame
  <2>2. Types'
    BY <1>o, <2>1 DEF open, Types
  <2>3. Bounded' /\ RememberedWhileValid' /\ OfferAcceptedOnce' /\ EndpointsExplained' /\ FramesWereSent'
    BY <1>o DEF open, Bounded, RememberedWhileValid, OfferAcceptedOnce, EndpointsExplained, FramesWereSent
  <2>4. /\ Len(got'[e]) = rx[e] + 1 /\ got'[e][rx[e] + 1] = f.payload
        /\ \A i \in 1 .. rx[e] : got'[e][i] = got[e][i]
    BY <2>1
  <2>5. CountersExact'
    BY <1>o, <2>1, <2>4 DEF open, active, CountersExact
  <2>6. /\ Peer(e) \in Endpoints /\ tx[Peer(e)] \in Nat /\ Len(sent[Peer(e)]) = tx[Peer(e)]
        /\ rx[e] < tx[Peer(e)] /\ f.payload = sent[Peer(e)][rx[e] + 1]
    BY <1>o, <2>1, EndpointFacts DEF open, FramesWereSent, CountersExact, Types
  <2>7. OpenedIsPrefix'
    <3> SUFFICES ASSUME NEW g \in Endpoints
                 PROVE  /\ Len(got'[g]) <= Len(sent[Peer(g)])
                        /\ \A i \in 1 .. Len(got'[g]) : got'[g][i] = sent[Peer(g)][i]
      <4>1. sent' = sent
        BY <1>o DEF open
      <4> QED BY <4>1 DEF OpenedIsPrefix, Peer
    <3>1. Len(got[g]) <= Len(sent[Peer(g)]) /\ \A i \in 1 .. Len(got[g]) : got[g][i] = sent[Peer(g)][i]
      BY DEF OpenedIsPrefix
    <3>2. CASE g # e
      BY <3>1, <3>2, <2>1
    <3>3. CASE g = e
      BY <3>1, <3>3, <2>1, <2>4, <2>6
    <3> QED BY <3>2, <3>3
  <2> QED BY <2>2, <2>3, <2>5, <2>7
<1> QED BY <1>s, <1>o

\* The remaining steps touch neither the handshake nor the frames.
LEMMA OtherStep ==
  ASSUME SessionInv,
         \/ \E d \in Sides : Revoke(d) \/ Tick(d)
         \/ \E e \in Endpoints : openFails(e) \/ close(e)
  PROVE  SessionInv'
<1> USE DEF SessionInv, handshakeVars, frameVars
<1>1. ASSUME NEW d \in Sides, Revoke(d) PROVE SessionInv'
  <2>1. Types'
    BY <1>1 DEF Revoke, Types
  <2>2. Bounded' /\ RememberedWhileValid' /\ OfferAcceptedOnce' /\ EndpointsExplained'
    BY <1>1 DEF Revoke, Bounded, RememberedWhileValid, OfferAcceptedOnce, EndpointsExplained
  <2>3. CountersExact' /\ FramesWereSent' /\ OpenedIsPrefix'
    BY <1>1 DEF Revoke, CountersExact, FramesWereSent, OpenedIsPrefix
  <2> QED BY <2>1, <2>2, <2>3
<1>2. ASSUME NEW d \in Sides, Tick(d) PROVE SessionInv'
  <2>1. Types'
    BY <1>2 DEF Tick, Types
  <2>2. clock["B"] \in Nat /\ clock'["B"] \in Nat /\ clock["B"] <= clock'["B"]
    BY <1>2 DEF Tick, Types, Sides
  <2>3. RememberedWhileValid'
    BY <1>2, <2>2 DEF Tick, RememberedWhileValid, Types
  <2>4. Bounded' /\ OfferAcceptedOnce' /\ EndpointsExplained'
    BY <1>2 DEF Tick, Bounded, OfferAcceptedOnce, EndpointsExplained
  <2>5. CountersExact' /\ FramesWereSent' /\ OpenedIsPrefix'
    BY <1>2 DEF Tick, CountersExact, FramesWereSent, OpenedIsPrefix
  <2> QED BY <2>1, <2>3, <2>4, <2>5
<1>3. ASSUME NEW e \in Endpoints, openFails(e) \/ close(e) PROVE SessionInv'
  <2>1. endpoint[e] # "none" /\ endpoint' = [endpoint EXCEPT ![e] = "closed"]
    BY <1>3 DEF openFails, close, active
  <2>2. Types'
    BY <1>3, <2>1 DEF openFails, close, Types
  <2>3. Bounded' /\ RememberedWhileValid' /\ OfferAcceptedOnce'
    BY <1>3 DEF openFails, close, Bounded, RememberedWhileValid, OfferAcceptedOnce
  <2>4. EndpointsExplained'
    BY <1>3, <2>1 DEF openFails, close, EndpointsExplained, Types
  <2>5. CountersExact'
    BY <1>3, <2>1 DEF openFails, close, CountersExact, Types
  <2>6. FramesWereSent' /\ OpenedIsPrefix'
    BY <1>3 DEF openFails, close, FramesWereSent, OpenedIsPrefix
  <2> QED BY <2>2, <2>3, <2>4, <2>5, <2>6
<1> QED BY <1>1, <1>2, <1>3

LEMMA StutterSession == SessionInv /\ UNCHANGED vars => SessionInv'
<1> SUFFICES ASSUME SessionInv, UNCHANGED vars PROVE SessionInv'
  OBVIOUS
<1> USE DEF SessionInv, vars
<1>1. Types' /\ Bounded' /\ RememberedWhileValid' /\ OfferAcceptedOnce'
  BY DEF Types, Bounded, RememberedWhileValid, OfferAcceptedOnce
<1>2. EndpointsExplained' /\ CountersExact' /\ FramesWereSent' /\ OpenedIsPrefix'
  BY DEF EndpointsExplained, CountersExact, FramesWereSent, OpenedIsPrefix
<1> QED BY <1>1, <1>2

\* SessionInv is an invariant of every run of the two ports.
THEOREM SessionInvariant == Spec => []SessionInv
<1>1. SessionInv /\ [Next]_vars => SessionInv'
  <2> SUFFICES ASSUME SessionInv, [Next]_vars PROVE SessionInv'
    OBVIOUS
  <2>1. CASE Next
    BY <2>1, OfferStep, AcceptStep, FinishStep, FrameStep, OtherStep DEF Next
  <2>2. CASE UNCHANGED vars
    BY <2>2, StutterSession
  <2> QED BY <2>1, <2>2
<1> QED BY <1>1, InitSession, PTL DEF Spec

-----------------------------------------------------------------------------

\* Types, and the replay table of NativeSessionPolicy.consume never exceeds its
\* capacity.
THEOREM TypeCorrect == Spec => []TypeOK
<1>1. SessionInv => TypeOK
  BY DEF SessionInv, Types, Bounded, TypeOK
<1> QED BY <1>1, SessionInvariant, PTL

\* acceptNativeSession opens at most one session per offer, for every drift
\* between the two clocks, although its table forgets expired ids.
THEOREM OfferAlwaysAcceptedOnce == Spec => []OfferAcceptedOnce
<1>1. SessionInv => OfferAcceptedOnce
  BY DEF SessionInv
<1> QED BY <1>1, SessionInvariant, PTL

\* No two frames are sealed under one key with one nonce.
THEOREM NonceAlwaysUnique == Spec => []NonceUnique
<1>1. SessionInv => NonceUnique
  <2> SUFFICES ASSUME SessionInv, NEW f \in wire, NEW g \in wire,
                      f.from = g.from, f.sequence = g.sequence
               PROVE  f = g
    BY DEF NonceUnique
  <2>1. f \in Frame /\ g \in Frame
    BY DEF SessionInv, Types
  <2>2. f.payload = g.payload
    BY DEF SessionInv, FramesWereSent
  <2> QED BY <2>1, <2>2 DEF Frame
<1> QED BY <1>1, SessionInvariant, PTL

\* Frames are opened in the order they were sealed, none skipped or repeated.
THEOREM OpenedAlwaysPrefix == Spec => []OpenedIsPrefix
<1>1. SessionInv => OpenedIsPrefix
  BY DEF SessionInv
<1> QED BY <1>1, SessionInvariant, PTL

\* However frames travel and whoever closes, seal never repeats a nonce and
\* open delivers a prefix.
THEOREM FramesAlwaysSound == Spec => []FramesSound
<1>1. NonceUnique /\ OpenedIsPrefix => FramesSound
  BY DEF FramesSound
<1> QED
  BY <1>1, NonceAlwaysUnique, OpenedAlwaysPrefix, PTL
=============================================================================
