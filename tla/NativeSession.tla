------------------------------ MODULE NativeSession ------------------------------
(***************************************************************************)
(* native-session.mjs: port A offers sessions to port B, B accepts, A      *)
(* finishes, and both exchange sealed frames, each under its own owner     *)
(* policy and its own clock.                                               *)
(*                                                                         *)
(* Offers, acceptances and frames may be lost, delayed, repeated and       *)
(* reordered.  An acceptance stands for the pair of ephemeral keys and the *)
(* signed controls it binds, hence for the two traffic keys derived from   *)
(* them: a frame opens exactly at the endpoint whose acceptance, direction *)
(* and sequence number it was sealed with.                                 *)
(***************************************************************************)
EXTENDS Naturals, FiniteSets, Sequences

CONSTANTS
  Offers,          \* calls of offerNativeSession by A (fresh session ids)
  Accepts,         \* acceptances B may sign (fresh ephemeral keys)
  Permitted,       \* per side, the offers whose scope, adapter and peer record
                   \* the owner's policy admits
  Payloads,
  replayCapacity,
  Lifetime,        \* 30 s: how long an offer is valid
  Quota,           \* 1024: frames per direction
  MaxTime,         \* bound on both clocks
  NULL

Sides == {"A", "B"}
Endpoints == Sides \X Accepts

ASSUME SessionAssumption ==
  /\ Permitted \in [Sides -> SUBSET Offers]
  /\ {replayCapacity, Lifetime, Quota} \subseteq Nat \ {0}
  /\ MaxTime \in Nat
  /\ NULL \notin Offers \cup Accepts
  /\ IsFiniteSet(Offers)

VARIABLES
  clock,      \* per side
  expiresAt,  \* of each offer; 0 before it is made
  finished,   \* offers A has finished or cancelled
  accepted,   \* the offer each acceptance answers
  acceptedAt, \* issuedAt of each acceptance
  used,       \* keys of B's policy.#used
  revoked,    \* sides whose owner has revoked the other port
  endpoint,   \* each session object: none, up or closed
  tx, rx,     \* its counters
  wire,       \* frames sealed so far
  sent,       \* history: payloads sealed at an endpoint
  got         \* history: payloads opened at an endpoint

handshakeVars == <<expiresAt, finished, accepted, acceptedAt, used>>
frameVars == <<tx, rx, wire, sent, got>>
vars == <<clock, expiresAt, finished, accepted, acceptedAt, used, revoked,
          endpoint, tx, rx, wire, sent, got>>

Frame == [from : Endpoints, sequence : Nat, payload : Payloads]

Init ==
  /\ clock = [d \in Sides |-> 0]
  /\ expiresAt = [o \in Offers |-> 0]
  /\ finished = {}
  /\ accepted = [a \in Accepts |-> NULL]
  /\ acceptedAt = [a \in Accepts |-> 0]
  /\ used = {}
  /\ revoked = {}
  /\ endpoint = [e \in Endpoints |-> "none"]
  /\ tx = [e \in Endpoints |-> 0]
  /\ rx = [e \in Endpoints |-> 0]
  /\ wire = {}
  /\ sent = [e \in Endpoints |-> <<>>]
  /\ got = [e \in Endpoints |-> <<>>]

-----------------------------------------------------------------------------
(* Policy.                                                                 *)

authorize(d, o) == d \notin revoked /\ o \in Permitted[d]

Revoke(d) ==
  /\ revoked' = revoked \cup {d}
  /\ UNCHANGED <<clock, handshakeVars, endpoint, frameVars>>

\* Mutant: session ids are forgotten a tick too early.
UnexpiredUsedEarly(now) == {o \in used : expiresAt[o] > now + 1}

\* consume forgets the session ids of expired offers.
UnexpiredUsed(now) == {o \in used : expiresAt[o] > now}

Consumable(o, now) ==
  /\ o \notin UnexpiredUsed(now)
  /\ Cardinality(UnexpiredUsed(now)) < replayCapacity

-----------------------------------------------------------------------------
(* The handshake.                                                          *)

\* control: an offer or acceptance issued at `issued` is valid at `now`.
control(o, issued, now) == issued <= now /\ now < expiresAt[o]

offerNativeSession(o) ==
  /\ expiresAt[o] = 0
  /\ authorize("A", o)
  /\ expiresAt' = [expiresAt EXCEPT ![o] = clock["A"] + Lifetime]
  /\ UNCHANGED <<clock, finished, accepted, acceptedAt, used, revoked, endpoint, frameVars>>

\* What acceptNativeSession checks before the replay table.
OfferValid(o) ==
  /\ expiresAt[o] # 0
  /\ control(o, expiresAt[o] - Lifetime, clock["B"])
  /\ authorize("B", o)

\* B accepts an offer and has its session at once.
acceptNativeSession(o, a) ==
  /\ OfferValid(o)
  /\ accepted[a] = NULL
  /\ Consumable(o, clock["B"])
  /\ used' = UnexpiredUsed(clock["B"]) \cup {o}
  /\ accepted' = [accepted EXCEPT ![a] = o]
  /\ acceptedAt' = [acceptedAt EXCEPT ![a] = clock["B"]]
  /\ endpoint' = [endpoint EXCEPT ![<<"B", a>>] = "up"]
  /\ UNCHANGED <<clock, expiresAt, finished, revoked, frameVars>>

\* A repeated offer, or one too many, is refused after the table was pruned.
AcceptRefused(o) ==
  /\ OfferValid(o)
  /\ ~Consumable(o, clock["B"])
  /\ used' = UnexpiredUsed(clock["B"])
  /\ UNCHANGED <<clock, expiresAt, finished, accepted, acceptedAt, revoked, endpoint, frameVars>>

\* Mutant: an offer can be finished again.
FinishTwice(a) ==
  /\ accepted[a] # NULL
  /\ control(accepted[a], acceptedAt[a], clock["A"])
  /\ authorize("A", accepted[a])
  /\ finished' = finished \cup {accepted[a]}
  /\ endpoint' = [endpoint EXCEPT ![<<"A", a>>] = "up"]
  /\ tx' = [tx EXCEPT ![<<"A", a>>] = 0]
  /\ rx' = [rx EXCEPT ![<<"A", a>>] = 0]
  /\ UNCHANGED <<clock, expiresAt, accepted, acceptedAt, used, revoked, wire, sent, got>>

\* finish: A takes an acceptance of an offer that is neither finished nor
\* cancelled; its session starts with fresh counters.
Finish(a) ==
  /\ accepted[a] # NULL
  /\ accepted[a] \notin finished
  /\ control(accepted[a], acceptedAt[a], clock["A"])
  /\ authorize("A", accepted[a])
  /\ finished' = finished \cup {accepted[a]}
  /\ endpoint' = [endpoint EXCEPT ![<<"A", a>>] = "up"]
  /\ tx' = [tx EXCEPT ![<<"A", a>>] = 0]
  /\ rx' = [rx EXCEPT ![<<"A", a>>] = 0]
  /\ UNCHANGED <<clock, expiresAt, accepted, acceptedAt, used, revoked, wire, sent, got>>

Cancel(o) ==
  /\ expiresAt[o] # 0
  /\ finished' = finished \cup {o}
  /\ UNCHANGED <<clock, expiresAt, accepted, acceptedAt, used, revoked, endpoint, frameVars>>

-----------------------------------------------------------------------------
(* Frames.                                                                 *)

Peer(e) == <<IF e[1] = "A" THEN "B" ELSE "A", e[2]>>

active(e) ==
  /\ endpoint[e] = "up"
  /\ clock[e[1]] < expiresAt[accepted[e[2]]]
  /\ authorize(e[1], accepted[e[2]])

seal(e, p) ==
  /\ active(e)
  /\ tx[e] < Quota
  /\ wire' = wire \cup {[from |-> e, sequence |-> tx[e], payload |-> p]}
  /\ tx' = [tx EXCEPT ![e] = @ + 1]
  /\ sent' = [sent EXCEPT ![e] = Append(@, p)]
  /\ UNCHANGED <<clock, handshakeVars, revoked, endpoint, rx, got>>

\* Mutant: frames may be skipped, but none is opened twice in a row.
openSkips(e, f) ==
  /\ active(e)
  /\ f.from = Peer(e)
  /\ f.sequence >= rx[e]
  /\ rx[e] < Quota
  /\ rx' = [rx EXCEPT ![e] = f.sequence + 1]
  /\ got' = [got EXCEPT ![e] = Append(@, f.payload)]
  /\ UNCHANGED <<clock, handshakeVars, revoked, endpoint, tx, wire, sent>>

\* open of the frame that is due; any other sequence number is refused and
\* changes nothing.
open(e, f) ==
  /\ active(e)
  /\ f.from = Peer(e)
  /\ f.sequence = rx[e]
  /\ rx[e] < Quota
  /\ rx' = [rx EXCEPT ![e] = @ + 1]
  /\ got' = [got EXCEPT ![e] = Append(@, f.payload)]
  /\ UNCHANGED <<clock, handshakeVars, revoked, endpoint, tx, wire, sent>>

\* A frame with the sequence number that is due does not authenticate: the
\* keys are erased.
openFails(e) ==
  /\ active(e)
  /\ rx[e] < Quota
  /\ endpoint' = [endpoint EXCEPT ![e] = "closed"]
  /\ UNCHANGED <<clock, handshakeVars, revoked, frameVars>>

close(e) ==
  /\ endpoint[e] \in {"up", "closed"}
  /\ endpoint' = [endpoint EXCEPT ![e] = "closed"]
  /\ UNCHANGED <<clock, handshakeVars, revoked, frameVars>>

-----------------------------------------------------------------------------

Tick(d) ==
  /\ clock[d] < MaxTime
  /\ clock' = [clock EXCEPT ![d] = @ + 1]
  /\ UNCHANGED <<handshakeVars, revoked, endpoint, frameVars>>

Next ==
  \/ \E d \in Sides : Revoke(d)
  \/ \E o \in Offers : offerNativeSession(o)
  \/ \E o \in Offers, a \in Accepts : acceptNativeSession(o, a)
  \/ \E o \in Offers : AcceptRefused(o)
  \/ \E a \in Accepts : Finish(a)
  \/ \E o \in Offers : Cancel(o)
  \/ \E e \in Endpoints, p \in Payloads : seal(e, p)
  \/ \E e \in Endpoints, f \in wire : open(e, f)
  \/ \E e \in Endpoints : openFails(e)
  \/ \E e \in Endpoints : close(e)
  \/ \E d \in Sides : Tick(d)

Spec == Init /\ [][Next]_vars

-----------------------------------------------------------------------------
(* Properties.                                                             *)

\* Types; B's replay table stays within its capacity although it is pruned
\* only when an offer comes in.
TypeOK ==
  /\ clock \in [Sides -> Nat]
  /\ expiresAt \in [Offers -> Nat]
  /\ finished \subseteq Offers
  /\ accepted \in [Accepts -> Offers \cup {NULL}]
  /\ acceptedAt \in [Accepts -> Nat]
  /\ used \subseteq Offers /\ Cardinality(used) <= replayCapacity
  /\ revoked \subseteq Sides
  /\ endpoint \in [Endpoints -> {"none", "up", "closed"}]
  /\ tx \in [Endpoints -> Nat] /\ rx \in [Endpoints -> Nat]
  /\ wire \subseteq Frame
  /\ sent \in [Endpoints -> Seq(Payloads)] /\ got \in [Endpoints -> Seq(Payloads)]

\* An offer, however often it reaches B, leads to one session: its id is
\* forgotten only when the offer itself is no longer valid.
OfferAcceptedOnce ==
  \A a, b \in Accepts : (accepted[a] # NULL /\ accepted[a] = accepted[b]) => a = b

\* No key and nonce are used for two frames: a repeated acceptance never gives
\* A a second session object that counts from zero again.
NonceUnique ==
  \A f, g \in wire : (f.from = g.from /\ f.sequence = g.sequence) => f = g

\* What an endpoint has opened is a prefix of what its peer has sealed, in
\* order and without gaps or repetitions, however the frames travelled.
OpenedIsPrefix ==
  \A e \in Endpoints :
    /\ Len(got[e]) <= Len(sent[Peer(e)])
    /\ \A i \in 1 .. Len(got[e]) : got[e][i] = sent[Peer(e)][i]

\* The frames of a session are sealed under fresh nonces and opened in the
\* order in which they were sealed, up to where one was lost.
FramesSound == NonceUnique /\ OpenedIsPrefix
=============================================================================
