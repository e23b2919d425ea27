---------------------------- MODULE SignedDirectory ----------------------------
(***************************************************************************)
(* SignedPortNameDirectory (port-names.mjs) and SignedPeerDirectory        *)
(* (native-port-identity.mjs).  Both keep the latest signed record of each *)
(* owner, refuse older revisions of it, forget what has expired when the   *)
(* next record comes in, and refuse revoked owners for good.               *)
(*                                                                         *)
(* Records reach a directory in any order and any number of times.  A      *)
(* record's entries stand for what it binds: names with their target ports *)
(* in one directory, capabilities and component bindings in the other.     *)
(***************************************************************************)
EXTENDS Naturals, FiniteSets

CONSTANTS
  Owners,           \* port identities
  Labels,           \* names (or binding fields) a record may define
  Records,          \* the records that may be presented
  capacity,
  RevokedCapacity,  \* 4096 in the peer directory
  MaxTTL,           \* one hour for names, five minutes for peers
  MaxTime,          \* bound on the clock
  NULL

Record ==
  [owner : Owners, signer : Owners, revision : Nat, issuedAt : Nat,
   expiresAt : Nat, entries : SUBSET (Labels \X Owners)]

ASSUME DirectoryAssumption ==
  /\ \A r \in Records : r \in Record
  /\ NULL \notin Record
  /\ capacity \in Nat \ {0}
  /\ {RevokedCapacity, MaxTTL, MaxTime} \subseteq Nat
  /\ IsFiniteSet(Owners)

VARIABLES
  portNames, \* this is the name directory, not the peer directory; never changes
  records,   \* #records: Owners -> record or NULL
  revoked,   \* #revoked
  clock,     \* the `now` of the calls
  newest,    \* history: the first record ingested with the highest revision
  answered   \* history: the revision each owner was last resolved from

vars == <<portNames, records, revoked, clock, newest, answered>>

Init ==
  /\ portNames \in BOOLEAN
  /\ records = [o \in Owners |-> NULL]
  /\ revoked = {}
  /\ clock = 0
  /\ newest = [o \in Owners |-> NULL]
  /\ answered = [o \in Owners |-> 0]

-----------------------------------------------------------------------------
(* Verification of a record on its own.                                    *)

\* The signature is the one of the port whose key hashes to the owner's id.
verifyEnvelope(r) == r.signer = r.owner

InLifetime(r, now) ==
  /\ r.revision >= 1
  /\ r.issuedAt <= now /\ now < r.expiresAt
  /\ r.expiresAt - r.issuedAt <= MaxTTL
  /\ r.entries # {}

\* A peer record.
assertRecord(r, now) == InLifetime(r, now)

\* A name manifest also gives each name one target.
verifyBody(r, now) ==
  /\ InLifetime(r, now)
  /\ \A x, y \in r.entries : x[1] = y[1] => x = y

\* Mutant: the signature is not checked against the owner.
VerifiedUnsigned(r, now) ==
  IF portNames THEN verifyBody(r, now) ELSE assertRecord(r, now)

Verified(r, now) ==
  /\ verifyEnvelope(r)
  /\ IF portNames THEN verifyBody(r, now) ELSE assertRecord(r, now)

-----------------------------------------------------------------------------
(* ingest.                                                                 *)

Held == {o \in Owners : records[o] # NULL}

\* The owners whose records the pruning loop keeps.
Kept == {o \in Held : records[o].expiresAt > clock}

\* Mutant: a record of the same revision may replace the stored one.
SupersedesOrEquals(r, prior) == r.revision >= prior.revision

\* No rollback, and no second record under the same revision.
Supersedes(r, prior) == r.revision > prior.revision \/ r = prior

\* The name directory skips the capacity check if it held a record of this
\* owner before it pruned, the peer directory if it holds one afterwards.
NameHasRoom(r) == r.owner \in Held \/ Cardinality(Kept) < capacity
PeerHasRoom(r) == r.owner \in Kept \/ Cardinality(Kept) < capacity

\* Mutant: off by one at the capacity.
HasRoomForOneMore(r) == r.owner \in Held \/ Cardinality(Kept) <= capacity

HasRoom(r) == IF portNames THEN NameHasRoom(r) ELSE PeerHasRoom(r)

\* Mutant: revoked owners are not looked up.
AdmissibleRevoked(r) ==
  /\ Verified(r, clock)
  /\ r.owner \in Held => Supersedes(r, records[r.owner])

\* The checks that throw before anything is changed.
Admissible(r) ==
  /\ Verified(r, clock)
  /\ r.owner \notin revoked
  /\ r.owner \in Held => Supersedes(r, records[r.owner])

Prune == [o \in Owners |-> IF o \in Kept THEN records[o] ELSE NULL]

Ingest(r) ==
  /\ Admissible(r)
  /\ HasRoom(r)
  /\ records' = [Prune EXCEPT ![r.owner] = r]
  /\ newest' = [newest EXCEPT ![r.owner] =
                  IF @ = NULL \/ r.revision > @.revision THEN r ELSE @]
  /\ UNCHANGED <<portNames, revoked, clock, answered>>

\* A record refused for capacity has pruned the directory all the same.
IngestFull(r) ==
  /\ Admissible(r)
  /\ ~HasRoom(r)
  /\ records' = Prune
  /\ UNCHANGED <<portNames, revoked, clock, newest, answered>>

-----------------------------------------------------------------------------

\* resolve and get: an answer comes from a record that still verifies.
Resolve(o) ==
  /\ o \notin revoked
  /\ o \in Held
  /\ Verified(records[o], clock)
  /\ answered' = [answered EXCEPT ![o] = records[o].revision]
  /\ UNCHANGED <<portNames, records, revoked, clock, newest>>

\* revoke; only the peer directory bounds the set.
Revoke(o) ==
  /\ portNames \/ o \in revoked \/ Cardinality(revoked) < RevokedCapacity
  /\ revoked' = revoked \cup {o}
  /\ records' = [records EXCEPT ![o] = NULL]
  /\ UNCHANGED <<portNames, clock, newest, answered>>

Tick ==
  /\ clock < MaxTime
  /\ clock' = clock + 1
  /\ UNCHANGED <<portNames, records, revoked, newest, answered>>

Next ==
  \/ \E r \in Records : Ingest(r)
  \/ \E r \in Records : IngestFull(r)
  \/ \E o \in Owners : Resolve(o)
  \/ \E o \in Owners : Revoke(o)
  \/ Tick

Spec == Init /\ [][Next]_vars

-----------------------------------------------------------------------------
(* Properties.                                                             *)

\* Types; every record is held under its owner's id.
TypeOK ==
  /\ portNames \in BOOLEAN
  /\ records \in [Owners -> Record \cup {NULL}]
  /\ \A o \in Held : records[o].owner = o /\ verifyEnvelope(records[o])
  /\ revoked \subseteq Owners
  /\ clock \in Nat
  /\ newest \in [Owners -> Record \cup {NULL}]
  /\ answered \in [Owners -> Nat]

\* The directory never outgrows its capacity, although the name directory
\* looks for a held record before it prunes and decides afterwards.
DirectoryBounded == Cardinality(Held) <= capacity

\* A record gives way to an older or a conflicting one only after it has
\* expired: while the newest revision ever taken in is valid, it is the one
\* that is held, unless its owner was revoked.
NewestHeldWhileValid ==
  \A o \in Owners :
    (newest[o] # NULL /\ o \notin revoked /\ newest[o].expiresAt > clock)
      => records[o] = newest[o]

\* A revoked owner's record never comes back, whatever is presented later.
RevokedStaysOut == \A o \in revoked : records[o] = NULL

\* Whatever is presented in whatever order, the directory stays within its
\* capacity, keeps the newest valid record and never one of a revoked owner.
DirectorySound == DirectoryBounded /\ NewestHeldWhileValid /\ RevokedStaysOut

\* Answers for an owner never go back to an earlier revision.
NoRollback == [][\A o \in Owners : answered'[o] >= answered[o]]_vars
=============================================================================
