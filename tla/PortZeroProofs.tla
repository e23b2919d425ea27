---------------------------- MODULE PortZeroProofs ----------------------------
(***************************************************************************)
(* Proofs about what Port Zero keeps: the signed directories, for any      *)
(* records, capacities and lifetimes; the operator's tool whose manifests  *)
(* reach one, for any invocations; the portal's site files, for any        *)
(* requests and limit; dispatch, receive, backup and restore, for any      *)
(* calls and attempts; the two hash chains, for any submissions and calls  *)
(* of append; the production routes, for any registrations, withdrawals    *)
(* and routes; and all of them side by side.                               *)
(***************************************************************************)
EXTENDS PortZero, FiniteSetTheorems, WellFoundedInduction, TLAPS

-----------------------------------------------------------------------------
(* The signed directories.                                                 *)

\* A record that has been superseded, pruned or never replaced by something
\* newer has expired, or its owner was revoked.
NewestGone ==
  \A o \in Owners : (newest[o] # NULL /\ records[o] # newest[o]) =>
    o \in revoked \/ newest[o].expiresAt <= clock

\* What is held has been the newest, or came after it.
HeldHasNewest == \A o \in Held : newest[o] # NULL

DirectoryInv ==
  /\ TypeOK
  /\ DirectoryBounded
  /\ RevokedStaysOut
  /\ HeldHasNewest
  /\ NewestGone

-----------------------------------------------------------------------------

\* Owners are finitely many, so subsets of them can be counted.
LEMMA OwnersCount ==
  ASSUME NEW S, S \subseteq Owners
  PROVE  IsFiniteSet(S) /\ Cardinality(S) \in Nat
BY FS_Subset, FS_CardinalityType, DirectoryAssumption

\* Dropping records keeps the directory within capacity.
LEMMA FewerHeld ==
  ASSUME DirectoryBounded, NEW S, S \subseteq Held
  PROVE  Cardinality(S) <= capacity
<1>1. Held \subseteq Owners /\ S \subseteq Owners
  BY DEF Held
<1>2. Cardinality(S) <= Cardinality(Held)
  BY <1>1, OwnersCount, FS_Subset
<1> QED
  BY <1>1, <1>2, OwnersCount, DirectoryAssumption DEF DirectoryBounded

\* There is room for the ingested record: its owner was held already, or the
\* pruned directory is below capacity.  This is where the order of look-up,
\* pruning and capacity check matters.
LEMMA RoomForOne ==
  ASSUME DirectoryBounded, NEW o \in Owners,
         o \in Held \/ Cardinality(Kept) < capacity
  PROVE  Cardinality(Kept \cup {o}) <= capacity
<1>0. Kept \subseteq Held /\ Kept \subseteq Owners
  BY DEF Kept, Held
<1>1. CASE o \in Held
  BY <1>0, <1>1, FewerHeld, Kept \cup {o} \subseteq Held
<1>2. CASE Cardinality(Kept) < capacity
  <2>1. IsFiniteSet(Kept) /\ Cardinality(Kept) \in Nat
    BY <1>0, OwnersCount
  <2>2. Cardinality(Kept \cup {o}) = IF o \in Kept THEN Cardinality(Kept) ELSE Cardinality(Kept) + 1
    BY <2>1, FS_AddElement
  <2> QED
    BY <1>2, <2>1, <2>2, DirectoryAssumption
<1> QED
  BY <1>1, <1>2

\* The two capacity checks come to the same for a directory within capacity.
LEMMA RoomEitherWay ==
  ASSUME NEW r, HasRoom(r)
  PROVE  r.owner \in Held \/ Cardinality(Kept) < capacity
BY DirectoryAssumption DEF HasRoom, NameHasRoom, PeerHasRoom, Kept

-----------------------------------------------------------------------------

\* An empty directory.
LEMMA InitEstablishesInv == Init => DirectoryInv
<1> SUFFICES ASSUME Init PROVE DirectoryInv
  OBVIOUS
<1>1. Held = {}
  BY DEF Init, Held
<1>2. DirectoryBounded
  BY <1>1, FS_EmptySet, DirectoryAssumption DEF DirectoryBounded
<1>3. TypeOK
  BY <1>1 DEF Init, TypeOK
<1> QED
  BY <1>1, <1>2, <1>3 DEF Init, DirectoryInv, RevokedStaysOut, HeldHasNewest, NewestGone

\* Taking in a record that supersedes what is held.
LEMMA IngestKeepsInv ==
  ASSUME DirectoryInv, NEW r \in Record, Ingest(r)
  PROVE  DirectoryInv'
<1> USE DEF DirectoryInv
<1>0. /\ r \in Record /\ r # NULL /\ r.owner \in Owners /\ r.owner \notin revoked
      /\ verifyEnvelope(r) /\ r.expiresAt > clock
  BY DirectoryAssumption DEF Record, Ingest, Admissible, Verified, verifyBody, assertRecord, InLifetime
<1>1. /\ \A o \in Owners : records'[o] = IF o = r.owner THEN r
                                         ELSE IF o \in Kept THEN records[o] ELSE NULL
      /\ records' \in [Owners -> Record \cup {NULL}]
  BY <1>0 DEF Ingest, Prune, TypeOK, Kept, Held
<1>2. /\ \A o \in Owners : newest'[o] =
           IF o = r.owner /\ (newest[o] = NULL \/ r.revision > newest[o].revision)
             THEN r ELSE newest[o]
      /\ newest' \in [Owners -> Record \cup {NULL}]
      /\ UNCHANGED <<portNames, revoked, clock, answered>>
  BY <1>0 DEF Ingest, TypeOK
<1>3. Held' = Kept \cup {r.owner}
  BY <1>0, <1>1 DEF Held, Kept
<1>4. TypeOK'
  <2>1. \A o \in Held' : records'[o].owner = o /\ verifyEnvelope(records'[o])
    BY <1>0, <1>1, <1>3 DEF TypeOK, Kept, Held
  <2>2. \A o \in Held' : verifyEnvelope(records[o])' <=> verifyEnvelope(records'[o])
    BY DEF verifyEnvelope
  <2> QED
    BY <1>1, <1>2, <2>1, <2>2 DEF TypeOK, verifyEnvelope
<1>5. DirectoryBounded'
  <2>1. Cardinality(Kept \cup {r.owner}) <= capacity
    BY <1>0, RoomEitherWay, RoomForOne DEF Ingest
  <2> QED
    BY <1>3, <2>1 DEF DirectoryBounded
<1>6. RevokedStaysOut'
  BY <1>0, <1>1, <1>2 DEF RevokedStaysOut, TypeOK, Kept, Held
<1>7. HeldHasNewest'
  <2> SUFFICES ASSUME NEW o \in Held' PROVE newest'[o] # NULL
    BY DEF HeldHasNewest
  <2>1. o \in Owners /\ (o = r.owner \/ o \in Held)
    BY <1>0, <1>3 DEF Kept, Held
  <2>2. CASE o = r.owner
    BY <1>0, <1>2, <2>1, <2>2
  <2>3. CASE o \in Held
    BY <1>0, <1>2, <2>1, <2>3 DEF HeldHasNewest
  <2> QED
    BY <2>1, <2>2, <2>3
<1>8. NewestGone'
  <2> SUFFICES ASSUME NEW o \in Owners, newest'[o] # NULL, records'[o] # newest'[o]
               PROVE  o \in revoked \/ newest'[o].expiresAt <= clock
    BY <1>2 DEF NewestGone
  <2>1. CASE o # r.owner
    <3>1. newest'[o] = newest[o]
      BY <1>2, <2>1
    <3>2. records'[o] = IF o \in Kept THEN records[o] ELSE NULL
      BY <1>1, <2>1
    <3>3. CASE records[o] # newest[o]
      BY <3>1, <3>3 DEF NewestGone
    <3>4. CASE records[o] = newest[o]
      <4>1. o \notin Kept /\ o \in Held
        BY <3>1, <3>2, <3>4 DEF Held
      <4>2. records[o].expiresAt \in Nat
        BY <4>1 DEF TypeOK, Held, Record
      <4> QED
        BY <3>1, <3>4, <4>1, <4>2 DEF Kept, TypeOK
    <3> QED
      BY <3>3, <3>4
  <2>2. CASE o = r.owner
    <3>1. records'[o] = r
      BY <1>1, <2>2
    <3>2. newest'[o] = newest[o] /\ newest[o] # NULL /\ ~(r.revision > newest[o].revision)
      BY <1>2, <2>2, <3>1
    <3>3. records[o] # newest[o]
      <4>1. SUFFICES ASSUME records[o] = newest[o] PROVE FALSE
        OBVIOUS
      <4>2. o \in Held
        BY <3>2, <4>1 DEF Held
      <4>3. Supersedes(r, records[o])
        BY <2>2, <4>2 DEF Ingest, Admissible
      <4> QED
        BY <3>1, <3>2, <4>1, <4>3 DEF Supersedes
    <3> QED
      BY <3>2, <3>3 DEF NewestGone
  <2> QED
    BY <2>1, <2>2
<1> QED
  BY <1>4, <1>5, <1>6, <1>7, <1>8

\* Pruning without taking the record in.
LEMMA PruneKeepsInv ==
  ASSUME DirectoryInv, NEW r \in Record, IngestFull(r)
  PROVE  DirectoryInv'
<1> USE DEF DirectoryInv
<1>1. /\ \A o \in Owners : records'[o] = IF o \in Kept THEN records[o] ELSE NULL
      /\ records' \in [Owners -> Record \cup {NULL}]
      /\ UNCHANGED <<portNames, revoked, clock, newest, answered>>
  BY DEF IngestFull, Prune, TypeOK, Kept, Held
<1>2. Held' = Kept /\ Kept \subseteq Held
  BY <1>1 DEF Held, Kept
<1>3. TypeOK'
  <2>1. \A o \in Held' : records'[o] = records[o] /\ o \in Held
    BY <1>1, <1>2 DEF Held
  <2>2. \A o \in Held' : records'[o].owner = o /\ records'[o].signer = records'[o].owner
    BY <2>1 DEF TypeOK, verifyEnvelope
  <2> QED
    BY <1>1, <2>2 DEF TypeOK, verifyEnvelope
<1>4. DirectoryBounded'
  BY <1>2, FewerHeld DEF DirectoryBounded
<1>5. RevokedStaysOut' /\ HeldHasNewest'
  BY <1>1, <1>2 DEF RevokedStaysOut, HeldHasNewest, TypeOK
<1>6. NewestGone'
  <2> SUFFICES ASSUME NEW o \in Owners, newest[o] # NULL, records'[o] # newest[o]
               PROVE  o \in revoked \/ newest[o].expiresAt <= clock
    BY <1>1 DEF NewestGone
  <2>1. CASE records[o] # newest[o]
    BY <2>1 DEF NewestGone
  <2>2. CASE records[o] = newest[o]
    <3>1. o \notin Kept /\ o \in Held
      BY <1>1, <2>2 DEF Held
    <3>2. records[o].expiresAt \in Nat
      BY <3>1 DEF TypeOK, Held, Record
    <3> QED
      BY <2>2, <3>1, <3>2 DEF Kept, TypeOK
  <2> QED
    BY <2>1, <2>2
<1> QED
  BY <1>3, <1>4, <1>5, <1>6

\* Revoking an owner drops its record.
LEMMA RevokeKeepsInv ==
  ASSUME DirectoryInv, NEW o \in Owners, Revoke(o)
  PROVE  DirectoryInv'
<1> USE DEF DirectoryInv
<1>1. /\ \A x \in Owners : records'[x] = IF x = o THEN NULL ELSE records[x]
      /\ records' \in [Owners -> Record \cup {NULL}]
      /\ revoked' = revoked \cup {o}
      /\ UNCHANGED <<portNames, clock, newest, answered>>
  BY DEF Revoke, TypeOK
<1>2. Held' \subseteq Held
  BY <1>1 DEF Held
<1>3. TypeOK'
  BY <1>1, <1>2 DEF TypeOK, verifyEnvelope, Held
<1>4. DirectoryBounded'
  BY <1>2, FewerHeld DEF DirectoryBounded
<1> QED
  BY <1>1, <1>2, <1>3, <1>4 DEF RevokedStaysOut, HeldHasNewest, NewestGone, TypeOK

\* Every operation preserves the invariant.
LEMMA NextKeepsInv == DirectoryInv /\ [Next]_vars => DirectoryInv'
<1> SUFFICES ASSUME DirectoryInv, [Next]_vars PROVE DirectoryInv'
  OBVIOUS
<1> USE DEF DirectoryInv
<1>1. ASSUME NEW o \in Owners, Resolve(o) PROVE DirectoryInv'
  <2>1. answered' \in [Owners -> Nat] /\ UNCHANGED <<portNames, records, revoked, clock, newest>>
    BY <1>1 DEF Resolve, TypeOK, Held, Record
  <2> QED
    BY <2>1 DEF TypeOK, Held, verifyEnvelope, DirectoryBounded, RevokedStaysOut,
       HeldHasNewest, NewestGone
<1>2. CASE Tick
  <2>1. clock' \in Nat /\ clock' = clock + 1 /\ UNCHANGED <<portNames, records, revoked, newest, answered>>
    BY <1>2 DEF Tick, TypeOK
  <2>2. NewestGone'
    BY <2>1 DEF NewestGone, TypeOK, Record
  <2> QED
    BY <2>1, <2>2 DEF TypeOK, Held, verifyEnvelope, DirectoryBounded, RevokedStaysOut, HeldHasNewest
<1>3. CASE UNCHANGED vars
  BY <1>3 DEF vars, TypeOK, Held, verifyEnvelope, DirectoryBounded, RevokedStaysOut,
     HeldHasNewest, NewestGone
<1> QED
  BY <1>1, <1>2, <1>3, IngestKeepsInv, PruneKeepsInv, RevokeKeepsInv, DirectoryAssumption DEF Next

\* The invariant holds throughout.
LEMMA DirectoryInvariant == Spec => []DirectoryInv
BY InitEstablishesInv, NextKeepsInv, PTL DEF Spec

-----------------------------------------------------------------------------

\* ingest files each record under the owner that signed it.
THEOREM TypeCorrect == Spec => []TypeOK
<1>1. DirectoryInv => TypeOK
  BY DEF DirectoryInv
<1> QED
  BY <1>1, DirectoryInvariant, PTL

\* Neither directory outgrows its capacity, whatever expires in between.
THEOREM AlwaysBounded == Spec => []DirectoryBounded
<1>1. DirectoryInv => DirectoryBounded
  BY DEF DirectoryInv
<1> QED
  BY <1>1, DirectoryInvariant, PTL

\* While the newest revision is valid, ingest cannot replace it by an older or
\* a conflicting one, and pruning cannot drop it.
THEOREM NewestAlwaysHeldWhileValid == Spec => []NewestHeldWhileValid
<1>1. DirectoryInv => NewestHeldWhileValid
  <2> SUFFICES ASSUME DirectoryInv, NEW o \in Owners, newest[o] # NULL, o \notin revoked,
                      newest[o].expiresAt > clock
               PROVE  records[o] = newest[o]
    BY DEF NewestHeldWhileValid
  <2>1. newest[o].expiresAt \in Nat /\ clock \in Nat
    BY DEF DirectoryInv, TypeOK, Record
  <2> QED
    BY <2>1 DEF DirectoryInv, NewestGone
<1> QED
  BY <1>1, DirectoryInvariant, PTL

\* revoke is final: no record of a revoked owner is held again.
THEOREM RevokedAlwaysOut == Spec => []RevokedStaysOut
<1>1. DirectoryInv => RevokedStaysOut
  BY DEF DirectoryInv
<1> QED
  BY <1>1, DirectoryInvariant, PTL

\* Under every order of ingest, revoke and expiry both directories stay within
\* their capacity and hold the newest valid record of owners not revoked.
THEOREM DirectoryAlwaysSound == Spec => []DirectorySound
<1>1. DirectoryBounded /\ NewestHeldWhileValid /\ RevokedStaysOut => DirectorySound
  BY DEF DirectorySound
<1> QED
  BY <1>1, AlwaysBounded, NewestAlwaysHeldWhileValid, RevokedAlwaysOut, PTL

-----------------------------------------------------------------------------
(* The operator's tool.                                                    *)

\* Every record is one of the owner's, and one that was placed stays so.
\* The directory holds nothing else.
PlacedInv ==
  /\ \A i \in Invocations : invocation[i].at = "signed" => invocation[i].record \in Record
  /\ \A i \in Invocations : invocation[i].record # NULL =>
       invocation[i].record.owner = Owner /\ invocation[i].record.signer = Owner
  /\ \A p \in placed : p.owner = Owner /\ p.signer = Owner
  /\ IF Whole THEN manifest \in placed ELSE placed = {}
  /\ \A o \in Held : records[o] \in placed
  /\ \A i \in Invocations : invocation[i].at = "placed" => placed # {}
  /\ placed = {} => \A n \in Labels : bound[n] = NULL

\* What an invocation has signed follows from the manifest it found.
SignedNext(i) ==
  IF i.action = "init"
  THEN ~Whole /\ invocation[i].record.entries = DefaultEntries
  ELSE /\ Whole /\ invocation[i].record.entries = Entries(i)
       /\ invocation[i].record.revision = manifest.revision + 1

\* What an invocation has yet to acknowledge is in the manifest it placed.
PlacedNow(i) ==
  Whole /\ \A n \in Labels : Acknowledged(i)[n] # NULL =>
              <<n, Acknowledged(i)[n]>> \in manifest.entries

\* Without an overlap only one invocation is under way, nobody comes between
\* what it read and what it places, and revisions grow.
SerialInv ==
  ~overlapped =>
    /\ \A i, j \in Invocations : Running(i) /\ Running(j) => i = j
    /\ \A i \in Invocations : invocation[i].at = "signed" => SignedNext(i)
    /\ \A i \in Invocations : invocation[i].at = "placed" => PlacedNow(i)
    /\ Whole => \A p \in placed : p = manifest \/ p.revision < manifest.revision
    /\ BindingsKept

NamespaceInv == DirectoryInv /\ NamespaceTypeOK /\ PlacedInv /\ SerialInv

\* A manifest file that is neither absent nor partial holds a record.
LEMMA WholeIsRecord ==
  ASSUME NamespaceTypeOK
  PROVE  Whole <=> manifest \in Record
  BY NamespaceAssumption, DirectoryAssumption DEF NamespaceTypeOK, Whole

\* What the commands sign are entries of a record.
LEMMA EntriesType ==
  ASSUME NamespaceTypeOK, NEW i \in Invocations
  PROVE  /\ DefaultEntries \in SUBSET (Labels \X Owners)
         /\ Whole => Entries(i) \in SUBSET (Labels \X Owners)
<1>1. i \in Invocation
  BY NamespaceAssumption
<1>2. DefaultEntries \in SUBSET (Labels \X Owners)
  BY NamespaceAssumption DEF DefaultEntries
<1>3. ASSUME Whole PROVE Entries(i) \in SUBSET (Labels \X Owners)
  <2>1. manifest.entries \in SUBSET (Labels \X Owners)
    BY <1>3, WholeIsRecord DEF Record
  <2>2. i.name \in Labels /\ i.targetPort \in Owners
    BY <1>1 DEF Invocation
  <2> QED
    BY <2>1, <2>2 DEF Entries
<1> QED
  BY <1>2, <1>3

\* signPortNames makes a record of the owner.
LEMMA SignedType ==
  ASSUME TypeOK, NEW n \in Nat, NEW entries \in SUBSET (Labels \X Owners)
  PROVE  /\ signPortNames(n, entries) \in Record
         /\ signPortNames(n, entries).owner = Owner /\ signPortNames(n, entries).signer = Owner
         /\ signPortNames(n, entries).revision = n
         /\ signPortNames(n, entries).entries = entries
  BY NamespaceAssumption, DirectoryAssumption DEF signPortNames, Record, TypeOK

\* A step of the tool that leaves the directory alone.
LEMMA DirectoryUntouched ==
  ASSUME DirectoryInv, UNCHANGED vars
  PROVE  DirectoryInv' /\ Held' = Held
<1>1. DirectoryInv'
  BY NextKeepsInv
<1> QED
  BY <1>1 DEF vars, Held

\* An invocation that begins beside another one is an overlap.
LEMMA BeginsInv ==
  ASSUME NamespaceInv, NEW i \in Invocations, WriteKey(i) \/ GetSigner(i)
  PROVE  NamespaceInv'
<1>1. /\ UNCHANGED <<manifest, bound, placed, vars>> /\ keyFile' \in BOOLEAN
      /\ invocation[i].at = "idle"
      /\ overlapped' = (overlapped \/ \E j \in Invocations : Running(j))
      /\ invocation' = [invocation EXCEPT ![i] = [invocation[i] EXCEPT !.at = "keyed"]]
  BY DEF WriteKey, GetSigner, Begins, NamespaceInv, NamespaceTypeOK
<1>2. DirectoryInv' /\ Held' = Held /\ records' = records
  BY <1>1, DirectoryUntouched DEF NamespaceInv, vars
<1>3. /\ \A j \in Invocations \ {i} : invocation'[j] = invocation[j]
      /\ invocation'[i].at = "keyed" /\ invocation'[i].record = invocation[i].record
  BY <1>1 DEF NamespaceInv, NamespaceTypeOK
<1>4. NamespaceTypeOK'
  <2>1. overlapped' \in BOOLEAN
    BY <1>1
  <2> QED
    BY <1>1, <2>1 DEF NamespaceInv, NamespaceTypeOK
<1>5. PlacedInv'
  BY <1>1, <1>2, <1>3 DEF NamespaceInv, PlacedInv, Whole
<1>6. SerialInv'
  <2> SUFFICES ASSUME ~overlapped' PROVE SerialInv'
    BY DEF SerialInv
  <2>1. ~overlapped /\ \A j \in Invocations : ~Running(j)
    BY <1>1
  <2>2. \A j \in Invocations : Running(j)' => j = i
    BY <1>3, <2>1 DEF Running
  <2>3. \A j \in Invocations : invocation'[j].at \notin {"signed", "placed"}
    BY <1>3, <2>1 DEF Running
  <2>4. BindingsKept'
    BY <1>1, <2>1 DEF NamespaceInv, SerialInv, BindingsKept, Whole
  <2> QED
    BY <1>1, <2>1, <2>2, <2>3, <2>4 DEF NamespaceInv, SerialInv, Whole
<1> QED
  BY <1>2, <1>4, <1>5, <1>6 DEF NamespaceInv

\* init and the others sign what SignedNext says.
LEMMA SignsInv ==
  ASSUME NamespaceInv, NEW i \in Invocations, OpenManifest(i) \/ ReadManifest(i)
  PROVE  NamespaceInv'
<1>1. UNCHANGED <<keyFile, bound, placed, overlapped, vars>> /\ invocation[i].at = "keyed"
  BY DEF OpenManifest, ReadManifest
<1>2. DirectoryInv' /\ Held' = Held /\ records' = records
  BY <1>1, DirectoryUntouched DEF NamespaceInv, vars
<1>3. PICK r \in Record :
        /\ r.owner = Owner /\ r.signer = Owner
        /\ invocation' = [invocation EXCEPT ![i] = [at |-> "signed", record |-> r]]
        /\ \/ /\ i.action = "init" /\ manifest = NULL /\ manifest' = Partial
              /\ r.entries = DefaultEntries
           \/ /\ i.action # "init" /\ Whole /\ manifest' = manifest
              /\ r.entries = Entries(i) /\ r.revision = manifest.revision + 1
  <2>1. TypeOK
    BY DEF NamespaceInv, DirectoryInv
  <2>2. CASE OpenManifest(i)
    <3>1. PICK r : r = signPortNames(1, DefaultEntries)
      OBVIOUS
    <3>2. /\ r \in Record /\ r.owner = Owner /\ r.signer = Owner
          /\ r.entries = DefaultEntries
      BY <2>1, <3>1, EntriesType, SignedType DEF NamespaceInv
    <3> QED
      BY <2>2, <3>1, <3>2 DEF OpenManifest
  <2>3. CASE ReadManifest(i)
    <3>1. Whole /\ manifest.revision + 1 \in Nat
      BY <2>3, WholeIsRecord DEF ReadManifest, NamespaceInv, Record
    <3>2. PICK r : r = signPortNames(manifest.revision + 1, Entries(i))
      OBVIOUS
    <3>3. /\ r \in Record /\ r.owner = Owner /\ r.signer = Owner
          /\ r.entries = Entries(i) /\ r.revision = manifest.revision + 1
      BY <2>1, <3>1, <3>2, EntriesType, SignedType DEF NamespaceInv
    <3> QED
      BY <2>3, <3>2, <3>3 DEF ReadManifest
  <2> QED
    BY <2>2, <2>3
<1>4. /\ \A j \in Invocations \ {i} : invocation'[j] = invocation[j]
      /\ invocation'[i].at = "signed" /\ invocation'[i].record = r
  BY <1>3 DEF NamespaceInv, NamespaceTypeOK
<1>5. Whole' <=> Whole
  BY <1>3 DEF Whole
<1>6. NamespaceTypeOK'
  BY <1>1, <1>3 DEF NamespaceInv, NamespaceTypeOK
<1>7. PlacedInv'
  <2>1. Whole => manifest' = manifest
    BY <1>3 DEF Whole
  <2> QED
    BY <1>1, <1>2, <1>3, <1>4, <1>5, <2>1 DEF NamespaceInv, PlacedInv
<1>8. SerialInv'
  <2> SUFFICES ASSUME ~overlapped' PROVE SerialInv'
    BY DEF SerialInv
  <2>1. ~overlapped /\ \A j \in Invocations \ {i} : ~Running(j)
    BY <1>1 DEF NamespaceInv, SerialInv, Running
  <2>2. \A j \in Invocations :
          /\ Running(j)' \/ invocation'[j].at = "signed" => j = i
          /\ invocation'[j].at # "placed"
    BY <1>4, <2>1 DEF Running
  <2>3. SignedNext(i)'
    <3>1. manifest' = manifest => Entries(i)' = Entries(i)
      BY DEF Entries
    <3> QED
      BY <1>3, <1>4, <1>5, <3>1 DEF SignedNext, Whole
  <2>4. BindingsKept'
    BY <1>1, <1>3, <1>5, <2>1 DEF NamespaceInv, SerialInv, BindingsKept, Whole
  <2>5. Whole' => \A p \in placed' : p = manifest' \/ p.revision < manifest'.revision
    BY <1>1, <1>3, <1>5, <2>1 DEF NamespaceInv, SerialInv, Whole
  <2> QED
    BY <2>2, <2>3, <2>4, <2>5 DEF SerialInv
<1> QED
  BY <1>2, <1>6, <1>7, <1>8 DEF NamespaceInv

\* What is acknowledged are targets of names.
LEMMA AcknowledgedType ==
  ASSUME NamespaceTypeOK, NEW i \in Invocations
  PROVE  /\ Acknowledged(i) \in [Labels -> Owners \cup {NULL}]
         /\ Rebound(i) \in [Labels -> Owners \cup {NULL}]
<1>1. i \in Invocation
  BY NamespaceAssumption
<1> QED
  BY <1>1, NamespaceAssumption DEF Invocation, Acknowledged, Rebound, NamespaceTypeOK

\* Placing a manifest changes nothing of what its output acknowledges.
LEMMA AcknowledgedTwice ==
  ASSUME NamespaceTypeOK, NEW i \in Invocations, bound' = Rebound(i)
  PROVE  Acknowledged(i)' = Acknowledged(i)
<1>1. i \in Invocation
  BY NamespaceAssumption
<1>2. CASE i.action = "bind"
  <2>1. /\ Acknowledged(i) = [bound EXCEPT ![i.name] = i.targetPort]
        /\ Acknowledged(i)' = [bound' EXCEPT ![i.name] = i.targetPort]
    BY <1>2 DEF Acknowledged
  <2> QED
    BY <1>1, <2>1 DEF Rebound, NamespaceTypeOK, Invocation
<1>3. CASE i.action # "bind"
  BY <1>1, <1>3 DEF Acknowledged, Rebound, Invocation
<1> QED
  BY <1>2, <1>3

\* What is acknowledged, and what names acknowledged earlier stand for, is in
\* what was signed.
LEMMA AcknowledgedKept ==
  ASSUME NamespaceInv, ~overlapped, NEW i \in Invocations, invocation[i].at = "signed",
         NEW n \in Labels
  PROVE  /\ Acknowledged(i)[n] # NULL =>
              <<n, Acknowledged(i)[n]>> \in invocation[i].record.entries
         /\ Rebound(i)[n] # NULL => <<n, Rebound(i)[n]>> \in invocation[i].record.entries
<1>1. i \in Invocation /\ SignedNext(i)
  BY NamespaceAssumption DEF NamespaceInv, SerialInv
<1>0. i.action # "init" /\ bound[n] # NULL => <<n, bound[n]>> \in manifest.entries
  BY <1>1 DEF SignedNext, NamespaceInv, SerialInv, BindingsKept
<1>2. CASE i.action = "init"
  <2>1. Acknowledged(i)[n] = IF n \in DEFAULT_NAMES THEN Owner ELSE NULL
    BY <1>2 DEF Acknowledged
  <2>2. Rebound(i)[n] = NULL
    BY <1>1, <1>2 DEF SignedNext, Rebound, NamespaceInv, PlacedInv
  <2> QED
    BY <1>1, <1>2, <2>1, <2>2 DEF SignedNext, DefaultEntries
<1>3. CASE i.action = "bind"
  <2>1. Acknowledged(i) = [bound EXCEPT ![i.name] = i.targetPort]
    BY <1>3 DEF Acknowledged
  <2>2. Acknowledged(i)[n] = IF n = i.name THEN i.targetPort ELSE bound[n]
    BY <2>1 DEF NamespaceInv, NamespaceTypeOK
  <2>3. /\ Rebound(i)[n] \in {Acknowledged(i)[n], bound[n]}
        /\ n = i.name => Rebound(i)[n] \in {NULL, i.targetPort}
    BY <1>3, <2>1, <2>2 DEF Rebound
  <2> QED
    BY <1>0, <1>1, <1>3, <2>2, <2>3 DEF SignedNext, Entries
<1>4. CASE i.action = "renew"
  <2>1. Acknowledged(i) = bound /\ Rebound(i) = bound
    BY <1>4 DEF Acknowledged, Rebound
  <2> QED
    BY <1>0, <1>1, <1>4, <2>1 DEF SignedNext, Entries
<1> QED
  BY <1>1, <1>2, <1>3, <1>4 DEF Invocation

\* The record takes its place: its revision is above all that were placed.
LEMMA PlaceInv ==
  ASSUME NamespaceInv, NEW i \in Invocations, PlaceManifest(i)
  PROVE  NamespaceInv'
<1>1. /\ UNCHANGED <<keyFile, overlapped, vars>> /\ invocation[i].at = "signed"
      /\ manifest' = invocation[i].record /\ placed' = placed \cup {invocation[i].record}
      /\ bound' = Rebound(i)
      /\ invocation' = [invocation EXCEPT ![i] = [invocation[i] EXCEPT !.at = "placed"]]
  BY DEF PlaceManifest, NamespaceInv, NamespaceTypeOK
<1>2. DirectoryInv' /\ Held' = Held /\ records' = records
  BY <1>1, DirectoryUntouched DEF NamespaceInv, vars
<1>3. manifest' \in Record /\ manifest'.owner = Owner /\ manifest'.signer = Owner
  BY <1>1, DirectoryAssumption DEF NamespaceInv, PlacedInv
<1>4. Rebound(i) \in [Labels -> Owners \cup {NULL}]
  BY AcknowledgedType DEF NamespaceInv
<1>5. NamespaceTypeOK'
  BY <1>1, <1>3, <1>4 DEF NamespaceInv, NamespaceTypeOK
<1>6. Whole'
  BY <1>3, NamespaceAssumption, DirectoryAssumption DEF Whole
<1>7. /\ \A j \in Invocations \ {i} : invocation'[j] = invocation[j]
      /\ invocation'[i].at = "placed" /\ invocation'[i].record = invocation[i].record
  BY <1>1 DEF NamespaceInv, NamespaceTypeOK
<1>8. PlacedInv'
  BY <1>1, <1>2, <1>3, <1>6, <1>7 DEF NamespaceInv, PlacedInv
<1>9. SerialInv'
  <2> SUFFICES ASSUME ~overlapped' PROVE SerialInv'
    BY DEF SerialInv
  <2>1. ~overlapped /\ \A j \in Invocations \ {i} : ~Running(j)
    BY <1>1 DEF NamespaceInv, SerialInv, Running
  <2>2. \A j \in Invocations :
          /\ Running(j)' \/ invocation'[j].at = "placed" => j = i
          /\ invocation'[j].at # "signed"
    BY <1>7, <2>1 DEF Running
  <2>3. BindingsKept'
    BY <1>1, <2>1, AcknowledgedKept DEF BindingsKept
  <2>5. PlacedNow(i)'
    <3>1. Acknowledged(i)' = Acknowledged(i)
      BY <1>1, AcknowledgedTwice DEF NamespaceInv
    <3>2. \A n \in Labels : Acknowledged(i)[n] # NULL =>
                             <<n, Acknowledged(i)[n]>> \in manifest'.entries
      BY <1>1, <2>1, AcknowledgedKept
    <3> QED
      BY <1>6, <3>1, <3>2 DEF PlacedNow
  <2>4. \A p \in placed' : p = manifest' \/ p.revision < manifest'.revision
    <3>1. SignedNext(i)
      BY <1>1, <2>1 DEF NamespaceInv, SerialInv
    <3>2. CASE ~Whole
      BY <1>1, <3>2 DEF NamespaceInv, PlacedInv
    <3>3. CASE Whole
      <4>1. manifest'.revision = manifest.revision + 1 /\ manifest.revision \in Nat
        BY <1>1, <3>1, <3>3, WholeIsRecord DEF SignedNext, Record, NamespaceInv
      <4>2. \A p \in placed : p.revision \in Nat /\ p.revision <= manifest.revision
        <5>1. placed \subseteq Record
          BY DEF NamespaceInv, NamespaceTypeOK
        <5>2. \A p \in placed : p = manifest \/ p.revision < manifest.revision
          BY <2>1, <3>3 DEF NamespaceInv, SerialInv
        <5> QED
          BY <4>1, <5>1, <5>2 DEF Record
      <4> QED
        BY <1>1, <4>1, <4>2
    <3> QED
      BY <3>2, <3>3
  <2> QED
    BY <2>2, <2>3, <2>4, <2>5 DEF SerialInv
<1> QED
  BY <1>2, <1>5, <1>8, <1>9 DEF NamespaceInv

\* The operator is told what the manifest holds.
LEMMA OutputInv ==
  ASSUME NamespaceInv, NEW i \in Invocations, Output(i)
  PROVE  NamespaceInv'
<1>1. /\ UNCHANGED <<keyFile, manifest, placed, overlapped, vars>>
      /\ invocation[i].at = "placed" /\ bound' = Acknowledged(i)
      /\ invocation' = [invocation EXCEPT ![i] = [at |-> "done", record |-> NULL]]
  BY DEF Output, NamespaceInv, NamespaceTypeOK
<1>2. DirectoryInv' /\ Held' = Held /\ records' = records
  BY <1>1, DirectoryUntouched DEF NamespaceInv, vars
<1>3. /\ \A j \in Invocations \ {i} : invocation'[j] = invocation[j]
      /\ invocation'[i].at = "done" /\ invocation'[i].record = NULL
  BY <1>1 DEF NamespaceInv, NamespaceTypeOK
<1>4. NamespaceTypeOK'
  BY <1>1, AcknowledgedType DEF NamespaceInv, NamespaceTypeOK
<1>5. PlacedInv'
  BY <1>1, <1>2, <1>3 DEF NamespaceInv, PlacedInv, Whole
<1>6. SerialInv'
  <2> SUFFICES ASSUME ~overlapped' PROVE SerialInv'
    BY DEF SerialInv
  <2>1. ~overlapped /\ \A j \in Invocations \ {i} : ~Running(j)
    BY <1>1 DEF NamespaceInv, SerialInv, Running
  <2>2. \A j \in Invocations :
          ~Running(j)' /\ invocation'[j].at \notin {"signed", "placed"}
    BY <1>3, <2>1 DEF Running
  <2>3. BindingsKept'
    BY <1>1, <2>1 DEF BindingsKept, PlacedNow, NamespaceInv, SerialInv
  <2> QED
    BY <1>1, <2>1, <2>2, <2>3 DEF NamespaceInv, SerialInv, Whole
<1> QED
  BY <1>2, <1>4, <1>5, <1>6 DEF NamespaceInv

\* A failure leaves the files as they are.
LEMMA FailInv ==
  ASSUME NamespaceInv, NEW i \in Invocations, FailInvocation(i)
  PROVE  NamespaceInv'
<1>1. /\ UNCHANGED <<keyFile, manifest, bound, placed, overlapped, vars>>
      /\ invocation' = [invocation EXCEPT ![i] = [at |-> "failed", record |-> NULL]]
  BY DEF FailInvocation, NamespaceInv, NamespaceTypeOK
<1>2. DirectoryInv' /\ Held' = Held /\ records' = records
  BY <1>1, DirectoryUntouched DEF NamespaceInv, vars
<1>3. /\ \A j \in Invocations \ {i} : invocation'[j] = invocation[j]
      /\ invocation'[i].at = "failed" /\ invocation'[i].record = NULL
  BY <1>1 DEF NamespaceInv, NamespaceTypeOK
<1>4. NamespaceTypeOK'
  BY <1>1 DEF NamespaceInv, NamespaceTypeOK
<1>5. PlacedInv'
  BY <1>1, <1>2, <1>3 DEF NamespaceInv, PlacedInv, Whole
<1>6. SerialInv'
  <2>1. \A j \in Invocations : Running(j)' => Running(j)
    BY <1>3 DEF Running
  <2>2. \A j \in Invocations :
          /\ invocation'[j].at = "signed" => invocation[j].at = "signed"
          /\ invocation'[j].at = "signed" /\ SignedNext(j) => SignedNext(j)'
          /\ invocation'[j].at = "placed" => invocation[j].at = "placed"
    BY <1>1, <1>3 DEF SignedNext, Whole, Entries
  <2>4. \A j \in Invocations : PlacedNow(j)' <=> PlacedNow(j)
    BY <1>1 DEF PlacedNow, Acknowledged, Whole
  <2>3. BindingsKept' <=> BindingsKept
    BY <1>1 DEF BindingsKept, Whole
  <2> QED
    BY <1>1, <2>1, <2>2, <2>3, <2>4 DEF NamespaceInv, SerialInv, Whole
<1> QED
  BY <1>2, <1>4, <1>5, <1>6 DEF NamespaceInv

\* The directory takes in what was placed, forgets or waits.
LEMMA ResolverInv ==
  ASSUME NamespaceInv, PublishManifest \/ ResolverStep
  PROVE  NamespaceInv'
<1>1. UNCHANGED namespaceVars
  BY DEF PublishManifest, ResolverStep
<1>2. CASE PublishManifest
  <2>1. PICK r \in placed : Ingest(r) \/ IngestFull(r)
    BY <1>2 DEF PublishManifest
  <2>2. r \in Record /\ r.owner \in Owners
    BY DEF NamespaceInv, NamespaceTypeOK, Record
  <2>3. DirectoryInv'
    BY <2>1, <2>2, IngestKeepsInv, PruneKeepsInv DEF NamespaceInv
  <2>4. \A o \in Held' : records'[o] \in placed
    <3>1. \A o \in Owners : Prune[o] = NULL \/ (o \in Held /\ Prune[o] = records[o])
      BY DEF Prune, Kept
    <3>2. DOMAIN Prune = Owners
      BY DEF Prune
    <3>3. \A o \in Owners : records'[o] \in {r, Prune[o]}
      BY <2>1, <2>2, <3>2 DEF Ingest, IngestFull
    <3> QED
      BY <3>1, <3>3 DEF Held, NamespaceInv, PlacedInv
  <2> QED
    BY <1>1, <2>3, <2>4 DEF namespaceVars, NamespaceInv, NamespaceTypeOK, PlacedInv, Whole,
                                  SerialInv, Running, SignedNext, PlacedNow, Acknowledged,
                                  Entries, BindingsKept
<1>3. CASE ResolverStep
  <2>1. DirectoryInv'
    BY <1>3, NextKeepsInv, NamespaceAssumption DEF ResolverStep, NamespaceInv, Next
  <2>2. \A o \in Held' : o \in Held /\ records'[o] = records[o]
    BY <1>3 DEF ResolverStep, Tick, Revoke, Held, NamespaceInv, DirectoryInv, TypeOK
  <2> QED
    BY <1>1, <2>1, <2>2 DEF namespaceVars, NamespaceInv, NamespaceTypeOK, PlacedInv, Whole,
                                  SerialInv, Running, SignedNext, PlacedNow, Acknowledged,
                                  Entries, BindingsKept
<1> QED
  BY <1>2, <1>3

\* Every step of the tool and of the directory preserves the invariant.
LEMMA NamespaceNextInv ==
  NamespaceInv /\ [NamespaceNext]_<<vars, namespaceVars>> => NamespaceInv'
<1> SUFFICES ASSUME NamespaceInv, [NamespaceNext]_<<vars, namespaceVars>> PROVE NamespaceInv'
  OBVIOUS
<1>1. CASE UNCHANGED <<vars, namespaceVars>>
  <2>1. DirectoryInv' /\ Held' = Held /\ records' = records
    BY <1>1, DirectoryUntouched DEF NamespaceInv, vars
  <2> QED
    BY <1>1, <2>1 DEF namespaceVars, NamespaceInv, NamespaceTypeOK, PlacedInv, Whole,
                            SerialInv, Running, SignedNext, PlacedNow, Acknowledged,
                                  Entries, BindingsKept
<1> QED
  BY <1>1, BeginsInv, SignsInv, PlaceInv, OutputInv, FailInv, ResolverInv DEF NamespaceNext

\* The invariant holds throughout.
LEMMA NamespaceInvariant == NamespaceSpec => []NamespaceInv
<1>1. Init /\ NamespaceInit => NamespaceInv
  <2> SUFFICES ASSUME Init, NamespaceInit PROVE NamespaceInv
    OBVIOUS
  <2>1. DirectoryInv /\ Held = {}
    BY InitEstablishesInv DEF Init, Held
  <2>2. NamespaceTypeOK
    BY DEF NamespaceInit, NamespaceTypeOK
  <2>3. PlacedInv
    BY <2>1 DEF NamespaceInit, PlacedInv, Whole
  <2>4. SerialInv
    BY DEF NamespaceInit, SerialInv, Running, Whole, BindingsKept
  <2> QED
    BY <2>1, <2>2, <2>3, <2>4 DEF NamespaceInv
<1> QED
  BY <1>1, NamespaceNextInv, PTL DEF NamespaceSpec

\* The directory that takes in the operator's manifests, and the operator's
\* files and invocations, are typed correctly; so what the directory holds is
\* signed by its owner.
THEOREM NamespaceTypeCorrect == NamespaceSpec => [](TypeOK /\ NamespaceTypeOK)
<1>1. NamespaceInv => TypeOK /\ NamespaceTypeOK
  BY DEF NamespaceInv, DirectoryInv
<1> QED
  BY <1>1, NamespaceInvariant, PTL

\* port-domain.mjs without overlapping invocations: no acknowledged name is
\* lost, whatever fails on the way, and the manifest in force supersedes
\* whatever earlier ones a directory holds.
THEOREM NamespaceAlwaysSound == NamespaceSpec => []NamespaceSound
<1>1. NamespaceInv => NamespaceSound
  <2> SUFFICES ASSUME NamespaceInv PROVE NamespaceSound
    OBVIOUS
  <2>1. BindingsKept
    BY DEF NamespaceInv, SerialInv, BindingsKept
  <2>2. ManifestSupersedes
    <3> SUFFICES ASSUME ~overlapped, Whole, Verified(manifest, clock), Owner \notin revoked
                 PROVE  Admissible(manifest)
      BY DEF ManifestSupersedes
    <3>1. manifest.owner = Owner
      BY DEF NamespaceInv, PlacedInv
    <3> QED
      BY <3>1 DEF Admissible, Supersedes, NamespaceInv, PlacedInv, SerialInv
  <2> QED
    BY <2>1, <2>2 DEF NamespaceSound
<1> QED
  BY <1>1, NamespaceInvariant, PTL

\* Only init, which demands that there is none, begins a manifest in place.
LEMMA ManifestKept ==
  NamespaceInv /\ [NamespaceNext]_<<vars, namespaceVars>> => ManifestStaysWhole
<1> SUFFICES ASSUME NamespaceInv, [NamespaceNext]_<<vars, namespaceVars>>, Whole PROVE Whole'
  BY DEF ManifestStaysWhole
<1>1. ASSUME NEW i \in Invocations, PlaceManifest(i) PROVE Whole'
  BY <1>1, NamespaceAssumption, DirectoryAssumption
  DEF PlaceManifest, NamespaceInv, PlacedInv, Whole
<1>2. ASSUME manifest' = manifest PROVE Whole'
  BY <1>2 DEF Whole
<1> QED
  BY <1>1, <1>2 DEF NamespaceNext, WriteKey, OpenManifest, GetSigner, ReadManifest,
           Output, FailInvocation, PublishManifest, ResolverStep, namespaceVars, Whole

-----------------------------------------------------------------------------
(* The portal's sites.                                                     *)

SitesTypes ==
  /\ draft \subseteq Slugs
  /\ site \in [Slugs -> Requests \cup {"none"}]
  /\ request \in [Requests -> {"new", "listing", "admitted", "writing", "created", "refused"}]
  /\ sure \in [Requests -> SUBSET Slugs]
  /\ acknowledged \subseteq Requests
  /\ peak \in Nat

\* The files: a slug is a draft or a site, a request that writes has a draft
\* of its own, and an acknowledged site is the one its request wrote.
FilesInv ==
  /\ draft \cap Sites = {}
  /\ \A r \in Requests : request[r] = "writing" => slugOf[r] \in draft
  /\ \A q, r \in Requests :
       request[q] = "writing" /\ request[r] = "writing" /\ slugOf[q] = slugOf[r] => q = r
  /\ \A r \in acknowledged : site[slugOf[r]] = r

\* Requests that may still store a site: they listed before the limit was
\* reached.
Early == {r \in Requests : Saving(r) /\ Cardinality(sure[r]) < SiteLimit}

\* Past the limit every site still to come is one of a rival that is early.
LimitInv ==
  /\ \A r \in Requests :
       request[r] \in {"admitted", "writing"} => Cardinality(sure[r]) < SiteLimit
  /\ Cardinality(Savers) <= peak
  /\ Cardinality(Sites) >= SiteLimit =>
       Cardinality(Sites) + Cardinality(Early) < SiteLimit + peak

SitesInv == SitesTypes /\ FilesInv /\ LimitInv

\* Sites and requests can be counted.
LEMMA SitesCounted ==
  ASSUME SitesTypes
  PROVE  /\ IsFiniteSet(Sites) /\ Cardinality(Sites) \in Nat
         /\ IsFiniteSet(Savers) /\ Cardinality(Savers) \in Nat
         /\ IsFiniteSet(Early) /\ Cardinality(Early) \in Nat
         /\ Cardinality(Early) <= Cardinality(Savers)
<1>1. Sites \in SUBSET Slugs /\ Savers \in SUBSET Requests /\ Early \in SUBSET Savers
  BY DEF Sites, Savers, Early
<1>2. IsFiniteSet(Sites) /\ IsFiniteSet(Savers)
  BY <1>1, FS_Subset, SitesAssumption
<1>3. IsFiniteSet(Early) /\ Cardinality(Early) <= Cardinality(Savers)
  BY <1>1, <1>2, FS_Subset
<1> QED
  BY <1>2, <1>3, FS_CardinalityType

LEMMA SitesInitInv == SitesInit => SitesInv
<1> SUFFICES ASSUME SitesInit PROVE SitesInv
  OBVIOUS
<1>1. SitesTypes
  BY DEF SitesInit, SitesTypes
<1>2. Sites = {} /\ Savers = {} /\ Early = {}
  BY DEF SitesInit, Sites, Savers, Early, Saving
<1>3. FilesInv
  BY <1>2 DEF SitesInit, FilesInv
<1>4. LimitInv
  BY <1>2, FS_EmptySet, SitesAssumption DEF SitesInit, LimitInv
<1> QED
  BY <1>1, <1>3, <1>4 DEF SitesInv

\* A step that stores no site and lets no request begin.
LEMMA LimitKept ==
  ASSUME SitesInv, SitesTypes', Sites' = Sites, peak' = peak, sure' = sure,
         \A r \in Requests : Saving(r)' => Saving(r),
         \A r \in Requests :
           request'[r] \in {"admitted", "writing"} => Cardinality(sure[r]) < SiteLimit
  PROVE  LimitInv'
<1>1. Savers' \in SUBSET Savers /\ Early' \in SUBSET Early
  BY DEF Savers, Early
<1>2. Cardinality(Savers') <= Cardinality(Savers) /\ Cardinality(Early') <= Cardinality(Early)
  BY <1>1, FS_Subset, SitesCounted DEF SitesInv
<1>3. /\ Cardinality(Savers') \in Nat /\ Cardinality(Early') \in Nat
      /\ Cardinality(Savers) \in Nat /\ Cardinality(Early) \in Nat /\ Cardinality(Sites) \in Nat
  BY <1>1, FS_Subset, FS_CardinalityType, SitesCounted DEF SitesInv
<1> QED
  BY <1>2, <1>3, SitesAssumption DEF SitesInv, LimitInv, SitesTypes

\* A request that begins raises the peak, or finds the limit reached.
LEMMA StartListingInv ==
  ASSUME SitesInv, NEW r \in Requests, StartListing(r)
  PROVE  SitesInv'
<1>1. SitesTypes'
  <2>1. Cardinality(Savers) \in Nat
    BY SitesCounted DEF SitesInv
  <2>2. Sites \subseteq Slugs
    BY DEF Sites
  <2> QED
    BY <2>1, <2>2 DEF StartListing, SitesInv, SitesTypes
<1>2. FilesInv'
  BY DEF StartListing, SitesInv, SitesTypes, FilesInv, Sites
<1>3. LimitInv'
  <2>1. Sites' = Sites /\ sure'[r] = Sites
    BY DEF StartListing, SitesInv, SitesTypes, Sites
  <2>2. Savers' = Savers \cup {r} /\ r \notin Savers
    BY DEF StartListing, Savers, Saving, SitesInv, SitesTypes
  <2>3. Cardinality(Savers') = Cardinality(Savers) + 1
    BY <2>2, SitesCounted, FS_AddElement DEF SitesInv
  <2>4. Cardinality(Savers') <= peak' /\ peak <= peak'
    BY <2>3, SitesCounted DEF StartListing, SitesInv, SitesTypes
  <2>5. Cardinality(Sites) >= SiteLimit => Early' = Early
    BY <2>1, SitesCounted, SitesAssumption DEF Early, StartListing, Saving, SitesInv, SitesTypes
  <2>6. ASSUME NEW q \in Requests, request'[q] \in {"admitted", "writing"}
        PROVE  Cardinality(sure'[q]) < SiteLimit
    BY <2>6 DEF StartListing, SitesInv, SitesTypes, LimitInv
  <2> QED
    BY <1>1, <2>1, <2>4, <2>5, <2>6, SitesCounted, SitesAssumption DEF LimitInv, SitesInv, SitesTypes
<1> QED
  BY <1>1, <1>2, <1>3 DEF SitesInv

\* A request that is let through listed fewer sites than the limit.
LEMMA AdmittedIsEarly ==
  ASSUME SitesInv, NEW r \in Requests, NEW found \in SUBSET Sites, sure[r] \subseteq found,
         NEW l \in listSites(found), Cardinality(l) < SiteLimit
  PROVE  Cardinality(sure[r]) < SiteLimit
<1>1. IsFiniteSet(found)
  BY SitesCounted, FS_Subset DEF SitesInv
<1>2. l = found
  BY SitesAssumption DEF listSites
<1>3. /\ Cardinality(sure[r]) <= Cardinality(found)
      /\ Cardinality(sure[r]) \in Nat /\ Cardinality(found) \in Nat
  BY <1>1, FS_Subset, FS_CardinalityType
<1> QED
  BY <1>2, <1>3, SitesAssumption

LEMMA AdmitSiteInv ==
  ASSUME SitesInv, NEW r \in Requests, AdmitSite(r)
  PROVE  SitesInv'
<1>1. /\ request[r] = "listing"
      /\ UNCHANGED <<draft, site, sure, acknowledged, peak>>
      /\ \/ request' = [request EXCEPT ![r] = "refused"]
         \/ /\ request' = [request EXCEPT ![r] = "admitted"]
            /\ Cardinality(sure[r]) < SiteLimit
  <2>1. PICK found \in SUBSET (seen[r] \cap Sites) :
          /\ sure[r] \subseteq found
          /\ \E l \in listSites(found) :
               request' = [request EXCEPT
                 ![r] = IF Cardinality(l) < SiteLimit THEN "admitted" ELSE "refused"]
    BY DEF AdmitSite
  <2>2. PICK l \in listSites(found) :
          request' = [request EXCEPT
                 ![r] = IF Cardinality(l) < SiteLimit THEN "admitted" ELSE "refused"]
    BY <2>1
  <2>3. Cardinality(l) < SiteLimit => Cardinality(sure[r]) < SiteLimit
    BY <2>1, AdmittedIsEarly
  <2> QED
    BY <2>2, <2>3 DEF AdmitSite
<1>2. SitesTypes' /\ FilesInv'
  BY <1>1 DEF SitesInv, SitesTypes, FilesInv, Sites
<1>3. LimitInv'
  BY <1>1, <1>2, LimitKept DEF SitesInv, SitesTypes, LimitInv, Saving, Sites
<1> QED
  BY <1>2, <1>3 DEF SitesInv

\* Only one request gets the draft of a slug.
LEMMA OpenSiteInv ==
  ASSUME SitesInv, NEW r \in Requests, OpenSite(r)
  PROVE  SitesInv'
<1>1. SitesTypes' /\ FilesInv'
  BY SitesAssumption DEF OpenSite, SitesInv, SitesTypes, FilesInv, Sites
<1>2. LimitInv'
  BY <1>1, LimitKept DEF OpenSite, SitesInv, SitesTypes, LimitInv, Saving, Sites
<1> QED
  BY <1>1, <1>2 DEF SitesInv

\* A site more, and an early request less.
LEMMA WriteSiteInv ==
  ASSUME SitesInv, NEW r \in Requests, WriteSite(r)
  PROVE  SitesInv'
<1>1. SitesTypes'
  BY SitesAssumption DEF WriteSite, SitesInv, SitesTypes
<1>2. slugOf[r] \in Slugs \ Sites /\ Sites' = Sites \cup {slugOf[r]}
  BY SitesAssumption DEF WriteSite, SitesInv, SitesTypes, FilesInv, Sites
<1>3. FilesInv'
  BY <1>2, SitesAssumption DEF WriteSite, SitesInv, SitesTypes, FilesInv, Sites
<1>4. LimitInv'
  <2>1. /\ r \in Early /\ r \in Savers
        /\ Early' = Early \ {r} /\ Savers' = Savers \ {r}
    BY DEF Early, Savers, Saving, WriteSite, SitesInv, SitesTypes, LimitInv
  <2>2. /\ Cardinality(Early') = Cardinality(Early) - 1
        /\ Cardinality(Savers') = Cardinality(Savers) - 1
    BY <2>1, SitesCounted, FS_RemoveElement DEF SitesInv
  <2>3. Cardinality(Sites') = Cardinality(Sites) + 1
    BY <1>2, SitesCounted, FS_AddElement DEF SitesInv
  <2>4. peak' = peak /\ \A q \in Requests :
          request'[q] \in {"admitted", "writing"} => Cardinality(sure'[q]) < SiteLimit
    BY DEF WriteSite, SitesInv, SitesTypes, LimitInv
  <2> QED
    BY <2>2, <2>3, <2>4, SitesCounted, SitesAssumption DEF LimitInv, SitesInv, SitesTypes
<1> QED
  BY <1>1, <1>3, <1>4 DEF SitesInv

\* Every step preserves the invariant.
LEMMA SitesStep ==
  ASSUME SitesInv, [SitesNext]_siteVars
  PROVE  SitesInv'
<1>1. ASSUME NEW r \in Requests, WriteSiteFails(r) PROVE SitesInv'
  <2>1. SitesTypes' /\ FilesInv'
    BY <1>1 DEF WriteSiteFails, SitesInv, SitesTypes, FilesInv, Sites
  <2>2. LimitInv'
    BY <1>1, <2>1, LimitKept DEF WriteSiteFails, SitesInv, SitesTypes, LimitInv, Saving, Sites
  <2> QED
    BY <2>1, <2>2 DEF SitesInv
<1>2. CASE PortalCrash
  <2>1. SitesTypes' /\ FilesInv'
    BY <1>2 DEF PortalCrash, Saving, SitesInv, SitesTypes, FilesInv, Sites
  <2>2. LimitInv'
    BY <1>2, <2>1, LimitKept DEF PortalCrash, SitesInv, SitesTypes, LimitInv, Saving, Sites
  <2> QED
    BY <2>1, <2>2 DEF SitesInv
<1>3. CASE UNCHANGED siteVars
  BY <1>3 DEF siteVars, SitesInv, SitesTypes, FilesInv, LimitInv, Sites, Savers, Early, Saving
<1> QED
  BY <1>1, <1>2, <1>3, StartListingInv, AdmitSiteInv, OpenSiteInv, WriteSiteInv DEF SitesNext

\* The invariant holds throughout.
LEMMA SitesInvariant == SitesSpec => []SitesInv
  BY SitesInitInv, SitesStep, PTL DEF SitesSpec

\* The portal's limit is checked before the file is created: it is passed by
\* fewer sites than requests were ever saving at once, and one request after
\* the other finds every acknowledged site in every listing.
THEOREM SitesAlwaysSound == SitesSpec => []SitesSound
<1>1. SitesInv => SitesSound
  <2> SUFFICES ASSUME SitesInv PROVE SitesSound
    OBVIOUS
  <2>1. OverfullNeedsRivals
    BY SitesCounted, SitesAssumption DEF SitesInv, SitesTypes, LimitInv, OverfullNeedsRivals
  <2>2. AcknowledgedServed
    <3> SUFFICES ASSUME NEW r \in acknowledged
                 PROVE  /\ site[slugOf[r]] = r
                        /\ peak <= 1 => \A l \in listSites(Sites) : slugOf[r] \in l
      BY DEF AcknowledgedServed
    <3>1. site[slugOf[r]] = r /\ slugOf[r] \in Sites
      BY SitesAssumption DEF SitesInv, SitesTypes, FilesInv, Sites
    <3>2. peak <= 1 => listSites(Sites) = {Sites}
      BY <2>1, SitesCounted, SitesAssumption
      DEF OverfullNeedsRivals, listSites, SitesInv, SitesTypes
    <3> QED
      BY <3>1, <3>2
  <2> QED
    BY <2>1, <2>2 DEF SitesSound
<1> QED
  BY <1>1, SitesInvariant, PTL

\* A complete file is neither opened nor written again.
LEMMA SitesKept == SitesInv /\ [SitesNext]_siteVars => SitesImmutable
  BY SitesAssumption
  DEF SitesInv, SitesTypes, FilesInv, Sites, SitesImmutable, SitesNext, siteVars, StartListing,
      AdmitSite, OpenSite, WriteSite, WriteSiteFails, PortalCrash

-----------------------------------------------------------------------------
(* Dispatch.                                                               *)

\* What a copy of the database may hold.
Tables == (SUBSET (Ports \X Nonces)) \X (SUBSET Outcome) \X (SUBSET Receipt)

CallState == [at : {"new", "sent", "answered", "returned", "raised"},
              attempt : 0 .. max_attempts, receipts : SUBSET Receipt]

TypeInv == DispatchTypeOK /\ saved \subseteq Tables

\* Every delivery under way belongs to an attempt that was made.
Made(d) == d \in Delivery /\ 1 <= d.attempt /\ d.attempt <= call[d.call].attempt

DeliveriesMade ==
  /\ \A c \in Calls : call[c].at = "new" => call[c].attempt = 0
  /\ \A c \in Calls : call[c].at \in {"sent", "answered"} => call[c].attempt >= 1
  /\ \A d \in inflight \cup claimed : Made(d)

\* The executions a nonce has had before the database knew of it.
Forgotten == IF restored THEN 1 ELSE 0

\* A nonce is claimed by one delivery, before its provider runs.
ClaimsSpent ==
  /\ \A x \in Ports \X Nonces :
       /\ executions[x] <= Forgotten + 1
       /\ x \notin nonces => executions[x] <= Forgotten
  /\ \A d \in claimed : claimTuple(d) \in nonces /\ executions[claimTuple(d)] <= Forgotten
  /\ \A d, e \in claimed : claimTuple(d) = claimTuple(e) => d = e

\* Outcomes with one row for each key, whose receipts are the evidence.
Consistent(outcomes, receipts) ==
  /\ receipts = UNION {o.receipts : o \in outcomes}
  /\ \A o, n \in outcomes : o.key = n.key => o = n

OutcomesConsistent ==
  /\ Consistent(idempotency, evidence)
  /\ \A s \in saved : Consistent(s[2], s[3])

\* A claimed nonce was claimed by a delivery that has been made.
Claimer(x) == \E d \in Delivery : Made(d) /\ d \notin inflight /\ claimTuple(d) = x

NoncesClaimed ==
  /\ \A x \in nonces : Claimer(x)
  /\ \A s \in saved : \A x \in s[1] : Claimer(x)

\* Receipts are truthful wherever they are: on their way back, in the hands
\* of a call, recorded or saved.
ReceiptsTruthful ==
  /\ RecordedTruthful
  /\ \A c \in Calls : \A r \in call[c].receipts : Truthful(r)
  /\ \A r \in replies : Truthful(r[2])
  /\ \A s \in saved : \A r \in s[3] : Truthful(r)

-----------------------------------------------------------------------------
(* Types.                                                                  *)

\* The parts of an envelope.
LEMMA EnvelopeType ==
  ASSUME NEW c \in Calls
  PROVE  /\ envelopeOf[c].message_id \in Messages
         /\ envelopeOf[c].idempotency_key \in Keys
         /\ envelopeOf[c].nonce \in Nonces
         /\ envelopeOf[c].destination_ports \subseteq Ports
BY DispatchAssumption DEF GovernedEnvelope

\* What is built from a delivery and from an attempt.
LEMMA DeliveryTypes ==
  /\ \A d \in Delivery : /\ claimTuple(d) \in Ports \X Nonces
                         /\ claimTuple(d) = <<d.port, envelopeOf[d.call].nonce>>
                         /\ ReceiptOf(d, "reported") \in Receipt
                         /\ ReceiptOf(d, "quarantined") \in Receipt
  /\ \A c \in Calls, n \in Nat : Deliveries(c, n) \subseteq Delivery
BY EnvelopeType DEF claimTuple, ReceiptOf, Receipt, Deliveries, Delivery

\* The receipts collected for a call are receipts.
LEMMA CollectedType ==
  ASSUME TypeInv, NEW c \in Calls
  PROVE  /\ Collected(c) \subseteq Receipt
         /\ RepliesWithout(c) \subseteq replies
BY DEF TypeInv, DispatchTypeOK, Collected, RepliesWithout

LEMMA TypeInit == DispatchInit => TypeInv
<1> SUFFICES ASSUME DispatchInit PROVE TypeInv
  OBVIOUS
<1>1. call \in [Calls -> CallState]
  BY DispatchAssumption DEF DispatchInit, CallState
<1> QED
  BY <1>1 DEF DispatchInit, TypeInv, DispatchTypeOK, CallState, Tables

\* The database and the backup keep their types.
LEMMA TypeNext == TypeInv /\ [DispatchNext]_dispatchVars => TypeInv'
<1> SUFFICES ASSUME TypeInv, [DispatchNext]_dispatchVars PROVE TypeInv'
  OBVIOUS
<1> USE DispatchAssumption DEF TypeInv, DispatchTypeOK
<1>1. ASSUME NEW c \in Calls, DispatchPrior(c) PROVE TypeInv'
  <2>1. PICK o \in idempotency :
          call' = [call EXCEPT ![c].at = "returned", ![c].receipts = o.receipts]
    BY <1>1 DEF DispatchPrior
  <2>2. o.receipts \in SUBSET Receipt
    BY DEF Outcome
  <2>3. call' \in [Calls -> CallState]
    BY <2>1, <2>2 DEF CallState
  <2> QED
    BY <1>1, <2>3 DEF DispatchPrior, database, CallState
<1>2. ASSUME NEW c \in Calls, DispatchFirst(c) PROVE TypeInv'
  <2>0. 1 \in 0 .. max_attempts
    OBVIOUS
  <2>1. call' \in [Calls -> CallState]
    <3>1. call \in [Calls -> CallState]
      BY DEF CallState
    <3> HIDE DEF TypeInv, DispatchTypeOK
    <3> QED
      BY <1>2, <2>0, <3>1 DEF DispatchFirst, CallState
  <2> QED
    BY <1>2, <2>1, DeliveryTypes DEF DispatchFirst, database, CallState
<1>3. ASSUME NEW c \in Calls, TransportUnavailable(c) PROVE TypeInv'
  <2>1. CASE call[c].attempt + 1 <= max_attempts
    <3>1. call' \in [Calls -> CallState]
      BY <1>3, <2>1 DEF TransportUnavailable, CallState
    <3>2. inflight' \subseteq Delivery
      <4>1. call[c].attempt + 1 \in Nat
        OBVIOUS
      <4>2. Deliveries(c, call[c].attempt + 1) \subseteq Delivery
        BY <4>1, DeliveryTypes
      <4> QED
        BY <1>3, <2>1, <4>2 DEF TransportUnavailable
    <3> QED
      BY <1>3, <3>1, <3>2, CollectedType DEF TransportUnavailable, database, CallState
  <2>2. CASE ~(call[c].attempt + 1 <= max_attempts)
    BY <1>3, <2>2, CollectedType DEF TransportUnavailable, database
  <2> QED
    BY <2>1, <2>2
<1>4. ASSUME NEW c \in Calls, TransportReturns(c) PROVE TypeInv'
  BY <1>4, CollectedType DEF TransportReturns, database
<1>5. ASSUME NEW c \in Calls, RecordOutcome(c) PROVE TypeInv'
  <2>1. OutcomeOf(c, call[c].receipts) \in Outcome
    BY EnvelopeType DEF OutcomeOf, Outcome, keyOf
  <2> QED
    BY <1>5, <2>1 DEF RecordOutcome
<1>6. ASSUME NEW c \in Calls, RecordRefused(c) PROVE TypeInv'
  BY <1>6 DEF RecordRefused, database
<1>7. ASSUME NEW c \in Calls, DispatchEnds(c) PROVE TypeInv'
  BY <1>7, CollectedType DEF DispatchEnds, database
<1>8. ASSUME NEW d \in Delivery, Receive(d) PROVE TypeInv'
  BY <1>8, DeliveryTypes DEF Receive, Replying
<1>9. ASSUME NEW d \in Delivery, ProviderExecutes(d) PROVE TypeInv'
  BY <1>9, DeliveryTypes DEF ProviderExecutes, Replying, database
<1>10. ASSUME Backup PROVE TypeInv'
  BY <1>10 DEF Backup, database, Tables
<1>11. ASSUME Restore PROVE TypeInv'
  BY <1>11 DEF Restore, Tables
<1>12. ASSUME UNCHANGED dispatchVars PROVE TypeInv'
  BY <1>12 DEF dispatchVars, database
<1> QED
  BY <1>1, <1>2, <1>3, <1>4, <1>5, <1>6, <1>7, <1>8, <1>9, <1>10, <1>11, <1>12
  DEF DispatchNext

\* A database that is typed correctly, and calls that are.
THEOREM DispatchTypeCorrect == DispatchSpec => []DispatchTypeOK
<1>1. DispatchSpec => []TypeInv
  BY TypeInit, TypeNext, PTL DEF DispatchSpec
<1> QED
  BY <1>1, PTL DEF TypeInv

-----------------------------------------------------------------------------
(* What every step keeps.                                                  *)

\* Attempts and executions are only ever added to.
Advances ==
  /\ \A c \in Calls : call'[c].attempt >= call[c].attempt
  /\ \A x \in Ports \X Nonces : executions'[x] >= executions[x]

LEMMA StepsAdvance ==
  TypeInv /\ DeliveriesMade /\ [DispatchNext]_dispatchVars => Advances
<1> SUFFICES ASSUME TypeInv, DeliveriesMade, [DispatchNext]_dispatchVars PROVE Advances
  OBVIOUS
<1> USE DEF TypeInv, DispatchTypeOK, Advances
<1>1. ASSUME NEW c \in Calls, DispatchPrior(c) PROVE Advances
  BY <1>1 DEF DispatchPrior
<1>2. ASSUME NEW c \in Calls, DispatchFirst(c) PROVE Advances
  BY <1>2 DEF DispatchFirst, DeliveriesMade
<1>3. ASSUME NEW c \in Calls, TransportUnavailable(c) PROVE Advances
  BY <1>3 DEF TransportUnavailable
<1>4. ASSUME NEW c \in Calls, TransportReturns(c) PROVE Advances
  BY <1>4 DEF TransportReturns
<1>5. ASSUME NEW c \in Calls, RecordOutcome(c) PROVE Advances
  BY <1>5 DEF RecordOutcome
<1>6. ASSUME NEW c \in Calls, RecordRefused(c) PROVE Advances
  BY <1>6 DEF RecordRefused
<1>7. ASSUME NEW c \in Calls, DispatchEnds(c) PROVE Advances
  BY <1>7 DEF DispatchEnds
<1>8. ASSUME NEW d \in Delivery, Receive(d) PROVE Advances
  BY <1>8 DEF Receive
<1>9. ASSUME NEW d \in Delivery, ProviderExecutes(d) PROVE Advances
  <2> DEFINE t == <<d.port, envelopeOf[d.call].nonce>>
  <2>1. \A x \in Ports \X Nonces :
          executions'[x] = IF x = t THEN executions[x] + 1 ELSE executions[x]
    BY <1>9 DEF ProviderExecutes
  <2>2. \A x \in Ports \X Nonces : executions[x] \in Nat
    OBVIOUS
  <2>3. \A x \in Ports \X Nonces : executions'[x] >= executions[x]
    BY <2>1, <2>2
  <2> QED
    BY <1>9, <2>3 DEF ProviderExecutes
<1>10. ASSUME Backup PROVE Advances
  BY <1>10 DEF Backup
<1>11. ASSUME Restore PROVE Advances
  BY <1>11 DEF Restore
<1>12. ASSUME UNCHANGED dispatchVars PROVE Advances
  BY <1>12 DEF dispatchVars
<1> QED
  BY <1>1, <1>2, <1>3, <1>4, <1>5, <1>6, <1>7, <1>8, <1>9, <1>10, <1>11, <1>12
  DEF DispatchNext

\* Deliveries are those of the attempts made.
LEMMA MadeNext ==
  TypeInv /\ DeliveriesMade /\ [DispatchNext]_dispatchVars => DeliveriesMade'
<1> SUFFICES ASSUME TypeInv, DeliveriesMade, [DispatchNext]_dispatchVars
             PROVE  DeliveriesMade'
  OBVIOUS
<1>0. TypeInv' /\ Advances
  BY TypeNext, StepsAdvance
<1>a. \A d : Made(d) => Made(d)'
  BY <1>0 DEF Made, Advances, TypeInv, DispatchTypeOK, Delivery
<1>b. ASSUME NEW c \in Calls, NEW n \in Nat, 1 <= n, call'[c].attempt = n
      PROVE  \A d \in Deliveries(c, n) : Made(d)'
  BY <1>b, EnvelopeType DEF Deliveries, Made, Delivery
<1> USE DEF TypeInv, DispatchTypeOK, DeliveriesMade
<1>1. ASSUME NEW c \in Calls, DispatchPrior(c) PROVE DeliveriesMade'
  BY <1>1, <1>a DEF DispatchPrior
<1>2. ASSUME NEW c \in Calls, DispatchFirst(c) PROVE DeliveriesMade'
  BY <1>2, <1>a, <1>b DEF DispatchFirst
<1>3. ASSUME NEW c \in Calls, TransportUnavailable(c) PROVE DeliveriesMade'
  BY <1>3, <1>a, <1>b DEF TransportUnavailable
<1>4. ASSUME NEW c \in Calls, TransportReturns(c) PROVE DeliveriesMade'
  BY <1>4, <1>a DEF TransportReturns
<1>5. ASSUME NEW c \in Calls, RecordOutcome(c) PROVE DeliveriesMade'
  BY <1>5, <1>a DEF RecordOutcome
<1>6. ASSUME NEW c \in Calls, RecordRefused(c) PROVE DeliveriesMade'
  BY <1>6, <1>a DEF RecordRefused
<1>7. ASSUME NEW c \in Calls, DispatchEnds(c) PROVE DeliveriesMade'
  BY <1>7, <1>a DEF DispatchEnds
<1>8. ASSUME NEW d \in Delivery, Receive(d) PROVE DeliveriesMade'
  BY <1>8, <1>a DEF Receive
<1>9. ASSUME NEW d \in Delivery, ProviderExecutes(d) PROVE DeliveriesMade'
  BY <1>9, <1>a DEF ProviderExecutes
<1>10. ASSUME Backup PROVE DeliveriesMade'
  BY <1>10, <1>a DEF Backup
<1>11. ASSUME Restore PROVE DeliveriesMade'
  BY <1>11, <1>a DEF Restore
<1>12. ASSUME UNCHANGED dispatchVars PROVE DeliveriesMade'
  BY <1>12, <1>a DEF dispatchVars
<1> QED
  BY <1>1, <1>2, <1>3, <1>4, <1>5, <1>6, <1>7, <1>8, <1>9, <1>10, <1>11, <1>12
  DEF DispatchNext

-----------------------------------------------------------------------------
(* A provider runs an envelope once.                                       *)

LEMMA ClaimsInit == DispatchInit => ClaimsSpent
BY DEF DispatchInit, ClaimsSpent, Forgotten

\* A claim allows one execution, which uses it up.
LEMMA ClaimsNext ==
  TypeInv /\ ClaimsSpent /\ [DispatchNext]_dispatchVars => ClaimsSpent'
<1> SUFFICES ASSUME TypeInv, ClaimsSpent, [DispatchNext]_dispatchVars
             PROVE  ClaimsSpent'
  OBVIOUS
<1>a. /\ \A d \in inflight \cup claimed : d \in Delivery
      /\ Forgotten \in Nat
      /\ \A x \in Ports \X Nonces : executions[x] \in Nat
  BY DEF TypeInv, DispatchTypeOK, Forgotten
<1>b. \A d : claimTuple(d)' = claimTuple(d)
  BY DEF claimTuple
<1>1. ASSUME UNCHANGED <<nonces, restored, claimed, executions>> PROVE ClaimsSpent'
  BY <1>1, <1>b DEF ClaimsSpent, Forgotten
<1>2. ASSUME NEW c \in Calls,
             \/ DispatchPrior(c) \/ DispatchFirst(c) \/ TransportUnavailable(c)
             \/ TransportReturns(c) \/ RecordOutcome(c) \/ RecordRefused(c)
             \/ DispatchEnds(c)
      PROVE  ClaimsSpent'
  BY <1>1, <1>2 DEF DispatchPrior, DispatchFirst, TransportUnavailable,
     TransportReturns, RecordOutcome, RecordRefused, DispatchEnds, database
<1>3. ASSUME NEW d \in Delivery, Receive(d) PROVE ClaimsSpent'
  <2>1. CASE claimTuple(d) \in nonces
    BY <1>1, <1>3, <2>1 DEF Receive
  <2>2. CASE claimTuple(d) \notin nonces
    <3>1. /\ nonces' = nonces \cup {claimTuple(d)} /\ claimed' = claimed \cup {d}
          /\ executions' = executions /\ Forgotten' = Forgotten
      BY <1>3, <2>2 DEF Receive, Forgotten
    <3>2. executions[claimTuple(d)] <= Forgotten
      BY <2>2, DeliveryTypes DEF ClaimsSpent
    <3>3. \A e \in claimed : claimTuple(e) # claimTuple(d)
      BY <2>2 DEF ClaimsSpent
    <3> QED
      BY <1>b, <3>1, <3>2, <3>3 DEF ClaimsSpent
  <2> QED
    BY <2>1, <2>2
<1>4. ASSUME NEW d \in Delivery, ProviderExecutes(d) PROVE ClaimsSpent'
  <2>1. /\ d \in claimed /\ claimed' = claimed \ {d}
        /\ nonces' = nonces /\ Forgotten' = Forgotten
        /\ claimTuple(d) \in Ports \X Nonces
    BY <1>4, DeliveryTypes DEF ProviderExecutes, database, Forgotten
  <2>2. \A x \in Ports \X Nonces :
          executions'[x] = IF x = claimTuple(d) THEN executions[x] + 1 ELSE executions[x]
    BY <1>4, DeliveryTypes DEF ProviderExecutes, TypeInv, DispatchTypeOK
  <2>3. executions[claimTuple(d)] <= Forgotten /\ claimTuple(d) \in nonces
    BY <2>1 DEF ClaimsSpent
  <2>4. \A x \in Ports \X Nonces : /\ executions'[x] <= Forgotten + 1
                                   /\ x \notin nonces => executions'[x] <= Forgotten
    BY <1>a, <2>2, <2>3 DEF ClaimsSpent
  <2>5. \A e \in claimed \ {d} : claimTuple(e) # claimTuple(d)
    BY <2>1 DEF ClaimsSpent
  <2>6. \A e \in claimed \ {d} : executions'[claimTuple(e)] <= Forgotten
    BY <1>a, <2>2, <2>5, DeliveryTypes DEF ClaimsSpent
  <2> QED
    BY <1>b, <2>1, <2>4, <2>6 DEF ClaimsSpent
<1>5. ASSUME Backup PROVE ClaimsSpent'
  BY <1>1, <1>5 DEF Backup, database
<1>6. ASSUME Restore PROVE ClaimsSpent'
  <2>1. /\ claimed' = {} /\ executions' = executions
        /\ Forgotten = 0 /\ Forgotten' = 1
    BY <1>6 DEF Restore, Forgotten
  <2>2. \A x \in Ports \X Nonces : executions[x] <= 1
    BY <1>a, <2>1 DEF ClaimsSpent
  <2> QED
    BY <1>a, <2>1, <2>2 DEF ClaimsSpent
<1>7. ASSUME UNCHANGED dispatchVars PROVE ClaimsSpent'
  BY <1>1, <1>7 DEF dispatchVars, database
<1>8. ASSUME NEW d \in inflight \cup claimed, Receive(d) \/ ProviderExecutes(d)
      PROVE  ClaimsSpent'
  BY <1>a, <1>3, <1>4, <1>8
<1> QED
  BY <1>2, <1>5, <1>6, <1>7, <1>8 DEF DispatchNext

\* A provider runs an envelope once, however often and however late it is
\* delivered; once more after the nonces were restored from a backup.
THEOREM AlwaysExecutedOncePerNonce == DispatchSpec => []ExecutedOncePerNonce
<1>1. TypeInv /\ ClaimsSpent => ExecutedOncePerNonce
  BY DEF TypeInv, DispatchTypeOK, ClaimsSpent, Forgotten, ExecutedOncePerNonce
<1> QED
  BY <1>1, TypeInit, TypeNext, ClaimsInit, ClaimsNext, PTL DEF DispatchSpec

-----------------------------------------------------------------------------
(* Outcomes and evidence.                                                  *)

LEMMA OutcomesInit == DispatchInit => OutcomesConsistent
BY DEF DispatchInit, OutcomesConsistent, Consistent

\* Recording adds a row under a fresh key, and its receipts.
LEMMA OutcomesNext ==
  OutcomesConsistent /\ [DispatchNext]_dispatchVars => OutcomesConsistent'
<1> SUFFICES ASSUME OutcomesConsistent, [DispatchNext]_dispatchVars
             PROVE  OutcomesConsistent'
  OBVIOUS
<1>1. ASSUME UNCHANGED <<idempotency, evidence, saved>> PROVE OutcomesConsistent'
  BY <1>1 DEF OutcomesConsistent, Consistent
<1>2. ASSUME NEW c \in Calls, RecordOutcome(c) PROVE OutcomesConsistent'
  <2> DEFINE o == OutcomeOf(c, call[c].receipts)
  <2>1. /\ idempotency' = idempotency \cup {o}
        /\ evidence' = evidence \cup o.receipts
        /\ saved' = saved
        /\ \A n \in idempotency : n.key # o.key
    BY <1>2 DEF RecordOutcome, OutcomeOf, Insertable, Recorded
  <2> HIDE DEF o
  <2>2. Consistent(idempotency', evidence')
    BY <2>1 DEF OutcomesConsistent, Consistent
  <2> QED
    BY <2>1, <2>2 DEF OutcomesConsistent, Consistent
<1>3. ASSUME NEW c \in Calls,
             \/ DispatchPrior(c) \/ DispatchFirst(c) \/ TransportUnavailable(c)
             \/ TransportReturns(c) \/ RecordRefused(c) \/ DispatchEnds(c)
      PROVE  OutcomesConsistent'
  BY <1>1, <1>3 DEF DispatchPrior, DispatchFirst, TransportUnavailable,
     TransportReturns, RecordRefused, DispatchEnds, database
<1>4. ASSUME NEW d, Receive(d) \/ ProviderExecutes(d) PROVE OutcomesConsistent'
  BY <1>1, <1>4 DEF Receive, ProviderExecutes, database
<1>5. ASSUME Backup PROVE OutcomesConsistent'
  BY <1>5 DEF Backup, database, OutcomesConsistent, Consistent
<1>6. ASSUME Restore PROVE OutcomesConsistent'
  BY <1>6 DEF Restore, OutcomesConsistent, Consistent
<1>7. ASSUME UNCHANGED dispatchVars PROVE OutcomesConsistent'
  BY <1>1, <1>7 DEF dispatchVars, database
<1> QED
  BY <1>2, <1>3, <1>4, <1>5, <1>6, <1>7 DEF DispatchNext

\* The evidence is that of the recorded outcomes, also after a restore.
THEOREM EvidenceAlwaysAccounts == DispatchSpec => []EvidenceAccounts
<1>1. OutcomesConsistent => EvidenceAccounts
  BY DEF OutcomesConsistent, Consistent, EvidenceAccounts
<1> QED
  BY <1>1, OutcomesInit, OutcomesNext, PTL DEF DispatchSpec

\* A step that restores nothing keeps every outcome and adds none to its key.
LEMMA OutcomesKept ==
  ASSUME OutcomesConsistent, [DispatchNext]_dispatchVars, ~restored'
  PROVE  /\ ~restored
         /\ idempotency \subseteq idempotency'
         /\ \A o \in idempotency, n \in idempotency' : n.key = o.key => n = o
<1>0. \A o, n \in idempotency : n.key = o.key => n = o
  BY DEF OutcomesConsistent, Consistent
<1>1. CASE UNCHANGED <<idempotency, restored>>
  BY <1>0, <1>1
<1>2. ASSUME NEW c \in Calls, RecordOutcome(c)
      PROVE  /\ ~restored
             /\ idempotency \subseteq idempotency'
             /\ \A o \in idempotency, n \in idempotency' : n.key = o.key => n = o
  BY <1>0, <1>2 DEF RecordOutcome, OutcomeOf, Insertable, Recorded
<1>3. ~Restore
  BY DEF Restore
<1> QED
  BY <1>1, <1>2, <1>3
  DEF DispatchNext, DispatchPrior, DispatchFirst, TransportUnavailable, TransportReturns,
      RecordRefused, DispatchEnds, Receive, ProviderExecutes, Backup, dispatchVars, database

\* A key has one outcome and keeps it until a backup is restored.
THEOREM OutcomeAlwaysFinal == DispatchSpec => OutcomeFinal
<1>1. OutcomesConsistent /\ [DispatchNext]_dispatchVars =>
        [\A o \in idempotency : \A n \in idempotency' :
           ~restored' => o \in idempotency' /\ (n.key = o.key => n = o)]_dispatchVars
  BY OutcomesKept
<1> QED
  BY <1>1, OutcomesInit, OutcomesNext, PTL DEF DispatchSpec, OutcomeFinal

\* What was returned stays recorded; what is returned is recorded then.
LEMMA ReturnedNext ==
  TypeInv /\ OutcomesConsistent /\ ReturnedIsRecorded /\ [DispatchNext]_dispatchVars
    => ReturnedIsRecorded'
<1> SUFFICES ASSUME TypeInv, OutcomesConsistent, ReturnedIsRecorded,
                    [DispatchNext]_dispatchVars, ~restored',
                    NEW k \in Calls, call'[k].at = "returned"
             PROVE  OutcomeOf(k, call'[k].receipts) \in idempotency'
  BY DEF ReturnedIsRecorded, OutcomeOf, keyOf
<1>0. ~restored /\ idempotency \subseteq idempotency'
  BY OutcomesKept
<1>1. CASE call'[k] = call[k]
  BY <1>0, <1>1 DEF ReturnedIsRecorded
<1>2. CASE DispatchPrior(k)
  <2>1. PICK o \in idempotency :
          /\ o.key = keyOf(k)
          /\ call' = [call EXCEPT ![k].at = "returned", ![k].receipts = o.receipts]
    BY <1>2 DEF DispatchPrior
  <2>2. call'[k].receipts = o.receipts
    BY <2>1 DEF TypeInv, DispatchTypeOK
  <2>3. o = [key |-> o.key, receipts |-> o.receipts]
    BY DEF TypeInv, DispatchTypeOK, Outcome
  <2> QED
    BY <1>0, <2>1, <2>2, <2>3 DEF OutcomeOf
<1>3. CASE RecordOutcome(k)
  BY <1>3 DEF RecordOutcome, TypeInv, DispatchTypeOK
<1>4. ASSUME NEW c \in Calls, c # k,
             \/ DispatchPrior(c) \/ DispatchFirst(c) \/ TransportUnavailable(c)
             \/ TransportReturns(c) \/ RecordOutcome(c) \/ RecordRefused(c)
             \/ DispatchEnds(c)
      PROVE  call'[k] = call[k]
  BY <1>4 DEF DispatchPrior, DispatchFirst, TransportUnavailable, TransportReturns,
     RecordOutcome, RecordRefused, DispatchEnds, TypeInv, DispatchTypeOK
<1>5. ASSUME \/ DispatchFirst(k) \/ TransportUnavailable(k) \/ TransportReturns(k)
             \/ RecordRefused(k) \/ DispatchEnds(k)
      PROVE  FALSE
  BY <1>5 DEF DispatchFirst, TransportUnavailable, TransportReturns, RecordRefused,
     DispatchEnds, TypeInv, DispatchTypeOK
<1>6. ~Restore
  BY DEF Restore
<1> QED
  BY <1>1, <1>2, <1>3, <1>4, <1>5, <1>6
  DEF DispatchNext, Receive, ProviderExecutes, Backup, dispatchVars

\* Receipts that are returned for a key are the recorded ones, whichever of
\* the racing calls returns them.
THEOREM ReturnedAlwaysRecorded == DispatchSpec => []ReturnedIsRecorded
<1>1. DispatchInit => ReturnedIsRecorded
  BY DEF DispatchInit, ReturnedIsRecorded
<1> QED
  BY <1>1, TypeInit, TypeNext, OutcomesInit, OutcomesNext, ReturnedNext, PTL
  DEF DispatchSpec

-----------------------------------------------------------------------------
(* Receipts are truthful.                                                  *)

\* A claimer stays one: deliveries of past attempts are not sent again.
LEMMA ClaimerStays ==
  ASSUME TypeInv, DeliveriesMade, [DispatchNext]_dispatchVars, NEW x, Claimer(x)
  PROVE  Claimer(x)'
<1>1. PICK d \in Delivery : Made(d) /\ d \notin inflight /\ claimTuple(d) = x
  BY DEF Claimer
<1>2. Made(d)'
  BY <1>1, StepsAdvance, TypeNext DEF Made, Advances, TypeInv, DispatchTypeOK, Delivery
<1>3. ASSUME NEW c \in Calls, NEW n \in Nat, d \in Deliveries(c, n)
      PROVE  n <= call[c].attempt
  BY <1>1, <1>3 DEF Deliveries, Made
<1>4. ASSUME NEW c \in Calls, DispatchFirst(c) PROVE d \notin inflight'
  BY <1>1, <1>3, <1>4 DEF DispatchFirst, DeliveriesMade
<1>5. ASSUME NEW c \in Calls, TransportUnavailable(c) PROVE d \notin inflight'
  BY <1>1, <1>3, <1>5 DEF TransportUnavailable, TypeInv, DispatchTypeOK
<1>6. d \notin inflight'
  BY <1>1, <1>4, <1>5
  DEF DispatchNext, DispatchPrior, TransportReturns, RecordOutcome, RecordRefused,
      DispatchEnds, Receive, ProviderExecutes, Backup, Restore, dispatchVars
<1> QED
  BY <1>1, <1>2, <1>6 DEF Claimer, claimTuple

LEMMA ClaimedInit == DispatchInit => NoncesClaimed
BY DEF DispatchInit, NoncesClaimed

\* Every nonce was claimed by a delivery that is not under way any more.
LEMMA ClaimedNext ==
  TypeInv /\ DeliveriesMade /\ NoncesClaimed /\ [DispatchNext]_dispatchVars
    => NoncesClaimed'
<1> SUFFICES ASSUME TypeInv, DeliveriesMade, NoncesClaimed, [DispatchNext]_dispatchVars
             PROVE  NoncesClaimed'
  OBVIOUS
<1>0. \A x : Claimer(x) => Claimer(x)'
  BY ClaimerStays
<1>1. ASSUME UNCHANGED <<nonces, saved>> PROVE NoncesClaimed'
  BY <1>0, <1>1 DEF NoncesClaimed
<1>2. ASSUME NEW d \in inflight, Receive(d) PROVE NoncesClaimed'
  <2>1. d \in Delivery /\ Made(d) /\ Made(d)' /\ d \notin inflight'
    BY <1>2, MadeNext, StepsAdvance, TypeNext
    DEF DeliveriesMade, Made, Advances, Receive, TypeInv, DispatchTypeOK, Delivery
  <2>2. Claimer(claimTuple(d))'
    BY <2>1 DEF Claimer, claimTuple
  <2>3. nonces' \subseteq nonces \cup {claimTuple(d)} /\ saved' = saved
    BY <1>2 DEF Receive
  <2>4. \A x \in nonces \cup {claimTuple(d)} : Claimer(x)'
    <3>1. ASSUME NEW x, x = claimTuple(d) PROVE Claimer(x)'
      BY <2>1, <3>1 DEF Claimer, claimTuple
    <3> QED
      BY <1>0, <3>1 DEF NoncesClaimed
  <2> QED
    BY <1>0, <2>3, <2>4 DEF NoncesClaimed
<1>3. ASSUME Backup PROVE NoncesClaimed'
  BY <1>0, <1>3 DEF Backup, database, NoncesClaimed
<1>4. ASSUME Restore PROVE NoncesClaimed'
  BY <1>0, <1>4 DEF Restore, NoncesClaimed
<1> QED
  BY <1>1, <1>2, <1>3, <1>4
  DEF DispatchNext, DispatchPrior, DispatchFirst, TransportUnavailable, TransportReturns,
      RecordOutcome, RecordRefused, DispatchEnds, Receive, ProviderExecutes,
      dispatchVars, database

\* What was true of a receipt stays true.
LEMMA TruthStays ==
  ASSUME TypeInv, TypeInv', Advances, NEW r \in Receipt, Truthful(r)
  PROVE  Truthful(r)'
<1>1. PICK c \in Calls :
        /\ envelopeOf[c].message_id = r.message_id
        /\ call[c].attempt >= 1
        /\ IF r.state = "reported"
           THEN executions[<<r.port_id, envelopeOf[c].nonce>>] >= 1
           ELSE \/ call[c].attempt >= 2
                \/ \E o \in Calls \ {c} : /\ envelopeOf[o].nonce = envelopeOf[c].nonce
                                          /\ call[o].attempt >= 1
  BY DEF Truthful
<1>2. \A k \in Calls : /\ call[k].attempt \in Nat /\ call'[k].attempt \in Nat
                       /\ call'[k].attempt >= call[k].attempt
  BY DispatchAssumption DEF TypeInv, DispatchTypeOK, Advances
<1>3. CASE r.state = "reported"
  <2>1. <<r.port_id, envelopeOf[c].nonce>> \in Ports \X Nonces
    BY EnvelopeType DEF Receipt
  <2>2. executions'[<<r.port_id, envelopeOf[c].nonce>>] >= 1
    BY <1>1, <1>3, <2>1 DEF TypeInv, DispatchTypeOK, Advances
  <2> QED
    BY <1>1, <1>2, <1>3, <2>2 DEF Truthful
<1>4. CASE r.state # "reported"
  BY <1>1, <1>2, <1>4 DEF Truthful
<1> QED
  BY <1>3, <1>4

\* A quarantine receipt is truthful: another delivery claimed the nonce.
LEMMA QuarantineTruthful ==
  ASSUME TypeInv, DeliveriesMade, NoncesClaimed, NEW d \in inflight,
         claimTuple(d) \in nonces
  PROVE  Truthful(ReceiptOf(d, "quarantined"))
<1>1. PICK e \in Delivery : Made(e) /\ e \notin inflight /\ claimTuple(e) = claimTuple(d)
  BY DEF NoncesClaimed, Claimer
<1>2. d \in Delivery /\ Made(d) /\ d # e
  BY <1>1 DEF DeliveriesMade, Made
<1>3. e.port = d.port /\ envelopeOf[e.call].nonce = envelopeOf[d.call].nonce
  BY <1>1 DEF claimTuple
<1>4. /\ d.call \in Calls /\ e.call \in Calls /\ d.attempt \in Nat /\ e.attempt \in Nat
      /\ call[d.call].attempt \in Nat /\ call[e.call].attempt \in Nat
  BY <1>1, <1>2, DispatchAssumption DEF Delivery, TypeInv, DispatchTypeOK
<1>5. call[d.call].attempt >= 1 /\ call[e.call].attempt >= 1
  BY <1>1, <1>2, <1>4 DEF Made
<1>6. d.call = e.call => call[d.call].attempt >= 2
  <2>1. d.call = e.call => d.attempt # e.attempt
    BY <1>2, <1>3 DEF Delivery
  <2> QED
    BY <1>1, <1>2, <1>4, <2>1 DEF Made
<1>7. /\ ReceiptOf(d, "quarantined").message_id = envelopeOf[d.call].message_id
      /\ ReceiptOf(d, "quarantined").state # "reported"
  BY DEF ReceiptOf
<1> QED
  BY <1>3, <1>4, <1>5, <1>6, <1>7 DEF Truthful

LEMMA TruthfulInit == DispatchInit => ReceiptsTruthful
BY DEF DispatchInit, ReceiptsTruthful, RecordedTruthful

\* Receipts are truthful when they are made, and handed on unchanged.
LEMMA TruthfulNext ==
  TypeInv /\ DeliveriesMade /\ OutcomesConsistent /\ NoncesClaimed /\ ReceiptsTruthful
    /\ [DispatchNext]_dispatchVars => ReceiptsTruthful'
<1> SUFFICES ASSUME TypeInv, DeliveriesMade, OutcomesConsistent, NoncesClaimed,
                    ReceiptsTruthful, [DispatchNext]_dispatchVars
             PROVE  ReceiptsTruthful'
  OBVIOUS
<1>0. TypeInv' /\ Advances
  BY TypeNext, StepsAdvance
<1>a. \A r \in Receipt : Truthful(r) => Truthful(r)'
  BY <1>0, TruthStays
<1>b. /\ evidence \subseteq Receipt
      /\ \A c \in Calls : call[c].receipts \subseteq Receipt
      /\ \A r \in replies : r[2] \in Receipt
      /\ \A s \in saved : s[3] \subseteq Receipt
      /\ \A o \in idempotency : o.receipts \subseteq Receipt
  BY DEF TypeInv, DispatchTypeOK, Tables, Outcome
<1>c. /\ \A r \in evidence : Truthful(r)'
      /\ \A c \in Calls : \A r \in call[c].receipts : Truthful(r)'
      /\ \A r \in replies : Truthful(r[2])'
      /\ \A s \in saved : \A r \in s[3] : Truthful(r)'
  BY <1>a, <1>b DEF ReceiptsTruthful, RecordedTruthful
<1>d. ASSUME evidence' = evidence, saved' = saved, replies' \subseteq replies,
             \A c \in Calls : call'[c].receipts = call[c].receipts
      PROVE  ReceiptsTruthful'
  BY <1>c, <1>d DEF ReceiptsTruthful, RecordedTruthful
<1> USE DEF TypeInv, DispatchTypeOK
<1>1. ASSUME NEW c \in Calls, DispatchPrior(c) PROVE ReceiptsTruthful'
  <2>1. PICK o \in idempotency :
          call' = [call EXCEPT ![c].at = "returned", ![c].receipts = o.receipts]
    BY <1>1 DEF DispatchPrior
  <2>2. \A r \in o.receipts : r \in evidence
    BY DEF OutcomesConsistent, Consistent
  <2>3. \A k \in Calls : call'[k].receipts = IF k = c THEN o.receipts ELSE call[k].receipts
    BY <2>1
  <2>4. evidence' = evidence /\ saved' = saved /\ replies' = replies
    BY <1>1 DEF DispatchPrior, database
  <2> QED
    BY <1>c, <2>2, <2>3, <2>4 DEF ReceiptsTruthful, RecordedTruthful
<1>2. ASSUME NEW c \in Calls, DispatchFirst(c) PROVE ReceiptsTruthful'
  BY <1>2, <1>d DEF DispatchFirst, database
<1>3. ASSUME NEW c \in Calls, TransportUnavailable(c) PROVE ReceiptsTruthful'
  BY <1>3, <1>d, CollectedType DEF TransportUnavailable, database
<1>4. ASSUME NEW c \in Calls, TransportReturns(c) PROVE ReceiptsTruthful'
  <2>1. \A k \in Calls : call'[k].receipts = IF k = c THEN Collected(c) ELSE call[k].receipts
    BY <1>4 DEF TransportReturns
  <2>2. \A r \in Collected(c) : Truthful(r)'
    BY <1>c DEF Collected
  <2>3. evidence' = evidence /\ saved' = saved /\ replies' \subseteq replies
    BY <1>4, CollectedType DEF TransportReturns, database
  <2> QED
    BY <1>c, <2>1, <2>2, <2>3 DEF ReceiptsTruthful, RecordedTruthful
<1>5. ASSUME NEW c \in Calls, RecordOutcome(c) PROVE ReceiptsTruthful'
  <2>1. \A k \in Calls : call'[k].receipts = call[k].receipts
    BY <1>5 DEF RecordOutcome
  <2>2. /\ evidence' = evidence \cup call[c].receipts
        /\ saved' = saved /\ replies' = replies
    BY <1>5 DEF RecordOutcome
  <2> QED
    BY <1>c, <2>1, <2>2 DEF ReceiptsTruthful, RecordedTruthful
<1>6. ASSUME NEW c \in Calls, RecordRefused(c) PROVE ReceiptsTruthful'
  BY <1>6, <1>d DEF RecordRefused, database
<1>7. ASSUME NEW c \in Calls, DispatchEnds(c) PROVE ReceiptsTruthful'
  BY <1>7, <1>d, CollectedType DEF DispatchEnds, database
<1>8. ASSUME NEW d \in inflight, Receive(d) PROVE ReceiptsTruthful'
  <2>1. CASE claimTuple(d) \in nonces
    <3> DEFINE q == ReceiptOf(d, "quarantined")
    <3>1. q \in Receipt /\ Truthful(q)
      BY <2>1, DeliveryTypes, QuarantineTruthful
    <3>2. Truthful(q)'
      BY <1>0, <3>1, TruthStays
    <3> HIDE DEF q
    <3>3. /\ replies' \subseteq replies \cup {<<d, q>>}
          /\ evidence' = evidence /\ saved' = saved /\ call' = call
      BY <1>8, <2>1 DEF Receive, Replying, q
    <3>4. \A r \in replies' : Truthful(r[2])'
      BY <1>c, <3>2, <3>3
    <3> QED
      BY <1>c, <3>3, <3>4 DEF ReceiptsTruthful, RecordedTruthful
  <2>2. CASE claimTuple(d) \notin nonces
    BY <1>8, <1>d, <2>2 DEF Receive
  <2> QED
    BY <2>1, <2>2
<1>9. ASSUME NEW d \in claimed, ProviderExecutes(d) PROVE ReceiptsTruthful'
  <2> DEFINE q == ReceiptOf(d, "reported")
             t == <<d.port, envelopeOf[d.call].nonce>>
  <2>1. d \in Delivery /\ d.call \in Calls /\ t \in Ports \X Nonces /\ Made(d)
    BY EnvelopeType DEF Delivery, DeliveriesMade
  <2>2. executions'[t] >= 1
    <3>1. executions'[t] = executions[t] + 1 /\ executions[t] \in Nat
      BY <1>9, <2>1 DEF ProviderExecutes
    <3> QED
      BY <3>1
  <2>3. call' = call /\ call[d.call].attempt >= 1
    <3>1. d.attempt \in Nat /\ call[d.call].attempt \in Nat
      BY <2>1, DispatchAssumption DEF Delivery
    <3> QED
      BY <1>9, <2>1, <3>1 DEF ProviderExecutes, Made
  <2>4. Truthful(q)'
    BY <2>1, <2>2, <2>3 DEF Truthful, ReceiptOf
  <2> HIDE DEF q
  <2>5. /\ replies' \subseteq replies \cup {<<d, q>>}
        /\ evidence' = evidence /\ saved' = saved
    BY <1>9 DEF ProviderExecutes, Replying, database, q
  <2>6. \A r \in replies' : Truthful(r[2])'
    BY <1>c, <2>4, <2>5
  <2> QED
    BY <1>c, <2>3, <2>5, <2>6 DEF ReceiptsTruthful, RecordedTruthful
<1>10. ASSUME Backup PROVE ReceiptsTruthful'
  BY <1>10, <1>c DEF Backup, database, ReceiptsTruthful, RecordedTruthful
<1>11. ASSUME Restore PROVE ReceiptsTruthful'
  <2>1. \A c \in Calls : call'[c].receipts = call[c].receipts
    BY <1>11 DEF Restore
  <2>2. PICK s \in saved : evidence' = s[3]
    BY <1>11 DEF Restore
  <2>3. saved' = saved /\ replies' = {}
    BY <1>11 DEF Restore
  <2> QED
    BY <1>c, <2>1, <2>2, <2>3 DEF ReceiptsTruthful, RecordedTruthful
<1>12. ASSUME UNCHANGED dispatchVars PROVE ReceiptsTruthful'
  BY <1>12, <1>d DEF dispatchVars, database
<1>13. ASSUME NEW d, Receive(d) \/ ProviderExecutes(d) PROVE ReceiptsTruthful'
  BY <1>8, <1>9, <1>13 DEF Receive, ProviderExecutes
<1> HIDE DEF TypeInv, DispatchTypeOK
<1> QED
  BY <1>1, <1>2, <1>3, <1>4, <1>5, <1>6, <1>7, <1>10, <1>11, <1>12, <1>13
  DEF DispatchNext

\* Every receipt in the evidence tells what happened, also after retries, late
\* deliveries and a restore.
THEOREM RecordedAlwaysTruthful == DispatchSpec => []RecordedTruthful
<1>1. DispatchInit => DeliveriesMade
  BY DEF DispatchInit, DeliveriesMade
<1>2. ReceiptsTruthful => RecordedTruthful
  BY DEF ReceiptsTruthful
<1> QED
  BY <1>1, <1>2, TypeInit, TypeNext, MadeNext, OutcomesInit, OutcomesNext, ClaimedInit,
     ClaimedNext, TruthfulInit, TruthfulNext, PTL
  DEF DispatchSpec

\* Outcomes, evidence, answers and executions agree for any number of racing
\* calls of dispatch, attempts, late deliveries and lost answers.
THEOREM DispatchAlwaysSound == DispatchSpec => []DispatchSound
<1>1. ExecutedOncePerNonce /\ ReturnedIsRecorded /\ EvidenceAccounts /\ RecordedTruthful
        => DispatchSound
  BY DEF DispatchSound
<1> QED
  BY <1>1, AlwaysExecutedOncePerNonce, ReturnedAlwaysRecorded, EvidenceAlwaysAccounts,
     RecordedAlwaysTruthful, PTL

-----------------------------------------------------------------------------
(* Places in the tables of the hash chains.                                *)

Before(places, i) == {j \in places : j < i}

\* Each of these rows names the one of them before it.
Linked(table, places) == \A i \in places : table[i].previous = LastOf(Before(places, i))

\* Each of these rows counts the ones of them before it.
Numbered(table, places) ==
  \A i \in places : table[i].sequence = Cardinality(Before(places, i)) + 1

\* Places of a table are counted from below its end.
LEMMA PlacesFinite ==
  ASSUME NEW S, NEW table \in Seq(S), NEW places \in SUBSET DOMAIN table
  PROVE  /\ places \subseteq Nat /\ IsFiniteSet(places) /\ Cardinality(places) \in Nat
         /\ Len(table) + 1 \in Nat /\ \A i \in places : i < Len(table) + 1
<1>1. DOMAIN table = 1 .. Len(table) /\ Len(table) \in Nat
  OBVIOUS
<1>2. IsFiniteSet(1 .. Len(table))
  BY <1>1, FS_Interval
<1> QED
  BY <1>1, <1>2, FS_Subset, FS_CardinalityType

\* A row appended to a table.
LEMMA AppendPlaces ==
  ASSUME NEW S, NEW table \in Seq(S), NEW row \in S, NEW n \in Nat, n = Len(table) + 1
  PROVE  /\ DOMAIN Append(table, row) = DOMAIN table \cup {n} /\ n \notin DOMAIN table
         /\ Append(table, row)[n] = row
         /\ \A i \in DOMAIN table : Append(table, row)[i] = table[i]
<1>1. /\ Len(table) \in Nat /\ DOMAIN table = 1 .. Len(table)
      /\ DOMAIN Append(table, row) = 1 .. n
  OBVIOUS
<1>2. 1 .. n = (1 .. Len(table)) \cup {n}
  BY <1>1
<1> QED
  BY <1>1, <1>2

\* A later place is the last one, and has all others before it.
LEMMA LastOfLater ==
  ASSUME NEW places \in SUBSET Nat, NEW n \in Nat, \A i \in places : i < n
  PROVE  LastOf(places \cup {n}) = n
<1>1. \A i \in places \cup {n} : (\A j \in places \cup {n} : j <= i) => i = n
  OBVIOUS
<1>2. \A j \in places \cup {n} : j <= n
  OBVIOUS
<1> QED
  BY <1>1, <1>2 DEF LastOf

\* What is before a place stays so when a later one comes.
LEMMA BeforeLater ==
  ASSUME NEW places \in SUBSET Nat, NEW n \in Nat, \A i \in places : i < n
  PROVE  /\ Before(places \cup {n}, n) = places
         /\ \A i \in places : Before(places \cup {n}, i) = Before(places, i)
<1>1. Before(places \cup {n}, n) = places
  <2>1. ~(n < n)
    OBVIOUS
  <2> QED
    BY <2>1 DEF Before
<1>2. ASSUME NEW i \in places PROVE Before(places \cup {n}, i) = Before(places, i)
  <2>1. ~(n < i)
    OBVIOUS
  <2> QED
    BY <2>1 DEF Before
<1> QED
  BY <1>1, <1>2

\* Rows that keep their places stay linked, and so does a row appended to
\* them that names the last one.
LEMMA LinkedKept ==
  ASSUME NEW table, NEW other, NEW places, \A i \in places : other[i] = table[i]
  PROVE  /\ Linked(table, places) => Linked(other, places)
         /\ Numbered(table, places) => Numbered(other, places)
  BY DEF Linked, Numbered

\* A row that names the last one and counts on extends a chain.
LEMMA LinkedLater ==
  ASSUME NEW table, NEW places \in SUBSET Nat, NEW n \in Nat, \A i \in places : i < n
  PROVE  /\ Linked(table, places) /\ table[n].previous = LastOf(places)
              => Linked(table, places \cup {n})
         /\ Numbered(table, places) /\ table[n].sequence = Cardinality(places) + 1
              => Numbered(table, places \cup {n})
<1>1. /\ Before(places \cup {n}, n) = places
      /\ \A i \in places : Before(places \cup {n}, i) = Before(places, i)
  BY BeforeLater
<1>2. ASSUME Linked(table, places), table[n].previous = LastOf(places)
      PROVE  Linked(table, places \cup {n})
  BY <1>1, <1>2 DEF Linked
<1>3. ASSUME Numbered(table, places), table[n].sequence = Cardinality(places) + 1
      PROVE  Numbered(table, places \cup {n})
  BY <1>1, <1>3 DEF Numbered
<1> QED
  BY <1>2, <1>3

\* A set of numbers that is not empty has a least one.
LEMMA LeastNatural ==
  ASSUME NEW S \in SUBSET Nat, S # {}
  PROVE  \E m \in S : \A k \in S : m <= k
<1>1. PICK m \in S : \A k \in S : ~(<<k, m>> \in OpToRel(<, Nat))
  BY NatLessThanWellFounded, WFMin, Zenon
<1>2. \A k \in Nat : k < m => <<k, m>> \in OpToRel(<, Nat)
  BY Zenon DEF OpToRel
<1>3. \A k \in S : ~(k < m)
  BY <1>1, <1>2, Zenon
<1> QED
  BY <1>3

\* The last of a bounded set of places is one of them.
LEMMA LastOfMember ==
  ASSUME NEW places \in SUBSET Nat, NEW n \in Nat, \A i \in places : i <= n
  PROVE  LastOf(places) \in Nat
<1>1. CASE places = {}
  BY <1>1 DEF LastOf
<1>2. CASE places # {}
  <2> DEFINE Gaps == {n - i : i \in places}
  <2>1. Gaps \in SUBSET Nat /\ Gaps # {}
    <3>1. \A i \in places : n - i \in Nat
      OBVIOUS
    <3>2. PICK i \in places : n - i \in Gaps
      BY <1>2
    <3> QED
      BY <3>1, <3>2
  <2>2. PICK d \in Gaps : \A e \in Gaps : d <= e
    <3> HIDE DEF Gaps
    <3> QED
      BY <2>1, LeastNatural
  <2>3. PICK m \in places : d = n - m
    BY <2>2
  <2>4. ASSUME NEW j \in places PROVE j <= m
    <3>1. n - j \in Gaps /\ d <= n - j
      BY <2>2
    <3> QED
      BY <2>3, <3>1
  <2> QED
    BY <1>2, <2>4 DEF LastOf
<1> QED
  BY <1>1, <1>2

(* LifecycleStore.                                                         *)

Event == [transaction : Transactions, sequence : Nat, previous : Nat, status : Statuses]

LifecycleTypes ==
  /\ projection \in [Transactions -> SUBSET Projection]
  /\ events \in Seq(Event)
  /\ submission \in [Submissions -> Int]

\* The projection of a transaction names the end of its chain.
Projected(rows, places) ==
  /\ \A row \in rows : row.version = Cardinality(places) /\ row.last = LastOf(places)
  /\ rows = {} => places = {}

\* A transaction without events is one whose submission has just created
\* it, or ended there.
Starting(t, made) == \E s \in Submissions : transactionOf[s] = t /\ made[s] \in {0, -2}

LifecycleInv ==
  /\ LifecycleTypes
  /\ \A t \in Transactions :
       /\ Linked(events, EventsOf(t)) /\ Numbered(events, EventsOf(t))
       /\ Projected(projection[t], EventsOf(t))
       /\ projection[t] # {} /\ EventsOf(t) = {} => Starting(t, submission)

LEMMA LifecycleStatuses ==
  /\ "received" \in Statuses
  /\ Len(Lifecycle) \in Nat
  /\ \A i \in 1 .. Len(Lifecycle) : Lifecycle[i] \in Statuses
<1>1. DOMAIN Lifecycle = 1 .. Len(Lifecycle) /\ Len(Lifecycle) = 5
  BY DEF Lifecycle
<1>2. "received" = Lifecycle[1]
  BY DEF Lifecycle
<1> QED
  BY <1>1, <1>2 DEF Statuses

LEMMA LifecycleInitInv == ChainsInit => LifecycleInv
<1> SUFFICES ASSUME ChainsInit PROVE LifecycleInv
  OBVIOUS
<1>1. \A t \in Transactions : EventsOf(t) = {}
  BY DEF ChainsInit, EventsOf
<1> QED
  BY <1>1 DEF ChainsInit, LifecycleInv, LifecycleTypes, Linked, Numbered, Projected

\* transition appends to the chain its projection names the end of.
LEMMA TransitionInv ==
  ASSUME LifecycleInv, NEW s \in Submissions, Transition(s)
  PROVE  LifecycleInv'
<1>1. PICK t \in Transactions : t = transactionOf[s]
  BY ChainsAssumption
<1>2. PICK status \in Statuses : status = Lifecycle[submission[s] + 1]
  BY LifecycleStatuses DEF Transition, LifecycleInv, LifecycleTypes
<1>3. PICK n \in Nat : n = Len(events) + 1
  BY DEF LifecycleInv, LifecycleTypes
<1>4. PICK row \in projection[t] :
        /\ events' = Append(events, [transaction |-> t, sequence |-> row.version + 1,
                                     previous |-> row.last, status |-> status])
        /\ projection' = [projection EXCEPT ![t] =
             {[version |-> row.version + 1, last |-> n, status |-> status]}]
  BY <1>1, <1>2, <1>3 DEF Transition
<1>5. row \in Projection
  BY <1>1 DEF LifecycleInv, LifecycleTypes
<1>6. submission' = [submission EXCEPT ![s] = @ + 1]
  BY DEF Transition
<1>7. LifecycleTypes'
  BY <1>3, <1>4, <1>5, <1>6 DEF LifecycleInv, LifecycleTypes, Projection, Event
<1>8. \A u \in Transactions \ {t} : EventsOf(u)' = EventsOf(u)
  BY <1>4 DEF EventsOf, LifecycleInv, LifecycleTypes, Event
<1>9. EventsOf(t)' = EventsOf(t) \cup {n} /\ n \notin EventsOf(t)
  BY <1>3, <1>4 DEF EventsOf, LifecycleInv, LifecycleTypes, Event
<1>10. \A u \in Transactions :
         /\ EventsOf(u) \in SUBSET Nat /\ IsFiniteSet(EventsOf(u))
         /\ Cardinality(EventsOf(u)) \in Nat
         /\ \A i \in EventsOf(u) : events'[i] = events[i] /\ i < n
  BY <1>3, <1>4, PlacesFinite DEF LifecycleInv, LifecycleTypes, EventsOf
<1>11. events'[n].sequence = row.version + 1 /\ events'[n].previous = row.last
  BY <1>3, <1>4 DEF LifecycleInv, LifecycleTypes
<1>12. row.version = Cardinality(EventsOf(t)) /\ row.last = LastOf(EventsOf(t))
  BY DEF LifecycleInv, Projected
<1>13. /\ Linked(events', EventsOf(t) \cup {n}) /\ Numbered(events', EventsOf(t) \cup {n})
  <2>1. Linked(events', EventsOf(t)) /\ Numbered(events', EventsOf(t))
    BY <1>10, LinkedKept DEF LifecycleInv
  <2> QED
    BY <1>10, <1>11, <1>12, <2>1, LinkedLater
<1>14. Projected(projection'[t], EventsOf(t) \cup {n})
  <2>1. Cardinality(EventsOf(t) \cup {n}) = Cardinality(EventsOf(t)) + 1
    BY <1>9, <1>10, FS_AddElement
  <2>2. LastOf(EventsOf(t) \cup {n}) = n
    BY <1>10, LastOfLater
  <2>3. projection'[t] = {[version |-> row.version + 1, last |-> n, status |-> status]}
    BY <1>4 DEF LifecycleInv, LifecycleTypes
  <2>4. ASSUME NEW r \in projection'[t]
        PROVE  r.version = Cardinality(EventsOf(t)) + 1 /\ r.last = n
    BY <1>12, <2>3
  <2> QED
    BY <2>1, <2>2, <2>3, <2>4 DEF Projected
<1>15. ASSUME NEW u \in Transactions \ {t}
       PROVE  /\ Linked(events', EventsOf(u)) /\ Numbered(events', EventsOf(u))
              /\ projection'[u] = projection[u]
              /\ Starting(u, submission) => Starting(u, submission')
  <2>1. Linked(events', EventsOf(u)) /\ Numbered(events', EventsOf(u))
    BY <1>10, LinkedKept DEF LifecycleInv
  <2> QED
    BY <1>1, <1>4, <1>6, <2>1 DEF LifecycleInv, LifecycleTypes, Starting
<1> QED
  BY <1>7, <1>8, <1>9, <1>13, <1>14, <1>15 DEF LifecycleInv

\* create starts a chain without events.
LEMMA CreateTransactionInv ==
  ASSUME LifecycleInv, NEW s \in Submissions, CreateTransaction(s)
  PROVE  LifecycleInv'
<1>1. PICK t \in Transactions : t = transactionOf[s]
  BY ChainsAssumption
<1>2. \A u \in Transactions : EventsOf(u)' = EventsOf(u)
  BY DEF CreateTransaction, EventsOf
<1>3. EventsOf(t) = {}
  BY <1>1 DEF CreateTransaction, LifecycleInv, Projected
<1>4. /\ events' = events
      /\ projection' = [projection EXCEPT ![t] =
           {[version |-> 0, last |-> 0, status |-> "received"]}]
      /\ submission' = [submission EXCEPT ![s] = 0]
  BY <1>1 DEF CreateTransaction
<1>5. LifecycleTypes'
  <2>1. [version |-> 0, last |-> 0, status |-> "received"] \in Projection
    BY LifecycleStatuses DEF Projection
  <2> QED
    BY <1>4, <2>1 DEF LifecycleInv, LifecycleTypes
<1>6. Projected(projection'[t], EventsOf(t)) /\ Starting(t, submission')
  <2>1. Cardinality({}) = 0 /\ LastOf({}) = 0
    BY FS_EmptySet DEF LastOf
  <2>2. projection'[t] = {[version |-> 0, last |-> 0, status |-> "received"]}
    BY <1>4 DEF LifecycleInv, LifecycleTypes
  <2> QED
    BY <1>1, <1>3, <1>4, <2>1, <2>2 DEF Projected, Starting, LifecycleInv, LifecycleTypes
<1>7. \A u \in Transactions \ {t} :
        /\ projection'[u] = projection[u]
        /\ Starting(u, submission) => Starting(u, submission')
  BY <1>1, <1>4 DEF LifecycleInv, LifecycleTypes, Starting
<1> QED
  BY <1>2, <1>4, <1>5, <1>6, <1>7 DEF LifecycleInv

\* No step of either store damages a lifecycle chain.
LEMMA LifecycleStepInv ==
  ASSUME LifecycleInv, [LifecycleStep \/ LedgerStep]_chainVars
  PROVE  LifecycleInv'
<1>1. ASSUME UNCHANGED <<projection, events>>, submission' \in [Submissions -> Int],
             \A t \in Transactions : Starting(t, submission) => Starting(t, submission')
      PROVE  LifecycleInv'
  <2>1. \A t \in Transactions : EventsOf(t)' = EventsOf(t)
    BY <1>1 DEF EventsOf
  <2> QED
    BY <1>1, <2>1 DEF LifecycleInv, LifecycleTypes
<1>2. ASSUME NEW s \in Submissions, SubmissionEnds(s) PROVE LifecycleInv'
  BY <1>1, <1>2 DEF SubmissionEnds, Starting, LifecycleInv, LifecycleTypes
<1>3. CASE LedgerStep \/ UNCHANGED chainVars
  <2>1. UNCHANGED <<projection, events, submission>>
    BY <1>3 DEF LedgerStep, ReadPrior, InsertEvent, ReturnStored, AppendEnds, chainVars
  <2> QED
    BY <1>1, <2>1 DEF LifecycleInv, LifecycleTypes
<1> QED
  BY <1>2, <1>3, TransitionInv, CreateTransactionInv DEF LifecycleStep

\* The chains of LifecycleStore.
LEMMA LifecycleAlwaysVerifies == ChainsSpec => []LifecycleVerifies
<1>1. LifecycleInv => LifecycleVerifies
  <2> SUFFICES ASSUME LifecycleInv, NEW t \in Transactions, NEW row \in projection[t]
               PROVE  \/ verifyLifecycle(t)
                      \/ /\ EventsOf(t) = {} /\ row.version = 0
                         /\ \E s \in Submissions : transactionOf[s] = t /\ submission[s] \in {0, -2}
    BY DEF LifecycleVerifies
  <2>1. CASE EventsOf(t) = {}
    BY <2>1, FS_EmptySet DEF LifecycleInv, Projected, Starting
  <2>2. CASE EventsOf(t) # {}
    BY <2>2 DEF LifecycleInv, Projected, Linked, Numbered, Before, verifyLifecycle
  <2> QED
    BY <2>1, <2>2
<1> QED
  BY <1>1, LifecycleInitInv, LifecycleStepInv, PTL DEF ChainsSpec

(* CommunicationLedger.                                                    *)

Message == [message : MessageIds, callback : {a.callback : a \in Appends}, previous : Nat]

LedgerTypes ==
  /\ messages \in Seq(Message)
  /\ append \in [Appends -> [at : {"new", "read", "done", "ended"}, prior : Nat, row : Nat]]

\* A message whose calls of append never overlapped has a chain that
\* verifies, and at most one call at work, which has read its end.
Serial(table, calls, m) ==
  LET mine == {i \in DOMAIN table : table[i].message = m}
  IN /\ Linked(table, mine)
     /\ \A a \in Appends : a.message = m /\ calls[a].at = "read" =>
          /\ calls[a].prior = LastOf(mine)
          /\ \A b \in Appends : b.message = m /\ calls[b].at = "read" => b = a

SerialChains == \A m \in MessageIds \ interleaved : Serial(messages, append, m)

\* An answered call has the row of its callback.
AnsweredInv ==
  /\ \A i, j \in DOMAIN messages :
       messages[i].callback = messages[j].callback => i = j \/ messages[i].callback = NoCallback
  /\ \A a \in Appends :
       append[a].at = "done" => /\ append[a].row \in DOMAIN messages
                                /\ messages[append[a].row].callback = a.callback

LedgerInv == LedgerTypes /\ SerialChains /\ AnsweredInv

\* A call of append that stops being at work disturbs no chain.
LEMMA SerialShrinks ==
  ASSUME NEW table, NEW calls, NEW other, NEW m,
         \A a \in Appends : other[a].at = "read" => other[a] = calls[a]
  PROVE  Serial(table, calls, m) => Serial(table, other, m)
  BY DEF Serial

\* A second call that reads beside the first one is an overlap.
LEMMA ReadPriorInv ==
  ASSUME LedgerInv, NEW a \in Appends, ReadPrior(a)
  PROVE  LedgerInv'
<1>1. /\ a.message \in MessageIds /\ messages' = messages /\ append[a].at = "new"
      /\ append' = [append EXCEPT ![a] =
           [append[a] EXCEPT !.at = "read", !.prior = LastOf(MessagesOf(a.message))]]
  BY ChainsAssumption DEF ReadPrior, LedgerInv, LedgerTypes
<1>2. LastOf(MessagesOf(a.message)) \in Nat
  <2>1. /\ MessagesOf(a.message) \in SUBSET Nat /\ Len(messages) \in Nat
        /\ \A i \in MessagesOf(a.message) : i <= Len(messages)
    BY DEF LedgerInv, LedgerTypes, MessagesOf
  <2> QED
    BY <2>1, LastOfMember
<1>3. LedgerTypes'
  BY <1>1, <1>2 DEF LedgerInv, LedgerTypes
<1>4. SerialChains'
  <2> SUFFICES ASSUME NEW m \in MessageIds \ interleaved' PROVE Serial(messages, append', m)
    BY <1>1 DEF SerialChains
  <2>1. m \notin interleaved /\ Serial(messages, append, m)
    BY DEF ReadPrior, LedgerInv, SerialChains
  <2>2. a.message = m => \A b \in Appends : b.message = m => append[b].at # "read"
    BY DEF ReadPrior, Appending
  <2>3. \A b \in Appends \ {a} : append'[b] = append[b]
    BY <1>1 DEF LedgerInv, LedgerTypes
  <2>4. append'[a].prior = LastOf(MessagesOf(a.message))
    BY <1>1 DEF LedgerInv, LedgerTypes
  <2> QED
    BY <2>1, <2>2, <2>3, <2>4 DEF Serial, MessagesOf
<1>5. AnsweredInv'
  BY <1>1 DEF LedgerInv, LedgerTypes, AnsweredInv
<1> QED
  BY <1>3, <1>4, <1>5 DEF LedgerInv

\* The event names the end its call has read, and its callback is new.
LEMMA InsertEventInv ==
  ASSUME LedgerInv, NEW a \in Appends, InsertEvent(a)
  PROVE  LedgerInv'
<1>1. PICK n \in Nat : n = Len(messages) + 1
  BY DEF LedgerInv, LedgerTypes
<1>2. PICK new : new = [message |-> a.message, callback |-> a.callback,
                        previous |-> append[a].prior]
  OBVIOUS
<1>3. /\ new \in Message /\ messages' = Append(messages, new) /\ append[a].at = "read"
      /\ append' = [append EXCEPT ![a] = [append[a] EXCEPT !.at = "done", !.row = n]]
      /\ interleaved' = interleaved
      /\ TakenBy(a) = {}
  BY <1>1, <1>2, ChainsAssumption DEF InsertEvent, Appending, LedgerInv, LedgerTypes, Message
<1>4. /\ DOMAIN messages' = DOMAIN messages \cup {n} /\ n \notin DOMAIN messages
      /\ messages'[n] = new /\ \A i \in DOMAIN messages : messages'[i] = messages[i]
  BY <1>1, <1>3, AppendPlaces DEF LedgerInv, LedgerTypes
<1>5. LedgerTypes'
  <2>1. messages' \in Seq(Message)
    BY <1>3 DEF LedgerInv, LedgerTypes
  <2>2. append' \in [Appends -> [at : {"new", "read", "done", "ended"}, prior : Nat, row : Nat]]
    BY <1>1, <1>3 DEF LedgerInv, LedgerTypes
  <2> QED
    BY <2>1, <2>2 DEF LedgerTypes
<1>6. \A b \in Appends \ {a} : append'[b] = append[b]
  BY <1>3 DEF LedgerInv, LedgerTypes
<1>7. append'[a].at = "done" /\ append'[a].row = n
  BY <1>3 DEF LedgerInv, LedgerTypes
<1>8. SerialChains'
  <2> SUFFICES ASSUME NEW m \in MessageIds \ interleaved PROVE Serial(messages', append', m)
    BY <1>3 DEF SerialChains
  <2>1. Serial(messages, append, m)
    BY DEF LedgerInv, SerialChains
  <2>2. PICK mine : mine = {i \in DOMAIN messages : messages[i].message = m}
    OBVIOUS
  <2>3. mine \in SUBSET Nat /\ \A i \in mine : i < n /\ messages'[i] = messages[i]
    BY <1>1, <1>4, <2>2, PlacesFinite DEF LedgerInv, LedgerTypes
  <2>4. Linked(messages', mine)
    BY <2>1, <2>2, <2>3, LinkedKept DEF Serial
  <2>5. CASE a.message # m
    <3>1. {i \in DOMAIN messages' : messages'[i].message = m} = mine
      BY <1>2, <1>4, <2>2, <2>5
    <3> QED
      BY <1>6, <2>1, <2>2, <2>4, <2>5, <3>1 DEF Serial
  <2>6. CASE a.message = m
    <3>1. {i \in DOMAIN messages' : messages'[i].message = m} = mine \cup {n}
      BY <1>2, <1>4, <2>2, <2>6
    <3>2. messages'[n].previous = LastOf(mine)
      <4>1. append[a].prior = LastOf({i \in DOMAIN messages : messages[i].message = m})
        BY <1>3, <2>1, <2>6 DEF Serial
      <4> QED
        BY <1>2, <1>4, <2>2, <4>1
    <3>3. Linked(messages', mine \cup {n})
      BY <2>3, <2>4, <3>2, LinkedLater
    <3>4. \A b \in Appends : b.message = m => append'[b].at # "read"
      BY <1>3, <1>6, <1>7, <2>1, <2>6 DEF Serial
    <3> QED
      BY <3>1, <3>3, <3>4 DEF Serial
  <2> QED
    BY <2>5, <2>6
<1>9. AnsweredInv'
  <2>1. \A i \in DOMAIN messages : messages[i].callback = a.callback => a.callback = NoCallback
    BY <1>3 DEF TakenBy
  <2>2. messages'[n].callback = a.callback
    BY <1>2, <1>4
  <2>3. \A i, j \in DOMAIN messages' : messages'[i].callback = messages'[j].callback
          => i = j \/ messages'[i].callback = NoCallback
    BY <1>4, <2>1, <2>2 DEF LedgerInv, AnsweredInv
  <2>4. \A b \in Appends : append'[b].at = "done" =>
          append'[b].row \in DOMAIN messages' /\ messages'[append'[b].row].callback = b.callback
    BY <1>4, <1>6, <1>7, <2>2 DEF LedgerInv, AnsweredInv
  <2> QED
    BY <2>3, <2>4 DEF AnsweredInv
<1> QED
  BY <1>5, <1>8, <1>9 DEF LedgerInv

\* There is one stored event of the callback, and it is returned.
LEMMA ReturnStoredInv ==
  ASSUME LedgerInv, NEW a \in Appends, ReturnStored(a)
  PROVE  LedgerInv'
<1>1. PICK r \in DOMAIN messages : TakenBy(a) = {r} /\ messages[r].callback = a.callback
  BY DEF ReturnStored, TakenBy, LedgerInv, AnsweredInv
<1>2. r \in Nat /\ LastOf(TakenBy(a)) = r
  <2>1. r \in Nat
    BY DEF LedgerInv, LedgerTypes
  <2>2. r <= r
    BY <2>1
  <2> QED
    BY <1>1, <2>1, <2>2 DEF LastOf
<1>3. /\ messages' = messages /\ interleaved' = interleaved
      /\ append' = [append EXCEPT ![a] = [append[a] EXCEPT !.at = "done", !.row = r]]
  BY <1>2 DEF ReturnStored, LedgerInv, LedgerTypes
<1>4. LedgerTypes'
  BY <1>2, <1>3 DEF LedgerInv, LedgerTypes
<1>5. \A b \in Appends : append'[b].at = "read" => append'[b] = append[b]
  BY <1>3 DEF LedgerInv, LedgerTypes
<1>6. SerialChains'
  BY <1>3, <1>5, SerialShrinks DEF LedgerInv, SerialChains
<1>7. AnsweredInv'
  BY <1>1, <1>3 DEF LedgerInv, LedgerTypes, AnsweredInv
<1> QED
  BY <1>4, <1>6, <1>7 DEF LedgerInv

LEMMA AppendEndsInv ==
  ASSUME LedgerInv, NEW a \in Appends, AppendEnds(a)
  PROVE  LedgerInv'
<1>1. /\ messages' = messages /\ interleaved' = interleaved
      /\ append' = [append EXCEPT ![a] = [append[a] EXCEPT !.at = "ended"]]
  BY DEF AppendEnds, LedgerInv, LedgerTypes
<1>2. LedgerTypes'
  BY <1>1 DEF LedgerInv, LedgerTypes
<1>3. \A b \in Appends : append'[b].at \in {"read", "done"} => append'[b] = append[b]
  BY <1>1 DEF LedgerInv, LedgerTypes
<1>4. SerialChains'
  BY <1>1, <1>3, SerialShrinks DEF LedgerInv, SerialChains
<1>5. AnsweredInv'
  BY <1>1, <1>3 DEF LedgerInv, AnsweredInv
<1> QED
  BY <1>2, <1>4, <1>5 DEF LedgerInv

\* The invariant holds throughout.
LEMMA LedgerAlwaysInv == ChainsSpec => []LedgerInv
<1>1. ChainsInit => LedgerInv
  BY DEF ChainsInit, LedgerInv, LedgerTypes, SerialChains, AnsweredInv, Serial, Linked
<1>2. LedgerInv /\ [LifecycleStep \/ LedgerStep]_chainVars => LedgerInv'
  <2> SUFFICES ASSUME LedgerInv, [LifecycleStep \/ LedgerStep]_chainVars PROVE LedgerInv'
    OBVIOUS
  <2>1. CASE LedgerStep
    BY <2>1, ReadPriorInv, InsertEventInv, ReturnStoredInv, AppendEndsInv DEF LedgerStep
  <2>2. CASE LifecycleStep \/ UNCHANGED chainVars
    <3>1. UNCHANGED <<messages, append, interleaved>>
      BY <2>2 DEF LifecycleStep, CreateTransaction, Transition, SubmissionEnds, chainVars
    <3> QED
      BY <3>1 DEF LedgerInv, LedgerTypes, SerialChains, AnsweredInv
  <2> QED
    BY <2>1, <2>2
<1> QED
  BY <1>1, <1>2, PTL DEF ChainsSpec

\* LifecycleStore reads the end of a chain in the transaction that extends
\* it, CommunicationLedger before: the one verifies wherever a process ends
\* but between the two transactions of create, the other unless two calls of
\* append overlapped; and a callback is recorded and answered once.
THEOREM ChainsAlwaysSound == ChainsSpec => []ChainsSound
<1>1. LedgerInv => MessagesVerify /\ CallbackOnce
  <2>1. SerialChains => MessagesVerify
    BY DEF SerialChains, MessagesVerify, Serial, MessagesOf, verifyMessages, Linked, Before
  <2>2. AnsweredInv => CallbackOnce
    BY DEF AnsweredInv, CallbackOnce
  <2> QED
    BY <2>1, <2>2 DEF LedgerInv
<1> QED
  BY <1>1, LifecycleAlwaysVerifies, LedgerAlwaysInv, PTL DEF ChainsSound

-----------------------------------------------------------------------------
(* Registrations and routes.                                               *)

(* Withdrawals.                                                            *)

RegistryTypes ==
  /\ portDirectory \in [Targets -> Registrations \cup {Unregistered}]
  /\ withdrawal \in [Withdrawals -> {"new", "checked", "done"}]

\* What a withdrawal has checked is still registered, by its authority,
\* unless another withdrawal overtook it.
CheckedInv ==
  \A d \in Withdrawals : withdrawal[d] = "checked" /\ d \notin overtaken =>
    /\ portDirectory[d.port_id] # Unregistered
    /\ portDirectory[d.port_id].authority = d.authority

RegistryInv == RegistryTypes /\ CheckedInv

\* Registrations are replaced only through a withdrawal, which marks the
\* others that have checked the same port.
LEMMA RegistryInvariant == RoutesSpec => []RegistryInv
<1>1. RoutesInit => RegistryInv
  BY DEF RoutesInit, RegistryInv, RegistryTypes, CheckedInv
<1>2. RegistryInv /\ [RoutesNext]_routeVars => RegistryInv'
  <2> SUFFICES ASSUME RegistryInv, [RoutesNext]_routeVars PROVE RegistryInv'
    OBVIOUS
  <2> USE RoutesAssumption DEF RegistryInv, RegistryTypes, CheckedInv
  <2>1. ASSUME NEW g \in Registrations, RegisterPort(g) PROVE RegistryInv'
    BY <2>1 DEF RegisterPort
  <2>2. ASSUME NEW d \in Withdrawals, CheckAuthority(d) PROVE RegistryInv'
    BY <2>2 DEF CheckAuthority
  <2>3. ASSUME NEW d \in Withdrawals, DeletePort(d) PROVE RegistryInv'
    BY <2>3 DEF DeletePort
  <2>4. CASE EngineStep \/ UNCHANGED routeVars
    <3>1. UNCHANGED <<portDirectory, withdrawal, overtaken>>
      BY <2>4 DEF EngineStep, BeginRoute, ResolveTarget, ResolveRaises, DispatcherRaises,
                  PersistDeadLetter, ReconcileRaises, RouteProcessEnds, DispatcherReturns,
                  Reconcile, ExecuteChild, routeVars
    <3> QED
      BY <3>1
  <2> QED
    BY <2>1, <2>2, <2>3, <2>4 DEF RoutesNext, DirectoryStep
<1> QED
  BY <1>1, <1>2, PTL DEF RoutesSpec

\* deregister checks the authority before its transaction: it deletes only
\* what that authority registered, unless another withdrawal came between.
THEOREM AlwaysWithdrawnByItsAuthority == RoutesSpec => WithdrawnByItsAuthority
<1>1. RegistryInv /\ [RoutesNext]_routeVars =>
        [\A d \in Withdrawals :
           /\ withdrawal[d] = "checked" /\ withdrawal'[d] = "done"
           /\ portDirectory[d.port_id] # Unregistered
           => d \in overtaken \/ portDirectory[d.port_id].authority = d.authority]_routeVars
  BY DEF RegistryInv, CheckedInv
<1> QED
  BY <1>1, RegistryInvariant, PTL DEF RoutesSpec, WithdrawnByItsAuthority

(* The engine.                                                             *)

ChildStatuses == {"completed", "failed"}

RouteChild == [route : Routes, index : Nat, attempt : Nat]

RouteState ==
  [at : {"new", "resolving", "dispatching", "exhausted", "reconciling", "returned",
         "raised", "unreconciled", "gone"},
   index : Nat, attempt : Nat, receipts : Seq(ChildStatuses), complete : BOOLEAN,
   partial : BOOLEAN]

EngineTypes ==
  /\ route \in [Routes -> RouteState]
  /\ sent \subseteq RouteChild
  /\ answers \subseteq RouteChild \X ChildStatuses
  /\ ran \in [Routes -> [Targets -> Nat]]

\* The receipts of a call with state x are those of the targets before its
\* index, or of all of them.
Progress(r, x) ==
  /\ x.at = "new" => x.index = 1 /\ x.receipts = <<>>
  /\ x.at \in {"resolving", "dispatching", "exhausted"} =>
       x.index \in DOMAIN targetsOf(r) /\ Len(x.receipts) = x.index - 1
  /\ x.at \in {"reconciling", "returned"} => Len(x.receipts) = Len(targetsOf(r))
  /\ Len(x.receipts) <= Len(targetsOf(r))
  /\ x.complete => x.at = "returned" /\ \A i \in DOMAIN x.receipts : x.receipts[i] = "completed"

\* The call with state x has sent this child.
Issued(c, x) ==
  \/ c.index < x.index
  \/ c.index = x.index /\ x.at \notin {"new", "resolving"} /\ c.attempt <= x.attempt

\* The call with state x still accounts for its target of index i.
Accounted(r, i, x, letters) ==
  \/ i \in DOMAIN x.receipts
  \/ i = x.index /\ x.at \in {"dispatching", "exhausted"}
  \/ <<r, targetsOf(r)[i]>> \in letters
  \/ x.at = "raised" /\ i < x.index
  \/ x.at \in {"unreconciled", "gone"}

\* What is known of a child that was sent.
ChildOK(c, x, letters, tried) ==
  /\ c.index \in DOMAIN targetsOf(c.route)
  /\ Issued(c, x)
  /\ Accounted(c.route, c.index, x, letters)
  /\ <<c.route, c.index>> \in tried \/ c.attempt = 1

ChildrenInv ==
  /\ \A c \in sent : ChildOK(c, route[c.route], deadLetters, givenUp)
  /\ \A a \in answers : ChildOK(a[1], route[a[1].route], deadLetters, givenUp)

\* A child is delivered once: it is on its way or has one answer.
OneAnswer ==
  /\ \A a \in answers : a[1] \notin sent
  /\ \A a, b \in answers : a[1] = b[1] => a = b

\* A target ran if and only if a child was answered "completed".
RanInv ==
  /\ \A r \in Routes, p \in Targets : ran[r][p] > 0 =>
       \E a \in answers : /\ a[1].route = r /\ targetsOf(r)[a[1].index] = p
                          /\ a[2] = "completed"
  /\ \A a \in answers : a[2] = "completed" => ran[a[1].route][targetsOf(a[1].route)[a[1].index]] > 0

\* Every receipt is the answer to a child, the first one unless an attempt
\* raised.
ReceiptOK(r, i, status, got, tried) ==
  \E a \in got : /\ a[1].route = r /\ a[1].index = i /\ a[2] = status
                 /\ <<r, i>> \in tried \/ a[1].attempt = 1

ReceiptsInv ==
  \A r \in Routes : \A i \in DOMAIN route[r].receipts :
    ReceiptOK(r, i, route[r].receipts[i], answers, givenUp)

EngineInv ==
  /\ EngineTypes
  /\ \A r \in Routes : Progress(r, route[r])
  /\ ChildrenInv /\ OneAnswer /\ RanInv /\ ReceiptsInv

\* The targets of a route are a sequence of port ids.
LEMMA TargetsType ==
  \A r \in Routes : targetsOf(r) \in Seq(Targets)
  BY RoutesAssumption DEF targetsOf

\* What the invariant says of children and receipts is what is promised.
LEMMA EngineSound == EngineInv => RoutesSound
<1> SUFFICES ASSUME EngineInv PROVE RoutesSound
  OBVIOUS
<1>1. ASSUME NEW r \in Routes, NEW p \in Targets, ran[r][p] > 0
      PROVE  \E a \in answers :
               /\ a[1].route = r /\ targetsOf(r)[a[1].index] = p /\ a[2] = "completed"
               /\ a[1].index \in DOMAIN targetsOf(r)
               /\ Accounted(r, a[1].index, route[r], deadLetters)
               /\ <<r, a[1].index>> \in givenUp \/ a[1].attempt = 1
  <2>1. PICK a \in answers : /\ a[1].route = r /\ targetsOf(r)[a[1].index] = p
                             /\ a[2] = "completed"
    BY <1>1 DEF EngineInv, RanInv
  <2>2. ChildOK(a[1], route[r], deadLetters, givenUp)
    BY <2>1 DEF EngineInv, ChildrenInv
  <2> QED
    BY <2>1, <2>2 DEF ChildOK
<1>2. EffectsAccounted
  <2> SUFFICES ASSUME NEW r \in Routes, NEW p \in Targets, ran[r][p] > 0, route[r].at # "gone"
               PROVE  \/ \E i \in DOMAIN route[r].receipts : targetsOf(r)[i] = p
                      \/ <<r, p>> \in deadLetters
                      \/ route[r].at \in {"dispatching", "exhausted"} /\ targetOf(r) = p
                      \/ ReceiptLost(r, p)
    BY DEF EffectsAccounted
  <2>1. PICK i \in DOMAIN targetsOf(r) :
          targetsOf(r)[i] = p /\ Accounted(r, i, route[r], deadLetters)
    BY <1>1
  <2> QED
    BY <2>1 DEF Accounted, targetOf, ReceiptLost
<1>3. ResultTruthful
  <2> SUFFICES ASSUME NEW r \in Routes, route[r].at = "returned"
               PROVE  /\ Len(route[r].receipts) = Len(targetsOf(r))
                      /\ route[r].complete =>
                           \A p \in {targetsOf(r)[i] : i \in DOMAIN targetsOf(r)} : ran[r][p] > 0
                      /\ \A i \in DOMAIN targetsOf(r) : ran[r][targetsOf(r)[i]] > 0 =>
                           \E j \in DOMAIN targetsOf(r) :
                             /\ targetsOf(r)[j] = targetsOf(r)[i]
                             /\ route[r].receipts[j] = "completed" \/ <<r, j>> \in givenUp
    BY DEF ResultTruthful
  <2>1. Len(route[r].receipts) = Len(targetsOf(r))
    BY DEF EngineInv, Progress
  <2>2. /\ DOMAIN route[r].receipts = DOMAIN targetsOf(r)
        /\ \A i \in DOMAIN targetsOf(r) : targetsOf(r)[i] \in Targets
    <3>1. route[r].receipts \in Seq(ChildStatuses) /\ targetsOf(r) \in Seq(Targets)
      BY TargetsType DEF EngineInv, EngineTypes, RouteState
    <3> QED
      BY <2>1, <3>1
  <2>3. ASSUME route[r].complete, NEW i \in DOMAIN targetsOf(r)
        PROVE  ran[r][targetsOf(r)[i]] > 0
    <3>1. route[r].receipts[i] = "completed"
      BY <2>2, <2>3 DEF EngineInv, Progress
    <3>2. ReceiptOK(r, i, "completed", answers, givenUp)
      BY <2>2, <3>1 DEF EngineInv, ReceiptsInv
    <3> QED
      BY <3>2 DEF ReceiptOK, EngineInv, RanInv
  <2>4. ASSUME NEW i \in DOMAIN targetsOf(r), ran[r][targetsOf(r)[i]] > 0
        PROVE  \E j \in DOMAIN targetsOf(r) :
                 /\ targetsOf(r)[j] = targetsOf(r)[i]
                 /\ route[r].receipts[j] = "completed" \/ <<r, j>> \in givenUp
    <3>1. PICK a \in answers :
            /\ a[1].route = r /\ targetsOf(r)[a[1].index] = targetsOf(r)[i] /\ a[2] = "completed"
            /\ a[1].index \in DOMAIN targetsOf(r)
            /\ <<r, a[1].index>> \in givenUp \/ a[1].attempt = 1
      BY <1>1, <2>2, <2>4
    <3>2. PICK j \in DOMAIN targetsOf(r) : j = a[1].index
      BY <3>1
    <3>3. CASE <<r, j>> \notin givenUp
      <4>1. PICK b \in answers : /\ b[1].route = r /\ b[1].index = j
                                 /\ b[2] = route[r].receipts[j] /\ b[1].attempt = 1
        BY <2>2, <3>3 DEF EngineInv, ReceiptsInv, ReceiptOK
      <4>2. a[1] \in RouteChild /\ b[1] \in RouteChild
        BY DEF EngineInv, EngineTypes
      <4>3. a[1] = b[1]
        BY <3>1, <3>2, <3>3, <4>1, <4>2 DEF RouteChild
      <4> QED
        BY <3>1, <3>2, <4>1, <4>3 DEF EngineInv, OneAnswer
    <3> QED
      BY <3>1, <3>2, <3>3
  <2> QED
    BY <2>1, <2>3, <2>4
<1> QED
  BY <1>2, <1>3 DEF RoutesSound

\* A step that moves one call and sends and answers nothing.
LEMMA CallMoves ==
  ASSUME EngineInv, NEW r \in Routes, NEW x \in RouteState,
         route' = [route EXCEPT ![r] = x],
         UNCHANGED <<sent, answers, ran>>, deadLetters \subseteq deadLetters',
         givenUp \subseteq givenUp',
         Progress(r, x), x.receipts \in {route[r].receipts, <<>>},
         \A c \in RouteChild : c.route = r /\ Issued(c, route[r]) => Issued(c, x),
         \A i \in DOMAIN targetsOf(r) :
           Accounted(r, i, route[r], deadLetters) => Accounted(r, i, x, deadLetters')
  PROVE  EngineInv'
<1>1. /\ route'[r] = x
      /\ \A q \in Routes \ {r} : route'[q] = route[q]
  BY DEF EngineInv, EngineTypes
<1>2. EngineTypes'
  BY DEF EngineInv, EngineTypes
<1>3. \A q \in Routes : Progress(q, route'[q])
  BY <1>1 DEF EngineInv
<1>4. ASSUME NEW c \in RouteChild, ChildOK(c, route[c.route], deadLetters, givenUp)
      PROVE  ChildOK(c, route'[c.route], deadLetters', givenUp')
  <2>1. c.route \in Routes
    BY DEF RouteChild
  <2>2. CASE c.route = r
    BY <1>1, <1>4, <2>2 DEF ChildOK
  <2>3. CASE c.route # r
    BY <1>1, <1>4, <2>1, <2>3 DEF ChildOK, Accounted
  <2> QED
    BY <2>2, <2>3
<1>5. ChildrenInv'
  <2>1. \A a \in answers : a[1] \in RouteChild
    BY DEF EngineInv, EngineTypes
  <2> QED
    BY <1>4, <2>1 DEF EngineInv, EngineTypes, ChildrenInv
<1>6. ReceiptsInv'
  <2>1. \A q \in Routes : \A i, s : ReceiptOK(q, i, s, answers, givenUp)
                                   => ReceiptOK(q, i, s, answers, givenUp')
    BY DEF ReceiptOK
  <2>2. DOMAIN x.receipts = {} \/ x.receipts = route[r].receipts
    OBVIOUS
  <2> QED
    BY <1>1, <2>1, <2>2 DEF EngineInv, ReceiptsInv
<1> QED
  BY <1>2, <1>3, <1>5, <1>6 DEF EngineInv, OneAnswer, RanInv

\* Steps of a call that send nothing and get no receipt.
LEMMA QuietStepsInv ==
  ASSUME EngineInv, NEW r \in Routes,
         \/ BeginRoute(r) \/ ResolveRaises(r) \/ PersistDeadLetter(r)
         \/ ReconcileRaises(r) \/ RouteProcessEnds(r)
  PROVE  EngineInv'
<1>1. route[r] \in RouteState /\ Progress(r, route[r]) /\ targetsOf(r) \in Seq(Targets)
  BY TargetsType DEF EngineInv, EngineTypes
<1>2. UNCHANGED <<sent, answers, ran, givenUp>> /\ deadLetters \subseteq deadLetters'
  BY DEF BeginRoute, ResolveRaises, PersistDeadLetter, ReconcileRaises, RouteProcessEnds
<1>0. /\ <<>> \in Seq(ChildStatuses) /\ DOMAIN <<>> = {} /\ Len(<<>>) = 0
      /\ Len(targetsOf(r)) \in Nat
      /\ DOMAIN route[r].receipts = 1 .. Len(route[r].receipts)
      /\ Len(route[r].receipts) \in Nat
  BY <1>1 DEF RouteState
<1>3. CASE BeginRoute(r)
  <2>1. PICK x : x = [route[r] EXCEPT !.at = "resolving"]
    OBVIOUS
  <2>2. route' = [route EXCEPT ![r] = x] /\ route[r].at = "new" /\ Len(targetsOf(r)) >= 1
    BY <1>3, <2>1 DEF BeginRoute
  <2>3. x \in RouteState /\ x.receipts = route[r].receipts
    BY <1>1, <2>1 DEF RouteState
  <2>4. Progress(r, x)
    BY <1>1, <2>1, <2>2 DEF Progress, RouteState
  <2>5. \A c \in RouteChild : Issued(c, route[r]) => Issued(c, x)
    BY <1>1, <2>1, <2>2 DEF Issued, RouteState
  <2>6. \A i \in DOMAIN targetsOf(r) :
          Accounted(r, i, route[r], deadLetters) => Accounted(r, i, x, deadLetters')
    BY <1>1, <1>2, <1>0, <2>1, <2>2 DEF Accounted, RouteState, Progress
  <2> QED
    BY <1>2, <2>2, <2>3, <2>4, <2>5, <2>6, CallMoves
<1>4. CASE ResolveRaises(r)
  <2>1. PICK x : x = [route[r] EXCEPT !.at = "raised", !.receipts = <<>>]
    OBVIOUS
  <2>2. route' = [route EXCEPT ![r] = x] /\ route[r].at = "resolving"
    BY <1>4, <2>1 DEF ResolveRaises
  <2>3. x \in RouteState /\ x.receipts = <<>>
    BY <1>1, <2>1, <2>2, <1>0 DEF RouteState
  <2>6. Progress(r, x)
    BY <1>1, <1>0, <2>1, <2>2 DEF RouteState, Progress
  <2>4. \A c \in RouteChild : Issued(c, route[r]) => Issued(c, x)
    BY <1>1, <2>1, <2>2 DEF Issued, RouteState
  <2>5. \A i \in DOMAIN targetsOf(r) :
          Accounted(r, i, route[r], deadLetters) => Accounted(r, i, x, deadLetters')
    BY <1>1, <1>2, <1>0, <2>1, <2>2 DEF Accounted, RouteState, Progress
  <2> QED
    BY <1>2, <2>2, <2>3, <2>4, <2>5, <2>6, CallMoves
<1>5. CASE PersistDeadLetter(r)
  <2>1. PICK x : x = [route[r] EXCEPT !.at = "raised", !.receipts = <<>>]
    OBVIOUS
  <2>2. /\ route' = [route EXCEPT ![r] = x] /\ route[r].at = "exhausted"
        /\ <<r, targetsOf(r)[route[r].index]>> \in deadLetters'
    BY <1>5, <2>1 DEF PersistDeadLetter, targetOf
  <2>3. x \in RouteState /\ x.receipts = <<>>
    BY <1>1, <2>1, <2>2, <1>0 DEF RouteState
  <2>6. Progress(r, x)
    BY <1>1, <1>0, <2>1, <2>2 DEF RouteState, Progress
  <2>4. \A c \in RouteChild : Issued(c, route[r]) => Issued(c, x)
    BY <1>1, <2>1, <2>2 DEF Issued, RouteState
  <2>5. \A i \in DOMAIN targetsOf(r) :
          Accounted(r, i, route[r], deadLetters) => Accounted(r, i, x, deadLetters')
    BY <1>1, <1>2, <1>0, <2>1, <2>2 DEF Accounted, RouteState, Progress
  <2> QED
    BY <1>2, <2>2, <2>3, <2>4, <2>5, <2>6, CallMoves
<1>6. CASE RouteProcessEnds(r)
  <2>1. PICK x : x = [route[r] EXCEPT !.at = "gone", !.receipts = <<>>]
    OBVIOUS
  <2>2. route' = [route EXCEPT ![r] = x] /\ route[r].at \notin {"new", "returned"}
    BY <1>6, <2>1 DEF RouteProcessEnds
  <2>3. x \in RouteState /\ x.receipts = <<>>
    BY <1>1, <2>1, <2>2, <1>0 DEF RouteState
  <2>6. Progress(r, x)
    BY <1>1, <1>0, <2>1, <2>2 DEF RouteState, Progress
  <2>4. \A c \in RouteChild : Issued(c, route[r]) => Issued(c, x)
    BY <1>1, <2>1, <2>2 DEF Issued, RouteState
  <2>5. \A i \in DOMAIN targetsOf(r) :
          Accounted(r, i, route[r], deadLetters) => Accounted(r, i, x, deadLetters')
    BY <1>1, <1>2, <1>0, <2>1, <2>2 DEF Accounted, RouteState, Progress
  <2> QED
    BY <1>2, <2>2, <2>3, <2>4, <2>5, <2>6, CallMoves
<1>7. CASE ReconcileRaises(r)
  <2>1. PICK x : x = [route[r] EXCEPT !.at = "unreconciled", !.receipts = <<>>]
    OBVIOUS
  <2>2. route' = [route EXCEPT ![r] = x] /\ route[r].at = "reconciling"
    BY <1>7, <2>1 DEF ReconcileRaises
  <2>3. x \in RouteState /\ x.receipts = <<>>
    BY <1>1, <2>1, <2>2, <1>0 DEF RouteState
  <2>6. Progress(r, x)
    BY <1>1, <1>0, <2>1, <2>2 DEF RouteState, Progress
  <2>4. \A c \in RouteChild : Issued(c, route[r]) => Issued(c, x)
    BY <1>1, <2>1, <2>2 DEF Issued, RouteState
  <2>5. \A i \in DOMAIN targetsOf(r) :
          Accounted(r, i, route[r], deadLetters) => Accounted(r, i, x, deadLetters')
    BY <1>1, <1>2, <1>0, <2>1, <2>2 DEF Accounted, RouteState, Progress
  <2> QED
    BY <1>2, <2>2, <2>3, <2>4, <2>5, <2>6, CallMoves
<1> QED
  BY <1>3, <1>4, <1>5, <1>6, <1>7

\* reconcile counts what the receipts say.
LEMMA ReconcileInv ==
  ASSUME EngineInv, NEW r \in Routes, NEW status, Reconcile(r, status)
  PROVE  EngineInv'
<1>1. route[r] \in RouteState /\ Progress(r, route[r])
  BY DEF EngineInv, EngineTypes
<1>2. /\ UNCHANGED <<sent, answers, ran, givenUp, deadLetters>>
      /\ route[r].at = "reconciling"
  BY DEF Reconcile
<1>3. PICK complete \in BOOLEAN, partial \in BOOLEAN :
        /\ complete => \A i \in DOMAIN route[r].receipts : route[r].receipts[i] = "completed"
        /\ route' = [route EXCEPT ![r] = [route[r] EXCEPT
             !.at = "returned", !.complete = complete, !.partial = partial]]
  BY DEF Reconcile
<1>4. PICK x : x = [route[r] EXCEPT !.at = "returned", !.complete = complete,
                                    !.partial = partial]
  OBVIOUS
<1>5. x \in RouteState /\ x.receipts = route[r].receipts /\ Progress(r, x)
  BY <1>1, <1>2, <1>3, <1>4 DEF RouteState, Progress
<1>6. route' = [route EXCEPT ![r] = x]
  BY <1>3, <1>4
<1>7. \A c \in RouteChild : Issued(c, route[r]) => Issued(c, x)
  BY <1>1, <1>2, <1>4 DEF Issued, RouteState
<1>8. \A i \in DOMAIN targetsOf(r) :
        Accounted(r, i, route[r], deadLetters) => Accounted(r, i, x, deadLetters')
  BY <1>1, <1>2, <1>4 DEF Accounted, RouteState
<1> QED
  BY <1>2, <1>5, <1>6, <1>7, <1>8, CallMoves

\* A step that sends a new child of one call.
LEMMA ChildSent ==
  ASSUME EngineInv, NEW r \in Routes, NEW x \in RouteState, NEW c \in RouteChild,
         route' = [route EXCEPT ![r] = x], sent' = sent \cup {c},
         UNCHANGED <<answers, ran, deadLetters>>, givenUp \subseteq givenUp',
         c.route = r, ~Issued(c, route[r]), ChildOK(c, x, deadLetters, givenUp'),
         Progress(r, x), x.receipts = route[r].receipts,
         \A b \in RouteChild : b.route = r /\ Issued(b, route[r]) => Issued(b, x),
         \A i \in DOMAIN targetsOf(r) :
           Accounted(r, i, route[r], deadLetters) => Accounted(r, i, x, deadLetters)
  PROVE  EngineInv'
<1>1. /\ route'[r] = x
      /\ \A q \in Routes \ {r} : route'[q] = route[q]
  BY DEF EngineInv, EngineTypes
<1>2. EngineTypes'
  BY DEF EngineInv, EngineTypes
<1>3. \A q \in Routes : Progress(q, route'[q])
  BY <1>1 DEF EngineInv
<1>4. ASSUME NEW b \in RouteChild, ChildOK(b, route[b.route], deadLetters, givenUp)
      PROVE  ChildOK(b, route'[b.route], deadLetters, givenUp')
  <2>1. b.route \in Routes
    BY DEF RouteChild
  <2>2. CASE b.route = r
    BY <1>1, <1>4, <2>2 DEF ChildOK
  <2>3. CASE b.route # r
    BY <1>1, <1>4, <2>1, <2>3 DEF ChildOK
  <2> QED
    BY <2>2, <2>3
<1>5. \A a \in answers : a[1] \in RouteChild
  BY DEF EngineInv, EngineTypes
<1>6. ChildrenInv'
  BY <1>1, <1>4, <1>5 DEF EngineInv, EngineTypes, ChildrenInv
<1>7. OneAnswer'
  <2>1. \A a \in answers : a[1] # c
    BY DEF EngineInv, ChildrenInv, ChildOK
  <2> QED
    BY <2>1 DEF EngineInv, OneAnswer
<1>8. ReceiptsInv'
  <2>1. \A q \in Routes : \A i, s : ReceiptOK(q, i, s, answers, givenUp)
                                   => ReceiptOK(q, i, s, answers, givenUp')
    BY DEF ReceiptOK
  <2> QED
    BY <1>1, <2>1 DEF EngineInv, ReceiptsInv
<1> QED
  BY <1>2, <1>3, <1>6, <1>7, <1>8 DEF EngineInv, RanInv

\* The first child of a target.
LEMMA ResolveTargetInv ==
  ASSUME EngineInv, NEW r \in Routes, ResolveTarget(r)
  PROVE  EngineInv'
<1>1. route[r] \in RouteState /\ Progress(r, route[r]) /\ targetsOf(r) \in Seq(Targets)
  BY TargetsType DEF EngineInv, EngineTypes
<1>2. PICK x : x = [route[r] EXCEPT !.at = "dispatching", !.attempt = 1]
  OBVIOUS
<1>3. PICK c : c = [route |-> r, index |-> route[r].index, attempt |-> 1]
  OBVIOUS
<1>4. /\ route' = [route EXCEPT ![r] = x] /\ sent' = sent \cup {c}
      /\ UNCHANGED <<answers, ran, deadLetters, givenUp>>
      /\ route[r].at = "resolving"
  BY <1>2, <1>3 DEF ResolveTarget, Child
<1>5. x \in RouteState /\ c \in RouteChild /\ Progress(r, x)
      /\ x.receipts = route[r].receipts /\ c.route = r
  BY <1>1, <1>2, <1>3, <1>4 DEF RouteState, RouteChild, Progress
<1>6. ~Issued(c, route[r]) /\ ChildOK(c, x, deadLetters, givenUp')
  BY <1>1, <1>2, <1>3, <1>4 DEF Issued, ChildOK, Accounted, Progress, RouteState
<1>7. \A b \in RouteChild : b.route = r /\ Issued(b, route[r]) => Issued(b, x)
  BY <1>1, <1>2, <1>4 DEF Issued, RouteState
<1>8. \A i : Accounted(r, i, route[r], deadLetters) => Accounted(r, i, x, deadLetters)
  BY <1>1, <1>2, <1>4 DEF Accounted, RouteState
<1> QED
  BY <1>4, <1>5, <1>6, <1>7, <1>8, ChildSent

\* One more attempt, or none left.
LEMMA DispatcherRaisesInv ==
  ASSUME EngineInv, NEW r \in Routes, DispatcherRaises(r)
  PROVE  EngineInv'
<1>1. route[r] \in RouteState /\ Progress(r, route[r]) /\ targetsOf(r) \in Seq(Targets)
  BY TargetsType DEF EngineInv, EngineTypes
<1>2. /\ UNCHANGED <<answers, ran, deadLetters>> /\ route[r].at = "dispatching"
      /\ givenUp' = givenUp \cup {<<r, route[r].index>>}
  BY DEF DispatcherRaises
<1>3. CASE route[r].attempt + 1 <= routeAttempts
  <2>1. PICK x : x = [route[r] EXCEPT !.attempt = route[r].attempt + 1]
    OBVIOUS
  <2>2. PICK c : c = [route |-> r, index |-> route[r].index, attempt |-> route[r].attempt + 1]
    OBVIOUS
  <2>3. route' = [route EXCEPT ![r] = x] /\ sent' = sent \cup {c}
    BY <1>3, <2>1, <2>2 DEF DispatcherRaises, Child
  <2>4. x \in RouteState /\ c \in RouteChild /\ Progress(r, x)
        /\ x.receipts = route[r].receipts /\ c.route = r
    BY <1>1, <1>2, <2>1, <2>2 DEF RouteState, RouteChild, Progress
  <2>5. ~Issued(c, route[r]) /\ ChildOK(c, x, deadLetters, givenUp')
    BY <1>1, <1>2, <2>1, <2>2 DEF Issued, ChildOK, Accounted, Progress, RouteState
  <2>6. \A b \in RouteChild : b.route = r /\ Issued(b, route[r]) => Issued(b, x)
    BY <1>1, <1>2, <2>1 DEF Issued, RouteState, RouteChild
  <2>7. \A i : Accounted(r, i, route[r], deadLetters) => Accounted(r, i, x, deadLetters)
    BY <1>1, <1>2, <2>1 DEF Accounted, RouteState
  <2> QED
    BY <1>2, <2>3, <2>4, <2>5, <2>6, <2>7, ChildSent
<1>4. CASE ~(route[r].attempt + 1 <= routeAttempts)
  <2>1. PICK x : x = [route[r] EXCEPT !.at = "exhausted"]
    OBVIOUS
  <2>2. route' = [route EXCEPT ![r] = x] /\ sent' = sent
    BY <1>4, <2>1 DEF DispatcherRaises
  <2>3. x \in RouteState /\ Progress(r, x) /\ x.receipts = route[r].receipts
    BY <1>1, <1>2, <2>1 DEF RouteState, Progress
  <2>4. \A c \in RouteChild : Issued(c, route[r]) => Issued(c, x)
    BY <1>1, <1>2, <2>1 DEF Issued, RouteState
  <2>5. \A i : Accounted(r, i, route[r], deadLetters) => Accounted(r, i, x, deadLetters)
    BY <1>1, <1>2, <2>1 DEF Accounted, RouteState
  <2> QED
    BY <1>2, <2>2, <2>3, <2>4, <2>5, CallMoves
<1> QED
  BY <1>3, <1>4

\* One more receipt.
LEMMA DispatcherReturnsInv ==
  ASSUME EngineInv, NEW r \in Routes, NEW s \in ChildStatuses, DispatcherReturns(r, s)
  PROVE  EngineInv'
<1>1. route[r] \in RouteState /\ Progress(r, route[r]) /\ targetsOf(r) \in Seq(Targets)
  BY TargetsType DEF EngineInv, EngineTypes
<1>2. PICK k \in Nat : k = route[r].index
  BY <1>1 DEF RouteState
<1>3. /\ UNCHANGED <<sent, answers, ran, deadLetters, givenUp>> /\ route[r].at = "dispatching"
      /\ <<[route |-> r, index |-> k, attempt |-> route[r].attempt], s>> \in answers
  BY <1>2 DEF DispatcherReturns, Child
<1>4. k \in DOMAIN targetsOf(r) /\ Len(route[r].receipts) = k - 1 /\ ~route[r].complete
  BY <1>1, <1>2, <1>3 DEF Progress
<1>5. PICK x : \E at \in {"reconciling", "resolving"}, next \in Nat :
        /\ at = IF k = Len(targetsOf(r)) THEN "reconciling" ELSE "resolving"
        /\ next = IF k = Len(targetsOf(r)) THEN k ELSE k + 1
        /\ x = [route[r] EXCEPT !.at = at, !.index = next,
                                !.receipts = Append(route[r].receipts, s)]
  <2>1. CASE k = Len(targetsOf(r))
    BY <2>1
  <2>2. CASE k # Len(targetsOf(r))
    <3>1. k + 1 \in Nat
      OBVIOUS
    <3> QED
      BY <2>2, <3>1, Zenon
  <2> QED
    BY <2>1, <2>2
<1>6. route' = [route EXCEPT ![r] = x]
  BY <1>1, <1>2, <1>5 DEF DispatcherReturns, RouteState
<1>7. x \in RouteState
  <2>1. Append(route[r].receipts, s) \in Seq(ChildStatuses)
    BY <1>1 DEF RouteState
  <2> QED
    BY <1>1, <1>5, <2>1 DEF RouteState
<1>8. /\ route[r].receipts \in Seq(ChildStatuses) /\ x.receipts = Append(route[r].receipts, s)
      /\ DOMAIN x.receipts = DOMAIN route[r].receipts \cup {k} /\ x.receipts[k] = s
      /\ \A i \in DOMAIN route[r].receipts : x.receipts[i] = route[r].receipts[i]
  <2>1. route[r].receipts \in Seq(ChildStatuses) /\ x.receipts = Append(route[r].receipts, s)
    BY <1>1, <1>5 DEF RouteState
  <2>2. /\ DOMAIN route[r].receipts = 1 .. (k - 1) /\ DOMAIN x.receipts = 1 .. k
        /\ k \in Nat \ {0}
    BY <1>1, <1>4, <2>1
  <2>3. 1 .. k = (1 .. (k - 1)) \cup {k}
    BY <2>2
  <2> QED
    BY <1>4, <2>1, <2>2, <2>3
<1>9. Progress(r, x)
  <2>1. Len(x.receipts) = k /\ k <= Len(targetsOf(r)) /\ Len(targetsOf(r)) \in Nat
    BY <1>1, <1>4, <1>8
  <2>2. k # Len(targetsOf(r)) => k + 1 \in DOMAIN targetsOf(r)
    BY <1>1, <1>4, <2>1
  <2> QED
    BY <1>1, <1>4, <1>5, <2>1, <2>2 DEF Progress, RouteState
<1>10. /\ route'[r] = x
       /\ \A q \in Routes \ {r} : route'[q] = route[q]
  BY <1>6 DEF EngineInv, EngineTypes
<1>11. ASSUME NEW c \in RouteChild, ChildOK(c, route[c.route], deadLetters, givenUp)
       PROVE  ChildOK(c, route'[c.route], deadLetters, givenUp)
  <2>1. c.route \in Routes
    BY DEF RouteChild
  <2>2. CASE c.route = r
    <3>1. Issued(c, x)
      BY <1>1, <1>2, <1>3, <1>4, <1>5, <1>11, <2>2 DEF ChildOK, Issued, RouteState, RouteChild
    <3>2. Accounted(r, c.index, x, deadLetters)
      BY <1>2, <1>3, <1>8, <1>11, <2>2 DEF ChildOK, Accounted
    <3> QED
      BY <1>10, <1>11, <2>2, <3>1, <3>2 DEF ChildOK
  <2>3. CASE c.route # r
    BY <1>10, <1>11, <2>1, <2>3
  <2> QED
    BY <2>2, <2>3
<1>12. ChildrenInv'
  <2>1. \A a \in answers : a[1] \in RouteChild
    BY DEF EngineInv, EngineTypes
  <2> QED
    BY <1>3, <1>11, <2>1 DEF EngineInv, EngineTypes, ChildrenInv
<1>13. ReceiptsInv'
  <2>1. ReceiptOK(r, k, s, answers, givenUp)
    <3>1. PICK a \in answers : a = <<[route |-> r, index |-> k, attempt |-> route[r].attempt], s>>
      BY <1>3
    <3>2. ChildOK(a[1], route[a[1].route], deadLetters, givenUp)
      BY DEF EngineInv, ChildrenInv
    <3> QED
      BY <3>1, <3>2 DEF ReceiptOK, ChildOK
  <2> QED
    BY <1>3, <1>8, <1>10, <2>1 DEF EngineInv, ReceiptsInv
<1>14. EngineTypes'
  BY <1>3, <1>6, <1>7 DEF EngineInv, EngineTypes
<1>15. \A q \in Routes : Progress(q, route'[q])
  BY <1>9, <1>10 DEF EngineInv
<1> QED
  BY <1>3, <1>12, <1>13, <1>14, <1>15 DEF EngineInv, OneAnswer, RanInv

\* One more answer.
LEMMA ExecuteChildInv ==
  ASSUME EngineInv, NEW c \in sent, NEW s \in ChildStatuses, ExecuteChild(c, s)
  PROVE  EngineInv'
<1>1. c \in RouteChild /\ c.route \in Routes
  BY DEF EngineInv, EngineTypes, RouteChild
<1>2. PICK p \in Targets : p = targetsOf(c.route)[c.index]
  <2>1. c.index \in DOMAIN targetsOf(c.route) /\ targetsOf(c.route) \in Seq(Targets)
    BY <1>1, TargetsType DEF EngineInv, ChildrenInv, ChildOK
  <2> QED
    BY <2>1
<1>3. /\ sent' = sent \ {c} /\ answers' = answers \cup {<<c, s>>}
      /\ UNCHANGED <<route, deadLetters, givenUp>>
      /\ ran' = IF s = "completed" THEN [ran EXCEPT ![c.route][p] = @ + 1] ELSE ran
  BY <1>2 DEF ExecuteChild
<1>4. EngineTypes'
  BY <1>1, <1>3 DEF EngineInv, EngineTypes
<1>5. ChildrenInv'
  BY <1>3 DEF EngineInv, ChildrenInv
<1>6. OneAnswer'
  <2>1. \A a \in answers : a[1] # c
    BY DEF EngineInv, OneAnswer
  <2> QED
    BY <1>3, <2>1 DEF EngineInv, OneAnswer
<1>7. RanInv'
  <2>1. \A r \in Routes, q \in Targets :
          /\ ran[r][q] > 0 => ran'[r][q] > 0
          /\ ran'[r][q] > 0 => \/ ran[r][q] > 0
                               \/ r = c.route /\ q = p /\ s = "completed"
    <3>1. CASE s = "completed"
      <4>1. ran' = [ran EXCEPT ![c.route] = [ran[c.route] EXCEPT ![p] = ran[c.route][p] + 1]]
        BY <1>3, <3>1
      <4>2. \A r \in Routes, q \in Targets :
              /\ ran[r][q] \in Nat
              /\ ran'[r][q] = IF r = c.route /\ q = p THEN ran[r][q] + 1 ELSE ran[r][q]
        BY <1>1, <4>1 DEF EngineInv, EngineTypes
      <4> QED
        BY <3>1, <4>2
    <3>2. CASE s # "completed"
      <4>1. ran' = ran
        BY <1>3, <3>2
      <4> QED
        BY <4>1
    <3> QED
      BY <3>1, <3>2
  <2>2. s = "completed" => ran'[c.route][p] > 0
    BY <1>1, <1>3 DEF EngineInv, EngineTypes
  <2>3. <<c, s>> \in answers' /\ answers \subseteq answers'
    BY <1>3
  <2>4. ASSUME NEW r \in Routes, NEW q \in Targets, ran'[r][q] > 0
        PROVE  \E a \in answers' : /\ a[1].route = r /\ targetsOf(r)[a[1].index] = q
                                    /\ a[2] = "completed"
    BY <1>2, <2>1, <2>3, <2>4 DEF EngineInv, RanInv
  <2>5. ASSUME NEW a \in answers', a[2] = "completed"
        PROVE  ran'[a[1].route][targetsOf(a[1].route)[a[1].index]] > 0
    <3>1. CASE a = <<c, s>>
      BY <1>2, <2>2, <2>5, <3>1
    <3>2. CASE a \in answers
      <4>1. /\ a[1].route \in Routes
            /\ targetsOf(a[1].route)[a[1].index] \in Targets
        <5>1. a[1].route \in Routes /\ a[1].index \in DOMAIN targetsOf(a[1].route)
          BY <3>2 DEF EngineInv, EngineTypes, RouteChild, ChildrenInv, ChildOK
        <5>2. targetsOf(a[1].route) \in Seq(Targets)
          BY <5>1, TargetsType
        <5> QED
          BY <5>1, <5>2
      <4> QED
        BY <2>1, <2>5, <3>2, <4>1 DEF EngineInv, RanInv
    <3> QED
      BY <1>3, <3>1, <3>2
  <2> QED
    BY <2>4, <2>5 DEF RanInv
<1>8. ReceiptsInv'
  <2>1. \A r \in Routes : \A i, t : ReceiptOK(r, i, t, answers, givenUp)
                                   => ReceiptOK(r, i, t, answers', givenUp)
    BY <1>3 DEF ReceiptOK
  <2> QED
    BY <1>3, <2>1 DEF EngineInv, ReceiptsInv
<1> QED
  BY <1>3, <1>4, <1>5, <1>6, <1>7, <1>8 DEF EngineInv

\* RouteExecutionEngine.execute, whose dispatcher may raise for an attempt
\* that ran or runs later: a complete route ran at every target, a target that
\* ran without a completed receipt was tried again, and of what ran, unless the
\* process ended, only the targets served before the one at which the call
\* raised can be missing from both its result and the dead letters.
THEOREM RoutesAlwaysSound == RoutesSpec => []RoutesSound
<1>1. RoutesInit => EngineInv
  <2> SUFFICES ASSUME RoutesInit PROVE EngineInv
    OBVIOUS
  <2>1. EngineTypes
    BY DEF RoutesInit, EngineTypes, RouteState
  <2>2. \A r \in Routes : Progress(r, route[r])
    BY TargetsType DEF RoutesInit, Progress
  <2> QED
    BY <2>1, <2>2 DEF RoutesInit, EngineInv, ChildrenInv, OneAnswer, RanInv, ReceiptsInv
<1>2. EngineInv /\ [RoutesNext]_routeVars => EngineInv'
  <2> SUFFICES ASSUME EngineInv, [RoutesNext]_routeVars PROVE EngineInv'
    OBVIOUS
  <2>1. CASE EngineStep
    BY <2>1, QuietStepsInv, ReconcileInv, ResolveTargetInv, DispatcherRaisesInv,
       DispatcherReturnsInv, ExecuteChildInv DEF EngineStep, ChildStatuses
  <2>2. CASE DirectoryStep \/ UNCHANGED routeVars
    <3>1. UNCHANGED engineVars
      BY <2>2 DEF DirectoryStep, RegisterPort, CheckAuthority, DeletePort, routeVars, engineVars
    <3> QED
      BY <3>1 DEF engineVars, EngineInv, EngineTypes, ChildrenInv, OneAnswer, RanInv,
                        ReceiptsInv
  <2> QED
    BY <2>1, <2>2 DEF RoutesNext
<1> QED
  BY <1>1, <1>2, EngineSound, PTL DEF RoutesSpec

-----------------------------------------------------------------------------
(* Port Zero.                                                              *)

\* What the directories, the operator's tool and dispatch keep is typed
\* correctly while all parts of Port Zero run.
THEOREM TypesAlwaysOK == PortZeroSpec => []TypesOK
<1>1. TypeOK /\ NamespaceTypeOK /\ DispatchTypeOK => TypesOK
  BY DEF TypesOK
<1> QED
  BY <1>1, NamespaceTypeCorrect, DispatchTypeCorrect, PTL DEF PortZeroSpec

\* Renaming a temporary file over the manifest and creating site files
\* exclusively: what was stored whole is never damaged, whatever fails or
\* runs at the same time.
THEOREM StoredFilesAlwaysStay == PortZeroSpec => StoredFilesStay
<1>1. /\ NamespaceInv /\ [NamespaceNext]_<<vars, namespaceVars>>
      /\ SitesInv /\ [SitesNext]_siteVars
      => [ManifestStaysWhole /\ SitesImmutable]_<<namespaceVars, siteVars>>
  BY ManifestKept, SitesKept
<1> QED
  BY <1>1, NamespaceInvariant, SitesInvariant, PTL
  DEF PortZeroSpec, NamespaceSpec, SitesSpec, StoredFilesStay
=============================================================================
