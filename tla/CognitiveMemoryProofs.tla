------------------------- MODULE CognitiveMemoryProofs -------------------------
(* Proofs about CognitiveMemory, for all sets of evidence, saves and pids.     *)
EXTENDS CognitiveMemory, FiniteSetTheorems, TLAPS

(* Adding one element to a set, or not, and counting.                          *)
LEMMA CountOne ==
  ASSUME NEW S, IsFiniteSet(S), NEW e, e \notin S, NEW b \in BOOLEAN,
         NEW T, T = IF b THEN S \cup {e} ELSE S
  PROVE  IsFiniteSet(T) /\ Cardinality(T) = Cardinality(S) + One(b)
                        /\ Cardinality(S) \in Nat /\ Cardinality(T) \in Nat
  BY FS_AddElement, FS_CardinalityType, SMTT(20) DEF One

(* The reinforcement of an event is one of five numbers of quarters.           *)
LEMMA ReinforcementValues ==
  ASSUME NEW e \in Events
  PROVE  reinforcement(e) \in {6, 5, 4, 1, -4}
  BY DEF reinforcement

LEMMA SummaryEmpty == Summary({}) = NewRelationship
<1>1. Cardinality({}) = 0
  BY FS_EmptySet
<1>2. /\ {e \in {} : e.success} = {} /\ {e \in {} : e.failure} = {}
      /\ {e \in {} : e.recovery} = {} /\ {e \in {} : e.verification_contribution} = {}
  OBVIOUS
<1>3. ASSUME NEW w PROVE Reinforcing({}, w) = 0
  <2>1. {e \in {} : reinforcement(e) = w} = {}
    OBVIOUS
  <2> QED
    BY <1>1, <2>1 DEF Reinforcing
<1>4. TotalReinforcement({}) = 0
  BY <1>3 DEF TotalReinforcement
<1> QED
  BY <1>1, <1>2, <1>4 DEF Summary, NewRelationship

(* The relationship after an event is the summary of the evidence with it.     *)
LEMMA SummaryAdd ==
  ASSUME NEW E \in SUBSET Events, NEW e \in Events, e \notin E
  PROVE  updated(e, Summary(E)) = Summary(E \cup {e})
<1> DEFINE F == E \cup {e}
           Count(S, w) == Cardinality({x \in S : reinforcement(x) = w})
<1>f. IsFiniteSet(E)
  BY MemoryAssumption, FS_Subset
<1>e. e \in Event
  BY MemoryAssumption
<1>1. Cardinality(F) = Cardinality(E) + 1
  BY <1>f, FS_AddElement
<1>2. Cardinality({x \in F : x.success}) = Cardinality({x \in E : x.success}) + One(e.success)
  <2> DEFINE S == {x \in E : x.success}
             T == {x \in F : x.success}
  <2>1. IsFiniteSet(S) /\ e \notin S /\ e.success \in BOOLEAN
    BY <1>f, <1>e, FS_Subset DEF Event
  <2>2. T = IF e.success THEN S \cup {e} ELSE S
    OBVIOUS
  <2>3. Cardinality(T) = Cardinality(S) + One(e.success)
    <3> HIDE DEF S, T
    <3> QED
      BY <2>1, <2>2, CountOne, Zenon
  <2> QED
    BY <2>3
<1>3. Cardinality({x \in F : x.failure}) = Cardinality({x \in E : x.failure}) + One(e.failure)
  <2> DEFINE S == {x \in E : x.failure}
             T == {x \in F : x.failure}
  <2>1. IsFiniteSet(S) /\ e \notin S /\ e.failure \in BOOLEAN
    BY <1>f, <1>e, FS_Subset DEF Event
  <2>2. T = IF e.failure THEN S \cup {e} ELSE S
    OBVIOUS
  <2>3. Cardinality(T) = Cardinality(S) + One(e.failure)
    <3> HIDE DEF S, T
    <3> QED
      BY <2>1, <2>2, CountOne, Zenon
  <2> QED
    BY <2>3
<1>4. Cardinality({x \in F : x.recovery}) = Cardinality({x \in E : x.recovery}) + One(e.recovery)
  <2> DEFINE S == {x \in E : x.recovery}
             T == {x \in F : x.recovery}
  <2>1. IsFiniteSet(S) /\ e \notin S /\ e.recovery \in BOOLEAN
    BY <1>f, <1>e, FS_Subset DEF Event
  <2>2. T = IF e.recovery THEN S \cup {e} ELSE S
    OBVIOUS
  <2>3. Cardinality(T) = Cardinality(S) + One(e.recovery)
    <3> HIDE DEF S, T
    <3> QED
      BY <2>1, <2>2, CountOne, Zenon
  <2> QED
    BY <2>3
<1>5. Cardinality({x \in F : x.verification_contribution}) =
        Cardinality({x \in E : x.verification_contribution}) + One(e.verification_contribution)
  <2> DEFINE S == {x \in E : x.verification_contribution}
             T == {x \in F : x.verification_contribution}
  <2>1. IsFiniteSet(S) /\ e \notin S /\ e.verification_contribution \in BOOLEAN
    BY <1>f, <1>e, FS_Subset DEF Event
  <2>2. T = IF e.verification_contribution THEN S \cup {e} ELSE S
    OBVIOUS
  <2>3. Cardinality(T) = Cardinality(S) + One(e.verification_contribution)
    <3> HIDE DEF S, T
    <3> QED
      BY <2>1, <2>2, CountOne, Zenon
  <2> QED
    BY <2>3
<1>6. ASSUME NEW w \in Int
      PROVE  /\ Reinforcing(F, w) = Reinforcing(E, w) + One(reinforcement(e) = w)
             /\ Reinforcing(E, w) \in Nat
  <2> DEFINE S == {x \in E : reinforcement(x) = w}
             T == {x \in F : reinforcement(x) = w}
  <2>1. IsFiniteSet(S) /\ e \notin S /\ (reinforcement(e) = w) \in BOOLEAN
    BY <1>f, FS_Subset
  <2>2. T = IF reinforcement(e) = w THEN S \cup {e} ELSE S
    OBVIOUS
  <2>s. Reinforcing(F, w) = Cardinality(T) /\ Reinforcing(E, w) = Cardinality(S)
    BY DEF Reinforcing
  <2> HIDE DEF S, T
  <2>3. Cardinality(T) = Cardinality(S) + One(reinforcement(e) = w) /\ Cardinality(S) \in Nat
    BY <2>1, <2>2, CountOne
  <2> QED
    BY <2>3, <2>s
<1>7. TotalReinforcement(E) + reinforcement(e) = TotalReinforcement(F)
  <2>1. reinforcement(e) \in {6, 5, 4, 1, -4}
    BY ReinforcementValues
  <2>2. /\ Reinforcing(F, 6) = Reinforcing(E, 6) + One(reinforcement(e) = 6)
        /\ Reinforcing(F, 5) = Reinforcing(E, 5) + One(reinforcement(e) = 5)
        /\ Reinforcing(F, 4) = Reinforcing(E, 4) + One(reinforcement(e) = 4)
        /\ Reinforcing(F, 1) = Reinforcing(E, 1) + One(reinforcement(e) = 1)
        /\ Reinforcing(F, -4) = Reinforcing(E, -4) + One(reinforcement(e) = -4)
    BY <1>6
  <2>3. \A w \in {6, 5, 4, 1, -4} : Reinforcing(E, w) \in Nat
    BY <1>6
  <2> HIDE DEF F
  <2> QED
    BY <2>1, <2>2, <2>3 DEF One, TotalReinforcement
<1>8. updated(e, Summary(E)) =
        [observations |-> Cardinality(E) + 1,
         verified_successes |-> Cardinality({x \in E : x.success}) + One(e.success),
         verified_failures |-> Cardinality({x \in E : x.failure}) + One(e.failure),
         recoveries |-> Cardinality({x \in E : x.recovery}) + One(e.recovery),
         verification_contributions |->
           Cardinality({x \in E : x.verification_contribution})
             + One(e.verification_contribution),
         reinforcement |-> TotalReinforcement(E) + reinforcement(e),
         evidence_state_roots |-> F]
  BY DEF updated, Summary
<1> QED
  BY <1>1, <1>2, <1>3, <1>4, <1>5, <1>7, <1>8, Zenon DEF Summary
-------------------------------------------------------------------------------
(* Learning.  A sound Synaptizer has learned every piece of evidence once and  *)
(* accounts for what it received; consume keeps it sound.                      *)

Sound(s) == s \in Synaptizer /\ LearnedOnce(s) /\ Counted(s)

LEMMA Assembled ==
  ASSUME NEW rel \in [Relations -> Relationship \cup {NULL}], NEW seen \in SUBSET Ids,
         NEW a \in Nat, NEW b \in Nat, NEW c \in Nat, NEW d \in Nat
  PROVE  [relationships |-> rel, seenEvents |-> seen, receivedEvents |-> a,
          learnedEvents |-> b, ignoredUnverifiedEvents |-> c,
          duplicateEvents |-> d] \in Synaptizer
  BY DEF Synaptizer

(* The ids seen are finitely many; a new one makes them one more.              *)
LEMMA SeenGrows ==
  ASSUME NEW seen \in SUBSET Ids, NEW i \in Ids, i \notin seen
  PROVE  /\ Cardinality(seen) \in Nat
         /\ Cardinality(seen \cup {i}) = Cardinality(seen) + 1
<1>1. IsFiniteSet(seen)
  BY MemoryAssumption, FS_Subset
<1> QED
  BY <1>1, FS_CardinalityType, FS_AddElement

LEMMA SoundNew == Sound(NewSynaptizer)
<1>1. NewSynaptizer \in Synaptizer
  BY DEF NewSynaptizer, Synaptizer
<1>2. \A r \in Relations : NewSynaptizer.relationships[r] = NULL
                           /\ EvidenceOf(NewSynaptizer, r) = {}
  BY DEF NewSynaptizer, EvidenceOf
<1>3. LearnedOnce(NewSynaptizer)
  BY <1>2 DEF LearnedOnce
<1>4. Counted(NewSynaptizer)
  BY FS_EmptySet DEF NewSynaptizer, Counted
<1> QED
  BY <1>1, <1>3, <1>4 DEF Sound

LEMMA DuplicateSound ==
  ASSUME Sound(synaptizer), NEW e \in Events, ConsumeDuplicate(e)
  PROVE  Sound(synaptizer')
<1>1. synaptizer' \in Synaptizer
  <2> DEFINE s == synaptizer
  <2>1. synaptizer' =
          [relationships |-> s.relationships, seenEvents |-> s.seenEvents,
           receivedEvents |-> s.receivedEvents + 1, learnedEvents |-> s.learnedEvents,
           ignoredUnverifiedEvents |-> s.ignoredUnverifiedEvents,
           duplicateEvents |-> s.duplicateEvents + 1]
    BY DEF Sound, ConsumeDuplicate, Synaptizer
  <2> QED
    BY <2>1, Assembled DEF Sound, Synaptizer
<1>2. /\ synaptizer'.relationships = synaptizer.relationships
      /\ synaptizer'.seenEvents = synaptizer.seenEvents
      /\ synaptizer'.receivedEvents = synaptizer.receivedEvents + 1
      /\ synaptizer'.duplicateEvents = synaptizer.duplicateEvents + 1
      /\ synaptizer'.learnedEvents = synaptizer.learnedEvents
      /\ synaptizer'.ignoredUnverifiedEvents = synaptizer.ignoredUnverifiedEvents
  BY DEF Sound, ConsumeDuplicate, Synaptizer
<1>3. LearnedOnce(synaptizer')
  BY <1>2 DEF Sound, LearnedOnce, EvidenceOf
<1>4. IsFiniteSet(synaptizer.seenEvents) /\ Cardinality(synaptizer.seenEvents) \in Nat
  BY MemoryAssumption, FS_Subset, FS_CardinalityType DEF Sound, Synaptizer
<1>5. Counted(synaptizer')
  BY <1>2, <1>4 DEF Sound, Counted, Synaptizer
<1> QED
  BY <1>1, <1>3, <1>5 DEF Sound

(* An id that is seen for the first time without anything being learned.       *)
LEMMA NotLearnedSound ==
  ASSUME Sound(synaptizer), NEW e \in Events,
         ConsumeUnverified(e) \/ ConsumeMalformed(e)
  PROVE  Sound(synaptizer')
<1>1. e.id \in Ids /\ e.id \notin synaptizer.seenEvents
  BY MemoryAssumption DEF ConsumeUnverified, ConsumeMalformed, Event
<1>2. /\ synaptizer'.relationships = synaptizer.relationships
      /\ synaptizer'.seenEvents = synaptizer.seenEvents \cup {e.id}
      /\ synaptizer'.receivedEvents = synaptizer.receivedEvents + 1
      /\ synaptizer'.duplicateEvents = synaptizer.duplicateEvents
      /\ synaptizer'.learnedEvents = synaptizer.learnedEvents
      /\ synaptizer'.ignoredUnverifiedEvents
           \in {synaptizer.ignoredUnverifiedEvents, synaptizer.ignoredUnverifiedEvents + 1}
  BY DEF Sound, ConsumeUnverified, ConsumeMalformed, Synaptizer
<1>3. synaptizer' \in Synaptizer
  <2> DEFINE s == synaptizer
  <2>1. synaptizer' =
          [relationships |-> s.relationships, seenEvents |-> s.seenEvents \cup {e.id},
           receivedEvents |-> s.receivedEvents + 1, learnedEvents |-> s.learnedEvents,
           ignoredUnverifiedEvents |-> synaptizer'.ignoredUnverifiedEvents,
           duplicateEvents |-> s.duplicateEvents]
    BY DEF Sound, ConsumeUnverified, ConsumeMalformed, Synaptizer
  <2> QED
    BY <1>1, <1>2, <2>1, Assembled DEF Sound, Synaptizer
<1>4. LearnedOnce(synaptizer')
  BY <1>2 DEF Sound, LearnedOnce, EvidenceOf
<1>5. Cardinality(synaptizer.seenEvents) \in Nat
      /\ Cardinality(synaptizer'.seenEvents) = Cardinality(synaptizer.seenEvents) + 1
  BY <1>1, <1>2, SeenGrows DEF Sound, Synaptizer
<1>6. Counted(synaptizer')
  BY <1>2, <1>5 DEF Sound, Counted, Synaptizer
<1> QED
  BY <1>3, <1>4, <1>6 DEF Sound

LEMMA VerifiedSound ==
  ASSUME Sound(synaptizer), NEW e \in Events, ConsumeVerified(e)
  PROVE  Sound(synaptizer')
<1> DEFINE r == e.relation
           E == EvidenceOf(synaptizer, r)
           new == updated(e, existing(e))
<1>1. /\ e.id \in Ids /\ e.id \notin synaptizer.seenEvents
      /\ r \in Relations /\ e.verified
      /\ e.success \in BOOLEAN /\ e.failure \in BOOLEAN /\ e.recovery \in BOOLEAN
      /\ e.verification_contribution \in BOOLEAN
  BY MemoryAssumption DEF ConsumeVerified, Event
<1>2. synaptizer \in Synaptizer /\ LearnedOnce(synaptizer) /\ Counted(synaptizer)
  BY DEF Sound
<1>3. existing(e) \in Relationship
  BY <1>1, <1>2 DEF existing, NewRelationship, Relationship, Synaptizer
<1>4. new \in Relationship
  BY <1>1, <1>3 DEF updated, Relationship, One, reinforcement
<1>5. /\ synaptizer'.relationships = [synaptizer.relationships EXCEPT ![r] = new]
      /\ synaptizer'.seenEvents = synaptizer.seenEvents \cup {e.id}
      /\ synaptizer'.receivedEvents = synaptizer.receivedEvents + 1
      /\ synaptizer'.duplicateEvents = synaptizer.duplicateEvents
      /\ synaptizer'.learnedEvents = synaptizer.learnedEvents + 1
      /\ synaptizer'.ignoredUnverifiedEvents = synaptizer.ignoredUnverifiedEvents
  BY <1>2 DEF ConsumeVerified, Synaptizer
<1>6. synaptizer' \in Synaptizer
  <2>1. synaptizer'.relationships \in [Relations -> Relationship \cup {NULL}]
    BY <1>2, <1>4, <1>5 DEF Synaptizer
  <2> DEFINE s == synaptizer
             rel == synaptizer'.relationships
  <2>2. synaptizer' =
          [relationships |-> rel, seenEvents |-> s.seenEvents \cup {e.id},
           receivedEvents |-> s.receivedEvents + 1, learnedEvents |-> s.learnedEvents + 1,
           ignoredUnverifiedEvents |-> s.ignoredUnverifiedEvents,
           duplicateEvents |-> s.duplicateEvents]
    BY <1>2 DEF ConsumeVerified, Synaptizer
  <2> HIDE DEF new, r, rel
  <2> QED
    BY <1>1, <1>2, <2>1, <2>2, Assembled DEF Synaptizer, rel
<1>7. E \in SUBSET Events /\ e \notin E /\ existing(e) = Summary(E)
  <2>1. CASE synaptizer.relationships[r] = NULL
    BY <2>1, SummaryEmpty DEF EvidenceOf, existing
  <2>2. CASE synaptizer.relationships[r] # NULL
    <3>1. synaptizer.relationships[r] \in Relationship
      BY <1>1, <1>2, <2>2 DEF Synaptizer
    <3>2. E \in SUBSET Events
      BY <2>2, <3>1 DEF EvidenceOf, Relationship
    <3>3. e \notin E /\ synaptizer.relationships[r] = Summary(E)
      BY <1>1, <1>2, <2>2 DEF LearnedOnce
    <3> QED
      BY <2>2, <3>2, <3>3 DEF existing
  <2> QED
    BY <2>1, <2>2
<1>8. new = Summary(E \cup {e})
  BY <1>7, SummaryAdd
<1>9. /\ new # NULL
      /\ synaptizer'.relationships[r] = new
      /\ EvidenceOf(synaptizer', r) = E \cup {e}
      /\ \A q \in Relations \ {r} :
           /\ synaptizer'.relationships[q] = synaptizer.relationships[q]
           /\ EvidenceOf(synaptizer', q) = EvidenceOf(synaptizer, q)
  <2>1. new # NULL
    BY <1>4, NullAssumption
  <2>2. synaptizer'.relationships[r] = new
    BY <1>1, <1>2, <1>5 DEF Synaptizer
  <2>3. new.evidence_state_roots = E \cup {e}
    BY <1>8 DEF Summary
  <2>4. \A q \in Relations \ {r} :
           synaptizer'.relationships[q] = synaptizer.relationships[q]
    BY <1>1, <1>2, <1>5 DEF Synaptizer
  <2> HIDE DEF new, r, E
  <2> QED
    BY <2>1, <2>2, <2>3, <2>4 DEF EvidenceOf
<1>10. LearnedOnce(synaptizer')
  <2> HIDE DEF new
  <2>1. \A q \in Relations : synaptizer'.relationships[q] # NULL =>
          synaptizer'.relationships[q] = Summary(EvidenceOf(synaptizer', q))
    BY <1>2, <1>8, <1>9 DEF LearnedOnce
  <2>2. \A q \in Relations : \A d \in EvidenceOf(synaptizer', q) :
          /\ d.verified /\ d.relation = q /\ d.id \in synaptizer'.seenEvents
          /\ d = e \/ (d \in EvidenceOf(synaptizer, q) /\ d.id \in synaptizer.seenEvents)
    BY <1>1, <1>2, <1>5, <1>9 DEF LearnedOnce
  <2>3. \A p, q \in Relations :
          \A c \in EvidenceOf(synaptizer', p), d \in EvidenceOf(synaptizer', q) :
            c.id = d.id => c = d
    BY <1>1, <1>2, <2>2 DEF LearnedOnce
  <2> QED
    BY <2>1, <2>2, <2>3 DEF LearnedOnce
<1>11. /\ Cardinality(synaptizer.seenEvents) \in Nat
       /\ Cardinality(synaptizer'.seenEvents) = Cardinality(synaptizer.seenEvents) + 1
  BY <1>1, <1>2, <1>5, SeenGrows DEF Synaptizer
<1>12. Counted(synaptizer')
  BY <1>2, <1>5, <1>11 DEF Counted, Synaptizer
<1> QED
  BY <1>6, <1>10, <1>12 DEF Sound
-------------------------------------------------------------------------------
(* Memory and disk.  The Synaptizer is sound at all times, and whatever a file *)
(* or a call of save() holds is sound if load and hydrate accept it: a text    *)
(* that was altered keeps a root that no longer matches.                       *)

Trusted(c) == c \in Envelope /\ (Recoverable(c) => Sound(c.synaptic_snapshot.state))

MemoryInv ==
  /\ TypeOK
  /\ Sound(synaptizer)
  /\ \A s \in Saves : envelope[s] # NULL => Trusted(envelope[s])
  /\ \A f \in Saves : content[f] # Partial => Trusted(content[f])
  /\ \A s \in InFlight : envelope[s] # NULL
  /\ \A s \in Saves : stage[s] \in {"opened", "written"} => fd[s] \in Saves

LEMMA EnvelopedTrusted ==
  ASSUME NEW x, Sound(x)
  PROVE  /\ Trusted(Enveloped(x)) /\ Recoverable(Enveloped(x))
         /\ Enveloped(x) # NULL /\ Enveloped(x).synaptic_snapshot.state = x
<1>1. Enveloped(x) \in Envelope /\ Enveloped(x).synaptic_snapshot.state = x
  BY DEF Enveloped, Envelope, snapshot, Sound
<1>2. Enveloped(x) # NULL /\ Enveloped(x) # Partial
  BY <1>1, NullAssumption
<1>3. Recoverable(Enveloped(x))
  BY <1>2 DEF Recoverable, Loadable, Hydratable, Enveloped, snapshot
<1> QED
  BY <1>1, <1>2, <1>3 DEF Trusted

LEMMA MemoryInit == Init => MemoryInv
<1> SUFFICES ASSUME Init PROVE MemoryInv
  OBVIOUS
<1>1. TypeOK
  BY SoundNew DEF Init, TypeOK, Sound
<1> QED
  BY <1>1, SoundNew DEF Init, MemoryInv, InFlight

LEMMA MemoryNext == MemoryInv /\ [Next]_vars => MemoryInv'
<1> SUFFICES ASSUME MemoryInv, [Next]_vars PROVE MemoryInv'
  OBVIOUS
<1> USE DEF MemoryInv
<1>1. ASSUME NEW e \in Events,
             ConsumeDuplicate(e) \/ ConsumeUnverified(e)
               \/ ConsumeMalformed(e) \/ ConsumeVerified(e)
      PROVE  MemoryInv'
  <2>1. Sound(synaptizer')
    BY <1>1, DuplicateSound, NotLearnedSound, VerifiedSound
  <2>2. UNCHANGED <<running, pid, saveVars, diskVars, historyVars>>
    BY <1>1 DEF ConsumeDuplicate, ConsumeUnverified, ConsumeMalformed, ConsumeVerified
  <2> QED
    BY <2>1, <2>2 DEF TypeOK, InFlight, saveVars, diskVars, historyVars, Sound
<1>2. ASSUME NEW s \in Saves, BeginSave(s)
      PROVE  MemoryInv'
  <2>1. Trusted(Enveloped(synaptizer)) /\ Enveloped(synaptizer) # NULL
    BY EnvelopedTrusted
  <2>2. TypeOK'
    BY <1>2, <2>1 DEF BeginSave, TypeOK, memoryVars, diskVars, historyVars, Trusted
  <2>3. envelope' = [envelope EXCEPT ![s] = Enveloped(synaptizer)]
        /\ stage' = [stage EXCEPT ![s] = "begun"]
        /\ UNCHANGED <<memoryVars, fd, content>>
    BY <1>2 DEF BeginSave, diskVars
  <2> QED
    BY <2>1, <2>2, <2>3 DEF TypeOK, InFlight, memoryVars
<1>3. ASSUME NEW s \in Saves, OpenTemporary(s)
      PROVE  MemoryInv'
  <2> DEFINE file == IF temporary[pid] = NULL THEN s ELSE temporary[pid]
  <2>1. file \in Saves
    BY DEF TypeOK
  <2>2. /\ content' = [content EXCEPT ![file] = Partial]
        /\ fd' = [fd EXCEPT ![s] = file]
        /\ temporary' = [temporary EXCEPT ![pid] = file]
        /\ stage[s] = "begun"
        /\ stage' = [stage EXCEPT ![s] = "opened"]
        /\ UNCHANGED <<memoryVars, envelope, stateFile, historyVars>>
    BY <1>3 DEF OpenTemporary
  <2> HIDE DEF file
  <2>3. TypeOK'
    BY <2>1, <2>2 DEF TypeOK, memoryVars, historyVars
  <2> QED
    BY <2>1, <2>2, <2>3 DEF TypeOK, InFlight, memoryVars
<1>4. ASSUME NEW s \in Saves, WriteTemporary(s)
      PROVE  MemoryInv'
  <2>1. /\ stage[s] = "opened"
        /\ stage' = [stage EXCEPT ![s] = "written"]
        /\ UNCHANGED <<memoryVars, envelope, fd, temporary, stateFile, historyVars>>
    BY <1>4 DEF WriteTemporary
  <2>2. PICK c \in {envelope[s], Partial} : content' = [content EXCEPT ![fd[s]] = c]
    BY <1>4 DEF WriteTemporary
  <2>3. fd[s] \in Saves /\ (c # Partial => Trusted(c))
        /\ c \in Envelope \cup {Partial}
    BY <2>1, <2>2 DEF InFlight, Trusted
  <2>4. TypeOK'
    BY <2>1, <2>2, <2>3 DEF TypeOK, memoryVars, historyVars
  <2> QED
    BY <2>1, <2>2, <2>3, <2>4 DEF TypeOK, InFlight, memoryVars
<1>5. ASSUME NEW s \in Saves, RenameTemporary(s)
      PROVE  MemoryInv'
  <2>1. /\ stage[s] = "written"
        /\ temporary[pid] # NULL
        /\ stateFile' = temporary[pid]
        /\ temporary' = [temporary EXCEPT ![pid] = NULL]
        /\ stage' = [stage EXCEPT ![s] = "saved"]
        /\ envelope' = [envelope EXCEPT ![s] = NULL]
        /\ fd' = [fd EXCEPT ![s] = NULL]
        /\ acknowledged' = acknowledged \cup envelope[s].synaptic_snapshot.state.seenEvents
        /\ UNCHANGED <<memoryVars, content, damaged>>
    BY <1>5 DEF RenameTemporary, Settle
  <2>2. envelope[s].synaptic_snapshot.state.seenEvents \subseteq Ids
    BY <2>1 DEF InFlight, Trusted, Envelope, Synaptizer
  <2>3. TypeOK'
    BY <2>1, <2>2 DEF TypeOK, memoryVars
  <2> QED
    BY <2>1, <2>3 DEF TypeOK, InFlight, memoryVars
<1>6. ASSUME NEW s \in Saves, SaveFails(s)
      PROVE  MemoryInv'
  <2>1. /\ s \in InFlight
        /\ stage' = [stage EXCEPT ![s] = "failed"]
        /\ envelope' = [envelope EXCEPT ![s] = NULL]
        /\ fd' = [fd EXCEPT ![s] = NULL]
        /\ content' = content \/ content' = [content EXCEPT ![fd[s]] = Partial]
        /\ UNCHANGED <<memoryVars, temporary, stateFile, historyVars>>
    BY <1>6 DEF SaveFails, Settle
  <2>2. TypeOK'
    BY <2>1 DEF TypeOK, memoryVars, historyVars
  <2>3. \A f \in Saves : content'[f] \in {content[f], Partial}
    BY <2>1 DEF TypeOK
  <2> QED
    BY <2>1, <2>2, <2>3 DEF TypeOK, InFlight, memoryVars
<1>7. ASSUME NEW p \in Pids, Start(p)
      PROVE  MemoryInv'
  <2>1. Sound(synaptizer')
    BY <1>7, SoundNew DEF Start, TypeOK, Recoverable, Loadable, Trusted
  <2>2. running' = TRUE /\ pid' = p /\ UNCHANGED <<saveVars, diskVars, historyVars>>
    BY <1>7 DEF Start
  <2> QED
    BY <2>1, <2>2 DEF TypeOK, InFlight, saveVars, diskVars, historyVars, Sound
<1>8. ASSUME Crash
      PROVE  MemoryInv'
  <2>1. /\ running' = FALSE
        /\ synaptizer' = NewSynaptizer
        /\ stage' = [t \in Saves |-> IF t \in InFlight THEN "failed" ELSE stage[t]]
        /\ envelope' = [t \in Saves |-> NULL]
        /\ fd' = [t \in Saves |-> NULL]
        /\ UNCHANGED <<pid, diskVars, historyVars>>
    BY <1>8 DEF Crash
  <2>2. Sound(synaptizer')
    BY <2>1, SoundNew
  <2>3. \A t \in Saves : stage'[t] \in {"unused", "saved", "failed"}
    BY <2>1 DEF TypeOK, InFlight
  <2>4. TypeOK'
    <3>1. stage' \in [Saves -> {"unused", "begun", "opened", "written", "saved", "failed"}]
      BY <2>1, <2>3
    <3> QED
      BY <2>1, <2>2, <3>1 DEF TypeOK, diskVars, historyVars, Sound
  <2> QED
    BY <2>1, <2>2, <2>3, <2>4 DEF TypeOK, InFlight, diskVars
<1>9. ASSUME NEW i \in Ids, Damage(i)
      PROVE  MemoryInv'
  <2> DEFINE old == content[stateFile]
             state == [old.synaptic_snapshot.state EXCEPT !.seenEvents = @ \ {i}]
             new == [synaptic_snapshot |-> [state |-> state,
                                            state_root |-> old.synaptic_snapshot.state_root],
                     state_root |-> old.state_root]
  <2>1. /\ stateFile \in Saves
        /\ old # Partial /\ Recoverable(old) /\ old \in Envelope
        /\ i \in old.synaptic_snapshot.state.seenEvents
        /\ damaged' = TRUE
        /\ UNCHANGED <<memoryVars, saveVars, temporary, stateFile, acknowledged>>
    BY <1>9 DEF Damage, TypeOK, Recoverable, Loadable
  <2>2. content' = [content EXCEPT ![stateFile] = new]
    <3>1. content' = [content EXCEPT ![stateFile] =
                        [old EXCEPT !.synaptic_snapshot.state.seenEvents = @ \ {i}]]
      BY <1>9 DEF Damage
    <3>2. [old EXCEPT !.synaptic_snapshot.state.seenEvents = @ \ {i}] = new
      BY <2>1 DEF Envelope
    <3> QED
      BY <3>1, <3>2
  <2>3. state \in Synaptizer /\ state # old.synaptic_snapshot.state
    BY <2>1 DEF Envelope, Synaptizer
  <2>4. new \in Envelope /\ ~Recoverable(new)
    <3>1. old.synaptic_snapshot.state_root = old.synaptic_snapshot.state
      BY <2>1 DEF Recoverable, Hydratable
    <3> HIDE DEF state
    <3> QED
      BY <2>1, <2>3, <3>1 DEF Envelope, Recoverable, Hydratable
  <2> HIDE DEF new
  <2>5. Trusted(new)
    BY <2>4 DEF Trusted
  <2>6. TypeOK'
    BY <2>1, <2>2, <2>4 DEF TypeOK, memoryVars, saveVars
  <2> QED
    BY <2>1, <2>2, <2>5, <2>6 DEF TypeOK, InFlight, memoryVars, saveVars
<1>10. CASE UNCHANGED vars
  BY <1>10 DEF vars, memoryVars, saveVars, diskVars, historyVars, TypeOK, InFlight
<1> QED
  BY <1>1, <1>2, <1>3, <1>4, <1>5, <1>6, <1>7, <1>8, <1>9, <1>10 DEF Next

THEOREM MemoryInvariant == Spec => []MemoryInv
  BY MemoryInit, MemoryNext, PTL DEF Spec

(* Types, however events, saves, crashes and damage interleave: the counters   *)
(* of the Synaptizer stay natural numbers across restarts.                     *)
THEOREM TypeCorrect == Spec => []TypeOK
<1>1. MemoryInv => TypeOK
  BY DEF MemoryInv
<1> QED
  BY <1>1, MemoryInvariant, PTL

(* Learning is exactly-once (consume, hydrate and load), for any number of     *)
(* overlapping saves.                                                          *)
THEOREM LearnedExactlyOnce == Spec => []ExactlyOnce
<1>1. MemoryInv => ExactlyOnce
  BY DEF MemoryInv, Sound, ExactlyOnce
<1> QED
  BY <1>1, MemoryInvariant, PTL

(* The Synaptizer's counters account for every event received.                 *)
THEOREM CountersAlwaysAgree == Spec => []CountersAgree
<1>1. MemoryInv => CountersAgree
  BY DEF MemoryInv, Sound, CountersAgree
<1> QED
  BY <1>1, MemoryInvariant, PTL
-------------------------------------------------------------------------------
(* One save() at a time.  The file a call writes is then its own: it is the    *)
(* temporary file of the process, never the state file, and nobody else has it *)
(* open; and the evidence of the last acknowledged save is in every state that *)
(* can replace it.                                                             *)

Used(s) == stage[s] \notin {"unused", "begun"}

FilesInv ==
  /\ \A s, t \in InFlight : s = t
  /\ InFlight # {} => running
  /\ \A s \in Saves : stage[s] \in {"opened", "written"} => fd[s] = temporary[pid]
  /\ \A s \in Saves : stage[s] = "written" => content[fd[s]] = envelope[s]
  /\ \A p \in Pids : temporary[p] # NULL => temporary[p] # stateFile /\ Used(temporary[p])
  /\ \A p, q \in Pids : temporary[p] # NULL /\ temporary[p] = temporary[q] => p = q
  /\ stateFile # NULL => Used(stateFile)

Seen(c) == c.synaptic_snapshot.state.seenEvents

DurableInv ==
  /\ \A s \in InFlight :
       Recoverable(envelope[s]) /\ Seen(envelope[s]) \subseteq synaptizer.seenEvents
  /\ ~damaged /\ stateFile # NULL => Recoverable(content[stateFile])
  /\ ~damaged /\ acknowledged # {} =>
       /\ stateFile # NULL
       /\ acknowledged \subseteq Seen(content[stateFile])
       /\ running => acknowledged \subseteq synaptizer.seenEvents
       /\ \A s \in InFlight : acknowledged \subseteq Seen(envelope[s])

SerialInv == MemoryInv /\ FilesInv /\ DurableInv

(* Whoever may begin a save is then the only one in flight.                    *)
LEMMA NoneInFlight ==
  ASSUME MaxOverlap = 1, Cardinality(InFlight) < MaxOverlap
  PROVE  InFlight = {}
<1>1. IsFiniteSet(InFlight)
  BY MemoryAssumption, FS_Subset DEF InFlight
<1>2. Cardinality(InFlight) = 0
  BY <1>1, FS_CardinalityType
<1> QED
  BY <1>1, <1>2, FS_EmptySet

LEMMA SerialInit == Init => SerialInv
<1> SUFFICES ASSUME Init PROVE SerialInv
  OBVIOUS
<1>1. InFlight = {}
  BY DEF Init, InFlight
<1> QED
  BY <1>1, MemoryInit DEF Init, SerialInv, FilesInv, DurableInv

(* Learning touches neither calls nor files, and never forgets an id.          *)
LEMMA ConsumeSerial ==
  ASSUME SerialInv, NEW e \in Events,
         ConsumeDuplicate(e) \/ ConsumeUnverified(e)
           \/ ConsumeMalformed(e) \/ ConsumeVerified(e)
  PROVE  FilesInv' /\ DurableInv'
<1>1. UNCHANGED <<running, pid, saveVars, diskVars, historyVars>>
  BY DEF ConsumeDuplicate, ConsumeUnverified, ConsumeMalformed, ConsumeVerified
<1>2. synaptizer.seenEvents \subseteq synaptizer'.seenEvents
  <2>1. synaptizer \in Synaptizer
    BY DEF SerialInv, MemoryInv, TypeOK
  <2>2. CASE ConsumeDuplicate(e)
    BY <2>1, <2>2 DEF Synaptizer, ConsumeDuplicate
  <2>3. CASE ConsumeUnverified(e)
    BY <2>1, <2>3 DEF Synaptizer, ConsumeUnverified
  <2>4. CASE ConsumeMalformed(e)
    BY <2>1, <2>4 DEF Synaptizer, ConsumeMalformed
  <2>5. CASE ConsumeVerified(e)
    <3> DEFINE rel == [synaptizer.relationships EXCEPT ![e.relation] = updated(e, existing(e))]
    <3>1. synaptizer' = [synaptizer EXCEPT !.receivedEvents = @ + 1,
                                           !.seenEvents = @ \cup {e.id},
                                           !.relationships = rel,
                                           !.learnedEvents = @ + 1]
      BY <2>5 DEF ConsumeVerified
    <3> HIDE DEF rel
    <3> QED
      BY <2>1, <3>1 DEF Synaptizer
  <2> QED
    BY <2>2, <2>3, <2>4, <2>5
<1>3. FilesInv'
  BY <1>1 DEF SerialInv, FilesInv, InFlight, Used, saveVars, diskVars
<1>4. DurableInv'
  BY <1>1, <1>2 DEF SerialInv, DurableInv, InFlight, Seen, Recoverable, Loadable,
                    Hydratable, saveVars, diskVars, historyVars
<1> QED
  BY <1>3, <1>4

LEMMA BeginSerial ==
  ASSUME MaxOverlap = 1, SerialInv, NEW s \in Saves, BeginSave(s)
  PROVE  FilesInv' /\ DurableInv'
<1>1. /\ InFlight = {} /\ running
      /\ stage[s] = "unused"
      /\ stage' = [stage EXCEPT ![s] = "begun"]
      /\ envelope' = [envelope EXCEPT ![s] = Enveloped(synaptizer)]
      /\ UNCHANGED <<memoryVars, fd, diskVars, historyVars>>
  BY NoneInFlight DEF BeginSave
<1>2. TypeOK /\ Sound(synaptizer)
  BY DEF SerialInv, MemoryInv
<1>3. InFlight' = {s} /\ envelope'[s] = Enveloped(synaptizer)
      /\ \A t \in Saves : Used(t)' = Used(t)
  BY <1>1, <1>2 DEF InFlight, TypeOK, Used
<1>4. Recoverable(Enveloped(synaptizer)) /\ Seen(Enveloped(synaptizer)) = synaptizer.seenEvents
  BY <1>2, EnvelopedTrusted DEF Seen
<1>5. FilesInv'
  BY <1>1, <1>2, <1>3 DEF SerialInv, FilesInv, TypeOK, memoryVars, diskVars, Used
<1>6. DurableInv'
  <2>1. /\ UNCHANGED <<running, synaptizer, content, stateFile, acknowledged, damaged>>
        /\ DurableInv
    BY <1>1 DEF SerialInv, memoryVars, diskVars, historyVars
  <2>2. Recoverable(envelope'[s]) /\ Seen(envelope'[s]) = synaptizer.seenEvents
    BY <1>3, <1>4
  <2> QED
    BY <1>1, <1>3, <2>1, <2>2 DEF DurableInv, Seen, Recoverable, Loadable, Hydratable
<1> QED
  BY <1>5, <1>6

LEMMA OpenSerial ==
  ASSUME SerialInv, NEW s \in Saves, OpenTemporary(s)
  PROVE  FilesInv' /\ DurableInv'
<1>1. TypeOK /\ FilesInv /\ DurableInv
  BY DEF SerialInv, MemoryInv
<1> PICK file \in Saves : file = IF temporary[pid] = NULL THEN s ELSE temporary[pid]
  BY <1>1 DEF TypeOK
<1>2. /\ content' = [content EXCEPT ![file] = Partial]
      /\ fd' = [fd EXCEPT ![s] = file]
      /\ temporary' = [temporary EXCEPT ![pid] = file]
      /\ stage[s] = "begun"
      /\ stage' = [stage EXCEPT ![s] = "opened"]
      /\ UNCHANGED <<memoryVars, envelope, stateFile, historyVars>>
  BY DEF OpenTemporary
<1>3. InFlight = {s} /\ InFlight' = {s}
  BY <1>1, <1>2 DEF InFlight, FilesInv, TypeOK
<1>4. /\ \A t \in Saves : Used(t) => Used(t)'
      /\ Used(s)' /\ ~Used(s)
  BY <1>1, <1>2 DEF Used, TypeOK
<1>5. /\ file # NULL /\ file # stateFile
      /\ \A q \in Pids : temporary[q] = file => q = pid
  BY <1>1, <1>4, MemoryAssumption DEF FilesInv, TypeOK
<1>6. /\ \A t \in Saves : stage'[t] \in {"opened", "written"} <=> t = s
      /\ stage'[s] = "opened" /\ fd'[s] = file /\ temporary'[pid] = file
      /\ \A q \in Pids \ {pid} : temporary'[q] = temporary[q]
      /\ stateFile # NULL => content'[stateFile] = content[stateFile]
      /\ UNCHANGED <<running, pid, synaptizer, envelope, stateFile, acknowledged, damaged>>
  BY <1>1, <1>2, <1>3, <1>5 DEF TypeOK, InFlight, memoryVars, historyVars
<1>7. Used(file)'
  BY <1>1, <1>4 DEF FilesInv, TypeOK
<1>8. FilesInv'
  <2>1. \A p \in Pids : temporary'[p] # NULL =>
          temporary'[p] # stateFile' /\ stage'[temporary'[p]] \notin {"unused", "begun"}
    <3>1. \A p \in Pids : temporary[p] # NULL => temporary[p] \in Saves
      BY <1>1 DEF TypeOK
    <3> QED
      BY <1>1, <1>4, <1>5, <1>6, <1>7, <3>1 DEF FilesInv, Used
  <2>2. \A p, q \in Pids : temporary'[p] # NULL /\ temporary'[p] = temporary'[q] => p = q
    BY <1>1, <1>5, <1>6 DEF FilesInv
  <2>3. stateFile' # NULL => Used(stateFile)'
    BY <1>1, <1>4, <1>6 DEF FilesInv, TypeOK, Used
  <2>4. running' /\ \A t, u \in InFlight' : t = u
    BY <1>1, <1>3, <1>6 DEF FilesInv
  <2> QED
    BY <1>6, <2>1, <2>2, <2>3, <2>4 DEF FilesInv, Used
<1>9. DurableInv'
  BY <1>1, <1>3, <1>6 DEF DurableInv, Seen, Recoverable, Loadable, Hydratable
<1> QED
  BY <1>8, <1>9

LEMMA WriteSerial ==
  ASSUME SerialInv, NEW s \in Saves, WriteTemporary(s)
  PROVE  FilesInv' /\ DurableInv'
<1>1. TypeOK /\ FilesInv /\ DurableInv
  BY DEF SerialInv, MemoryInv
<1>2. /\ stage[s] = "opened"
      /\ stage' = [stage EXCEPT ![s] = "written"]
      /\ UNCHANGED <<memoryVars, envelope, fd, temporary, stateFile, historyVars>>
  BY DEF WriteTemporary
<1>3. InFlight = {s} /\ InFlight' = {s}
  BY <1>1, <1>2 DEF InFlight, FilesInv, TypeOK
<1>4. content' = [content EXCEPT ![fd[s]] = envelope[s]]
  BY <1>3 DEF WriteTemporary
<1>5. fd[s] = temporary[pid] /\ fd[s] \in Saves /\ fd[s] # stateFile
  BY <1>1, <1>2, MemoryAssumption DEF FilesInv, TypeOK, SerialInv, MemoryInv
<1>6. /\ \A t \in Saves : Used(t)' = Used(t)
      /\ \A t \in Saves : stage'[t] \in {"opened", "written"} <=> t = s
      /\ content'[fd[s]] = envelope[s]
      /\ stateFile # NULL => content'[stateFile] = content[stateFile]
  BY <1>1, <1>2, <1>3, <1>4, <1>5 DEF Used, TypeOK, InFlight
<1>7. FilesInv'
  <2>1. \A p \in Pids : temporary[p] # NULL => temporary[p] \in Saves
    BY <1>1 DEF TypeOK
  <2> QED
    BY <1>1, <1>2, <1>3, <1>5, <1>6, <2>1 DEF FilesInv, TypeOK, memoryVars, Used
<1>8. DurableInv'
  BY <1>1, <1>2, <1>3, <1>6
     DEF DurableInv, Seen, Recoverable, Loadable, Hydratable, memoryVars, historyVars
<1> QED
  BY <1>7, <1>8

LEMMA RenameSerial ==
  ASSUME SerialInv, NEW s \in Saves, RenameTemporary(s)
  PROVE  FilesInv' /\ DurableInv'
<1>1. TypeOK /\ FilesInv /\ DurableInv
  BY DEF SerialInv, MemoryInv
<1>2. /\ stage[s] = "written"
      /\ temporary[pid] # NULL
      /\ stateFile' = temporary[pid]
      /\ temporary' = [temporary EXCEPT ![pid] = NULL]
      /\ stage' = [stage EXCEPT ![s] = "saved"]
      /\ envelope' = [envelope EXCEPT ![s] = NULL]
      /\ fd' = [fd EXCEPT ![s] = NULL]
      /\ acknowledged' = acknowledged \cup envelope[s].synaptic_snapshot.state.seenEvents
      /\ UNCHANGED <<memoryVars, content, damaged>>
  BY DEF RenameTemporary, Settle
<1>3. InFlight = {s} /\ InFlight' = {}
  BY <1>1, <1>2 DEF InFlight, FilesInv, TypeOK
<1>4. content[stateFile'] = envelope[s]
  BY <1>1, <1>2 DEF FilesInv
<1>5. /\ \A t \in Saves : Used(t)' = Used(t)
      /\ \A t \in Saves : stage'[t] \notin {"opened", "written"}
  BY <1>1, <1>2, <1>3 DEF Used, TypeOK, InFlight
<1>6. FilesInv'
  <2>1. \A p \in Pids : temporary[p] # NULL => temporary[p] \in Saves
    BY <1>1 DEF TypeOK
  <2> QED
    BY <1>1, <1>2, <1>3, <1>5, <2>1 DEF FilesInv, TypeOK, memoryVars, Used
<1>7. DurableInv'
  BY <1>1, <1>2, <1>3, <1>4
     DEF DurableInv, Seen, Recoverable, Loadable, Hydratable, memoryVars
<1> QED
  BY <1>6, <1>7

LEMMA FailSerial ==
  ASSUME SerialInv, NEW s \in Saves, SaveFails(s)
  PROVE  FilesInv' /\ DurableInv'
<1>1. TypeOK /\ FilesInv /\ DurableInv
  BY DEF SerialInv, MemoryInv
<1>2. /\ s \in InFlight
      /\ content' = IF stage[s] = "opened"
                    THEN [content EXCEPT ![fd[s]] = Partial] ELSE content
      /\ stage' = [stage EXCEPT ![s] = "failed"]
      /\ envelope' = [envelope EXCEPT ![s] = NULL]
      /\ fd' = [fd EXCEPT ![s] = NULL]
      /\ UNCHANGED <<memoryVars, temporary, stateFile, historyVars>>
  BY DEF SaveFails, Settle
<1>3. InFlight = {s} /\ InFlight' = {}
  BY <1>1, <1>2 DEF InFlight, FilesInv, TypeOK
<1>4. stateFile # NULL => content'[stateFile] = content[stateFile]
  <2>1. CASE stage[s] = "opened"
    <3>1. fd[s] = temporary[pid] /\ fd[s] \in Saves
      BY <1>1, <2>1 DEF FilesInv, SerialInv, MemoryInv
    <3>2. fd[s] # stateFile
      BY <1>1, <3>1, MemoryAssumption DEF FilesInv, TypeOK
    <3> QED
      BY <1>1, <1>2, <2>1, <3>2 DEF TypeOK
  <2> QED
    BY <1>2, <2>1
<1>5. /\ \A t \in Saves : Used(t) => Used(t)'
      /\ \A t \in Saves : stage'[t] \notin {"opened", "written"}
  BY <1>1, <1>2, <1>3 DEF Used, TypeOK, InFlight
<1>6. FilesInv'
  <2>1. \A p \in Pids : temporary[p] # NULL => temporary[p] \in Saves
    BY <1>1 DEF TypeOK
  <2>2. stateFile # NULL => stateFile \in Saves
    BY <1>1 DEF TypeOK
  <2> QED
    BY <1>1, <1>2, <1>3, <1>5, <2>1, <2>2 DEF FilesInv, memoryVars, Used
<1>7. DurableInv'
  BY <1>1, <1>2, <1>3, <1>4
     DEF DurableInv, Seen, Recoverable, Loadable, Hydratable, memoryVars, historyVars
<1> QED
  BY <1>6, <1>7

LEMMA StartSerial ==
  ASSUME SerialInv, NEW p \in Pids, Start(p)
  PROVE  FilesInv' /\ DurableInv'
<1>1. TypeOK /\ FilesInv /\ DurableInv
  BY DEF SerialInv, MemoryInv
<1>2. /\ ~running /\ running' = TRUE /\ pid' = p
      /\ \/ stateFile = NULL
         \/ stateFile # NULL /\ Recoverable(content[stateFile])
            /\ synaptizer'.seenEvents = Seen(content[stateFile])
      /\ UNCHANGED <<saveVars, diskVars, historyVars>>
  BY DEF Start, Seen
<1>3. InFlight = {} /\ InFlight' = {}
  BY <1>1, <1>2 DEF FilesInv, InFlight, saveVars
<1>4. \A t \in Saves : stage[t] \notin {"opened", "written"}
  BY <1>3 DEF InFlight
<1>5. FilesInv'
  BY <1>1, <1>2, <1>3, <1>4 DEF FilesInv, Used, saveVars, diskVars
<1>6. DurableInv'
  BY <1>1, <1>2, <1>3
     DEF DurableInv, Seen, Recoverable, Loadable, Hydratable, saveVars, diskVars, historyVars
<1> QED
  BY <1>5, <1>6

LEMMA CrashSerial ==
  ASSUME SerialInv, Crash
  PROVE  FilesInv' /\ DurableInv'
<1>1. TypeOK /\ FilesInv /\ DurableInv
  BY DEF SerialInv, MemoryInv
<1>2. /\ running' = FALSE
      /\ stage' = [t \in Saves |-> IF t \in InFlight THEN "failed" ELSE stage[t]]
      /\ UNCHANGED <<pid, diskVars, historyVars>>
  BY DEF Crash
<1>3. /\ InFlight' = {}
      /\ \A t \in Saves : stage'[t] \notin {"opened", "written"}
      /\ \A t \in Saves : Used(t) => Used(t)'
  BY <1>1, <1>2 DEF InFlight, TypeOK, Used
<1>4. FilesInv'
  <2>1. \A p \in Pids : temporary[p] # NULL => temporary[p] \in Saves
    BY <1>1 DEF TypeOK
  <2>2. stateFile # NULL => stateFile \in Saves
    BY <1>1 DEF TypeOK
  <2> QED
    BY <1>1, <1>2, <1>3, <2>1, <2>2 DEF FilesInv, diskVars, Used
<1>5. DurableInv'
  BY <1>1, <1>2, <1>3
     DEF DurableInv, Seen, Recoverable, Loadable, Hydratable, diskVars, historyVars
<1> QED
  BY <1>4, <1>5

LEMMA DamageSerial ==
  ASSUME SerialInv, NEW i \in Ids, Damage(i)
  PROVE  FilesInv' /\ DurableInv'
<1>1. TypeOK /\ FilesInv /\ DurableInv
  BY DEF SerialInv, MemoryInv
<1>2. /\ ~running /\ damaged' = TRUE
      /\ UNCHANGED <<memoryVars, saveVars, temporary, stateFile, acknowledged>>
  BY DEF Damage
<1>3. InFlight = {} /\ InFlight' = {}
  BY <1>1, <1>2 DEF FilesInv, InFlight, saveVars
<1>4. \A t \in Saves : stage[t] \notin {"opened", "written"}
  BY <1>3 DEF InFlight
<1>5. FilesInv'
  BY <1>1, <1>2, <1>3, <1>4 DEF FilesInv, Used, memoryVars, saveVars
<1>6. DurableInv'
  BY <1>2, <1>3 DEF DurableInv
<1> QED
  BY <1>5, <1>6

LEMMA SerialNext ==
  ASSUME MaxOverlap = 1, SerialInv, [Next]_vars
  PROVE  SerialInv'
<1>1. MemoryInv'
  BY MemoryNext DEF SerialInv
<1>2. CASE UNCHANGED vars
  <2>1. FilesInv'
    BY <1>2 DEF SerialInv, FilesInv, InFlight, Used, vars, memoryVars, saveVars, diskVars
  <2>2. DurableInv'
    BY <1>2 DEF SerialInv, DurableInv, InFlight, Seen, Recoverable, Loadable, Hydratable,
                vars, memoryVars, saveVars, diskVars, historyVars
  <2> QED
    BY <1>1, <2>1, <2>2 DEF SerialInv
<1>3. CASE Next
  BY <1>1, <1>3, ConsumeSerial, BeginSerial, OpenSerial, WriteSerial, RenameSerial,
     FailSerial, StartSerial, CrashSerial, DamageSerial DEF Next, SerialInv
<1> QED
  BY <1>2, <1>3

THEOREM SerialInvariant ==
  ASSUME MaxOverlap = 1
  PROVE  Spec => []SerialInv
<1>1. SerialInv /\ [Next]_vars => SerialInv'
  BY SerialNext
<1> QED
  BY <1>1, SerialInit, PTL DEF Spec

(* A process that saves one state after the other never leaves a part of one   *)
(* or a mixture at path, wherever it is interrupted.                           *)
THEOREM StateFileAlwaysWhole ==
  ASSUME MaxOverlap = 1
  PROVE  Spec => []StateFileWhole
<1>1. SerialInv => StateFileWhole
  BY DEF SerialInv, DurableInv, StateFileWhole
<1> QED
  BY <1>1, SerialInvariant, PTL

(* What an acknowledged save() stored is in everything recovered later.        *)
THEOREM AcknowledgedAlwaysSurvives ==
  ASSUME MaxOverlap = 1
  PROVE  Spec => []AcknowledgedSurvives
<1>1. SerialInv => AcknowledgedSurvives
  BY DEF SerialInv, DurableInv, AcknowledgedSurvives, Seen
<1> QED
  BY <1>1, SerialInvariant, PTL

\* Relationships and counters of the Synaptizer account for the evidence
\* received, each execution once, through any crashes and restarts.
THEOREM LearningAlwaysAccounted == Spec => []LearningAccounted
<1>1. ExactlyOnce /\ CountersAgree => LearningAccounted
  BY DEF LearningAccounted
<1> QED
  BY <1>1, LearnedExactlyOnce, CountersAlwaysAgree, PTL
===============================================================================
