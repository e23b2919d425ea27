-------------------------- MODULE CognitiveBodyProofs --------------------------
(***************************************************************************)
(* Proofs about process intelligence as the cognitive body uses it, for    *)
(* any processes, ports, plans, budgets and thresholds.                    *)
(*                                                                         *)
(* Every step of the body is a step of process intelligence or leaves it   *)
(* alone, so the invariants of the latter are proved from PINext.          *)
(***************************************************************************)
EXTENDS CognitiveBody, SequenceTheorems, FiniteSetTheorems, WellFoundedInduction, TLAPS

-----------------------------------------------------------------------------
(* The body uses process intelligence.                                     *)

PortsKnown == ports \subseteq PortIds

LEMMA PortsKnownNext == PortsKnown /\ [Next]_vars => PortsKnown'
BY DEF PortsKnown, Next, BodyStep, OutsideStep, AddCogniton, ActivateCogniton,
   DeactivateCogniton, RegisterPort, Compile, RunStep, ActivatePlain, ActivateProcess,
   FailRun, CompleteRun, ProcessStep, bodyVars, vars

\* What the body does to process intelligence its callers may do.
LEMMA BodyUsesPI == PortsKnown /\ [Next]_vars => [PINext]_piVars
<1> SUFFICES ASSUME PortsKnown, [Next]_vars PROVE [PINext]_piVars
  OBVIOUS
<1>1. ASSUME NEW r \in Runs, ActivateProcess(r) PROVE StartStep
  <2>1. nextPort(r) \in PortIds
    BY <1>1 DEF ActivateProcess, Resumable, PortsKnown
  <2>2. Descriptor[nextPort(r)].handler = "dynamic" =>
          Descriptor[nextPort(r)].graph \in DynamicGraphs
    BY <2>1, DescriptorsAssumption
  <2> QED
    BY <1>1, <2>2 DEF ActivateProcess, StartStep
<1> QED
  BY <1>1
  DEF Next, BodyStep, OutsideStep, AddCogniton, ActivateCogniton, DeactivateCogniton,
      RegisterPort, Compile, RunStep, ActivatePlain, FailRun, CompleteRun, ProcessStep,
      PINext, vars

LEMMA PortsAlwaysKnown == Spec => []PortsKnown
<1>1. Init => PortsKnown
  BY DEF Init, PortsKnown
<1> QED
  BY <1>1, PortsKnownNext, PTL DEF Spec

\* The steps of the body are steps of process intelligence.
LEMMA SpecUsesPI == Spec => PIInit /\ [][PINext]_piVars
<1>1. Init => PIInit
  BY DEF Init
<1> QED
  BY <1>1, PortsAlwaysKnown, BodyUsesPI, PTL DEF Spec

-----------------------------------------------------------------------------
(* Types.                                                                  *)

\* The typed parts, by which actions change them.
LearningType ==
  /\ genome \in [Processes -> Genomes]
  /\ tally \in [Processes -> Profile]
  /\ profile \in [Processes -> Profile \cup {NULL}]
  /\ registry \in [Processes -> Skill \cup {NULL}]
  /\ graduated \subseteq
       [process : Processes, genome : Genomes, source : {"tracker", "caller"},
        stated : SUBSET EvidenceFields]

SynthesisType ==
  /\ cache \in [CacheKeys -> Capability \cup {NULL}]
  /\ held \subseteq Capability

FeedType ==
  /\ subscribed \in BOOLEAN
  /\ learned \in [Processes -> Int]
  /\ credited \in [Processes -> Int]
  /\ missed \subseteq Processes

ExecType == exec \in Execution

LEMMA TypeParts == PITypeOK <=> LearningType /\ SynthesisType /\ FeedType /\ ExecType
BY DEF PITypeOK, LearningType, SynthesisType, FeedType, ExecType

LEMMA PITypeInit == PIInit => PITypeOK
<1> SUFFICES ASSUME PIInit PROVE PITypeOK
  OBVIOUS
<1>1. LearningType
  BY ThresholdsAssumption DEF PIInit, LearningType, Genomes, Profile, NoRecords
<1>2. SynthesisType /\ FeedType
  BY DEF PIInit, SynthesisType, FeedType
<1>3. NoExecution \in Execution
  BY DEF NoExecution, Execution
<1>4. ExecType
  BY <1>3 DEF PIInit, ExecType
<1> QED
  BY <1>1, <1>2, <1>4, TypeParts

\* A record more keeps the tally a profile.
LEMMA CountedType ==
  ASSUME NEW t \in Profile, NEW o \in Outcome
  PROVE  /\ Counted(t, o) \in Profile
         /\ Counted(t, o).executions = t.executions + 1
         /\ Counted(t, o).executions >= t.executions
         /\ Counted(t, o).verified_successes >= t.verified_successes
BY DEF Counted, Profile, Outcome, One

\* What callers present for a process is evidence.
LEMMA EvidenceType ==
  ASSUME PITypeOK, NEW p \in Processes, NEW e \in EvidenceFor(p)
  PROVE  /\ e \in Evidence
         /\ e.source = "tracker" => profile[p] # NULL /\ e.counts = profile[p]
<1>1. profile[p] \in Profile \cup {NULL}
  BY DEF PITypeOK
<1> QED
  BY <1>1, InputsAssumption DEF EvidenceFor, Evidence

\* What the steps outside an execution do to the learning side.
LEMMA LearningTypeNext ==
  ASSUME PITypeOK, [PINext]_piVars
  PROVE  LearningType'
<1> USE DEF LearningType
<1>0. LearningType
  BY TypeParts
<1>1. ASSUME UNCHANGED learningVars PROVE LearningType'
  BY <1>0, <1>1 DEF learningVars
<1>2. ASSUME NEW p \in Processes, NEW o \in Outcomes, NEW b, Observe(p, o, b),
             UNCHANGED <<genome, profile, registry, graduated>>
      PROVE  LearningType'
  <2>1. Counted(tally[p], o) \in Profile
    BY <1>0, CountedType, InputsAssumption
  <2> QED
    BY <1>0, <1>2, <2>1 DEF Observe
<1>3. ASSUME NEW p \in Processes, EvolveGenome(p) \/ TakeProfile(p) PROVE LearningType'
  BY <1>0, <1>3, ThresholdsAssumption DEF EvolveGenome, TakeProfile, Genomes
<1>4. ASSUME NEW p \in Processes, NEW v \in 0 .. maximum_violations + 1,
             NEW e \in EvidenceFor(p), Graduate(p, e, v)
      PROVE  LearningType'
  <2>1. [genome_ref |-> genome[p]] \in Skill
    BY <1>0 DEF Skill
  <2>2. e.source \in {"tracker", "caller"} /\ e.stated \in SUBSET EvidenceFields
    BY EvidenceType DEF Evidence
  <2> QED
    BY <1>0, <1>4, <2>1, <2>2 DEF Graduate
<1>5. ASSUME NEW o \in Outcomes, NEW b \in BOOLEAN, RunSkill(o, b) PROVE LearningType'
  <2>0. exec.graph[cursor] \in Processes
    <3>1. exec.graph \in Seq(Processes) /\ exec.completed \in Seq(Processes)
      BY TypeParts DEF ExecType, Execution
    <3>2. cursor \in 1 .. Len(exec.graph)
      BY <1>5, <3>1 DEF RunSkill, Iterates, cursor
    <3> QED
      BY <3>1, <3>2
  <2> QED
    BY <1>2, <1>5, <2>0 DEF RunSkill
<1>6. ASSUME LearningStep PROVE LearningType'
  BY <1>1, <1>2, <1>3, <1>4, <1>6
  DEF LearningStep, ObserveProcess, SynthesizeFromCache, Synthesize, Promote, CloseBoundary
<1>7. ASSUME StartStep \/ ExecutionStep PROVE LearningType'
  BY <1>1, <1>5, <1>7
  DEF StartStep, ExecuteCapability, ExecuteDynamic, ExecutionStep, RunUnrecorded,
      Recompose, RejectExecution, FinishExecution
<1> QED
  BY <1>1, <1>6, <1>7 DEF PINext, piVars

\* A candidate has the genomes its skills were graduated from.
LEMMA CandidateType ==
  ASSUME PITypeOK, NEW k, NEW c \in Compositions, Synthesize(k, c)
  PROVE  /\ Candidate(c) \in Capability
         /\ Candidate(c).skills = c.skill_ids
         /\ Candidate(c).genomes = [i \in DOMAIN c.skill_ids |-> registry[c.skill_ids[i]].genome_ref]
<1>1. c.skill_ids \in Seq(Processes) /\ c.composition_kind \in STRING
  BY InputsAssumption
<1>2. DOMAIN c.skill_ids = 1 .. Len(c.skill_ids) /\ Len(c.skill_ids) \in Nat
  BY <1>1
<1>3. \A i \in 1 .. Len(c.skill_ids) : registry[c.skill_ids[i]].genome_ref \in Genomes
  BY <1>1, <1>2, TypeParts DEF Synthesize, LearningType, Skill
<1>4. [i \in 1 .. Len(c.skill_ids) |-> registry[c.skill_ids[i]].genome_ref] \in Seq(Genomes)
  BY <1>2, <1>3
<1> QED
  BY <1>1, <1>2, <1>4 DEF Candidate, Capability

\* A promoted capability differs from its candidate by its status.
LEMMA PromotedType ==
  ASSUME NEW c \in Capability
  PROVE  [skills |-> c.skills, genomes |-> c.genomes, kind |-> c.kind,
          status |-> "PROSYNTHESIZED"] \in Capability
BY DEF Capability

LEMMA SynthesisTypeNext ==
  ASSUME PITypeOK, [PINext]_piVars
  PROVE  SynthesisType'
<1> USE DEF SynthesisType
<1>0. SynthesisType
  BY TypeParts
<1>1. ASSUME UNCHANGED synthesisVars PROVE SynthesisType'
  BY <1>0, <1>1 DEF synthesisVars
<1>2. ASSUME NEW k \in CacheKeys, SynthesizeFromCache(k) PROVE SynthesisType'
  BY <1>0, <1>2 DEF SynthesizeFromCache
<1>3. ASSUME NEW k \in CacheKeys, NEW c \in Compositions, Synthesize(k, c)
      PROVE  SynthesisType'
  BY <1>0, <1>3, CandidateType DEF Synthesize
<1>4. ASSUME NEW c \in held, NEW k \in CacheKeys, NEW e \in PromotionEvidence, Promote(c, k, e)
      PROVE  SynthesisType'
  BY <1>0, <1>4, PromotedType DEF Promote
<1>5. ASSUME LearningStep PROVE SynthesisType'
  BY <1>1, <1>2, <1>3, <1>4, <1>5
  DEF LearningStep, ObserveProcess, EvolveGenome, TakeProfile, Graduate, CloseBoundary
<1>6. ASSUME StartStep \/ ExecutionStep PROVE SynthesisType'
  BY <1>1, <1>6
  DEF StartStep, ExecuteCapability, ExecuteDynamic, ExecutionStep, RunSkill,
      RunUnrecorded, Recompose, RejectExecution, FinishExecution
<1> QED
  BY <1>1, <1>5, <1>6 DEF PINext, piVars

\* Credits are whole quarters.
LEMMA CreditTypes ==
  ASSUME NEW o \in Outcome
  PROVE  /\ credit(o) \in Int
         /\ reinforcement(toSynaptizerEvent(o)) = IF o.verified THEN credit(o) ELSE 0
<1>1. credit(o) \in Int
  BY DEF credit
<1> DEFINE e == toSynaptizerEvent(o)
<1>2. /\ e.verified = o.verified /\ e.failure = ~o.success /\ e.success = o.success
      /\ e.recovery = (o.contribution = "RECOVERY")
      /\ e.verification_contribution = (o.contribution = "VERIFICATION")
  BY DEF toSynaptizerEvent
<1>3. o.success \in BOOLEAN /\ o.verified \in BOOLEAN
  BY DEF Outcome
<1> HIDE DEF e
<1>4. reinforcement(e) = IF o.verified THEN credit(o) ELSE 0
  <2>1. CASE o.verified = FALSE
    BY <1>2, <2>1 DEF reinforcement
  <2>2. CASE o.verified = TRUE /\ o.success = FALSE
    BY <1>2, <2>2 DEF reinforcement, credit
  <2>3. CASE o.verified = TRUE /\ o.success = TRUE
    BY <1>2, <2>3 DEF reinforcement, credit
  <2> QED
    BY <1>3, <2>1, <2>2, <2>3
<1> QED
  BY <1>1, <1>4 DEF e

\* The skill at the cursor is a process.
LEMMA SelectedType ==
  ASSUME PITypeOK, Iterates
  PROVE  /\ exec.graph[cursor] \in Processes
         /\ cursor \in 1 .. Len(exec.graph)
<1>1. exec.graph \in Seq(Processes) /\ exec.completed \in Seq(Processes)
  BY TypeParts DEF ExecType, Execution
<1>2. cursor \in 1 .. Len(exec.graph)
  BY <1>1 DEF Iterates, cursor
<1> QED
  BY <1>1, <1>2

LEMMA FeedTypeNext ==
  ASSUME PITypeOK, [PINext]_piVars
  PROVE  FeedType'
<1> USE DEF FeedType
<1>0. FeedType
  BY TypeParts
<1>1. ASSUME UNCHANGED feedVars PROVE FeedType'
  BY <1>0, <1>1 DEF feedVars
<1>2. ASSUME CloseBoundary PROVE FeedType'
  BY <1>0, <1>2 DEF CloseBoundary
<1>3. ASSUME NEW p \in Processes, NEW o \in Outcomes, NEW b, Observe(p, o, b),
             subscribed' = subscribed
      PROVE  FeedType'
  <2>1. credit(o) \in Int /\ reinforcement(toSynaptizerEvent(o)) \in Int
    BY CreditTypes, InputsAssumption
  <2>2. credited' \in [Processes -> Int]
    BY <1>0, <1>3, <2>1 DEF Observe
  <2>3. learned' \in [Processes -> Int]
    BY <1>0, <1>3, <2>1 DEF Observe
  <2> QED
    BY <1>0, <1>3, <2>2, <2>3 DEF Observe
<1>4. ASSUME LearningStep PROVE FeedType'
  BY <1>1, <1>2, <1>3, <1>4
  DEF LearningStep, ObserveProcess, EvolveGenome, TakeProfile, Graduate,
      SynthesizeFromCache, Synthesize, Promote
<1>6. ASSUME NEW o \in Outcomes, NEW b \in BOOLEAN, RunSkill(o, b) PROVE FeedType'
  BY <1>3, <1>6, SelectedType DEF RunSkill
<1>5. ASSUME StartStep \/ ExecutionStep PROVE FeedType'
  BY <1>1, <1>5, <1>6
  DEF StartStep, ExecuteCapability, ExecuteDynamic, ExecutionStep,
      RunUnrecorded, Recompose, RejectExecution, FinishExecution
<1> QED
  BY <1>1, <1>4, <1>5 DEF PINext, piVars

\* An execution starts well-formed.
LEMMA StartedType ==
  ASSUME NEW m \in {"capability", "dynamic"}, NEW g \in Seq(Processes)
  PROVE  StartedOn(m, g) \in Execution
BY DEF StartedOn, Execution

\* The fields of the execution, after a step that runs the skill at the
\* cursor and after one that replaces it.
LEMMA ExecTypeNext ==
  ASSUME PITypeOK, [PINext]_piVars
  PROVE  ExecType'
<1> USE DEF ExecType
<1>0. ExecType
  BY TypeParts
<1>1. ASSUME exec' = exec PROVE ExecType'
  BY <1>0, <1>1
<1>2. ASSUME StartStep PROVE ExecType'
  BY <1>2, StartedType, TypeParts, InputsAssumption
  DEF StartStep, ExecuteCapability, ExecuteDynamic, SynthesisType, Capability
<1>3. visitedNow \in SUBSET Seq(Processes)
  BY <1>0 DEF visitedNow, Execution
<1>4. ASSUME NEW o \in Outcomes, NEW b \in BOOLEAN, RunSkill(o, b) PROVE ExecType'
  <2> DEFINE p == exec.graph[cursor]
  <2>1. p \in Processes
    BY <1>4, SelectedType DEF RunSkill
  <2>2. /\ Append(exec.ran, p) \in Seq(Processes)
        /\ Append(exec.recorded, p) \in Seq(Processes)
        /\ Append(exec.completed, p) \in Seq(Processes)
    BY <1>0, <2>1, AppendProperties DEF Execution
  <2>3. PICK done \in Seq(Processes), st \in {"running", "rejected"} :
          exec' = [exec EXCEPT !.ran = Append(exec.ran, p),
                               !.recorded = Append(exec.recorded, p),
                               !.visitedGraphs = visitedNow,
                               !.completed = done, !.status = st]
    <3>1. exec.completed \in Seq(Processes)
      BY <1>0 DEF Execution
    <3> QED
      BY <1>4, <2>2, <3>1 DEF RunSkill
  <2> HIDE DEF p
  <2> QED
    BY <1>0, <1>3, <2>2, <2>3 DEF Execution
<1>5. ASSUME RunUnrecorded PROVE ExecType'
  <2>1. Append(exec.ran, exec.graph[cursor]) \in Seq(Processes)
    BY <1>0, <1>5, SelectedType, AppendProperties DEF RunUnrecorded, Execution
  <2> QED
    BY <1>0, <1>3, <1>5, <2>1 DEF RunUnrecorded, Execution
<1>6. ASSUME NEW q \in Processes, Recompose(q) PROVE ExecType'
  <2> DEFINE g == [exec.graph EXCEPT ![cursor] = q]
             e == [replaced |-> exec.graph[cursor], selected |-> q, graph_root |-> g]
  <2>1. exec.graph[cursor] \in Processes /\ g \in Seq(Processes)
    BY <1>0, <1>6, SelectedType, ExceptSeq DEF Recompose, Execution
  <2>2. e \in Event
    BY <2>1 DEF Event
  <2>3. Append(exec.events, e) \in Seq(Event)
    BY <1>0, <2>2, AppendProperties DEF Execution
  <2>4. exec' = [exec EXCEPT !.graph = g, !.visitedGraphs = visitedNow,
                             !.events = Append(exec.events, e)]
    BY <1>6 DEF Recompose
  <2> HIDE DEF g, e
  <2> QED
    BY <1>0, <1>3, <2>1, <2>3, <2>4 DEF Execution
<1>7. ASSUME RejectExecution \/ FinishExecution PROVE ExecType'
  BY <1>0, <1>7 DEF RejectExecution, FinishExecution, Execution
<1>8. ASSUME LearningStep PROVE ExecType'
  BY <1>1, <1>8
  DEF LearningStep, ObserveProcess, EvolveGenome, TakeProfile, Graduate,
      SynthesizeFromCache, Synthesize, Promote, CloseBoundary
<1> QED
  BY <1>1, <1>2, <1>4, <1>5, <1>6, <1>7, <1>8 DEF PINext, ExecutionStep, piVars

LEMMA PITypeNext == PITypeOK /\ [PINext]_piVars => PITypeOK'
<1> SUFFICES ASSUME PITypeOK, [PINext]_piVars PROVE PITypeOK'
  OBVIOUS
<1>1. LearningType' /\ SynthesisType' /\ FeedType' /\ ExecType'
  BY LearningTypeNext, SynthesisTypeNext, FeedTypeNext, ExecTypeNext
<1> QED
  BY <1>1 DEF PITypeOK, LearningType, SynthesisType, FeedType, ExecType

\* Everything process intelligence keeps has its type.
THEOREM PITypeCorrect == Spec => []PITypeOK
BY SpecUsesPI, PITypeInit, PITypeNext, PTL

-----------------------------------------------------------------------------
(* Provenance.                                                             *)

\* A skill was graduated from the genome it names; a capability is made of
\* such skills.
Provenance(c) ==
  /\ Len(c.skills) >= 2
  /\ DOMAIN c.genomes = DOMAIN c.skills
  /\ \A i \in DOMAIN c.skills :
       \E g \in graduated : g.process = c.skills[i] /\ g.genome = c.genomes[i]

ProvenanceInv ==
  /\ \A p \in Processes : registry[p] # NULL =>
       \E g \in graduated : g.process = p /\ g.genome = registry[p].genome_ref
  /\ \A c \in held : Provenance(c)
  /\ \A k \in CacheKeys : cache[k] # NULL => Provenance(cache[k])

LEMMA ProvenanceNext ==
  PITypeOK /\ ProvenanceInv /\ [PINext]_piVars => ProvenanceInv'
<1> SUFFICES ASSUME PITypeOK, ProvenanceInv, [PINext]_piVars PROVE ProvenanceInv'
  OBVIOUS
<1>0. /\ registry \in [Processes -> Skill \cup {NULL}]
      /\ cache \in [CacheKeys -> Capability \cup {NULL}]
      /\ held \subseteq Capability
  BY DEF PITypeOK
<1>a. ASSUME graduated \subseteq graduated' PROVE \A c : Provenance(c) => Provenance(c)'
  BY <1>a DEF Provenance
<1>1. ASSUME UNCHANGED <<registry, held, cache, graduated>> PROVE ProvenanceInv'
  BY <1>1 DEF ProvenanceInv, Provenance
<1>2. ASSUME NEW p \in Processes, NEW v \in 0 .. maximum_violations + 1,
             NEW e \in EvidenceFor(p), Graduate(p, e, v)
      PROVE  ProvenanceInv'
  <2> DEFINE new == [process |-> p, genome |-> genome[p], source |-> e.source,
                     stated |-> e.stated]
  <2>1. /\ graduated' = graduated \cup {new}
        /\ registry' = [registry EXCEPT ![p] = [genome_ref |-> genome[p]]]
        /\ held' = held /\ cache' = cache
    BY <1>2 DEF Graduate, synthesisVars
  <2>2. new.process = p /\ new.genome = genome[p]
    OBVIOUS
  <2> HIDE DEF new
  <2>3. \A q \in Processes : registry'[q] # NULL =>
          \E g \in graduated' : g.process = q /\ g.genome = registry'[q].genome_ref
    <3> SUFFICES ASSUME NEW q \in Processes, registry'[q] # NULL
                 PROVE  \E g \in graduated' : g.process = q /\ g.genome = registry'[q].genome_ref
      OBVIOUS
    <3>1. CASE q = p
      BY <1>0, <2>1, <2>2, <3>1
    <3>2. CASE q # p
      BY <1>0, <2>1, <3>2 DEF ProvenanceInv
    <3> QED
      BY <3>1, <3>2
  <2> QED
    BY <1>a, <2>1, <2>3 DEF ProvenanceInv
<1>3. ASSUME NEW k \in CacheKeys, SynthesizeFromCache(k) PROVE ProvenanceInv'
  BY <1>3, <1>a DEF SynthesizeFromCache, learningVars, ProvenanceInv
<1>4. ASSUME NEW k \in CacheKeys, NEW c \in Compositions, Synthesize(k, c)
      PROVE  ProvenanceInv'
  <2> DEFINE d == Candidate(c)
  <2>1. /\ c.skill_ids \in Seq(Processes) /\ Len(c.skill_ids) >= 2
        /\ \A i \in DOMAIN c.skill_ids : registry[c.skill_ids[i]] # NULL
    BY <1>4, InputsAssumption DEF Synthesize
  <2>2. /\ d.skills = c.skill_ids
        /\ d.genomes = [i \in DOMAIN c.skill_ids |-> registry[c.skill_ids[i]].genome_ref]
    BY <1>4, CandidateType
  <2>3. \A i \in DOMAIN c.skill_ids : c.skill_ids[i] \in Processes
    BY <2>1
  <2> HIDE DEF d
  <2>4. Provenance(d)
    <3>1. Len(d.skills) >= 2 /\ DOMAIN d.genomes = DOMAIN d.skills
      BY <2>1, <2>2
    <3>2. ASSUME NEW i \in DOMAIN d.skills
          PROVE  \E g \in graduated : g.process = d.skills[i] /\ g.genome = d.genomes[i]
      <4>1. /\ d.skills[i] \in Processes /\ registry[d.skills[i]] # NULL
            /\ d.genomes[i] = registry[d.skills[i]].genome_ref
        BY <2>1, <2>2, <2>3
      <4> QED
        BY <4>1 DEF ProvenanceInv
    <3> QED
      BY <3>1, <3>2 DEF Provenance
  <2>5. held' = held \cup {d} /\ UNCHANGED <<registry, cache, graduated>>
    BY <1>4 DEF Synthesize, learningVars, d
  <2> QED
    BY <1>a, <2>4, <2>5 DEF ProvenanceInv
<1>5. ASSUME NEW c \in held, NEW k \in CacheKeys, NEW e \in PromotionEvidence, Promote(c, k, e)
      PROVE  ProvenanceInv'
  <2> DEFINE d == [skills |-> c.skills, genomes |-> c.genomes, kind |-> c.kind,
                   status |-> "PROSYNTHESIZED"]
  <2>1. d.skills = c.skills /\ d.genomes = c.genomes
    OBVIOUS
  <2>2. /\ held' = held \cup {d} /\ cache' = [cache EXCEPT ![k] = d]
        /\ UNCHANGED <<registry, graduated>>
    BY <1>5 DEF Promote, learningVars
  <2> HIDE DEF d
  <2>3. Provenance(d)
    BY <2>1 DEF Provenance, ProvenanceInv
  <2> QED
    BY <1>0, <1>a, <2>2, <2>3 DEF ProvenanceInv
<1>6. ASSUME LearningStep PROVE ProvenanceInv'
  BY <1>1, <1>2, <1>3, <1>4, <1>5, <1>6
  DEF LearningStep, ObserveProcess, EvolveGenome, TakeProfile, CloseBoundary,
      learningVars, synthesisVars
<1>7. ASSUME StartStep \/ ExecutionStep PROVE ProvenanceInv'
  BY <1>1, <1>7
  DEF StartStep, ExecuteCapability, ExecuteDynamic, ExecutionStep, RunSkill, RunUnrecorded,
      Recompose, RejectExecution, FinishExecution, learningVars, synthesisVars
<1> QED
  BY <1>1, <1>6, <1>7 DEF PINext, piVars, learningVars, synthesisVars

\* Whatever capability is held or cached is made of graduated skills, each of
\* the genome that is named.
THEOREM CapabilityAlwaysHasProvenance == Spec => []CapabilityProvenance
<1>1. PIInit => ProvenanceInv
  BY DEF PIInit, ProvenanceInv
<1>2. ProvenanceInv => CapabilityProvenance
  BY DEF ProvenanceInv, Provenance, CapabilityProvenance
<1> QED
  BY <1>1, <1>2, SpecUsesPI, PITypeInit, PITypeNext, ProvenanceNext, PTL

-----------------------------------------------------------------------------
(* Evidence.                                                               *)

\* A profile that was taken stays below the tally, and so does what made a
\* process graduate.
EvidenceInv ==
  /\ \A p \in Processes : profile[p] # NULL =>
       /\ profile[p].executions <= tally[p].executions
       /\ profile[p].verified_successes <= tally[p].verified_successes
  /\ GraduatesEarnedIt

\* The tally of a process never shrinks.
LEMMA TallyGrows ==
  ASSUME PITypeOK, [PINext]_piVars, NEW p \in Processes
  PROVE  /\ tally'[p].executions >= tally[p].executions
         /\ tally'[p].verified_successes >= tally[p].verified_successes
<1>0. tally \in [Processes -> Profile]
  BY DEF PITypeOK
<1>1. CASE tally' = tally
  BY <1>0, <1>1 DEF Profile
<1>2. ASSUME NEW q \in Processes, NEW o \in Outcomes,
             tally' = [tally EXCEPT ![q] = Counted(tally[q], o)]
      PROVE  /\ tally'[p].executions >= tally[p].executions
             /\ tally'[p].verified_successes >= tally[p].verified_successes
  <2>1. CASE p = q
    BY <1>0, <1>2, <2>1, CountedType, InputsAssumption
  <2>2. CASE p # q
    BY <1>0, <1>2, <2>2 DEF Profile
  <2> QED
    BY <2>1, <2>2
<1> DEFINE Grows == /\ tally'[p].executions >= tally[p].executions
                    /\ tally'[p].verified_successes >= tally[p].verified_successes
<1>3. CASE LearningStep
  <2>1. ASSUME NEW q \in Processes, NEW o \in Outcomes, NEW b \in BOOLEAN,
               ObserveProcess(q, o, b)
        PROVE  Grows
    <3>1. tally' = [tally EXCEPT ![q] = Counted(tally[q], o)]
      BY <2>1 DEF ObserveProcess, Observe
    <3> QED
      BY <1>2, <3>1
  <2>2. CASE \/ \E q \in Processes : EvolveGenome(q) \/ TakeProfile(q)
             \/ \E q \in Processes, violations \in 0 .. maximum_violations + 1 :
                  \E evidence \in EvidenceFor(q) : Graduate(q, evidence, violations)
             \/ \E k \in CacheKeys : SynthesizeFromCache(k)
             \/ \E k \in CacheKeys, c \in Compositions : Synthesize(k, c)
             \/ \E c \in held, k \in CacheKeys, e \in PromotionEvidence : Promote(c, k, e)
             \/ CloseBoundary
    <3>1. tally' = tally
      BY <2>2 DEF EvolveGenome, TakeProfile, Graduate, SynthesizeFromCache, Synthesize,
                  Promote, CloseBoundary, learningVars
    <3> QED
      BY <1>1, <3>1
  <2> QED
    BY <1>3, <2>1, <2>2 DEF LearningStep
<1>4. CASE StartStep
  <2>1. tally' = tally
    BY <1>4 DEF StartStep, ExecuteCapability, ExecuteDynamic, learningVars
  <2> QED
    BY <1>1, <2>1
<1>5. CASE ExecutionStep
  <2>1. ASSUME NEW o \in Outcomes, NEW b \in BOOLEAN, RunSkill(o, b)
        PROVE  Grows
    <3>1. /\ exec.graph[cursor] \in Processes
          /\ tally' = [tally EXCEPT ![exec.graph[cursor]] = Counted(tally[exec.graph[cursor]], o)]
      BY <2>1, SelectedType DEF RunSkill, Observe
    <3> QED
      BY <1>2, <3>1
  <2>2. CASE \/ RunUnrecorded
             \/ \E q \in Processes : Recompose(q)
             \/ RejectExecution
             \/ FinishExecution
    <3>1. tally' = tally
      BY <2>2 DEF RunUnrecorded, Recompose, RejectExecution, FinishExecution, learningVars
    <3> QED
      BY <1>1, <3>1
  <2> QED
    BY <1>5, <2>1, <2>2 DEF ExecutionStep
<1>6. CASE UNCHANGED piVars
  BY <1>1, <1>6 DEF piVars, learningVars
<1> QED
  BY <1>3, <1>4, <1>5, <1>6 DEF PINext

LEMMA EvidenceNext ==
  PITypeOK /\ EvidenceInv /\ [PINext]_piVars => EvidenceInv'
<1> SUFFICES ASSUME PITypeOK, EvidenceInv, [PINext]_piVars PROVE EvidenceInv'
  OBVIOUS
<1>0. /\ PITypeOK'
      /\ \A p \in Processes : /\ tally'[p].executions >= tally[p].executions
                              /\ tally'[p].verified_successes >= tally[p].verified_successes
  BY PITypeNext, TallyGrows
<1>a. /\ \A p \in Processes :
           /\ tally[p].executions \in Nat /\ tally'[p].executions \in Nat
           /\ tally[p].verified_successes \in Nat /\ tally'[p].verified_successes \in Nat
           /\ profile[p] # NULL => /\ profile[p].executions \in Nat
                                   /\ profile[p].verified_successes \in Nat
      /\ execution_count \in Nat /\ verified_success_count \in Nat
      /\ profile \in [Processes -> Profile \cup {NULL}]
      /\ \A g \in graduated : g.process \in Processes
  BY <1>0, ThresholdsAssumption DEF PITypeOK, Profile
<1>1. ASSUME UNCHANGED <<profile, graduated>> PROVE EvidenceInv'
  BY <1>0, <1>a, <1>1 DEF EvidenceInv, GraduatesEarnedIt
<1>2. ASSUME NEW p \in Processes, TakeProfile(p) PROVE EvidenceInv'
  <2>1. /\ profile' = [profile EXCEPT ![p] = tally[p]]
        /\ tally' = tally /\ graduated' = graduated
    BY <1>2 DEF TakeProfile
  <2> QED
    BY <1>0, <1>a, <2>1 DEF EvidenceInv, GraduatesEarnedIt
<1>3. ASSUME NEW p \in Processes, NEW v \in 0 .. maximum_violations + 1,
             NEW e \in EvidenceFor(p), Graduate(p, e, v)
      PROVE  EvidenceInv'
  <2> DEFINE new == [process |-> p, genome |-> genome[p], source |-> e.source,
                     stated |-> e.stated]
  <2>1. /\ profile' = profile /\ tally' = tally /\ graduated' = graduated \cup {new}
        /\ "execution_count" \in e.stated => e.counts.executions >= execution_count
        /\ "verified_success_count" \in e.stated =>
             e.counts.verified_successes >= verified_success_count
    BY <1>3 DEF Graduate, Eligible
  <2>2. new.process = p /\ new.source = e.source /\ new.stated = e.stated
    OBVIOUS
  <2> HIDE DEF new
  <2>3. e.source \in {"tracker", "caller"}
        /\ (e.source = "tracker" => profile[p] # NULL /\ e.counts = profile[p])
    BY EvidenceType DEF Evidence
  <2>4. e.source = "tracker" =>
          /\ "execution_count" \in e.stated => tally[p].executions >= execution_count
          /\ "verified_success_count" \in e.stated =>
               tally[p].verified_successes >= verified_success_count
    BY <1>a, <2>1, <2>3 DEF EvidenceInv
  <2>5. GraduatesEarnedIt'
    BY <2>1, <2>2, <2>3, <2>4 DEF EvidenceInv, GraduatesEarnedIt
  <2> QED
    BY <2>1, <2>5 DEF EvidenceInv
<1> QED
  BY <1>1, <1>2, <1>3
  DEF PINext, LearningStep, ObserveProcess, EvolveGenome, SynthesizeFromCache,
      Synthesize, Promote, CloseBoundary, StartStep, ExecuteCapability, ExecuteDynamic,
      ExecutionStep, RunSkill, RunUnrecorded, Recompose, RejectExecution, FinishExecution,
      learningVars, piVars

\* A process that graduated has the records it takes, however old the profile
\* that was presented for it, unless its caller made the counts up or left
\* the field out.
THEOREM GraduatesAlwaysEarnedIt == Spec => []GraduatesEarnedIt
<1>1. PIInit => EvidenceInv
  BY DEF PIInit, EvidenceInv, GraduatesEarnedIt
<1>2. EvidenceInv => GraduatesEarnedIt
  BY DEF EvidenceInv
<1> QED
  BY <1>1, <1>2, SpecUsesPI, PITypeInit, PITypeNext, EvidenceNext, PTL

\* One record changes both accounts by the same amount, or is missed.
LEMMA CreditNext ==
  PITypeOK /\ CreditAgrees /\ [PINext]_piVars => CreditAgrees'
<1> SUFFICES ASSUME PITypeOK, CreditAgrees, [PINext]_piVars PROVE CreditAgrees'
  OBVIOUS
<1>1. ASSUME UNCHANGED <<learned, credited, missed>> PROVE CreditAgrees'
  BY <1>1 DEF CreditAgrees
<1>2. ASSUME NEW p \in Processes, NEW o \in Outcomes, NEW b \in BOOLEAN, Observe(p, o, b)
      PROVE  CreditAgrees'
  <2> DEFINE x == IF o.verified THEN credit(o) ELSE 0
  <2>2. x \in Int /\ reinforcement(toSynaptizerEvent(o)) = x
    BY CreditTypes, InputsAssumption
  <2>3. learned \in [Processes -> Int] /\ credited \in [Processes -> Int]
    BY DEF PITypeOK
  <2>4. credited' = [credited EXCEPT ![p] = credited[p] + x]
    BY <1>2 DEF Observe
  <2>5. CASE subscribed /\ b
    <3>1. learned' = [learned EXCEPT ![p] = learned[p] + x] /\ missed' = missed
      BY <1>2, <2>2, <2>5 DEF Observe
    <3> HIDE DEF x
    <3> QED
      BY <2>2, <2>3, <2>4, <3>1 DEF CreditAgrees
  <2>6. CASE ~(subscribed /\ b)
    <3>1. learned' = [learned EXCEPT ![p] = learned[p] + 0] /\ missed' = missed \cup {p}
      BY <1>2, <2>6 DEF Observe
    <3> HIDE DEF x
    <3> QED
      BY <2>2, <2>3, <2>4, <3>1 DEF CreditAgrees
  <2> QED
    BY <2>5, <2>6
<1>3. ASSUME NEW o \in Outcomes, NEW b \in BOOLEAN, RunSkill(o, b) PROVE CreditAgrees'
  BY <1>2, <1>3, SelectedType DEF RunSkill
<1> QED
  BY <1>1, <1>2, <1>3
  DEF PINext, LearningStep, ObserveProcess, EvolveGenome, TakeProfile, Graduate,
      SynthesizeFromCache, Synthesize, Promote, CloseBoundary, StartStep,
      ExecuteCapability, ExecuteDynamic, ExecutionStep, RunUnrecorded, Recompose,
      RejectExecution, FinishExecution, feedVars, piVars

\* The credit and the reinforcement of a skill agree unless a record was lost.
THEOREM CreditAlwaysAgrees == Spec => []CreditAgrees
<1>1. PIInit => CreditAgrees
  BY DEF PIInit, CreditAgrees
<1> QED
  BY <1>1, SpecUsesPI, PITypeInit, PITypeNext, CreditNext, PTL

-----------------------------------------------------------------------------
(* Executions.                                                             *)

\* What one step does to the execution, field by field.
RunsTo(ran, recorded, completed, status) ==
  /\ exec'.ran = ran /\ exec'.recorded = recorded
  /\ exec'.completed = completed /\ exec'.status = status
  /\ exec'.initial = exec.initial /\ exec'.graph = exec.graph /\ exec'.events = exec.events

\* The kinds of steps an execution takes.
LEMMA ExecutionCases ==
  ASSUME PITypeOK, [PINext]_piVars
  PROVE  \/ exec' = exec
         \/ \E m \in {"capability", "dynamic"}, g \in Seq(Processes) : exec' = StartedOn(m, g)
         \/ /\ Iterates
            /\ LET p == exec.graph[cursor]
               IN \/ RunsTo(Append(exec.ran, p), Append(exec.recorded, p),
                            Append(exec.completed, p), "running")
                  \/ RunsTo(Append(exec.ran, p), Append(exec.recorded, p),
                            exec.completed, "rejected")
                  \/ RunsTo(Append(exec.ran, p), exec.recorded, exec.completed, "rejected")
         \/ \E q \in Processes : Recompose(q)
         \/ exec.status = "running" /\ RunsTo(exec.ran, exec.recorded, exec.completed, "rejected")
         \/ FinishExecution
<1>0. exec \in Execution
  BY DEF PITypeOK
<1>1. ASSUME NEW o \in Outcomes, NEW b \in BOOLEAN, RunSkill(o, b)
      PROVE  /\ Iterates
             /\ LET p == exec.graph[cursor]
                IN \/ RunsTo(Append(exec.ran, p), Append(exec.recorded, p),
                             Append(exec.completed, p), "running")
                   \/ RunsTo(Append(exec.ran, p), Append(exec.recorded, p),
                             exec.completed, "rejected")
  <2> DEFINE p == exec.graph[cursor]
             goesOn == o.success /\ (subscribed => b)
  <2>1. Iterates /\
        exec' = [exec EXCEPT
          !.ran = Append(exec.ran, p), !.recorded = Append(exec.recorded, p),
          !.visitedGraphs = visitedNow,
          !.completed = IF goesOn THEN Append(exec.completed, p) ELSE exec.completed,
          !.status = IF goesOn THEN "running" ELSE "rejected"]
    BY <1>1 DEF RunSkill
  <2> HIDE DEF p, goesOn
  <2>2. CASE goesOn
    <3>1. RunsTo(Append(exec.ran, p), Append(exec.recorded, p),
                 Append(exec.completed, p), "running")
      BY <1>0, <2>1, <2>2 DEF RunsTo, Execution
    <3> QED
      BY <2>1, <3>1 DEF p
  <2>3. CASE ~goesOn
    <3>1. RunsTo(Append(exec.ran, p), Append(exec.recorded, p), exec.completed, "rejected")
      BY <1>0, <2>1, <2>3 DEF RunsTo, Execution
    <3> QED
      BY <2>1, <3>1 DEF p
  <2> QED
    BY <2>2, <2>3
<1>2. ASSUME RunUnrecorded
      PROVE  /\ Iterates
             /\ RunsTo(Append(exec.ran, exec.graph[cursor]), exec.recorded,
                       exec.completed, "rejected")
  BY <1>0, <1>2 DEF RunUnrecorded, RunsTo, Execution
<1>3. ASSUME RejectExecution
      PROVE  /\ exec.status = "running"
             /\ RunsTo(exec.ran, exec.recorded, exec.completed, "rejected")
  BY <1>0, <1>3 DEF RejectExecution, RunsTo, Execution
<1>4. ASSUME StartStep
      PROVE  \E m \in {"capability", "dynamic"}, g \in Seq(Processes) : exec' = StartedOn(m, g)
  BY <1>4, InputsAssumption
  DEF StartStep, ExecuteCapability, ExecuteDynamic, PITypeOK, Capability
<1>5. ASSUME LearningStep PROVE exec' = exec
  BY <1>5 DEF LearningStep, ObserveProcess, EvolveGenome, TakeProfile, Graduate,
     SynthesizeFromCache, Synthesize, Promote, CloseBoundary
<1> QED
  BY <1>1, <1>2, <1>3, <1>4, <1>5 DEF PINext, ExecutionStep, piVars

\* The fields of an execution that starts.
LEMMA StartedFields ==
  ASSUME NEW m, NEW g
  PROVE  /\ StartedOn(m, g).initial = g /\ StartedOn(m, g).graph = g
         /\ StartedOn(m, g).completed = <<>> /\ StartedOn(m, g).events = <<>>
         /\ StartedOn(m, g).ran = <<>> /\ StartedOn(m, g).recorded = <<>>
         /\ StartedOn(m, g).status = "running"
BY DEF StartedOn

\* What a recomposition leaves alone.
LEMMA RecomposeFields ==
  ASSUME PITypeOK, NEW q \in Processes, Recompose(q)
  PROVE  LET g == [exec.graph EXCEPT ![cursor] = q]
         IN /\ Iterates
            /\ exec'.graph = g
            /\ exec'.events = Append(exec.events, [replaced |-> exec.graph[cursor],
                                                   selected |-> q, graph_root |-> g])
            /\ exec'.ran = exec.ran /\ exec'.recorded = exec.recorded
            /\ exec'.completed = exec.completed /\ exec'.status = exec.status
            /\ exec'.initial = exec.initial
<1>1. exec \in Execution
  BY DEF PITypeOK
<1> QED
  BY <1>1 DEF Recompose, Execution

LEMMA FinishFields ==
  ASSUME PITypeOK, FinishExecution
  PROVE  /\ exec.status = "running" /\ Len(exec.graph) < cursor
         /\ RunsTo(exec.ran, exec.recorded, exec.completed, "done")
<1>1. exec \in Execution
  BY DEF PITypeOK
<1>2. Len(exec.graph) \in Nat /\ Len(exec.completed) \in Nat
  BY <1>1 DEF Execution
<1> QED
  BY <1>1, <1>2 DEF FinishExecution, Execution, RunsTo, cursor

\* The completed skills are those of the graph up to the cursor.
LEMMA PrefixNext ==
  PITypeOK /\ CompletedIsGraphPrefix /\ [PINext]_piVars => CompletedIsGraphPrefix'
<1> SUFFICES ASSUME PITypeOK, CompletedIsGraphPrefix, [PINext]_piVars
             PROVE  CompletedIsGraphPrefix'
  OBVIOUS
<1> DEFINE p == exec.graph[cursor]
<1>0. exec.graph \in Seq(Processes) /\ exec.completed \in Seq(Processes)
  BY DEF PITypeOK, Execution
<1>a. /\ Len(exec.completed) <= Len(exec.graph)
      /\ \A i \in DOMAIN exec.completed : exec.completed[i] = exec.graph[i]
  BY DEF CompletedIsGraphPrefix
<1>1. CASE exec' = exec
  BY <1>1 DEF CompletedIsGraphPrefix
<1>2. ASSUME NEW m \in {"capability", "dynamic"}, NEW g \in Seq(Processes), exec' = StartedOn(m, g)
      PROVE  CompletedIsGraphPrefix'
  BY <1>2, StartedFields, EmptySeq, LenProperties DEF CompletedIsGraphPrefix
<1>3. ASSUME NEW x, NEW y, Iterates, RunsTo(x, y, Append(exec.completed, p), "running")
      PROVE  CompletedIsGraphPrefix'
  <2>1. p \in Processes /\ cursor \in 1 .. Len(exec.graph) /\ cursor = Len(exec.completed) + 1
    BY <1>3, SelectedType DEF cursor
  <2>2. /\ exec'.completed = Append(exec.completed, p) /\ exec'.graph = exec.graph
        /\ exec'.status = "running"
    BY <1>3 DEF RunsTo
  <2>3. /\ Len(Append(exec.completed, p)) = cursor
        /\ DOMAIN Append(exec.completed, p) = 1 .. cursor
        /\ \A i \in 1 .. cursor :
             Append(exec.completed, p)[i] = IF i = cursor THEN p ELSE exec.completed[i]
    BY <1>0, <2>1, AppendProperties
  <2>4. \A i \in 1 .. cursor : Append(exec.completed, p)[i] = exec.graph[i]
    BY <1>0, <1>a, <2>1, <2>3
  <2> HIDE DEF p
  <2> QED
    BY <1>0, <2>1, <2>2, <2>3, <2>4 DEF CompletedIsGraphPrefix
<1>4. ASSUME NEW x, NEW y, RunsTo(x, y, exec.completed, "rejected") PROVE CompletedIsGraphPrefix'
  BY <1>a, <1>4 DEF RunsTo, CompletedIsGraphPrefix
<1>5. ASSUME NEW q \in Processes, Recompose(q) PROVE CompletedIsGraphPrefix'
  <2> DEFINE g == [exec.graph EXCEPT ![cursor] = q]
  <2>1. Iterates /\ exec'.graph = g /\ exec'.completed = exec.completed
    BY <1>5, RecomposeFields
  <2>2. cursor \in 1 .. Len(exec.graph) /\ cursor = Len(exec.completed) + 1
    BY <2>1, SelectedType DEF cursor
  <2>3. /\ Len(g) = Len(exec.graph)
        /\ \A i \in 1 .. Len(exec.graph) : i # cursor => g[i] = exec.graph[i]
    BY <1>0, <2>2, ExceptSeq
  <2>4. exec'.status = "running"
    BY <1>5, <2>1, RecomposeFields DEF Iterates
  <2> HIDE DEF g
  <2>5. \A i \in DOMAIN exec.completed : exec.completed[i] = g[i]
    BY <1>0, <1>a, <2>2, <2>3
  <2> QED
    BY <1>a, <2>1, <2>3, <2>4, <2>5 DEF CompletedIsGraphPrefix
<1>6. CASE FinishExecution
  <2>1. /\ Len(exec.graph) < cursor /\ cursor = Len(exec.completed) + 1
        /\ exec'.completed = exec.completed /\ exec'.graph = exec.graph
    BY <1>6, FinishFields DEF RunsTo, cursor
  <2>2. Len(exec.completed) = Len(exec.graph)
    BY <1>0, <1>a, <2>1
  <2>3. exec.completed = exec.graph
    BY <1>0, <1>a, <2>2, SeqEqual
  <2> QED
    BY <1>a, <2>1, <2>3 DEF CompletedIsGraphPrefix
<1> QED
  BY <1>1, <1>2, <1>3, <1>4, <1>5, <1>6, ExecutionCases

\* Recomposition never rewrites what was executed, and an execution that is
\* done has completed its graph.
THEOREM CompletedAlwaysGraphPrefix == Spec => []CompletedIsGraphPrefix
<1>1. PIInit => CompletedIsGraphPrefix
  BY EmptySeq DEF PIInit, NoExecution, CompletedIsGraphPrefix
<1> QED
  BY <1>1, SpecUsesPI, PITypeInit, PITypeNext, PrefixNext, PTL

\* A slot that differs from the initial graph has been reached, and its skill
\* is in no slot before it.
BroughtInv ==
  \A j \in DOMAIN exec.graph : exec.graph[j] # exec.initial[j] =>
    /\ j <= cursor
    /\ \A i \in DOMAIN exec.graph : i < j => exec.graph[i] # exec.graph[j]

LEMMA BroughtNext ==
  PITypeOK /\ CompletedIsGraphPrefix /\ BroughtInv /\ [PINext]_piVars => BroughtInv'
<1> SUFFICES ASSUME PITypeOK, CompletedIsGraphPrefix, BroughtInv, [PINext]_piVars
             PROVE  BroughtInv'
  OBVIOUS
<1> DEFINE p == exec.graph[cursor]
<1>0. /\ exec.graph \in Seq(Processes) /\ exec.completed \in Seq(Processes)
      /\ Len(exec.graph) \in Nat /\ Len(exec.completed) \in Nat
      /\ DOMAIN exec.graph = 1 .. Len(exec.graph)
      /\ DOMAIN exec.completed = 1 .. Len(exec.completed)
      /\ cursor = Len(exec.completed) + 1
  BY LenProperties DEF PITypeOK, Execution, cursor
<1>1. CASE exec' = exec
  BY <1>1 DEF BroughtInv, cursor
<1>2. ASSUME NEW m \in {"capability", "dynamic"}, NEW g \in Seq(Processes), exec' = StartedOn(m, g)
      PROVE  BroughtInv'
  BY <1>2, StartedFields DEF BroughtInv
<1>3. ASSUME exec'.graph = exec.graph, exec'.initial = exec.initial, cursor' >= cursor, cursor' \in Nat
      PROVE  BroughtInv'
  <2>1. \A j \in DOMAIN exec.graph : j <= cursor => j <= cursor'
    BY <1>0, <1>3
  <2> QED
    BY <1>3, <2>1 DEF BroughtInv
<1>4. ASSUME NEW x, NEW y, Iterates, RunsTo(x, y, Append(exec.completed, p), "running")
      PROVE  BroughtInv'
  <2>1. p \in Processes
    BY <1>4, SelectedType
  <2>2. exec'.completed = Append(exec.completed, p)
    BY <1>4 DEF RunsTo
  <2>3. Len(Append(exec.completed, p)) = Len(exec.completed) + 1
    BY <1>0, <2>1, AppendProperties
  <2>4. cursor' = Len(exec.completed) + 2
    BY <1>0, <2>2, <2>3 DEF cursor
  <2>5. exec'.graph = exec.graph /\ exec'.initial = exec.initial
    BY <1>4 DEF RunsTo
  <2> QED
    BY <1>0, <1>3, <2>4, <2>5
<1>5. ASSUME NEW x, NEW y, NEW z, RunsTo(x, y, exec.completed, z) PROVE BroughtInv'
  <2>1. /\ exec'.graph = exec.graph /\ exec'.initial = exec.initial
        /\ exec'.completed = exec.completed
    BY <1>5 DEF RunsTo
  <2> QED
    BY <1>0, <1>3, <2>1 DEF cursor
<1>6. ASSUME NEW q \in Processes, Recompose(q) PROVE BroughtInv'
  <2> DEFINE g == [exec.graph EXCEPT ![cursor] = q]
  <2>1. /\ Iterates /\ exec'.graph = g /\ exec'.completed = exec.completed
        /\ exec'.initial = exec.initial
    BY <1>6, RecomposeFields
  <2>2. cursor \in DOMAIN exec.graph /\ cursor' = cursor
    BY <1>0, <2>1, SelectedType DEF cursor
  <2>3. /\ DOMAIN g = DOMAIN exec.graph /\ g[cursor] = q
        /\ \A i \in DOMAIN exec.graph : i # cursor => g[i] = exec.graph[i]
    BY <1>0, <2>2
  <2>4. \A i \in DOMAIN exec.graph : i < cursor => exec.graph[i] # q
    <3>1. \A i \in DOMAIN exec.completed : exec.completed[i] # q /\ exec.completed[i] = exec.graph[i]
      BY <1>6 DEF Recompose, CompletedIsGraphPrefix
    <3> QED
      BY <1>0, <3>1
  <2> HIDE DEF g
  <2> SUFFICES ASSUME NEW j \in DOMAIN exec.graph, g[j] # exec.initial[j]
               PROVE  /\ j <= cursor
                      /\ \A i \in DOMAIN exec.graph : i < j => g[i] # g[j]
    BY <2>1, <2>2, <2>3 DEF BroughtInv
  <2>5. CASE j = cursor
    BY <1>0, <2>3, <2>4, <2>5
  <2>6. CASE j # cursor
    <3>1. /\ j <= cursor
          /\ \A i \in DOMAIN exec.graph : i < j => exec.graph[i] # exec.graph[j]
      BY <2>3, <2>6 DEF BroughtInv
    <3> QED
      BY <1>0, <2>3, <2>6, <3>1
  <2> QED
    BY <2>5, <2>6
<1>7. CASE FinishExecution
  BY <1>5, <1>7, FinishFields
<1> QED
  BY <1>1, <1>2, <1>4, <1>5, <1>6, <1>7, ExecutionCases

\* No skill is brought in by recomposition after it has run.
THEOREM SkillsAlwaysBroughtInOnce == Spec => []BroughtInOnce
<1>1. PIInit => BroughtInv
  BY DEF PIInit, BroughtInv, NoExecution
<1>2. PITypeOK /\ CompletedIsGraphPrefix /\ BroughtInv => BroughtInOnce
  <2> SUFFICES ASSUME PITypeOK, CompletedIsGraphPrefix, BroughtInv PROVE BroughtInOnce
    OBVIOUS
  <2>1. DOMAIN exec.completed \subseteq DOMAIN exec.graph
    BY LenProperties DEF PITypeOK, Execution, CompletedIsGraphPrefix
  <2> QED
    BY <2>1 DEF BroughtInv, BroughtInOnce, CompletedIsGraphPrefix
<1> QED
  BY <1>1, <1>2, BroughtNext, SpecUsesPI, PITypeCorrect, CompletedAlwaysGraphPrefix, PTL

\* While an execution runs, all its effects are recorded.
EffectsInv ==
  /\ OnlyLastEffectUnrecorded
  /\ exec.status = "running" => exec.ran = exec.recorded

LEMMA EffectsNext ==
  PITypeOK /\ EffectsInv /\ [PINext]_piVars => EffectsInv'
<1> SUFFICES ASSUME PITypeOK, EffectsInv, [PINext]_piVars PROVE EffectsInv'
  OBVIOUS
<1> DEFINE p == exec.graph[cursor]
<1>0. exec.ran \in Seq(Processes) /\ exec.recorded \in Seq(Processes)
  BY DEF PITypeOK, Execution
<1>a. ASSUME NEW s \in Seq(Processes), exec'.ran = s, exec'.recorded = s
      PROVE  EffectsInv'
  <2>1. s = SubSeq(s, 1, Len(s))
    BY SubSeqFull
  <2> QED
    BY <1>a, <2>1 DEF EffectsInv, OnlyLastEffectUnrecorded
<1>1. CASE exec' = exec
  BY <1>1 DEF EffectsInv, OnlyLastEffectUnrecorded
<1>2. ASSUME NEW m \in {"capability", "dynamic"}, NEW g \in Seq(Processes), exec' = StartedOn(m, g)
      PROVE  EffectsInv'
  <2>1. <<>> \in Seq(Processes)
    BY EmptySeq
  <2>2. exec'.ran = <<>> /\ exec'.recorded = <<>>
    BY <1>2, StartedFields
  <2> QED
    BY <1>a, <2>1, <2>2
<1>3. ASSUME Iterates
      PROVE  /\ exec.ran = exec.recorded /\ p \in Processes
             /\ Append(exec.ran, p) \in Seq(Processes)
             /\ Len(Append(exec.ran, p)) = Len(exec.ran) + 1
             /\ SubSeq(Append(exec.ran, p), 1, Len(exec.ran)) = exec.ran
  <2>1. exec.ran = exec.recorded /\ p \in Processes
    BY <1>3, SelectedType DEF EffectsInv, Iterates
  <2> HIDE DEF p
  <2>2. /\ Append(exec.ran, p) \in Seq(Processes)
        /\ Len(Append(exec.ran, p)) = Len(exec.ran) + 1
        /\ \A i \in 1 .. Len(exec.ran) : Append(exec.ran, p)[i] = exec.ran[i]
    BY <1>0, <2>1, AppendProperties
  <2> DEFINE t == SubSeq(Append(exec.ran, p), 1, Len(exec.ran))
  <2>3. /\ t \in Seq(Processes) /\ Len(t) = Len(exec.ran)
        /\ \A i \in 1 .. Len(exec.ran) : t[i] = exec.ran[i]
    BY <1>0, <2>2
  <2>4. t = exec.ran
    BY <1>0, <2>3, SeqEqual
  <2> QED
    BY <2>1, <2>2, <2>4
<1>4. ASSUME NEW c, NEW st, Iterates,
             RunsTo(Append(exec.ran, p), Append(exec.recorded, p), c, st)
      PROVE  EffectsInv'
  BY <1>3, <1>4, <1>a DEF RunsTo
<1>5. ASSUME Iterates, RunsTo(Append(exec.ran, p), exec.recorded, exec.completed, "rejected")
      PROVE  EffectsInv'
  <2>1. /\ exec'.ran = Append(exec.ran, p) /\ exec'.recorded = exec.ran
        /\ exec'.status = "rejected"
    BY <1>3, <1>5 DEF RunsTo
  <2> QED
    BY <1>3, <1>5, <2>1 DEF EffectsInv, OnlyLastEffectUnrecorded
<1>6. ASSUME NEW st, exec.status = "running", RunsTo(exec.ran, exec.recorded, exec.completed, st)
      PROVE  EffectsInv'
  BY <1>0, <1>6, <1>a DEF RunsTo, EffectsInv
<1>7. ASSUME NEW q \in Processes, Recompose(q) PROVE EffectsInv'
  BY <1>0, <1>7, <1>a, RecomposeFields DEF EffectsInv, Iterates
<1> QED
  BY <1>1, <1>2, <1>4, <1>5, <1>6, <1>7, ExecutionCases, FinishFields

\* An effect without a record is the last effect of a rejected execution.
THEOREM OnlyLastEffectEverUnrecorded == Spec => []OnlyLastEffectUnrecorded
<1>1. PIInit => EffectsInv
  BY SubSeqEmpty, EmptySeq DEF PIInit, NoExecution, EffectsInv, OnlyLastEffectUnrecorded
<1>2. EffectsInv => OnlyLastEffectUnrecorded
  BY DEF EffectsInv
<1> QED
  BY <1>1, <1>2, SpecUsesPI, PITypeInit, PITypeNext, EffectsNext, PTL

\* An execution that runs on or is done has a record of what it completed.
RecordedInv ==
  exec.status \in {"running", "done"} => exec.recorded = exec.completed

LEMMA RecordedNext ==
  PITypeOK /\ RecordedInv /\ [PINext]_piVars => RecordedInv'
<1> SUFFICES ASSUME PITypeOK, RecordedInv, [PINext]_piVars PROVE RecordedInv'
  OBVIOUS
<1>1. CASE exec' = exec
  BY <1>1 DEF RecordedInv
<1>2. ASSUME NEW m, NEW g, exec' = StartedOn(m, g) PROVE RecordedInv'
  BY <1>2, StartedFields DEF RecordedInv
<1>3. ASSUME NEW x, NEW y, NEW z, RunsTo(x, y, z, "rejected") PROVE RecordedInv'
  BY <1>3 DEF RunsTo, RecordedInv
<1>4. ASSUME NEW x, NEW q, Iterates,
             RunsTo(x, Append(exec.recorded, q), Append(exec.completed, q), "running")
      PROVE  RecordedInv'
  BY <1>4 DEF RunsTo, Iterates, RecordedInv
<1>5. ASSUME NEW q \in Processes, Recompose(q) PROVE RecordedInv'
  <2>1. /\ exec'.recorded = exec.recorded /\ exec'.completed = exec.completed
        /\ exec'.status = exec.status
    BY <1>5, RecomposeFields
  <2> QED
    BY <2>1 DEF RecordedInv
<1>6. CASE FinishExecution
  BY <1>6, FinishFields DEF RunsTo, RecordedInv
<1> QED
  BY <1>1, <1>2, <1>3, <1>4, <1>5, <1>6, ExecutionCases

LEMMA RecordedAlways == Spec => []RecordedInv
<1>1. PIInit => RecordedInv
  BY DEF PIInit, NoExecution, RecordedInv
<1> QED
  BY <1>1, SpecUsesPI, PITypeInit, PITypeNext, RecordedNext, PTL

\* The graph before event k, and what it is for events to explain a graph.
Before(initial, events, k) == IF k = 1 THEN initial ELSE events[k - 1].graph_root

OneSlot(before, e) ==
  \E i \in DOMAIN before : /\ before[i] = e.replaced
                           /\ e.graph_root = [before EXCEPT ![i] = e.selected]

Explained(initial, events, graph) ==
  /\ graph = Before(initial, events, Len(events) + 1)
  /\ \A k \in DOMAIN events : OneSlot(Before(initial, events, k), events[k])

LEMMA ExplainedIsProperty ==
  EventsExplainGraph <=> Explained(exec.initial, exec.events, exec.graph)
BY DEF EventsExplainGraph, GraphBefore, Explained, OneSlot, Before

\* An event that changes one slot of the graph explains the graph it leads to.
LEMMA ExplainedAppend ==
  ASSUME NEW initial, NEW events \in Seq(Event), NEW graph, NEW e \in Event,
         Explained(initial, events, graph), OneSlot(graph, e)
  PROVE  Explained(initial, Append(events, e), e.graph_root)
<1> DEFINE n == Len(events)
           more == Append(events, e)
<1>1. n \in Nat /\ DOMAIN events = 1 .. n
  BY LenProperties
<1>2. /\ Len(more) = n + 1 /\ DOMAIN more = 1 .. n + 1
      /\ more[n + 1] = e /\ \A k \in 1 .. n : more[k] = events[k]
  BY <1>1, AppendProperties
<1> HIDE DEF n, more
<1>3. \A k \in 1 .. n + 1 : Before(initial, more, k) = Before(initial, events, k)
  <2>1. \A k \in 1 .. n + 1 : k # 1 => k - 1 \in 1 .. n
    BY <1>1
  <2> QED
    BY <1>2, <2>1 DEF Before
<1>4. Before(initial, events, n + 1) = graph
  BY DEF Explained, n
<1>5. Before(initial, more, n + 2) = e.graph_root
  BY <1>1, <1>2 DEF Before
<1>6. ASSUME NEW k \in 1 .. n + 1 PROVE OneSlot(Before(initial, more, k), more[k])
  <2>1. CASE k = n + 1
    BY <1>2, <1>3, <1>4, <2>1
  <2>2. CASE k # n + 1
    <3>1. k \in 1 .. n
      BY <1>1, <2>2
    <3>2. OneSlot(Before(initial, events, k), events[k])
      BY <1>1, <3>1 DEF Explained
    <3> QED
      BY <1>2, <1>3, <3>1, <3>2
  <2> QED
    BY <2>1, <2>2
<1>7. Len(more) + 1 = n + 2
  BY <1>1, <1>2
<1>8. Explained(initial, more, e.graph_root)
  BY <1>2, <1>5, <1>6, <1>7 DEF Explained
<1> QED
  BY <1>8 DEF more

\* Only recompositions change the graph, each by an event of one slot.
LEMMA EventsNext ==
  PITypeOK /\ EventsExplainGraph /\ [PINext]_piVars => EventsExplainGraph'
<1> SUFFICES ASSUME PITypeOK, EventsExplainGraph, [PINext]_piVars
             PROVE  EventsExplainGraph'
  OBVIOUS
<1>0. /\ exec.graph \in Seq(Processes) /\ exec.events \in Seq(Event)
      /\ Explained(exec.initial, exec.events, exec.graph)
  BY ExplainedIsProperty DEF PITypeOK, Execution
<1>a. SUFFICES Explained(exec'.initial, exec'.events, exec'.graph)
  BY DEF EventsExplainGraph, GraphBefore, Explained, OneSlot, Before
<1>1. ASSUME exec'.graph = exec.graph, exec'.initial = exec.initial, exec'.events = exec.events
      PROVE  Explained(exec'.initial, exec'.events, exec'.graph)
  BY <1>0, <1>1
<1>2. ASSUME NEW m \in {"capability", "dynamic"}, NEW g \in Seq(Processes), exec' = StartedOn(m, g)
      PROVE  Explained(exec'.initial, exec'.events, exec'.graph)
  <2>1. exec'.graph = g /\ exec'.initial = g /\ exec'.events = <<>>
    BY <1>2, StartedFields
  <2>2. Explained(g, <<>>, g)
    BY DEF Explained, Before
  <2> QED
    BY <2>1, <2>2
<1>3. ASSUME NEW q \in Processes, Recompose(q)
      PROVE  Explained(exec'.initial, exec'.events, exec'.graph)
  <2> DEFINE g == [exec.graph EXCEPT ![cursor] = q]
             e == [replaced |-> exec.graph[cursor], selected |-> q, graph_root |-> g]
  <2>1. /\ Iterates /\ exec'.graph = g /\ exec'.initial = exec.initial
        /\ exec'.events = Append(exec.events, e)
    BY <1>3, RecomposeFields
  <2>2. exec.graph[cursor] \in Processes /\ cursor \in 1 .. Len(exec.graph)
    BY <2>1, SelectedType
  <2>3. g \in Seq(Processes)
    BY <1>0, <2>2, ExceptSeq
  <2>4. e \in Event /\ e.graph_root = g
    BY <2>2, <2>3 DEF Event
  <2>5. cursor \in DOMAIN exec.graph
    BY <1>0, <2>2
  <2>6. OneSlot(exec.graph, e)
    BY <2>5 DEF OneSlot
  <2> HIDE DEF g, e
  <2> QED
    BY <1>0, <2>1, <2>4, <2>6, ExplainedAppend
<1>4. ASSUME NEW x, NEW y, NEW z, NEW st, RunsTo(x, y, z, st)
      PROVE  Explained(exec'.initial, exec'.events, exec'.graph)
  BY <1>1, <1>4 DEF RunsTo
<1>5. CASE exec' = exec
  BY <1>1, <1>5
<1> QED
  BY <1>2, <1>3, <1>4, <1>5, ExecutionCases, FinishFields

\* The recompilation events explain the graph of every execution.
THEOREM EventsAlwaysExplainGraph == Spec => []EventsExplainGraph
<1>1. PIInit => EventsExplainGraph
  BY EmptySeq DEF PIInit, NoExecution, EventsExplainGraph, GraphBefore
<1> QED
  BY <1>1, SpecUsesPI, PITypeInit, PITypeNext, EventsNext, PTL

-----------------------------------------------------------------------------
(* Runs of plans.                                                          *)

\* Between executions nobody is in the process runtime, and a run that is in
\* it is the one that entered it.
OneRunInProcess ==
  \A r \in Runs : phase[r] = "in_process" <=> exec.status = "running" /\ caller = r

RuntimeInv ==
  /\ phase \in [Runs -> {"idle", "executing", "in_process", "completed", "failed"}]
  /\ caller \in Runs \cup {NULL}
  /\ exec.status # "running" => caller = NULL
  /\ OneRunInProcess

LEMMA RuntimeNext ==
  PITypeOK /\ RuntimeInv /\ [Next]_vars => RuntimeInv'
<1> SUFFICES ASSUME PITypeOK, RuntimeInv, [Next]_vars PROVE RuntimeInv'
  OBVIOUS
<1> USE DescriptorsAssumption
<1>1. ASSUME UNCHANGED <<exec, phase, caller>> PROVE RuntimeInv'
  BY <1>1 DEF RuntimeInv, OneRunInProcess
<1>2. ASSUME NEW r \in Runs, NEW st \in {"executing", "completed", "failed"},
             Idle, phase' = [phase EXCEPT ![r] = st], UNCHANGED <<exec, caller>>
      PROVE  RuntimeInv'
  BY <1>2 DEF RuntimeInv, OneRunInProcess, Idle
<1>3. ASSUME NEW r \in Runs, ActivateProcess(r) PROVE RuntimeInv'
  <2>1. /\ exec.status # "running" /\ exec'.status = "running"
        /\ caller' = r /\ phase' = [phase EXCEPT ![r] = "in_process"]
    BY <1>3, StartedFields DEF ActivateProcess, Resumable, Idle, ExecuteCapability, ExecuteDynamic
  <2> QED
    BY <2>1 DEF RuntimeInv, OneRunInProcess
<1>4. ASSUME ProcessStep PROVE RuntimeInv'
  <2>1. exec.status = "running"
    BY <1>4 DEF ProcessStep, ExecutionStep, RunSkill, RunUnrecorded, Recompose,
       RejectExecution, FinishExecution, Iterates
  <2>2. CASE exec'.status = "running" \/ caller = NULL
    BY <1>4, <2>1, <2>2 DEF ProcessStep, RuntimeInv, OneRunInProcess
  <2>3. CASE ~(exec'.status = "running" \/ caller = NULL)
    <3>1. /\ caller \in Runs /\ caller' = NULL /\ exec'.status # "running"
          /\ \/ phase' = [phase EXCEPT ![caller] = "executing"]
             \/ phase' = [phase EXCEPT ![caller] = "failed"]
      BY <1>4, <2>3 DEF ProcessStep, RuntimeInv
    <3> QED
      BY <2>1, <3>1 DEF RuntimeInv, OneRunInProcess
  <2> QED
    BY <2>2, <2>3
<1>5. ASSUME OutsideStep PROVE RuntimeInv'
  <2>1. exec.status # "running" /\ UNCHANGED <<phase, caller>>
    BY <1>5
    DEF OutsideStep, LearningStep, ObserveProcess, EvolveGenome, TakeProfile, Graduate,
        SynthesizeFromCache, Synthesize, Promote, CloseBoundary, StartStep,
        ExecuteCapability, ExecuteDynamic, Idle, bodyVars, runVars
  <2> QED
    BY <2>1 DEF RuntimeInv, OneRunInProcess
<1>6. ASSUME NEW r \in Runs, RunStep(r) PROVE RuntimeInv'
  BY <1>1, <1>2, <1>3, <1>6
  DEF RunStep, ActivatePlain, FailRun, CompleteRun, piVars
<1>7. ASSUME NEW r \in Runs, NEW i \in Intents, NEW w \in BOOLEAN, Compile(r, i, w)
      PROVE  RuntimeInv'
  BY <1>2, <1>7 DEF Compile, piVars
<1> QED
  BY <1>1, <1>4, <1>5, <1>6, <1>7
  DEF Next, BodyStep, AddCogniton, ActivateCogniton, DeactivateCogniton, RegisterPort,
      runVars, piVars, bodyVars, vars

LEMMA RuntimeAlways == Spec => []RuntimeInv
<1>1. Init => RuntimeInv
  BY DEF Init, PIInit, NoExecution, RuntimeInv, OneRunInProcess
<1> QED
  BY <1>1, PITypeCorrect, RuntimeNext, PTL DEF Spec

\* The graph of cognitons.
GraphInv ==
  /\ cognitons \in [CognitonIds -> 0 .. MaxVersion]
  /\ active \subseteq CognitonIds

LEMMA GraphNext == GraphInv /\ [Next]_vars => GraphInv'
<1> SUFFICES ASSUME GraphInv, [Next]_vars PROVE GraphInv'
  OBVIOUS
<1>1. ASSUME UNCHANGED graphVars PROVE GraphInv'
  BY <1>1 DEF graphVars, GraphInv
<1>2. ASSUME NEW c \in CognitonIds, NEW v \in 1 .. MaxVersion, AddCogniton(c, v) PROVE GraphInv'
  BY <1>2, BoundAssumption DEF AddCogniton, GraphInv
<1>3. ASSUME NEW c \in CognitonIds, ActivateCogniton(c) \/ DeactivateCogniton(c) PROVE GraphInv'
  BY <1>3 DEF ActivateCogniton, DeactivateCogniton, GraphInv
<1> QED
  BY <1>1, <1>2, <1>3
  DEF Next, BodyStep, OutsideStep, RegisterPort, Compile, RunStep, ActivatePlain,
      ActivateProcess, FailRun, CompleteRun, ProcessStep, bodyVars, vars

LEMMA GraphAlways == Spec => []GraphInv
<1>1. Init => GraphInv
  <2> SUFFICES ASSUME Init PROVE GraphInv
    OBVIOUS
  <2>1. MaxVersion \in Nat => 0 \in 0 .. MaxVersion
    OBVIOUS
  <2> QED
    BY <2>1, BoundAssumption DEF Init, GraphInv
<1> QED
  BY <1>1, GraphNext, PTL DEF Spec

-----------------------------------------------------------------------------
(* The selection of a port.                                                *)

\* A set of numbers that is not empty has a least one.
LEMMA LeastNatural ==
  ASSUME NEW S \in SUBSET Nat, S # {}
  PROVE  \E m \in S : \A k \in S : m <= k
<1>1. PICK m \in S : \A k \in S : ~(<<k, m>> \in OpToRel(<, Nat))
  BY NatLessThanWellFounded, WFMin, Zenon
<1>2. \A k \in Nat : k < m => <<k, m>> \in OpToRel(<, Nat)
  BY Zenon DEF OpToRel
<1>3. \A k \in S : ~(k < m)
  BY <1>1, <1>2, Zenon
<1> QED
  BY <1>3

Pick(s) == CHOOSE x \in s : TRUE

\* Picking an element of a finite set leaves a set of one element less.
LEMMA PickShrinks ==
  ASSUME NEW T, IsFiniteSet(T), NEW s \in SUBSET T, s # {}
  PROVE  /\ IsFiniteSet(s) /\ Cardinality(s) \in Nat
         /\ Pick(s) \in s /\ s \ {Pick(s)} \in SUBSET T
         /\ Cardinality(s \ {Pick(s)}) = Cardinality(s) - 1
         /\ Cardinality(s \ {Pick(s)}) \in Nat
<1>1. IsFiniteSet(s) /\ Cardinality(s) \in Nat
  BY FS_Subset, FS_CardinalityType
<1>2. Pick(s) \in s
  BY DEF Pick
<1>3. IsFiniteSet(s \ {Pick(s)}) /\ Cardinality(s \ {Pick(s)}) = Cardinality(s) - 1
  BY <1>1, <1>2, FS_RemoveElement
<1> QED
  BY <1>1, <1>2, <1>3, FS_CardinalityType

\* The equation that a sum over the subsets of a set satisfies.
SumOf(g, f, s) == IF s = {} THEN 0 ELSE f[Pick(s)] + g[s \ {Pick(s)}]

Small(T, n) == {s \in SUBSET T : Cardinality(s) <= n}

\* Sums over the small subsets exist: those of one size more are built from
\* the ones before.
LEMMA PartialSums ==
  ASSUME NEW T, IsFiniteSet(T), NEW P, T \subseteq P, NEW f \in [P -> Int], NEW n \in Nat
  PROVE  \E g \in [Small(T, n) -> Int] : \A s \in Small(T, n) : g[s] = SumOf(g, f, s)
<1> DEFINE Sums(k) == \E g \in [Small(T, k) -> Int] :
                        \A s \in Small(T, k) : g[s] = SumOf(g, f, s)
           Bad == {k \in Nat : ~Sums(k)}
<1> SUFFICES ASSUME Bad # {}
             PROVE  FALSE
  OBVIOUS
<1> HIDE DEF Sums
<1>1. PICK m \in Bad : \A k \in Bad : m <= k
  BY LeastNatural
<1>2. m \in Nat /\ ~Sums(m)
  BY <1>1
<1>3. CASE m = 0
  <2> DEFINE g == [s \in Small(T, 0) |-> 0]
  <2>1. \A s \in Small(T, 0) : s = {}
    BY FS_Subset, FS_EmptySet, FS_CardinalityType DEF Small
  <2>2. g \in [Small(T, 0) -> Int] /\ \A s \in Small(T, 0) : g[s] = SumOf(g, f, s)
    BY <2>1 DEF SumOf
  <2> QED
    BY <1>2, <1>3, <2>2 DEF Sums
<1>4. CASE m # 0
  <2>1. m - 1 \in Nat /\ Sums(m - 1)
    BY <1>1, <1>2, <1>4
  <2>2. PICK h \in [Small(T, m - 1) -> Int] :
               \A s \in Small(T, m - 1) : h[s] = SumOf(h, f, s)
    BY <2>1 DEF Sums
  <2> DEFINE g == [s \in Small(T, m) |->
                     IF s \in Small(T, m - 1) THEN h[s] ELSE SumOf(h, f, s)]
  <2>3. ASSUME NEW s \in Small(T, m)
        PROVE  /\ s = {} => s \in Small(T, m - 1)
               /\ s # {} => /\ s \ {Pick(s)} \in Small(T, m - 1)
                            /\ s \ {Pick(s)} \in Small(T, m)
                            /\ f[Pick(s)] \in Int
    <3>1. s \in SUBSET T /\ Cardinality(s) <= m
      BY DEF Small
    <3>2. s = {} => s \in Small(T, m - 1)
      BY <2>1, FS_EmptySet DEF Small
    <3>3. ASSUME s # {}
          PROVE  s \ {Pick(s)} \in Small(T, m - 1) /\ s \ {Pick(s)} \in Small(T, m) /\ f[Pick(s)] \in Int
      <4> DEFINE t == s \ {Pick(s)}
      <4>1. /\ Cardinality(s) \in Nat /\ Pick(s) \in s /\ t \in SUBSET T
            /\ Cardinality(t) = Cardinality(s) - 1
        BY <3>1, <3>3, PickShrinks
      <4> HIDE DEF t
      <4>2. Cardinality(t) <= m - 1 /\ Cardinality(t) <= m
        BY <1>2, <3>1, <4>1
      <4>3. t \in Small(T, m - 1) /\ t \in Small(T, m)
        BY <4>1, <4>2 DEF Small
      <4>4. f[Pick(s)] \in Int
        BY <3>1, <4>1
      <4> QED
        BY <4>3, <4>4 DEF t
    <3> QED
      BY <3>2, <3>3
  <2>4. \A s \in Small(T, m) : g[s] = SumOf(h, f, s) /\ SumOf(h, f, s) \in Int
    <3> SUFFICES ASSUME NEW s \in Small(T, m)
                 PROVE  g[s] = SumOf(h, f, s) /\ SumOf(h, f, s) \in Int
      OBVIOUS
    <3>1. SumOf(h, f, s) \in Int
      BY <2>2, <2>3 DEF SumOf
    <3>2. g[s] = IF s \in Small(T, m - 1) THEN h[s] ELSE SumOf(h, f, s)
      OBVIOUS
    <3> QED
      BY <2>2, <3>1, <3>2
  <2>5. \A s \in Small(T, m - 1) : s \in Small(T, m) => g[s] = h[s]
    OBVIOUS
  <2>6. g \in [Small(T, m) -> Int]
    BY <2>4
  <2> HIDE DEF g
  <2>7. \A s \in Small(T, m) : g[s] = SumOf(g, f, s)
    BY <2>3, <2>4, <2>5 DEF SumOf
  <2> QED
    BY <1>2, <2>6, <2>7 DEF Sums
<1> QED
  BY <1>3, <1>4

\* The sum of integers over a finite set is an integer.
LEMMA SumIsInteger ==
  ASSUME NEW T, IsFiniteSet(T), NEW P, T \subseteq P, NEW f \in [P -> Int]
  PROVE  SumFunctionOnSet(f, T) \in Int
<1> DEFINE Eq(g) == g = [s \in SUBSET T |-> IF s = {} THEN 0
                           ELSE f[CHOOSE x \in s : TRUE] + g[s \ {CHOOSE x \in s : TRUE}]]
           iter == CHOOSE g : Eq(g)
           n == Cardinality(T)
<1>1. SumFunctionOnSet(f, T) = iter[T]
  BY Zenon DEF SumFunctionOnSet, FoldFunctionOnSet, MapThenFoldSet
<1>2. \E g : Eq(g)
  <2>1. n \in Nat /\ Small(T, n) = SUBSET T
    BY FS_Subset, FS_CardinalityType DEF Small
  <2> HIDE DEF n, Eq
  <2>2. \E g \in [Small(T, n) -> Int] : \A s \in Small(T, n) : g[s] = SumOf(g, f, s)
    <3>1. ASSUME NEW k \in Nat
          PROVE  \E g \in [Small(T, k) -> Int] : \A s \in Small(T, k) : g[s] = SumOf(g, f, s)
      BY PartialSums
    <3> QED
      BY <2>1, <3>1, Zenon
  <2>3. PICK g \in [SUBSET T -> Int] : \A s \in SUBSET T : g[s] = SumOf(g, f, s)
    BY <2>1, <2>2
  <2>4. Eq(g)
    BY <2>3 DEF Eq, SumOf, Pick
  <2> QED
    BY <2>4
<1>3. Eq(iter)
  BY <1>2, Zenon
<1> HIDE DEF iter
<1>4. \A s \in SUBSET T : iter[s] = SumOf(iter, f, s)
  BY <1>3 DEF SumOf, Pick
<1> HIDE DEF Eq
<1> DEFINE Bad == {k \in Nat : \E s \in SUBSET T : Cardinality(s) = k /\ iter[s] \notin Int}
<1>5. Bad = {}
  <2> SUFFICES ASSUME Bad # {}
               PROVE  FALSE
    OBVIOUS
  <2>1. PICK m \in Bad : \A k \in Bad : m <= k
    BY LeastNatural
  <2>2. PICK s \in SUBSET T : Cardinality(s) = m /\ iter[s] \notin Int
    BY <2>1
  <2>3. s # {}
    <3>1. iter[{}] = 0
      BY <1>4 DEF SumOf
    <3> QED
      BY <2>2, <3>1
  <2> DEFINE t == s \ {Pick(s)}
  <2>4. /\ Pick(s) \in s /\ t \in SUBSET T
        /\ Cardinality(t) \in Nat /\ Cardinality(t) < m
    BY <2>2, <2>3, PickShrinks
  <2>5. iter[t] \in Int
    <3>1. Cardinality(t) \notin Bad
      <4>1. m \in Nat /\ \A k \in Bad : m <= k
        BY <2>1
      <4> HIDE DEF Bad
      <4> QED
        BY <2>4, <4>1
    <3> QED
      BY <2>4, <3>1
  <2>6. iter[s] = f[Pick(s)] + iter[t]
    BY <1>4, <2>3 DEF SumOf
  <2>7. f[Pick(s)] \in Int
    BY <2>4
  <2> QED
    BY <2>2, <2>5, <2>6, <2>7
<1>6. Cardinality(T) \in Nat
  BY FS_CardinalityType
<1> QED
  BY <1>1, <1>5, <1>6

\* What the Synaptizer learned about a port is a number.
LEMMA ScoreIsInt ==
  ASSUME NEW p \in PortIds, NEW e \in [Processes -> Int]
  PROVE  synapticEvidenceScore(p, e) \in Int
<1>1. /\ Descriptor[p].evidence_targets \subseteq Processes
      /\ IsFiniteSet(Descriptor[p].evidence_targets)
  BY DescriptorsAssumption DEF PortDescriptor
<1> QED
  BY <1>1, SumIsInteger, Zenon DEF synapticEvidenceScore

LEMMA DescriptorTypes ==
  ASSUME NEW p \in PortIds
  PROVE  Descriptor[p].priority \in Nat /\ PortOrder[p] \in Nat
BY DescriptorsAssumption DEF PortDescriptor

\* Of two ports one outranks the other.
LEMMA OutranksTotal ==
  ASSUME NEW p \in PortIds, NEW q \in PortIds, p # q, NEW e \in [Processes -> Int]
  PROVE  Outranks(p, q, e) \/ Outranks(q, p, e)
<1>1. synapticEvidenceScore(p, e) \in Int /\ synapticEvidenceScore(q, e) \in Int
  BY ScoreIsInt
<1>2. PortOrder[p] # PortOrder[q]
  BY DescriptorsAssumption
<1> QED
  BY <1>1, <1>2, DescriptorTypes DEF Outranks

LEMMA OutranksTransitive ==
  ASSUME NEW p \in PortIds, NEW q \in PortIds, NEW r \in PortIds,
         NEW e \in [Processes -> Int], Outranks(p, q, e), Outranks(q, r, e)
  PROVE  Outranks(p, r, e)
<1>1. /\ synapticEvidenceScore(p, e) \in Int /\ synapticEvidenceScore(q, e) \in Int
      /\ synapticEvidenceScore(r, e) \in Int
  BY ScoreIsInt
<1> QED
  BY <1>1, DescriptorTypes DEF Outranks

IsTop(p, S, e) == \A q \in S \ {p} : Outranks(p, q, e)

\* rankPorts always has a first port: a set of ports has one that outranks
\* every other one.
LEMMA TopExists ==
  ASSUME NEW S \in SUBSET PortIds, S # {}, NEW e \in [Processes -> Int]
  PROVE  \E p \in S : IsTop(p, S, e)
<1> DEFINE Topless == {T \in SUBSET PortIds : T # {} /\ ~\E p \in T : IsTop(p, T, e)}
           Bad == {k \in Nat : \E T \in Topless : Cardinality(T) = k}
<1>1. \A T \in SUBSET PortIds : IsFiniteSet(T) /\ Cardinality(T) \in Nat
  BY DescriptorsAssumption, FS_Subset, FS_CardinalityType
<1>2. Bad = {}
  <2> SUFFICES ASSUME Bad # {}
               PROVE  FALSE
    OBVIOUS
  <2>1. PICK m \in Bad : \A k \in Bad : m <= k
    BY LeastNatural
  <2>2. PICK T \in Topless : Cardinality(T) = m
    BY <2>1
  <2>3. PICK x \in T : TRUE
    BY <2>2
  <2> DEFINE U == T \ {x}
  <2>4. /\ T \in SUBSET PortIds /\ x \in PortIds /\ U \in SUBSET PortIds
        /\ ~\E p \in T : IsTop(p, T, e)
    BY <2>2, <2>3
  <2>5. m \in Nat /\ Cardinality(U) \in Nat /\ Cardinality(U) < m
    <3>1. Cardinality(U) = Cardinality(T) - 1
      BY <1>1, <2>3, <2>4, FS_RemoveElement
    <3> QED
      BY <1>1, <2>2, <2>4, <3>1
  <2>6. U \notin Topless
    <3>1. \A k \in Bad : m <= k
      BY <2>1
    <3>2. Cardinality(U) \notin Bad
      <4> HIDE DEF Bad
      <4> QED
        BY <2>5, <3>1
    <3> QED
      BY <2>5, <3>2
  <2>7. CASE U = {}
    BY <2>3, <2>4, <2>7 DEF IsTop
  <2>8. CASE U # {}
    <3>1. PICK t \in U : IsTop(t, U, e)
      BY <2>4, <2>6, <2>8
    <3>2. t \in PortIds /\ t # x /\ t \in T
      BY <2>4
    <3>3. CASE Outranks(t, x, e)
      <4>1. IsTop(t, T, e)
        BY <3>1, <3>3 DEF IsTop
      <4> QED
        BY <2>4, <3>2, <4>1
    <3>4. CASE Outranks(x, t, e)
      <4>1. ASSUME NEW q \in T \ {x}
            PROVE  Outranks(x, q, e)
        <5>1. q \in PortIds /\ (q = t \/ Outranks(t, q, e))
          BY <2>4, <3>1 DEF IsTop
        <5> QED
          BY <2>4, <3>2, <3>4, <5>1, OutranksTransitive
      <4>2. IsTop(x, T, e)
        BY <4>1 DEF IsTop
      <4> QED
        BY <2>3, <2>4, <4>2
    <3> QED
      BY <2>4, <3>2, <3>3, <3>4, OutranksTotal
  <2> QED
    BY <2>7, <2>8
<1>3. S \notin Topless
  BY <1>1, <1>2
<1> QED
  BY <1>3

\* The ports of a fabric that match.
Ranked(fabric, type, intent) ==
  {p \in fabric : Descriptor[p].port_type = type /\ matchesIntent(p, intent)}

\* selectOne returns nothing, or the first of the matching ports.
LEMMA SelectOneFacts ==
  ASSUME PortsKnown, learned \in [Processes -> Int], NEW type, NEW intent
  PROVE  /\ selectOne(type, intent) \in Seq(ports)
         /\ selectOne(type, intent) # <<>> =>
              \E p \in Ranked(ports, type, intent) :
                /\ selectOne(type, intent) = <<p>>
                /\ IsTop(p, Ranked(ports, type, intent), learned)
<1> DEFINE R == Ranked(ports, type, intent)
           first == CHOOSE p \in R : IsTop(p, R, learned)
<1>1. selectOne(type, intent) = IF R = {} THEN <<>> ELSE <<first>>
  BY DEF selectOne, rankPorts, Ranked, IsTop
<1>2. R \subseteq ports /\ R \in SUBSET PortIds
  BY DEF Ranked, PortsKnown
<1>3. R # {} => first \in R /\ IsTop(first, R, learned)
  BY <1>2, TopExists, Zenon
<1> HIDE DEF first, R
<1>4. CASE R = {}
  BY <1>1, <1>4
<1>5. CASE R # {}
  <2>1. selectOne(type, intent) = <<first>> /\ first \in ports
    BY <1>1, <1>2, <1>3, <1>5
  <2>2. <<first>> \in Seq(ports)
    BY <2>1
  <2> QED
    BY <1>3, <1>5, <2>1, <2>2 DEF R
<1> QED
  BY <1>4, <1>5

\* The ports of a plan: the process port follows h and v follows it.
LEMMA SequenceParts ==
  ASSUME NEW S, NEW h \in Seq(S), NEW p \in S, NEW v \in Seq(S)
  PROVE  LET s == (h \o <<p>>) \o v
         IN /\ s \in Seq(S) /\ Len(s) = Len(h) + 1 + Len(v)
            /\ s[Len(h) + 1] = p
            /\ \A i \in 1 .. Len(v) : s[Len(h) + 1 + i] = v[i]
<1>1. <<p>> \in Seq(S) /\ Len(<<p>>) = 1 /\ <<p>>[1] = p
  OBVIOUS
<1>2. /\ h \o <<p>> \in Seq(S) /\ Len(h \o <<p>>) = Len(h) + 1
      /\ (h \o <<p>>)[Len(h) + 1] = p
  BY <1>1
<1> QED
  BY <1>2

-----------------------------------------------------------------------------
(* Plans.                                                                  *)

\* What a compiled plan promises.
PlanOK(pl) ==
  LET n == Len(pl.active_port_ids)
      process == pl.process_port_id
      R == Ranked(pl.fabric_state_root, "PROCESS", pl.intent_class)
  IN /\ pl \in Plan
     /\ process \in R /\ IsTop(process, R, pl.selection_evidence)
     /\ pl.active_port_ids \in Seq(pl.fabric_state_root)
     /\ Descriptor[process].verification_required => pl.verification_required
     /\ pl.verification_required => /\ n >= 2
                                    /\ pl.active_port_ids[n - 1] = process
                                    /\ Descriptor[pl.active_port_ids[n]].port_type = "VERIFICATION"
     /\ \E i \in 1 .. n : pl.active_port_ids[i] = process

LEMMA CompiledPlanOK ==
  ASSUME PortsKnown, GraphInv, FeedType, NEW intent \in Intents, NEW wanted \in BOOLEAN,
         selectOne("PROCESS", intent) # <<>>,
         compile(intent, wanted).verification_required =>
           selectOne("VERIFICATION", intent) # <<>>
  PROVE  /\ PlanOK(compile(intent, wanted))
         /\ compile(intent, wanted).fabric_state_root = ports
<1> DEFINE c == compile(intent, wanted)
           h == selectOne("INTENT", intent) \o selectOne("COGNITON", intent)
           v == selectOne("VERIFICATION", intent)
           R == Ranked(ports, "PROCESS", intent)
<1>0. learned \in [Processes -> Int] /\ ports \subseteq PortIds
  BY DEF FeedType, PortsKnown
<1>1. PICK p \in R : selectOne("PROCESS", intent) = <<p>> /\ IsTop(p, R, learned)
  BY <1>0, SelectOneFacts
<1>2. p \in ports /\ p \in PortIds /\ Head(selectOne("PROCESS", intent)) = p
  BY <1>0, <1>1 DEF Ranked
<1>3. h \in Seq(ports) /\ v \in Seq(ports)
  <2>1. selectOne("INTENT", intent) \in Seq(ports) /\ selectOne("COGNITON", intent) \in Seq(ports)
    BY <1>0, SelectOneFacts
  <2>2. v \in Seq(ports)
    BY <1>0, SelectOneFacts
  <2> QED
    BY <2>1, <2>2
<1>4. v # <<>> => \E z \in ports : v = <<z>> /\ Descriptor[z].port_type = "VERIFICATION"
  BY <1>0, SelectOneFacts DEF Ranked
<1>5. /\ c.intent_class = intent /\ c.fabric_state_root = ports
      /\ c.selection_evidence = learned /\ c.process_port_id = p
      /\ c.active_port_ids = (h \o <<p>>) \o v
      /\ c.verification_required = (wanted \/ Descriptor[p].verification_required)
  BY <1>2 DEF compile
<1>6. c \in Plan
  <2> DEFINE s == (h \o <<p>>) \o v
             w == wanted \/ Descriptor[p].verification_required
             z == IF v = <<>> THEN NULL ELSE Head(v)
  <2>1. c = [intent_class |-> intent,
             graph_state_root |-> [cognitons |-> cognitons, active |-> active],
             fabric_state_root |-> ports, selection_evidence |-> learned,
             active_port_ids |-> s, process_port_id |-> p,
             verification_port_id |-> z, verification_required |-> w]
    BY <1>2 DEF compile
  <2>2. s \in Seq(ports)
    BY <1>2, <1>3, SequenceParts
  <2>3. s \in Seq(PortIds)
    BY <1>0, <2>2
  <2>4. z \in PortIds \cup {NULL}
    BY <1>0, <1>4
  <2>5. w \in BOOLEAN
    OBVIOUS
  <2>6. /\ cognitons \in [CognitonIds -> 0 .. MaxVersion] /\ active \in SUBSET CognitonIds
    BY DEF GraphInv
  <2> HIDE DEF s, w, z, c
  <2> QED
    BY <1>0, <1>2, <2>1, <2>3, <2>4, <2>5, <2>6 DEF Plan
<1> HIDE DEF c
<1>7. /\ c.active_port_ids \in Seq(ports)
      /\ Len(c.active_port_ids) = Len(h) + 1 + Len(v)
      /\ c.active_port_ids[Len(h) + 1] = p
      /\ \A i \in 1 .. Len(v) : c.active_port_ids[Len(h) + 1 + i] = v[i]
  <2> HIDE DEF h, v
  <2> QED
    BY <1>2, <1>3, <1>5, SequenceParts
<1>8. Len(h) \in Nat /\ Len(v) \in Nat
  BY <1>3, LenProperties
<1>9. Descriptor[p].verification_required => c.verification_required
  BY <1>5
<1>10. ASSUME c.verification_required
       PROVE  LET n == Len(c.active_port_ids)
              IN /\ n >= 2 /\ c.active_port_ids[n - 1] = p
                 /\ Descriptor[c.active_port_ids[n]].port_type = "VERIFICATION"
  <2>1. PICK z \in ports : v = <<z>> /\ Descriptor[z].port_type = "VERIFICATION"
    BY <1>4, <1>10 DEF c
  <2>2. Len(v) = 1 /\ v[1] = z
    BY <2>1
  <2> HIDE DEF h, v
  <2> QED
    BY <1>7, <1>8, <2>1, <2>2
<1>11. \E i \in 1 .. Len(c.active_port_ids) : c.active_port_ids[i] = p
  <2> HIDE DEF h, v
  <2>1. Len(h) + 1 \in 1 .. Len(c.active_port_ids)
    BY <1>7, <1>8
  <2> QED
    BY <1>7, <2>1
<1>12. PlanOK(c)
  <2> HIDE DEF h, v
  <2> QED
    BY <1>1, <1>5, <1>6, <1>7, <1>9, <1>10, <1>11 DEF PlanOK
<1> QED
  BY <1>5, <1>12 DEF c

-----------------------------------------------------------------------------
(* Runs execute their plans.                                               *)

\* What a run in a phase may have done with its plan.
RunOK(pl, ph, done) ==
  IF ph = "idle" THEN pl = NULL /\ done = <<>>
  ELSE LET n == Len(pl.active_port_ids)
       IN /\ PlanOK(pl) /\ pl.fabric_state_root \subseteq ports
          /\ Len(done) <= n
          /\ \A i \in 1 .. Len(done) : done[i] = pl.active_port_ids[i]
          /\ ph = "in_process" => Len(done) < n
          /\ ph = "completed" => Len(done) = n

RunsInv ==
  /\ plan \in [Runs -> Plan \cup {NULL}]
  /\ activated \in [Runs -> Seq(PortIds)]
  /\ \A r \in Runs : RunOK(plan[r], phase[r], activated[r])

\* The handler of the next port returns.
LEMMA OneMorePort ==
  ASSUME PortsKnown, NEW pl, NEW ph, ph # "idle", NEW done \in Seq(PortIds), RunOK(pl, ph, done),
         Len(done) < Len(pl.active_port_ids)
  PROVE  LET p == pl.active_port_ids[Len(done) + 1]
         IN /\ Append(done, p) \in Seq(PortIds)
            /\ RunOK(pl, "executing", Append(done, p))
<1> DEFINE n == Len(pl.active_port_ids)
           p == pl.active_port_ids[Len(done) + 1]
           more == Append(done, p)
<1>1. /\ PlanOK(pl) /\ pl.fabric_state_root \subseteq ports
      /\ \A i \in 1 .. Len(done) : done[i] = pl.active_port_ids[i]
  BY DEF RunOK
<1>2. pl.active_port_ids \in Seq(PortIds) /\ n \in Nat /\ Len(done) \in Nat
  BY <1>1 DEF PlanOK, Plan
<1>3. p \in PortIds
  BY <1>2
<1>4. /\ more \in Seq(PortIds) /\ Len(more) = Len(done) + 1
      /\ \A i \in 1 .. Len(done) : more[i] = done[i]
      /\ more[Len(done) + 1] = p
  BY <1>2, <1>3, AppendProperties
<1> HIDE DEF more
<1>5. Len(more) <= n /\ \A i \in 1 .. Len(more) : more[i] = pl.active_port_ids[i]
  BY <1>1, <1>2, <1>4
<1>6. RunOK(pl, "executing", more)
  BY <1>1, <1>5 DEF RunOK
<1> QED
  BY <1>4, <1>6 DEF more

\* A run stays sound in another phase.
LEMMA AnotherPhase ==
  ASSUME NEW pl, NEW ph, ph # "idle", NEW done, RunOK(pl, ph, done), NEW next,
         next \in {"executing", "failed"} \/ (next = "in_process" /\ Len(done) < Len(pl.active_port_ids))
           \/ (next = "completed" /\ Len(done) = Len(pl.active_port_ids))
  PROVE  RunOK(pl, next, done)
BY DEF RunOK

LEMMA RunsNext ==
  /\ PortsKnown /\ GraphInv /\ FeedType /\ RuntimeInv /\ RunsInv
  /\ [Next]_vars
  => RunsInv'
<1> SUFFICES ASSUME PortsKnown, GraphInv, FeedType, RuntimeInv, RunsInv, [Next]_vars
             PROVE  RunsInv'
  OBVIOUS
<1>0. /\ plan \in [Runs -> Plan \cup {NULL}] /\ activated \in [Runs -> Seq(PortIds)]
      /\ phase \in [Runs -> {"idle", "executing", "in_process", "completed", "failed"}]
      /\ \A r \in Runs : RunOK(plan[r], phase[r], activated[r])
  BY DEF RunsInv, RuntimeInv
\* Enough: the runs are sound over the ports after the step, which are more.
<1>a. ASSUME NEW pl, NEW ph, NEW done, RunOK(pl, ph, done), ports \subseteq ports'
      PROVE  IF ph = "idle" THEN pl = NULL /\ done = <<>>
             ELSE LET n == Len(pl.active_port_ids)
                  IN /\ PlanOK(pl) /\ pl.fabric_state_root \subseteq ports'
                     /\ Len(done) <= n
                     /\ \A i \in 1 .. Len(done) : done[i] = pl.active_port_ids[i]
                     /\ ph = "in_process" => Len(done) < n
                     /\ ph = "completed" => Len(done) = n
  BY <1>a DEF RunOK
<1>b. ASSUME ports \subseteq ports', plan' \in [Runs -> Plan \cup {NULL}],
             activated' \in [Runs -> Seq(PortIds)],
             \A r \in Runs : RunOK(plan'[r], phase'[r], activated'[r])
      PROVE  RunsInv'
  BY <1>a, <1>b DEF RunsInv, RunOK
<1>1. ASSUME ports \subseteq ports', UNCHANGED <<plan, phase, activated>> PROVE RunsInv'
  BY <1>0, <1>1, <1>b
\* A step of one run.
<1>2. ASSUME NEW r \in Runs, NEW pl, NEW ph, NEW done \in Seq(PortIds), ports' = ports,
             plan' = [plan EXCEPT ![r] = pl], phase' = [phase EXCEPT ![r] = ph],
             activated' = [activated EXCEPT ![r] = done], RunOK(pl, ph, done)
      PROVE  RunsInv'
  <2>0. pl \in Plan \cup {NULL}
    BY <1>2 DEF RunOK, PlanOK
  <2>1. plan' \in [Runs -> Plan \cup {NULL}] /\ activated' \in [Runs -> Seq(PortIds)]
    BY <1>0, <1>2, <2>0
  <2>2. /\ plan'[r] = pl /\ phase'[r] = ph /\ activated'[r] = done
        /\ \A s \in Runs \ {r} : /\ plan'[s] = plan[s] /\ phase'[s] = phase[s]
                                 /\ activated'[s] = activated[s]
    BY <1>0, <1>2
  <2>3. \A s \in Runs : RunOK(plan'[s], phase'[s], activated'[s])
    BY <1>0, <1>2, <2>2
  <2> QED
    BY <1>2, <1>b, <2>1, <2>3
\* A run that keeps its plan, its ports or its phase.
<1>c. \A r \in Runs : /\ plan = [plan EXCEPT ![r] = plan[r]]
                      /\ phase = [phase EXCEPT ![r] = phase[r]]
                      /\ activated = [activated EXCEPT ![r] = activated[r]]
                      /\ activated[r] \in Seq(PortIds)
  BY <1>0
<1>3. ASSUME NEW r \in Runs, NEW i \in Intents, NEW w \in BOOLEAN, Compile(r, i, w)
      PROVE  RunsInv'
  <2> DEFINE c == compile(i, w)
  <2>1. /\ phase[r] = "idle" /\ ports' = ports /\ activated' = activated
        /\ plan' = [plan EXCEPT ![r] = c] /\ phase' = [phase EXCEPT ![r] = "executing"]
        /\ selectOne("PROCESS", i) # <<>>
        /\ c.verification_required => selectOne("VERIFICATION", i) # <<>>
    BY <1>3 DEF Compile
  <2>2. PlanOK(c) /\ c.fabric_state_root = ports
    BY <2>1, CompiledPlanOK
  <2> HIDE DEF c
  <2>3. activated[r] = <<>>
    BY <1>0, <2>1 DEF RunOK
  <2>4. Len(c.active_port_ids) \in Nat
    BY <2>2 DEF PlanOK, Plan
  <2>5. RunOK(c, "executing", <<>>)
    BY <2>2, <2>4 DEF RunOK
  <2>6. activated' = [activated EXCEPT ![r] = <<>>] /\ <<>> \in Seq(PortIds)
    BY <1>c, <2>1, <2>3
  <2> QED
    BY <1>2, <2>1, <2>5, <2>6
<1>4. ASSUME NEW r \in Runs, ActivatePlain(r) PROVE RunsInv'
  <2> DEFINE p == plan[r].active_port_ids[Len(activated[r]) + 1]
  <2>1. /\ phase[r] = "executing" /\ Len(activated[r]) < Len(plan[r].active_port_ids)
        /\ ports' = ports /\ plan' = plan /\ phase' = phase
        /\ activated' = [activated EXCEPT ![r] = Append(activated[r], p)]
    BY <1>4 DEF ActivatePlain, Resumable, nextPort
  <2>2. /\ Append(activated[r], p) \in Seq(PortIds)
        /\ RunOK(plan[r], "executing", Append(activated[r], p))
    BY <1>0, <1>c, <2>1, OneMorePort
  <2> HIDE DEF p
  <2>3. /\ plan' = [plan EXCEPT ![r] = plan[r]]
        /\ phase' = [phase EXCEPT ![r] = "executing"]
    BY <1>c, <2>1
  <2> QED
    BY <1>2, <2>1, <2>2, <2>3
<1>5. ASSUME NEW r \in Runs, ActivateProcess(r) PROVE RunsInv'
  <2>1. /\ phase[r] = "executing" /\ Len(activated[r]) < Len(plan[r].active_port_ids)
        /\ ports' = ports /\ plan' = plan /\ activated' = activated
        /\ phase' = [phase EXCEPT ![r] = "in_process"]
    BY <1>5 DEF ActivateProcess, Resumable
  <2>2. RunOK(plan[r], "in_process", activated[r])
    BY <1>0, <2>1, AnotherPhase
  <2> QED
    BY <1>2, <1>c, <2>1, <2>2
<1>6. ASSUME NEW r \in Runs, FailRun(r) \/ CompleteRun(r) PROVE RunsInv'
  <2>1. /\ phase[r] = "executing" /\ ports' = ports /\ plan' = plan /\ activated' = activated
    BY <1>6 DEF FailRun, CompleteRun
  <2>2. PICK st \in {"failed", "completed"} :
          /\ phase' = [phase EXCEPT ![r] = st]
          /\ st = "completed" => Len(activated[r]) = Len(plan[r].active_port_ids)
    BY <1>6 DEF FailRun, CompleteRun
  <2>3. RunOK(plan[r], st, activated[r])
    BY <1>0, <2>1, <2>2, AnotherPhase
  <2> QED
    BY <1>2, <1>c, <2>1, <2>2, <2>3
<1>7. ASSUME ProcessStep PROVE RunsInv'
  <2>0. ports' = ports /\ plan' = plan
    BY <1>7 DEF ProcessStep
  <2>1. CASE exec'.status = "running" \/ caller = NULL
    BY <1>1, <1>7, <2>0, <2>1 DEF ProcessStep
  <2>2. CASE ~(exec'.status = "running" \/ caller = NULL)
    <3>1. /\ caller \in Runs /\ phase[caller] = "in_process"
      <4>1. exec.status = "running"
        BY <1>7 DEF ProcessStep, ExecutionStep, RunSkill, RunUnrecorded, Recompose,
           RejectExecution, FinishExecution, Iterates
      <4> QED
        BY <2>2, <4>1 DEF RuntimeInv, OneRunInProcess
    <3>2. PICK r \in Runs : r = caller
      BY <3>1
    <3>3. /\ phase[r] = "in_process" /\ RunOK(plan[r], phase[r], activated[r])
          /\ Len(activated[r]) < Len(plan[r].active_port_ids)
      BY <1>0, <3>1, <3>2 DEF RunOK
    <3> DEFINE p == plan[r].active_port_ids[Len(activated[r]) + 1]
    <3>4. CASE exec'.status = "done"
      <4>1. /\ phase' = [phase EXCEPT ![r] = "executing"]
            /\ activated' = [activated EXCEPT ![r] = Append(activated[r], p)]
        BY <1>7, <2>2, <3>2, <3>4 DEF ProcessStep, nextPort
      <4>2. /\ Append(activated[r], p) \in Seq(PortIds)
            /\ RunOK(plan[r], "executing", Append(activated[r], p))
        BY <1>c, <3>3, OneMorePort
      <4> HIDE DEF p
      <4> QED
        BY <1>2, <1>c, <2>0, <4>1, <4>2
    <3>5. CASE exec'.status # "done"
      <4>1. phase' = [phase EXCEPT ![r] = "failed"] /\ activated' = activated
        BY <1>7, <2>2, <3>2, <3>5 DEF ProcessStep
      <4>2. RunOK(plan[r], "failed", activated[r])
        BY <3>3, AnotherPhase
      <4> QED
        BY <1>2, <1>c, <2>0, <4>1, <4>2
    <3> QED
      BY <3>4, <3>5
  <2> QED
    BY <2>1, <2>2
<1> QED
  BY <1>1, <1>3, <1>4, <1>5, <1>6, <1>7
  DEF Next, BodyStep, OutsideStep, RunStep, AddCogniton, ActivateCogniton, DeactivateCogniton,
      RegisterPort, runVars, bodyVars, vars

LEMMA RunsAlways == Spec => []RunsInv
<1>1. Init => RunsInv
  <2> SUFFICES ASSUME Init PROVE RunsInv
    OBVIOUS
  <2>1. <<>> \in Seq(PortIds)
    BY EmptySeq
  <2> QED
    BY <2>1 DEF Init, RunsInv, RunOK
<1>2. PITypeOK => FeedType
  BY TypeParts
<1> QED
  BY <1>1, <1>2, PortsAlwaysKnown, PITypeCorrect, GraphAlways, RuntimeAlways, RunsNext, PTL DEF Spec

\* A run one of whose ports entered the runtime has the result of an execution
\* every skill of whose graph is recorded.
ReturnedInv ==
  /\ returned \in [Runs -> Result \cup {NULL}]
  /\ \A r \in Runs : returned[r] # NULL => returned[r].recorded = returned[r].graph
  /\ \A r \in Runs : \A i \in 1 .. Len(activated[r]) :
       Descriptor[activated[r][i]].handler # "plain" => returned[r] # NULL

\* The result of an execution that is done.
LEMMA ResultOfDone ==
  ASSUME PITypeOK, CompletedIsGraphPrefix, RecordedInv, [PINext]_piVars, exec'.status = "done"
  PROVE  /\ resultOf(exec') \in Result
         /\ resultOf(exec').recorded = resultOf(exec').graph
<1>1. PITypeOK' /\ CompletedIsGraphPrefix' /\ RecordedInv'
  BY PITypeNext, PrefixNext, RecordedNext
<1>2. exec'.graph \in Seq(Processes) /\ exec'.recorded \in Seq(Processes)
  BY <1>1 DEF PITypeOK, Execution
<1>3. exec'.recorded = exec'.graph
  BY <1>1 DEF CompletedIsGraphPrefix, RecordedInv
<1> QED
  BY <1>2, <1>3 DEF resultOf, Result

LEMMA ReturnedNext ==
  /\ PITypeOK /\ PortsKnown /\ CompletedIsGraphPrefix /\ RecordedInv
  /\ RuntimeInv /\ RunsInv /\ ReturnedInv
  /\ [Next]_vars
  => ReturnedInv'
<1> SUFFICES ASSUME PITypeOK, PortsKnown, CompletedIsGraphPrefix, RecordedInv,
                    RuntimeInv, RunsInv, ReturnedInv, [Next]_vars
             PROVE  ReturnedInv'
  OBVIOUS
<1>0. /\ activated \in [Runs -> Seq(PortIds)] /\ returned \in [Runs -> Result \cup {NULL}]
      /\ NULL \notin Result /\ caller \in Runs \cup {NULL}
  BY DescriptorsAssumption DEF RunsInv, ReturnedInv, RuntimeInv
<1>1. ASSUME UNCHANGED <<activated, returned>> PROVE ReturnedInv'
  BY <1>1 DEF ReturnedInv
\* One more port of a run, after which the run has a result if it needs one.
<1>2. ASSUME NEW r \in Runs, NEW p, NEW x \in Result \cup {NULL},
             phase[r] # "idle", Len(activated[r]) < Len(plan[r].active_port_ids),
             p = plan[r].active_port_ids[Len(activated[r]) + 1],
             activated' = [activated EXCEPT ![r] = Append(activated[r], p)],
             returned' = [returned EXCEPT ![r] = x],
             returned[r] # NULL => x # NULL, x # NULL => x.recorded = x.graph,
             Descriptor[p].handler # "plain" => x # NULL
      PROVE  ReturnedInv'
  <2>1. p \in PortIds
    <3>1. plan[r].active_port_ids \in Seq(PortIds)
      BY <1>2 DEF RunsInv, RunOK, PlanOK, Plan
    <3>2. activated[r] \in Seq(PortIds)
      BY <1>0
    <3> QED
      BY <1>2, <3>1, <3>2
  <2> DEFINE done == activated[r]
  <2>2. done \in Seq(PortIds)
    BY <1>0
  <2> HIDE DEF done
  <2>3. /\ Len(Append(done, p)) = Len(done) + 1 /\ Len(done) \in Nat
        /\ \A i \in 1 .. Len(done) : Append(done, p)[i] = done[i]
        /\ Append(done, p)[Len(done) + 1] = p
    BY <2>1, <2>2, AppendProperties
  <2>4. /\ activated'[r] = Append(done, p) /\ returned'[r] = x
        /\ \A s \in Runs \ {r} : activated'[s] = activated[s] /\ returned'[s] = returned[s]
    BY <1>0, <1>2 DEF done
  <2>5. \A i \in 1 .. Len(done) : Descriptor[done[i]].handler # "plain" => returned[r] # NULL
    BY DEF ReturnedInv, done
  <2>6. \A i \in 1 .. Len(activated'[r]) :
          Descriptor[activated'[r][i]].handler # "plain" => returned'[r] # NULL
    <3> SUFFICES ASSUME NEW i \in 1 .. Len(done) + 1,
                        Descriptor[Append(done, p)[i]].handler # "plain"
                 PROVE  x # NULL
      BY <2>3, <2>4
    <3>1. CASE i = Len(done) + 1
      BY <1>2, <2>3, <3>1
    <3>2. CASE i \in 1 .. Len(done)
      BY <1>2, <2>3, <2>5, <3>2
    <3> QED
      BY <2>3, <3>1, <3>2
  <2>7. returned' \in [Runs -> Result \cup {NULL}]
    BY <1>0, <1>2
  <2> QED
    BY <1>2, <2>4, <2>6, <2>7 DEF ReturnedInv
<1>3. ASSUME NEW r \in Runs, ActivatePlain(r) PROVE ReturnedInv'
  <2>1. /\ phase[r] # "idle" /\ Len(activated[r]) < Len(plan[r].active_port_ids)
        /\ activated' = [activated EXCEPT ![r] = Append(activated[r], nextPort(r))]
        /\ returned' = returned /\ Descriptor[nextPort(r)].handler = "plain"
    BY <1>3 DEF ActivatePlain, Resumable
  <2>2. returned' = [returned EXCEPT ![r] = returned[r]]
    BY <1>0, <2>1
  <2> QED
    BY <1>0, <1>2, <2>1, <2>2 DEF nextPort, ReturnedInv
<1>4. ASSUME ProcessStep PROVE ReturnedInv'
  <2>1. CASE exec'.status = "running" \/ caller = NULL \/ exec'.status # "done"
    BY <1>1, <1>4, <2>1 DEF ProcessStep
  <2>2. CASE ~(exec'.status = "running" \/ caller = NULL) /\ exec'.status = "done"
    <3>1. exec.status = "running"
      BY <1>4 DEF ProcessStep, ExecutionStep, RunSkill, RunUnrecorded, Recompose,
         RejectExecution, FinishExecution, Iterates
    <3>2. caller \in Runs /\ phase[caller] = "in_process"
      BY <1>0, <2>2, <3>1 DEF RuntimeInv, OneRunInProcess
    <3>3. PICK r \in Runs : r = caller
      BY <3>2
    <3>4. phase[r] # "idle" /\ Len(activated[r]) < Len(plan[r].active_port_ids)
      BY <3>2, <3>3 DEF RunsInv, RunOK
    <3>5. /\ activated' = [activated EXCEPT ![r] = Append(activated[r], nextPort(r))]
          /\ returned' = [returned EXCEPT ![r] = resultOf(exec')]
      BY <1>4, <2>2, <3>3 DEF ProcessStep
    <3>6. /\ resultOf(exec') \in Result /\ resultOf(exec') # NULL
          /\ resultOf(exec').recorded = resultOf(exec').graph
      BY <1>0, <2>2, BodyUsesPI, ResultOfDone
    <3> QED
      BY <1>2, <3>4, <3>5, <3>6 DEF nextPort
  <2> QED
    BY <2>1, <2>2
<1> QED
  BY <1>1, <1>3, <1>4
  DEF Next, BodyStep, OutsideStep, RunStep, AddCogniton, ActivateCogniton, DeactivateCogniton,
      RegisterPort, Compile, ActivateProcess, FailRun, CompleteRun, runVars, bodyVars, vars

LEMMA ReturnedAlways == Spec => []ReturnedInv
<1>1. Init => ReturnedInv
  <2> SUFFICES ASSUME Init PROVE ReturnedInv
    OBVIOUS
  <2>1. \A r \in Runs : Len(activated[r]) = 0 /\ returned[r] = NULL
    BY DEF Init
  <2> QED
    BY <2>1 DEF Init, ReturnedInv
<1> QED
  BY <1>1, PITypeCorrect, PortsAlwaysKnown, CompletedAlwaysGraphPrefix, RecordedAlways,
     RuntimeAlways, RunsAlways, ReturnedNext, PTL DEF Spec

\* Everything the body and its process intelligence keep has its type.
THEOREM TypeCorrect == Spec => []TypeOK
<1>1. PITypeOK /\ PortsKnown /\ GraphInv /\ RuntimeInv /\ RunsInv /\ ReturnedInv => TypeOK
  <2> SUFFICES ASSUME PITypeOK, PortsKnown, GraphInv, RuntimeInv, RunsInv, ReturnedInv
               PROVE  TypeOK
    OBVIOUS
  <2> QED
    BY DEF TypeOK, PortsKnown, GraphInv, RuntimeInv, RunsInv, ReturnedInv
<1> QED
  BY <1>1, PITypeCorrect, PortsAlwaysKnown, GraphAlways, RuntimeAlways, RunsAlways,
     ReturnedAlways, PTL

\* A planned run has a sound plan.
LEMMA PlannedOK ==
  ASSUME RunsInv, NEW r \in Planned
  PROVE  r \in Runs /\ phase[r] # "idle" /\ PlanOK(plan[r]) /\ plan[r].fabric_state_root \subseteq ports
BY DEF RunsInv, RunOK, Planned

\* What first among the process ports of a fabric means for two ports.
LEMMA TopBeats ==
  ASSUME NEW p \in PortIds, NEW q \in PortIds, NEW e \in [Processes -> Int], Outranks(p, q, e)
  PROVE  /\ Descriptor[q].priority <= Descriptor[p].priority
         /\ Descriptor[q].priority = Descriptor[p].priority =>
              /\ synapticEvidenceScore(q, e) <= synapticEvidenceScore(p, e)
              /\ synapticEvidenceScore(q, e) = synapticEvidenceScore(p, e) =>
                   PortOrder[p] < PortOrder[q]
<1>1. synapticEvidenceScore(p, e) \in Int /\ synapticEvidenceScore(q, e) \in Int
  BY ScoreIsInt
<1> QED
  BY <1>1, DescriptorTypes DEF Outranks

\* Plans select what priority and evidence demand, run on while the fabric
\* grows, and verify what they must.
THEOREM PlansAlwaysSound == Spec => []PlansSound
<1>1. ASSUME PortsKnown, RunsInv, ReturnedInv PROVE PlansSound
  <2>0. \A r \in Planned :
          /\ plan[r] \in Plan /\ plan[r].process_port_id \in PortIds
          /\ plan[r].selection_evidence \in [Processes -> Int]
          /\ plan[r].fabric_state_root \subseteq PortIds
    BY <1>1, PlannedOK DEF PlanOK, Plan
  <2>1. PlannedPortsRemain
    <3> SUFFICES ASSUME NEW r \in Planned
                 PROVE  ToSet(plan[r].active_port_ids) \subseteq ports
      BY DEF PlannedPortsRemain
    <3>1. plan[r].active_port_ids \in Seq(plan[r].fabric_state_root)
      BY <1>1, PlannedOK DEF PlanOK
    <3>2. plan[r].fabric_state_root \subseteq ports
      BY <1>1, PlannedOK
    <3> QED
      BY <3>1, <3>2 DEF ToSet
  <2>2. ASSUME NEW r \in Planned, NEW q \in plan[r].fabric_state_root,
               Descriptor[q].port_type = "PROCESS", matchesIntent(q, plan[r].intent_class),
               q # plan[r].process_port_id
        PROVE  Outranks(plan[r].process_port_id, q, plan[r].selection_evidence)
    BY <1>1, <2>2, PlannedOK DEF PlanOK, IsTop, Ranked
  <2>3. NothingBeatsSelection
    <3> SUFFICES ASSUME NEW r \in Planned, NEW q \in plan[r].fabric_state_root,
                        Descriptor[q].port_type = "PROCESS",
                        matchesIntent(q, plan[r].intent_class)
                 PROVE  LET chosen == plan[r].process_port_id
                            score(p) == synapticEvidenceScore(p, plan[r].selection_evidence)
                        IN /\ Descriptor[q].priority <= Descriptor[chosen].priority
                           /\ Descriptor[q].priority = Descriptor[chosen].priority =>
                                score(q) <= score(chosen)
      BY Zenon DEF NothingBeatsSelection
    <3>1. CASE q = plan[r].process_port_id
      BY <2>0, <3>1, ScoreIsInt, DescriptorTypes
    <3>2. CASE q # plan[r].process_port_id
      BY <2>0, <2>2, <3>2, TopBeats
    <3> QED
      BY <3>1, <3>2
  <2>4. EvidenceDecidesTies
    <3> SUFFICES ASSUME NEW r \in Planned, NEW s \in Planned,
                        plan[r].intent_class = plan[s].intent_class,
                        plan[r].fabric_state_root = plan[s].fabric_state_root,
                        plan[r].process_port_id # plan[s].process_port_id
                 PROVE  LET p == plan[r].process_port_id
                            q == plan[s].process_port_id
                        IN /\ Descriptor[p].priority = Descriptor[q].priority
                           /\ synapticEvidenceScore(p, plan[r].selection_evidence)
                                - synapticEvidenceScore(q, plan[r].selection_evidence)
                              # synapticEvidenceScore(p, plan[s].selection_evidence)
                                - synapticEvidenceScore(q, plan[s].selection_evidence)
      BY Zenon DEF EvidenceDecidesTies
    <3>1. PICK p \in PortIds, q \in PortIds :
            p = plan[r].process_port_id /\ q = plan[s].process_port_id
      BY <2>0
    <3>2. PICK e \in [Processes -> Int], f \in [Processes -> Int] :
            e = plan[r].selection_evidence /\ f = plan[s].selection_evidence
      BY <2>0
    <3>3. /\ p \in Ranked(plan[r].fabric_state_root, "PROCESS", plan[r].intent_class)
          /\ q \in Ranked(plan[s].fabric_state_root, "PROCESS", plan[s].intent_class)
      BY <1>1, <3>1, PlannedOK DEF PlanOK
    <3>4. Outranks(p, q, e) /\ Outranks(q, p, f)
      BY <2>2, <3>1, <3>2, <3>3 DEF Ranked
    <3>5. /\ synapticEvidenceScore(p, e) \in Int /\ synapticEvidenceScore(q, e) \in Int
          /\ synapticEvidenceScore(p, f) \in Int /\ synapticEvidenceScore(q, f) \in Int
      BY ScoreIsInt
    <3>6. /\ Descriptor[p].priority = Descriptor[q].priority
          /\ synapticEvidenceScore(p, e) - synapticEvidenceScore(q, e)
             # synapticEvidenceScore(p, f) - synapticEvidenceScore(q, f)
      BY <3>4, <3>5, TopBeats, DescriptorTypes
    <3> QED
      BY <3>1, <3>2, <3>6
  <2>5. VerifiedAfterProcess
    <3> DEFINE verified(r) ==
                 LET n == Len(activated[r])
                     process == Descriptor[plan[r].process_port_id]
                 IN IF plan[r].verification_required \/ process.verification_required
                    THEN /\ n >= 2
                         /\ activated[r][n - 1] = plan[r].process_port_id
                         /\ Descriptor[activated[r][n]].port_type = "VERIFICATION"
                    ELSE plan[r].process_port_id \in ToSet(activated[r])
    <3> SUFFICES ASSUME NEW r \in Runs, phase[r] = "completed"
                 PROVE  /\ verified(r)
                        /\ Descriptor[plan[r].process_port_id].handler # "plain" =>
                             /\ returned[r] # NULL
                             /\ returned[r].recorded = returned[r].graph
      BY Zenon DEF VerifiedAfterProcess
    <3>1. /\ PlanOK(plan[r]) /\ activated[r] \in Seq(PortIds)
          /\ Len(activated[r]) = Len(plan[r].active_port_ids)
          /\ \A i \in 1 .. Len(activated[r]) : activated[r][i] = plan[r].active_port_ids[i]
      BY <1>1 DEF RunsInv, RunOK
    <3>2. Len(activated[r]) \in Nat /\ DOMAIN activated[r] = 1 .. Len(activated[r])
      BY <3>1
    <3>3. PICK j \in 1 .. Len(activated[r]) :
            plan[r].active_port_ids[j] = plan[r].process_port_id
      BY <3>1 DEF PlanOK
    <3>4. verified(r)
      <4>1. CASE plan[r].verification_required
        <5>1. LET n == Len(activated[r])
              IN /\ n >= 2 /\ plan[r].active_port_ids[n - 1] = plan[r].process_port_id
                 /\ Descriptor[plan[r].active_port_ids[n]].port_type = "VERIFICATION"
          BY <3>1, <4>1 DEF PlanOK
        <5> QED
          BY <3>1, <3>2, <4>1, <5>1
      <4>2. CASE ~plan[r].verification_required
        <5>1. ~Descriptor[plan[r].process_port_id].verification_required
          BY <3>1, <4>2 DEF PlanOK
        <5>2. plan[r].process_port_id \in ToSet(activated[r])
          BY <3>1, <3>2, <3>3 DEF ToSet
        <5> QED
          BY <4>2, <5>1, <5>2
      <4> QED
        BY <4>1, <4>2
    <3>5. ASSUME Descriptor[plan[r].process_port_id].handler # "plain"
          PROVE  returned[r] # NULL /\ returned[r].recorded = returned[r].graph
      <4>1. activated[r][j] = plan[r].process_port_id
        BY <3>1, <3>3
      <4> QED
        BY <1>1, <3>3, <3>5, <4>1 DEF ReturnedInv
    <3> HIDE DEF verified
    <3> QED
      BY <3>4, <3>5
  <2> QED
    BY <2>1, <2>3, <2>4, <2>5 DEF PlansSound
<1> QED
  BY <1>1, PortsAlwaysKnown, RunsAlways, ReturnedAlways, PTL

-----------------------------------------------------------------------------
(* The properties together.                                                *)

\* Capabilities, graduations and learned credit go back to recorded evidence,
\* or to what a caller of graduate claimed or left out, whoever observes,
\* synthesizes, promotes and executes in between.
THEOREM LearningAlwaysSound == Spec => []LearningSound
<1>1. CapabilityProvenance /\ GraduatesEarnedIt /\ CreditAgrees => LearningSound
  BY DEF LearningSound
<1> QED
  BY <1>1, CapabilityAlwaysHasProvenance, GraduatesAlwaysEarnedIt, CreditAlwaysAgrees, PTL

\* A checkpoint of the post-synthesized runtime tells what was run, through
\* every recomposition and failure.
THEOREM ExecutionAlwaysSound == Spec => []ExecutionSound
<1>1. CompletedIsGraphPrefix /\ EventsExplainGraph /\ OnlyLastEffectUnrecorded /\ BroughtInOnce
        => ExecutionSound
  BY DEF ExecutionSound
<1> QED
  BY <1>1, CompletedAlwaysGraphPrefix, EventsAlwaysExplainGraph, OnlyLastEffectEverUnrecorded,
     SkillsAlwaysBroughtInOnce, PTL
=============================================================================
