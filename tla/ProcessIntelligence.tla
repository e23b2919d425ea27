------------------------- MODULE ProcessIntelligence -------------------------
(***************************************************************************)
(* process-intelligence.mjs: processes are observed, a process for which   *)
(* its caller presents enough evidence graduates to a skill, skills are    *)
(* synthesized into a candidate capability, a promoted candidate is cached *)
(* and executed; the post-synthesized runtime executes a graph of skills   *)
(* that may be recomposed while it runs.  Every executed edge is recorded  *)
(* and published to the Synaptizer.                                        *)
(*                                                                         *)
(* The module is synchronous: nothing happens between the steps of one     *)
(* execution (Idle guards every other action), but every step of it may    *)
(* fail, and what the earlier steps did then stays done.                   *)
(*                                                                         *)
(* A process stands for its id, its only process_version and the skill id  *)
(* made of the two.  The observer's records are kept as the counts its     *)
(* fitness() computes from them.  Hit and miss counters are left out.      *)
(***************************************************************************)
EXTENDS Integers, Sequences, FiniteSets

CONSTANTS
  Processes,
  Outcomes,           \* what a process or a skill may report for one run
  CacheKeys,          \* (intent_class, context_root) pairs
  Claims,             \* counts a caller may make up
  Statements,         \* which fields of evidence a caller may state
  Compositions,       \* inputs of synthesize: [skill_ids, composition_kind]
  PromotionEvidence,  \* sets of checks a caller presents to promote
  DynamicGraphs,      \* initial graphs of the post-synthesized runtime
  execution_count, verified_success_count,  \* thresholds of the policy
  success_rate, verification_rate,          \* thresholds, in per cent
  maximum_violations,
  maximumRecompositions, maximumSteps,
  MaxExecutions,      \* bound on the observations of one process
  MaxGenome,          \* bound on genome_version
  NULL

Contributions == {"EXECUTION", "RECOVERY", "VERIFICATION"}

Outcome == [success : BOOLEAN, verified : BOOLEAN, contribution : Contributions]

required ==
  {"sandbox_passed", "deterministic_tests_passed", "integration_test_passed",
   "failure_tests_passed", "verification_passed", "authority_evaluation_passed"}

Genomes == 1 .. MaxGenome

Profile == [executions : Nat, verified_successes : Nat,
            failures : Nat, verifications : Nat]

\* The fields of evidence that have a threshold.
EvidenceFields ==
  {"execution_count", "verified_success_count", "success_rate", "verification_rate"}

\* Evidence as a caller presents it: counts, from the fitness tracker or of
\* its own making, and the fields it states of them.  profile() has other
\* field names, so even an honest caller has to build the evidence.
Evidence ==
  [counts : Profile, source : {"tracker", "caller"}, stated : SUBSET EvidenceFields]

NoRecords == [executions |-> 0, verified_successes |-> 0,
              failures |-> 0, verifications |-> 0]

\* A skill of the registry: the genome it was graduated from.
Skill == [genome_ref : Genomes]

Capability ==
  [skills : Seq(Processes), genomes : Seq(Genomes), kind : STRING,
   status : {"CANDIDATE", "PROSYNTHESIZED"}]

Event == [replaced : Processes, selected : Processes, graph_root : Seq(Processes)]

Execution ==
  [mode : {"none", "capability", "dynamic"}, status : {"idle", "running", "done", "rejected"},
   initial : Seq(Processes), graph : Seq(Processes), completed : Seq(Processes),
   events : Seq(Event), visitedGraphs : SUBSET Seq(Processes),
   ran : Seq(Processes), recorded : Seq(Processes)]

ASSUME InputsAssumption ==
  /\ Outcomes \subseteq Outcome
  /\ Claims \subseteq Profile /\ Statements \subseteq SUBSET EvidenceFields
  /\ \A c \in Compositions : /\ c.skill_ids \in Seq(Processes)
                             /\ c.composition_kind \in STRING
  /\ DynamicGraphs \subseteq Seq(Processes)
  /\ \A e \in PromotionEvidence : e \subseteq required

ASSUME ThresholdsAssumption ==
  /\ {execution_count, verified_success_count, maximum_violations} \subseteq Nat
  /\ {success_rate, verification_rate} \subseteq 0 .. 100
  /\ {maximumRecompositions, maximumSteps, MaxExecutions} \subseteq Nat
  /\ MaxGenome \in Nat \ {0}

ASSUME NullAssumption ==
  /\ NULL \notin Profile /\ NULL \notin Skill /\ NULL \notin Capability

VARIABLES
  genome,     \* the genome version each process's owner holds
  tally,      \* observer.records, counted per process
  profile,    \* evidence a caller took from the fitness tracker, or NULL
  registry,   \* registry.skills: skill or NULL
  cache,      \* cache.entries: capability or NULL
  held,       \* capabilities callers hold
  exec,       \* the execution in progress, or the last one
  subscribed, \* the boundary adapter listens to the observer
  learned,    \* the Synaptizer's reinforcement of each skill, in quarters
  credited,   \* history: credit of the verified records of each skill
  missed,     \* history: skills with a record the Synaptizer never got
  graduated   \* history: what graduated, [process, genome, source, stated]

learningVars == <<genome, tally, profile, registry, graduated>>
synthesisVars == <<cache, held>>
feedVars == <<subscribed, learned, credited, missed>>
piVars == <<learningVars, synthesisVars, feedVars, exec>>

One(b) == IF b THEN 1 ELSE 0

-----------------------------------------------------------------------------
(* Observation, fitness and graduation.                                    *)

\* observe() and fitness(): one more record of a process.
Counted(t, o) ==
  [executions |-> t.executions + 1,
   verified_successes |-> t.verified_successes + One(o.success /\ o.verified),
   failures |-> t.failures + One(~o.success),
   verifications |-> t.verifications + One(o.verified)]

\* A rate of the profile against a threshold; without records it is 0.
RateReaches(count, total, threshold) ==
  IF total = 0 THEN threshold = 0 ELSE 100 * count >= threshold * total

\* Mutant: a process may graduate one verified success early.
EligibleEarly(evidence, violations) ==
  LET counts == evidence.counts
      stated(f) == f \in evidence.stated
  IN /\ stated("execution_count") => counts.executions >= execution_count
     /\ stated("verified_success_count") =>
          counts.verified_successes + 1 >= verified_success_count
     /\ violations <= maximum_violations

\* ProcessSkillGraduationPolicy.evaluate: a field that is missing is below no
\* threshold, since undefined < threshold is false.
Eligible(evidence, violations) ==
  LET counts == evidence.counts
      stated(f) == f \in evidence.stated
  IN /\ stated("execution_count") => counts.executions >= execution_count
     /\ stated("verified_success_count") =>
          counts.verified_successes >= verified_success_count
     /\ stated("success_rate") =>
          RateReaches(counts.executions - counts.failures, counts.executions, success_rate)
     /\ stated("verification_rate") =>
          RateReaches(counts.verifications, counts.executions, verification_rate)
     /\ violations <= maximum_violations

\* The credit of a record, credit(), in quarters.
credit(o) ==
  IF ~o.success THEN -4
  ELSE IF o.contribution = "RECOVERY" THEN 6
  ELSE IF o.contribution = "VERIFICATION" THEN 5
  ELSE IF o.verified THEN 4 ELSE 1

\* Mutant: the event does not say that the run failed.
toSynaptizerEventOptimistic(o) ==
  [verified |-> o.verified, failure |-> FALSE, success |-> o.success,
   recovery |-> o.contribution = "RECOVERY",
   verification_contribution |-> o.contribution = "VERIFICATION"]

\* The event the boundary adapter publishes for a record.
toSynaptizerEvent(o) ==
  [verified |-> o.verified, failure |-> ~o.success, success |-> o.success,
   recovery |-> o.contribution = "RECOVERY",
   verification_contribution |-> o.contribution = "VERIFICATION"]

\* Synaptizer.consume: an unverified event teaches nothing.
reinforcement(e) ==
  IF ~e.verified THEN 0
  ELSE IF e.failure THEN -4
  ELSE IF e.recovery THEN 6
  ELSE IF e.verification_contribution THEN 5
  ELSE IF e.success THEN 4 ELSE 1

Idle == exec.status # "running"

\* ProcessEdgeObserver.observe: the record is kept whether or not the
\* listener then throws; only a listener that returned has learned from it.
Observe(p, o, publishes) ==
  LET delivered == subscribed /\ publishes
  IN /\ tally[p].executions < MaxExecutions
     /\ tally' = [tally EXCEPT ![p] = Counted(tally[p], o)]
     /\ credited' = [credited EXCEPT ![p] = @ + IF o.verified THEN credit(o) ELSE 0]
     /\ learned' = [learned EXCEPT
          ![p] = @ + IF delivered THEN reinforcement(toSynaptizerEvent(o)) ELSE 0]
     /\ missed' = IF delivered THEN missed ELSE missed \cup {p}

\* A process that is not a skill yet runs and its caller observes it.
ObserveProcess(p, o, publishes) ==
  /\ Idle
  /\ Observe(p, o, publishes)
  /\ UNCHANGED <<genome, profile, registry, graduated, synthesisVars, subscribed, exec>>

\* evolveProcessGenome, by the owner of the process.
EvolveGenome(p) ==
  /\ Idle
  /\ genome[p] < MaxGenome
  /\ genome' = [genome EXCEPT ![p] = genome[p] + 1]
  /\ UNCHANGED <<tally, profile, registry, graduated, synthesisVars, feedVars, exec>>

\* ProcessFitnessTracker.profile; the caller may keep it as long as it likes.
TakeProfile(p) ==
  /\ Idle
  /\ profile' = [profile EXCEPT ![p] = tally[p]]
  /\ UNCHANGED <<genome, tally, registry, graduated, synthesisVars, feedVars, exec>>

\* The evidence the caller of graduate can come up with for p.
EvidenceFor(p) ==
  [counts : {profile[p]} \ {NULL}, source : {"tracker"}, stated : Statements]
    \cup [counts : Claims, source : {"caller"}, stated : Statements]

\* ProcessSkillRegistry.graduate: the evidence is whatever the caller passes.
\* The skill id has no genome in it, so a process that graduates again
\* replaces its skill.
Graduate(p, evidence, violations) ==
  /\ Idle
  /\ Eligible(evidence, violations)
  /\ registry' = [registry EXCEPT ![p] = [genome_ref |-> genome[p]]]
  /\ graduated' = graduated \cup
       {[process |-> p, genome |-> genome[p], source |-> evidence.source,
         stated |-> evidence.stated]}
  /\ UNCHANGED <<genome, tally, profile, synthesisVars, feedVars, exec>>

-----------------------------------------------------------------------------
(* Synthesis and promotion.                                                *)

Candidate(c) ==
  [skills |-> c.skill_ids,
   genomes |-> [i \in DOMAIN c.skill_ids |-> registry[c.skill_ids[i]].genome_ref],
   kind |-> c.composition_kind, status |-> "CANDIDATE"]

\* synthesize answered from the cache, also discoverProsynthesizedCapability:
\* neither the registry nor the requested skills are looked at.
SynthesizeFromCache(key) ==
  /\ Idle
  /\ cache[key] # NULL
  /\ held' = held \cup {cache[key]}
  /\ UNCHANGED <<learningVars, cache, feedVars, exec>>

\* Mutant: skills are taken without asking the registry for them.
SynthesizeUnregistered(key, c) ==
  /\ Idle
  /\ cache[key] = NULL
  /\ held' = held \cup {[skills |-> c.skill_ids,
                         genomes |-> [i \in DOMAIN c.skill_ids |-> genome[c.skill_ids[i]]],
                         kind |-> c.composition_kind, status |-> "CANDIDATE"]}
  /\ UNCHANGED <<learningVars, cache, feedVars, exec>>

\* synthesize on a cache miss.
Synthesize(key, c) ==
  /\ Idle
  /\ cache[key] = NULL
  /\ \A i \in DOMAIN c.skill_ids : registry[c.skill_ids[i]] # NULL
  /\ Len(c.skill_ids) >= 2
  /\ held' = held \cup {Candidate(c)}
  /\ UNCHANGED <<learningVars, cache, feedVars, exec>>

\* promote: the cache key comes from the evidence, not from the candidate.
Promote(c, key, evidence) ==
  /\ Idle
  /\ c.status = "CANDIDATE"
  /\ required \subseteq evidence
  /\ LET promoted == [skills |-> c.skills, genomes |-> c.genomes, kind |-> c.kind,
                      status |-> "PROSYNTHESIZED"]
     IN /\ held' = held \cup {promoted}
        /\ cache' = [cache EXCEPT ![key] = promoted]
  /\ UNCHANGED <<learningVars, feedVars, exec>>

\* close(): the adapter stops listening.
CloseBoundary ==
  /\ Idle
  /\ subscribed
  /\ subscribed' = FALSE
  /\ UNCHANGED <<learningVars, synthesisVars, learned, credited, missed, exec>>

-----------------------------------------------------------------------------
(* Execution of a promoted capability and of a post-synthesized graph.     *)

NoExecution ==
  [mode |-> "none", status |-> "idle", initial |-> <<>>, graph |-> <<>>,
   completed |-> <<>>, events |-> <<>>, visitedGraphs |-> {}, ran |-> <<>>,
   recorded |-> <<>>]

StartedOn(mode, graph) ==
  [mode |-> mode, status |-> "running", initial |-> graph, graph |-> graph,
   completed |-> <<>>, events |-> <<>>, visitedGraphs |-> {}, ran |-> <<>>,
   recorded |-> <<>>]

cursor == Len(exec.completed) + 1

\* Entry of executeProsynthesizedCapability.
ExecuteCapability(c) ==
  /\ Idle
  /\ c.status = "PROSYNTHESIZED"
  /\ c.kind = "SEQUENTIAL"
  /\ exec' = StartedOn("capability", c.skills)
  /\ UNCHANGED <<learningVars, synthesisVars, feedVars>>

\* Entry of PostSynthesizedRuntime.execute.
ExecuteDynamic(graph) ==
  /\ Idle
  /\ exec' = StartedOn("dynamic", graph)
  /\ UNCHANGED <<learningVars, synthesisVars, feedVars>>

\* The loop runs another iteration: a skill is left and, for a dynamic
\* graph, the step budget and the cycle check let it.
Iterates ==
  /\ exec.status = "running"
  /\ cursor <= Len(exec.graph)
  /\ exec.mode = "dynamic" =>
       /\ Len(exec.completed) < maximumSteps
       /\ cursor = 1 => exec.graph \notin exec.visitedGraphs

visitedNow ==
  IF exec.mode = "dynamic" THEN exec.visitedGraphs \cup {exec.graph}
  ELSE exec.visitedGraphs

\* The skill at the cursor runs and its edge is recorded and published.  A
\* failed skill, or a listener that throws, ends the execution; the record
\* is kept either way.
RunSkill(o, publishes) ==
  LET selected == exec.graph[cursor]
      goesOn == o.success /\ (subscribed => publishes)
  IN /\ Iterates
     /\ Observe(selected, o, publishes)
     /\ exec' = [exec EXCEPT
          !.ran = Append(@, selected), !.recorded = Append(@, selected),
          !.visitedGraphs = visitedNow,
          !.completed = IF goesOn THEN Append(@, selected) ELSE @,
          !.status = IF goesOn THEN "running" ELSE "rejected"]
     /\ UNCHANGED <<genome, profile, registry, graduated, synthesisVars, subscribed>>

\* Mutant: a refused report is swallowed and the loop goes on.
RunUnrecordedSwallowed ==
  /\ Iterates
  /\ exec' = [exec EXCEPT !.ran = Append(@, exec.graph[cursor]),
                          !.visitedGraphs = visitedNow,
                          !.completed = Append(@, exec.graph[cursor])]
  /\ UNCHANGED <<learningVars, synthesisVars, feedVars>>

\* The skill runs, but the observer refuses its report (times or evidence
\* invalid): the effect happened and no record says so.
RunUnrecorded ==
  /\ Iterates
  /\ exec' = [exec EXCEPT !.ran = Append(@, exec.graph[cursor]),
                          !.visitedGraphs = visitedNow, !.status = "rejected"]
  /\ UNCHANGED <<learningVars, synthesisVars, feedVars>>

\* Mutant: a replacement may be a skill that has completed already.
RecomposeCompleted(replacement) ==
  /\ Iterates
  /\ exec.mode = "dynamic"
  /\ Len(exec.events) < maximumRecompositions
  /\ replacement # exec.graph[cursor]
  /\ LET graph == [exec.graph EXCEPT ![cursor] = replacement]
     IN exec' = [exec EXCEPT
          !.graph = graph, !.visitedGraphs = visitedNow,
          !.events = Append(@, [replaced |-> exec.graph[cursor],
                                selected |-> replacement, graph_root |-> graph])]
  /\ UNCHANGED <<learningVars, synthesisVars, feedVars>>

\* Mutant: the whole rest of the graph is replaced.
RecomposeRest(replacement) ==
  /\ Iterates
  /\ exec.mode = "dynamic"
  /\ Len(exec.events) < maximumRecompositions
  /\ replacement # exec.graph[cursor]
  /\ \A i \in DOMAIN exec.completed : exec.completed[i] # replacement
  /\ LET graph == [i \in DOMAIN exec.graph |->
                     IF i < cursor THEN exec.graph[i] ELSE replacement]
     IN exec' = [exec EXCEPT
          !.graph = graph, !.visitedGraphs = visitedNow,
          !.events = Append(@, [replaced |-> exec.graph[cursor],
                                selected |-> replacement, graph_root |-> graph])]
  /\ UNCHANGED <<learningVars, synthesisVars, feedVars>>

\* Mutant: an already completed slot is replaced.
RecomposeBehind(replacement) ==
  /\ Iterates
  /\ exec.mode = "dynamic"
  /\ Len(exec.events) < maximumRecompositions
  /\ LET at == IF cursor = 1 THEN 1 ELSE cursor - 1
         graph == [exec.graph EXCEPT ![at] = replacement]
     IN /\ replacement # exec.graph[at]
        /\ exec' = [exec EXCEPT
             !.graph = graph, !.visitedGraphs = visitedNow,
             !.events = Append(@, [replaced |-> exec.graph[at],
                                   selected |-> replacement, graph_root |-> graph])]
  /\ UNCHANGED <<learningVars, synthesisVars, feedVars>>

\* Mutant: nothing bounds the recompositions.
RecomposeForever(replacement) ==
  /\ Iterates
  /\ exec.mode = "dynamic"
  /\ replacement # exec.graph[cursor]
  /\ exec' = [exec EXCEPT !.graph = [@ EXCEPT ![cursor] = replacement]]
  /\ UNCHANGED <<learningVars, synthesisVars, feedVars>>

\* The observed context makes the skill at the cursor unsuitable: another
\* takes its place.  The check for a cycle looks at the completed skills,
\* not at those still to run.
Recompose(replacement) ==
  /\ Iterates
  /\ exec.mode = "dynamic"
  /\ Len(exec.events) < maximumRecompositions
  /\ replacement # exec.graph[cursor]
  /\ \A i \in DOMAIN exec.completed : exec.completed[i] # replacement
  /\ LET graph == [exec.graph EXCEPT ![cursor] = replacement]
     IN exec' = [exec EXCEPT
          !.graph = graph, !.visitedGraphs = visitedNow,
          !.events = Append(@, [replaced |-> exec.graph[cursor],
                                selected |-> replacement, graph_root |-> graph])]
  /\ UNCHANGED <<learningVars, synthesisVars, feedVars>>

\* A budget, the deadline, the cycle check, a missing implementation or a
\* refused authorization ends the execution before the skill runs, or the
\* caller's verify() throws once all skills have.
RejectExecution ==
  /\ exec.status = "running"
  /\ exec' = [exec EXCEPT !.status = "rejected"]
  /\ UNCHANGED <<learningVars, synthesisVars, feedVars>>

\* The loop ends: the checkpoint and the result are built from the graph.
FinishExecution ==
  /\ exec.status = "running"
  /\ cursor > Len(exec.graph)
  /\ exec' = [exec EXCEPT !.status = "done"]
  /\ UNCHANGED <<learningVars, synthesisVars, feedVars>>

ExecutionStep ==
  \/ \E o \in Outcomes, publishes \in BOOLEAN : RunSkill(o, publishes)
  \/ RunUnrecorded
  \/ \E p \in Processes : Recompose(p)
  \/ RejectExecution
  \/ FinishExecution

-----------------------------------------------------------------------------

PIInit ==
  /\ genome = [p \in Processes |-> 1]
  /\ tally = [p \in Processes |-> NoRecords]
  /\ profile = [p \in Processes |-> NULL]
  /\ registry = [p \in Processes |-> NULL]
  /\ cache = [k \in CacheKeys |-> NULL]
  /\ held = {}
  /\ exec = NoExecution
  /\ subscribed = TRUE
  /\ learned = [p \in Processes |-> 0]
  /\ credited = [p \in Processes |-> 0]
  /\ missed = {}
  /\ graduated = {}

\* What owners and callers of the module do apart from executing.
LearningStep ==
  \/ \E p \in Processes, o \in Outcomes, publishes \in BOOLEAN :
       ObserveProcess(p, o, publishes)
  \/ \E p \in Processes : EvolveGenome(p) \/ TakeProfile(p)
  \/ \E p \in Processes, violations \in 0 .. maximum_violations + 1 :
       \E evidence \in EvidenceFor(p) : Graduate(p, evidence, violations)
  \/ \E k \in CacheKeys : SynthesizeFromCache(k)
  \/ \E k \in CacheKeys, c \in Compositions : Synthesize(k, c)
  \/ \E c \in held, k \in CacheKeys, e \in PromotionEvidence : Promote(c, k, e)
  \/ CloseBoundary

StartStep ==
  \/ \E c \in held : ExecuteCapability(c)
  \/ \E g \in DynamicGraphs : ExecuteDynamic(g)

PINext == LearningStep \/ StartStep \/ ExecutionStep

\* An execution is a synchronous loop: once entered it runs to its end.
PISpec == PIInit /\ [][PINext]_piVars /\ WF_piVars(ExecutionStep)

-----------------------------------------------------------------------------
(* Properties.                                                             *)

PITypeOK ==
  /\ genome \in [Processes -> Genomes]
  /\ tally \in [Processes -> Profile]
  /\ profile \in [Processes -> Profile \cup {NULL}]
  /\ registry \in [Processes -> Skill \cup {NULL}]
  /\ graduated \subseteq
       [process : Processes, genome : Genomes, source : {"tracker", "caller"},
        stated : SUBSET EvidenceFields]
  /\ cache \in [CacheKeys -> Capability \cup {NULL}]
  /\ held \subseteq Capability
  /\ exec \in Execution
  /\ subscribed \in BOOLEAN
  /\ learned \in [Processes -> Int]
  /\ credited \in [Processes -> Int]
  /\ missed \subseteq Processes

\* Every capability a caller holds or the cache returns, promoted or not, is
\* made of at least two skills that did graduate, each from the genome the
\* capability names, however the processes evolved and re-graduated since.
CapabilityProvenance ==
  \A c \in (held \cup {cache[k] : k \in CacheKeys}) \ {NULL} :
    /\ Len(c.skills) >= 2
    /\ DOMAIN c.genomes = DOMAIN c.skills
    /\ \A i \in DOMAIN c.skills :
         \E g \in graduated : g.process = c.skills[i] /\ g.genome = c.genomes[i]

\* A process that graduated without the recorded executions or verified
\* successes the policy demands did so on counts its caller made up or on
\* evidence that left the field out, which the policy lets pass; a snapshot of
\* the tracker, however old, is never ahead of the records.
GraduatesEarnedIt ==
  \A g \in graduated :
    LET short(field) == g.source = "caller" \/ field \notin g.stated
    IN /\ tally[g.process].executions >= execution_count \/ short("execution_count")
       /\ \/ tally[g.process].verified_successes >= verified_success_count
          \/ short("verified_success_count")

\* The observer's credit and the Synaptizer's reinforcement are two functions
\* in two files: they agree on every skill none of whose records was lost.
CreditAgrees == \A p \in Processes \ missed : learned[p] = credited[p]

\* What the system believes of its skills goes back to recorded evidence, or
\* to a caller's word where the code takes it.
LearningSound == CapabilityProvenance /\ GraduatesEarnedIt /\ CreditAgrees

\* What has completed is the executed prefix of the graph: recomposition
\* never rewrites the past, and a finished execution completed its graph.
CompletedIsGraphPrefix ==
  /\ Len(exec.completed) <= Len(exec.graph)
  /\ \A i \in DOMAIN exec.completed : exec.completed[i] = exec.graph[i]
  /\ exec.status = "done" => exec.completed = exec.graph

\* The graph before recomposition event k.
GraphBefore(k) == IF k = 1 THEN exec.initial ELSE exec.events[k - 1].graph_root

\* The recompilation events of the checkpoint account for the graph: each
\* one changes one slot of the graph before it, and the last gives the graph.
EventsExplainGraph ==
  /\ exec.graph = GraphBefore(Len(exec.events) + 1)
  /\ \A k \in DOMAIN exec.events :
       LET e == exec.events[k]
       IN \E i \in DOMAIN GraphBefore(k) :
            /\ GraphBefore(k)[i] = e.replaced
            /\ e.graph_root = [GraphBefore(k) EXCEPT ![i] = e.selected]

\* An effect the observer has no record of is the last effect of a rejected
\* execution; every other one is recorded, in order.
OnlyLastEffectUnrecorded ==
  /\ exec.recorded = SubSeq(exec.ran, 1, Len(exec.recorded))
  /\ exec.ran # exec.recorded =>
       exec.status = "rejected" /\ Len(exec.ran) = Len(exec.recorded) + 1

\* A skill that recomposition brings in has not run in this execution before,
\* although the check is made against the skills completed so far and the
\* graph is swapped again later.
BroughtInOnce ==
  \A j \in DOMAIN exec.completed :
    exec.completed[j] # exec.initial[j] =>
      \A i \in DOMAIN exec.completed : i < j => exec.completed[i] # exec.completed[j]

\* The checkpoint of an execution, also of one that was recomposed or ended
\* early, tells what was run.
ExecutionSound ==
  CompletedIsGraphPrefix /\ EventsExplainGraph /\ OnlyLastEffectUnrecorded /\ BroughtInOnce

\* Every execution ends: the budgets bound its iterations.
ExecutionTerminates == (exec.status = "running") ~> (exec.status # "running")
=============================================================================
