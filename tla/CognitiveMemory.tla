---------------------------- MODULE CognitiveMemory ----------------------------
(* The learned state of the cognitive body and its persistence:              *)
(* synaptizer.mjs, which folds execution evidence into relationships, and    *)
(* cognitive-state-store.mjs, which saves a snapshot of it to a file and     *)
(* recovers it in a later process.                                           *)
(*                                                                           *)
(* One process runs at a time.  It consumes evidence, which is delivered any *)
(* number of times, saves, and may crash between any two file operations;    *)
(* the next process, possibly under the same pid, loads the file and         *)
(* hydrates.  Roots are ideal hashes: a root is the value it commits to.     *)
(* The graph, the sequence and the metadata of a saved state are carried     *)
(* along by the code without being looked at, and are left out.              *)
EXTENDS Integers, FiniteSets

CONSTANTS
  Ids,            \* edge_execution_id of evidence
  Relations,      \* the identities of relationships: components, roles, context
  Events,         \* the PROCESS_EDGE_EVIDENCE events that may be delivered
  Saves,          \* calls of save()
  Pids,           \* process ids
  MaxOverlap,     \* how many save() calls a process has in flight at once
  MaxReceived,    \* bound on the events a process receives
  Partial,        \* text that is not a whole state: empty, cut off or mixed
  NULL

\* An event whose relationship lacks a component or a role has relation NULL.
Event == [id : Ids, relation : Relations \cup {NULL}, verified : BOOLEAN,
          success : BOOLEAN, failure : BOOLEAN, recovery : BOOLEAN,
          verification_contribution : BOOLEAN]

ASSUME MemoryAssumption ==
  /\ IsFiniteSet(Ids) /\ NULL \notin Relations
  /\ Events \subseteq Event /\ IsFiniteSet(Events)
  /\ IsFiniteSet(Saves) /\ NULL \notin Saves
  /\ MaxOverlap \in Nat \ {0} /\ MaxReceived \in Nat

VARIABLES
  running, pid,   \* is there a process, and its (or the last) pid
  synaptizer,     \* the process's Synaptizer
  stage,          \* how far each save() call has come
  envelope,       \* what each save() call writes
  fd,             \* the file each save() call has opened
  content,        \* the contents of the files, named by the call that made them
  temporary,      \* the file at `${path}.tmp-${pid}`
  stateFile,      \* the file at path
  acknowledged,   \* history: the ids seen in the states whose save() returned
  damaged         \* history: the stored bytes were altered from outside

memoryVars == <<running, pid, synaptizer>>
saveVars   == <<stage, envelope, fd>>
diskVars   == <<content, temporary, stateFile>>
historyVars == <<acknowledged, damaged>>
vars == <<memoryVars, saveVars, diskVars, historyVars>>
-----------------------------------------------------------------------------
(* The Synaptizer. Reinforcement is counted in quarters.                     *)

\* reinforcement(event)
reinforcement(e) ==
  IF e.failure /\ e.verified THEN -4
  ELSE IF e.recovery THEN 6
  ELSE IF e.verification_contribution THEN 5
  ELSE IF e.success THEN 4
  ELSE 1

Relationship ==
  [observations : Nat, verified_successes : Nat, verified_failures : Nat,
   recoveries : Nat, verification_contributions : Nat,
   reinforcement : Int, evidence_state_roots : SUBSET Events]

NewRelationship ==
  [observations |-> 0, verified_successes |-> 0, verified_failures |-> 0,
   recoveries |-> 0, verification_contributions |-> 0,
   reinforcement |-> 0, evidence_state_roots |-> {}]

Synaptizer ==
  [relationships : [Relations -> Relationship \cup {NULL}],
   seenEvents : SUBSET Ids, receivedEvents : Nat, learnedEvents : Nat,
   ignoredUnverifiedEvents : Nat, duplicateEvents : Nat]

NewSynaptizer ==
  [relationships |-> [r \in Relations |-> NULL],
   seenEvents |-> {}, receivedEvents |-> 0, learnedEvents |-> 0,
   ignoredUnverifiedEvents |-> 0, duplicateEvents |-> 0]

One(b) == IF b THEN 1 ELSE 0

\* The relationship an event belongs to, as it is before the event.
existing(e) ==
  IF synaptizer.relationships[e.relation] = NULL
  THEN NewRelationship ELSE synaptizer.relationships[e.relation]

\* Mutant: the reinforcement is added to the number of observations.
updatedMixed(e, old) ==
  [old EXCEPT !.observations = @ + reinforcement(e),
              !.evidence_state_roots = @ \cup {e}]

\* The relationship after a verified event.
updated(e, old) ==
  [observations |-> old.observations + 1,
   verified_successes |-> old.verified_successes + One(e.success),
   verified_failures |-> old.verified_failures + One(e.failure),
   recoveries |-> old.recoveries + One(e.recovery),
   verification_contributions |->
     old.verification_contributions + One(e.verification_contribution),
   reinforcement |-> old.reinforcement + reinforcement(e),
   evidence_state_roots |-> old.evidence_state_roots \cup {e}]

Receivable == running /\ synaptizer.receivedEvents < MaxReceived

\* consume of an id that was seen: counted, nothing else.
ConsumeDuplicate(e) ==
  /\ Receivable
  /\ e.id \in synaptizer.seenEvents
  /\ synaptizer' = [synaptizer EXCEPT !.receivedEvents = @ + 1,
                                      !.duplicateEvents = @ + 1]
  /\ UNCHANGED <<running, pid, saveVars, diskVars, historyVars>>

\* consume of unverified evidence: its id is remembered, nothing is learned.
ConsumeUnverified(e) ==
  /\ Receivable
  /\ e.id \notin synaptizer.seenEvents
  /\ ~e.verified
  /\ synaptizer' = [synaptizer EXCEPT !.receivedEvents = @ + 1,
                                      !.seenEvents = @ \cup {e.id},
                                      !.ignoredUnverifiedEvents = @ + 1]
  /\ UNCHANGED <<running, pid, saveVars, diskVars, historyVars>>

\* consume of verified evidence whose relationship cannot be identified:
\* relationshipIdentity throws after the id was counted and remembered.
ConsumeMalformed(e) ==
  /\ Receivable
  /\ e.id \notin synaptizer.seenEvents
  /\ e.verified /\ e.relation = NULL
  /\ synaptizer' = [synaptizer EXCEPT !.receivedEvents = @ + 1,
                                      !.seenEvents = @ \cup {e.id}]
  /\ UNCHANGED <<running, pid, saveVars, diskVars, historyVars>>

\* Mutant: the id of learned evidence is not remembered.
ConsumeVerifiedForgets(e) ==
  /\ Receivable
  /\ e.id \notin synaptizer.seenEvents
  /\ e.verified /\ e.relation \in Relations
  /\ synaptizer' = [synaptizer EXCEPT !.receivedEvents = @ + 1,
                                      !.relationships[e.relation] = updated(e, existing(e)),
                                      !.learnedEvents = @ + 1]
  /\ UNCHANGED <<running, pid, saveVars, diskVars, historyVars>>

\* consume of verified evidence: its relationship is updated.
ConsumeVerified(e) ==
  /\ Receivable
  /\ e.id \notin synaptizer.seenEvents
  /\ e.verified /\ e.relation \in Relations
  /\ synaptizer' = [synaptizer EXCEPT !.receivedEvents = @ + 1,
                                      !.seenEvents = @ \cup {e.id},
                                      !.relationships[e.relation] = updated(e, existing(e)),
                                      !.learnedEvents = @ + 1]
  /\ UNCHANGED <<running, pid, saveVars, diskVars, historyVars>>
-----------------------------------------------------------------------------
(* Snapshots and the state file.                                             *)

\* snapshot(): the state with its root.
snapshot(s) == [state |-> s, state_root |-> s]

\* What save() writes: the snapshot and the root of the whole.
Enveloped(s) == [synaptic_snapshot |-> snapshot(s), state_root |-> snapshot(s)]

Envelope ==
  LET Snapshot == [state : Synaptizer, state_root : Synaptizer]
  IN  [synaptic_snapshot : Snapshot, state_root : Snapshot]

ASSUME NullAssumption ==
  /\ NULL \notin Relationship
  /\ NULL \notin Envelope /\ Partial \notin Envelope

\* load() accepts the contents.
Loadable(c) == c # Partial /\ c.state_root = c.synaptic_snapshot

\* hydrate() accepts the snapshot.
Hydratable(snap) == snap.state_root = snap.state

\* Mutant: neither root is compared.
RecoverableUnchecked(c) == c # Partial

\* load() followed by hydrate() succeeds.
Recoverable(c) == Loadable(c) /\ Hydratable(c.synaptic_snapshot)

InFlight == {s \in Saves : stage[s] \in {"begun", "opened", "written"}}

\* save() up to its first await: the state is copied.
BeginSave(s) ==
  /\ running
  /\ stage[s] = "unused"
  /\ Cardinality(InFlight) < MaxOverlap
  /\ stage' = [stage EXCEPT ![s] = "begun"]
  /\ envelope' = [envelope EXCEPT ![s] = Enveloped(synaptizer)]
  /\ UNCHANGED <<memoryVars, fd, diskVars, historyVars>>

\* Mutant: the state file itself is opened for writing.
OpenInPlace(s) ==
  /\ stage[s] = "begun"
  /\ LET file == IF stateFile = NULL THEN s ELSE stateFile IN
       /\ content' = [content EXCEPT ![file] = Partial]
       /\ fd' = [fd EXCEPT ![s] = file]
       /\ temporary' = [temporary EXCEPT ![pid] = file]
       /\ stateFile' = file
  /\ stage' = [stage EXCEPT ![s] = "opened"]
  /\ UNCHANGED <<memoryVars, envelope, historyVars>>

\* writeFile opens the temporary path: a file that is there is truncated.
OpenTemporary(s) ==
  /\ stage[s] = "begun"
  /\ LET file == IF temporary[pid] = NULL THEN s ELSE temporary[pid] IN
       /\ content' = [content EXCEPT ![file] = Partial]
       /\ fd' = [fd EXCEPT ![s] = file]
       /\ temporary' = [temporary EXCEPT ![pid] = file]
  /\ stage' = [stage EXCEPT ![s] = "opened"]
  /\ UNCHANGED <<memoryVars, envelope, stateFile, historyVars>>

\* writeFile writes and closes. Two calls that write to one file may overwrite
\* each other or leave a mixture.
WriteTemporary(s) ==
  /\ stage[s] = "opened"
  /\ LET shared == \E t \in InFlight \ {s} : fd[t] = fd[s]
     IN  \/ content' = [content EXCEPT ![fd[s]] = envelope[s]]
         \/ shared /\ content' = [content EXCEPT ![fd[s]] = Partial]
  /\ stage' = [stage EXCEPT ![s] = "written"]
  /\ UNCHANGED <<memoryVars, envelope, fd, temporary, stateFile, historyVars>>

\* A save() call ends, and its local variables with it.
Settle(s, how) ==
  /\ stage' = [stage EXCEPT ![s] = how]
  /\ envelope' = [envelope EXCEPT ![s] = NULL]
  /\ fd' = [fd EXCEPT ![s] = NULL]

\* rename moves the temporary file over the state file and save() returns.
RenameTemporary(s) ==
  /\ stage[s] = "written"
  /\ temporary[pid] # NULL
  /\ stateFile' = temporary[pid]
  /\ temporary' = [temporary EXCEPT ![pid] = NULL]
  /\ Settle(s, "saved")
  /\ acknowledged' = acknowledged \cup envelope[s].synaptic_snapshot.state.seenEvents
  /\ UNCHANGED <<memoryVars, content, damaged>>

\* A file operation fails and save() rejects: mkdir or open, a write that leaves
\* part of the text, or rename, which also fails when the temporary file is gone.
SaveFails(s) ==
  /\ s \in InFlight
  /\ content' = IF stage[s] = "opened"
                THEN [content EXCEPT ![fd[s]] = Partial] ELSE content
  /\ Settle(s, "failed")
  /\ UNCHANGED <<memoryVars, temporary, stateFile, historyVars>>
-----------------------------------------------------------------------------
(* Processes.                                                                *)

Init ==
  /\ running = FALSE /\ pid \in Pids
  /\ synaptizer = NewSynaptizer
  /\ stage = [s \in Saves |-> "unused"]
  /\ envelope = [s \in Saves |-> NULL]
  /\ fd = [s \in Saves |-> NULL]
  /\ content = [s \in Saves |-> Partial]
  /\ temporary = [p \in Pids |-> NULL]
  /\ stateFile = NULL
  /\ acknowledged = {}
  /\ damaged = FALSE

\* Mutant: a new process does not read the state it finds.
StartFresh(p) ==
  /\ ~running
  /\ running' = TRUE /\ pid' = p
  /\ synaptizer' = NewSynaptizer
  /\ UNCHANGED <<saveVars, diskVars, historyVars>>

\* A process starts under pid p: without a state file it begins anew, otherwise
\* it loads and hydrates, and gives up if either is refused.
Start(p) ==
  /\ ~running
  /\ running' = TRUE /\ pid' = p
  /\ \/ stateFile = NULL /\ synaptizer' = NewSynaptizer
     \/ /\ stateFile # NULL
        /\ Recoverable(content[stateFile])
        /\ synaptizer' = content[stateFile].synaptic_snapshot.state
  /\ UNCHANGED <<saveVars, diskVars, historyVars>>

\* The process ends, between any two file operations.
Crash ==
  /\ running
  /\ running' = FALSE
  /\ synaptizer' = NewSynaptizer
  /\ stage' = [s \in Saves |-> IF s \in InFlight THEN "failed" ELSE stage[s]]
  /\ envelope' = [s \in Saves |-> NULL]
  /\ fd' = [s \in Saves |-> NULL]
  /\ UNCHANGED <<pid, diskVars, historyVars>>

\* The stored text is altered from outside: an id is missing from the list of
\* seen events, the roots are as they were.
Damage(i) ==
  /\ ~running /\ stateFile # NULL
  /\ LET c == content[stateFile] IN
       /\ Recoverable(c)
       /\ i \in c.synaptic_snapshot.state.seenEvents
       /\ content' = [content EXCEPT ![stateFile] =
            [c EXCEPT !.synaptic_snapshot.state.seenEvents = @ \ {i}]]
  /\ damaged' = TRUE
  /\ UNCHANGED <<memoryVars, saveVars, temporary, stateFile, acknowledged>>

Next ==
  \/ \E e \in Events : ConsumeDuplicate(e) \/ ConsumeUnverified(e)
                       \/ ConsumeMalformed(e) \/ ConsumeVerified(e)
  \/ \E s \in Saves : BeginSave(s) \/ OpenTemporary(s) \/ WriteTemporary(s)
                      \/ RenameTemporary(s) \/ SaveFails(s)
  \/ \E p \in Pids : Start(p)
  \/ Crash
  \/ \E i \in Ids : Damage(i)

Spec == Init /\ [][Next]_vars
-----------------------------------------------------------------------------
(* Properties.                                                               *)

\* The variables hold values of their types: in particular the Synaptizer's
\* counters stay natural numbers, restarts included.
TypeOK ==
  /\ running \in BOOLEAN /\ pid \in Pids
  /\ synaptizer \in Synaptizer
  /\ stage \in [Saves -> {"unused", "begun", "opened", "written", "saved", "failed"}]
  /\ envelope \in [Saves -> Envelope \cup {NULL}]
  /\ fd \in [Saves -> Saves \cup {NULL}]
  /\ content \in [Saves -> Envelope \cup {Partial}]
  /\ temporary \in [Pids -> Saves \cup {NULL}]
  /\ stateFile \in Saves \cup {NULL}
  /\ acknowledged \subseteq Ids
  /\ damaged \in BOOLEAN

\* How much reinforcement the evidence E gives, counted by its five values.
Reinforcing(E, w) == Cardinality({e \in E : reinforcement(e) = w})
TotalReinforcement(E) ==
  6 * Reinforcing(E, 6) + 5 * Reinforcing(E, 5) + 4 * Reinforcing(E, 4)
    + Reinforcing(E, 1) - 4 * Reinforcing(E, -4)

\* What a relationship holds if it was learned from the evidence E, each piece
\* once and in whatever order.
Summary(E) ==
  [observations |-> Cardinality(E),
   verified_successes |-> Cardinality({e \in E : e.success}),
   verified_failures |-> Cardinality({e \in E : e.failure}),
   recoveries |-> Cardinality({e \in E : e.recovery}),
   verification_contributions |-> Cardinality({e \in E : e.verification_contribution}),
   reinforcement |-> TotalReinforcement(E),
   evidence_state_roots |-> E]

\* The evidence a relationship was learned from.
EvidenceOf(s, r) ==
  IF s.relationships[r] = NULL THEN {} ELSE s.relationships[r].evidence_state_roots

LearnedOnce(s) ==
  /\ \A r \in Relations :
       s.relationships[r] # NULL => s.relationships[r] = Summary(EvidenceOf(s, r))
  /\ \A r \in Relations : \A e \in EvidenceOf(s, r) :
       e.verified /\ e.relation = r /\ e.id \in s.seenEvents
  /\ \A q, r \in Relations : \A d \in EvidenceOf(s, q), e \in EvidenceOf(s, r) :
       d.id = e.id => d = e

\* However evidence is repeated, saved, lost in a crash, recovered and delivered
\* again, every relationship is the summary of verified evidence in which each
\* execution counts once (consume, hydrate, load).
ExactlyOnce == running => LearnedOnce(synaptizer)

Counted(s) ==
  /\ s.receivedEvents = Cardinality(s.seenEvents) + s.duplicateEvents
  /\ s.learnedEvents + s.ignoredUnverifiedEvents <= Cardinality(s.seenEvents)

\* The counters account for every event received, across restarts: one that was
\* not a duplicate left its id, and a learned or ignored one was not a duplicate
\* (consume, snapshot, hydrate).
CountersAgree == running => Counted(synaptizer)

\* What a process has learned is accounted for, execution by execution and in
\* its counters, through repeats, crashes and restarts.
LearningAccounted == ExactlyOnce /\ CountersAgree

\* The file at path is at all times absent or a state some save() was given:
\* never a part of one or a mixture, whenever the process ends (save: "Atomic
\* replacement within the same filesystem.").
StateFileWhole ==
  ~damaged /\ stateFile # NULL => Recoverable(content[stateFile])

\* Evidence in a state whose save() returned is in the state the next process
\* recovers: later saves, by whatever process, and crashes during them only add.
AcknowledgedSurvives ==
  ~damaged /\ acknowledged # {} =>
    /\ stateFile # NULL
    /\ Recoverable(content[stateFile])
    /\ acknowledged \subseteq content[stateFile].synaptic_snapshot.state.seenEvents
=============================================================================
