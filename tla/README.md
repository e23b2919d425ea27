# Strata Data Port Network: TLA+ models and proofs

This directory holds TLA+ models of the network's protocol code, the TLC
configurations that check them, and TLAPS proofs of the properties that matter
most. Paths below are relative to the repository, except that `UQ/` stands for
`candidates/unified-quad-direct-pipe/runtime/unified-quad/src/` and `PY/` for
`candidates/python-network/src/kindred_superstructure/`.

## 1. The system and its parts

| Part | Code | State it keeps | Operations | What is hard |
|---|---|---|---|---|
| Agent protocol gateway | `UQ/agent-protocol.mjs` | maps of identities, capabilities, authority grants, revocation receipts; replay guard | register*, authorizeEnvelope, acceptEnvelope, applyRevocation | delegation chains and cascades, all-or-nothing revocation, two clock readings in one call, a bounded guard |
| Direct Pipe worker transfer | `src/direct-pipe-worker-transfer.mjs`, `direct-pipe-worker.mjs` | pending calls, timers, closed flag, worker thread | transfer, close, event handlers | timeouts racing answers, worker exit, failure of one call taking the others down |
| Kindred state port | `src/kindred-state-port.mjs` | a lazily created worker transfer | plan, transfer, close | overlapping close and transfer, a transport that failed and stays |
| Two-host proof | `src/two-machine-proof.mjs` | session map, audit sink; each sender's progress | challenge and transfer handlers, sendTwoHostProof, close | handlers that await between check and use, repeated and misdelivered messages, sink failures |
| Signed directories | `src/port-names.mjs`, `src/native-port-identity.mjs` | latest record per owner, revoked owners | ingest, resolve/get, revoke | records out of order, expiry and pruning, capacity |
| Port-domain operator tool | `scripts/port-domain.mjs` | key and manifest files | init, bind, renew | read-modify-write of files by processes without a lock |
| Native session | `src/native-session.mjs` | policy with replay table; session objects with counters | offer, accept, finish, cancel, seal, open, close, revoke | replay around expiry on two clocks, nonce reuse, frame order |
| Capability discovery | `UQ/capability-discovery.mjs` | catalog; an ephemeral gateway over a shared replay guard | registerCapability, setAvailability, discover | time captured by the caller, carrying the replay tombstone over |
| Companion and Brainstem | `UQ/companion-*.mjs`, `UQ/brainstem-*.mjs` | none beyond the gateway | propose, decide | documents that must agree, ids that are digests of joined texts |
| Synaptizer, cognitive state store | `UQ/synaptizer.mjs`, `UQ/cognitive-state-store.mjs` | relationships, seen events, state file | consume, hydrate, save, load | restarts, duplicates, torn files |
| Process intelligence | `UQ/process-intelligence.mjs` | observations, skills, cached capabilities, the running execution | observe, graduate, synthesize, promote, execute, recompose | cached plans, swaps in a running graph, listeners that throw |
| Cognitive body | `UQ/cognitive-body.mjs` | cogniton graph, port fabric, runs | add, activate, register, compile, execute a plan | plans from snapshots, awaited port by port |
| Python network | `PY/ports.py`, `PY/persistence.py`, `PY/strata_network.py`, `PY/communications.py` | outcomes by idempotency key, nonces, evidence; port directory, lifecycles, dead letters, messages | dispatch, receive, backup, restore; register, submit, execute; append | retries of what may have run, racing calls, processes that end between two transactions |
| Portal | `apps/portal/server.mjs` | site files | saveSite, listSites | a limit checked before the awaits that use it |
| Direct Pipe runtime, external proof, tenancy, community access, mobile, site, benchmarks | see `PROJECT.json` | none, or none that steps could disturb | | not modelled (section 5) |

How they interact: discovery, the companion and the Brainstem decisions put
envelopes through gateways that share a replay guard; the state port owns one
worker transfer at a time; the operator's tool signs the manifests that the name
directory takes in, which resolves an address to a port identity and grants
nothing; native sessions verify peer records of the kind the peer directory
holds; the body executes its process ports on the runtime of process
intelligence, whose records feed the Synaptizer, whose reinforcement in turn
decides ties between the body's ports. The Python network's dispatch, routes,
lifecycles and messages share one database. The two-host proof stands alone.

`PROJECT.json` lists every part with its status, the hazards with the
properties that cover them, and for every definition the lines it models.

## 2. Modules

| Module | Models | Checked by | Proved in |
|---|---|---|---|
| `AgentGateway` | `AgentProtocolGateway`, `ReplayGuard` | `MCAgentGateway` | `AgentGatewayProofs` |
| `AgentServices` | catalog and discovery, the proposal builders, Brainstem's decisions; uses `AgentGateway` through `INSTANCE` | `MCAgentServices` | `AgentServicesProofs` |
| `TransferLedger` | what a transfer promises (abstract) | | |
| `WorkerTransfer` | the transport, its worker and its callers; implements `TransferLedger` | `MCWorkerTransfer` | `WorkerTransferProofs` |
| `KindredStatePort` | the state port over transports that keep a `TransferLedger` | `MCWorkerTransfer` | `WorkerTransferProofs` |
| `DirectPipe` | a transport and a state port side by side | `MCWorkerTransfer` | `WorkerTransferProofs` |
| `TwoHostProof` | receiver, senders, network, sink | `MCTwoHostProof` | `TwoHostProofProofs` |
| `SignedDirectory` | both directories (the variable `portNames`, fixed by `Init`, says which) | `MCPortZero` | `PortZeroProofs` |
| `OwnerNamespace` | the operator's tool, feeding the directory it extends | `MCPortZero` | `PortZeroProofs` |
| `PortalSites` | the portal's site files | `MCPortZero` | `PortZeroProofs` |
| `PortZeroDispatch` | `PortZero.dispatch`, external ports, the database, backup and restore | `MCPortZero` | `PortZeroProofs` |
| `EventChains` | `LifecycleStore` under `submit`, `CommunicationLedger` | `MCPortZero` | `PortZeroProofs` |
| `RouteExecution` | `PortDirectory`, `RouteExecutionEngine`, `ExternalExecutionPort` | `MCPortZero` | `PortZeroProofs` |
| `PortZero` | `OwnerNamespace` with its directory, `PortalSites`, `PortZeroDispatch`, `EventChains` and `RouteExecution` side by side, on disjoint variables | `MCPortZero` | `PortZeroProofs` |
| `NativeSession` | two ports, their policies, clocks and sessions | `MCNativeSession` | `NativeSessionProofs` |
| `CognitiveMemory` | `Synaptizer`, `PersistentCognitiveStateStore`, processes that crash and restart | `MCCognitiveMemory` | `CognitiveMemoryProofs` |
| `ProcessIntelligence` | observer, graduation, synthesis, promotion, cache, post-synthesized runtime | `MCCognitiveBody` | `CognitiveBodyProofs` |
| `CognitiveBody` | cogniton graph, port fabric, DCML compiler, execution of plans; extends `ProcessIntelligence` | `MCCognitiveBody` | `CognitiveBodyProofs` |

Conventions. An action is a stretch of code that runs without interruption: a
whole method for the synchronous classes (gateway, directories, sessions), a
database transaction for the Python network, a callback or the code between two
awaits for the others. An error path that changes state is an action or a
disjunct (`RefuseEnvelope`, `IngestFull`, `AcceptRefused` still prune); one that
changes nothing is a disabled action. Operators marked "Mutant" are faulty
variants of the definition that follows them; nothing uses them except the
mutation test of the properties. A property that a run names is a conjunction of
named parts where several facts together make one promise; each part has its own
mutants and, where proved, its own lemma or theorem.

An MC module may hold several scenarios: the variable `scenario`, fixed by the
initial state, says which part of the system moves, and the others keep still.
Scenarios share nothing but the run.

### AgentGateway
Variables are the gateway's maps, the guard's entries and the clock;
`acceptCount` is history. Documents are records with the fields that decide
anything; the field patterns are abstracted, the cross-field rules kept
(`ValidIdentity` and the others). `acceptEnvelope` and `applyRevocation` read
the clock to authorize and `ReplayGuard.consume` reads it again, so these
actions take the second reading `later \in CallTimes`; `CallSpan` bounds how far
it may lie ahead. `Cascade` is the least set closed under delegation; the
code's loop repeats `CascadePass` until nothing changes, which `CascadeLoop`
gives as many passes as there are grants, and `CascadeIsLeastFixpoint` says that
they agree.

### AgentServices
Each request gets a gateway of its own: `Gateway(a)` instantiates `AgentGateway`
with the documents that were built for `a` and the one shared replay guard. The
guard reads its own clock; the request runs at a `now` captured up to `Lag`
earlier. A text is the sequence of its parts between colons, because `digest()`
joins with colons: two inputs may have one digest. Decisions see envelopes,
receipts and identities in any combination, and envelopes in which one value was
taken from another envelope (`presented`), so that every check of `inspect`
(`RouteValid`, `AdmissionReceiptValid`, `ScopeExact`, the memory namespace) has
something to refuse. A `decision` has two fields of history, `principal` and
`foreign`: the agent whose identity was shown and the value that was exchanged. `sorted` states the order of the
discovery's result by rank: the i-th id is the one that i - 1 others precede.

### TransferLedger and WorkerTransfer
A call is its message id. The worker answers with intact bytes, damaged bytes
or an error, or not at all; it may exit at any time, and its exit event comes
later. `UnpostableCalls` are those whose `postMessage` throws or leaves the
buffer attached.

### KindredStatePort
A transport is known by its number and through its contract: `Transport(w)` is
`TransferLedger` over `ledger[w]` and `failed[w]`, and `PortUsesLedgers` says that
the port's steps are the ledger's. `transfer()` and `close()` are split at their
awaits. A payload whose size the transport refuses (`sizeAccepted`) fails its
transfer without a call. The run that checks it checks `ImplementsLedger` of `WorkerTransfer` too,
so the two results compose.

### TwoHostProof
The challenge handler is split at the read of its body (`ChallengeArrives`,
`HelloRead`), the transfer handler at the body and at the sink
(`TransferArrives`, `BodyDecrypts`, `SinkRecords`), the sender at its two
requests. Any attempt may repeat a sender's request, any status-200 answer may
reach any sender. MACs and ciphers are ideal: they match exactly when secret,
session and claims do.

### SignedDirectory
Records are presented in any order, any number of times. `newest` and
`answered` are history. The two directories differ in when they look for a held
record (`NameHasRoom`, `PeerHasRoom`) and in the bound on revoked owners.

### OwnerNamespace, PortalSites
Invocations of the tool and requests to the portal are split at their file
operations, and any of them may fail or end there; an invocation that has renamed
its manifest into place may still fail before it reports. `overlapped` and `peak` are
history: that two invocations overlapped, and how many saves were under way at
once, which is what `NamespaceSound` and `SitesSound` make an exception for.

### PortZeroDispatch, EventChains, RouteExecution
Calls are processes over one database. The transports are interfaces in the
repository, so an attempt that was given up on may still be delivered and its
answer may be lost; nothing in these modules is bound to happen. External ports
of `PortZeroDispatch` claim a nonce, those of `RouteExecution` do not: a child
runs there as often as it is delivered. The receipts of a routing call are a
local list: they are gone when the call raises, gives up on a target or ends, and
`reconcile` may raise after all targets ran (`ReconcileRaises`); `RoutesSound`
says exactly whose receipts are lost (`ReceiptLost`). In `EventChains` a row's hash
stands for its place in the table. `interleaved` and `overtaken` are history for the races
the code leaves open (an append or a withdrawal that reads before its
transaction).

### NativeSession
Each side has its own clock. An acceptance stands for the ephemeral keys and
controls it binds, so for the traffic keys; `wire` is the set of sealed frames,
from which any may be opened any number of times. A side's view of the peer
record and scope is the constant `Permitted`.

### CognitiveMemory
Each outcome of `consume` is an action; reinforcement is counted in quarters.
`save()` is split at its file operations. Files are named by the call that
created them (inodes), so that a rename can move a file another call still has
open. `MaxOverlap` bounds the calls of one process in flight. A new process
loads and hydrates what it finds and gives up if that is refused, as the
continuation worker of the tests does. Only the end of a process is modelled,
not the loss of what the operating system has not written yet (the code does not
`fsync`). `Damage` alters the text and leaves the roots.

### ProcessIntelligence and CognitiveBody
The process module is synchronous: while an execution runs (`exec.status`), `Idle`
keeps every other action out, but each step may fail and what the earlier ones did
stays done. The observer's records are kept as the counts `fitness()` computes.
`graduate` believes its caller: evidence is a snapshot of the tracker, of any age,
or counts of the caller's own, with any of the fields left out, and the policy
lets a missing field pass (`undefined < threshold` is false). `graduated` is
history and remembers on what each process graduated, so that `GraduatesEarnedIt`
can say when the records back it. An observation is kept although its listener
throws; `missed` is history for what the Synaptizer then never got.
The body is not synchronous: between two ports of a plan other callers run, so
ports, cognitons and evidence change under a compiled plan. A port's handler is
plain, executes a promoted capability (the boundary's `EXECUTE_CAPABILITY`) or
executes a graph on the post-synthesized runtime; `caller` is the run inside it
and `returned`, history, the execution its handler last returned from.
The compiler sorts the ports and takes the first: `rankPorts` is the set it
sorts and `selectOne` the port no other outranks.

## 3. Runs

Where a run has scenarios, an initial choice fixes which component moves; the
others keep their initial state, so that independent components are not
multiplied with each other.

| Run | Asks | Bounds |
|---|---|---|
| `gateway` | do cascade, attenuation, acyclicity, atomicity, finality and the live-chain rule hold however registrations, requests and revocations interleave? In a second scenario: is the replay guard bounded, and when can an envelope be admitted again? | delegation: 2 agents, 4 grants (a chain of 3 and a branch), 7 grant documents, of which one widens, one closes a cycle and one conflicts; 3 revocations with room for 2 receipts; a cascade limit of 3 that the tree exceeds. Replay: envelopes of 2 senders sharing nonces compete for the guard, clock to 5, second reading up to 1 later |
| `worker_transfer` | does the transport implement the ledger, with liveness, and settle every call and close()? Does a state port over such transports settle everything, and when does it orphan one? | transport: 5 calls (1 invalid, 1 unpostable), 2 in flight, 2 closers. State port: 6 transfers covering every plan, one with a payload of a refused size, 2 closers, up to 3 transports, 1 call in flight on each |
| `two_host_proof` | sessions bounded and used once, success sound, room again after abandonment (liveness) | 3 senders (remote, on the receiver's host behind a loopback address, without the secret), 2 session ids and 2 transfer attempts for a session map of 1 |
| `port_zero` | the state Port Zero keeps, in six scenarios: directory, namespace, sites, dispatch, chains, routes | 3 owners for a capacity of 2, 1 remembered revocation, clock to 4; any 3 of 4 operator invocations, at most 2 at once, with the clock up to a manifest's lifetime; 4 site requests for a limit of 1; 3 calls with 2 attempts on 2 ports, 2 nonces and 1 key, one of the calls repeating another's envelope, one of them retrying; 3 submissions over 2 transactions and 4 appends over 2 messages; 2 targets, 3 registrations, 2 withdrawals, routes of two shapes with 2 attempts |
| `native_session` | an offer yields one session; nonces; order of frames | 3 offers of which the policy refuses one, 2 acceptances, table of 1, lifetime 2, clocks to 2; 2 payloads, at most 2 frames sealed in a behaviour |
| `cognitive_memory` | exactly-once learning, a whole state file, acknowledged learning survives | 5 events over 3 execution ids and 2 relationships (one id first unverified, then malformed, then correct), 4 events received, 2 saves one after the other, 2 pids, any number of crashes |
| `agent_services` | is a discovery or a companion proposal decided on only as the documents that made it up allow, and only once? | 2 agents, inputs some of whose texts collide when joined, a catalog of 2 for 4 documents over 3 ids, a guard of 2, lifetime 2, captured times up to 1 late, clock to 3, 2 issued and 2 admissions; scenarios catalog, proposals and decision, the last with one decision on envelopes with at most one exchanged value |
| `cognition` | do evidence, provenance, plans and effects agree while executions and runs interleave, and does everything end? | 3 processes, 7 ports, 2 runs, 2 recompositions, genomes and observations up to 2; scenarios learning (evolve, graduate on the tracker's word or a caller's, compose, promote), feed (observations that are not published), capability (callers and a run execute one), dynamic (recomposition), graph (cognitons change under a run) and body (two runs) |
| `gateway_replay_at_expiry`, `gateway_revoked_admission`, `directory_rollback`, `state_file_overlap` | documented promises the code does not keep (section 6) | as the runs above |

The bounds are chosen so that every limit is reached from both sides: tables of
capacity one or two with more entries competing, clocks that run past every
expiry, chains of length three so that "parent" and "ancestor" differ, a retry
for each call that may be late. Deadlock checking is off where every counter is
bounded and the system may simply have nothing left to do.

Fairness.

* `WorkerTransfer`: armed timers fire, a worker's exit event is delivered, a
  terminated worker exits and an await on a settled promise continues: what
  Node's event loop and `Worker.terminate()` guarantee. Nothing is assumed of a
  running worker.
* `KindredStatePort`: each call a transport has taken is settled, which is the
  liveness `WorkerTransfer` is shown to have; a closed transport's thread ends
  and the awaits of `close()` resume.
* `TwoHostProof`: time passes and the interval timer keeps running; nothing of
  senders, network or sink.
* `CognitiveBody`: an execution is one synchronous loop, so it is weakly fair; a
  run is strongly fair, because its continuation is disabled while another run
  holds the process and the event loop serves every settled await in the end.
  Handlers are taken to settle.

The other modules state safety only.

Time. `Date.now` is taken not to run backwards within one process; the two
ports of a native session drift apart freely.

## 4. Proofs

For every value of the constants, from the named assumptions of each module.
Every invariant and action property of the passing runs is stated by a theorem;
what is left to TLC alone is listed at the end of the section. The type
invariants of the gateway, the two-host proof, the native session and the
memory are proved and not repeated in the runs.

Assumptions. Id sets that the code holds in a `Map`, a database or a directory
are finite; capacities are positive; documents have the fields and ranges their
validators demand before anything else looks at them (`Identity` and `Query` in
`AgentServices`, `Descriptor` in `CognitiveBody`). `CapabilityOrder` and
`PortOrder` stand for the comparison of two different ids as strings, so they
are injective. `NULL` is none of the values it marks the absence of. TLC
evaluates each assumption on the instance of every run.

* `AgentGatewayProofs`: `TypeOK`, `DelegationSound`, `CascadeIsLeastFixpoint`,
  `RevocationBlocks`, `RevocationAtomic`, `ReplaySound`, and
  `AcceptedAtMostOnce` when `CallSpan = 0`. The delegation invariant adds the
  one-step facts registration establishes: a child lies within its registered
  parent. Ancestors are the least closed set, so a chain property follows by
  exhibiting one closed set instead of by induction. For acyclicity that set is
  the grants registered before the new one: it is closed under "parent of" and
  does not contain the newcomer. The replay invariant says that an admitted
  envelope still has its tombstone or has expired. For the loop: as long as a
  pass adds a grant, n passes have found at least n grants, so after one pass
  for each grant nothing is left to add, and all a pass adds is in every closed
  set.
* `AgentServicesProofs`: `TypeOK`, `AdmissionSound`. The invariant: whoever was
  admitted was active, and until an admitted envelope expires on the guard's
  clock its tombstone is in the shared guard; hence an envelope that is admitted
  again is one that had expired, although the time it was checked at was captured
  earlier. That a fresh request is admitted at all is shown by computing
  `Gateway(a)!authorizeEnvelope` on the documents that were built; it needs an
  authority ceiling of at least 1: below that a communication is built all the
  same and never authorized. For decisions: an approved envelope is a builder's in
  all but at most one value, and a foreign value contradicts one of the builder's
  own or equals it, unless it is the message id or the content. Once receipt and
  envelope agree on message and correlation id, the parts of the joined text the
  message id is the digest of cannot be shifted, so the admitted proposal has the
  agent, consent, request, namespace and version decided on.
* `WorkerTransferProofs`: `TypeOK`, `CallsSettleCleanly`, `FailureIsFinal` and
  the safety half of the refinement of `TransferLedger`. The extra conjunct is
  that a closed transport has nothing pending, which makes a late answer or
  timer harmless. For the port, `OrphanNeedsOverlap` and `PortUsesLedgers`: the
  transport in use is the last one created, a call not made yet is in no ledger,
  and a `close()` that awaits a transport the port has forgotten has been
  overtaken by another `close()` that awaited the same one. With the refinement
  above this makes the port a client of real transports.
* `TwoHostProofProofs`: `TypeOK`, `SessionsUsedOnce`, `ProofSound`. The
  invariant says where each session id is at each stage: issued ids are never
  drawn again, an authenticated attempt's session has left the map, and every
  receipt handed out is the one computed from a session's own hello.
* `PortZeroProofs`, one section for each module of `PortZero`; `TypesOK` and
  `StoredFilesStay` are theorems of their conjunction.
  * Directories: `TypeOK` and `DirectorySound`, for both.
  * Operator's tool: `NamespaceSound` (`NamespaceInv`). Every record comes from
    the owner and the directory holds only placed ones (`PlacedInv`); without an
    overlap one invocation is under way, what it signed follows from the manifest
    it found, and revisions grow (`SerialInv`). The last is why the directory
    never takes the manifest in force for a rollback.
  * Portal: `SitesSound` (`SitesInv`). The count that bounds the overrun adds to
    the sites the requests that listed before the limit was reached and are still
    at work (`Early`). A site that is stored moves one request from the second
    to the first; the request that reaches the limit was itself one of them,
    hence the strict inequality.
  * Dispatch: `DispatchTypeOK`, `DispatchSound`, `OutcomeFinal`. A delivery under
    way belongs to an attempt that was made; a nonce is claimed by one delivery
    before its provider runs, and runs again only if a backup from before the
    claim was restored; a key has one outcome, and the evidence is what the
    outcomes hold, in the tables and in every backup; receipts are truthful
    wherever they are: on their way back, in the hands of a call, recorded or
    saved.
  * Hash chains: `ChainsSound`. For lifecycles, in every state the events of a
    transaction are linked and numbered without a gap and the projection counts
    them; one without events has just been created or its submission ended there
    (`LifecycleInv`). For messages, a chain whose appends never overlapped has at
    most one call at work, which has read its end (`LedgerInv`).
  * Routes: `WithdrawnByItsAuthority`, because what a withdrawal has checked
    stays registered unless another one overtook it (`RegistryInv`), and
    `RoutesSound` (`EngineInv`): every child that was sent or answered is
    accounted for by the call's state, its receipts or a dead letter, a child has
    at most one answer, a target ran exactly if a child was answered
    "completed", and every receipt is such an answer.
* `NativeSessionProofs`: `TypeOK`, `OfferAcceptedOnce`, `FramesSound`. The
  invariant: an accepted offer is remembered or expired on the acceptor's clock;
  a session object at A implies its offer is finished; the counters are the
  lengths of the histories, and zero where there is no session; a frame on the
  wire is the entry of its sender's history at its sequence number.
* `CognitiveMemoryProofs`: `TypeOK` and `LearningAccounted` for any number of
  overlapping saves; `StateFileWhole` and `AcknowledgedSurvives` when
  `MaxOverlap = 1`. First a lemma about the fold: updating the summary of a set
  of evidence by a new event gives the summary of the larger set. Then the
  Synaptizer is sound in memory and in every text that load and hydrate accept.
  The serial invariant adds that the file a call writes is the temporary file of
  the running process, that no other pid and not `path` names it, and that the
  acknowledged ids are in every state that can replace the stored one.
* `CognitiveBodyProofs`: `PITypeOK`, `TypeOK`, `LearningSound`,
  `ExecutionSound`, `PlansSound`. Every step of the body is a step of
  `ProcessIntelligence` or leaves its variables alone, so the learning and
  execution invariants are proved once over the steps of that module: provenance
  of what is held and cached (`ProvenanceInv`, which follows the registry too); a
  snapshot of the tracker stays below the tally, so what graduated on one has its
  records (`EvidenceInv`); skills brought in at most once by recomposition
  (`BroughtInv`); effects against completed nodes, of which at most the last can
  be unrecorded (`EffectsInv`, `RecordedInv`); the events of the checkpoint lead
  from the initial graph to the current one. For plans: outranking is a total
  order on ports, so a finite nonempty set of them has a top and `selectOne`
  returns it; a compiled plan keeps its promises against the fabric it was
  compiled from (`PlanOK`), a run has activated a prefix of its plan (`RunsInv`),
  the run inside the runtime is the one that entered it (`RuntimeInv`), and what
  its handler returned from was done, so recorded in full (`ReturnedInv`).

A few facts need induction: a sum of evidence is an integer, a finite set of
ports has a top, a table has a last row, and every pass of a cascade makes
progress. No backend
instantiates the library's induction rules with a predicate; the proofs take the
least counterexample instead (`WFMin` on the naturals, whose argument is a set).

Only model-checked: liveness, which is out of the prover's reach:
`CloseTerminates`, `PortSettles`, `CapacityRecovers`, `RuntimeBounded`, and the
liveness half of `ImplementsLedger`.

## 5. What is not modelled

Cryptography is ideal: signatures, MACs and ciphers succeed exactly when their
inputs match. Text formats (URI syntax, canonical JSON, field patterns, size
limits of strings) are abstracted.

Left out entirely, because no sequence of steps can go wrong in them:

* the direct pipe runtime and process-boundary adapter: one synchronous copy of
  a buffer with a receipt; nothing is kept between calls;
* external proof v1 and its API: issue, verify, encrypt and recover are
  functions of their arguments and the clock, and the server keeps nothing;
* tenancy, intelligence and transport of the Python network: single SQL
  statements behind access checks, scoring formulas, transports without state;
* community access (signing and URI primitives), the mobile client (platform
  I/O), the public site and viewer (presentation), benchmarks and proof scripts
  (wrappers and measurements).

What the code takes on trust, the properties do too, and say so: a decision of
Brainstem does not compare the content of a proposal with what was admitted, nor
the message id of its envelope; a graduation rests on the evidence its caller
states.

Left out of parts that are modelled:

* process intelligence: `resumePostSynthesis`, which copies the checkpoint of a
  finished execution under a higher fencing token and executes nothing;
  `selectExecutionComplexity`, a pure choice; attachments and hit counters;
* dispatch: the breakers, which `dispatch` counts in and never asks; schema
  migrations; the variant without a database;
* communications: the policy checks of a message, which are pure;
* portal: search, the documentation index, the AI proxy and page rendering.

## 6. Findings

1. `gateway_replay_at_expiry`: an envelope is accepted twice if the clock
   crosses its expiry between the two readings of one call. `ReplaySound`,
   checked and proved, bounds the effect: never a third time, and only by the
   call during which it expires.
2. `gateway_revoked_admission`: a component's execution or settlement request
   may cite a revoked grant; the component path never looks it up.
3. `directory_rollback`: once the newest record of an owner has expired and been
   pruned, an older one with a longer lifetime is accepted and answered from.
   `DirectorySound`, checked and proved, says it cannot happen earlier.
4. `state_file_overlap`: two `save()` calls of one process share a temporary
   path, and the rename of one installs the file the other is writing. Awaiting
   each call before the next, as the tests do, avoids it (`StateFileWhole`,
   checked and proved for `MaxOverlap = 1`).

## 7. Plan

1. The state store as a refinement of an atomic register when saves do not
   overlap: an abstract module of its own, `StateFileWhole` and
   `AcknowledgedSurvives` following from it.
2. The port over transports as one specification: `PortUsesLedgers` and
   `ImplementsLedger` compose on paper (the port's ledgers are what the
   transports implement); the composition itself is not a theorem yet.
3. `resumePostSynthesis` and the attachments of process intelligence, should
   they come to execute anything.
