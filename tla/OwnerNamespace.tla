--------------------------- MODULE OwnerNamespace ---------------------------
(***************************************************************************)
(* port-domain.mjs, the operator's tool: it creates the owner's key and    *)
(* the signed manifest of the owner's names, and re-signs the manifest     *)
(* with the next revision for renew and bind.  The invocations are         *)
(* processes that share two files and no lock.  The manifests reach the    *)
(* name directory of SignedDirectory, the current one or a late copy of an *)
(* earlier one.                                                            *)
(*                                                                         *)
(* An invocation is split at its awaits.  The key is written and read in   *)
(* one step: a key cut short is refused like a missing one, and stops      *)
(* init like a whole one, so it is a key whose invocations all fail.       *)
(***************************************************************************)
EXTENDS SignedDirectory

CONSTANTS
  Owner,         \* the port whose key init generates
  Invocations,   \* commands: [id, action, name, targetPort]
  DEFAULT_NAMES,
  Root,          \* the empty name, which bind refuses
  Lifetime,      \* ttlMs of signPortNames
  Partial        \* a manifest file that is created and not yet written

Invocation ==
  [id : Nat, action : {"init", "renew", "bind"}, name : Labels, targetPort : Owners]

ASSUME NamespaceAssumption ==
  /\ Owner \in Owners
  /\ Invocations \subseteq Invocation
  /\ DEFAULT_NAMES \in SUBSET Labels \ {{}}
  /\ Lifetime \in 1 .. MaxTTL
  /\ Partial \notin Record \cup {NULL}

VARIABLES
  keyFile,     \* port-owner-key.pem exists
  manifest,    \* port-names.json: a record, Partial, or NULL if absent
  invocation,  \* where each invocation stands, and the record it has signed
  bound,       \* history: for each name that was ever acknowledged, the target
               \* last put in its place, or NULL
  placed,      \* history: the records the manifest file ever held
  overlapped   \* history: two invocations were under way at once

namespaceVars == <<keyFile, manifest, invocation, bound, placed, overlapped>>

Running(i) == invocation[i].at \notin {"idle", "done", "failed"}

Whole == manifest \notin {NULL, Partial}

\* signPortNames at the present time.
signPortNames(revision, entries) ==
  [owner |-> Owner, signer |-> Owner, revision |-> revision, issuedAt |-> clock,
   expiresAt |-> clock + Lifetime, entries |-> entries]

\* Mutant: the default names have no target port.
DefaultEntriesUntargeted == DEFAULT_NAMES

DefaultEntries == {<<n, Owner>> : n \in DEFAULT_NAMES}

\* Mutant: bind keeps none of the other names.
EntriesForgetful(i) ==
  IF i.action = "bind" THEN {<<i.name, i.targetPort>>} ELSE manifest.entries

\* renew signs the entries as they are, bind replaces the one of its name.
Entries(i) ==
  IF i.action = "bind"
  THEN {e \in manifest.entries : e[1] # i.name} \cup {<<i.name, i.targetPort>>}
  ELSE manifest.entries

\* What is acknowledged when invocation i reports success.
Acknowledged(i) ==
  CASE i.action = "init"  -> [n \in Labels |-> IF n \in DEFAULT_NAMES THEN Owner ELSE NULL]
    [] i.action = "bind"  -> [bound EXCEPT ![i.name] = i.targetPort]
    [] i.action = "renew" -> bound

\* What the names acknowledged so far stand for once invocation i has placed
\* its manifest, told or not: a bind of such a name replaces its target.
Rebound(i) ==
  IF i.action = "bind" /\ bound[i.name] # NULL
  THEN [bound EXCEPT ![i.name] = i.targetPort] ELSE bound

-----------------------------------------------------------------------------

Begins(i) ==
  /\ invocation[i].at = "idle"
  /\ overlapped' = (overlapped \/ \E j \in Invocations : Running(j))
  /\ invocation' = [invocation EXCEPT ![i].at = "keyed"]

\* init: the key file is created exclusively.
WriteKey(i) ==
  /\ i.action = "init"
  /\ ~keyFile
  /\ keyFile' = TRUE
  /\ Begins(i)
  /\ UNCHANGED <<manifest, bound, placed, vars>>

\* init: the manifest is signed, its file created exclusively ...
OpenManifest(i) ==
  /\ i.action = "init"
  /\ invocation[i].at = "keyed"
  /\ manifest = NULL
  /\ manifest' = Partial
  /\ invocation' = [invocation EXCEPT
       ![i] = [at |-> "signed", record |-> signPortNames(1, DefaultEntries)]]
  /\ UNCHANGED <<keyFile, bound, placed, overlapped, vars>>

\* renew and bind: the key is read.
GetSigner(i) ==
  /\ i.action # "init"
  /\ keyFile
  /\ Begins(i)
  /\ UNCHANGED <<keyFile, manifest, bound, placed, vars>>

\* Mutant: the revision is signed again.
ReadManifestSameRevision(i) ==
  /\ i.action # "init"
  /\ invocation[i].at = "keyed"
  /\ Whole
  /\ invocation' = [invocation EXCEPT
       ![i] = [at |-> "signed", record |-> signPortNames(manifest.revision, Entries(i))]]
  /\ UNCHANGED <<keyFile, manifest, bound, placed, overlapped, vars>>

\* renew and bind: the manifest is read, verified, whatever its age, and the
\* next revision is signed.
ReadManifest(i) ==
  /\ i.action # "init"
  /\ invocation[i].at = "keyed"
  /\ Whole
  /\ verifyEnvelope(manifest)
  /\ manifest.revision >= 1
  /\ i.action = "bind" => i.name # Root
  /\ invocation' = [invocation EXCEPT
       ![i] = [at |-> "signed", record |-> signPortNames(manifest.revision + 1, Entries(i))]]
  /\ UNCHANGED <<keyFile, manifest, bound, placed, overlapped, vars>>

\* The signed record takes its place: the created file is written, or a
\* temporary file of its own name is renamed over the old one.
PlaceManifest(i) ==
  /\ invocation[i].at = "signed"
  /\ manifest' = invocation[i].record
  /\ placed' = placed \cup {invocation[i].record}
  /\ bound' = Rebound(i)
  /\ invocation' = [invocation EXCEPT ![i].at = "placed"]
  /\ UNCHANGED <<keyFile, overlapped, vars>>

\* output(): the operator is told, unless the process ended before.
Output(i) ==
  /\ invocation[i].at = "placed"
  /\ bound' = Acknowledged(i)
  /\ invocation' = [invocation EXCEPT ![i] = [at |-> "done", record |-> NULL]]
  /\ UNCHANGED <<keyFile, manifest, placed, overlapped, vars>>

\* Mutant: the temporary file is the manifest file, and a failure leaves it.
FailInvocationInPlace(i) ==
  /\ Running(i)
  /\ invocation' = [invocation EXCEPT ![i] = [at |-> "failed", record |-> NULL]]
  /\ manifest' = IF invocation[i].at = "signed" THEN Partial ELSE manifest
  /\ UNCHANGED <<keyFile, bound, placed, overlapped, vars>>

\* A check or a file operation fails, or the process ends.  An invocation
\* that fails before it has read or written the key changes nothing.
FailInvocation(i) ==
  /\ Running(i)
  /\ invocation' = [invocation EXCEPT ![i] = [at |-> "failed", record |-> NULL]]
  /\ UNCHANGED <<keyFile, manifest, bound, placed, overlapped, vars>>

\* A resolver takes in the manifest, or an earlier copy of it.
PublishManifest ==
  /\ \E r \in placed : Ingest(r) \/ IngestFull(r)
  /\ UNCHANGED namespaceVars

\* Time passes and the directory may revoke the owner; its answers change
\* nothing here.
ResolverStep ==
  /\ Tick \/ Revoke(Owner)
  /\ UNCHANGED namespaceVars

NamespaceInit ==
  /\ keyFile = FALSE
  /\ manifest = NULL
  /\ invocation = [i \in Invocations |-> [at |-> "idle", record |-> NULL]]
  /\ bound = [n \in Labels |-> NULL]
  /\ placed = {}
  /\ overlapped = FALSE

NamespaceNext ==
  \/ \E i \in Invocations : \/ WriteKey(i) \/ OpenManifest(i)
                            \/ GetSigner(i) \/ ReadManifest(i)
                            \/ PlaceManifest(i) \/ Output(i) \/ FailInvocation(i)
  \/ PublishManifest
  \/ ResolverStep

\* The name directory next to the operator's files.
NamespaceSpec ==
  /\ Init /\ portNames /\ NamespaceInit
  /\ [][NamespaceNext]_<<vars, namespaceVars>>

-----------------------------------------------------------------------------
(* Properties.                                                             *)

\* Types of the operator's files and of the invocations.
NamespaceTypeOK ==
  /\ keyFile \in BOOLEAN
  /\ manifest \in Record \cup {NULL, Partial}
  /\ invocation \in [Invocations ->
       [at : {"idle", "keyed", "signed", "placed", "done", "failed"},
        record : Record \cup {NULL}]]
  /\ bound \in [Labels -> Owners \cup {NULL}]
  /\ placed \subseteq Record
  /\ overlapped \in BOOLEAN

\* No acknowledged binding is lost, however invocations fail on the way: the
\* manifest maps every name that was ever acknowledged to the target last put
\* in its place, also while a later bind has renamed its manifest and not been
\* acknowledged.  Two invocations that overlapped are the exception.
BindingsKept ==
  ~overlapped /\ Whole =>
    \A n \in Labels : bound[n] # NULL => <<n, bound[n]>> \in manifest.entries

\* The manifest in force is never refused as a rollback or a conflict: a
\* directory takes it in whatever earlier manifests it holds and in whatever
\* order they came, unless two invocations overlapped.
ManifestSupersedes ==
  ~overlapped /\ Whole /\ Verified(manifest, clock) /\ Owner \notin revoked =>
    Admissible(manifest)

\* One invocation after the other, failing or not, loses no binding and
\* signs no manifest that a directory would refuse.
NamespaceSound == BindingsKept /\ ManifestSupersedes

\* A manifest that was complete once is complete for good, also while
\* invocations overlap and fail.
ManifestStaysWhole == Whole => Whole'
=============================================================================
