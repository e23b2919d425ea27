--------------------------- MODULE PortZeroDispatch ---------------------------
(***************************************************************************)
(* The governed runtime of the Python network (ports.py, persistence.py):  *)
(* PortZero.dispatch answers from the recorded outcome of an idempotency   *)
(* key or sends an envelope to its destinations, trying again when the     *)
(* transport is unavailable; ExternalPort.receive claims the envelope's    *)
(* nonce and has the provider execute it.                                  *)
(*                                                                         *)
(* Several dispatch calls run side by side, over one database whose        *)
(* transactions are atomic.  The transport is only an interface: what it   *)
(* gave up on may still be delivered, and answers may be lost.  Nothing is *)
(* bound to happen: a delivery that is lost, or a port that stops between  *)
(* the claim and the provider, is one whose next step is never taken.  The *)
(* breakers are left out: dispatch counts failures in them and asks them   *)
(* nothing.  Signatures are ideal and envelopes unexpired.                 *)
(***************************************************************************)
EXTENDS Naturals, FiniteSets

CONSTANTS
  Ports, Keys, Messages, Nonces,
  Calls,         \* calls of dispatch
  envelopeOf,    \* the envelope of each call
  max_attempts

GovernedEnvelope ==
  [message_id : Messages, idempotency_key : Keys, nonce : Nonces,
   destination_ports : SUBSET Ports, route_mode : {"direct", "split", "multicast"}]

Receipt == [message_id : Messages, port_id : Ports, state : {"reported", "quarantined"}]

Outcome == [key : Keys, receipts : SUBSET Receipt]

Delivery == [call : Calls, attempt : Nat, port : Ports]

ASSUME DispatchAssumption ==
  /\ envelopeOf \in [Calls -> GovernedEnvelope]
  /\ max_attempts \in Nat \ {0}

VARIABLES
  nonces,       \* table replay_nonces: <<port, nonce>>
  idempotency,  \* table idempotency: the outcomes of keys
  evidence,     \* table evidence: the receipts whose hashes it holds
  saved,        \* the backup of the three tables, if there is one
  restored,     \* the backup has taken the place of the database
  call,         \* where each call stands: [at, attempt, receipts]
  inflight,     \* deliveries the transport has not made yet
  claimed,      \* deliveries whose nonce is claimed and whose provider is to run
  replies,      \* receipts of attempts under way: <<delivery, receipt>>
  executions    \* history: how often each port's provider ran a nonce

database == <<nonces, idempotency, evidence>>
dispatchVars == <<database, saved, restored, call, inflight, claimed, replies, executions>>

keyOf(c) == envelopeOf[c].idempotency_key

Deliveries(c, n) ==
  {[call |-> c, attempt |-> n, port |-> p] : p \in envelopeOf[c].destination_ports}

ReceiptOf(d, state) ==
  [message_id |-> envelopeOf[d.call].message_id, port_id |-> d.port, state |-> state]

OutcomeOf(c, receipts) == [key |-> keyOf(c), receipts |-> receipts]

Recorded(c) == \E o \in idempotency : o.key = keyOf(c)

RepliesWithout(c) == {r \in replies : r[1].call # c}

\* The receipts that reached the transport in the present attempt of c.
Collected(c) == {r[2] : r \in {r \in replies : r[1].call = c}}

\* A receipt goes back to an attempt that still waits for it.
Replying(d, state) ==
  replies' = IF call[d.call].at = "sent" /\ call[d.call].attempt = d.attempt
             THEN replies \cup {<<d, ReceiptOf(d, state)>>} ELSE replies

-----------------------------------------------------------------------------
(* PortZero.dispatch.                                                      *)

\* The outcome of the key is known already: nothing is sent.
DispatchPrior(c) ==
  /\ call[c].at = "new"
  /\ \E o \in idempotency :
       /\ o.key = keyOf(c)
       /\ call' = [call EXCEPT ![c].at = "returned", ![c].receipts = o.receipts]
  /\ UNCHANGED <<database, saved, restored, inflight, claimed, replies, executions>>

\* The envelope is signed and the first attempt made.
DispatchFirst(c) ==
  /\ call[c].at = "new"
  /\ ~Recorded(c)
  /\ call' = [call EXCEPT ![c].at = "sent", ![c].attempt = 1]
  /\ inflight' = inflight \cup Deliveries(c, 1)
  /\ UNCHANGED <<database, saved, restored, claimed, replies, executions>>

\* TransportUnavailable: another attempt, or the retries are exhausted.
TransportUnavailable(c) ==
  LET n == call[c].attempt + 1
  IN /\ call[c].at = "sent"
     /\ IF n <= max_attempts
        THEN /\ call' = [call EXCEPT ![c].attempt = n]
             /\ inflight' = inflight \cup Deliveries(c, n)
        ELSE /\ call' = [call EXCEPT ![c].at = "raised"]
             /\ UNCHANGED inflight
     /\ replies' = RepliesWithout(c)
     /\ UNCHANGED <<database, saved, restored, claimed, executions>>

\* The transport returns: a multicast what it has, the others everything.
TransportReturns(c) ==
  LET got == Collected(c)
  IN /\ call[c].at = "sent"
     /\ \/ {r.port_id : r \in got} = envelopeOf[c].destination_ports
        \/ envelopeOf[c].route_mode = "multicast" /\ got # {}
     /\ call' = [call EXCEPT ![c].at = "answered", ![c].receipts = got]
     /\ replies' = RepliesWithout(c)
     /\ UNCHANGED <<database, saved, restored, inflight, claimed, executions>>

\* The unique keys of the two tables.
Insertable(c) == ~Recorded(c) /\ call[c].receipts \cap evidence = {}

\* record_outcome: outcome and evidence in one transaction.
RecordOutcome(c) ==
  /\ call[c].at = "answered"
  /\ Insertable(c)
  /\ idempotency' = idempotency \cup {OutcomeOf(c, call[c].receipts)}
  /\ evidence' = evidence \cup call[c].receipts
  /\ call' = [call EXCEPT ![c].at = "returned"]
  /\ UNCHANGED <<nonces, saved, restored, inflight, claimed, replies, executions>>

\* Mutant: the conflict is swallowed and the call's own receipts returned.
RecordRefusedSwallowed(c) ==
  /\ call[c].at = "answered"
  /\ ~Insertable(c)
  /\ call' = [call EXCEPT ![c].at = "returned"]
  /\ UNCHANGED <<database, saved, restored, inflight, claimed, replies, executions>>

\* Mutant: the evidence is written in a transaction of its own.
RecordRefusedHalf(c) ==
  /\ call[c].at = "answered"
  /\ ~Insertable(c)
  /\ evidence' = evidence \cup call[c].receipts
  /\ call' = [call EXCEPT ![c].at = "raised"]
  /\ UNCHANGED <<nonces, idempotency, saved, restored, inflight, claimed, replies, executions>>

\* Mutant: the conflicting row is replaced.
RecordRefusedReplaces(c) ==
  /\ call[c].at = "answered"
  /\ ~Insertable(c)
  /\ idempotency' = {o \in idempotency : o.key # keyOf(c)}
                      \cup {OutcomeOf(c, call[c].receipts)}
  /\ call' = [call EXCEPT ![c].at = "returned"]
  /\ UNCHANGED <<nonces, evidence, saved, restored, inflight, claimed, replies, executions>>

\* Another call has recorded the key meanwhile: the transaction is rolled
\* back and the error goes to the caller.
RecordRefused(c) ==
  /\ call[c].at = "answered"
  /\ ~Insertable(c)
  /\ call' = [call EXCEPT ![c].at = "raised"]
  /\ UNCHANGED <<database, saved, restored, inflight, claimed, replies, executions>>

\* The caller or the envelope is refused at the start, or the process ends.
DispatchEnds(c) ==
  /\ call[c].at \in {"new", "sent", "answered"}
  /\ call' = [call EXCEPT ![c].at = "raised"]
  /\ replies' = RepliesWithout(c)
  /\ UNCHANGED <<database, saved, restored, inflight, claimed, executions>>

-----------------------------------------------------------------------------
(* ExternalPort.receive.                                                   *)

\* Mutant: the columns are swapped.
claimTupleSwapped(d) == <<envelopeOf[d.call].nonce, d.port>>

\* Mutant: a nonce is claimed for all ports at once.
claimTupleShared(d) == <<CHOOSE p \in Ports : TRUE, envelopeOf[d.call].nonce>>

\* The row that claim_nonce inserts.
claimTuple(d) == <<d.port, envelopeOf[d.call].nonce>>

\* Mutant: the result of claim_nonce is ignored.
ReceiveAlways(d) ==
  /\ d \in inflight
  /\ inflight' = inflight \ {d}
  /\ nonces' = nonces \cup {claimTuple(d)}
  /\ claimed' = claimed \cup {d}
  /\ UNCHANGED <<idempotency, evidence, saved, restored, call, replies, executions>>

\* claim_nonce decides between executing and a quarantine receipt.
Receive(d) ==
  /\ d \in inflight
  /\ inflight' = inflight \ {d}
  /\ IF claimTuple(d) \in nonces
     THEN /\ Replying(d, "quarantined")
          /\ UNCHANGED <<nonces, claimed>>
     ELSE /\ nonces' = nonces \cup {claimTuple(d)}
          /\ claimed' = claimed \cup {d}
          /\ UNCHANGED replies
  /\ UNCHANGED <<idempotency, evidence, saved, restored, call, executions>>

\* adapter.execute and the receipt about it.
ProviderExecutes(d) ==
  /\ d \in claimed
  /\ claimed' = claimed \ {d}
  /\ executions' = [executions EXCEPT ![<<d.port, envelopeOf[d.call].nonce>>] = @ + 1]
  /\ Replying(d, "reported")
  /\ UNCHANGED <<database, saved, restored, call, inflight>>

-----------------------------------------------------------------------------
(* SQLiteState.backup and restore.                                         *)

Backup ==
  /\ saved = {}
  /\ saved' = {database}
  /\ UNCHANGED <<database, restored, call, inflight, claimed, replies, executions>>

\* The database is lost with its process and the backup takes its place.
Restore ==
  /\ ~restored
  /\ restored' = TRUE
  /\ \E s \in saved : nonces' = s[1] /\ idempotency' = s[2] /\ evidence' = s[3]
  /\ call' = [c \in Calls |->
       IF call[c].at \in {"sent", "answered"} THEN [call[c] EXCEPT !.at = "raised"] ELSE call[c]]
  /\ claimed' = {}
  /\ replies' = {}
  /\ UNCHANGED <<saved, inflight, executions>>

-----------------------------------------------------------------------------

DispatchInit ==
  /\ nonces = {}
  /\ idempotency = {}
  /\ evidence = {}
  /\ saved = {}
  /\ restored = FALSE
  /\ call = [c \in Calls |-> [at |-> "new", attempt |-> 0, receipts |-> {}]]
  /\ inflight = {} /\ claimed = {} /\ replies = {}
  /\ executions = [x \in Ports \X Nonces |-> 0]

DispatchNext ==
  \/ \E c \in Calls : \/ DispatchPrior(c) \/ DispatchFirst(c)
                      \/ TransportUnavailable(c) \/ TransportReturns(c)
                      \/ RecordOutcome(c) \/ RecordRefused(c) \/ DispatchEnds(c)
  \/ \E d \in inflight \cup claimed : Receive(d) \/ ProviderExecutes(d)
  \/ Backup
  \/ Restore

DispatchSpec == DispatchInit /\ [][DispatchNext]_dispatchVars

-----------------------------------------------------------------------------
(* Properties.                                                             *)

\* Types of the database and of the calls, replies and deliveries.
DispatchTypeOK ==
  /\ nonces \subseteq Ports \X Nonces
  /\ idempotency \subseteq Outcome
  /\ evidence \subseteq Receipt
  /\ restored \in BOOLEAN
  /\ call \in [Calls -> [at : {"new", "sent", "answered", "returned", "raised"},
                         attempt : 0 .. max_attempts, receipts : SUBSET Receipt]]
  /\ inflight \subseteq Delivery /\ claimed \subseteq Delivery
  /\ replies \subseteq Delivery \X Receipt
  /\ executions \in [Ports \X Nonces -> Nat]

\* A provider runs an envelope once, however often it is retried, dispatched
\* again or delivered late; once more at most after the nonces were restored
\* from a backup.
ExecutedOncePerNonce ==
  \A x \in Ports \X Nonces : executions[x] <= IF restored THEN 2 ELSE 1

\* Whoever gets receipts for a key gets the ones that are recorded, also when
\* two calls of the key raced to record theirs.
ReturnedIsRecorded ==
  \A c \in Calls :
    call[c].at = "returned" /\ ~restored => OutcomeOf(c, call[c].receipts) \in idempotency

\* The evidence holds the receipts of the recorded outcomes, no more, no less.
EvidenceAccounts == evidence = UNION {o.receipts : o \in idempotency}

\* What a receipt says happened did: the provider ran the message, or the
\* envelope had been sent to this port before, in an earlier attempt or
\* through another call.
Truthful(r) ==
  \E c \in Calls :
    /\ envelopeOf[c].message_id = r.message_id
    /\ call[c].attempt >= 1
    /\ IF r.state = "reported"
       THEN executions[<<r.port_id, envelopeOf[c].nonce>>] >= 1
       ELSE \/ call[c].attempt >= 2
            \/ \E o \in Calls \ {c} : /\ envelopeOf[o].nonce = envelopeOf[c].nonce
                                      /\ call[o].attempt >= 1

\* Every receipt the evidence holds is truthful, whatever was retried, sent
\* again, delivered late or restored.
RecordedTruthful == \A r \in evidence : Truthful(r)

\* The database tells what happened, once: providers run a nonce once, and
\* outcomes, evidence and answers to callers agree with each other and with
\* what the providers did.
DispatchSound ==
  ExecutedOncePerNonce /\ ReturnedIsRecorded /\ EvidenceAccounts /\ RecordedTruthful

\* A key has one outcome and keeps it, unless a backup is restored.
OutcomeFinal ==
  [][\A o \in idempotency : \A n \in idempotency' :
       ~restored' => o \in idempotency' /\ (n.key = o.key => n = o)]_dispatchVars
=============================================================================
