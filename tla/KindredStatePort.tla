--------------------------- MODULE KindredStatePort ---------------------------
(***************************************************************************)
(* KindredStatePort (kindred-state-port.mjs): plans how a verified state   *)
(* reaches its destination and moves local payloads through a worker       *)
(* transport it creates when first needed and forgets when close() has     *)
(* returned.                                                               *)
(*                                                                         *)
(* Transports are used through their contract: each keeps a TransferLedger,*)
(* which WorkerTransfer implements.  A transport stands for its number in  *)
(* order of creation.  transfer() and close() await their transport, and   *)
(* other calls run in between.                                             *)
(***************************************************************************)
EXTENDS Naturals, FiniteSets

CONSTANTS
  Transfers,    \* calls of transfer()
  Request,      \* their arguments
  PortClosers,  \* calls of close()
  MaxWorkers,   \* bound on the transports a port creates
  portInflight  \* maxInflight of a transport

ASSUME RequestsAssumption ==
  /\ Request \in [Transfers -> [verified : BOOLEAN, supportsReference : BOOLEAN,
                                local : BOOLEAN, hashMatches : BOOLEAN,
                                sizeAccepted : BOOLEAN]]
  /\ MaxWorkers \in Nat /\ portInflight \in Nat

Workers == 1 .. MaxWorkers

VARIABLES
  current,    \* #worker, or 0
  created,    \* how many transports there have been
  ledger,     \* state of each transfer's call, per transport
  failed,     \* the transport is closed
  gone,       \* the transport's thread has ended
  outcome,    \* what each transfer() returned
  awaited     \* the transport each close() awaits: 0 before, "done" after

portVars == <<current, created, ledger, failed, gone, outcome, awaited>>

PortInit ==
  /\ current = 0
  /\ created = 0
  /\ ledger = [w \in Workers |-> [t \in Transfers |-> "idle"]]
  /\ failed = [w \in Workers |-> FALSE]
  /\ gone = [w \in Workers |-> FALSE]
  /\ outcome = [t \in Transfers |-> "idle"]
  /\ awaited = [k \in PortClosers |-> [state |-> "idle", worker |-> 0]]

\* The calls a transport has in flight.
InFlight(w) == {t \in Transfers : ledger[w][t] = "pending"}

\* Mutant: the mode of the plan is returned for its classification.
planMode(t) ==
  IF ~Request[t].verified THEN "refused"
  ELSE IF Request[t].supportsReference THEN "reference"
  ELSE IF Request[t].local THEN "REDUCED_COPY" ELSE "payload"

\* plan() and the checks of transfer() before a payload moves.
plan(t) ==
  LET r == Request[t]
  IN IF ~r.verified THEN "refused"
     ELSE IF r.supportsReference THEN "REFERENCE"
     ELSE IF ~r.hashMatches THEN "refused"
     ELSE IF r.local THEN "REDUCED_COPY" ELSE "PORTABLE_BUFFERED"

\* transfer() that needs no transport.
TransferPlanned(t) ==
  /\ outcome[t] = "idle"
  /\ plan(t) # "REDUCED_COPY"
  /\ outcome' = [outcome EXCEPT ![t] = plan(t)]
  /\ UNCHANGED <<current, created, ledger, failed, gone, awaited>>

\* Mutant: a transport per transfer.
workerTransferAlways == created + 1

\* #workerTransfer(): a transport that has failed is still the port's.
workerTransfer == IF current = 0 THEN created + 1 ELSE current

\* transfer() of a local payload hands the buffer to the transport, created
\* for it if need be, which refuses it when it has failed, when the payload is
\* empty or above maxBytes, or when it is full.
TransferLocal(t) ==
  LET w == workerTransfer
      taken == /\ ~failed[w]
               /\ Request[t].sizeAccepted
               /\ Cardinality(InFlight(w)) < portInflight
  IN /\ outcome[t] = "idle"
     /\ plan(t) = "REDUCED_COPY"
     /\ w \in Workers
     /\ current' = w
     /\ created' = IF w > created THEN w ELSE created
     /\ ledger' = [ledger EXCEPT ![w][t] = IF taken THEN "pending" ELSE "rejected"]
     /\ outcome' = [outcome EXCEPT ![t] = IF taken THEN "waiting" ELSE "error"]
     /\ UNCHANGED <<failed, gone, awaited>>

\* The transport returns the bytes.
WorkerResolves(w, t) ==
  /\ ledger[w][t] = "pending"
  /\ ~failed[w]
  /\ ledger' = [ledger EXCEPT ![w][t] = "resolved"]
  /\ outcome' = [outcome EXCEPT ![t] = "moved"]
  /\ UNCHANGED <<current, created, failed, gone, awaited>>

\* The transport fails or is closed: everything in flight is rejected.
Stop(w) ==
  /\ failed' = [failed EXCEPT ![w] = TRUE]
  /\ ledger' = [ledger EXCEPT ![w] =
       [t \in Transfers |-> IF t \in InFlight(w) THEN "rejected" ELSE @[t]]]
  /\ outcome' = [t \in Transfers |-> IF t \in InFlight(w) THEN "error" ELSE outcome[t]]

\* Mutant: calls in flight are left behind.
WorkerFailsSilently(w) ==
  /\ w <= created /\ ~failed[w]
  /\ failed' = [failed EXCEPT ![w] = TRUE]
  /\ UNCHANGED <<current, created, ledger, outcome, gone, awaited>>

\* A timeout, an exit or a bad answer: the port is not told.
WorkerFails(w) ==
  /\ w <= created /\ ~failed[w]
  /\ Stop(w)
  /\ UNCHANGED <<current, created, gone, awaited>>

\* The thread of a closed transport has been terminated.
ThreadEnds(w) ==
  /\ failed[w] /\ ~gone[w]
  /\ gone' = [gone EXCEPT ![w] = TRUE]
  /\ UNCHANGED <<current, created, ledger, failed, outcome, awaited>>

\* close() up to its await.
PortClose(k) ==
  /\ awaited[k].state = "idle"
  /\ awaited' = [awaited EXCEPT ![k] =
       [state |-> IF current = 0 THEN "done" ELSE "waiting", worker |-> current]]
  /\ IF current # 0 /\ ~failed[current] THEN Stop(current)
     ELSE UNCHANGED <<failed, ledger, outcome>>
  /\ UNCHANGED <<current, created, gone>>

\* Mutant: the second of two close() calls waits for the port to be empty.
PortCloseResumesLast(k) ==
  /\ awaited[k].state = "waiting"
  /\ gone[awaited[k].worker] /\ current = awaited[k].worker
  /\ awaited' = [awaited EXCEPT ![k].state = "done"]
  /\ current' = 0
  /\ UNCHANGED <<created, ledger, failed, gone, outcome>>

\* ... and after it: #worker is cleared, whichever transport it is by now.
PortCloseResumes(k) ==
  /\ awaited[k].state = "waiting"
  /\ gone[awaited[k].worker]
  /\ awaited' = [awaited EXCEPT ![k].state = "done"]
  /\ current' = 0
  /\ UNCHANGED <<created, ledger, failed, gone, outcome>>

PortNext ==
  \/ \E t \in Transfers : TransferPlanned(t) \/ TransferLocal(t)
  \/ \E w \in Workers, t \in Transfers : WorkerResolves(w, t)
  \/ \E w \in Workers : WorkerFails(w) \/ ThreadEnds(w)
  \/ \E k \in PortClosers : PortClose(k) \/ PortCloseResumes(k)

\* A transport settles each call it has taken (the ledger's liveness), ends
\* its thread once closed, and settled awaits resume.
PortFairness ==
  /\ \A w \in Workers :
       /\ \A t \in Transfers :
            WF_portVars(t \in InFlight(w) /\ (WorkerFails(w) \/ WorkerResolves(w, t)))
       /\ WF_portVars(ThreadEnds(w))
  /\ \A k \in PortClosers : WF_portVars(PortCloseResumes(k))

PortSpec == PortInit /\ [][PortNext]_portVars /\ PortFairness

-----------------------------------------------------------------------------
(* Properties.                                                             *)

PortTypeOK ==
  /\ current \in 0 .. created
  /\ created \in 0 .. MaxWorkers
  /\ ledger \in [Workers -> [Transfers -> {"idle", "pending", "resolved", "rejected"}]]
  /\ failed \in [Workers -> BOOLEAN]
  /\ gone \in [Workers -> BOOLEAN]
  /\ outcome \in [Transfers -> {"idle", "waiting", "moved", "error", "refused",
                                "REFERENCE", "PORTABLE_BUFFERED"}]
  /\ awaited \in [PortClosers -> [state : {"idle", "waiting", "done"}, worker : 0 .. created]]

\* The ledger of transport w.
Transport(w) ==
  INSTANCE TransferLedger WITH Calls <- Transfers, maxInflight <- portInflight,
                               call <- ledger[w], closed <- failed[w]

\* The port uses and sees every transport it creates as a transfer ledger:
\* what it does to one is what the contract of WorkerTransfer allows.
PortUsesLedgers ==
  [][\A w \in Workers : Transport(w)!LedgerNext \/ UNCHANGED Transport(w)!ledgerVars]_portVars

\* A transport that runs although the port has forgotten it, so that no
\* close() will ever reach it, needs two overlapping close() calls on one
\* earlier transport and a transfer() between their ends.
OrphanNeedsOverlap ==
  \A w \in 1 .. created :
    ~failed[w] /\ w # current =>
      \E j, k \in PortClosers :
        /\ j # k
        /\ awaited[j].worker = awaited[k].worker
        /\ awaited[j].worker \in 1 .. (w - 1)

\* Every transfer() settles, whatever becomes of its transport and whoever
\* closes the port.
TransfersSettle == \A t \in Transfers : (outcome[t] = "waiting") ~> (outcome[t] # "waiting")

\* Every close() returns, also when another one has cleared #worker before.
PortCloseReturns ==
  \A k \in PortClosers : (awaited[k].state = "waiting") ~> (awaited[k].state = "done")

\* No caller of the port waits for ever.
PortSettles == TransfersSettle /\ PortCloseReturns
=============================================================================
