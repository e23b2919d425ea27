------------------------------ MODULE WorkerTransfer ------------------------------
(***************************************************************************)
(* DirectPipeWorkerTransfer (direct-pipe-worker-transfer.mjs) and its      *)
(* worker thread (direct-pipe-worker.mjs).                                 *)
(*                                                                         *)
(* The parent thread runs one callback at a time: transfer(), the message, *)
(* error and exit handlers, the timers and close() are the actions.  The   *)
(* worker thread runs beside it, connected by two message queues, and may  *)
(* be slow, stop, or return damaged bytes.  A call stands for its message  *)
(* id (#nextId only grows, so ids are never reused); a payload is what     *)
(* became of its bytes.                                                    *)
(***************************************************************************)
EXTENDS Naturals, FiniteSets, Sequences

CONSTANTS
  Calls,          \* calls of transfer()
  InvalidCalls,   \* calls whose argument is no ArrayBuffer or has a bad size
  UnpostableCalls,\* calls whose buffer postMessage refuses or leaves attached
  Closers,        \* calls of close()
  maxInflight

ASSUME CallsAssumption ==
  /\ InvalidCalls \subseteq Calls
  /\ UnpostableCalls \subseteq Calls
  /\ IsFiniteSet(Calls)
  /\ maxInflight \in Nat \ {0}

VARIABLES
  call,      \* the promise each transfer() returned
  closed,    \* #closed
  pending,   \* keys of #pending
  timers,    \* calls whose timeout is armed
  toWorker,  \* messages on their way to the worker
  toParent,  \* answers on their way back: [id, bytes]
  worker,    \* the thread: running, terminating or exited
  exitEvent, \* an error or exit event of the worker waits to be delivered
  received,  \* history: the bytes a resolved call got back
  settles,   \* history: how often resolve or reject ran for a call
  closer     \* the promise each close() returned

vars == <<call, closed, pending, timers, toWorker, toParent, worker, exitEvent,
          received, settles, closer>>

Bytes == {"intact", "damaged", "error"}

Init ==
  /\ call = [r \in Calls |-> "idle"]
  /\ closed = FALSE
  /\ pending = {}
  /\ timers = {}
  /\ toWorker = <<>>
  /\ toParent = <<>>
  /\ worker = "running"
  /\ exitEvent = FALSE
  /\ received = [r \in Calls |-> "none"]
  /\ settles = [r \in Calls |-> 0]
  /\ closer = [k \in Closers |-> "idle"]

-----------------------------------------------------------------------------

\* Reject the calls in S: the bookkeeping of request.reject.
Reject(S) ==
  /\ call' = [r \in Calls |-> IF r \in S THEN "rejected" ELSE call[r]]
  /\ settles' = [r \in Calls |-> IF r \in S THEN settles[r] + 1 ELSE settles[r]]

\* Mutant: the timers of the rejected calls stay armed.
FailKeepsTimers(S) ==
  /\ closed' = TRUE
  /\ Reject(S)
  /\ pending' = {}
  /\ timers' = timers
  /\ worker' = IF worker = "running" THEN "terminating" ELSE worker

\* Mutant: the worker is never told to stop.
FailLeavesWorker(S) ==
  /\ closed' = TRUE
  /\ Reject(S)
  /\ pending' = {}
  /\ timers' = timers \ S
  /\ worker' = worker

\* #fail on an open transport; S is everything in #pending, plus what the
\* calling handler rejects itself.
Fail(S) ==
  /\ closed' = TRUE
  /\ Reject(S)
  /\ pending' = {}
  /\ timers' = timers \ S
  /\ worker' = IF worker = "running" THEN "terminating" ELSE worker

\* Mutant: off by one at the capacity limit.
RefusedOverCapacity(r) ==
  \/ closed
  \/ r \in InvalidCalls
  \/ Cardinality(pending) > maxInflight

Refused(r) ==
  \/ closed
  \/ r \in InvalidCalls
  \/ Cardinality(pending) >= maxInflight

\* transfer() throws before anything is posted.
TransferRefused(r) ==
  /\ call[r] = "idle"
  /\ Refused(r)
  /\ Reject({r})
  /\ UNCHANGED <<closed, pending, timers, toWorker, toParent, worker, exitEvent, received, closer>>

\* Mutant: no timeout is set.
TransferUntimed(r) ==
  /\ call[r] = "idle"
  /\ ~Refused(r)
  /\ r \notin UnpostableCalls
  /\ call' = [call EXCEPT ![r] = "pending"]
  /\ pending' = pending \cup {r}
  /\ toWorker' = IF worker = "exited" THEN toWorker ELSE Append(toWorker, r)
  /\ UNCHANGED <<closed, timers, toParent, worker, exitEvent, received, settles, closer>>

\* transfer() posts the buffer.  A worker that has exited gets nothing, but
\* the call is pending all the same until the exit event arrives.
TransferPosted(r) ==
  /\ call[r] = "idle"
  /\ ~Refused(r)
  /\ r \notin UnpostableCalls
  /\ call' = [call EXCEPT ![r] = "pending"]
  /\ pending' = pending \cup {r}
  /\ timers' = timers \cup {r}
  /\ toWorker' = IF worker = "exited" THEN toWorker ELSE Append(toWorker, r)
  /\ UNCHANGED <<closed, toParent, worker, exitEvent, received, settles, closer>>

\* postMessage throws, or posts and leaves the buffer attached: #fail takes
\* every outstanding call down with this one.
TransferUnpostable(r) ==
  /\ call[r] = "idle"
  /\ ~Refused(r)
  /\ r \in UnpostableCalls
  /\ Fail(pending \cup {r})
  /\ toWorker' \in {toWorker, Append(toWorker, r)}
  /\ UNCHANGED <<toParent, exitEvent, received, closer>>

-----------------------------------------------------------------------------

\* #receive deletes the entry, clears its timer, checks and settles.
AnswerAccepted(m) ==
  /\ m.bytes = "intact"
  /\ pending' = pending \ {m.id}
  /\ timers' = timers \ {m.id}
  /\ call' = [call EXCEPT ![m.id] = "resolved"]
  /\ settles' = [settles EXCEPT ![m.id] = @ + 1]
  /\ received' = [received EXCEPT ![m.id] = m.bytes]
  /\ UNCHANGED <<closed, worker>>

AnswerRejected(m) ==
  /\ m.bytes # "intact"
  /\ Fail(pending)
  /\ UNCHANGED received

\* Mutant: the length and digest comparison is gone.
ReceiveUnchecked ==
  /\ toParent # <<>>
  /\ LET m == Head(toParent)
     IN /\ m.id \in pending
        /\ pending' = pending \ {m.id}
        /\ timers' = timers \ {m.id}
        /\ call' = [call EXCEPT ![m.id] = "resolved"]
        /\ settles' = [settles EXCEPT ![m.id] = @ + 1]
        /\ received' = [received EXCEPT ![m.id] = m.bytes]
  /\ toParent' = Tail(toParent)
  /\ UNCHANGED <<closed, worker, toWorker, exitEvent, closer>>

\* Mutant: an answer is taken without looking its id up, and the entry stays.
ReceiveUnknown ==
  /\ toParent # <<>>
  /\ LET m == Head(toParent)
     IN /\ call' = [call EXCEPT ![m.id] = "resolved"]
        /\ settles' = [settles EXCEPT ![m.id] = @ + 1]
        /\ received' = [received EXCEPT ![m.id] = m.bytes]
        /\ pending' = pending \ {m.id}
        /\ timers' = timers \ {m.id}
  /\ toParent' = Tail(toParent)
  /\ UNCHANGED <<closed, worker, toWorker, exitEvent, closer>>

Receive ==
  /\ toParent # <<>>
  /\ LET m == Head(toParent)
     IN \/ /\ m.id \notin pending
           /\ UNCHANGED <<call, closed, pending, timers, worker, received, settles>>
        \/ m.id \in pending /\ AnswerAccepted(m)
        \/ m.id \in pending /\ AnswerRejected(m)
  /\ toParent' = Tail(toParent)
  /\ UNCHANGED <<toWorker, exitEvent, closer>>

\* The setTimeout callback of a call.
Timeout(r) ==
  /\ r \in timers
  /\ IF closed
       THEN /\ timers' = timers \ {r}
            /\ UNCHANGED <<call, closed, pending, worker, settles>>
       ELSE Fail(pending)
  /\ UNCHANGED <<toWorker, toParent, exitEvent, received, closer>>

\* The error and exit handlers: both end in #fail unless already closed.
WorkerGone ==
  /\ exitEvent
  /\ exitEvent' = FALSE
  /\ IF closed
       THEN UNCHANGED <<call, closed, pending, timers, worker, settles>>
       ELSE Fail(pending)
  /\ UNCHANGED <<toWorker, toParent, received, closer>>

Close(k) ==
  /\ closer[k] = "idle"
  /\ closer' = [closer EXCEPT ![k] = "waiting"]
  /\ IF closed
       THEN UNCHANGED <<call, closed, pending, timers, worker, settles>>
       ELSE Fail(pending)
  /\ UNCHANGED <<toWorker, toParent, exitEvent, received>>

\* await this.#termination
CloseReturns(k) ==
  /\ closer[k] = "waiting"
  /\ worker = "exited"
  /\ closer' = [closer EXCEPT ![k] = "done"]
  /\ UNCHANGED <<call, closed, pending, timers, toWorker, toParent, worker,
                 exitEvent, received, settles>>

-----------------------------------------------------------------------------

\* The worker answers its oldest message; a terminating one may still do so.
WorkerAnswers ==
  /\ worker # "exited"
  /\ toWorker # <<>>
  /\ \E b \in Bytes : toParent' = Append(toParent, [id |-> Head(toWorker), bytes |-> b])
  /\ toWorker' = Tail(toWorker)
  /\ UNCHANGED <<call, closed, pending, timers, worker, exitEvent, received, settles, closer>>

\* The thread ends, by itself or because it was terminated.  Answers it has
\* posted may or may not still arrive.
WorkerExits ==
  /\ worker # "exited"
  /\ worker' = "exited"
  /\ exitEvent' = TRUE
  /\ toWorker' = <<>>
  /\ toParent' \in {toParent, <<>>}
  /\ UNCHANGED <<call, closed, pending, timers, received, settles, closer>>

Next ==
  \/ \E r \in Calls : TransferRefused(r)
  \/ \E r \in Calls : TransferPosted(r)
  \/ \E r \in Calls : TransferUnpostable(r)
  \/ \E r \in Calls : Timeout(r)
  \/ Receive
  \/ WorkerGone
  \/ \E k \in Closers : Close(k)
  \/ \E k \in Closers : CloseReturns(k)
  \/ WorkerAnswers
  \/ WorkerExits

\* The parent's event loop keeps turning: timers fire, events are delivered,
\* and a terminated worker stops.  Nothing is assumed of a running worker.
Fairness ==
  /\ \A r \in Calls : WF_vars(Timeout(r))
  /\ WF_vars(WorkerGone)
  /\ WF_vars(worker = "terminating" /\ WorkerExits)
  /\ \A k \in Closers : WF_vars(CloseReturns(k))

Spec == Init /\ [][Next]_vars /\ Fairness

-----------------------------------------------------------------------------
(* Properties.                                                             *)

\* Types, and the capacity check of transfer(): #pending never outgrows
\* maxInflight.
TypeOK ==
  /\ call \in [Calls -> {"idle", "pending", "resolved", "rejected"}]
  /\ closed \in BOOLEAN
  /\ pending \subseteq Calls
  /\ Cardinality(pending) <= maxInflight
  /\ timers \subseteq Calls
  /\ toWorker \in Seq(Calls)
  /\ toParent \in Seq([id : Calls, bytes : Bytes])
  /\ worker \in {"running", "terminating", "exited"}
  /\ exitEvent \in BOOLEAN
  /\ received \in [Calls -> Bytes \cup {"none"}]
  /\ settles \in [Calls -> Nat]
  /\ closer \in [Closers -> {"idle", "waiting", "done"}]

\* Each promise is settled once, by the handler that removes it from
\* #pending: a timeout, an exit, close() and a late answer never settle the
\* same call twice, and none is forgotten.
SettledOnce ==
  \A r \in Calls :
    /\ settles[r] = (IF call[r] \in {"resolved", "rejected"} THEN 1 ELSE 0)
    /\ (r \in pending) <=> (call[r] = "pending")

\* A timer is armed exactly while its call is outstanding: one that outlived
\* its call would later fail a healthy transport.
TimersMatchPending == timers = pending

\* A resolved call got its own bytes back undamaged.
ResolvedIntact == \A r \in Calls : call[r] = "resolved" => received[r] = "intact"

\* Calls settle cleanly, in whatever order answers, timeouts, exits and
\* close() come: once, without a timer left behind, and with intact bytes.
CallsSettleCleanly == SettledOnce /\ TimersMatchPending /\ ResolvedIntact

\* After a failure or close() nothing is outstanding, and no answer that is
\* still under way resolves anything.
FailureIsFinal ==
  [][closed => /\ closed'
               /\ pending' = {}
               /\ \A r \in Calls : call'[r] = "resolved" => call[r] = "resolved"]_vars

\* The transport implements the ledger.
Ledger ==
  INSTANCE TransferLedger WITH Calls <- Calls, maxInflight <- maxInflight,
                               call <- call, closed <- closed

\* The worker transport is a TransferLedger: taken calls stay within
\* maxInflight, and every one is settled although the worker may hang.
ImplementsLedger == Ledger!LedgerSpec

\* close() returns, whatever the worker was doing.
CloseTerminates == \A k \in Closers : (closer[k] = "waiting") ~> (closer[k] = "done")
=============================================================================
