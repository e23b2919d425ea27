-------------------------- MODULE WorkerTransferProofs --------------------------
(***************************************************************************)
(* Proofs about WorkerTransfer and, over its contract, KindredStatePort,   *)
(* for any sets of calls, any capacities and any number of transports.     *)
(***************************************************************************)
EXTENDS DirectPipe, FiniteSetTheorems, TLAPS

\* What the handlers rely on together: an entry of #pending, an armed timer
\* and an unsettled promise are three views of the same fact, and a closed
\* transport has none of them.
ClosedIsEmpty == closed => pending = {}

TransferInv ==
  /\ TypeOK
  /\ SettledOnce
  /\ TimersMatchPending
  /\ ResolvedIntact
  /\ ClosedIsEmpty

-----------------------------------------------------------------------------

\* #fail empties #pending, and an empty map is within capacity.
LEMMA EmptyWithinCapacity == Cardinality({}) <= maxInflight
BY FS_EmptySet, CallsAssumption

\* Deleting an entry keeps #pending within capacity.
LEMMA DeleteWithinCapacity ==
  ASSUME NEW P \in SUBSET Calls, Cardinality(P) <= maxInflight, NEW r
  PROVE  Cardinality(P \ {r}) <= maxInflight
<1>1. IsFiniteSet(P)
  BY FS_Subset, CallsAssumption
<1>2. IsFiniteSet(P \ {r}) /\ Cardinality(P \ {r}) <= Cardinality(P)
  BY <1>1, FS_Subset, P \ {r} \subseteq P
<1> QED
  BY <1>1, <1>2, FS_CardinalityType, CallsAssumption

\* The capacity check of transfer() leaves room for one more entry.
LEMMA AddWithinCapacity ==
  ASSUME NEW P \in SUBSET Calls, ~(Cardinality(P) >= maxInflight), NEW r \in Calls
  PROVE  Cardinality(P \cup {r}) <= maxInflight
<1>1. IsFiniteSet(P)
  BY FS_Subset, CallsAssumption
<1>2. Cardinality(P) \in Nat
  BY <1>1, FS_CardinalityType
<1>3. Cardinality(P \cup {r}) = IF r \in P THEN Cardinality(P) ELSE Cardinality(P) + 1
  BY <1>1, FS_AddElement
<1> QED
  BY <1>2, <1>3, CallsAssumption

\* #fail on an open transport, called with everything outstanding and at most
\* one more call that was not yet taken, restores the invariant.
LEMMA FailKeepsInv ==
  ASSUME TransferInv, NEW S \in SUBSET Calls, pending \subseteq S,
         \A r \in S : call[r] \in {"idle", "pending"},
         Fail(S), received' = received,
         toWorker' \in Seq(Calls), toParent' \in Seq([id : Calls, bytes : Bytes]),
         exitEvent' \in BOOLEAN, closer' \in [Closers -> {"idle", "waiting", "done"}]
  PROVE  TransferInv'
<1> USE DEF TransferInv
<1>1. TypeOK'
  BY EmptyWithinCapacity DEF TypeOK, Fail, Reject
<1>2. SettledOnce'
  <2> SUFFICES ASSUME NEW r \in Calls
               PROVE  /\ settles'[r] = (IF call'[r] \in {"resolved", "rejected"} THEN 1 ELSE 0)
                      /\ (r \in pending') <=> (call'[r] = "pending")
    BY DEF SettledOnce
  <2> QED
    BY DEF TypeOK, SettledOnce, Fail, Reject
<1>3. TimersMatchPending'
  BY DEF TimersMatchPending, Fail
<1>4. ResolvedIntact'
  BY DEF TypeOK, ResolvedIntact, Fail, Reject
<1>5. ClosedIsEmpty'
  BY DEF ClosedIsEmpty, Fail
<1> QED
  BY <1>1, <1>2, <1>3, <1>4, <1>5

\* Refusing a call that was never taken touches nothing else.
LEMMA RefusalKeepsInv ==
  ASSUME TransferInv, NEW r \in Calls, TransferRefused(r)
  PROVE  TransferInv'
<1> USE DEF TransferInv
<1>1. TypeOK'
  BY DEF TypeOK, TransferRefused, Reject
<1>2. SettledOnce'
  BY DEF TypeOK, SettledOnce, TransferRefused, Reject
<1>3. ResolvedIntact'
  BY DEF TypeOK, ResolvedIntact, TransferRefused, Reject
<1> QED
  BY <1>1, <1>2, <1>3 DEF TimersMatchPending, ClosedIsEmpty, TransferRefused

\* Taking a call adds it to #pending with its timer.
LEMMA PostKeepsInv ==
  ASSUME TransferInv, NEW r \in Calls, TransferPosted(r)
  PROVE  TransferInv'
<1> USE DEF TransferInv
<1>1. TypeOK'
  <2>1. Cardinality(pending') <= maxInflight
    BY AddWithinCapacity DEF TypeOK, TransferPosted, Refused
  <2> QED
    BY <2>1 DEF TypeOK, TransferPosted
<1>2. SettledOnce'
  BY DEF TypeOK, SettledOnce, TransferPosted
<1>3. ResolvedIntact'
  BY DEF TypeOK, ResolvedIntact, TransferPosted
<1> QED
  BY <1>1, <1>2, <1>3 DEF TimersMatchPending, ClosedIsEmpty, TransferPosted, Refused

\* An answer settles its call and clears its timer, fails the transport, or
\* finds its call already gone.
LEMMA ReceiveKeepsInv ==
  ASSUME TransferInv, Receive
  PROVE  TransferInv'
<1> USE DEF TransferInv
<1> DEFINE m == Head(toParent)
<1>0. /\ m \in [id : Calls, bytes : Bytes]
      /\ toParent' \in Seq([id : Calls, bytes : Bytes])
      /\ toWorker' = toWorker /\ exitEvent' = exitEvent /\ closer' = closer
  <2> DEFINE Answers == [id : Calls, bytes : Bytes]
  <2>1. toParent \in Seq(Answers) /\ toParent # <<>>
    BY DEF Receive, TypeOK
  <2>2. Head(toParent) \in Answers /\ Tail(toParent) \in Seq(Answers)
    <3> HIDE DEF Answers
    <3> QED
      BY <2>1
  <2> QED
    BY <2>2 DEF Receive
<1>1. CASE m.id \notin pending
  <2>1. UNCHANGED <<call, closed, pending, timers, worker, received, settles>>
    BY <1>1 DEF Receive, AnswerAccepted, AnswerRejected
  <2>2. TypeOK'
    BY <1>0, <2>1 DEF TypeOK
  <2> QED
    BY <2>1, <2>2 DEF SettledOnce, TimersMatchPending, ResolvedIntact, ClosedIsEmpty
<1>2. CASE m.id \in pending /\ AnswerAccepted(m)
  <2>1. TypeOK'
    <3>1. Cardinality(pending') <= maxInflight
      BY <1>2, DeleteWithinCapacity DEF TypeOK, AnswerAccepted
    <3> QED
      BY <1>0, <1>2, <3>1 DEF TypeOK, AnswerAccepted, Bytes
  <2>2. SettledOnce'
    BY <1>0, <1>2 DEF TypeOK, SettledOnce, AnswerAccepted
  <2>3. ResolvedIntact'
    BY <1>0, <1>2 DEF TypeOK, ResolvedIntact, AnswerAccepted
  <2> QED
    BY <1>2, <2>1, <2>2, <2>3 DEF TimersMatchPending, ClosedIsEmpty, AnswerAccepted
<1>3. CASE m.id \in pending /\ AnswerRejected(m)
  <2>1. Fail(pending) /\ received' = received
    BY <1>3 DEF AnswerRejected
  <2>2. \A r \in pending : call[r] \in {"idle", "pending"}
    BY DEF SettledOnce, TypeOK
  <2> QED
    BY <1>0, <2>1, <2>2, FailKeepsInv DEF TypeOK
<1> QED
  BY <1>1, <1>2, <1>3 DEF Receive

-----------------------------------------------------------------------------

\* The new instance satisfies the invariant.
LEMMA InitEstablishesInv == Init => TransferInv
<1> SUFFICES ASSUME Init PROVE TransferInv
  OBVIOUS
<1>1. TypeOK
  <2>1. \A S : <<>> \in Seq(S)
    OBVIOUS
  <2>2. toWorker \in Seq(Calls) /\ toParent \in Seq([id : Calls, bytes : Bytes])
    BY <2>1 DEF Init
  <2>3. Cardinality(pending) <= maxInflight
    BY EmptyWithinCapacity DEF Init
  <2> QED
    BY <2>2, <2>3 DEF Init, TypeOK
<1>2. SettledOnce /\ TimersMatchPending /\ ResolvedIntact /\ ClosedIsEmpty
  BY DEF Init, SettledOnce, TimersMatchPending, ResolvedIntact, ClosedIsEmpty
<1> QED
  BY <1>1, <1>2 DEF TransferInv

\* Every handler, and every step of the worker, preserves the invariant.
LEMMA NextKeepsInv == TransferInv /\ [Next]_vars => TransferInv'
<1> SUFFICES ASSUME TransferInv, [Next]_vars PROVE TransferInv'
  OBVIOUS
<1> USE DEF TransferInv
<1>0. /\ TypeOK
      /\ pending \in SUBSET Calls
      /\ \A r \in pending : call[r] \in {"idle", "pending"}
  BY DEF TypeOK, SettledOnce
<1>1. ASSUME NEW r \in Calls, TransferUnpostable(r) PROVE TransferInv'
  <2>1. toWorker' \in Seq(Calls)
    <3>1. toWorker \in Seq(Calls) /\ toWorker' \in {toWorker, Append(toWorker, r)}
      BY <1>0, <1>1 DEF TransferUnpostable, TypeOK
    <3> QED
      BY <1>1, <3>1
  <2>2. \A s \in pending \cup {r} : call[s] \in {"idle", "pending"}
    BY <1>0, <1>1 DEF TransferUnpostable
  <2>3. Fail(pending \cup {r}) /\ UNCHANGED <<toParent, exitEvent, received, closer>>
    BY <1>1 DEF TransferUnpostable
  <2> QED
    BY <1>0, <1>1, <2>1, <2>2, <2>3, FailKeepsInv DEF TypeOK
<1>2. ASSUME NEW r \in Calls, Timeout(r) PROVE TransferInv'
  <2>1. ~closed
    BY <1>2 DEF Timeout, TimersMatchPending, ClosedIsEmpty
  <2>2. Fail(pending) /\ UNCHANGED <<toWorker, toParent, exitEvent, received, closer>>
    BY <1>2, <2>1 DEF Timeout
  <2> QED
    BY <1>0, <2>2, FailKeepsInv DEF TypeOK
<1>3. CASE WorkerGone
  <2>1. CASE closed
    BY <1>0, <1>3, <2>1 DEF WorkerGone, TypeOK, SettledOnce, TimersMatchPending,
       ResolvedIntact, ClosedIsEmpty
  <2>2. CASE ~closed
    <3>1. Fail(pending) /\ UNCHANGED <<toWorker, toParent, received, closer>> /\ exitEvent' = FALSE
      BY <1>3, <2>2 DEF WorkerGone
    <3> QED
      BY <1>0, <3>1, FailKeepsInv DEF TypeOK
  <2> QED
    BY <2>1, <2>2
<1>4. ASSUME NEW k \in Closers, Close(k) PROVE TransferInv'
  <2>1. closer' \in [Closers -> {"idle", "waiting", "done"}]
    BY <1>0, <1>4 DEF Close, TypeOK
  <2>2. CASE closed
    BY <1>0, <1>4, <2>1, <2>2 DEF Close, TypeOK, SettledOnce, TimersMatchPending,
       ResolvedIntact, ClosedIsEmpty
  <2>3. CASE ~closed
    <3>1. Fail(pending) /\ UNCHANGED <<toWorker, toParent, received, exitEvent>>
      BY <1>4, <2>3 DEF Close
    <3> QED
      BY <1>0, <2>1, <3>1, FailKeepsInv DEF TypeOK
  <2> QED
    BY <2>2, <2>3
<1>5. ASSUME NEW k \in Closers, CloseReturns(k) PROVE TransferInv'
  BY <1>5 DEF CloseReturns, TypeOK, SettledOnce, TimersMatchPending, ResolvedIntact, ClosedIsEmpty
<1>6. CASE WorkerAnswers
  <2>1. TypeOK'
    BY <1>6 DEF WorkerAnswers, TypeOK
  <2> QED
    BY <1>6, <2>1 DEF WorkerAnswers, SettledOnce, TimersMatchPending, ResolvedIntact, ClosedIsEmpty
<1>7. CASE WorkerExits
  <2>1. TypeOK'
    <3>0. \A S : <<>> \in Seq(S)
      OBVIOUS
    <3>1. toParent' \in Seq([id : Calls, bytes : Bytes])
      BY <1>0, <1>7, <3>0 DEF WorkerExits, TypeOK
    <3>2. toWorker' \in Seq(Calls)
      BY <1>7 DEF WorkerExits
    <3> QED
      BY <1>7, <3>1, <3>2 DEF WorkerExits, TypeOK
  <2> QED
    BY <1>7, <2>1 DEF WorkerExits, SettledOnce, TimersMatchPending, ResolvedIntact, ClosedIsEmpty
<1>8. CASE UNCHANGED vars
  BY <1>8 DEF vars, TypeOK, SettledOnce, TimersMatchPending, ResolvedIntact, ClosedIsEmpty
<1> QED
  BY <1>1, <1>2, <1>3, <1>4, <1>5, <1>6, <1>7, <1>8,
     RefusalKeepsInv, PostKeepsInv, ReceiveKeepsInv DEF Next

\* The invariant holds throughout.
LEMMA TransferInvariant == Spec => []TransferInv
<1> QED
  BY InitEstablishesInv, NextKeepsInv, PTL DEF Spec

-----------------------------------------------------------------------------

\* The state keeps its types and #pending stays within maxInflight, whatever
\* the number of calls: transfer() checks and inserts without yielding.
THEOREM TypeCorrect == Spec => []TypeOK
<1>1. TransferInv => TypeOK
  BY DEF TransferInv
<1> QED
  BY <1>1, TransferInvariant, PTL

\* Each promise is settled exactly once: answers, timeouts, worker exits and
\* close() in any order never settle a call twice or lose one.
THEOREM CallsSettledOnce == Spec => []SettledOnce
<1>1. TransferInv => SettledOnce
  BY DEF TransferInv
<1> QED
  BY <1>1, TransferInvariant, PTL

\* #receive and #fail clear a timer exactly when they drop its call.
THEOREM TimersAlwaysMatchPending == Spec => []TimersMatchPending
<1>1. TransferInv => TimersMatchPending
  BY DEF TransferInv
<1> QED
  BY <1>1, TransferInvariant, PTL

\* #receive resolves a call only with bytes whose length and digest match.
THEOREM ResolvedAlwaysIntact == Spec => []ResolvedIntact
<1>1. TransferInv => ResolvedIntact
  BY DEF TransferInv
<1> QED
  BY <1>1, TransferInvariant, PTL

\* A closed transport stays closed and empty, and resolves nothing more.
THEOREM FailureAlwaysFinal == Spec => FailureIsFinal
<1> DEFINE Final == closed => /\ closed'
                              /\ pending' = {}
                              /\ \A r \in Calls : call'[r] = "resolved" => call[r] = "resolved"
<1>1. TransferInv /\ [Next]_vars => [Final]_vars
  <2> SUFFICES ASSUME TransferInv, Next, closed PROVE Final
    OBVIOUS
  <2>0. pending = {} /\ timers = {} /\ TypeOK
    BY DEF TransferInv, ClosedIsEmpty, TimersMatchPending
  <2>1. ASSUME NEW r \in Calls, TransferRefused(r) PROVE Final
    BY <2>0, <2>1 DEF TransferRefused, Reject, TypeOK
  <2>2. ASSUME NEW r \in Calls, TransferPosted(r) \/ TransferUnpostable(r) PROVE Final
    BY <2>2 DEF TransferPosted, TransferUnpostable, Refused
  <2>3. CASE Receive
    BY <2>0, <2>3 DEF Receive
  <2>4. ASSUME NEW r \in Calls, Timeout(r) PROVE Final
    BY <2>0, <2>4 DEF Timeout
  <2>5. CASE WorkerGone \/ WorkerAnswers \/ WorkerExits
    BY <2>0, <2>5 DEF WorkerGone, WorkerAnswers, WorkerExits
  <2>6. ASSUME NEW k \in Closers, Close(k) \/ CloseReturns(k) PROVE Final
    BY <2>0, <2>6 DEF Close, CloseReturns
  <2> QED
    BY <2>1, <2>2, <2>3, <2>4, <2>5, <2>6 DEF Next
<1> QED
  BY <1>1, TransferInvariant, PTL DEF Spec, FailureIsFinal

-----------------------------------------------------------------------------

\* An open transport's #fail is the ledger's FailStop.
LEMMA FailIsFailStop ==
  ASSUME TransferInv, ~closed,
         NEW T \in {{}} \cup {{r} : r \in Calls}, \A r \in T : call[r] = "idle",
         Fail(pending \cup T)
  PROVE  Ledger!LedgerNext
<1>1. pending = Ledger!Outstanding
  BY DEF TransferInv, TypeOK, SettledOnce, Ledger!Outstanding
<1>2. Ledger!FailStop(T)
  BY <1>1 DEF Ledger!FailStop, Fail, Reject
<1> QED
  BY <1>2 DEF Ledger!LedgerNext

\* The worker transport implements the safety part of TransferLedger: seen
\* through call and closed alone, every handler is one ledger step or none.
THEOREM ImplementsLedgerSafety == Spec => Ledger!LedgerSafety
<1>1. Init => Ledger!LedgerInit
  BY DEF Init, Ledger!LedgerInit
<1>2. TransferInv /\ [Next]_vars => [Ledger!LedgerNext]_(Ledger!ledgerVars)
  <2> SUFFICES ASSUME TransferInv, [Next]_vars
               PROVE  Ledger!LedgerNext \/ UNCHANGED Ledger!ledgerVars
    OBVIOUS
  <2> USE DEF Ledger!ledgerVars
  <2>0. TypeOK /\ pending = Ledger!Outstanding
    BY DEF TransferInv, TypeOK, SettledOnce, Ledger!Outstanding
  <2>1. ASSUME NEW r \in Calls, TransferRefused(r) PROVE Ledger!LedgerNext
    <3>1. Ledger!Refuse(r)
      BY <2>0, <2>1 DEF TransferRefused, Reject, Ledger!Refuse, TypeOK
    <3> QED
      BY <3>1 DEF Ledger!LedgerNext
  <2>2. ASSUME NEW r \in Calls, TransferPosted(r) PROVE Ledger!LedgerNext
    <3>1. Cardinality(pending) \in Nat
      BY <2>0, FS_Subset, FS_CardinalityType, CallsAssumption DEF TypeOK
    <3>2. Ledger!Cardinality(Ledger!Outstanding) < maxInflight
      <4>1. Ledger!Cardinality(Ledger!Outstanding) = Cardinality(pending)
        BY <2>0, Zenon DEF Cardinality, Ledger!Cardinality
      <4> QED
        BY <2>2, <3>1, <4>1, CallsAssumption DEF TransferPosted, Refused
    <3>3. Ledger!Take(r)
      <4>1. ~closed /\ closed' = closed
        BY <2>2 DEF TransferPosted, Refused
      <4>2. call[r] = "idle" /\ call' = [call EXCEPT ![r] = "pending"]
        BY <2>2 DEF TransferPosted
      <4> QED
        BY <3>2, <4>1, <4>2 DEF Ledger!Take
    <3> QED
      BY <3>3 DEF Ledger!LedgerNext
  <2>3. ASSUME NEW r \in Calls, TransferUnpostable(r) PROVE Ledger!LedgerNext
    <3>1. ~closed /\ call[r] = "idle" /\ Fail(pending \cup {r})
      BY <2>3 DEF TransferUnpostable, Refused
    <3>2. {r} \in {{}} \cup {{s} : s \in Calls}
      BY <2>3
    <3> QED
      BY <3>1, <3>2, FailIsFailStop
  <2>4. CASE ~closed /\ Fail(pending)
    <3>1. pending \cup {} = pending /\ {} \in {{}} \cup {{s} : s \in Calls}
      OBVIOUS
    <3>2. Fail(pending \cup {})
      BY <2>4, <3>1
    <3> QED
      BY <2>4, <3>1, <3>2, FailIsFailStop
  <2>5. CASE Receive
    <3> DEFINE m == Head(toParent)
    <3>0. m \in [id : Calls, bytes : Bytes]
      <4> DEFINE Answers == [id : Calls, bytes : Bytes]
      <4>1. toParent \in Seq(Answers) /\ toParent # <<>>
        BY <2>0, <2>5 DEF Receive, TypeOK
      <4> HIDE DEF Answers
      <4>2. Head(toParent) \in Answers
        BY <4>1
      <4> QED
        BY <4>2 DEF Answers
    <3>1. CASE m.id \notin pending
      BY <2>5, <3>1 DEF Receive, AnswerAccepted, AnswerRejected
    <3>2. CASE m.id \in pending /\ AnswerAccepted(m)
      <4>1. Ledger!Resolve(m.id)
        BY <3>0, <3>2 DEF AnswerAccepted, Ledger!Resolve, TransferInv, ClosedIsEmpty, SettledOnce
      <4> QED
        BY <3>0, <4>1 DEF Ledger!LedgerNext
    <3>3. CASE m.id \in pending /\ AnswerRejected(m)
      BY <2>4, <3>3 DEF AnswerRejected, TransferInv, ClosedIsEmpty
    <3> QED
      BY <2>5, <3>1, <3>2, <3>3 DEF Receive
  <2>6. ASSUME NEW r \in Calls, Timeout(r) PROVE Ledger!LedgerNext \/ UNCHANGED Ledger!ledgerVars
    BY <2>4, <2>6 DEF Timeout
  <2>7. CASE WorkerGone
    BY <2>4, <2>7 DEF WorkerGone
  <2>8. ASSUME NEW k \in Closers, Close(k) PROVE Ledger!LedgerNext \/ UNCHANGED Ledger!ledgerVars
    BY <2>4, <2>8 DEF Close
  <2>9. ASSUME NEW k \in Closers, CloseReturns(k) PROVE UNCHANGED Ledger!ledgerVars
    BY <2>9 DEF CloseReturns
  <2>10. CASE WorkerAnswers \/ WorkerExits \/ UNCHANGED vars
    BY <2>10 DEF WorkerAnswers, WorkerExits, vars
  <2> QED
    BY <2>1, <2>2, <2>3, <2>5, <2>6, <2>7, <2>8, <2>9, <2>10 DEF Next
<1> QED
  BY <1>1, <1>2, TransferInvariant, PTL DEF Spec, Ledger!LedgerSafety

\* Whatever order answers, timeouts, exits and close() come in, a call settles
\* once, leaves no timer behind and resolves with intact bytes only.
THEOREM CallsAlwaysSettleCleanly == Spec => []CallsSettleCleanly
<1>1. SettledOnce /\ TimersMatchPending /\ ResolvedIntact => CallsSettleCleanly
  BY DEF CallsSettleCleanly
<1> QED
  BY <1>1, CallsSettledOnce, TimersAlwaysMatchPending, ResolvedAlwaysIntact, PTL

-----------------------------------------------------------------------------
(* KindredStatePort.                                                       *)

\* A call that transfer() has not made yet is in no ledger, the port's
\* transport is the last one created, and a thread ends only after its
\* transport has failed.
PortInv ==
  /\ PortTypeOK
  /\ current \in {0, created}
  /\ \A t \in Transfers : outcome[t] = "idle" => \A w \in Workers : ledger[w][t] = "idle"
  /\ \A w \in Workers : gone[w] => failed[w]
  /\ \A w \in Workers : w > created => ~failed[w]
  /\ \A k \in PortClosers :
       /\ awaited[k].state = "waiting" => awaited[k].worker # 0
       /\ awaited[k].state = "idle" => awaited[k].worker = 0

\* Two close() calls have awaited one transport out of the first n; f is
\* awaited, now or after a step.
Overlap(f, n) ==
  \E j, k \in PortClosers :
    /\ j # k
    /\ f[j].worker = f[k].worker
    /\ f[j].worker \in 1 .. n

\* A close() that awaits a transport the port has forgotten has been
\* overtaken by another close().
OrphanInv ==
  /\ \A k \in PortClosers :
       awaited[k].state = "waiting" /\ awaited[k].worker # current
         => Overlap(awaited, awaited[k].worker)
  /\ \A w \in 1 .. created : ~failed[w] /\ w # current => Overlap(awaited, w - 1)

LEMMA PortInitInv == PortInit => PortInv /\ OrphanInv
  BY RequestsAssumption DEF PortInit, PortInv, PortTypeOK, OrphanInv, Workers

\* Stopping a transport rejects what it has in flight and touches no other.
LEMMA StopTyped ==
  ASSUME PortInv, NEW w \in Workers, Stop(w)
  PROVE  /\ failed' \in [Workers -> BOOLEAN] /\ failed'[w]
         /\ \A v \in Workers \ {w} : failed'[v] = failed[v] /\ ledger'[v] = ledger[v]
         /\ ledger' \in [Workers -> [Transfers -> {"idle", "pending", "resolved", "rejected"}]]
         /\ outcome' \in [Transfers -> {"idle", "waiting", "moved", "error", "refused",
                                "REFERENCE", "PORTABLE_BUFFERED"}]
         /\ \A t \in Transfers : outcome'[t] = "idle" => outcome[t] = "idle"
         /\ \A t \in Transfers : ledger[w][t] = "idle" => ledger'[w][t] = "idle"
  BY DEF Stop, PortInv, PortTypeOK, InFlight

LEMMA TransferLocalInv ==
  ASSUME PortInv, NEW t \in Transfers, TransferLocal(t)
  PROVE  PortInv'
  BY RequestsAssumption DEF TransferLocal, PortInv, PortTypeOK, Workers, workerTransfer

LEMMA PortStep ==
  ASSUME PortInv, [PortNext]_portVars
  PROVE  PortInv'
<1> USE RequestsAssumption DEF PortInv, PortTypeOK
<1>1. ASSUME NEW t \in Transfers, TransferPlanned(t) PROVE PortInv'
  BY <1>1 DEF TransferPlanned, plan
<1>2. ASSUME NEW t \in Transfers, TransferLocal(t) PROVE PortInv'
  BY <1>2, TransferLocalInv
<1>3. ASSUME NEW w \in Workers, NEW t \in Transfers, WorkerResolves(w, t) PROVE PortInv'
  BY <1>3 DEF WorkerResolves
<1>4. ASSUME NEW w \in Workers, WorkerFails(w) PROVE PortInv'
  BY <1>4, StopTyped DEF WorkerFails, Workers
<1>5. ASSUME NEW w \in Workers, ThreadEnds(w) PROVE PortInv'
  BY <1>5 DEF ThreadEnds
<1>6. ASSUME NEW k \in PortClosers, PortClose(k) PROVE PortInv'
  <2>1. CASE current # 0 /\ ~failed[current]
    <3>1. current \in Workers /\ Stop(current)
      BY <1>6, <2>1 DEF PortClose, Workers
    <3> QED
      BY <1>6, <3>1, StopTyped DEF PortClose, Workers
  <2>2. CASE ~(current # 0 /\ ~failed[current])
    BY <1>6, <2>2 DEF PortClose
  <2> QED
    BY <2>1, <2>2
<1>7. ASSUME NEW k \in PortClosers, PortCloseResumes(k) PROVE PortInv'
  BY <1>7 DEF PortCloseResumes
<1>8. CASE UNCHANGED portVars
  BY <1>8 DEF portVars, Workers
<1> QED
  BY <1>1, <1>2, <1>3, <1>4, <1>5, <1>6, <1>7, <1>8 DEF PortNext

\* The state port is typed, for any transfers, any close() calls and any
\* number of transports.
THEOREM PortTypeCorrect == PortSpec => []PortTypeOK
<1>1. PortSpec => []PortInv
  BY PortInitInv, PortStep, PTL DEF PortSpec
<1> QED
  BY <1>1, PTL DEF PortInv

\* What close() calls await is never replaced.
LEMMA OverlapStays ==
  ASSUME PortInv, NEW n \in Nat, Overlap(awaited, n),
         \A k \in PortClosers : awaited[k].worker # 0 => awaited'[k].worker = awaited[k].worker
  PROVE  Overlap(awaited', n)
  BY DEF Overlap, PortInv, PortTypeOK

LEMMA OverlapGrows ==
  ASSUME PortInv, NEW m \in Nat, NEW n \in Nat, m <= n, Overlap(awaited, m)
  PROVE  Overlap(awaited, n)
  BY DEF Overlap

LEMMA OrphanStep ==
  ASSUME PortInv, PortInv', OrphanInv, [PortNext]_portVars
  PROVE  OrphanInv'
<1>1. \A k \in PortClosers : awaited[k].worker \in Nat
  BY DEF PortInv, PortTypeOK
<1>2. created \in Nat /\ current \in Nat
  BY RequestsAssumption DEF PortInv, PortTypeOK
<1>3. CASE UNCHANGED <<current, created, awaited>> /\ \A w \in Workers : failed[w] => failed'[w]
  BY <1>1, <1>3, RequestsAssumption DEF OrphanInv, Overlap, PortInv, PortTypeOK, Workers
<1>4. ASSUME NEW t \in Transfers, TransferLocal(t) PROVE OrphanInv'
  <2>1. /\ UNCHANGED <<awaited, failed>> /\ current' \in {current, created + 1}
        /\ current' # current => current = 0 /\ created' = current'
        /\ current' = current => created' = created
    BY <1>4, <1>2 DEF TransferLocal, workerTransfer, PortInv, PortTypeOK
  <2> QED
    BY <1>1, <1>2, <2>1 DEF OrphanInv, Overlap, PortInv, PortTypeOK
<1>5. ASSUME NEW k \in PortClosers, PortClose(k) PROVE OrphanInv'
  <2>1. /\ UNCHANGED <<current, created>>
        /\ \A w \in Workers : failed[w] => failed'[w]
        /\ \A j \in PortClosers : awaited[j].worker # 0 => awaited'[j].worker = awaited[j].worker
        /\ \A j \in PortClosers : awaited'[j] = awaited[j] \/ awaited'[j].worker = current
    BY <1>5 DEF PortClose, Stop, PortInv, PortTypeOK, Workers
  <2>2. \A n \in Nat : Overlap(awaited, n) => Overlap(awaited', n)
    BY <2>1, OverlapStays
  <2>3. ASSUME NEW j \in PortClosers, awaited'[j].state = "waiting",
               awaited'[j].worker # current'
        PROVE  Overlap(awaited', awaited'[j].worker) /\ awaited'[j].worker = awaited[j].worker
    BY <1>1, <2>1, <2>2, <2>3 DEF OrphanInv
  <2>4. \A w \in 1 .. created : ~failed'[w] /\ w # current => Overlap(awaited', w - 1)
    BY <1>2, <2>1, <2>2, RequestsAssumption DEF OrphanInv, Workers, PortInv, PortTypeOK
  <2> QED
    BY <2>1, <2>3, <2>4 DEF OrphanInv, Overlap
<1>6. ASSUME NEW k \in PortClosers, PortCloseResumes(k) PROVE OrphanInv'
  <2> DEFINE v == awaited[k].worker
  <2>1. /\ UNCHANGED <<created, failed>> /\ current' = 0
        /\ \A j \in PortClosers : awaited'[j].worker = awaited[j].worker
        /\ \A j \in PortClosers : awaited'[j].state = "waiting" => awaited[j].state = "waiting" /\ j # k
    BY <1>6 DEF PortCloseResumes, PortInv, PortTypeOK
  <2>2. \A n \in Nat : Overlap(awaited, n) => Overlap(awaited', n)
    BY <2>1, OverlapStays
  <2>3. /\ v \in 1 .. created /\ failed[v]
        /\ v # current => Overlap(awaited, v)
    BY <1>6, <1>1, <1>2, RequestsAssumption DEF PortCloseResumes, PortInv, PortTypeOK, OrphanInv, Workers
  <2>4. ASSUME NEW j \in PortClosers, awaited'[j].state = "waiting"
        PROVE  Overlap(awaited', awaited[j].worker)
    <3>1. CASE awaited[j].worker # current
      BY <1>1, <2>1, <2>2, <2>4, <3>1 DEF OrphanInv
    <3>2. CASE awaited[j].worker = current /\ v = current
      <4>1. Overlap(awaited, current)
        BY <2>1, <2>3, <2>4, <3>2 DEF Overlap
      <4> QED
        BY <1>2, <2>2, <3>2, <4>1
    <3>3. CASE awaited[j].worker = current /\ v # current
      <4>1. v <= current
        BY <1>2, <2>1, <2>3, <2>4, <3>3 DEF PortInv
      <4> QED
        BY <1>1, <1>2, <2>2, <2>3, <3>3, <4>1, OverlapGrows
    <3> QED
      BY <3>1, <3>2, <3>3
  <2>5. ASSUME NEW w \in 1 .. created, ~failed[w]
        PROVE  Overlap(awaited', w - 1)
    <3>1. CASE w # current
      BY <1>2, <2>2, <2>5, <3>1 DEF OrphanInv
    <3>2. CASE w = current
      <4>1. v # w /\ v <= w - 1 /\ w - 1 \in Nat
        BY <1>2, <2>3, <2>5, <3>2 DEF PortInv
      <4> QED
        BY <1>1, <2>2, <2>3, <3>2, <4>1, OverlapGrows
    <3> QED
      BY <3>1, <3>2
  <2> QED
    BY <2>1, <2>4, <2>5 DEF OrphanInv, Overlap
<1>7. ASSUME [PortNext]_portVars,
             ~\E t \in Transfers : TransferLocal(t),
             ~\E k \in PortClosers : PortClose(k) \/ PortCloseResumes(k)
      PROVE  UNCHANGED <<current, created, awaited>> /\ \A w \in Workers : failed[w] => failed'[w]
  BY <1>7 DEF PortNext, portVars, TransferPlanned, WorkerResolves, WorkerFails, Stop,
              ThreadEnds, PortInv, PortTypeOK
<1> QED
  BY <1>3, <1>4, <1>5, <1>6, <1>7

LEMMA PortAlwaysInv == PortSpec => [](PortInv /\ OrphanInv)
  BY PortInitInv, PortStep, OrphanStep, PTL DEF PortSpec

\* KindredStatePort.close clears whichever transport is current: a running
\* transport is forgotten only when two close() calls overlapped before.
THEOREM OrphanAlwaysNeedsOverlap == PortSpec => []OrphanNeedsOverlap
<1>1. PortInv /\ OrphanInv => OrphanNeedsOverlap
  BY DEF OrphanInv, OrphanNeedsOverlap, Overlap
<1> QED
  BY <1>1, PortAlwaysInv, PTL

\* Stopping a running transport is the ledger's failure.
LEMMA StopIsFailStop ==
  ASSUME PortInv, NEW w \in Workers, ~failed[w], Stop(w)
  PROVE  \A v \in Workers : Transport(v)!LedgerNext \/ UNCHANGED Transport(v)!ledgerVars
<1>1. Transport(w)!FailStop({})
  BY DEF Stop, Transport!FailStop, Transport!Outstanding, PortInv, PortTypeOK, InFlight
<1>2. Transport(w)!LedgerNext
  BY <1>1 DEF Transport!LedgerNext
<1>3. \A v \in Workers \ {w} : UNCHANGED Transport(v)!ledgerVars
  BY StopTyped DEF Transport!ledgerVars
<1> QED
  BY <1>2, <1>3

LEMMA PortStepIsLedgerStep ==
  ASSUME PortInv, [PortNext]_portVars
  PROVE  \A w \in Workers : Transport(w)!LedgerNext \/ UNCHANGED Transport(w)!ledgerVars
<1>1. ASSUME NEW t \in Transfers, TransferLocal(t)
      PROVE  \A w \in Workers : Transport(w)!LedgerNext \/ UNCHANGED Transport(w)!ledgerVars
  <2>0. PICK w \in Workers : w = workerTransfer
    BY <1>1 DEF TransferLocal
  <2>1. ledger[w][t] = "idle" /\ UNCHANGED failed
    BY <1>1, <2>0 DEF TransferLocal, PortInv
  <2>2. Transport(w)!Take(t) \/ Transport(w)!Refuse(t)
    <3>1. Transport(w)!Outstanding = InFlight(w)
      BY DEF Transport!Outstanding, InFlight
    <3>2. Transport(w)!Cardinality(Transport(w)!Outstanding) = Cardinality(InFlight(w))
      BY <3>1, Zenon DEF Cardinality, Transport!Cardinality
    <3> QED
      BY <1>1, <2>0, <2>1, <3>2 DEF TransferLocal, Transport!Take, Transport!Refuse,
                                    PortInv, PortTypeOK
  <2>3. \A v \in Workers \ {w} : UNCHANGED Transport(v)!ledgerVars
    BY <1>1, <2>0, <2>1 DEF TransferLocal, Transport!ledgerVars, PortInv, PortTypeOK
  <2> QED
    BY <2>2, <2>3 DEF Transport!LedgerNext
<1>2. ASSUME NEW w \in Workers, NEW t \in Transfers, WorkerResolves(w, t)
      PROVE  \A v \in Workers : Transport(v)!LedgerNext \/ UNCHANGED Transport(v)!ledgerVars
  <2>1. Transport(w)!Resolve(t)
    BY <1>2 DEF WorkerResolves, Transport!Resolve, PortInv, PortTypeOK
  <2>2. \A v \in Workers \ {w} : UNCHANGED Transport(v)!ledgerVars
    BY <1>2 DEF WorkerResolves, Transport!ledgerVars, PortInv, PortTypeOK
  <2> QED
    BY <2>1, <2>2 DEF Transport!LedgerNext
<1>3. ASSUME NEW w \in Workers, WorkerFails(w)
      PROVE  \A v \in Workers : Transport(v)!LedgerNext \/ UNCHANGED Transport(v)!ledgerVars
  BY <1>3, StopIsFailStop DEF WorkerFails
<1>4. ASSUME NEW k \in PortClosers, PortClose(k), current # 0, ~failed[current]
      PROVE  \A v \in Workers : Transport(v)!LedgerNext \/ UNCHANGED Transport(v)!ledgerVars
  <2>1. current \in Workers /\ Stop(current)
    BY <1>4, RequestsAssumption DEF PortClose, PortInv, PortTypeOK, Workers
  <2> QED
    BY <1>4, <2>1, StopIsFailStop
<1>5. CASE UNCHANGED <<ledger, failed>>
  BY <1>5 DEF Transport!ledgerVars
<1>6. ASSUME ~\E t \in Transfers : TransferLocal(t),
             ~\E w \in Workers, t \in Transfers : WorkerResolves(w, t),
             ~\E w \in Workers : WorkerFails(w),
             ~\E k \in PortClosers : PortClose(k) /\ current # 0 /\ ~failed[current]
      PROVE  UNCHANGED <<ledger, failed>>
  BY <1>6 DEF PortNext, portVars, TransferPlanned, ThreadEnds, PortClose, PortCloseResumes
<1> QED
  BY <1>1, <1>2, <1>3, <1>4, <1>5, <1>6

\* Every step of the port is, for each of its transports, a step of the
\* ledger WorkerTransfer implements, or none.
THEOREM PortAlwaysUsesLedgers == PortSpec => PortUsesLedgers
<1>1. PortInv /\ [PortNext]_portVars =>
        [\A w \in Workers : Transport(w)!LedgerNext \/ UNCHANGED Transport(w)!ledgerVars]_portVars
  BY PortStepIsLedgerStep
<1> QED
  BY <1>1, PortAlwaysInv, PTL DEF PortSpec, PortUsesLedgers

\* Transport and state port keep their types side by side.
THEOREM TypesAlwaysOK == DirectPipeSpec => []TypesOK
<1>1. TypeOK /\ PortTypeOK => TypesOK
  BY DEF TypesOK
<1> QED
  BY <1>1, TypeCorrect, PortTypeCorrect, PTL DEF DirectPipeSpec
=============================================================================
