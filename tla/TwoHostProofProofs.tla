--------------------------- MODULE TwoHostProofProofs ---------------------------
(***************************************************************************)
(* Proofs about TwoHostProof for any senders, any number of repeated       *)
(* requests, any maxSessions and any challengeTtl.                         *)
(***************************************************************************)
EXTENDS TwoHostProof, FiniteSetTheorems, TLAPS

\* A sender's session was issued for that sender, and is never replaced.
SessionOwned ==
  \A s \in Senders : session[s] # NoSession =>
    hello[session[s]] = s /\ pc[s] \notin {"idle", "challenge"}

\* Only issued ids are in the map.
OpenIssued == \A i \in open : hello[i] # NoSender

\* A request that arrived came from a sender with a session.
AttemptsSent ==
  \A a \in Attempts : attempt[a].stage # "none" =>
    attempt[a].from \in Senders /\ session[attempt[a].from] # NoSession

\* A stored receipt is the one of its source's session.
RecordedGenuine ==
  \A r \in recorded : session[r.source] # NoSession /\ r = receiptCore(r.source)

HostInv ==
  /\ TypeOK
  /\ SessionsBounded
  /\ SessionOwned
  /\ OpenIssued
  /\ AttemptsSent
  /\ ConsumedOnce
  /\ RecordedGenuine
  /\ SinkBeforeSuccess
  /\ VerifiedSound

-----------------------------------------------------------------------------

\* Removing sessions from the map keeps it within maxSessions.
LEMMA FewerSessions ==
  ASSUME TypeOK, SessionsBounded, NEW T, T \subseteq open
  PROVE  Cardinality(T) <= maxSessions
<1>1. IsFiniteSet(open)
  BY FS_Subset, ReceiverAssumption DEF TypeOK
<1>2. IsFiniteSet(T) /\ Cardinality(T) <= Cardinality(open)
  BY <1>1, FS_Subset
<1> QED
  BY <1>1, <1>2, FS_CardinalityType, ReceiverAssumption DEF SessionsBounded

\* The second capacity check leaves room for the new session.
LEMMA OneMoreSession ==
  ASSUME TypeOK, ~Full, NEW i \in SessionIds
  PROVE  Cardinality(Unexpired \cup {i}) <= maxSessions
<1>1. IsFiniteSet(Unexpired)
  BY FS_Subset, ReceiverAssumption, Unexpired \subseteq SessionIds DEF TypeOK, Unexpired
<1>2. Cardinality(Unexpired) \in Nat
  BY <1>1, FS_CardinalityType
<1>3. Cardinality(Unexpired \cup {i}) =
        IF i \in Unexpired THEN Cardinality(Unexpired) ELSE Cardinality(Unexpired) + 1
  BY <1>1, FS_AddElement
<1> QED
  BY <1>2, <1>3, ReceiverAssumption DEF Full

\* A sender with a session gets a well-formed receipt that names it.
LEMMA ReceiptWellFormed ==
  ASSUME TypeOK, SessionOwned, NEW s \in Senders, session[s] # NoSession
  PROVE  receiptCore(s) \in Receipts /\ receiptCore(s).source = s
BY DEF TypeOK, SessionOwned, Receipts, receiptCore

-----------------------------------------------------------------------------

\* The receiver starts without sessions and the senders without receipts.
LEMMA InitEstablishesInv == Init => HostInv
<1> SUFFICES ASSUME Init PROVE HostInv
  OBVIOUS
<1>1. TypeOK
  <2>1. age \in [SessionIds -> 0 .. challengeTtl]
    BY ReceiverAssumption DEF Init
  <2>2. attempt \in [Attempts -> [stage : {"none", "refused", "body", "sink", "over"},
                                  from : Senders \cup {NoSender}]]
    BY DEF Init
  <2> QED
    BY <2>1, <2>2 DEF Init, TypeOK
<1>2. SessionsBounded
  BY FS_EmptySet, ReceiverAssumption DEF Init, SessionsBounded
<1>3. SessionOwned /\ OpenIssued /\ RecordedGenuine /\ SinkBeforeSuccess /\ VerifiedSound
  BY DEF Init, SessionOwned, OpenIssued, RecordedGenuine, SinkBeforeSuccess, VerifiedSound
<1>4. AttemptsSent /\ ConsumedOnce
  BY DEF Init, AttemptsSent, ConsumedOnce, Authenticated
<1> QED
  BY <1>1, <1>2, <1>3, <1>4 DEF HostInv

\* A step that only removes sessions from the map, or lets time pass, or moves
\* a challenge request on.
LEMMA MapShrinks ==
  ASSUME HostInv, open' \subseteq open,
         UNCHANGED <<senderVars, hello, attempt, sinkVars>>,
         age' \in [SessionIds -> 0 .. challengeTtl],
         greeting' \in [Senders -> {"none", "sent", "reading", "issued", "refused"}],
         closed' \in BOOLEAN
  PROVE  HostInv'
<1> USE DEF HostInv, senderVars, sinkVars
<1>1. TypeOK'
  BY DEF TypeOK
<1>2. SessionsBounded'
  BY FewerSessions DEF SessionsBounded
<1>3. SessionOwned' /\ OpenIssued' /\ AttemptsSent' /\ SinkBeforeSuccess' /\ VerifiedSound'
  BY DEF SessionOwned, OpenIssued, AttemptsSent, SinkBeforeSuccess, VerifiedSound
<1>4. ConsumedOnce'
  BY DEF ConsumedOnce, Authenticated
<1>5. RecordedGenuine'
  BY DEF RecordedGenuine, receiptCore
<1> QED
  BY <1>1, <1>2, <1>3, <1>4, <1>5

\* A fresh id is no authenticated request's session, so issuing one cannot
\* reopen a consumed session.
LEMMA IssueKeepsInv ==
  ASSUME HostInv, NEW s \in Senders, NEW i \in SessionIds, hello[i] = NoSender, ~Full,
         open' = Unexpired \cup {i}, hello' = [hello EXCEPT ![i] = s],
         age' = [age EXCEPT ![i] = 0], greeting' = [greeting EXCEPT ![s] = "issued"],
         UNCHANGED <<senderVars, attempt, sinkVars, closed>>
  PROVE  HostInv'
<1> USE DEF HostInv, senderVars, sinkVars
<1>0. \A t \in Senders : session[t] # NoSession => session[t] # i /\ hello'[session[t]] = hello[session[t]]
  BY ReceiverAssumption DEF TypeOK, SessionOwned
<1>1. TypeOK'
  BY ReceiverAssumption DEF TypeOK, Unexpired
<1>2. SessionsBounded'
  BY OneMoreSession DEF SessionsBounded
<1>3. SessionOwned'
  BY <1>0 DEF SessionOwned, TypeOK
<1>4. OpenIssued'
  BY ReceiverAssumption DEF OpenIssued, Unexpired, TypeOK
<1>5. AttemptsSent' /\ SinkBeforeSuccess' /\ VerifiedSound'
  BY DEF AttemptsSent, SinkBeforeSuccess, VerifiedSound
<1>6. ConsumedOnce'
  <2>1. \A a \in Attempts : Authenticated(a) => session[attempt[a].from] # i
    BY <1>0 DEF AttemptsSent, Authenticated
  <2> QED
    BY <2>1 DEF ConsumedOnce, Authenticated, Unexpired
<1>7. RecordedGenuine'
  <2> SUFFICES ASSUME NEW r \in recorded
               PROVE  session[r.source] # NoSession /\ r = receiptCore(r.source)'
    BY DEF RecordedGenuine
  <2>1. r.source \in Senders /\ session[r.source] # NoSession /\ r = receiptCore(r.source)
    BY DEF RecordedGenuine, TypeOK, Receipts
  <2>2. receiptCore(r.source)' = receiptCore(r.source)
    BY <1>0, <2>1 DEF receiptCore
  <2> QED
    BY <2>1, <2>2
<1> QED
  BY <1>1, <1>2, <1>3, <1>4, <1>5, <1>6, <1>7

\* A transfer request is refused, or consumes its session before its body is
\* read.
LEMMA TransferKeepsInv ==
  ASSUME HostInv, NEW a \in Attempts, NEW s \in Senders, TransferArrives(a, s)
  PROVE  HostInv'
<1> USE DEF HostInv, senderVars, sinkVars
<1> USE DEF TransferArrives
<1>0. open' \subseteq open /\ session[s] # NoSession
  OBVIOUS
<1>1. TypeOK'
  BY DEF TypeOK
<1>2. SessionsBounded'
  BY <1>0, FewerSessions DEF SessionsBounded
<1>3. SessionOwned' /\ SinkBeforeSuccess' /\ VerifiedSound'
  BY DEF SessionOwned, SinkBeforeSuccess, VerifiedSound
<1>4. OpenIssued'
  BY <1>0 DEF OpenIssued
<1>5. AttemptsSent'
  BY <1>0 DEF AttemptsSent, TypeOK
<1>6. ConsumedOnce'
  <2>1. CASE attempt' = [attempt EXCEPT ![a] = [stage |-> "refused", from |-> s]]
    <3>1. \A b \in Attempts : Authenticated(b)' => Authenticated(b) /\ attempt'[b] = attempt[b]
      BY <2>1 DEF Authenticated, TypeOK
    <3> QED
      BY <1>0, <3>1 DEF ConsumedOnce
  <2>2. CASE /\ session[s] \in open
             /\ open' = open \ {session[s]}
             /\ attempt' = [attempt EXCEPT ![a] = [stage |-> "body", from |-> s]]
    <3>1. \A b \in Attempts \ {a} : attempt'[b] = attempt[b] /\ (Authenticated(b)' <=> Authenticated(b))
      BY <2>2 DEF Authenticated, TypeOK
    <3>2. attempt'[a].from = s
      BY <2>2 DEF TypeOK
    <3>3. \A b \in Attempts \ {a} : Authenticated(b) => session[attempt[b].from] # session[s]
      BY <2>2 DEF ConsumedOnce
    <3> QED
      BY <1>0, <2>2, <3>1, <3>2, <3>3 DEF ConsumedOnce
  <2> QED
    BY <2>1, <2>2
<1>7. RecordedGenuine'
  BY DEF RecordedGenuine, receiptCore
<1> QED
  BY <1>1, <1>2, <1>3, <1>4, <1>5, <1>6, <1>7

\* The later stages of a transfer request: the session stays consumed, and
\* what onReceipt stores is the receipt of that session.
LEMMA StageKeepsInv ==
  ASSUME HostInv, NEW a \in Attempts, Authenticated(a),
         NEW st \in {"sink", "over"}, attempt' = [attempt EXCEPT ![a].stage = st],
         open' \subseteq open,
         recorded' \in {recorded, recorded \cup {receiptCore(attempt[a].from)}},
         handed' \in {handed, handed \cup {receiptCore(attempt[a].from)}},
         handed' # handed => recorded' = recorded \cup {receiptCore(attempt[a].from)},
         UNCHANGED <<senderVars, greeting, hello, age, closed>>
  PROVE  HostInv'
<1> USE DEF HostInv, senderVars
<1> DEFINE s == attempt[a].from
<1>0. s \in Senders /\ session[s] # NoSession
  BY DEF AttemptsSent, Authenticated
<1>1. receiptCore(s) \in Receipts /\ receiptCore(s).source = s
  BY <1>0, ReceiptWellFormed
<1>2. \A t : receiptCore(t)' = receiptCore(t)
  BY DEF receiptCore
<1>3. TypeOK'
  <2>1. recorded' \subseteq Receipts /\ handed' \subseteq Receipts
    BY <1>1 DEF TypeOK
  <2>2. attempt' \in [Attempts -> [stage : {"none", "refused", "body", "sink", "over"},
                                   from : Senders \cup {NoSender}]]
    BY DEF TypeOK
  <2> QED
    BY <2>1, <2>2 DEF TypeOK
<1>4. SessionsBounded'
  BY FewerSessions DEF SessionsBounded
<1>5. SessionOwned' /\ OpenIssued'
  BY DEF SessionOwned, OpenIssued
<1>6. \A b \in Attempts : /\ attempt'[b].from = attempt[b].from
                          /\ Authenticated(b)' <=> Authenticated(b)
                          /\ attempt'[b].stage # "none" => attempt[b].stage # "none"
  BY DEF Authenticated, TypeOK
<1>7. AttemptsSent'
  BY <1>6 DEF AttemptsSent
<1>8. ConsumedOnce'
  BY <1>6 DEF ConsumedOnce
<1>9. RecordedGenuine'
  <2> SUFFICES ASSUME NEW r \in recorded'
               PROVE  session[r.source] # NoSession /\ r = receiptCore(r.source)
    BY <1>2 DEF RecordedGenuine
  <2>1. CASE r \in recorded
    BY <2>1 DEF RecordedGenuine
  <2>2. CASE r = receiptCore(s)
    BY <1>0, <1>1, <2>2
  <2> QED
    BY <2>1, <2>2
<1>10. SinkBeforeSuccess'
  BY DEF SinkBeforeSuccess
<1>11. VerifiedSound'
  BY DEF VerifiedSound
<1> QED
  BY <1>3, <1>4, <1>5, <1>7, <1>8, <1>9, <1>10, <1>11

\* A step of a sender that neither takes a session nor accepts a receipt.
LEMMA SenderKeepsInv ==
  ASSUME HostInv, NEW s \in Senders, Send(s) \/ PayloadChanges(s) \/ SendFails(s)
  PROVE  HostInv'
<1> USE DEF HostInv, mapVars, sinkVars
<1>1. TypeOK'
  BY DEF TypeOK, Send, PayloadChanges, SendFails
<1>2. SessionOwned'
  BY DEF SessionOwned, TypeOK, Send, PayloadChanges, SendFails
<1>3. SessionsBounded' /\ OpenIssued' /\ AttemptsSent' /\ SinkBeforeSuccess'
  BY DEF SessionsBounded, OpenIssued, AttemptsSent, SinkBeforeSuccess, Send, PayloadChanges, SendFails
<1>4. ConsumedOnce'
  BY DEF ConsumedOnce, Authenticated, Send, PayloadChanges, SendFails
<1>5. \A t \in Senders : session[t] # NoSession => payload'[t] = payload[t]
  BY DEF SessionOwned, TypeOK, Send, PayloadChanges, SendFails
<1>6. UNCHANGED <<session, hello, recorded>>
  BY DEF Send, PayloadChanges, SendFails
<1>7. RecordedGenuine'
  <2> SUFFICES ASSUME NEW r \in recorded
               PROVE  session[r.source] # NoSession /\ r = receiptCore(r.source)'
    BY <1>6 DEF RecordedGenuine
  <2>1. r.source \in Senders /\ session[r.source] # NoSession /\ r = receiptCore(r.source)
    BY DEF RecordedGenuine, TypeOK, Receipts
  <2>2. receiptCore(r.source)' = receiptCore(r.source)
    BY <1>5, <1>6, <2>1 DEF receiptCore
  <2> QED
    BY <2>1, <2>2
<1>8. VerifiedSound'
  <2>1. \A t \in Senders : pc'[t] = "verified" => pc[t] = "verified" /\ payload'[t] = payload[t]
    BY DEF TypeOK, Send, PayloadChanges, SendFails
  <2> QED
    BY <1>6, <2>1 DEF VerifiedSound
<1> QED
  BY <1>1, <1>2, <1>3, <1>4, <1>7, <1>8

\* A sender takes the session that was issued for it; it had none before.
LEMMA ChallengeKeepsInv ==
  ASSUME HostInv, NEW s \in Senders, ChallengeAnswered(s)
  PROVE  HostInv'
<1> USE DEF HostInv, mapVars, sinkVars
<1>0. PICK i \in SessionIds : hello[i] = s /\ session' = [session EXCEPT ![s] = i]
  BY DEF ChallengeAnswered
<1>1. /\ pc[s] = "challenge" /\ pc' = [pc EXCEPT ![s] = "transfer"]
      /\ UNCHANGED <<payload, greeting, open, hello, age, attempt, recorded, handed, closed>>
  BY DEF ChallengeAnswered
<1>2. session[s] = NoSession
  BY <1>1 DEF SessionOwned
<1>3. \A t \in Senders : session[t] # NoSession => t # s /\ session'[t] = session[t]
  BY <1>0, <1>2 DEF TypeOK
<1>4. TypeOK'
  BY <1>0, <1>1 DEF TypeOK
<1>5. SessionOwned'
  BY <1>0, <1>1, ReceiverAssumption DEF SessionOwned, TypeOK
<1>6. SessionsBounded' /\ OpenIssued' /\ SinkBeforeSuccess'
  BY <1>1 DEF SessionsBounded, OpenIssued, SinkBeforeSuccess
<1>7. AttemptsSent'
  BY <1>1, <1>3 DEF AttemptsSent
<1>8. ConsumedOnce'
  <2>1. \A a \in Attempts : /\ Authenticated(a)' <=> Authenticated(a)
                            /\ Authenticated(a) => session'[attempt[a].from] = session[attempt[a].from]
    BY <1>1, <1>3 DEF Authenticated, AttemptsSent
  <2> QED
    BY <1>1, <2>1 DEF ConsumedOnce
<1>9. RecordedGenuine'
  <2> SUFFICES ASSUME NEW r \in recorded
               PROVE  session'[r.source] # NoSession /\ r = receiptCore(r.source)'
    BY <1>1 DEF RecordedGenuine
  <2>1. r.source \in Senders /\ session[r.source] # NoSession /\ r = receiptCore(r.source)
    BY DEF RecordedGenuine, TypeOK, Receipts
  <2>2. session'[r.source] = session[r.source]
    BY <1>3, <2>1
  <2>3. receiptCore(r.source)' = receiptCore(r.source)
    BY <1>1, <2>2 DEF receiptCore
  <2> QED
    BY <2>1, <2>2, <2>3
<1>10. VerifiedSound'
  <2>1. \A t \in Senders : pc'[t] = "verified" => t # s /\ pc[t] = "verified" /\ session'[t] = session[t]
    BY <1>0, <1>1 DEF TypeOK
  <2> QED
    BY <1>1, <2>1 DEF VerifiedSound
<1> QED
  BY <1>4, <1>5, <1>6, <1>7, <1>8, <1>9, <1>10

\* A sender that accepts a receipt accepts its own, whoever's was delivered.
LEMMA ReceiptKeepsInv ==
  ASSUME HostInv, NEW s \in Senders, ReceiptArrives(s)
  PROVE  HostInv'
<1> USE DEF HostInv, mapVars, sinkVars
<1>0. PICK r \in handed :
        pc' = [pc EXCEPT ![s] = IF ReceiptAccepted(s, r) THEN "verified" ELSE "failed"]
  BY DEF ReceiptArrives
<1>1. /\ pc[s] = "transfer"
      /\ UNCHANGED <<payload, session, greeting, open, hello, age, attempt, recorded, handed, closed>>
  BY DEF ReceiptArrives
<1>2. TypeOK'
  BY <1>0, <1>1 DEF TypeOK
<1>3. SessionOwned'
  BY <1>0, <1>1 DEF SessionOwned, TypeOK
<1>4. SessionsBounded' /\ OpenIssued' /\ SinkBeforeSuccess' /\ AttemptsSent'
  BY <1>1 DEF SessionsBounded, OpenIssued, SinkBeforeSuccess, AttemptsSent
<1>5. ConsumedOnce'
  BY <1>1 DEF ConsumedOnce, Authenticated
<1>6. RecordedGenuine'
  BY <1>1 DEF RecordedGenuine, receiptCore
<1>7. VerifiedSound'
  <2> SUFFICES ASSUME NEW t \in Senders, pc'[t] = "verified"
               PROVE  /\ t \in Paired
                      /\ payload[t] = "hashed"
                      /\ [session |-> session[t], source |-> t, intact |-> TRUE,
                          distinct |-> t \notin SameHost, loopback |-> t \in ViaLoopback,
                          twoHost |-> t \notin SameHost /\ t \notin ViaLoopback] \in recorded
    BY <1>1 DEF VerifiedSound
  <2>1. CASE t # s
    <3>1. pc[t] = "verified"
      BY <1>0, <2>1 DEF TypeOK
    <3> QED
      BY <3>1 DEF VerifiedSound
  <2>2. CASE t = s
    <3>1. ReceiptAccepted(s, r)
      BY <1>0, <2>2 DEF TypeOK
    <3>2. r \in recorded /\ r.source = s /\ r.intact
      BY <3>1 DEF ReceiptAccepted, SinkBeforeSuccess
    <3>3. r = receiptCore(s) /\ session[s] # NoSession
      BY <3>2 DEF RecordedGenuine
    <3>4. payload[s] = "hashed"
      <4>1. receiptCore(s).intact = (payload[s] = "hashed")
        BY DEF receiptCore
      <4> QED
        BY <3>2, <3>3, <4>1
    <3>5. hello[session[s]] = s
      BY <3>3 DEF SessionOwned
    <3>6. receiptCore(s) =
            [session |-> session[s], source |-> s, intact |-> TRUE,
             distinct |-> s \notin SameHost, loopback |-> s \in ViaLoopback,
             twoHost |-> s \notin SameHost /\ s \notin ViaLoopback]
      BY <3>4, <3>5 DEF receiptCore
    <3> QED
      BY <2>2, <3>1, <3>2, <3>3, <3>4, <3>6 DEF ReceiptAccepted
  <2> QED
    BY <2>1, <2>2
<1> QED
  BY <1>2, <1>3, <1>4, <1>5, <1>6, <1>7

\* Every step of the receiver and of the senders preserves the invariant.
LEMMA NextKeepsInv == HostInv /\ [Next]_vars => HostInv'
<1> SUFFICES ASSUME HostInv, [Next]_vars PROVE HostInv'
  OBVIOUS
<1> USE DEF mapVars
<1>0. TypeOK
  BY DEF HostInv
<1>1. ASSUME NEW s \in Senders, ChallengeArrives(s) \/ HelloRefused(s) PROVE HostInv'
  BY <1>0, <1>1, MapShrinks DEF ChallengeArrives, HelloRefused, Unexpired, TypeOK
<1>2. ASSUME NEW s \in Senders, HelloRead(s) PROVE HostInv'
  <2>1. CASE /\ open' = Unexpired
             /\ greeting' = [greeting EXCEPT ![s] = "refused"]
             /\ UNCHANGED <<hello, age>>
    BY <1>0, <1>2, <2>1, MapShrinks DEF HelloRead, Unexpired, TypeOK
  <2>2. CASE /\ ~Full
             /\ \E i \in {j \in SessionIds : hello[j] = NoSender} :
                  /\ open' = Unexpired \cup {i}
                  /\ hello' = [hello EXCEPT ![i] = s]
                  /\ age' = [age EXCEPT ![i] = 0]
             /\ greeting' = [greeting EXCEPT ![s] = "issued"]
    BY <1>2, <2>2, IssueKeepsInv DEF HelloRead
  <2> QED
    BY <1>2, <2>1, <2>2 DEF HelloRead
<1>3. ASSUME NEW a \in Attempts, BodyFails(a) PROVE HostInv'
  <2>1. Authenticated(a)
    BY <1>3 DEF BodyFails, Authenticated
  <2> QED
    BY <1>3, <2>1, StageKeepsInv DEF BodyFails, sinkVars
<1>4. ASSUME NEW a \in Attempts, BodyDecrypts(a) PROVE HostInv'
  <2>1. Authenticated(a)
    BY <1>4 DEF BodyDecrypts, Authenticated
  <2> QED
    BY <1>4, <2>1, StageKeepsInv DEF BodyDecrypts, sinkVars
<1>5. ASSUME NEW a \in Attempts, SinkFails(a) PROVE HostInv'
  <2>1. Authenticated(a)
    BY <1>5 DEF SinkFails, Authenticated
  <2> QED
    BY <1>5, <2>1, StageKeepsInv DEF SinkFails
<1>6. ASSUME NEW a \in Attempts, SinkRecords(a) PROVE HostInv'
  <2>1. Authenticated(a)
    BY <1>6 DEF SinkRecords, Authenticated
  <2>2. handed' \in {handed, handed \cup {receiptCore(attempt[a].from)}}
    BY <1>6 DEF SinkRecords
  <2> QED
    BY <1>6, <2>1, <2>2, StageKeepsInv DEF SinkRecords
<1>7. CASE Tick
  <2>1. age' \in [SessionIds -> 0 .. challengeTtl]
    BY <1>0, <1>7, ReceiverAssumption DEF Tick, TypeOK, Expired
  <2> QED
    BY <1>0, <1>7, <2>1, MapShrinks DEF Tick, TypeOK
<1>8. CASE ExpiryTimer \/ Close
  BY <1>0, <1>8, MapShrinks DEF ExpiryTimer, Close, Unexpired, TypeOK
<1>9. CASE UNCHANGED vars
  BY <1>0, <1>9, MapShrinks DEF vars, senderVars, sinkVars, TypeOK
<1> QED
  BY <1>1, <1>2, <1>3, <1>4, <1>5, <1>6, <1>7, <1>8, <1>9,
     TransferKeepsInv, SenderKeepsInv, ChallengeKeepsInv, ReceiptKeepsInv DEF Next

\* The invariant holds throughout.
LEMMA HostInvariant == Spec => []HostInv
BY InitEstablishesInv, NextKeepsInv, PTL DEF Spec

-----------------------------------------------------------------------------

\* The receiver's and the senders' state keeps its types; every stored receipt
\* names a session and a source.
THEOREM TypeCorrect == Spec => []TypeOK
<1>1. HostInv => TypeOK
  BY DEF HostInv
<1> QED
  BY <1>1, HostInvariant, PTL

\* The sessions map never exceeds maxSessions, however many challenge requests
\* wait for their bodies at the same time.
THEOREM SessionsAlwaysBounded == Spec => []SessionsBounded
<1>1. HostInv => SessionsBounded
  BY DEF HostInv
<1> QED
  BY <1>1, HostInvariant, PTL

\* A session authenticates one request, however often and in whatever order a
\* transfer request reaches the receiver.
THEOREM SessionsConsumedOnce == Spec => []ConsumedOnce
<1>1. HostInv => ConsumedOnce
  BY DEF HostInv
<1> QED
  BY <1>1, HostInvariant, PTL

\* A sender that reports success holds the stored receipt of its own session
\* over the bytes it hashed.
THEOREM SuccessAlwaysSound == Spec => []VerifiedSound
<1>1. HostInv => VerifiedSound
  BY DEF HostInv
<1> QED
  BY <1>1, HostInvariant, PTL

\* The audit sink has every receipt the receiver answered with status 200.
THEOREM SinkAlwaysBeforeSuccess == Spec => []SinkBeforeSuccess
<1>1. HostInv => SinkBeforeSuccess
  BY DEF HostInv
<1> QED
  BY <1>1, HostInvariant, PTL

\* The receiver's sessions stay within their bound and serve one attempt each.
THEOREM SessionsAlwaysUsedOnce == Spec => []SessionsUsedOnce
<1>1. SessionsBounded /\ ConsumedOnce => SessionsUsedOnce
  BY DEF SessionsUsedOnce
<1> QED
  BY <1>1, SessionsAlwaysBounded, SessionsConsumedOnce, PTL

\* A reported success is one in the sender's own session, over the bytes it
\* hashed, and onReceipt has stored it.
THEOREM ProofAlwaysSound == Spec => []ProofSound
<1>1. VerifiedSound /\ SinkBeforeSuccess => ProofSound
  BY DEF ProofSound
<1> QED
  BY <1>1, SuccessAlwaysSound, SinkAlwaysBeforeSuccess, PTL
=============================================================================
