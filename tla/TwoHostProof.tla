------------------------------ MODULE TwoHostProof ------------------------------
(***************************************************************************)
(* The two-host proof of two-machine-proof.mjs: startProofReceiver's       *)
(* session map, its two request handlers and its audit sink, and the       *)
(* senders that run sendTwoHostProof against it.                           *)
(*                                                                         *)
(* A handler runs without interruption from one await to the next, so an   *)
(* action is such a stretch: up to reading the body, up to calling         *)
(* onReceipt, and from there to the answer.  Between them anything else    *)
(* may run.  A transfer request may reach the receiver more than once; an  *)
(* answer may be lost, late, or another sender's.                          *)
(*                                                                         *)
(* A session id stands for its challenge and derived key, a sender for all *)
(* it claims in its hello (fingerprint, state id, hash, generation, size). *)
(* A MAC or a decryption succeeds exactly when secret, session and claims  *)
(* agree on both sides.                                                    *)
(***************************************************************************)
EXTENDS Naturals, FiniteSets

CONSTANTS
  Senders,        \* runs of sendTwoHostProof
  Paired,         \* those that hold the receiver's secret
  SameHost,       \* those on a machine with the receiver's fingerprint
  ViaLoopback,    \* those that connect through a loopback address
  SessionIds,     \* UUIDs the receiver may draw; bounds the sessions issued
  Attempts,       \* transfer requests the receiver gets, repetitions included
  NoSender, NoSession,
  maxSessions,
  challengeTtl

ASSUME ReceiverAssumption ==
  /\ maxSessions \in Nat \ {0}
  /\ challengeTtl \in Nat \ {0}
  /\ IsFiniteSet(SessionIds)
  /\ NoSender \notin Senders
  /\ NoSession \notin SessionIds

VARIABLES
  pc,        \* where each sender is
  payload,   \* "hashed", or "changed" since payloadSha256 was computed
  session,   \* the session a sender was given
  greeting,  \* the challenge request of each sender, at the receiver
  open,      \* keys of the receiver's sessions map
  hello,     \* what a session was issued for (kept by handlers after delete)
  age,       \* time since createdAt
  attempt,   \* each transfer request: [stage, from]
  recorded,  \* receipts onReceipt has stored
  handed,    \* receipts answered with status 200
  closed     \* close() was called

senderVars == <<pc, payload, session>>
mapVars == <<open, hello, age>>
sinkVars == <<recorded, handed>>
vars == <<pc, payload, session, greeting, open, hello, age, attempt, recorded, handed, closed>>

Receipts == [session : SessionIds, source : Senders, intact : BOOLEAN,
             distinct : BOOLEAN, loopback : BOOLEAN, twoHost : BOOLEAN]

Init ==
  /\ pc = [s \in Senders |-> "idle"]
  /\ payload = [s \in Senders |-> "hashed"]
  /\ session = [s \in Senders |-> NoSession]
  /\ greeting = [s \in Senders |-> "none"]
  /\ open = {}
  /\ hello = [i \in SessionIds |-> NoSender]
  /\ age = [i \in SessionIds |-> 0]
  /\ attempt = [a \in Attempts |-> [stage |-> "none", from |-> NoSender]]
  /\ recorded = {}
  /\ handed = {}
  /\ closed = FALSE

-----------------------------------------------------------------------------
(* The receiver: the challenge handler.                                    *)

Expired(i) == age[i] >= challengeTtl

\* expireSessions
Unexpired == {i \in open : ~Expired(i)}

Full == Cardinality(Unexpired) >= maxSessions

\* A challenge request arrives: expire, check the capacity, start reading.
ChallengeArrives(s) ==
  /\ ~closed
  /\ greeting[s] = "sent"
  /\ open' = Unexpired
  /\ greeting' = [greeting EXCEPT ![s] = IF Full THEN "refused" ELSE "reading"]
  /\ UNCHANGED <<senderVars, hello, age, attempt, sinkVars, closed>>

\* The body cannot be read or parsed, or the hello is refused for its schema,
\* its fields or its size.
HelloRefused(s) ==
  /\ greeting[s] = "reading"
  /\ greeting' = [greeting EXCEPT ![s] = "refused"]
  /\ UNCHANGED <<senderVars, mapVars, attempt, sinkVars, closed>>

\* Mutant: the capacity is not looked at again once the body is there.
HelloReadNoRecheck(s) ==
  /\ greeting[s] = "reading"
  /\ \E i \in {j \in SessionIds : hello[j] = NoSender} :
       /\ open' = Unexpired \cup {i}
       /\ hello' = [hello EXCEPT ![i] = s]
       /\ age' = [age EXCEPT ![i] = 0]
       /\ greeting' = [greeting EXCEPT ![s] = "issued"]
  /\ UNCHANGED <<senderVars, attempt, sinkVars, closed>>

\* The body is read: expire and check the capacity again, then issue a session
\* with a fresh id.
HelloRead(s) ==
  /\ greeting[s] = "reading"
  /\ \/ /\ Full
        /\ open' = Unexpired
        /\ greeting' = [greeting EXCEPT ![s] = "refused"]
        /\ UNCHANGED <<hello, age>>
     \/ /\ ~Full
        /\ \E i \in {j \in SessionIds : hello[j] = NoSender} :
             /\ open' = Unexpired \cup {i}
             /\ hello' = [hello EXCEPT ![i] = s]
             /\ age' = [age EXCEPT ![i] = 0]
        /\ greeting' = [greeting EXCEPT ![s] = "issued"]
  /\ UNCHANGED <<senderVars, attempt, sinkVars, closed>>

-----------------------------------------------------------------------------
(* The receiver: the transfer handler.                                     *)

\* The request's MAC matches the transcript of the session it names.
AuthVerified(s) == s \in Paired /\ hello[session[s]] = s

\* Mutant: the session is only deleted once the body has been decrypted.
TransferArrivesKeepsSession(a, s) ==
  /\ ~closed
  /\ attempt[a].stage = "none"
  /\ session[s] # NoSession
  /\ \/ /\ session[s] \notin open \/ Expired(session[s])
        /\ open' = open \ {session[s]}
        /\ attempt' = [attempt EXCEPT ![a] = [stage |-> "refused", from |-> s]]
     \/ /\ session[s] \in open /\ ~Expired(session[s])
        /\ attempt' = [attempt EXCEPT ![a] =
             [stage |-> IF AuthVerified(s) THEN "body" ELSE "refused", from |-> s]]
        /\ open' = open
  /\ UNCHANGED <<senderVars, greeting, hello, age, sinkVars, closed>>

\* A transfer request of s arrives, up to the read of its body: an unknown or
\* expired session is dropped, a wrong MAC leaves the session as it was, and
\* an authenticated session is consumed.
TransferArrives(a, s) ==
  /\ ~closed
  /\ attempt[a].stage = "none"
  /\ session[s] # NoSession
  /\ \/ /\ session[s] \notin open \/ Expired(session[s])
        /\ open' = open \ {session[s]}
        /\ attempt' = [attempt EXCEPT ![a] = [stage |-> "refused", from |-> s]]
     \/ /\ session[s] \in open /\ ~Expired(session[s])
        /\ ~AuthVerified(s)
        /\ attempt' = [attempt EXCEPT ![a] = [stage |-> "refused", from |-> s]]
        /\ open' = open
     \/ /\ session[s] \in open /\ ~Expired(session[s])
        /\ AuthVerified(s)
        /\ open' = open \ {session[s]}
        /\ attempt' = [attempt EXCEPT ![a] = [stage |-> "body", from |-> s]]
  /\ UNCHANGED <<senderVars, greeting, hello, age, sinkVars, closed>>

\* The body is cut off, too long, or does not decrypt.
BodyFails(a) ==
  /\ attempt[a].stage = "body"
  /\ attempt' = [attempt EXCEPT ![a].stage = "over"]
  /\ open' = open \ {session[attempt[a].from]}
  /\ UNCHANGED <<senderVars, greeting, hello, age, sinkVars, closed>>

\* The receipt for a request of s, as computed before onReceipt is awaited.
receiptCore(s) ==
  LET intact == payload[s] = "hashed"
  IN [session  |-> session[s],
      source   |-> hello[session[s]],
      intact   |-> intact,
      distinct |-> s \notin SameHost,
      loopback |-> s \in ViaLoopback,
      twoHost  |-> intact /\ s \notin SameHost /\ s \notin ViaLoopback]

\* The body is read and decrypts; onReceipt is called.
BodyDecrypts(a) ==
  /\ attempt[a].stage = "body"
  /\ attempt' = [attempt EXCEPT ![a].stage = "sink"]
  /\ open' = open \ {session[attempt[a].from]}
  /\ UNCHANGED <<senderVars, greeting, hello, age, sinkVars, closed>>

\* Mutant: a failing sink does not keep the receipt from being answered.
SinkFailsAnswered(a) ==
  /\ attempt[a].stage = "sink"
  /\ attempt' = [attempt EXCEPT ![a].stage = "over"]
  /\ handed' = IF receiptCore(attempt[a].from).intact
                 THEN handed \cup {receiptCore(attempt[a].from)} ELSE handed
  /\ UNCHANGED <<senderVars, greeting, mapVars, recorded, closed>>

\* onReceipt throws: status 503, whether or not it had stored the receipt.
SinkFails(a) ==
  /\ attempt[a].stage = "sink"
  /\ attempt' = [attempt EXCEPT ![a].stage = "over"]
  /\ recorded' \in {recorded, recorded \cup {receiptCore(attempt[a].from)}}
  /\ UNCHANGED <<senderVars, greeting, mapVars, handed, closed>>

\* onReceipt returns: status 200 if the payload is intact, otherwise 422.
SinkRecords(a) ==
  /\ attempt[a].stage = "sink"
  /\ attempt' = [attempt EXCEPT ![a].stage = "over"]
  /\ recorded' = recorded \cup {receiptCore(attempt[a].from)}
  /\ handed' = IF receiptCore(attempt[a].from).intact
                 THEN handed \cup {receiptCore(attempt[a].from)} ELSE handed
  /\ UNCHANGED <<senderVars, greeting, mapVars, closed>>

-----------------------------------------------------------------------------
(* The receiver: time and close.                                           *)

\* Time passes for the outstanding sessions; beyond the limit it makes no
\* difference how long.
Tick ==
  /\ \E i \in open : ~Expired(i)
  /\ age' = [i \in SessionIds |-> IF i \in open /\ ~Expired(i) THEN age[i] + 1 ELSE age[i]]
  /\ UNCHANGED <<senderVars, greeting, open, hello, attempt, sinkVars, closed>>

\* Mutant: the interval expires nothing.
ExpiryTimerIdle ==
  /\ ~closed
  /\ open' = open
  /\ UNCHANGED <<senderVars, greeting, hello, age, attempt, sinkVars, closed>>

\* The interval timer runs expireSessions.
ExpiryTimer ==
  /\ ~closed
  /\ open' = Unexpired
  /\ UNCHANGED <<senderVars, greeting, hello, age, attempt, sinkVars, closed>>

\* close() stops the timer, clears the map and accepts no more requests;
\* handlers that are waiting go on.
Close ==
  /\ ~closed
  /\ closed' = TRUE
  /\ open' = {}
  /\ UNCHANGED <<senderVars, greeting, hello, age, attempt, sinkVars>>

-----------------------------------------------------------------------------
(* The senders.                                                            *)

\* sendTwoHostProof asks for a challenge.  A call whose payload is not the
\* one of stateHash, or whose other arguments are refused, throws before it
\* sends anything.
Send(s) ==
  /\ pc[s] = "idle"
  /\ pc' = [pc EXCEPT ![s] = "challenge"]
  /\ greeting' = [greeting EXCEPT ![s] = "sent"]
  /\ UNCHANGED <<payload, session, mapVars, attempt, sinkVars, closed>>

\* The caller overwrites its Buffer while the challenge is awaited: payload is
\* the caller's own Buffer and was hashed before.
PayloadChanges(s) ==
  /\ pc[s] = "challenge"
  /\ payload[s] = "hashed"
  /\ payload' = [payload EXCEPT ![s] = "changed"]
  /\ UNCHANGED <<pc, session, greeting, mapVars, attempt, sinkVars, closed>>

\* The challenge arrives; the payload is encrypted as it is now and sent.
ChallengeAnswered(s) ==
  /\ pc[s] = "challenge"
  /\ greeting[s] = "issued"
  /\ \E i \in SessionIds : hello[i] = s /\ session' = [session EXCEPT ![s] = i]
  /\ pc' = [pc EXCEPT ![s] = "transfer"]
  /\ UNCHANGED <<payload, greeting, mapVars, attempt, sinkVars, closed>>

\* Mutant: only the MAC and the integrity flag are checked.
ReceiptAcceptedAnySession(s, r) == s \in Paired /\ r.intact

\* What the sender checks of a receipt: its MAC, and that every field is the
\* one of this run.
ReceiptAccepted(s, r) ==
  /\ s \in Paired
  /\ r.session = session[s]
  /\ r.source = s
  /\ r.intact
  /\ r.distinct = (s \notin SameHost)
  /\ r.twoHost = (r.distinct /\ ~r.loopback)

\* An answer with status 200 arrives, the sender's own or not.
ReceiptArrives(s) ==
  /\ pc[s] = "transfer"
  /\ \E r \in handed :
       pc' = [pc EXCEPT ![s] = IF ReceiptAccepted(s, r) THEN "verified" ELSE "failed"]
  /\ UNCHANGED <<payload, session, greeting, mapVars, attempt, sinkVars, closed>>

\* An error status, a lost connection, or AbortSignal.timeout.
SendFails(s) ==
  /\ pc[s] \in {"challenge", "transfer"}
  /\ pc' = [pc EXCEPT ![s] = "failed"]
  /\ UNCHANGED <<payload, session, greeting, mapVars, attempt, sinkVars, closed>>

Next ==
  \/ \E s \in Senders : Send(s)
  \/ \E s \in Senders : PayloadChanges(s)
  \/ \E s \in Senders : ChallengeAnswered(s)
  \/ \E s \in Senders : ReceiptArrives(s)
  \/ \E s \in Senders : SendFails(s)
  \/ \E s \in Senders : ChallengeArrives(s)
  \/ \E s \in Senders : HelloRefused(s)
  \/ \E s \in Senders : HelloRead(s)
  \/ \E a \in Attempts, s \in Senders : TransferArrives(a, s)
  \/ \E a \in Attempts : BodyFails(a)
  \/ \E a \in Attempts : BodyDecrypts(a)
  \/ \E a \in Attempts : SinkFails(a)
  \/ \E a \in Attempts : SinkRecords(a)
  \/ Tick
  \/ ExpiryTimer
  \/ Close

\* Time passes and the interval timer keeps running.  Nothing is assumed of
\* the network, the senders or the sink.
Fairness == WF_vars(Tick) /\ WF_vars(ExpiryTimer)

Spec == Init /\ [][Next]_vars /\ Fairness

-----------------------------------------------------------------------------
(* Properties.                                                             *)

\* Types; in particular a receipt always names a session and its source.
TypeOK ==
  /\ pc \in [Senders -> {"idle", "challenge", "transfer", "verified", "failed"}]
  /\ payload \in [Senders -> {"hashed", "changed"}]
  /\ session \in [Senders -> SessionIds \cup {NoSession}]
  /\ greeting \in [Senders -> {"none", "sent", "reading", "issued", "refused"}]
  /\ open \subseteq SessionIds
  /\ hello \in [SessionIds -> Senders \cup {NoSender}]
  /\ age \in [SessionIds -> 0 .. challengeTtl]
  /\ attempt \in [Attempts -> [stage : {"none", "refused", "body", "sink", "over"},
                               from : Senders \cup {NoSender}]]
  /\ recorded \subseteq Receipts
  /\ handed \subseteq Receipts
  /\ closed \in BOOLEAN

\* The receiver never holds more than maxSessions sessions, although any
\* number of challenge requests may pass the first check before one of them
\* is done reading its body.
SessionsBounded == Cardinality(open) <= maxSessions

Authenticated(a) == attempt[a].stage \in {"body", "sink", "over"}

\* One authenticated session has one attempt: once a request has been
\* authenticated its session is not in the map again, and no other request is
\* ever authenticated for it, however the two were interleaved.
ConsumedOnce ==
  \A a \in Attempts : Authenticated(a) =>
    /\ session[attempt[a].from] \notin open
    /\ \A b \in Attempts :
         Authenticated(b) /\ session[attempt[b].from] = session[attempt[a].from] => a = b

\* Sessions are few and used once, although handlers await between the check
\* of a session and its use.
SessionsUsedOnce == SessionsBounded /\ ConsumedOnce

\* A sender that reports success holds the receipt of its own session, issued
\* for its own claims, over the bytes it hashed; the receiver has stored that
\* receipt; and it claims two hosts only if there were two.
VerifiedSound ==
  \A s \in Senders : pc[s] = "verified" =>
    /\ s \in Paired
    /\ payload[s] = "hashed"
    /\ [session |-> session[s], source |-> s, intact |-> TRUE,
        distinct |-> s \notin SameHost, loopback |-> s \in ViaLoopback,
        twoHost |-> s \notin SameHost /\ s \notin ViaLoopback] \in recorded

\* Every receipt answered with status 200 is in the audit sink, and so is
\* never lost when the receiver stops.
SinkBeforeSuccess == handed \subseteq recorded

\* A proof means what it says to the sender that reports it and to whoever
\* reads the audit sink.
ProofSound == VerifiedSound /\ SinkBeforeSuccess

\* A receiver at capacity takes challenges again, without anyone transferring:
\* the abandoned sessions expire.
CapacityRecovers ==
  (Cardinality(open) >= maxSessions) ~> (closed \/ Cardinality(open) < maxSessions)
=============================================================================
