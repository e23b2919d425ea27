----------------------------- MODULE EventChains -----------------------------
(***************************************************************************)
(* The two append-only hash chains of the Python network: LifecycleStore   *)
(* under PortZeroNetwork.submit (strata_network.py), which reads the end   *)
(* of the chain inside its transaction, and CommunicationLedger.append     *)
(* (communications.py), which reads it before.                             *)
(*                                                                         *)
(* Processes share one database.  A row's hash stands for the row's place  *)
(* in its table, 0 for the missing hash before a first row.  What an event *)
(* says apart from its links is left out, but for the status.              *)
(***************************************************************************)
EXTENDS Integers, Sequences, FiniteSets

CONSTANTS
  Transactions,
  Submissions,     \* calls of submit
  transactionOf,   \* the transaction id of each
  MessageIds,
  Appends,         \* calls of append: [id, message, callback]
  NoCallback       \* callback_id None

\* What submit records, one transition per transaction; every route ends
\* blocked, for want of a destination or of a dispatcher.
Lifecycle == <<"received", "identity_resolved", "policy_checked", "classified", "failed">>

Statuses == {Lifecycle[i] : i \in DOMAIN Lifecycle}

Projection == [version : Nat, last : Nat, status : Statuses]

ASSUME ChainsAssumption ==
  /\ transactionOf \in [Submissions -> Transactions]
  /\ \A a \in Appends : a.message \in MessageIds

VARIABLES
  projection,  \* strata_transactions: a set of at most one row for each id
  events,      \* strata_events: [transaction, sequence, previous, status]
  submission,  \* transitions each call of submit has made; -1 before its row,
               \* -2 once it has ended
  messages,    \* communication_events: [message, callback, previous]
  append,      \* where each call of append stands: [at, prior, row]
  interleaved  \* history: messages with two calls of append at work at once

chainVars == <<projection, events, submission, messages, append, interleaved>>

\* The places of the rows of a table that satisfy a test, and the last one.
EventsOf(t) == {i \in DOMAIN events : events[i].transaction = t}
MessagesOf(m) == {i \in DOMAIN messages : messages[i].message = m}
LastOf(places) == IF places = {} THEN 0 ELSE CHOOSE i \in places : \A j \in places : j <= i

-----------------------------------------------------------------------------
(* LifecycleStore under submit.                                            *)

\* create, first transaction: the row is inserted unless the id is taken.
CreateTransaction(s) ==
  LET t == transactionOf[s]
  IN /\ submission[s] = -1
     /\ projection[t] = {}
     /\ projection' = [projection EXCEPT ![t] = {[version |-> 0, last |-> 0, status |-> "received"]}]
     /\ submission' = [submission EXCEPT ![s] = 0]
     /\ UNCHANGED <<events, messages, append, interleaved>>

\* Mutant: the event is linked to the end of the whole table.
TransitionMislinked(s) ==
  LET t == transactionOf[s]
      status == Lifecycle[submission[s] + 1]
  IN /\ submission[s] \in 0 .. Len(Lifecycle) - 1
     /\ \E row \in projection[t] :
          /\ events' = Append(events, [transaction |-> t, sequence |-> row.version + 1,
                                       previous |-> Len(events), status |-> status])
          /\ projection' = [projection EXCEPT ![t] =
               {[version |-> row.version + 1, last |-> Len(events) + 1, status |-> status]}]
     /\ submission' = [submission EXCEPT ![s] = @ + 1]
     /\ UNCHANGED <<messages, append, interleaved>>

\* transition: event and projection in one transaction.
Transition(s) ==
  LET t == transactionOf[s]
      status == Lifecycle[submission[s] + 1]
  IN /\ submission[s] \in 0 .. Len(Lifecycle) - 1
     /\ \E row \in projection[t] :
          /\ events' = Append(events, [transaction |-> t, sequence |-> row.version + 1,
                                       previous |-> row.last, status |-> status])
          /\ projection' = [projection EXCEPT ![t] =
               {[version |-> row.version + 1, last |-> Len(events) + 1, status |-> status]}]
     /\ submission' = [submission EXCEPT ![s] = @ + 1]
     /\ UNCHANGED <<messages, append, interleaved>>

\* The envelope is refused, the row exists, or the process ends.
SubmissionEnds(s) ==
  /\ submission[s] \in -1 .. Len(Lifecycle) - 1
  /\ submission' = [submission EXCEPT ![s] = -2]
  /\ UNCHANGED <<projection, events, messages, append, interleaved>>

\* LifecycleStore.verify
verifyLifecycle(t) ==
  LET mine == EventsOf(t)
  IN /\ mine # {}
     /\ \A i \in mine :
          LET before == {j \in mine : j < i}
          IN /\ events[i].sequence = Cardinality(before) + 1
             /\ events[i].previous = LastOf(before)
     /\ \A row \in projection[t] : row.version = Cardinality(mine) /\ row.last = LastOf(mine)

-----------------------------------------------------------------------------
(* CommunicationLedger.                                                    *)

Appending(a) == append[a].at = "read"

\* append up to _validate: the prior events are read and checked.
ReadPrior(a) ==
  /\ append[a].at = "new"
  /\ append' = [append EXCEPT ![a].at = "read", ![a].prior = LastOf(MessagesOf(a.message))]
  /\ interleaved' = interleaved \cup
       {a.message : b \in {b \in Appends : Appending(b) /\ b.message = a.message}}
  /\ UNCHANGED <<projection, events, submission, messages>>

TakenBy(a) == {i \in DOMAIN messages : messages[i].callback = a.callback /\ a.callback # NoCallback}

\* Mutant: the event is linked to the first one of its message.
InsertEventAtStart(a) ==
  /\ Appending(a)
  /\ TakenBy(a) = {}
  /\ messages' = Append(messages, [message |-> a.message, callback |-> a.callback,
                                   previous |-> IF append[a].prior = 0 THEN 0 ELSE 1])
  /\ append' = [append EXCEPT ![a].at = "done", ![a].row = Len(messages) + 1]
  /\ UNCHANGED <<projection, events, submission, interleaved>>

\* The event is inserted with the hash that was read.
InsertEvent(a) ==
  /\ Appending(a)
  /\ TakenBy(a) = {}
  /\ messages' = Append(messages, [message |-> a.message, callback |-> a.callback,
                                   previous |-> append[a].prior])
  /\ append' = [append EXCEPT ![a].at = "done", ![a].row = Len(messages) + 1]
  /\ UNCHANGED <<projection, events, submission, interleaved>>

\* Mutant: a callback that was seen before is stored again.
ReturnStoredTwice(a) ==
  /\ Appending(a)
  /\ TakenBy(a) # {}
  /\ messages' = Append(messages, [message |-> a.message, callback |-> a.callback,
                                   previous |-> append[a].prior])
  /\ append' = [append EXCEPT ![a].at = "done", ![a].row = Len(messages) + 1]
  /\ UNCHANGED <<projection, events, submission, interleaved>>

\* The callback is stored already: the stored event is returned.
ReturnStored(a) ==
  /\ Appending(a)
  /\ append' = [append EXCEPT ![a].at = "done", ![a].row = LastOf(TakenBy(a))]
  /\ TakenBy(a) # {}
  /\ UNCHANGED <<projection, events, submission, messages, interleaved>>

\* _validate refuses the state, or the process ends.
AppendEnds(a) ==
  /\ append[a].at \in {"new", "read"}
  /\ append' = [append EXCEPT ![a].at = "ended"]
  /\ UNCHANGED <<projection, events, submission, messages, interleaved>>

\* CommunicationLedger.verify
verifyMessages(m) ==
  \A i \in MessagesOf(m) : messages[i].previous = LastOf({j \in MessagesOf(m) : j < i})

-----------------------------------------------------------------------------

ChainsInit ==
  /\ projection = [t \in Transactions |-> {}]
  /\ events = <<>>
  /\ submission = [s \in Submissions |-> -1]
  /\ messages = <<>>
  /\ append = [a \in Appends |-> [at |-> "new", prior |-> 0, row |-> 0]]
  /\ interleaved = {}

LifecycleStep ==
  \E s \in Submissions : CreateTransaction(s) \/ Transition(s) \/ SubmissionEnds(s)

LedgerStep ==
  \E a \in Appends : \/ ReadPrior(a) \/ InsertEvent(a) \/ ReturnStored(a)
                     \/ AppendEnds(a)

ChainsSpec == ChainsInit /\ [][LifecycleStep \/ LedgerStep]_chainVars

-----------------------------------------------------------------------------
(* Properties.                                                             *)

\* The chain of every transaction verifies at every moment, wherever its
\* process ends and however transactions interleave in the table, except
\* between the two transactions of create: a process that ends there leaves
\* a transaction that never verifies.
LifecycleVerifies ==
  \A t \in Transactions : \A row \in projection[t] :
    \/ verifyLifecycle(t)
    \/ /\ EventsOf(t) = {} /\ row.version = 0
       /\ \E s \in Submissions : transactionOf[s] = t /\ submission[s] \in {0, -2}

\* The chain of a message verifies unless two calls of append for it were at
\* work at once: then both may have read the same end of the chain.
MessagesVerify == \A m \in MessageIds \ interleaved : verifyMessages(m)

\* A callback is recorded once, and each of its deliveries that is answered
\* gets that record, also when deliveries race.
CallbackOnce ==
  /\ \A i, j \in DOMAIN messages :
       messages[i].callback = messages[j].callback => i = j \/ messages[i].callback = NoCallback
  /\ \A a \in Appends :
       append[a].at = "done" => messages[append[a].row].callback = a.callback

\* Both chains verify, and answer callbacks once, up to the two races their
\* code leaves open.
ChainsSound == LifecycleVerifies /\ MessagesVerify /\ CallbackOnce
=============================================================================
