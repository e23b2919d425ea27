--------------------------- MODULE RouteExecution ---------------------------
(***************************************************************************)
(* The production routes of the Python network (strata_network.py): the    *)
(* PortDirectory with its registrations, RouteExecutionEngine.execute,     *)
(* which sends a child of an envelope to one target after the other and    *)
(* tries each a few times, and the ExternalExecutionPort that runs it.     *)
(*                                                                         *)
(* Unlike the ports of PortZeroDispatch these claim no nonce: a child runs *)
(* as often as it is delivered.  The dispatcher is only an interface: an   *)
(* attempt that raised may have run, or may run later.  Route calls and    *)
(* withdrawals of registrations are processes that share the database and  *)
(* may end at any point.  Payloads and their disclosure are left out, and  *)
(* a registration stands for its authority and for whether resolve lets    *)
(* the envelope through (readiness, health, capability, classification).   *)
(* The receipts of a call are a local list: they reach its caller when it  *)
(* returns and are lost when it raises, whatever they say.                 *)
(***************************************************************************)
EXTENDS Naturals, Sequences, FiniteSets

CONSTANTS
  Targets,        \* port ids
  Registrations,  \* arguments of register: [port_id, authority, accepts]
  Withdrawals,    \* calls of deregister: [id, port_id, authority]
  Routes,         \* calls of execute
  routeOf,        \* the envelope of each: [route_mode, route_targets]
  routeAttempts,  \* max_attempts of the engine
  Unregistered

ASSUME RoutesAssumption ==
  /\ Registrations \subseteq [port_id : Targets, authority : STRING, accepts : BOOLEAN]
  /\ \A d \in Withdrawals : d.port_id \in Targets /\ d.authority \in STRING
  /\ routeOf \in [Routes -> [route_mode : {"direct", "split", "multicast"},
                             route_targets : Seq(Targets)]]
  /\ routeAttempts \in Nat \ {0}
  /\ Unregistered \notin Registrations

VARIABLES
  portDirectory,  \* the table port_directory
  withdrawal,     \* where each call of deregister stands
  overtaken,      \* history: withdrawals whose checked registration is gone
  route,          \* where each call of execute stands:
                  \* [at, index, attempt, receipts, complete, partial]
  sent,           \* children on their way: [route, index, attempt]
  answers,        \* signed receipts on their way back
  ran,            \* how often the destination ran each child
  deadLetters,    \* the table strata_dead_letters: <<route, target>>
  givenUp         \* history: <<route, index>> with an attempt that raised

routeVars ==
  <<portDirectory, withdrawal, overtaken, route, sent, answers, ran, deadLetters, givenUp>>
engineVars == <<route, sent, answers, ran, deadLetters, givenUp>>

targetsOf(r) == routeOf[r].route_targets
targetOf(r) == targetsOf(r)[route[r].index]

-----------------------------------------------------------------------------
(* PortDirectory.                                                          *)

\* register: the port id is the primary key.
RegisterPort(g) ==
  /\ portDirectory[g.port_id] = Unregistered
  /\ portDirectory' = [portDirectory EXCEPT ![g.port_id] = g]
  /\ UNCHANGED <<withdrawal, overtaken, engineVars>>

\* Mutant: whoever asks may withdraw a port.
CheckAuthorityOfAnyone(d) ==
  /\ withdrawal[d] = "new"
  /\ portDirectory[d.port_id] # Unregistered
  /\ withdrawal' = [withdrawal EXCEPT ![d] = "checked"]
  /\ UNCHANGED <<portDirectory, overtaken, engineVars>>

\* deregister up to its transaction: the registration is read and checked.
CheckAuthority(d) ==
  /\ withdrawal[d] = "new"
  /\ portDirectory[d.port_id] # Unregistered
  /\ portDirectory[d.port_id].authority = d.authority
  /\ withdrawal' = [withdrawal EXCEPT ![d] = "checked"]
  /\ UNCHANGED <<portDirectory, overtaken, engineVars>>

\* The transaction of deregister deletes whatever the id names by now.
DeletePort(d) ==
  /\ withdrawal[d] = "checked"
  /\ withdrawal' = [withdrawal EXCEPT ![d] = "done"]
  /\ portDirectory' = [portDirectory EXCEPT ![d.port_id] = Unregistered]
  /\ overtaken' = overtaken \cup {e \in Withdrawals : e # d /\ e.port_id = d.port_id
                                                      /\ withdrawal[e] = "checked"}
  /\ UNCHANGED engineVars

\* PortDirectory.resolve
Resolves(p) == portDirectory[p] # Unregistered /\ portDirectory[p].accepts

-----------------------------------------------------------------------------
(* RouteExecutionEngine.execute.                                           *)

\* direct demands one target, split and multicast two or more.
BeginRoute(r) ==
  /\ route[r].at = "new"
  /\ IF routeOf[r].route_mode = "direct" THEN Len(targetsOf(r)) = 1
     ELSE Len(targetsOf(r)) >= 2
  /\ route' = [route EXCEPT ![r].at = "resolving"]
  /\ UNCHANGED <<portDirectory, withdrawal, overtaken, sent, answers, ran, deadLetters, givenUp>>

Child(r, attempt) == [route |-> r, index |-> route[r].index, attempt |-> attempt]

\* resolve lets the next target through and the first attempt is sent.
ResolveTarget(r) ==
  /\ route[r].at = "resolving"
  /\ Resolves(targetOf(r))
  /\ route' = [route EXCEPT ![r].at = "dispatching", ![r].attempt = 1]
  /\ sent' = sent \cup {Child(r, 1)}
  /\ UNCHANGED <<portDirectory, withdrawal, overtaken, answers, ran, deadLetters, givenUp>>

\* resolve raises, and the receipts gathered so far are lost.
ResolveRaises(r) ==
  /\ route[r].at = "resolving"
  /\ ~Resolves(targetOf(r))
  /\ route' = [route EXCEPT ![r].at = "raised", ![r].receipts = <<>>]
  /\ UNCHANGED <<portDirectory, withdrawal, overtaken, sent, answers, ran, deadLetters, givenUp>>

\* ExternalExecutionPort.execute: a blocked destination answers "failed"
\* without running the child.
ExecuteChild(c, port_status) ==
  /\ c \in sent
  /\ sent' = sent \ {c}
  /\ ran' = IF port_status = "completed"
            THEN [ran EXCEPT ![c.route][targetsOf(c.route)[c.index]] = @ + 1]
            ELSE ran
  /\ answers' = answers \cup {<<c, port_status>>}
  /\ UNCHANGED <<portDirectory, withdrawal, overtaken, route, deadLetters, givenUp>>

\* The dispatcher returns the receipt of the current attempt.
DispatcherReturns(r, port_status) ==
  /\ route[r].at = "dispatching"
  /\ <<Child(r, route[r].attempt), port_status>> \in answers
  /\ LET last == route[r].index = Len(targetsOf(r))
     IN route' = [route EXCEPT ![r].at = IF last THEN "reconciling" ELSE "resolving",
                               ![r].index = IF last THEN @ ELSE @ + 1,
                               ![r].receipts = Append(@, port_status)]
  /\ UNCHANGED <<portDirectory, withdrawal, overtaken, sent, answers, ran, deadLetters, givenUp>>

\* The dispatcher raises, whatever became of the attempt.
DispatcherRaises(r) ==
  LET next == route[r].attempt + 1
  IN /\ route[r].at = "dispatching"
     /\ givenUp' = givenUp \cup {<<r, route[r].index>>}
     /\ IF next <= routeAttempts
        THEN /\ route' = [route EXCEPT ![r].attempt = next]
             /\ sent' = sent \cup {Child(r, next)}
        ELSE route' = [route EXCEPT ![r].at = "exhausted"] /\ UNCHANGED sent
     /\ UNCHANGED <<portDirectory, withdrawal, overtaken, answers, ran, deadLetters>>

\* Mutant: the call raises and leaves no dead letter.
PersistDeadLetterNever(r) ==
  /\ route[r].at = "exhausted"
  /\ route' = [route EXCEPT ![r].at = "raised", ![r].receipts = <<>>]
  /\ UNCHANGED <<portDirectory, withdrawal, overtaken, sent, answers, ran, deadLetters, givenUp>>

\* The dead letter of the target is stored and the call raises: the receipts
\* of the targets before it are lost.
PersistDeadLetter(r) ==
  /\ route[r].at = "exhausted"
  /\ deadLetters' = deadLetters \cup {<<r, targetOf(r)>>}
  /\ route' = [route EXCEPT ![r].at = "raised", ![r].receipts = <<>>]
  /\ UNCHANGED <<portDirectory, withdrawal, overtaken, sent, answers, ran, givenUp>>

\* Mutant: one completed receipt makes the route complete.
ReconcileAny(r, status) ==
  LET Completed(i) == route[r].receipts[i] = "completed"
      complete == (\E i \in DOMAIN route[r].receipts : Completed(i)) /\ status = "reconciled"
  IN /\ route[r].at = "reconciling"
     /\ route' = [route EXCEPT
          ![r].at = "returned", ![r].complete = complete,
          ![r].partial = (\E i \in DOMAIN route[r].receipts : Completed(i)) /\ ~complete]
     /\ UNCHANGED <<portDirectory, withdrawal, overtaken, sent, answers, ran, deadLetters, givenUp>>

\* reconcile decides and the result is returned.
Reconcile(r, status) ==
  LET Completed(i) == route[r].receipts[i] = "completed"
      complete == (\A i \in DOMAIN route[r].receipts : Completed(i)) /\ status = "reconciled"
  IN /\ route[r].at = "reconciling"
     /\ route' = [route EXCEPT
          ![r].at = "returned", ![r].complete = complete,
          ![r].partial = (\E i \in DOMAIN route[r].receipts : Completed(i)) /\ ~complete]
     /\ UNCHANGED <<portDirectory, withdrawal, overtaken, sent, answers, ran, deadLetters, givenUp>>

\* reconcile raises, as the one of the repository does once it is connected:
\* every receipt of the call is lost.
ReconcileRaises(r) ==
  /\ route[r].at = "reconciling"
  /\ route' = [route EXCEPT ![r].at = "unreconciled", ![r].receipts = <<>>]
  /\ UNCHANGED <<portDirectory, withdrawal, overtaken, sent, answers, ran, deadLetters, givenUp>>

\* The process of the call ends.
RouteProcessEnds(r) ==
  /\ route[r].at \notin {"new", "returned", "raised", "unreconciled", "gone"}
  /\ route' = [route EXCEPT ![r].at = "gone", ![r].receipts = <<>>]
  /\ UNCHANGED <<portDirectory, withdrawal, overtaken, sent, answers, ran, deadLetters, givenUp>>

-----------------------------------------------------------------------------

RoutesInit ==
  /\ portDirectory = [p \in Targets |-> Unregistered]
  /\ withdrawal = [d \in Withdrawals |-> "new"]
  /\ overtaken = {}
  /\ route = [r \in Routes |-> [at |-> "new", index |-> 1, attempt |-> 0, receipts |-> <<>>,
                                complete |-> FALSE, partial |-> FALSE]]
  /\ sent = {} /\ answers = {}
  /\ ran = [r \in Routes |-> [p \in Targets |-> 0]]
  /\ deadLetters = {} /\ givenUp = {}

DirectoryStep ==
  \/ \E g \in Registrations : RegisterPort(g)
  \/ \E d \in Withdrawals : CheckAuthority(d) \/ DeletePort(d)

EngineStep ==
  \/ \E r \in Routes : \/ BeginRoute(r) \/ ResolveTarget(r) \/ ResolveRaises(r)
                       \/ DispatcherRaises(r) \/ PersistDeadLetter(r)
                       \/ ReconcileRaises(r) \/ RouteProcessEnds(r)
  \/ \E r \in Routes, s \in {"completed", "failed"} : DispatcherReturns(r, s)
  \/ \E r \in Routes, s \in {"reconciled", "blocked"} : Reconcile(r, s)
  \/ \E c \in sent, s \in {"completed", "failed"} : ExecuteChild(c, s)

RoutesNext == DirectoryStep \/ EngineStep

RoutesSpec == RoutesInit /\ [][RoutesNext]_routeVars

-----------------------------------------------------------------------------
(* Properties.                                                             *)

\* A registration is deleted by a withdrawal in the name of its authority.
\* The check and the deletion are not one transaction: a withdrawal that was
\* overtaken by another one and a new registration deletes the new one.
WithdrawnByItsAuthority ==
  [][\A d \in Withdrawals :
       /\ withdrawal[d] = "checked" /\ withdrawal'[d] = "done"
       /\ portDirectory[d.port_id] # Unregistered
       => d \in overtaken \/ portDirectory[d.port_id].authority = d.authority]_routeVars

\* What execute returns agrees with what the destinations did: a complete
\* route ran at every target, and a target that ran without a completed
\* receipt is one that was tried again.
ResultTruthful ==
  \A r \in Routes : route[r].at = "returned" =>
    /\ Len(route[r].receipts) = Len(targetsOf(r))
    /\ route[r].complete => \A p \in {targetsOf(r)[i] : i \in DOMAIN targetsOf(r)} : ran[r][p] > 0
    /\ \A i \in DOMAIN targetsOf(r) : ran[r][targetsOf(r)[i]] > 0 =>
         \E j \in DOMAIN targetsOf(r) :
           /\ targetsOf(r)[j] = targetsOf(r)[i]
           /\ route[r].receipts[j] = "completed" \/ <<r, j>> \in givenUp

\* The receipt for target p was in hand when the call raised, so that neither
\* its caller nor the database has it: p comes before the target at which the
\* call gave up, or reconcile raised after all of them.
ReceiptLost(r, p) ==
  \E i \in DOMAIN targetsOf(r) :
    /\ targetsOf(r)[i] = p
    /\ \/ route[r].at = "raised" /\ i < route[r].index
       \/ route[r].at = "unreconciled"

\* What a call that did not die with its process leaves behind of a target that
\* ran: a receipt with the call (returned to its caller, or gathered by now), a
\* dead letter, the attempt the call is at, or nothing, and then only because
\* a receipt was lost.  The target a call gave up on always has its dead
\* letter if it ran, so a direct route loses an effect only when reconcile
\* raises.
EffectsAccounted ==
  \A r \in Routes, p \in Targets :
    ran[r][p] > 0 /\ route[r].at # "gone" =>
      \/ \E i \in DOMAIN route[r].receipts : targetsOf(r)[i] = p
      \/ <<r, p>> \in deadLetters
      \/ route[r].at \in {"dispatching", "exhausted"} /\ targetOf(r) = p
      \/ ReceiptLost(r, p)

\* A result never claims more than happened, and what ran without the result
\* or a dead letter saying so is exactly what the exceptions of execute cost:
\* the receipts of the targets served before the one that raised.
RoutesSound == ResultTruthful /\ EffectsAccounted
=============================================================================
