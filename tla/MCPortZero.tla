------------------------------ MODULE MCPortZero ------------------------------
(***************************************************************************)
(* What Port Zero keeps, for TLC, in six scenarios.                        *)
(*                                                                         *)
(* directory: two revisions of one owner that overlap in time (the later   *)
(* one short-lived), a conflicting record, and other owners.  namespace:   *)
(* the operator's tool and a directory that gets its manifests.  sites:    *)
(* the portal's site files.  dispatch: one envelope dispatched twice, the  *)
(* first time with a retry, and another one under the same key.  chains:   *)
(* the two hash chains.  routes: a route over two targets and a direct one, *)
(* while the registration of a target changes hands.                       *)
(***************************************************************************)
EXTENDS PortZero

CONSTANTS alice, bob, carol, Scenarios

VARIABLE scenario

Doc(o, rev, from, until, target) ==
  [owner |-> o, signer |-> o, revision |-> rev, issuedAt |-> from,
   expiresAt |-> until, entries |-> {<<"portal", target>>}]

PresentedRecords ==
  {Doc(alice, 1, 0, 4, alice), Doc(alice, 2, 0, 2, bob), Doc(alice, 2, 1, 3, carol),
   Doc(alice, 3, 2, 3, alice), Doc(bob, 1, 0, 2, bob), Doc(bob, 2, 1, 4, carol),
   Doc(carol, 1, 1, 3, carol), Doc(carol, 2, 0, 5, carol)}
    \cup {[Doc(alice, 4, 0, 3, carol) EXCEPT !.signer = carol]}

Command(id, action, name, target) ==
  [id |-> id, action |-> action, name |-> name, targetPort |-> target]

Commands ==
  {Command(1, "init", "portal", alice), Command(2, "bind", "portal", bob),
   Command(3, "bind", "api", carol), Command(4, "renew", "portal", alice)}

SlugOf == [r \in Requests |-> IF r \in {"r1", "r2"} THEN "blog" ELSE r]

Sent(message, nonce, destinations, mode) ==
  [message_id |-> message, idempotency_key |-> "k1", nonce |-> nonce,
   destination_ports |-> destinations, route_mode |-> mode]

EnvelopeOf ==
  [c \in Calls |-> IF c = "c3" THEN Sent("m2", "n2", {"p"}, "direct")
                   ELSE Sent("m1", "n1", {"p", "q"}, "multicast")]

TransactionOf == [s \in Submissions |-> IF s = "s3" THEN "t2" ELSE "t1"]

Calling(id, message, callback) == [id |-> id, message |-> message, callback |-> callback]

MCAppends ==
  {Calling(1, "m1", "cb1"), Calling(2, "m1", "cb1"), Calling(3, "m1", "none"),
   Calling(4, "m2", "cb2")}

Registration(port, authority, accepts) ==
  [port_id |-> port, authority |-> authority, accepts |-> accepts]

MCRegistrations ==
  {Registration("x", "A", TRUE), Registration("x", "B", FALSE), Registration("y", "A", TRUE)}

Withdrawal(id, authority) == [id |-> id, port_id |-> "x", authority |-> authority]

MCWithdrawals == {Withdrawal(1, "A"), Withdrawal(2, "A")}

RouteOf ==
  [r \in Routes |->
     IF r = "direct" THEN [route_mode |-> "direct", route_targets |-> <<"x">>]
     ELSE [route_mode |-> "multicast", route_targets |-> <<"x", "y">>]]

pythonVars == <<dispatchVars, chainVars, routeVars>>

MCInit ==
  /\ scenario \in Scenarios
  /\ Init /\ NamespaceInit /\ SitesInit /\ DispatchInit /\ ChainsInit
  /\ RoutesInit
  /\ scenario # "directory" => portNames

\* Any three of the four invocations of the tool, at most two of them at once,
\* and the clock stops when a manifest signed at the start expires.
NamespaceBound ==
  /\ clock' <= Lifetime
  /\ Cardinality({i \in Invocations : Running(i)'}) <= 2
  /\ \E i \in Invocations : invocation'[i].at = "idle"

\* Only c1 tries again, and a backup is taken only where c3 plays no part.
DispatchBound ==
  /\ call'["c2"].attempt <= 1 /\ call'["c3"].attempt <= 1
  /\ saved' # {} => call'["c3"].at = "new"

\* Routes share nothing but the directory: one of them is executed.
OneRoute == Cardinality({r \in Routes : route'[r].at # "new"}) <= 1

MCNext ==
  /\ \/ /\ scenario = "directory" /\ Next
        /\ UNCHANGED <<namespaceVars, siteVars, pythonVars>>
     \/ /\ scenario = "namespace" /\ NamespaceNext /\ NamespaceBound
        /\ UNCHANGED <<siteVars, pythonVars>>
     \/ /\ scenario = "sites" /\ SitesNext
        /\ UNCHANGED <<vars, namespaceVars, pythonVars>>
     \/ /\ scenario = "dispatch" /\ DispatchNext /\ DispatchBound
        /\ UNCHANGED <<vars, namespaceVars, siteVars, chainVars, routeVars>>
     \/ /\ scenario = "chains"
        /\ \/ LifecycleStep /\ \A a \in Appends : append[a].at = "new"
           \/ LedgerStep /\ events = <<>> /\ \A t \in Transactions : projection[t] = {}
        /\ UNCHANGED <<vars, namespaceVars, siteVars, dispatchVars, routeVars>>
     \/ /\ scenario = "routes" /\ RoutesNext /\ OneRoute
        /\ UNCHANGED <<vars, namespaceVars, siteVars, dispatchVars, chainVars>>
  /\ UNCHANGED scenario

MCSpec ==
  MCInit /\ [][MCNext]_<<vars, namespaceVars, siteVars, pythonVars, scenario>>
=============================================================================
