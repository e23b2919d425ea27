---------------------------- MODULE MCWorkerTransfer ----------------------------
(***************************************************************************)
(* WorkerTransfer and, over its contract, KindredStatePort for TLC: calls  *)
(* of every kind and concurrent close().  `scenario` picks the component   *)
(* that runs; the other keeps still.                                       *)
(***************************************************************************)
EXTENDS DirectPipe

CONSTANTS t1, t2, t3, t4, t5, t6

VARIABLE scenario

MCRequest ==
  [t \in Transfers |->
     [verified |-> t # t5, supportsReference |-> t = t4, local |-> t # t6,
      hashMatches |-> TRUE, sizeAccepted |-> t # t3]]

MCInit == Init /\ PortInit /\ scenario \in {"transport", "port"}

MCNext ==
  /\ UNCHANGED scenario
  /\ \/ scenario = "transport" /\ Next /\ UNCHANGED portVars
     \/ scenario = "port" /\ PortNext /\ UNCHANGED vars

MCSpec == MCInit /\ [][MCNext]_<<vars, portVars, scenario>> /\ Fairness /\ PortFairness
=============================================================================
