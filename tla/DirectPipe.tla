------------------------------ MODULE DirectPipe ------------------------------
(***************************************************************************)
(* A worker transport and a state port side by side.  The port reaches its *)
(* transports only through the contract that WorkerTransfer implements, so *)
(* the two share no variable: each step of the one leaves the other alone  *)
(* or is a step of both.                                                   *)
(***************************************************************************)
EXTENDS WorkerTransfer, KindredStatePort

DirectPipeSpec == Spec /\ PortSpec

\* Types of the transport, its capacity included, and of the state port.
TypesOK == TypeOK /\ PortTypeOK
=============================================================================
