------------------------------ MODULE TransferLedger ------------------------------
(***************************************************************************)
(* What a worker transfer promises its caller: a call that is taken is     *)
(* settled exactly once, successes come only from a transport that has not *)
(* failed, and a failure is final and settles everything outstanding.      *)
(***************************************************************************)
EXTENDS Naturals, FiniteSets

CONSTANTS
  Calls,        \* the calls of transfer()
  maxInflight   \* how many of them may be outstanding

VARIABLES
  call,         \* state of each call's promise
  closed        \* the transport has failed or was closed

ledgerVars == <<call, closed>>

Outstanding == {r \in Calls : call[r] = "pending"}

LedgerInit ==
  /\ call = [r \in Calls |-> "idle"]
  /\ closed = FALSE

Refuse(r) ==
  /\ call[r] = "idle"
  /\ call' = [call EXCEPT ![r] = "rejected"]
  /\ UNCHANGED closed

Take(r) ==
  /\ call[r] = "idle"
  /\ ~closed
  /\ Cardinality(Outstanding) < maxInflight
  /\ call' = [call EXCEPT ![r] = "pending"]
  /\ UNCHANGED closed

Resolve(r) ==
  /\ call[r] = "pending"
  /\ ~closed
  /\ call' = [call EXCEPT ![r] = "resolved"]
  /\ UNCHANGED closed

\* Everything outstanding is rejected at once; calls in `alsoTaken` are taken
\* and rejected in the same step.
FailStop(alsoTaken) ==
  /\ ~closed
  /\ closed' = TRUE
  /\ \A r \in alsoTaken : call[r] = "idle"
  /\ call' = [r \in Calls |->
                IF r \in Outstanding \cup alsoTaken THEN "rejected" ELSE call[r]]

LedgerNext ==
  \/ \E r \in Calls : Refuse(r) \/ Take(r) \/ Resolve(r)
  \/ \E S \in {{}} \cup {{r} : r \in Calls} : FailStop(S)

LedgerSafety == LedgerInit /\ [][LedgerNext]_ledgerVars

LedgerLiveness == \A r \in Calls : (call[r] = "pending") ~> (call[r] # "pending")

LedgerSpec == LedgerSafety /\ LedgerLiveness
=============================================================================
