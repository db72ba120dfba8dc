----------------------------- MODULE RowLocks ------------------------------
(***************************************************************************)
(* The row locks of the transactions that work on one run and one          *)
(* dialogue.  A transaction takes its locks one after the other, keeps     *)
(* them until it ends, and waits for a row another transaction holds.      *)
(* What the transactions write is the subject of ReviewExecution and       *)
(* FindingDialogue, where each is one step: here are the waits that step   *)
(* hides.  PostgreSQL locks the rows of FOR UPDATE OF x, y in this order,  *)
(* one by one, and sets no limit on a wait but the detection of a circle,  *)
(* which it breaks by aborting one of the transactions in it.              *)
(*                                                                         *)
(* Only locks on existing rows are modelled, as exclusive; the locks of    *)
(* foreign keys are on rows the transaction has locked itself.             *)
(***************************************************************************)
EXTENDS Naturals, Sequences

CONSTANT Session    \* database sessions

Table == {"execution", "run", "work", "model", "state", "turn", "attempt", "dialogue"}

Operations ==
  {"prepare_run", "end_run", "begin_call", "finish_call", "cancel_run",
   "admit_turn", "retry_turn", "claim_attempt", "end_turn", "decide", "reconcile"}

(* The rows each operation locks, in order.                                *)
PrepareRun == <<"execution", "run", "work">>        \* claim(), save_prepared()
EndRun == <<"execution", "run", "work">>            \* publish(), fail()
BeginCall == <<"work">>
FinishCall == <<"model">>
CancelRun == <<"run", "execution">>
AdmitTurn == <<"dialogue">>
RetryTurn == <<"dialogue", "turn">>
ClaimAttempt == <<"attempt">>       \* also begin_dialogue_model_attempt()
EndTurn == <<"turn", "attempt", "dialogue">>        \* publish_ and fail_external_dialogue()
DecideFinding == <<"state", "dialogue">>
Reconcile == <<"execution", "run", "work", "attempt", "turn", "dialogue">>

Locks(o) ==
  CASE o = "prepare_run" -> PrepareRun     [] o = "end_run" -> EndRun
    [] o = "begin_call" -> BeginCall       [] o = "finish_call" -> FinishCall
    [] o = "cancel_run" -> CancelRun       [] o = "admit_turn" -> AdmitTurn
    [] o = "retry_turn" -> RetryTurn       [] o = "claim_attempt" -> ClaimAttempt
    [] o = "end_turn" -> EndTurn           [] o = "decide" -> DecideFinding
    [] o = "reconcile" -> Reconcile

VARIABLES
  operation,     \* what each session executes, "none" between transactions
  taken          \* how many of its locks it has

lockVars == <<operation, taken>>

LocksInit ==
  /\ operation = [s \in Session |-> "none"]
  /\ taken = [s \in Session |-> 0]

Active(s) == operation[s] # "none"
Wants(s, row) ==
  /\ Active(s) /\ taken[s] < Len(Locks(operation[s]))
  /\ Locks(operation[s])[taken[s] + 1] = row
Holds(s, row) == Active(s) /\ \E i \in 1..taken[s] : Locks(operation[s])[i] = row

(* The row s needs next is held by t.                                      *)
WaitsFor(s, t) == s # t /\ \E row \in Table : Wants(s, row) /\ Holds(t, row)
Blocked(s) == \E t \in Session : WaitsFor(s, t)
WaitInCircle(S) ==
  \A s \in S : (\E t \in S : WaitsFor(s, t)) /\ (\E t \in S : WaitsFor(t, s))

Begin(s) ==
  /\ ~Active(s)
  /\ \E o \in Operations : operation' = [operation EXCEPT ![s] = o]
  /\ UNCHANGED taken

Take(s) ==
  /\ Active(s) /\ taken[s] < Len(Locks(operation[s]))
  /\ ~Blocked(s)
  /\ taken' = [taken EXCEPT ![s] = @ + 1]
  /\ UNCHANGED operation

(* A commit, or an early return or exception that rolls back.              *)
End(s) ==
  /\ Active(s) /\ ~Blocked(s)
  /\ operation' = [operation EXCEPT ![s] = "none"]
  /\ taken' = [taken EXCEPT ![s] = 0]

(* The deadlock detection of the database rolls one transaction of a       *)
(* circle back.                                                            *)
Abort(s) ==
  /\ \E S \in SUBSET Session : s \in S /\ WaitInCircle(S)
  /\ operation' = [operation EXCEPT ![s] = "none"]
  /\ taken' = [taken EXCEPT ![s] = 0]

LocksNext == \E s \in Session : Begin(s) \/ Take(s) \/ End(s) \/ Abort(s)

LocksSpec == LocksInit /\ [][LocksNext]_lockVars
-----------------------------------------------------------------------------
(* Properties. *)

(* A session has no more locks than its operation takes. *)
LocksTyped ==
  /\ operation \in [Session -> Operations \cup {"none"}]
  /\ taken \in [Session -> Nat]
  /\ \A s \in Session : Active(s) => taken[s] <= Len(Locks(operation[s]))
  /\ \A s \in Session : ~Active(s) => taken[s] = 0

(* data-model.md:38: publication and cancellation lock a run alike, and    *)
(* the transactions of a dialogue lock in one order, so that none of them  *)
(* ever wait for each other in a circle.  They do (run_deadlocks).         *)
NoDeadlock == \A S \in SUBSET Session : S # {} => ~WaitInCircle(S)

(* The pairs of operations that lock two rows in opposite orders.          *)
Crossing ==
  {{"cancel_run", "prepare_run"}, {"cancel_run", "end_run"}, {"cancel_run", "reconcile"},
   {"retry_turn", "end_turn"}, {"retry_turn", "reconcile"}, {"end_turn", "reconcile"}}

(* There is no other way to a deadlock: however long the circle and        *)
(* whichever operations are in it, two of them are a crossing pair.  Where *)
(* no such pair is under way, no transaction is ever aborted.              *)
OnlyCrossingsDeadlock ==
  \A S \in SUBSET Session : S # {} /\ WaitInCircle(S) =>
    \E pair \in Crossing : pair \subseteq {operation[s] : s \in S}
=============================================================================
