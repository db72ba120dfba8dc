-------------------------- MODULE ReviewExecution --------------------------
(***************************************************************************)
(* The execution of review runs: the coordinator of an API process         *)
(* (AsyncExecutionCoordinator), the short database transactions it drives  *)
(* (PostgresReviewExecutionStorage), cancellation by a client, and the     *)
(* takeover of a deployment by a new process (PostgresReviewPlatform).     *)
(*                                                                         *)
(* A transaction is one action: it locks the execution and run rows, tests *)
(* them and commits.  A run stands for the idempotency key of the request  *)
(* that created it: a second request with the key is a replay of the run.  *)
(* Everything a coordinator awaits between two transactions is a place     *)
(* where cancellation, shutdown, a crash or a takeover may come in.        *)
(***************************************************************************)
EXTENDS Naturals

CONSTANTS
  Run,              \* runs, each the run of one idempotency key
  Proc,             \* API processes
  NoProc,           \* "no process": a NULL lease, a free deployment lock
  Faulty,           \* processes whose database calls may raise (commit lost or landed)
  UnknownCommits    \* may the COMMIT of a publication go unanswered?

ASSUME NoProcAssumption == NoProc \notin Proc
ASSUME FaultsAssumption == Faulty \subseteq Proc /\ UnknownCommits \in BOOLEAN

VARIABLES
  run,      \* review_runs.state of each run, "absent" before it is admitted
  exec,     \* review_run_executions.state
  item,     \* review_work_items.state
  lease,    \* review_run_executions.lease_token, as the process that drew it
  error,    \* the public error code stored with a failed run
  reports,  \* how many review_reports rows the run has
  late,     \* has clock_timestamp() passed the run's deadline_at?
  doubt,    \* runs whose publication COMMIT is sent and not yet settled
  owner,    \* the process whose session holds the deployment advisory lock
  proc,     \* what each process is doing
  group,    \* has the cancel scope of its task group been cancelled?
  op,       \* the phase of each operation of each coordinator
  answer    \* what the waiters of a finished operation are given

rows == <<run, exec, item, lease, error, reports>>
memory == <<proc, group, owner>>
vars == <<rows, late, doubt, memory, op, answer>>

Terminal == {"completed", "failed", "cancelled"}
Working == {"preparing", "reviewing"}

RunState == {"absent", "queued"} \cup Working \cup Terminal
ExecState == {"absent", "accepted", "running"} \cup Terminal
ItemState == {"absent", "accepted", "running", "prepared", "completed", "failed"}

(* The codes fail() and reconciliation store.  "mapped" is any code of the *)
(* runtime's failure mapper.                                               *)
ErrorCode == {"none", "mapped", "model_unavailable", "process_interrupted", "internal_error"}

(* The awaits of an operation at which a cancellation is delivered. *)
Cancellable == {"preparing", "generating", "publishing", "rereading"}

(* Phases in which the operation is writing its failure. *)
Finalizing == {"timedout", "failing", "interrupted"}

Executing == Cancellable \cup Finalizing
Phase == {"none", "admitted", "done"} \cup Executing
Answer == {"none", "raised", "nothing"} \cup Terminal
-----------------------------------------------------------------------------
(* Rows and operations, written together.  A definition named ...Variant   *)
(* is used by no action: it is a mistake the definition after it could     *)
(* have made, kept to show that a property would notice.                   *)

Go(p, r, phase) ==
  /\ op' = [op EXCEPT ![p][r] = phase]
  /\ UNCHANGED answer

Finish(p, r, result) ==
  /\ op' = [op EXCEPT ![p][r] = "done"]
  /\ answer' = [answer EXCEPT ![p][r] = result]

AdmitRows(r) ==
  /\ run' = [run EXCEPT ![r] = "queued"]
  /\ exec' = [exec EXCEPT ![r] = "accepted"]
  /\ item' = [item EXCEPT ![r] = "accepted"]
  /\ UNCHANGED <<lease, error, reports>>

ClaimRows(p, r) ==
  /\ run' = [run EXCEPT ![r] = "preparing"]
  /\ exec' = [exec EXCEPT ![r] = "running"]
  /\ item' = [item EXCEPT ![r] = "running"]
  /\ lease' = [lease EXCEPT ![r] = p]
  /\ UNCHANGED <<error, reports>>

CompleteRowsVariant(r) ==
  /\ exec' = [exec EXCEPT ![r] = "completed"]
  /\ item' = [item EXCEPT ![r] = "completed"]
  /\ reports' = [reports EXCEPT ![r] = reports[r] + 1]
  /\ UNCHANGED <<run, lease, error>>

CompleteRows(r) ==
  /\ run' = [run EXCEPT ![r] = "completed"]
  /\ exec' = [exec EXCEPT ![r] = "completed"]
  /\ item' = [item EXCEPT ![r] = "completed"]
  /\ reports' = [reports EXCEPT ![r] = reports[r] + 1]
  /\ UNCHANGED <<lease, error>>

FailRows(S, code) ==
  /\ run' = [r \in Run |-> IF r \in S THEN "failed" ELSE run[r]]
  /\ exec' = [r \in Run |-> IF r \in S THEN "failed" ELSE exec[r]]
  /\ item' = [r \in Run |-> IF r \in S /\ item[r] \in {"accepted", "running", "prepared"}
                            THEN "failed" ELSE item[r]]
  /\ error' = [r \in Run |-> IF r \in S THEN code ELSE error[r]]
  /\ UNCHANGED <<lease, reports>>

Claimable(r) == exec[r] = "accepted" /\ run[r] = "queued" /\ ~late[r]
OwnedVariant(p, r) == lease[r] = p
Owned(p, r) == lease[r] = p /\ exec[r] = "running"
Cancelled(r) == run[r] = "cancelled" \/ exec[r] = "cancelled"
Completed(r) == run[r] = "completed" /\ exec[r] = "completed"

InterruptedVariant == {r \in Run : exec[r] = "accepted" /\ run[r] \notin Terminal}

(* The executions a starting process finds interrupted. *)
Interrupted == {r \in Run : exec[r] \in {"accepted", "running"} /\ run[r] \notin Terminal}
-----------------------------------------------------------------------------
Init ==
  /\ run = [r \in Run |-> "absent"]
  /\ exec = [r \in Run |-> "absent"]
  /\ item = [r \in Run |-> "absent"]
  /\ lease = [r \in Run |-> NoProc]
  /\ error = [r \in Run |-> "none"]
  /\ reports = [r \in Run |-> 0]
  /\ late = [r \in Run |-> FALSE]
  /\ doubt = {}
  /\ owner = NoProc
  /\ proc = [p \in Proc |-> "down"]
  /\ group = [p \in Proc |-> FALSE]
  /\ op = [p \in Proc |-> [r \in Run |-> "none"]]
  /\ answer = [p \in Proc |-> [r \in Run |-> "none"]]
-----------------------------------------------------------------------------
(* submit(): admission and claim, serialised by the coordinator's lock.    *)

AdmissionLockFree(p) == \A r \in Run : op[p][r] # "admitted"

(* admit() inserts the run, its execution and its work item.  A call that  *)
(* raises after its commit leaves the rows behind and no operation.        *)
Admit(p, r) ==
  /\ proc[p] = "up" /\ AdmissionLockFree(p)
  /\ run[r] = "absent" /\ AdmitRows(r)
  /\ \/ Go(p, r, "admitted")
     \/ p \in Faulty /\ UNCHANGED <<op, answer>>
  /\ UNCHANGED <<late, doubt, memory>>

(* A replay of a run this process does not know: its terminal state is     *)
(* read and remembered.  A run that has not ended is refused with an error *)
(* and changes nothing.                                                    *)
Replay(p, r) ==
  /\ proc[p] = "up" /\ AdmissionLockFree(p)
  /\ run[r] \in Terminal
  /\ op[p][r] = "none"
  /\ Finish(p, r, run[r])
  /\ UNCHANGED <<rows, late, doubt, memory>>

(* claim() takes the lease.  The operation is lost, with its lease taken,  *)
(* when the call raises after the commit or the task group has closed.     *)
ClaimGranted(p, r) ==
  /\ op[p][r] = "admitted"
  /\ Claimable(r) /\ ClaimRows(p, r)
  /\ \/ Go(p, r, "preparing")
     \/ (p \in Faulty \/ proc[p] = "stopping") /\ Go(p, r, "none")
  /\ UNCHANGED <<late, doubt, memory>>

(* claim() returned None or raised before its commit: submit() raises and  *)
(* the run stays as it was admitted.                                       *)
ClaimRefused(p, r) ==
  /\ op[p][r] = "admitted"
  /\ ~Claimable(r) \/ p \in Faulty
  /\ Go(p, r, "none")
  /\ UNCHANGED <<rows, late, doubt, memory>>
-----------------------------------------------------------------------------
(* _execute(): the phases of a claimed operation. *)

(* save_prepared() of the operation's sources. *)
PreparedRows(r) ==
  /\ item' = [item EXCEPT ![r] = IF item[r] = "running" THEN "prepared" ELSE item[r]]
  /\ run' = [run EXCEPT ![r] = IF run[r] = "preparing" THEN "reviewing" ELSE run[r]]
  /\ UNCHANGED <<exec, lease, error, reports>>

SavePrepared(p, r) ==
  /\ op[p][r] = "preparing"
  /\ \/ Owned(p, r) /\ ~Cancelled(r) /\ ~late[r] /\ PreparedRows(r)
        /\ (Go(p, r, "generating") \/ (p \in Faulty /\ Go(p, r, "failing")))
     \/ Owned(p, r) /\ ~Cancelled(r) /\ late[r] /\ Go(p, r, "timedout") /\ UNCHANGED rows
     \/ ~Owned(p, r) /\ Go(p, r, "failing") /\ UNCHANGED rows
  /\ UNCHANGED <<late, doubt, memory>>

(* The model answered and its answer was validated. *)
Generate(p, r) ==
  /\ op[p][r] = "generating"
  /\ Go(p, r, "publishing")
  /\ UNCHANGED <<rows, late, doubt, memory>>

(* Any phase may raise: unreadable sources, a model error, an invalid      *)
(* report, a database error before the commit.                             *)
PhaseRaises(p, r) ==
  /\ op[p][r] \in Cancellable
  /\ Go(p, r, "failing")
  /\ UNCHANGED <<rows, late, doubt, memory>>

(* fail_after() expires, or a cancelled task group reaches the operation,  *)
(* at one of its awaits.                                                   *)
Timeout(p, r) ==
  /\ op[p][r] \in Cancellable
  /\ Go(p, r, "timedout")
  /\ UNCHANGED <<rows, late, doubt, memory>>

Interrupt(p, r) ==
  /\ group[p]
  /\ op[p][r] \in Cancellable
  /\ Go(p, r, "interrupted")
  /\ UNCHANGED <<rows, late, doubt, memory>>

(* publish(): the report and both terminal states in one transaction. *)
PublishableVariant(p, r) == lease[r] = p
Publishable(p, r) == Owned(p, r) /\ run[r] \in Working

PublishCommits(p, r) ==
  /\ op[p][r] = "publishing"
  /\ r \notin doubt /\ Publishable(p, r) /\ ~late[r]
  /\ CompleteRows(r)
  /\ \/ Finish(p, r, "completed")
     \/ p \in Faulty /\ Go(p, r, "failing")     \* on_published raised
  /\ UNCHANGED <<late, doubt, memory>>

(* The COMMIT was sent and its answer lost: the rows stay locked until the *)
(* server settles it, and the coordinator reads the terminal state.        *)
PublishUnknown(p, r) ==
  /\ UnknownCommits
  /\ op[p][r] = "publishing"
  /\ r \notin doubt /\ Publishable(p, r) /\ ~late[r]
  /\ doubt' = doubt \cup {r}
  /\ Go(p, r, "rereading")
  /\ UNCHANGED <<rows, late, memory>>

PublishRefused(p, r) ==
  /\ op[p][r] = "publishing"
  /\ r \notin doubt
  /\ \/ Cancelled(r) /\ Finish(p, r, "cancelled")
     \/ ~Cancelled(r) /\ ~Publishable(p, r) /\ Go(p, r, "failing")
     \/ Publishable(p, r) /\ late[r] /\ Go(p, r, "timedout")
  /\ UNCHANGED <<rows, late, doubt, memory>>

Settle(r) ==
  /\ r \in doubt
  /\ doubt' = doubt \ {r}
  /\ CompleteRows(r) \/ UNCHANGED rows
  /\ UNCHANGED <<late, memory, op, answer>>

RereadVariant(p, r) ==
  /\ op[p][r] = "rereading"
  /\ Finish(p, r, IF run[r] \in Terminal THEN run[r] ELSE "completed")
  /\ UNCHANGED <<rows, late, doubt, memory>>

(* read_terminal() takes no lock; None re-raises CommitOutcomeUnknown. *)
Reread(p, r) ==
  /\ op[p][r] = "rereading"
  /\ \/ run[r] \in Terminal /\ Finish(p, r, run[r])
     \/ run[r] \notin Terminal /\ Go(p, r, "failing")
  /\ UNCHANGED <<rows, late, doubt, memory>>
-----------------------------------------------------------------------------
(* _finalize_failure(): fail() under a shield. *)

FailureCode(phase) ==
  CASE phase = "timedout" -> "model_unavailable"
    [] phase = "interrupted" -> "process_interrupted"
    [] OTHER -> "mapped"

FailAnswered(p, r) ==
  /\ op[p][r] \in Finalizing
  /\ r \notin doubt
  /\ \/ Cancelled(r) /\ Finish(p, r, "cancelled") /\ UNCHANGED rows
     \/ Completed(r) /\ Finish(p, r, "completed") /\ UNCHANGED rows
     \/ Owned(p, r) /\ Finish(p, r, "failed") /\ FailRows({r}, FailureCode(op[p][r]))
  /\ UNCHANGED <<late, doubt, memory>>

(* What follows when fail() raises.  The handler of TimeoutError does not  *)
(* guard it: the exception leaves the operation and cancels the whole task *)
(* group, with no result and no error kept for the waiters.                *)
EscapesFrom(phase) == phase = "timedout"

FinalizationRaisesVariant(p, r) == Go(p, r, "failing") /\ UNCHANGED memory

FinalizationRaises(p, r) ==
  /\ Finish(p, r, IF EscapesFrom(op[p][r]) THEN "nothing" ELSE "raised")
  /\ group' = [group EXCEPT ![p] = group[p] \/ EscapesFrom(op[p][r])]
  /\ UNCHANGED <<proc, owner>>

FailRefused(p, r) ==
  /\ op[p][r] \in Finalizing
  /\ \/ r \notin doubt /\ ~Cancelled(r) /\ ~Completed(r) /\ ~Owned(p, r) /\ UNCHANGED rows
     \/ p \in Faulty /\ UNCHANGED rows
     \/ p \in Faulty /\ r \notin doubt /\ ~Cancelled(r) /\ ~Completed(r) /\ Owned(p, r)
        /\ FailRows({r}, FailureCode(op[p][r]))
  /\ FinalizationRaises(p, r)
  /\ UNCHANGED <<late, doubt>>
-----------------------------------------------------------------------------
(* Clients, the clock and the life of a process. *)

CancelRowsVariant(r) ==
  /\ run' = [run EXCEPT ![r] = "cancelled"]
  /\ UNCHANGED <<exec, item, lease, error, reports>>

CancelRows(r) ==
  /\ run' = [run EXCEPT ![r] = "cancelled"]
  /\ exec' = [exec EXCEPT ![r] = IF exec[r] \in {"accepted", "running"} THEN "cancelled" ELSE exec[r]]
  /\ UNCHANGED <<item, lease, error, reports>>

CancelRun(r) ==
  /\ \E p \in Proc : proc[p] # "down"
  /\ r \notin doubt
  /\ run[r] \notin Terminal \cup {"absent"}
  /\ CancelRows(r)
  /\ UNCHANGED <<late, doubt, memory, op, answer>>

(* The clock matters to a run that has not ended. *)
PassDeadline(r) ==
  /\ run[r] \notin Terminal \cup {"absent"} /\ ~late[r]
  /\ late' = [late EXCEPT ![r] = TRUE]
  /\ UNCHANGED <<rows, doubt, memory, op, answer>>

(* startup(): the deployment lock, then reconciliation, whose row locks    *)
(* wait for the publications still in doubt.                               *)
Startup(p) ==
  /\ proc[p] = "down"
  /\ owner = NoProc /\ owner' = p
  /\ doubt = {}
  /\ FailRows(Interrupted, "internal_error")
  /\ proc' = [proc EXCEPT ![p] = "up"]
  /\ UNCHANGED <<late, doubt, group, op, answer>>

(* The session of the advisory lock breaks and the process does not notice. *)
LoseOwnership(p) ==
  /\ owner = p
  /\ owner' = NoProc
  /\ UNCHANGED <<rows, late, doubt, proc, group, op, answer>>

(* The lifespan ends, asked for or because its task group was cancelled. *)
BeginShutdown(p) ==
  /\ proc[p] = "up"
  /\ proc' = [proc EXCEPT ![p] = "stopping"]
  /\ UNCHANGED <<rows, late, doubt, group, owner, op, answer>>

GraceOver(p) ==
  /\ proc[p] = "stopping" /\ ~group[p]
  /\ group' = [group EXCEPT ![p] = TRUE]
  /\ UNCHANGED <<rows, late, doubt, proc, owner, op, answer>>

(* Nothing of the coordinator outlives the process. *)
Vanish(p) ==
  /\ proc' = [proc EXCEPT ![p] = "down"]
  /\ group' = [group EXCEPT ![p] = FALSE]
  /\ owner' = IF owner = p THEN NoProc ELSE owner
  /\ op' = [op EXCEPT ![p] = [r \in Run |-> "none"]]
  /\ answer' = [answer EXCEPT ![p] = [r \in Run |-> "none"]]
  /\ UNCHANGED <<rows, late, doubt>>

StopDone(p) ==
  /\ proc[p] = "stopping"
  /\ \A r \in Run : op[p][r] \in {"none", "done"}
  /\ Vanish(p)

Crash(p) ==
  /\ proc[p] # "down"
  /\ Vanish(p)
-----------------------------------------------------------------------------
Step(p, r) ==
  \/ Admit(p, r) \/ Replay(p, r) \/ ClaimGranted(p, r) \/ ClaimRefused(p, r)
  \/ SavePrepared(p, r) \/ Generate(p, r) \/ PhaseRaises(p, r)
  \/ Timeout(p, r) \/ Interrupt(p, r)
  \/ PublishCommits(p, r) \/ PublishUnknown(p, r) \/ PublishRefused(p, r) \/ Reread(p, r)
  \/ FailAnswered(p, r) \/ FailRefused(p, r)

Next ==
  \/ \E p \in Proc, r \in Run : Step(p, r)
  \/ \E r \in Run : Settle(r) \/ CancelRun(r) \/ PassDeadline(r)
  \/ \E p \in Proc : \/ Startup(p) \/ LoseOwnership(p) \/ BeginShutdown(p)
                     \/ GraceOver(p) \/ StopDone(p) \/ Crash(p)

Spec == Init /\ [][Next]_vars

(* The event loop runs every task, a database call returns, a deadline     *)
(* fires at whatever await it finds, so an operation leaves every phase.   *)
OperationStep(p, r) ==
  \/ ClaimGranted(p, r) \/ ClaimRefused(p, r)
  \/ SavePrepared(p, r) \/ Generate(p, r) \/ PhaseRaises(p, r)
  \/ Timeout(p, r) \/ Interrupt(p, r)
  \/ PublishCommits(p, r) \/ PublishUnknown(p, r) \/ PublishRefused(p, r) \/ Reread(p, r)
  \/ FailAnswered(p, r) \/ FailRefused(p, r)

(* The server settles a COMMIT; the grace period of a shutdown ends; a     *)
(* stopped process is restarted (restart: unless-stopped).  Nothing        *)
(* obliges a client to act, a process to stop or a clock to pass a         *)
(* deadline first.                                                         *)
Fairness ==
  /\ \A p \in Proc, r \in Run : WF_vars(OperationStep(p, r))
  /\ \A r \in Run : WF_vars(Settle(r))
  /\ \A p \in Proc : WF_vars(GraceOver(p)) /\ WF_vars(StopDone(p)) /\ WF_vars(Startup(p))

FairSpec == Spec /\ Fairness
-----------------------------------------------------------------------------
(* Properties. *)

(* Every column and every field of the coordinators holds one of the       *)
(* values the code writes to it.                                           *)
TypeOK ==
  /\ run \in [Run -> RunState]
  /\ exec \in [Run -> ExecState]
  /\ item \in [Run -> ItemState]
  /\ lease \in [Run -> Proc \cup {NoProc}]
  /\ error \in [Run -> ErrorCode]
  /\ reports \in [Run -> Nat]
  /\ late \in [Run -> BOOLEAN]
  /\ doubt \subseteq Run
  /\ owner \in Proc \cup {NoProc}
  /\ proc \in [Proc -> {"down", "up", "stopping"}]
  /\ group \in [Proc -> BOOLEAN]
  /\ op \in [Proc -> [Run -> Phase]]
  /\ answer \in [Proc -> [Run -> Answer]]

(* What the three rows of a run may say together. *)
Agreement(r) ==
  /\ run[r] = "absent" <=> exec[r] = "absent"
  /\ run[r] = "queued" <=> exec[r] = "accepted"
  /\ run[r] \in Working <=> exec[r] = "running"
  /\ run[r] \in Terminal => exec[r] = run[r]
  /\ run[r] = "absent" <=> item[r] = "absent"
  /\ run[r] = "queued" => item[r] = "accepted"
  /\ run[r] = "preparing" => item[r] = "running"
  /\ run[r] = "reviewing" => item[r] = "prepared"
  /\ run[r] = "completed" <=> item[r] = "completed"
  /\ run[r] = "failed" <=> item[r] = "failed"
  /\ run[r] = "failed" <=> error[r] # "none"
  /\ run[r] \in Working => lease[r] \in Proc

(* review_runs, review_run_executions and review_work_items, written by    *)
(* six different transactions of several processes (admit, claim,          *)
(* save_prepared, publish, fail, cancel_run) and by reconciliation, never  *)
(* contradict each other.                                                  *)
RowsAgree == \A r \in Run : Agreement(r)

(* A run has one report once it is completed, and none before or in any    *)
(* other end: publish() never commits twice, not even around a COMMIT      *)
(* whose answer was lost or a takeover by another process.                 *)
ReportIffCompleted ==
  \A r \in Run : reports[r] = IF run[r] = "completed" THEN 1 ELSE 0

(* What a waiter is told is what the database holds, then and later: a     *)
(* result that wait() returns was never overtaken by a cancellation, a     *)
(* takeover or the late outcome of an unknown COMMIT.                      *)
AnswerIsDurable ==
  \A p \in Proc, r \in Run : answer[p][r] \in Terminal => run[r] = answer[p][r]

(* No step changes any row of a run that has ended: neither the late       *)
(* fail() or publish() of an owner that lost its lease nor the             *)
(* reconciliation of a starting process.                                   *)
TerminalIsPermanent ==
  [][\A r \in Run : run[r] \in Terminal =>
        /\ run'[r] = run[r] /\ exec'[r] = exec[r] /\ item'[r] = item[r]
        /\ error'[r] = error[r] /\ reports'[r] = reports[r]]_vars

(* A run marked running by a live process whose database calls do not fail *)
(* is being executed by it: no cancellation, interruption, takeover or     *)
(* unknown COMMIT leaves a run that nobody works on until the next         *)
(* restart.                                                                *)
RunningIsExecuted ==
  \A p \in Proc \ Faulty, r \in Run :
    exec[r] = "running" /\ lease[r] = p /\ proc[p] = "up" => op[p][r] \in Executing

(* _execute() sets the event of its operation in the end, however it ends, *)
(* also when fail() itself raises: nobody waits forever.                   *)
WaiterReleased ==
  \A p \in Proc, r \in Run : op[p][r] \in Executing ~> op[p][r] \notin Executing

(* A run that the owner of the deployment works on, and whose database     *)
(* calls do not fail, ends: by its own operation, by the grace period of a *)
(* shutdown, or at the restart after a crash or a takeover, though other   *)
(* processes may be faulty.  A run claimed by a process that has lost the  *)
(* deployment without noticing waits, if that process crashes, for the     *)
(* next restart.                                                           *)
EveryClaimedRunTerminates ==
  \A p \in Proc \ Faulty, r \in Run :
    exec[r] = "running" /\ lease[r] = p /\ owner = p ~> run[r] \in Terminal

Lifecycle == INSTANCE RunLifecycle
  WITH state <- [r \in Run |-> IF run[r] \in Working THEN "active" ELSE run[r]],
       reports <- reports

(* The rows, coordinators and takeovers of this module implement what a    *)
(* client is promised of a run.                                            *)
ImplementsLifecycle == Lifecycle!Spec
=============================================================================
