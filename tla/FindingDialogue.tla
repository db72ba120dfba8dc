-------------------------- MODULE FindingDialogue --------------------------
(***************************************************************************)
(* The dialogue about one finding: turns admitted under the revision of    *)
(* the dialogue, generation attempts executed by the dialogue task group   *)
(* of the process, retries of failed turns, the human decision that closes *)
(* the dialogue, and the reconciliation of a restarted process             *)
(* (admit_external_dialogue, claim/publish/fail_external_dialogue,         *)
(* put_decision and LLMReviewRuntime._execute_dialogue).                   *)
(*                                                                         *)
(* A request with a stale revision is refused and changes nothing, so a    *)
(* request is modelled in the state whose revision it carries, which its   *)
(* sender has read in the value of the dialogue; a replayed request        *)
(* changes nothing either.  A turn is its ordinal and an attempt its       *)
(* ordinal within the turn.  There is one process, and a crash comes       *)
(* before its successor; two of them at once are a subject of              *)
(* ReviewExecution.  A definition named ...Variant is a mistake used by no *)
(* action.                                                                 *)
(***************************************************************************)
EXTENDS Naturals, FiniteSets

CONSTANTS
  MaxTurns,         \* max_dialogue_turns of the dialogue policy
  MaxAttempts,      \* bound of the model: attempts per turn
  StorageFaults     \* may publishing, failing or claiming raise?

ASSUME BoundsAssumption == MaxTurns \in Nat \ {0} /\ MaxAttempts \in Nat \ {0}
ASSUME FaultsAssumption == StorageFaults \in BOOLEAN

Turn == 1..MaxTurns

VARIABLES
  turn,         \* dialogue_turns.state of each turn
  listed,       \* the state of the turn in the copy inside finding_dialogues.value
  attempt,      \* generation_attempts.state of each attempt of each turn
  active,       \* active_generation_attempt_id of each turn, 0 for none
  error,        \* the error stored with the turn
  dialogue,     \* the state in finding_dialogues.value
  canSend,      \* can_send_message in finding_dialogues.value
  behind,       \* is the revision in finding_dialogues.value behind the column?
  decided,      \* does the human decision resolve the finding?
  task,         \* the task that executes the active attempt of each turn
  proc,         \* the API process
  group         \* has the scope of the dialogue task group been cancelled?

rows == <<turn, listed, attempt, active, error, dialogue, canSend, behind, decided>>
memory == <<task, proc, group>>
vars == <<rows, memory>>

Ended == {"completed", "failed"}
Unfinished == {"accepted", "running"}
TurnState == {"absent", "generating"} \cup Ended
AttemptState == {"absent"} \cup Unfinished \cup Ended
TaskState == {"none", "submitted", "working", "failing", "timedout", "interrupted"}
ErrorCode == {"none", "mapped", "deadline_exceeded", "process_interrupted", "internal_error"}

Started(t) == turn[t] # "absent"
AnyGenerating == \E t \in Turn : listed[t] \in {"queued", "generating"}

Init ==
  /\ turn = [t \in Turn |-> "absent"]
  /\ listed = [t \in Turn |-> "absent"]
  /\ attempt = [t \in Turn |-> [k \in 1..MaxAttempts |-> "absent"]]
  /\ active = [t \in Turn |-> 0]
  /\ error = [t \in Turn |-> "none"]
  /\ dialogue = "open"
  /\ canSend = TRUE
  /\ behind = FALSE
  /\ decided = FALSE
  /\ task = [t \in Turn |-> "none"]
  /\ proc = "up"
  /\ group = FALSE
-----------------------------------------------------------------------------
(* admit_external_dialogue(): a new turn, or another attempt at a failed one. *)

(* The turn, its next attempt and the dialogue, in one transaction. *)
AdmitRows(t) ==
  /\ turn' = [turn EXCEPT ![t] = "generating"]
  /\ listed' = [listed EXCEPT ![t] = "generating"]
  /\ attempt' = [attempt EXCEPT ![t][active[t] + 1] = "accepted"]
  /\ active' = [active EXCEPT ![t] = active[t] + 1]
  /\ error' = [error EXCEPT ![t] = "none"]
  /\ dialogue' = "generating"
  /\ canSend' = FALSE
  /\ UNCHANGED <<behind, decided>>

(* _submit_dialogue(): a stopping process has no group to submit to. *)
Submit(t) ==
  /\ task' = [task EXCEPT ![t] = IF proc = "up" THEN "submitted" ELSE "none"]
  /\ UNCHANGED <<proc, group>>

NewTurn(t) ==
  /\ proc # "down" /\ ~behind
  /\ canSend
  /\ ~Started(t) /\ \A s \in 1..(t - 1) : Started(s)
  /\ AdmitRows(t)
  /\ Submit(t)

Retryable(t) == turn[t] = "failed"

Retry(t) ==
  /\ proc # "down" /\ ~behind
  /\ Retryable(t)
  /\ active[t] < MaxAttempts
  /\ AdmitRows(t)
  /\ Submit(t)
-----------------------------------------------------------------------------
(* _execute_dialogue(). *)

Becomes(t, s) == task' = [task EXCEPT ![t] = s] /\ UNCHANGED <<proc, group>>

(* An exception that leaves the task cancels the task group. *)
Escapes(t) == task' = [task EXCEPT ![t] = "none"] /\ group' = TRUE /\ UNCHANGED proc

Claim(t) ==
  /\ task[t] = "submitted"
  /\ attempt[t][active[t]] = "accepted"
  /\ attempt' = [attempt EXCEPT ![t][active[t]] = "running"]
  /\ Becomes(t, "working") \/ (StorageFaults /\ Escapes(t))
  /\ UNCHANGED <<turn, listed, active, error, dialogue, canSend, behind, decided>>

(* The deadline of the attempt passed before its claim, the claim raised,  *)
(* or the group was cancelled before the task could claim.                 *)
ClaimRefused(t) ==
  /\ task[t] = "submitted"
  /\ Escapes(t)
  /\ UNCHANGED rows

(* The guard of publish_ and fail_external_dialogue.  An attempt is        *)
(* claimed once, by the task that works on it and with a token of its own; *)
(* what ends it from outside, a startup, changes its state.  The tokens    *)
(* that the code compares besides can therefore not differ.                *)
OwnedVariant(t) == active[t] # 0
Owned(t) == active[t] # 0 /\ attempt[t][active[t]] = "running"

(* A dialogue that no decision has closed opens again. *)
ReopenVariant ==
  /\ dialogue' = "open"
  /\ canSend' = TRUE
Reopen ==
  /\ dialogue' = IF dialogue # "closed" THEN "open" ELSE dialogue
  /\ canSend' = IF dialogue # "closed" THEN TRUE ELSE canSend

EndRowsVariant(t, state, code) ==
  /\ attempt' = [attempt EXCEPT ![t][active[t]] = state]
  /\ turn' = [turn EXCEPT ![t] = state]
  /\ listed' = [listed EXCEPT ![Cardinality({s \in Turn : Started(s)})] = state]
  /\ error' = [error EXCEPT ![t] = code]
  /\ Reopen
  /\ behind' = FALSE
  /\ UNCHANGED <<active, decided>>
EndRows(t, state, code) ==
  /\ attempt' = [attempt EXCEPT ![t][active[t]] = state]
  /\ turn' = [turn EXCEPT ![t] = state]
  /\ listed' = [listed EXCEPT ![t] = state]
  /\ error' = [error EXCEPT ![t] = code]
  /\ Reopen
  /\ behind' = FALSE
  /\ UNCHANGED <<active, decided>>

Publish(t) ==
  /\ task[t] = "working"
  /\ Owned(t)
  /\ EndRows(t, "completed", "none")
  /\ Becomes(t, "none") \/ (StorageFaults /\ Becomes(t, "failing"))

(* The model, its answer or a storage call fails; the deadline expires; or *)
(* the cancelled group reaches the task.                                   *)
Raise(t) ==
  /\ task[t] = "working"
  /\ \/ Becomes(t, "failing")
     \/ Becomes(t, "timedout")
     \/ group /\ Becomes(t, "interrupted")
  /\ UNCHANGED rows

Finalizing(t) == task[t] \in {"failing", "timedout", "interrupted"}

FailureCode(t) ==
  CASE task[t] = "timedout" -> "deadline_exceeded"
    [] task[t] = "interrupted" -> "process_interrupted"
    [] OTHER -> "mapped"

Fail(t) ==
  /\ Finalizing(t)
  /\ Owned(t)
  /\ EndRows(t, "failed", FailureCode(t))
  /\ Becomes(t, "none") \/ (StorageFaults /\ Escapes(t))

(* fail_external_dialogue() finds the attempt already ended, or raises.    *)
FailRaises(t) ==
  /\ Finalizing(t)
  /\ ~Owned(t) \/ StorageFaults
  /\ Escapes(t)
  /\ UNCHANGED rows
-----------------------------------------------------------------------------
(* put_decision(): the decision, and the dialogue closed or opened by it.  *)

Decide(resolves) ==
  /\ proc # "down"
  /\ decided' = resolves
  /\ dialogue' = CASE resolves -> "closed"
                   [] ~resolves /\ AnyGenerating -> "generating"
                   [] OTHER -> "open"
  /\ canSend' = (~resolves /\ ~AnyGenerating)
  /\ behind' = FALSE
  /\ UNCHANGED <<turn, listed, attempt, active, error, memory>>
-----------------------------------------------------------------------------
(* The life of the process. *)

BeginShutdown ==
  /\ proc = "up"
  /\ proc' = "stopping"
  /\ UNCHANGED <<rows, task, group>>

GraceOver ==
  /\ proc = "stopping" /\ ~group
  /\ group' = TRUE
  /\ UNCHANGED <<rows, task, proc>>

Gone ==
  /\ proc' = "down"
  /\ task' = [t \in Turn |-> "none"]
  /\ group' = FALSE
  /\ UNCHANGED rows

StopDone == proc = "stopping" /\ (\A t \in Turn : task[t] = "none") /\ Gone
Crash == proc # "down" /\ Gone

(* The attempts _reconcile_interrupted() finds unfinished. *)
InterruptedVariant == {t \in Turn : active[t] # 0 /\ attempt[t][active[t]] = "accepted"}
Interrupted == {t \in Turn : active[t] # 0 /\ attempt[t][active[t]] \in Unfinished}

(* Every interrupted turn ends, and each writes the dialogue as one SELECT *)
(* read it before: the last write keeps only its own turn and revision.    *)
LastRead(T) == {t \in T : \A s \in T : s <= t}

Startup ==
  /\ proc = "down"
  /\ proc' = "up"
  /\ attempt' = [t \in Turn |-> [k \in 1..MaxAttempts |->
       IF t \in Interrupted /\ k = active[t] THEN "failed" ELSE attempt[t][k]]]
  /\ turn' = [t \in Turn |-> IF t \in Interrupted THEN "failed" ELSE turn[t]]
  /\ listed' = [t \in Turn |-> IF t \in LastRead(Interrupted) THEN "failed" ELSE listed[t]]
  /\ error' = [t \in Turn |-> IF t \in Interrupted THEN "internal_error" ELSE error[t]]
  /\ behind' = IF Interrupted = {} THEN behind ELSE Interrupted # LastRead(Interrupted)
  /\ \/ Interrupted # {} /\ Reopen
     \/ Interrupted = {} /\ UNCHANGED <<dialogue, canSend>>
  /\ UNCHANGED <<active, decided, task, group>>

TaskStep(t) ==
  Claim(t) \/ ClaimRefused(t) \/ Publish(t) \/ Raise(t) \/ Fail(t) \/ FailRaises(t)

Next ==
  \/ \E t \in Turn : NewTurn(t) \/ Retry(t) \/ TaskStep(t)
  \/ \E resolves \in BOOLEAN : Decide(resolves)
  \/ BeginShutdown \/ GraceOver \/ StopDone \/ Crash \/ Startup

Spec == Init /\ [][Next]_vars

(* Every task leaves every phase (its deadline sees to that), the grace    *)
(* period of a shutdown ends, and a stopped process is restarted.          *)
FairSpec ==
  /\ Spec
  /\ \A t \in Turn : WF_vars(TaskStep(t))
  /\ WF_vars(GraceOver) /\ WF_vars(StopDone) /\ WF_vars(Startup)
-----------------------------------------------------------------------------
(* Properties. *)

(* Every column and every task holds one of the values the code gives it. *)
TypeOK ==
  /\ turn \in [Turn -> TurnState]
  /\ listed \in [Turn -> TurnState]
  /\ attempt \in [Turn -> [1..MaxAttempts -> AttemptState]]
  /\ active \in [Turn -> 0..MaxAttempts]
  /\ error \in [Turn -> ErrorCode]
  /\ dialogue \in {"open", "generating", "closed"}
  /\ canSend \in BOOLEAN
  /\ behind \in BOOLEAN
  /\ decided \in BOOLEAN
  /\ task \in [Turn -> TaskState]
  /\ proc \in {"down", "up", "stopping"}
  /\ group \in BOOLEAN

(* A turn that was interrupted together with a later turn of its dialogue  *)
(* still shows in the dialogue as it was before the restart.               *)
Overwritten(t) ==
  turn[t] = "failed" /\ error[t] = "internal_error" /\ listed[t] = "generating"

(* The turn row, the copy of the turn inside the dialogue and the active   *)
(* attempt say the same, written though they are by five transactions; all *)
(* the attempts before the active one have failed.                         *)
TurnAgrees(t) ==
  /\ listed[t] = turn[t] \/ Overwritten(t)
  /\ active[t] = 0 <=> turn[t] = "absent"
  /\ active[t] # 0 =>
       /\ turn[t] = "generating" <=> attempt[t][active[t]] \in Unfinished
       /\ turn[t] \in Ended => attempt[t][active[t]] = turn[t]
  /\ \A k \in 1..MaxAttempts : /\ k < active[t] => attempt[t][k] = "failed"
                               /\ k > active[t] => attempt[t][k] = "absent"
  /\ turn[t] = "failed" <=> error[t] # "none"

(* The variables hold only the values the code writes, every turn agrees   *)
(* with itself, and a dialogue shown as generating has a turn that is      *)
(* generated, so it can get out of that state, unless a restart has        *)
(* overwritten the end of a turn; messages can be sent only while the      *)
(* dialogue is open.                                                       *)
TurnsAgree ==
  /\ TypeOK
  /\ \A t \in Turn : TurnAgrees(t)
  /\ dialogue = "generating" => \E t \in Turn : turn[t] = "generating" \/ Overwritten(t)
  /\ canSend <=> dialogue = "open"

(* An answered turn keeps its answer, and an ended attempt its end: no     *)
(* retry, late failure or reconciliation replaces them.                    *)
EndsStay ==
  [][\A t \in Turn :
       /\ turn[t] = "completed" => turn'[t] = "completed"
       /\ \A k \in 1..MaxAttempts : attempt[t][k] \in Ended => attempt'[t][k] = attempt[t][k]]_vars

(* The end of a turn, by an answer, a late failure or a reconciliation,    *)
(* leaves a closed dialogue closed.                                        *)
EndsLeaveClosed ==
  [][(\E t \in Turn : turn[t] = "generating" /\ turn'[t] \in Ended) /\ dialogue = "closed"
        => dialogue' = "closed"]_vars

(* research.md:115: an answer of the model does not open a dialogue that a *)
(* person has closed.  The code breaks it: a retry asks for the state of   *)
(* its turn alone and shows a closed dialogue as generating, so that the   *)
(* end of the turn opens it.                                               *)
StaysClosed == decided => dialogue # "open"

(* A claimed attempt ends, by its own task, the grace period of a shutdown *)
(* or a restart.  What leaves it is an exception of a failed finalization  *)
(* that has cancelled the task group of a process which lives on.          *)
Crippled == proc = "up" /\ group
ClaimedAttemptEnds ==
  \A t \in Turn, k \in 1..MaxAttempts :
    attempt[t][k] = "running" ~> attempt[t][k] # "running" \/ Crippled

(* research.md, R-07: what a restart has ended a human retries.  The       *)
(* revision a retry must carry is the one the dialogue shows.              *)
InterruptedIsRetryable ==
  \A t \in Turn : turn[t] = "failed" /\ error[t] = "internal_error" => ~behind
=============================================================================
