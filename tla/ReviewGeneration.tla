-------------------------- MODULE ReviewGeneration --------------------------
(***************************************************************************)
(* The calls a review makes to its model: LLMReviewRuntime._generate asks  *)
(* for a report up to three times, generate_with_retry makes up to two     *)
(* calls for each, every call takes one of the process's model-call        *)
(* permits and leaves a row in model_attempts, and the deadline of the     *)
(* operation or a shutdown may cut all of it short at any await.           *)
(*                                                                         *)
(* ReviewExecution has all of this as the phase "generating".  Here a run  *)
(* starts with its work item prepared and its execution running; another   *)
(* transaction (cancel_run, reconciliation) may end the execution at any   *)
(* time.  As in ReviewExecution, a definition named ...Variant is used by  *)
(* no action.                                                              *)
(***************************************************************************)
EXTENDS Naturals, Sequences, FiniteSets

CONSTANTS
  Run,              \* the operations of one process
  Permits,          \* budgets.max_parallel_model_calls
  MaxGenerations,   \* _MAX_REVIEW_GENERATIONS, 3 in the code
  StorageFaults     \* may recording an attempt raise?

ASSUME PermitsAssumption == Permits \in Nat \ {0}
ASSUME GenerationsAssumption == MaxGenerations \in Nat \ {0}
ASSUME RunAssumption == IsFiniteSet(Run)
ASSUME StorageAssumption == StorageFaults \in BOOLEAN

MaxAttempts == 2    \* _MAX_ATTEMPTS

VARIABLES
  phase,            \* where each operation is
  round,            \* the generation it is in
  try,              \* the ordinal of its next or present call in this generation
  outcome,          \* what the adapter made of its call, until it is recorded
  attempts,         \* its model_attempts rows, in order
  permits,          \* free permits of the semaphore
  ended,            \* runs whose execution is no longer running in the database
  late,             \* runs whose deadline has passed
  stopping          \* has the process cancelled its task group?

vars == <<phase, round, try, outcome, attempts, permits, ended, late, stopping>>

(* What a call comes to: a text; a refusal that may be retried at once     *)
(* (429, 502-504, no connection); an end nobody knows the provider's side  *)
(* of; any other error.                                                    *)
Outcome == {"text", "transient", "unknown", "refused"}

Holding == {"beginning", "inserting", "calling", "recording"}
Phase == {"idle", "waiting", "pausing", "validating", "over"} \cup Holding

(* A row of model_attempts: the generation it was made for, its state, its *)
(* outcome once recorded, and whether the execution had already ended.     *)
Attempt == [round : 1..MaxGenerations, state : {"running", "succeeded", "failed"},
            outcome : Outcome \cup {"none"}, stale : BOOLEAN]

Init ==
  /\ phase = [r \in Run |-> "idle"]
  /\ round = [r \in Run |-> 1]
  /\ try = [r \in Run |-> 1]
  /\ outcome = [r \in Run |-> "none"]
  /\ attempts = [r \in Run |-> <<>>]
  /\ permits = Permits
  /\ ended = {}
  /\ late = {}
  /\ stopping = FALSE

Go(r, p) == phase' = [phase EXCEPT ![r] = p]
-----------------------------------------------------------------------------
(* One call: generate_with_retry, the semaphore, the recording adapter. *)

(* The remaining time is read and the request built, which fails when it   *)
(* exceeds the profile's budget.                                           *)
Ask(r) ==
  /\ phase[r] = "idle"
  /\ \/ r \notin late /\ Go(r, "waiting")
     \/ Go(r, "over")
  /\ UNCHANGED <<round, try, outcome, attempts, permits, ended, late, stopping>>

Acquire(r) ==
  /\ phase[r] = "waiting"
  /\ permits > 0
  /\ permits' = permits - 1
  /\ Go(r, "beginning")
  /\ UNCHANGED <<round, try, outcome, attempts, ended, late, stopping>>

(* begin_model_attempt() locks the work item only and reads the state of   *)
(* its execution, which another transaction may change before the INSERT.  *)
BeginReadVariant(r) ==
  /\ phase[r] = "beginning"
  /\ Go(r, "inserting")
  /\ UNCHANGED <<round, try, outcome, attempts, permits, ended, late, stopping>>

BeginRead(r) ==
  /\ phase[r] = "beginning"
  /\ \/ r \notin ended /\ Go(r, "inserting") /\ UNCHANGED permits
     \/ r \in ended /\ Go(r, "over") /\ permits' = permits + 1
  /\ UNCHANGED <<round, try, outcome, attempts, ended, late, stopping>>

BeginInsert(r) ==
  /\ phase[r] = "inserting"
  /\ attempts' = [attempts EXCEPT ![r] = Append(attempts[r],
       [round |-> round[r], state |-> "running", outcome |-> "none", stale |-> r \in ended])]
  /\ Go(r, "calling")
  /\ UNCHANGED <<round, try, outcome, permits, ended, late, stopping>>

(* The provider answers, refuses or the transport gives up. *)
Answer(r) ==
  /\ phase[r] = "calling"
  /\ \E o \in Outcome : outcome' = [outcome EXCEPT ![r] = o]
  /\ Go(r, "recording")
  /\ UNCHANGED <<round, try, attempts, permits, ended, late, stopping>>

(* finish_model_attempt(): the last row gets its state. *)
Recorded(r) ==
  LET last == Len(attempts[r])
  IN  attempts' = [attempts EXCEPT ![r][last] = [@ EXCEPT
        !.state = IF outcome[r] = "text" THEN "succeeded" ELSE "failed",
        !.outcome = outcome[r]]]

(* What generate_with_retry does with the outcome: nothing is used or      *)
(* tried again after the deadline, and only a transient refusal of a first *)
(* call is tried again, if its delay fits.                                 *)
AfterCallVariant(r) ==
  \/ r \notin late /\ outcome[r] = "text" /\ Go(r, "validating")
  \/ r \notin late /\ outcome[r] \in {"transient", "unknown"} /\ try[r] < MaxAttempts
       /\ Go(r, "pausing")
  \/ (outcome[r] # "text" \/ r \in late) /\ Go(r, "over")

AfterCall(r) ==
  \/ r \notin late /\ outcome[r] = "text" /\ Go(r, "validating")
  \/ r \notin late /\ outcome[r] = "transient" /\ try[r] < MaxAttempts /\ Go(r, "pausing")
  \/ (outcome[r] # "text" \/ r \in late) /\ Go(r, "over")

Record(r) ==
  /\ phase[r] = "recording"
  /\ Recorded(r)
  /\ permits' = permits + 1
  /\ AfterCall(r)
  /\ outcome' = [outcome EXCEPT ![r] = "none"]
  /\ UNCHANGED <<round, try, ended, late, stopping>>

(* The recording transaction, or the one that notes the availability of    *)
(* the profile after it, raises.                                           *)
RecordRaises(r) ==
  /\ StorageFaults
  /\ phase[r] = "recording"
  /\ Recorded(r) \/ UNCHANGED attempts
  /\ permits' = permits + 1
  /\ Go(r, "over")
  /\ outcome' = [outcome EXCEPT ![r] = "none"]
  /\ UNCHANGED <<round, try, ended, late, stopping>>

Wake(r) ==
  /\ phase[r] = "pausing"
  /\ try' = [try EXCEPT ![r] = try[r] + 1]
  /\ Go(r, "idle")
  /\ UNCHANGED <<round, outcome, attempts, permits, ended, late, stopping>>
-----------------------------------------------------------------------------
(* One generation after another. *)

(* A report that can be published, or a flaw no new generation mends. *)
Conclude(r) ==
  /\ phase[r] = "validating"
  /\ Go(r, "over")
  /\ UNCHANGED <<round, try, outcome, attempts, permits, ended, late, stopping>>

(* A flaw the model is told of and asked to mend. *)
Regenerate(r) ==
  /\ phase[r] = "validating"
  /\ round[r] < MaxGenerations
  /\ round' = [round EXCEPT ![r] = round[r] + 1]
  /\ try' = [try EXCEPT ![r] = 1]
  /\ Go(r, "idle")
  /\ UNCHANGED <<outcome, attempts, permits, ended, late, stopping>>
-----------------------------------------------------------------------------
(* What cuts an operation short. *)

InterruptibleVariant == {"waiting", "beginning", "recording", "pausing", "validating"}

Interruptible == {"waiting", "beginning", "calling", "recording", "pausing", "validating"}

(* The cancellation is raised at an await.  The handler that would record  *)
(* an unknown outcome awaits a thread inside the cancelled scope, which    *)
(* raises before the thread starts; `async with` gives the permit back.    *)
InterruptVariant(r) ==
  /\ r \in late \/ stopping
  /\ phase[r] \in Interruptible
  /\ Go(r, "over")
  /\ permits' = IF phase[r] = "recording" THEN permits + 1 ELSE permits
  /\ outcome' = [outcome EXCEPT ![r] = "none"]
  /\ UNCHANGED <<round, try, attempts, ended, late, stopping>>

Interrupt(r) ==
  /\ r \in late \/ stopping
  /\ phase[r] \in Interruptible
  /\ Go(r, "over")
  /\ permits' = IF phase[r] \in Holding THEN permits + 1 ELSE permits
  /\ outcome' = [outcome EXCEPT ![r] = "none"]
  /\ UNCHANGED <<round, try, attempts, ended, late, stopping>>

PassDeadline(r) ==
  /\ phase[r] # "over" /\ r \notin late
  /\ late' = late \cup {r}
  /\ UNCHANGED <<phase, round, try, outcome, attempts, permits, ended, stopping>>

(* cancel_run() or the reconciliation of another process commits. *)
EndExecution(r) ==
  /\ phase[r] # "over" /\ r \notin ended
  /\ ended' = ended \cup {r}
  /\ UNCHANGED <<phase, round, try, outcome, attempts, permits, late, stopping>>

Stop ==
  /\ ~stopping
  /\ stopping' = TRUE
  /\ UNCHANGED <<phase, round, try, outcome, attempts, permits, ended, late>>

CallStep(r) ==
  \/ Ask(r) \/ Acquire(r) \/ BeginRead(r) \/ BeginInsert(r)
  \/ Record(r) \/ RecordRaises(r) \/ Wake(r) \/ Conclude(r) \/ Regenerate(r)
  \/ Interrupt(r)

Next ==
  \/ \E r \in Run : CallStep(r) \/ Answer(r) \/ PassDeadline(r) \/ EndExecution(r)
  \/ Stop

Spec == Init /\ [][Next]_vars

(* The event loop runs every task and time passes.  A provider that never  *)
(* answers is allowed.                                                     *)
FairSpec == Spec /\ \A r \in Run : WF_vars(CallStep(r)) /\ WF_vars(PassDeadline(r))
-----------------------------------------------------------------------------
(* Properties. *)

(* Every variable holds one of the values the code can give it; no         *)
(* operation asks for a fourth generation or makes a third call.  The      *)
(* semaphore bounds the calls in flight, and every way out of a call, a    *)
(* cancellation at any of its awaits included, gives its permit back once. *)
TypeOK ==
  /\ phase \in [Run -> Phase]
  /\ round \in [Run -> 1..MaxGenerations]
  /\ try \in [Run -> 1..MaxAttempts]
  /\ outcome \in [Run -> Outcome \cup {"none"}]
  /\ attempts \in [Run -> Seq(Attempt)]
  /\ permits + Cardinality({r \in Run : phase[r] \in Holding}) = Permits
  /\ ended \subseteq Run /\ late \subseteq Run /\ stopping \in BOOLEAN

(* What the history of a run may look like: a call follows another of its  *)
(* generation only as the second one after a transient refusal, and a new  *)
(* generation starts only after an answered call.  No call of unknown      *)
(* outcome is ever repeated.                                               *)
Follows(a, b) ==
  \/ b.round = a.round /\ a.outcome = "transient"
  \/ b.round = a.round + 1 /\ a.outcome = "text"

CallHistory ==
  \A r \in Run : LET calls == attempts[r] IN
    /\ \A i \in 1..(Len(calls) - 1) : Follows(calls[i], calls[i + 1])
    /\ \A i \in 1..(Len(calls) - 2) :
         ~(calls[i].round = calls[i + 1].round /\ calls[i].round = calls[i + 2].round)

(* configuration.md:210: once a cancellation has ended the run, no further *)
(* call to its model begins.  The code breaks this:                        *)
(* begin_model_attempt() does not lock the execution whose state it reads. *)
NoLateCall == \A r \in Run : \A i \in DOMAIN attempts[r] : ~attempts[r][i].stale

(* How far it breaks it: only the call whose transaction had read the      *)
(* state before the end slips through.  No retry, no pause and no new      *)
(* generation brings another one.                                          *)
OneLateCall ==
  \A r \in Run : \A i, j \in DOMAIN attempts[r] :
    attempts[r][i].stale /\ attempts[r][j].stale => i = j

(* However long the provider is silent and however many operations compete *)
(* for the permits, an operation is over in the end.                       *)
OperationsEnd == \A r \in Run : <>(phase[r] = "over")
=============================================================================
