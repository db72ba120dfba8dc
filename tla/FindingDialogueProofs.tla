----------------------- MODULE FindingDialogueProofs -----------------------
(***************************************************************************)
(* For any number of turns and attempts, with and without storage faults:  *)
(* the rows of a dialogue agree, no step replaces the end of a turn or of  *)
(* an attempt, and the end of a turn does not open a closed dialogue.      *)
(*                                                                         *)
(* Its transactions, and those of a run, are steps here that take locks in *)
(* RowLocks.  Where they wait for each other in a circle, two of them lock *)
(* two rows in opposite orders: for operations without such a pair, and    *)
(* which these are decides the ranks, the rows have a rank that rises      *)
(* along the locks of each, so that along a circle of waits it would rise  *)
(* for ever, and there are six ranks.                                      *)
(***************************************************************************)
EXTENDS FindingDialogue, RowLocks, SequenceTheorems, TLAPS

(* The three parts of TurnsAgree beside the types.  They are inductive     *)
(* together: a step that ends or retries a turn relies on its attempt, and *)
(* a decision on the copies of the turns inside the dialogue.              *)
AllAgree == \A t \in Turn : TurnAgrees(t)
SomeGenerates == \E t \in Turn : turn[t] = "generating" \/ Overwritten(t)
DialogueAgrees ==
  /\ dialogue = "generating" => SomeGenerates
  /\ canSend <=> dialogue = "open"

(* A task works for an attempt. *)
TasksHaveAttempts == \A t \in Turn : task[t] # "none" => active[t] # 0

IInv == TurnsAgree /\ TasksHaveAttempts

(* What a step does to one turn: nothing, admit an attempt, claim it, or   *)
(* end it and the turn with it.                                            *)
Moves(t) ==
  \/ UNCHANGED <<turn[t], listed[t], attempt[t], active[t], error[t]>>
  \/ /\ turn'[t] = "generating" /\ listed'[t] = "generating"
     /\ active[t] < MaxAttempts /\ active'[t] = active[t] + 1
     /\ attempt'[t] = [attempt[t] EXCEPT ![active[t] + 1] = "accepted"]
     /\ error'[t] = "none"
     /\ turn[t] \in {"absent", "failed"}
  \/ /\ active[t] # 0 /\ attempt[t][active[t]] = "accepted"
     /\ attempt'[t] = [attempt[t] EXCEPT ![active[t]] = "running"]
     /\ UNCHANGED <<turn[t], listed[t], active[t], error[t]>>
  \/ /\ active[t] # 0 /\ attempt[t][active[t]] \in Unfinished
     /\ UNCHANGED active[t]
     /\ \E state \in Ended :
          /\ turn'[t] = state
          /\ attempt'[t] = [attempt[t] EXCEPT ![active[t]] = state]
          /\ error'[t] \in ErrorCode
          /\ state = "failed" <=> error'[t] # "none"
          /\ \/ listed'[t] = state
             \/ UNCHANGED listed[t] /\ error'[t] = "internal_error"
-----------------------------------------------------------------------------
(* The turns. *)

(* What the actions of one turn do to it, and that they leave the others.  *)
LEMMA AdmitMoves ==
  ASSUME TypeOK, NEW t \in Turn, TurnAgrees(t), NewTurn(t) \/ Retry(t)
  PROVE  TypeOK' /\ \A s \in Turn : Moves(s)
<1>1. turn[t] \in {"absent", "failed"} /\ active[t] < MaxAttempts /\ AdmitRows(t) /\ Submit(t)
  BY BoundsAssumption DEF NewTurn, Retry, Retryable, Started, TurnAgrees, TypeOK, TurnState
<1>2. active[t] + 1 \in 1..MaxAttempts
  BY <1>1, BoundsAssumption DEF TypeOK
<1>3. TypeOK'
  <2>1. attempt' \in [Turn -> [1..MaxAttempts -> AttemptState]]
    BY <1>1, <1>2 DEF AdmitRows, TypeOK, AttemptState, Unfinished
  <2>2. /\ turn' \in [Turn -> TurnState] /\ listed' \in [Turn -> TurnState]
        /\ active' \in [Turn -> 0..MaxAttempts] /\ error' \in [Turn -> ErrorCode]
    BY <1>1, <1>2, BoundsAssumption DEF AdmitRows, TypeOK, TurnState, ErrorCode
  <2>3. task' \in [Turn -> TaskState] /\ UNCHANGED <<proc, group>>
    BY <1>1 DEF Submit, TypeOK, TaskState
  <2> QED BY <1>1, <2>1, <2>2, <2>3 DEF AdmitRows, TypeOK
<1>4. Moves(t)
  <2>1. attempt'[t] = [attempt[t] EXCEPT ![active[t] + 1] = "accepted"]
    BY <1>1 DEF AdmitRows, TypeOK
  <2>2. /\ turn'[t] = "generating" /\ listed'[t] = "generating"
        /\ active'[t] = active[t] + 1 /\ error'[t] = "none"
    BY <1>1 DEF AdmitRows, TypeOK
  <2> QED BY <1>1, <2>1, <2>2 DEF Moves
<1>5. ASSUME NEW s \in Turn, s # t
      PROVE  Moves(s)
  BY <1>1, <1>5 DEF AdmitRows, TypeOK, Moves
<1> QED BY <1>3, <1>4, <1>5

(* An answer and a failure end the active attempt, which is running. *)
LEMMA EndMoves ==
  ASSUME TypeOK, NEW t \in Turn, Publish(t) \/ Fail(t)
  PROVE  TypeOK' /\ \A s \in Turn : Moves(s)
<1>1. PICK state \in Ended, code \in ErrorCode :
        EndRows(t, state, code) /\ (state = "failed" <=> code # "none")
  BY DEF Publish, Fail, FailureCode, Ended, ErrorCode
<1>2. active[t] \in 1..MaxAttempts /\ attempt[t][active[t]] = "running"
  BY BoundsAssumption DEF Publish, Fail, Owned, TypeOK
<1>3. task' \in [Turn -> TaskState] /\ group' \in BOOLEAN /\ proc' = proc
  BY DEF Publish, Fail, Becomes, Escapes, TypeOK, TaskState
<1>4. TypeOK'
  BY <1>1, <1>2, <1>3 DEF EndRows, Reopen, TypeOK, TurnState, AttemptState, Ended
<1>5. Moves(t)
  <2>1. attempt'[t] = [attempt[t] EXCEPT ![active[t]] = state]
    BY <1>1 DEF EndRows, TypeOK
  <2>2. /\ turn'[t] = state /\ listed'[t] = state
        /\ active'[t] = active[t] /\ error'[t] = code
    BY <1>1 DEF EndRows, TypeOK
  <2> QED BY <1>1, <1>2, <2>1, <2>2 DEF Moves, Unfinished
<1>6. ASSUME NEW s \in Turn, s # t
      PROVE  Moves(s)
  BY <1>1, <1>6 DEF EndRows, TypeOK, Moves
<1> QED BY <1>4, <1>5, <1>6

(* A restart ends every interrupted turn and leaves the others alone. *)
LEMMA StartupMoves ==
  ASSUME TypeOK, Startup
  PROVE  TypeOK' /\ \A t \in Turn : Moves(t)
<1>1. LastRead(Interrupted) \subseteq Interrupted
  BY DEF LastRead
<1>2. TypeOK'
  <2>1. behind' \in BOOLEAN /\ dialogue' \in {"open", "generating", "closed"} /\ canSend' \in BOOLEAN
    BY DEF Startup, Reopen, TypeOK
  <2> QED BY <2>1 DEF Startup, TypeOK, TurnState, AttemptState, Ended, ErrorCode
<1>3. ASSUME NEW t \in Turn, t \in Interrupted
      PROVE  Moves(t)
  <2>1. active[t] \in 1..MaxAttempts /\ attempt[t][active[t]] \in Unfinished
    BY <1>3, BoundsAssumption DEF Interrupted, TypeOK
  <2>2. attempt'[t] = [attempt[t] EXCEPT ![active[t]] = "failed"]
    BY <1>3 DEF Startup, TypeOK
  <2>3. turn'[t] = "failed" /\ error'[t] = "internal_error" /\ active' = active
    BY <1>3 DEF Startup
  <2>4. listed'[t] = "failed" \/ listed'[t] = listed[t]
    BY DEF Startup
  <2> QED BY <2>1, <2>2, <2>3, <2>4 DEF Moves, Ended, ErrorCode
<1>4. ASSUME NEW t \in Turn, t \notin Interrupted
      PROVE  Moves(t)
  <2>1. attempt'[t] = attempt[t]
    BY <1>4 DEF Startup, TypeOK
  <2> QED BY <1>1, <1>4, <2>1 DEF Startup, Moves
<1> QED BY <1>2, <1>3, <1>4

(* Every step moves every turn in one of the ways above, and writes values *)
(* of their types.                                                         *)
LEMMA NextMoves ==
  ASSUME TypeOK, AllAgree, TasksHaveAttempts, [Next]_vars
  PROVE  TypeOK' /\ \A t \in Turn : Moves(t)
<1>1. CASE UNCHANGED rows /\ task' \in [Turn -> TaskState] /\ proc' \in {"down", "up", "stopping"}
           /\ group' \in BOOLEAN
  BY <1>1 DEF rows, TypeOK, Moves
<1>2. ASSUME NEW t \in Turn, NewTurn(t) \/ Retry(t)
      PROVE  TypeOK' /\ \A s \in Turn : Moves(s)
  BY <1>2, AdmitMoves DEF AllAgree
<1>3. ASSUME NEW t \in Turn, Claim(t)
      PROVE  TypeOK' /\ \A s \in Turn : Moves(s)
  <2>1. active[t] \in 1..MaxAttempts
    <3>1. active[t] # 0
      BY <1>3 DEF Claim, TasksHaveAttempts
    <3> QED BY <3>1, BoundsAssumption DEF TypeOK
  <2>2. TypeOK'
    BY <1>3, <2>1 DEF Claim, Becomes, Escapes, TypeOK, AttemptState, Unfinished, TaskState
  <2>3. Moves(t)
    <3>1. attempt'[t] = [attempt[t] EXCEPT ![active[t]] = "running"]
      BY <1>3 DEF Claim, TypeOK
    <3> QED BY <1>3, <2>1, <3>1 DEF Claim, Moves
  <2>4. ASSUME NEW s \in Turn, s # t
        PROVE  Moves(s)
    BY <1>3, <2>4 DEF Claim, TypeOK, Moves
  <2> QED BY <2>2, <2>3, <2>4
<1>4. ASSUME NEW t \in Turn, Publish(t) \/ Fail(t)
      PROVE  TypeOK' /\ \A s \in Turn : Moves(s)
  BY <1>4, EndMoves
<1>5. ASSUME NEW t \in Turn, ClaimRefused(t) \/ Raise(t) \/ FailRaises(t)
      PROVE  TypeOK' /\ \A s \in Turn : Moves(s)
  BY <1>1, <1>5 DEF ClaimRefused, Raise, FailRaises, Becomes, Escapes, TypeOK, TaskState
<1>6. ASSUME NEW resolves \in BOOLEAN, Decide(resolves)
      PROVE  TypeOK' /\ \A s \in Turn : Moves(s)
  BY <1>6 DEF Decide, memory, TypeOK, Moves
<1>7. CASE BeginShutdown \/ GraceOver \/ StopDone \/ Crash
  BY <1>1, <1>7 DEF BeginShutdown, GraceOver, StopDone, Crash, Gone, TypeOK, TaskState
<1>8. CASE UNCHANGED vars
  BY <1>1, <1>8 DEF vars, memory, TypeOK
<1> QED BY <1>2, <1>3, <1>4, <1>5, <1>6, <1>7, <1>8, StartupMoves DEF Next, TaskStep

(* A turn that moves in one of these ways goes on agreeing with itself. *)
LEMMA MovesAgree ==
  ASSUME TypeOK, TypeOK', NEW t \in Turn, TurnAgrees(t), Moves(t)
  PROVE  TurnAgrees(t)'
<1>0. /\ MaxAttempts \in Nat /\ active[t] \in 0..MaxAttempts
      /\ attempt[t] \in [1..MaxAttempts -> AttemptState]
  BY BoundsAssumption DEF TypeOK
<1>1. CASE UNCHANGED <<turn[t], listed[t], attempt[t], active[t], error[t]>>
  BY <1>1 DEF TurnAgrees, Overwritten
<1>2. CASE /\ turn'[t] = "generating" /\ listed'[t] = "generating"
           /\ active[t] < MaxAttempts /\ active'[t] = active[t] + 1
           /\ attempt'[t] = [attempt[t] EXCEPT ![active[t] + 1] = "accepted"]
           /\ error'[t] = "none"
           /\ turn[t] \in {"absent", "failed"}
  <2>1. attempt'[t][active'[t]] = "accepted"
    BY <1>0, <1>2
  <2>2. \A k \in 1..MaxAttempts :
          k < active'[t] => attempt[t][k] = "failed" /\ attempt'[t][k] = attempt[t][k]
    BY <1>0, <1>2 DEF TurnAgrees, Ended
  <2>3. \A k \in 1..MaxAttempts : k > active'[t] => attempt'[t][k] = "absent"
    BY <1>0, <1>2 DEF TurnAgrees
  <2> QED BY <1>0, <1>2, <2>1, <2>2, <2>3 DEF TurnAgrees, Unfinished, Ended
<1>3. CASE /\ active[t] # 0 /\ attempt[t][active[t]] = "accepted"
           /\ attempt'[t] = [attempt[t] EXCEPT ![active[t]] = "running"]
           /\ UNCHANGED <<turn[t], listed[t], active[t], error[t]>>
  <2>1. attempt'[t][active'[t]] = "running" /\ turn[t] = "generating"
    BY <1>0, <1>3 DEF TurnAgrees, Unfinished
  <2>2. \A k \in 1..MaxAttempts : k # active[t] => attempt'[t][k] = attempt[t][k]
    BY <1>0, <1>3
  <2> QED BY <1>0, <1>3, <2>1, <2>2 DEF TurnAgrees, Overwritten, Unfinished, Ended
<1>4. ASSUME active[t] # 0, attempt[t][active[t]] \in Unfinished, UNCHANGED active[t],
             NEW state \in Ended,
             turn'[t] = state,
             attempt'[t] = [attempt[t] EXCEPT ![active[t]] = state],
             state = "failed" <=> error'[t] # "none",
             \/ listed'[t] = state
             \/ UNCHANGED listed[t] /\ state = "failed" /\ error'[t] = "internal_error"
      PROVE  TurnAgrees(t)'
  <2>1. attempt'[t][active'[t]] = state /\ turn[t] = "generating" /\ listed[t] = "generating"
    BY <1>0, <1>4 DEF TurnAgrees, Overwritten
  <2>2. \A k \in 1..MaxAttempts : k # active[t] => attempt'[t][k] = attempt[t][k]
    BY <1>0, <1>4
  <2> QED BY <1>0, <1>4, <2>1, <2>2 DEF TurnAgrees, Overwritten, Unfinished, Ended
<1> QED BY <1>1, <1>2, <1>3, <1>4 DEF Moves, Ended

(* What the dialogue shows about its turns stays true: only an admission   *)
(* and a decision show it as generating.                                   *)
LEMMA NextDialogue ==
  ASSUME TypeOK, TypeOK', AllAgree, DialogueAgrees, \A t \in Turn : Moves(t), [Next]_vars
  PROVE  DialogueAgrees'
<1>1. CASE UNCHANGED <<turn, listed, error, dialogue, canSend>>
  BY <1>1 DEF DialogueAgrees, SomeGenerates, Overwritten
<1>2. ASSUME NEW t \in Turn, AdmitRows(t)
      PROVE  DialogueAgrees'
  <2>1. turn'[t] = "generating"
    BY <1>2 DEF AdmitRows, TypeOK
  <2> QED BY <1>2, <2>1 DEF AdmitRows, DialogueAgrees, SomeGenerates
<1>3. CASE Reopen
  <2>1. dialogue' # "generating" /\ (canSend' <=> dialogue' = "open")
    BY <1>3 DEF Reopen, DialogueAgrees, TypeOK
  <2> QED BY <2>1 DEF DialogueAgrees
<1>4. ASSUME NEW resolves \in BOOLEAN, Decide(resolves)
      PROVE  DialogueAgrees'
  <2>1. canSend' <=> dialogue' = "open"
    BY <1>4 DEF Decide
  <2>2. AnyGenerating => SomeGenerates
    <3>1. ASSUME NEW t \in Turn, listed[t] \in {"queued", "generating"}
          PROVE  turn[t] = "generating" \/ Overwritten(t)
      <4>1. listed[t] = "generating"
        BY <3>1 DEF TypeOK, TurnState, Ended
      <4> QED BY <4>1 DEF AllAgree, TurnAgrees
    <3> QED BY <3>1 DEF AnyGenerating, SomeGenerates
  <2>3. SomeGenerates => SomeGenerates'
    BY <1>4 DEF Decide, SomeGenerates, Overwritten
  <2>4. dialogue' = "generating" => AnyGenerating
    BY <1>4 DEF Decide
  <2> QED BY <2>1, <2>2, <2>3, <2>4 DEF DialogueAgrees
<1>5. ASSUME NEW t \in Turn, TaskStep(t)
      PROVE  DialogueAgrees'
  <2>1. CASE Publish(t) \/ Fail(t)
    BY <1>3, <2>1 DEF Publish, Fail, EndRows
  <2> QED BY <1>1, <1>5, <2>1 DEF TaskStep, Claim, ClaimRefused, Raise, FailRaises, rows
<1>6. ASSUME NEW t \in Turn, NewTurn(t) \/ Retry(t)
      PROVE  DialogueAgrees'
  BY <1>2, <1>6 DEF NewTurn, Retry
<1>7. CASE Startup
  <2>1. CASE Interrupted # {}
    BY <1>3, <1>7, <2>1 DEF Startup
  <2>2. CASE Interrupted = {}
    <3>1. LastRead(Interrupted) = {}
      BY <2>2 DEF LastRead
    <3>2. turn' = turn /\ listed' = listed /\ error' = error
      BY <1>7, <2>2, <3>1 DEF Startup, TypeOK
    <3> QED BY <1>1, <1>7, <2>2, <3>2 DEF Startup
  <2> QED BY <2>1, <2>2
<1>8. CASE UNCHANGED vars \/ BeginShutdown \/ GraceOver \/ StopDone \/ Crash
  BY <1>1, <1>8 DEF vars, rows, BeginShutdown, GraceOver, StopDone, Crash, Gone
<1> QED BY <1>4, <1>5, <1>6, <1>7, <1>8 DEF Next

(* A task is submitted for the attempt admitted with it, and the active    *)
(* attempt of a turn is only ever replaced by the next.                    *)
LEMMA NextTasks ==
  ASSUME TypeOK, TasksHaveAttempts, \A t \in Turn : Moves(t), [Next]_vars
  PROVE  TasksHaveAttempts'
<1>1. ASSUME NEW t \in Turn, active[t] # 0
      PROVE  active'[t] # 0
  <2>1. active[t] \in Nat
    BY BoundsAssumption DEF TypeOK
  <2>2. active'[t] = active[t] \/ active'[t] = active[t] + 1
    BY DEF Moves
  <2> QED BY <1>1, <2>1, <2>2
<1>2. ASSUME NEW t \in Turn, task[t] = "none", task'[t] # "none"
      PROVE  active'[t] # 0
  <2>1. AdmitRows(t)
    BY <1>2 DEF Next, vars, memory, NewTurn, Retry, Submit, TaskStep, Claim, ClaimRefused, Publish, Raise,
                Fail, FailRaises, Finalizing, Becomes, Escapes, Decide, BeginShutdown, GraceOver,
                StopDone, Crash, Gone, Startup, TypeOK
  <2> QED BY <2>1, BoundsAssumption DEF AdmitRows, TypeOK
<1> QED BY <1>1, <1>2 DEF TasksHaveAttempts
-----------------------------------------------------------------------------
(* The inductive invariant. *)

(* The strengthened invariant holds initially. *)
LEMMA InitIInv == Init => IInv
<1> SUFFICES ASSUME Init
             PROVE  IInv
  OBVIOUS
<1>1. TypeOK
  <2>1. attempt \in [Turn -> [1..MaxAttempts -> AttemptState]]
    BY DEF Init, AttemptState
  <2>2. active \in [Turn -> 0..MaxAttempts]
    BY BoundsAssumption DEF Init
  <2> QED BY <2>1, <2>2 DEF Init, TypeOK, TurnState, TaskState, ErrorCode
<1>2. ASSUME NEW t \in Turn
      PROVE  TurnAgrees(t)
  BY BoundsAssumption DEF Init, TurnAgrees, Ended
<1> QED BY <1>1, <1>2 DEF Init, IInv, TurnsAgree, TasksHaveAttempts

(* Every step preserves it. *)
LEMMA NextIInv == IInv /\ [Next]_vars => IInv'
<1> SUFFICES ASSUME IInv, [Next]_vars
             PROVE  IInv'
  OBVIOUS
<1>1. TypeOK /\ AllAgree /\ DialogueAgrees /\ TasksHaveAttempts
  BY DEF IInv, TurnsAgree, AllAgree, DialogueAgrees, SomeGenerates
<1>2. TypeOK' /\ \A t \in Turn : Moves(t)
  BY <1>1, NextMoves
<1>3. AllAgree'
  BY <1>1, <1>2, MovesAgree DEF AllAgree
<1>4. DialogueAgrees' /\ TasksHaveAttempts'
  BY <1>1, <1>2, NextDialogue, NextTasks
<1> QED BY <1>2, <1>3, <1>4 DEF IInv, TurnsAgree, AllAgree, DialogueAgrees, SomeGenerates

(* Turns, their copies, attempts and the dialogue together. *)
THEOREM Invariance == Spec => []IInv
BY InitIInv, NextIInv, PTL DEF Spec

(* The turn row, its copy inside the dialogue and the active attempt say   *)
(* the same, and a dialogue shown as generating has a turn to wait for,    *)
(* for any number of turns, attempts, crashes and faults.                  *)
THEOREM TurnsAlwaysAgree == Spec => []TurnsAgree
BY Invariance, PTL DEF IInv
-----------------------------------------------------------------------------
(* What no step may do. *)

(* No answer is lost and no attempt ends twice. *)
LEMMA StepKeepsEnds ==
  ASSUME TypeOK, NEW t \in Turn, TurnAgrees(t), Moves(t)
  PROVE  /\ turn[t] = "completed" => turn'[t] = "completed"
         /\ \A k \in 1..MaxAttempts : attempt[t][k] \in Ended => attempt'[t][k] = attempt[t][k]
<1>1. /\ MaxAttempts \in Nat /\ active[t] \in 0..MaxAttempts
      /\ attempt[t] \in [1..MaxAttempts -> AttemptState]
  BY BoundsAssumption DEF TypeOK
<1>2. turn[t] = "completed" => turn'[t] = "completed"
  BY <1>1 DEF Moves, TurnAgrees, Unfinished, Ended
<1>3. ASSUME NEW k \in 1..MaxAttempts, attempt[t][k] \in Ended
      PROVE  attempt'[t][k] = attempt[t][k]
  <2>1. k # active[t] + 1
    BY <1>1, <1>3 DEF TurnAgrees, Ended
  <2>2. attempt[t][k] \notin Unfinished
    BY <1>3 DEF Ended, Unfinished
  <2> QED BY <1>1, <2>1, <2>2 DEF Moves, Unfinished
<1> QED BY <1>2, <1>3

(* Retries, late failures and reconciliations replace neither the answer   *)
(* of a turn nor the end of an attempt.                                    *)
THEOREM EndsStayForever == Spec => EndsStay
<1>1. IInv /\ [Next]_vars =>
        [\A t \in Turn :
           /\ turn[t] = "completed" => turn'[t] = "completed"
           /\ \A k \in 1..MaxAttempts :
                attempt[t][k] \in Ended => attempt'[t][k] = attempt[t][k]]_vars
  <2> SUFFICES ASSUME IInv, [Next]_vars, NEW t \in Turn
               PROVE  /\ turn[t] = "completed" => turn'[t] = "completed"
                      /\ \A k \in 1..MaxAttempts :
                           attempt[t][k] \in Ended => attempt'[t][k] = attempt[t][k]
    OBVIOUS
  <2>1. TypeOK /\ AllAgree /\ TasksHaveAttempts
    BY DEF IInv, TurnsAgree, AllAgree
  <2>2. Moves(t)
    BY <2>1, NextMoves
  <2> QED BY <2>1, <2>2, StepKeepsEnds DEF AllAgree
<1> QED BY <1>1, Invariance, PTL DEF Spec, EndsStay

(* Whatever ends a turn while a decision stands, the dialogue it closed    *)
(* stays closed (publish_ and fail_external_dialogue, reconciliation).     *)
THEOREM ClosedOutlivesEnds == Spec => EndsLeaveClosed
<1>1. IInv /\ [Next]_vars =>
        [(\E t \in Turn : turn[t] = "generating" /\ turn'[t] \in Ended) /\ dialogue = "closed"
           => dialogue' = "closed"]_vars
  <2> SUFFICES ASSUME IInv, [Next]_vars, dialogue = "closed",
                      NEW t \in Turn, turn[t] = "generating", turn'[t] \in Ended
               PROVE  dialogue' = "closed"
    OBVIOUS
  <2>1. TypeOK
    BY DEF IInv, TurnsAgree
  <2>2. UNCHANGED dialogue \/ Reopen
    <3>1. ASSUME NEW s \in Turn, NewTurn(s) \/ Retry(s)
          PROVE  FALSE
      BY <2>1, <3>1 DEF NewTurn, Retry, AdmitRows, TypeOK, Ended
    <3>2. ASSUME NEW resolves \in BOOLEAN, Decide(resolves)
          PROVE  FALSE
      BY <3>2 DEF Decide, Ended
    <3> QED
      BY <3>1, <3>2 DEF Next, vars, rows, TaskStep, Claim, ClaimRefused, Publish, Raise, Fail,
           FailRaises, EndRows, BeginShutdown, GraceOver, StopDone, Crash, Gone, Startup
  <2> QED BY <2>2 DEF Reopen
<1> QED BY <1>1, Invariance, PTL DEF Spec, EndsLeaveClosed
-----------------------------------------------------------------------------
(* The waits: RowLocks. *)

Uncrossed(O) == O \subseteq Operations /\ \A pair \in Crossing : ~(pair \subseteq O)

(* The rank of a row for the operations O: below the cancellation the run  *)
(* comes before its execution, and so on.                                  *)
Rank(O, row) ==
  CASE row = "execution" -> IF "cancel_run" \in O THEN 2 ELSE 1
    [] row = "run" -> IF "cancel_run" \in O THEN 1 ELSE 2
    [] row = "work" -> 3
    [] row = "dialogue" -> IF "retry_turn" \in O THEN 2 ELSE 6
    [] row = "turn" -> IF "retry_turn" \in O THEN 3 ELSE IF "reconcile" \in O THEN 5 ELSE 4
    [] row = "attempt" -> IF "reconcile" \in O THEN 4 ELSE 5
    [] OTHER -> 1

(* The row a session needs next, and what a set of sessions executes. *)
Wanted(s) == Locks(operation[s])[taken[s] + 1]
Executed(S) == {operation[s] : s \in S}
-----------------------------------------------------------------------------
(* Among operations of which no two cross, each takes its locks with       *)
(* rising rank.                                                            *)
LEMMA LocksRise ==
  ASSUME NEW O, Uncrossed(O), NEW o \in O,
         NEW i \in 1..Len(Locks(o)), NEW j \in 1..Len(Locks(o)), i < j
  PROVE  Rank(O, Locks(o)[i]) < Rank(O, Locks(o)[j])
<1>1. CASE o \in {"prepare_run", "end_run"}
  <2>1. Locks(o) = <<"execution", "run", "work">>
    BY <1>1 DEF Locks, PrepareRun, EndRun
  <2>2. i \in 1..3 /\ j \in 1..3
    BY <2>1
  <2>3. "cancel_run" \notin O
    BY <1>1 DEF Uncrossed, Crossing
  <2> QED
    BY <2>1, <2>2, <2>3 DEF Rank
<1>2. CASE o = "cancel_run"
  <2>1. Locks(o) = <<"run", "execution">>
    BY <1>2 DEF Locks, CancelRun
  <2> QED
    BY <1>2, <2>1 DEF Rank
<1>3. CASE o = "retry_turn"
  <2>1. Locks(o) = <<"dialogue", "turn">>
    BY <1>3 DEF Locks, RetryTurn
  <2> QED
    BY <1>3, <2>1 DEF Rank
<1>4. CASE o = "end_turn"
  <2>1. Locks(o) = <<"turn", "attempt", "dialogue">>
    BY <1>4 DEF Locks, EndTurn
  <2>2. i \in 1..3 /\ j \in 1..3
    BY <2>1
  <2>3. "retry_turn" \notin O /\ "reconcile" \notin O
    BY <1>4 DEF Uncrossed, Crossing
  <2> QED
    BY <2>1, <2>2, <2>3 DEF Rank
<1>5. CASE o = "decide"
  <2>1. Locks(o) = <<"state", "dialogue">>
    BY <1>5 DEF Locks, DecideFinding
  <2> QED
    BY <2>1 DEF Rank
<1>6. CASE o = "reconcile"
  <2>1. Locks(o) = <<"execution", "run", "work", "attempt", "turn", "dialogue">>
    BY <1>6 DEF Locks, Reconcile
  <2>2. i \in 1..6 /\ j \in 1..6
    BY <2>1
  <2>3. "cancel_run" \notin O /\ "retry_turn" \notin O
    BY <1>6 DEF Uncrossed, Crossing
  <2>4. \A k \in 1..6 : Rank(O, Locks(o)[k]) = k
    BY <1>6, <2>1, <2>3 DEF Rank
  <2> QED
    BY <2>2, <2>4
<1>7. CASE o \in {"begin_call", "finish_call", "admit_turn", "claim_attempt"}
  <2>1. Len(Locks(o)) = 1
    BY <1>7 DEF Locks, BeginCall, FinishCall, AdmitTurn, ClaimAttempt
  <2> QED
    BY <2>1
<1> QED
  BY <1>1, <1>2, <1>3, <1>4, <1>5, <1>6, <1>7 DEF Uncrossed, Operations

(* There are only six ranks. *)
LEMMA RankRange == \A O, row : Rank(O, row) \in 1..6
BY DEF Rank

(* The program of every operation has a length. *)
LEMMA LocksLength == \A o \in Operations : Len(Locks(o)) \in Nat
BY DEF Operations, Locks, PrepareRun, EndRun, BeginCall, FinishCall, CancelRun,
       AdmitTurn, RetryTurn, ClaimAttempt, EndTurn, DecideFinding, Reconcile

(* Who is waited for and waits as well wants a row of higher rank. *)
LEMMA WaitsRise ==
  ASSUME LocksTyped, NEW S \in SUBSET Session, Uncrossed(Executed(S)),
         NEW s \in S, NEW t \in S, NEW u \in S, WaitsFor(s, t), WaitsFor(t, u)
  PROVE  Rank(Executed(S), Wanted(s)) < Rank(Executed(S), Wanted(t))
<1>1. PICK row \in Table : Wants(s, row) /\ Holds(t, row)
  BY DEF WaitsFor
<1>2. Wanted(s) = row
  BY <1>1 DEF Wants, Wanted
<1>3. PICK i \in 1..taken[t] : Locks(operation[t])[i] = row
  BY <1>1 DEF Holds
<1>4. Active(t) /\ taken[t] < Len(Locks(operation[t]))
  BY DEF WaitsFor, Wants
<1>5. taken[t] \in Nat /\ operation[t] \in Executed(S)
  BY DEF LocksTyped, Executed
<1>6. Len(Locks(operation[t])) \in Nat
  BY <1>5, LocksLength DEF Uncrossed
<1>7. /\ i \in 1..Len(Locks(operation[t]))
      /\ taken[t] + 1 \in 1..Len(Locks(operation[t]))
      /\ i < taken[t] + 1
  BY <1>3, <1>4, <1>5, <1>6
<1>8. Rank(Executed(S), Locks(operation[t])[i]) < Rank(Executed(S), Locks(operation[t])[taken[t] + 1])
  BY <1>5, <1>7, LocksRise
<1> QED
  BY <1>2, <1>3, <1>8 DEF Wanted

(* Six ranks leave no room for a circle of them. *)
LEMMA CirclesCross ==
  ASSUME LocksTyped
  PROVE  OnlyCrossingsDeadlock
<1> SUFFICES ASSUME NEW S \in SUBSET Session, S # {}, WaitInCircle(S),
                    \A pair \in Crossing : ~(pair \subseteq Executed(S))
             PROVE  FALSE
  BY DEF OnlyCrossingsDeadlock, Executed
<1>1. PICK s1 \in S : TRUE
  OBVIOUS
<1>2. \A s \in S : \E t \in S : WaitsFor(s, t)
  BY DEF WaitInCircle
<1>3. Uncrossed(Executed(S))
  <2>1. \A s \in S : operation[s] \in Operations
    BY <1>2 DEF WaitsFor, Wants, Active, LocksTyped
  <2> QED BY <2>1 DEF Uncrossed, Executed
<1> DEFINE Height(s) == Rank(Executed(S), Wanted(s))
<1>4. \A s \in S : \E t \in S : Height(s) < Height(t)
  <2> SUFFICES ASSUME NEW s \in S
               PROVE  \E t \in S : Height(s) < Height(t)
    OBVIOUS
  <2>1. PICK t \in S : WaitsFor(s, t)
    BY <1>2
  <2>2. PICK u \in S : WaitsFor(t, u)
    BY <1>2
  <2> QED BY <1>3, <2>1, <2>2, WaitsRise
<1>5. \A s \in S : Height(s) \in 1..6
  BY RankRange
<1> HIDE DEF Height
<1>6. PICK s2 \in S : Height(s1) < Height(s2)
  BY <1>4
<1>7. PICK s3 \in S : Height(s2) < Height(s3)
  BY <1>4
<1>8. PICK s4 \in S : Height(s3) < Height(s4)
  BY <1>4
<1>9. PICK s5 \in S : Height(s4) < Height(s5)
  BY <1>4
<1>10. PICK s6 \in S : Height(s5) < Height(s6)
  BY <1>4
<1>11. PICK s7 \in S : Height(s6) < Height(s7)
  BY <1>4
<1> QED
  BY <1>5, <1>6, <1>7, <1>8, <1>9, <1>10, <1>11
-----------------------------------------------------------------------------
(* A session never has more locks than its operation takes. *)
THEOREM LocksTypeCorrect == LocksSpec => []LocksTyped
<1>1. LocksInit => LocksTyped
  BY DEF LocksInit, LocksTyped, Active
<1>2. LocksTyped /\ [LocksNext]_lockVars => LocksTyped'
  <2> SUFFICES ASSUME LocksTyped, [LocksNext]_lockVars PROVE LocksTyped'
    OBVIOUS
  <2>1. ASSUME NEW s \in Session, Begin(s) PROVE LocksTyped'
    <3>1. PICK o \in Operations : operation' = [operation EXCEPT ![s] = o]
      BY <2>1 DEF Begin
    <3>2. Len(Locks(o)) \in Nat /\ taken[s] = 0
      BY <2>1, LocksLength DEF Begin, LocksTyped
    <3> QED
      BY <2>1, <3>1, <3>2 DEF Begin, LocksTyped, Active
  <2>2. ASSUME NEW s \in Session, Take(s) PROVE LocksTyped'
    <3>1. Len(Locks(operation[s])) \in Nat
      BY <2>2, LocksLength DEF Take, LocksTyped, Active
    <3> QED
      BY <2>2, <3>1 DEF Take, LocksTyped, Active
  <2>3. ASSUME NEW s \in Session, End(s) PROVE LocksTyped'
    BY <2>3 DEF End, LocksTyped, Active
  <2>4. ASSUME NEW s \in Session, Abort(s) PROVE LocksTyped'
    BY <2>4 DEF Abort, LocksTyped, Active
  <2>5. CASE UNCHANGED lockVars
    BY <2>5 DEF lockVars, LocksTyped, Active
  <2> QED
    BY <2>1, <2>2, <2>3, <2>4, <2>5 DEF LocksNext
<1> QED
  BY <1>1, <1>2, PTL DEF LocksSpec

(* However many transactions of whatever kind there are, a circle of waits *)
(* has two operations in it that lock two rows in opposite orders.         *)
THEOREM OnlyCrossingsCircle == LocksSpec => []OnlyCrossingsDeadlock
<1>1. LocksTyped => OnlyCrossingsDeadlock
  BY CirclesCross
<1> QED
  BY <1>1, LocksTypeCorrect, PTL
=============================================================================
