----------------------- MODULE ReviewExecutionProofs -----------------------
(***************************************************************************)
(* For any set of runs and processes, with or without database faults:     *)
(* the rows of a run agree, a run has one report exactly when completed,   *)
(* answers are durable, ended runs never change, and ReviewExecution       *)
(* implements RunLifecycle.                                                *)
(*                                                                         *)
(* Every action writes the rows in one of seven ways (RowStep) and the     *)
(* answers in one of three (AnswerStep).  The invariants of the rows are   *)
(* proved of RowStep alone; each action is shown to be a RowStep once.     *)
(***************************************************************************)
EXTENDS ReviewExecution, TLAPS

Live(r) == run[r] \notin Terminal \cup {"absent"}

RowStep ==
  \/ UNCHANGED rows
  \/ \E r \in Run : run[r] = "absent" /\ AdmitRows(r)
  \/ \E p \in Proc, r \in Run : Claimable(r) /\ ClaimRows(p, r)
  \/ \E r \in Run : exec[r] = "running" /\ PreparedRows(r)
  \/ \E r \in Run : run[r] \in Working /\ CompleteRows(r)
  \/ \E S \in SUBSET Run, code \in ErrorCode \ {"none"} :
        (\A r \in S : Live(r)) /\ FailRows(S, code)
  \/ \E r \in Run : Live(r) /\ CancelRows(r)

AnswerStep ==
  \/ UNCHANGED answer
  \/ \E p \in Proc, r \in Run, a \in Answer :
        /\ answer' = [answer EXCEPT ![p][r] = a]
        /\ a \in Terminal => run'[r] = a
  \/ \E p \in Proc : answer' = [answer EXCEPT ![p] = [r \in Run |-> "none"]]

(* The part of the type invariant that is about the rows. *)
RowTypes ==
  /\ run \in [Run -> RunState]
  /\ exec \in [Run -> ExecState]
  /\ item \in [Run -> ItemState]
  /\ lease \in [Run -> Proc \cup {NoProc}]
  /\ error \in [Run -> ErrorCode]
  /\ reports \in [Run -> Nat]

(* A publication is in doubt only while its run is being worked on: the    *)
(* locks of its rows keep every other transaction from ending the run.     *)
DoubtIsWorking == \A r \in doubt : run[r] \in Working

IInv == TypeOK /\ RowsAgree /\ ReportIffCompleted /\ DoubtIsWorking /\ AnswerIsDurable
-----------------------------------------------------------------------------
(* What the seven ways of writing rows preserve. *)

(* A step of the rows keeps their types. *)
LEMMA RowStepTypes ==
  ASSUME RowTypes, RowStep
  PROVE  RowTypes'
<1> USE DEF RowTypes, RunState, ExecState, ItemState, Working, Terminal
<1>1. CASE UNCHANGED rows
  BY <1>1 DEF rows
<1>2. CASE \E r \in Run : run[r] = "absent" /\ AdmitRows(r)
  BY <1>2 DEF AdmitRows
<1>3. CASE \E p \in Proc, r \in Run : Claimable(r) /\ ClaimRows(p, r)
  BY <1>3 DEF ClaimRows
<1>4. CASE \E r \in Run : exec[r] = "running" /\ PreparedRows(r)
  BY <1>4 DEF PreparedRows
<1>5. CASE \E r \in Run : run[r] \in Working /\ CompleteRows(r)
  BY <1>5 DEF CompleteRows
<1>6. CASE \E S \in SUBSET Run, code \in ErrorCode \ {"none"} :
             (\A r \in S : Live(r)) /\ FailRows(S, code)
  BY <1>6 DEF FailRows
<1>7. CASE \E r \in Run : Live(r) /\ CancelRows(r)
  BY <1>7 DEF CancelRows
<1> QED BY <1>1, <1>2, <1>3, <1>4, <1>5, <1>6, <1>7 DEF RowStep

(* A step of the rows keeps the three rows of a run in agreement. *)
LEMMA RowStepAgreement ==
  ASSUME RowTypes, RowsAgree, RowStep
  PROVE  RowsAgree'
<1> SUFFICES ASSUME NEW s \in Run
             PROVE  Agreement(s)'
  BY DEF RowsAgree
<1>a. Agreement(s)
  BY DEF RowsAgree
<1> USE DEF RowTypes, RunState, ExecState, ItemState, Working, Terminal, Agreement
<1>1. CASE UNCHANGED rows
  BY <1>a, <1>1 DEF rows
<1>2. CASE \E r \in Run : run[r] = "absent" /\ AdmitRows(r)
  BY <1>a, <1>2 DEF AdmitRows
<1>3. CASE \E p \in Proc, r \in Run : Claimable(r) /\ ClaimRows(p, r)
  BY <1>a, <1>3 DEF ClaimRows, Claimable
<1>4. CASE \E r \in Run : exec[r] = "running" /\ PreparedRows(r)
  BY <1>a, <1>4 DEF PreparedRows
<1>5. CASE \E r \in Run : run[r] \in Working /\ CompleteRows(r)
  BY <1>a, <1>5 DEF CompleteRows
<1>6. CASE \E S \in SUBSET Run, code \in ErrorCode \ {"none"} :
             (\A r \in S : Live(r)) /\ FailRows(S, code)
  BY <1>a, <1>6 DEF FailRows, Live
<1>7. CASE \E r \in Run : Live(r) /\ CancelRows(r)
  BY <1>a, <1>7 DEF CancelRows, Live
<1> QED BY <1>1, <1>2, <1>3, <1>4, <1>5, <1>6, <1>7 DEF RowStep

(* A step of the rows leaves a run that has ended as it is, and gives a    *)
(* run a report just when it completes it.                                 *)
LEMMA RowStepEnds ==
  ASSUME RowTypes, RowsAgree, ReportIffCompleted, RowStep, NEW s \in Run
  PROVE  /\ reports'[s] = IF run'[s] = "completed" THEN 1 ELSE 0
         /\ run[s] \in Terminal =>
              /\ run'[s] = run[s] /\ exec'[s] = exec[s] /\ item'[s] = item[s]
              /\ error'[s] = error[s] /\ reports'[s] = reports[s]
<1>a. Agreement(s) /\ reports[s] = IF run[s] = "completed" THEN 1 ELSE 0
  BY DEF RowsAgree, ReportIffCompleted
<1> USE DEF RowTypes, RunState, ExecState, ItemState, Working, Terminal, Agreement
<1>1. CASE UNCHANGED rows
  BY <1>a, <1>1 DEF rows
<1>2. CASE \E r \in Run : run[r] = "absent" /\ AdmitRows(r)
  BY <1>a, <1>2 DEF AdmitRows
<1>3. CASE \E p \in Proc, r \in Run : Claimable(r) /\ ClaimRows(p, r)
  BY <1>a, <1>3 DEF ClaimRows, Claimable
<1>4. CASE \E r \in Run : exec[r] = "running" /\ PreparedRows(r)
  BY <1>a, <1>4 DEF PreparedRows
<1>5. CASE \E r \in Run : run[r] \in Working /\ CompleteRows(r)
  BY <1>a, <1>5 DEF CompleteRows
<1>6. CASE \E S \in SUBSET Run, code \in ErrorCode \ {"none"} :
             (\A r \in S : Live(r)) /\ FailRows(S, code)
  BY <1>a, <1>6 DEF FailRows, Live
<1>7. CASE \E r \in Run : Live(r) /\ CancelRows(r)
  BY <1>a, <1>7 DEF CancelRows, Live
<1> QED BY <1>1, <1>2, <1>3, <1>4, <1>5, <1>6, <1>7 DEF RowStep

(* Answers given by such a step, and those given before it, agree with the *)
(* database after it.                                                      *)
LEMMA AnswersStayTrue ==
  ASSUME TypeOK, RowsAgree, ReportIffCompleted, AnswerIsDurable, RowStep, AnswerStep
  PROVE  AnswerIsDurable' /\ answer' \in [Proc -> [Run -> Answer]]
<1>0. \A s \in Run : run[s] \in Terminal => run'[s] = run[s]
  BY RowStepEnds DEF TypeOK, RowTypes
<1>1. CASE UNCHANGED answer
  BY <1>0, <1>1 DEF AnswerIsDurable, TypeOK
<1>2. CASE \E p \in Proc, r \in Run, a \in Answer :
             /\ answer' = [answer EXCEPT ![p][r] = a]
             /\ a \in Terminal => run'[r] = a
  BY <1>0, <1>2 DEF AnswerIsDurable, TypeOK
<1>3. CASE \E p \in Proc : answer' = [answer EXCEPT ![p] = [r \in Run |-> "none"]]
  BY <1>0, <1>3 DEF AnswerIsDurable, TypeOK, Answer, Terminal
<1> QED BY <1>1, <1>2, <1>3 DEF AnswerStep
-----------------------------------------------------------------------------
(* Every action is such a step. *)

OpTypes == op \in [Proc -> [Run -> Phase]]

(* Moving an operation to a phase gives no answer. *)
LEMMA GoEffect ==
  ASSUME OpTypes, NEW p \in Proc, NEW r \in Run, NEW phase \in Phase, Go(p, r, phase)
  PROVE  OpTypes' /\ AnswerStep
BY DEF OpTypes, Go, AnswerStep

(* Finishing an operation gives its one answer. *)
LEMMA FinishEffect ==
  ASSUME OpTypes, NEW p \in Proc, NEW r \in Run, NEW a \in Answer, Finish(p, r, a),
         a \in Terminal => run'[r] = a
  PROVE  OpTypes' /\ AnswerStep
<1>1. "done" \in Phase
  BY DEF Phase
<1> QED BY <1>1 DEF OpTypes, Finish, AnswerStep

(* An operation leaves the lives of the processes and the clock alone. *)
OtherTypes ==
  /\ late \in [Run -> BOOLEAN]
  /\ doubt \subseteq Run
  /\ owner \in Proc \cup {NoProc}
  /\ proc \in [Proc -> {"down", "up", "stopping"}]
  /\ group \in [Proc -> BOOLEAN]

(* The rows an operation writes. *)
LEMMA StepRows ==
  ASSUME IInv, NEW p \in Proc, NEW r \in Run, Step(p, r)
  PROVE  RowStep
<1>a. Agreement(r) /\ run[r] \in RunState
  BY DEF IInv, TypeOK, RowsAgree
<1>0. CASE UNCHANGED rows
  BY <1>0 DEF RowStep
<1>1. CASE Admit(p, r)
  BY <1>1 DEF Admit, RowStep
<1>2. CASE ClaimGranted(p, r)
  BY <1>2 DEF ClaimGranted, RowStep
<1>3. CASE SavePrepared(p, r)
  BY <1>0, <1>3 DEF SavePrepared, Owned, RowStep
<1>4. CASE PublishCommits(p, r)
  BY <1>4 DEF PublishCommits, Publishable, RowStep
<1>5. CASE \E phase \in Finalizing : Owned(p, r) /\ FailRows({r}, FailureCode(phase))
  <2>1. PICK phase \in Finalizing : Owned(p, r) /\ FailRows({r}, FailureCode(phase))
    BY <1>5
  <2>2. FailureCode(phase) \in ErrorCode \ {"none"}
    BY DEF FailureCode, Finalizing, ErrorCode
  <2>3. Live(r)
    BY <1>a, <2>1 DEF Owned, Live, Agreement, Terminal
  <2>4. {r} \in SUBSET Run /\ \A s \in {r} : Live(s)
    BY <2>3
  <2> QED BY <2>1, <2>2, <2>4 DEF RowStep
<1>6. CASE FailAnswered(p, r)
  BY <1>0, <1>5, <1>6 DEF FailAnswered
<1>7. CASE FailRefused(p, r)
  BY <1>0, <1>5, <1>7 DEF FailRefused
<1>8. CASE \/ Replay(p, r) \/ ClaimRefused(p, r) \/ Generate(p, r) \/ PhaseRaises(p, r)
           \/ Timeout(p, r) \/ Interrupt(p, r) \/ PublishUnknown(p, r)
           \/ PublishRefused(p, r) \/ Reread(p, r)
  BY <1>0, <1>8 DEF Replay, ClaimRefused, Generate, PhaseRaises, Timeout, Interrupt,
                    PublishUnknown, PublishRefused, Reread, rows
<1> QED BY <1>1, <1>2, <1>3, <1>4, <1>6, <1>7, <1>8 DEF Step

(* The phases an operation goes through and the answers it gives. *)
LEMMA StepAnswers ==
  ASSUME IInv, NEW p \in Proc, NEW r \in Run, Step(p, r)
  PROVE  OpTypes' /\ AnswerStep
<1>a. Agreement(r) /\ run \in [Run -> RunState] /\ exec \in [Run -> ExecState] /\ OpTypes
  BY DEF IInv, TypeOK, RowsAgree, OpTypes
<1>0. CASE \E phase \in Phase : Go(p, r, phase)
  BY <1>a, <1>0, GoEffect
<1>d. ASSUME NEW a \in Answer, Finish(p, r, a), a \in Terminal => run'[r] = a
      PROVE  OpTypes' /\ AnswerStep
  BY <1>a, <1>d, FinishEffect
<1>1. CASE Admit(p, r)
  BY <1>a, <1>0, <1>1 DEF Admit, Phase, OpTypes, AnswerStep
<1>2. CASE \/ ClaimGranted(p, r) \/ ClaimRefused(p, r) \/ SavePrepared(p, r)
           \/ Generate(p, r) \/ PhaseRaises(p, r) \/ Timeout(p, r) \/ Interrupt(p, r)
           \/ PublishUnknown(p, r)
  BY <1>0, <1>2 DEF ClaimGranted, ClaimRefused, SavePrepared, Generate, PhaseRaises, Timeout,
                    Interrupt, PublishUnknown, Phase, Executing, Cancellable, Finalizing
<1>3. CASE Replay(p, r)
  BY <1>d, <1>3 DEF Replay, rows, Answer
<1>4. CASE PublishCommits(p, r)
  <2>1. run'[r] = "completed" /\ "completed" \in Answer /\ "failing" \in Phase
    BY <1>a, <1>4 DEF PublishCommits, CompleteRows, Answer, Terminal, Phase, Executing, Finalizing
  <2> QED BY <1>0, <1>d, <1>4, <2>1 DEF PublishCommits
<1>c. Cancelled(r) => run[r] = "cancelled"
  BY <1>a DEF Cancelled, Agreement, RunState, Working, Terminal
<1>5. CASE PublishRefused(p, r)
  <2>1. "cancelled" \in Answer /\ "failing" \in Phase /\ "timedout" \in Phase
    BY DEF Answer, Terminal, Phase, Executing, Finalizing
  <2> QED BY <1>0, <1>d, <1>c, <1>5, <2>1 DEF PublishRefused, rows
<1>6. CASE Reread(p, r)
  <2>1. Terminal \subseteq Answer /\ "failing" \in Phase
    BY DEF Answer, Phase, Executing, Finalizing
  <2> QED BY <1>0, <1>d, <1>6, <2>1 DEF Reread, rows
<1>7. CASE FailAnswered(p, r)
  <2>1. Terminal \subseteq Answer /\ {"completed", "failed", "cancelled"} = Terminal
    BY DEF Answer, Terminal
  <2>2. CASE Cancelled(r) /\ Finish(p, r, "cancelled") /\ UNCHANGED rows
    BY <1>d, <1>c, <2>1, <2>2 DEF rows
  <2>3. CASE Completed(r) /\ Finish(p, r, "completed") /\ UNCHANGED rows
    BY <1>d, <2>1, <2>3 DEF rows, Completed
  <2>4. CASE Finish(p, r, "failed") /\ FailRows({r}, FailureCode(op[p][r]))
    <3>1. run'[r] = "failed"
      BY <1>a, <2>4 DEF FailRows
    <3> QED BY <1>d, <2>1, <2>4, <3>1
  <2> QED BY <1>7, <2>2, <2>3, <2>4 DEF FailAnswered
<1>8. CASE FailRefused(p, r)
  <2>1. {"nothing", "raised"} \subseteq Answer /\ {"nothing", "raised"} \cap Terminal = {}
    BY DEF Answer, Terminal
  <2> QED BY <1>d, <1>8, <2>1 DEF FailRefused, FinalizationRaises
<1> QED BY <1>1, <1>2, <1>3, <1>4, <1>5, <1>6, <1>7, <1>8 DEF Step

(* An operation leaves the clock and the processes alone, but for a failed *)
(* finalization; a publication it leaves in doubt is of a run it works on. *)
LEMMA StepOthers ==
  ASSUME IInv, NEW p \in Proc, NEW r \in Run, Step(p, r)
  PROVE  OtherTypes' /\ DoubtIsWorking'
<1>a. OtherTypes /\ DoubtIsWorking /\ Agreement(r) /\ run \in [Run -> RunState]
  BY DEF IInv, TypeOK, RowsAgree, OtherTypes
<1>0. CASE UNCHANGED <<run, late, doubt, memory>>
  BY <1>a, <1>0 DEF OtherTypes, DoubtIsWorking, memory
<1>1. CASE Admit(p, r)
  BY <1>a, <1>1 DEF Admit, AdmitRows, OtherTypes, DoubtIsWorking, memory, Working
<1>2. CASE ClaimGranted(p, r)
  BY <1>a, <1>2 DEF ClaimGranted, ClaimRows, OtherTypes, DoubtIsWorking, memory, Working
<1>3. CASE SavePrepared(p, r)
  BY <1>a, <1>0, <1>3
     DEF SavePrepared, PreparedRows, OtherTypes, DoubtIsWorking, memory, rows, Working
<1>4. CASE PublishCommits(p, r)
  BY <1>a, <1>4 DEF PublishCommits, CompleteRows, OtherTypes, DoubtIsWorking, memory
<1>5. CASE PublishUnknown(p, r)
  BY <1>a, <1>5 DEF PublishUnknown, Publishable, OtherTypes, DoubtIsWorking, memory, rows
<1>6. CASE FailAnswered(p, r)
  BY <1>a, <1>6 DEF FailAnswered, FailRows, OtherTypes, DoubtIsWorking, memory, rows
<1>7. CASE FailRefused(p, r)
  BY <1>a, <1>7 DEF FailRefused, FinalizationRaises, EscapesFrom, FailRows, OtherTypes,
                    DoubtIsWorking, rows
<1>8. CASE \/ Replay(p, r) \/ ClaimRefused(p, r) \/ Generate(p, r) \/ PhaseRaises(p, r)
           \/ Timeout(p, r) \/ Interrupt(p, r) \/ PublishRefused(p, r) \/ Reread(p, r)
  BY <1>0, <1>8 DEF Replay, ClaimRefused, Generate, PhaseRaises, Timeout, Interrupt,
                    PublishRefused, Reread, rows
<1> QED BY <1>1, <1>2, <1>3, <1>4, <1>5, <1>6, <1>7, <1>8 DEF Step

Effects == RowStep /\ AnswerStep /\ OpTypes' /\ OtherTypes' /\ DoubtIsWorking'

(* A step that changes only the clock, a process or its group. *)
LEMMA QuietEffects ==
  ASSUME IInv, UNCHANGED <<rows, doubt, op, answer>>, OtherTypes'
  PROVE  Effects
BY DEF IInv, TypeOK, Effects, RowStep, AnswerStep, OpTypes, DoubtIsWorking, rows

(* A process that vanishes takes its operations and their waiters along. *)
LEMMA VanishEffects ==
  ASSUME IInv, NEW p \in Proc, Vanish(p)
  PROVE  Effects
<1>1. OtherTypes'
  BY DEF IInv, TypeOK, OtherTypes, Vanish
<1>2. OpTypes' /\ AnswerStep
  BY DEF IInv, TypeOK, OpTypes, AnswerStep, Vanish, Phase
<1>3. RowStep /\ DoubtIsWorking'
  BY DEF IInv, DoubtIsWorking, RowStep, Vanish, rows
<1> QED BY <1>1, <1>2, <1>3 DEF Effects

(* Every step, of an operation or around it, has these effects. *)
LEMMA NextEffects ==
  ASSUME IInv, [Next]_vars
  PROVE  Effects
<1>a. OtherTypes /\ OpTypes /\ DoubtIsWorking /\ run \in [Run -> RunState] /\ RowsAgree
  BY DEF IInv, TypeOK, OtherTypes, OpTypes
<1>0. CASE UNCHANGED vars
  BY <1>a, <1>0, QuietEffects DEF vars, memory, OtherTypes
<1>1. CASE \E p \in Proc, r \in Run : Step(p, r)
  BY <1>1, StepRows, StepAnswers, StepOthers DEF Effects
<1>2. ASSUME NEW r \in Run, Settle(r)
      PROVE  Effects
  <2>1. RowStep
    BY <1>a, <1>2 DEF Settle, RowStep, DoubtIsWorking
  <2>2. DoubtIsWorking'
    BY <1>a, <1>2 DEF Settle, DoubtIsWorking, OtherTypes, CompleteRows, rows
  <2> QED BY <1>a, <1>2, <2>1, <2>2 DEF Settle, Effects, OtherTypes, OpTypes, AnswerStep, memory
<1>3. ASSUME NEW r \in Run, CancelRun(r)
      PROVE  Effects
  <2>1. RowStep
    BY <1>3 DEF CancelRun, RowStep, Live
  <2>2. DoubtIsWorking'
    BY <1>a, <1>3 DEF CancelRun, CancelRows, DoubtIsWorking
  <2> QED BY <1>a, <1>3, <2>1, <2>2 DEF CancelRun, Effects, OtherTypes, OpTypes, AnswerStep, memory
<1>4. ASSUME NEW r \in Run, PassDeadline(r)
      PROVE  Effects
  BY <1>a, <1>4, QuietEffects DEF PassDeadline, OtherTypes, memory
<1>5. ASSUME NEW p \in Proc, Startup(p)
      PROVE  Effects
  <2>1. Interrupted \in SUBSET Run /\ \A r \in Interrupted : Live(r)
    BY <1>a DEF Interrupted, Live, RowsAgree, Agreement
  <2>2. RowStep
    BY <1>5, <2>1 DEF Startup, RowStep, ErrorCode
  <2> QED BY <1>a, <1>5, <2>2 DEF Startup, Effects, OtherTypes, OpTypes, AnswerStep, DoubtIsWorking
<1>6. ASSUME NEW p \in Proc, LoseOwnership(p) \/ BeginShutdown(p) \/ GraceOver(p)
      PROVE  Effects
  BY <1>a, <1>6, QuietEffects DEF LoseOwnership, BeginShutdown, GraceOver, OtherTypes
<1>7. ASSUME NEW p \in Proc, StopDone(p) \/ Crash(p)
      PROVE  Effects
  BY <1>7, VanishEffects DEF StopDone, Crash
<1> QED BY <1>0, <1>1, <1>2, <1>3, <1>4, <1>5, <1>6, <1>7 DEF Next
-----------------------------------------------------------------------------
(* The inductive invariant. *)

(* The strengthened invariant holds initially. *)
LEMMA InitIInv == Init => IInv
BY DEF Init, IInv, TypeOK, RowsAgree, Agreement, ReportIffCompleted, DoubtIsWorking, AnswerIsDurable,
       RunState, ExecState, ItemState, ErrorCode, Phase, Answer, Terminal, Working

(* Every step preserves it. *)
LEMMA NextIInv == IInv /\ [Next]_vars => IInv'
<1> SUFFICES ASSUME IInv, [Next]_vars
             PROVE  IInv'
  OBVIOUS
<1>1. Effects
  BY NextEffects
<1>2. RowTypes
  BY DEF IInv, TypeOK, RowTypes
<1>3. RowTypes' /\ RowsAgree' /\ ReportIffCompleted'
  BY <1>1, <1>2, RowStepTypes, RowStepAgreement, RowStepEnds DEF IInv, Effects, ReportIffCompleted
<1>4. AnswerIsDurable' /\ answer' \in [Proc -> [Run -> Answer]]
  BY <1>1, AnswersStayTrue DEF IInv, Effects
<1> QED BY <1>1, <1>3, <1>4 DEF IInv, TypeOK, Effects, RowTypes, OpTypes, OtherTypes

(* The strengthened invariant: types, the agreement of the rows, reports,  *)
(* answers, and that only a run being worked on has a publication in doubt. *)
THEOREM Invariance == Spec => []IInv
BY InitIInv, NextIInv, PTL DEF Spec

(* The rows and the coordinators hold only values the code writes. *)
THEOREM TypeCorrect == Spec => []TypeOK
BY Invariance, PTL DEF IInv

(* The run, execution and work-item rows never contradict each other,      *)
(* whatever the interleaving of six transactions and of takeovers.         *)
THEOREM RowsAlwaysAgree == Spec => []RowsAgree
BY Invariance, PTL DEF IInv

(* No run has two reports, and only completed runs have one. *)
THEOREM OneReport == Spec => []ReportIffCompleted
BY Invariance, PTL DEF IInv

(* What wait() returned is what the database says from then on. *)
THEOREM AnswersAreDurable == Spec => []AnswerIsDurable
BY Invariance, PTL DEF IInv

(* No transaction, late or misplaced, changes a run that has ended. *)
THEOREM EndsArePermanent == Spec => TerminalIsPermanent
<1>1. IInv /\ [Next]_vars =>
        [\A r \in Run : run[r] \in Terminal =>
           /\ run'[r] = run[r] /\ exec'[r] = exec[r] /\ item'[r] = item[r]
           /\ error'[r] = error[r] /\ reports'[r] = reports[r]]_vars
  BY NextEffects, RowStepEnds DEF IInv, TypeOK, RowTypes, Effects
<1> QED BY <1>1, Invariance, PTL DEF Spec, TerminalIsPermanent
-----------------------------------------------------------------------------
(* Running runs are executed. *)

(* A process that comes up finds no run running: reconciliation has ended  *)
(* all that its predecessors left.                                         *)
LEMMA StartupLeavesNoneRunning ==
  ASSUME IInv, NEW p \in Proc, Startup(p)
  PROVE  \A r \in Run : exec'[r] # "running"
<1> SUFFICES ASSUME NEW r \in Run
             PROVE  exec'[r] # "running"
  OBVIOUS
<1>1. exec[r] = "running" => r \in Interrupted
  BY DEF IInv, TypeOK, RowsAgree, Agreement, Interrupted, Working, Terminal
<1> QED BY <1>1 DEF Startup, FailRows

(* What makes one run running in the name of one process. *)
Claimed(p, r) == exec[r] = "running" /\ lease[r] = p /\ proc[p] = "up"

(* An operation that is not over goes on executing, unless its run ends or *)
(* was taken from it; a claim is the only way into it.                     *)
LEMMA StepExecutes ==
  ASSUME IInv, RunningIsExecuted, NEW p \in Proc, NEW r \in Run, Step(p, r),
         NEW q \in Proc \ Faulty, NEW s \in Run, Claimed(q, s)'
  PROVE  op'[q][s] \in Executing
<1>a. /\ op \in [Proc -> [Run -> Phase]] /\ exec \in [Run -> ExecState]
      /\ lease \in [Run -> Proc \cup {NoProc}] /\ Agreement(r) /\ Agreement(s)
      /\ run \in [Run -> RunState] /\ proc \in [Proc -> {"down", "up", "stopping"}]
  BY DEF IInv, TypeOK, RowsAgree
<1>b. Claimed(q, s) => op[q][s] \in Executing
  BY DEF RunningIsExecuted, Claimed
<1>e. /\ {"admitted", "none"} \cap Executing = {}
      /\ {"preparing", "generating", "publishing", "rereading", "failing", "timedout",
          "interrupted"} \subseteq Executing
  BY DEF Executing, Cancellable, Finalizing
<1>0. ASSUME UNCHANGED <<exec, lease, proc>>,
             \/ UNCHANGED op
             \/ \E phase \in Executing : op' = [op EXCEPT ![p][r] = phase]
      PROVE  op'[q][s] \in Executing
  BY <1>a, <1>b, <1>0 DEF Claimed
<1>1. CASE Admit(p, r)
  BY <1>a, <1>b, <1>e, <1>1 DEF Admit, AdmitRows, Go, Claimed, memory
<1>2. CASE Replay(p, r)
  BY <1>a, <1>b, <1>2 DEF Replay, Finish, Claimed, memory, rows, Agreement, Terminal
<1>3. CASE ClaimGranted(p, r)
  BY <1>a, <1>b, <1>e, <1>3 DEF ClaimGranted, ClaimRows, Go, Claimed, memory
<1>4. CASE ClaimRefused(p, r)
  BY <1>a, <1>b, <1>e, <1>4 DEF ClaimRefused, Go, Claimed, memory, rows
<1>5. CASE SavePrepared(p, r)
  BY <1>0, <1>e, <1>5 DEF SavePrepared, PreparedRows, Go, memory, rows
<1>6. CASE Generate(p, r) \/ PhaseRaises(p, r) \/ Timeout(p, r) \/ Interrupt(p, r)
           \/ PublishUnknown(p, r)
  BY <1>0, <1>e, <1>6 DEF Generate, PhaseRaises, Timeout, Interrupt, PublishUnknown, Go, memory,
                          rows
<1>c. /\ Cancelled(r) => exec[r] # "running"
      /\ run[r] \in Terminal => exec[r] # "running"
  BY <1>a DEF Cancelled, Agreement, Terminal
<1>d. ASSUME UNCHANGED <<exec, lease, proc>>, exec[r] # "running" \/ lease[r] # p,
             NEW a, Finish(p, r, a)
      PROVE  op'[q][s] \in Executing
  BY <1>a, <1>b, <1>d DEF Finish, Claimed
<1>f. ASSUME exec' = [exec EXCEPT ![r] = "completed"] \/ \E code : FailRows({r}, code),
             UNCHANGED <<lease, proc>>,
             \E x : op' = [op EXCEPT ![p][r] = x]
      PROVE  op'[q][s] \in Executing
  BY <1>a, <1>b, <1>f DEF FailRows, Claimed
<1>7. CASE PublishCommits(p, r)
  BY <1>f, <1>7 DEF PublishCommits, CompleteRows, Finish, Go, memory
<1>8. CASE PublishRefused(p, r)
  BY <1>0, <1>c, <1>d, <1>e, <1>8 DEF PublishRefused, Go, memory, rows
<1>9. CASE Reread(p, r)
  BY <1>0, <1>c, <1>d, <1>e, <1>9 DEF Reread, Go, memory, rows
<1>10. CASE FailAnswered(p, r)
  <2>1. CASE Owned(p, r) /\ Finish(p, r, "failed") /\ FailRows({r}, FailureCode(op[p][r]))
    BY <1>f, <1>10, <2>1 DEF FailAnswered, Finish, memory, FailRows
  <2> QED BY <1>c, <1>d, <1>10, <2>1 DEF FailAnswered, Completed, memory, rows
<1>11. CASE FailRefused(p, r)
  <2>1. proc' = proc /\ \E a : Finish(p, r, a)
    BY <1>11 DEF FailRefused, FinalizationRaises
  <2>2. CASE ~Owned(p, r) /\ UNCHANGED rows
    BY <1>d, <2>1, <2>2 DEF Owned, rows
  <2>3. CASE p \in Faulty
    BY <1>a, <1>b, <1>11, <2>1, <2>3 DEF FailRefused, Finish, FailRows, Claimed, rows
  <2> QED BY <1>11, <2>2, <2>3 DEF FailRefused
<1> QED BY <1>1, <1>2, <1>3, <1>4, <1>5, <1>6, <1>7, <1>8, <1>9, <1>10, <1>11 DEF Step

(* Neither the clients nor the clock nor the end of another process take   *)
(* an operation from a process that is up.                                 *)
LEMMA NextExecutes ==
  ASSUME IInv, RunningIsExecuted, [Next]_vars
  PROVE  RunningIsExecuted'
<1> SUFFICES ASSUME NEW q \in Proc \ Faulty, NEW s \in Run, Claimed(q, s)'
             PROVE  op'[q][s] \in Executing
  BY DEF RunningIsExecuted, Claimed
<1>a. /\ op \in [Proc -> [Run -> Phase]] /\ exec \in [Run -> ExecState]
      /\ proc \in [Proc -> {"down", "up", "stopping"}]
  BY DEF IInv, TypeOK
<1>b. Claimed(q, s) => op[q][s] \in Executing
  BY DEF RunningIsExecuted, Claimed
<1>0. CASE UNCHANGED vars
  BY <1>b, <1>0 DEF vars, rows, memory, Claimed
<1>1. ASSUME NEW p \in Proc, NEW r \in Run, Step(p, r)
      PROVE  op'[q][s] \in Executing
  BY <1>1, StepExecutes
<1>2. ASSUME NEW r \in Run, Settle(r) \/ CancelRun(r) \/ PassDeadline(r)
      PROVE  op'[q][s] \in Executing
  BY <1>a, <1>b, <1>2 DEF Settle, CancelRun, PassDeadline, CompleteRows, CancelRows, Claimed,
                          memory, rows
<1>3. ASSUME NEW p \in Proc, Startup(p)
      PROVE  op'[q][s] \in Executing
  BY <1>3, StartupLeavesNoneRunning DEF Claimed
<1>4. ASSUME NEW p \in Proc, LoseOwnership(p) \/ BeginShutdown(p) \/ GraceOver(p)
      PROVE  op'[q][s] \in Executing
  BY <1>a, <1>b, <1>4 DEF LoseOwnership, BeginShutdown, GraceOver, Claimed, rows
<1>5. ASSUME NEW p \in Proc, Vanish(p)
      PROVE  op'[q][s] \in Executing
  BY <1>a, <1>b, <1>5 DEF Vanish, Claimed, rows
<1> QED BY <1>0, <1>1, <1>2, <1>3, <1>4, <1>5 DEF Next, StopDone, Crash

(* A run marked running by a process that is up is being executed by it,   *)
(* through cancellations, refused commits and takeovers by others.         *)
THEOREM RunningRunsAreExecuted == Spec => []RunningIsExecuted
<1>1. Init => RunningIsExecuted
  BY DEF Init, RunningIsExecuted
<1>2. IInv /\ RunningIsExecuted /\ [Next]_vars => RunningIsExecuted'
  BY NextExecutes
<1> QED BY <1>1, <1>2, Invariance, PTL DEF Spec
-----------------------------------------------------------------------------
(* The implementation of RunLifecycle. *)

ClientState == [r \in Run |-> IF run[r] \in Working THEN "active" ELSE run[r]]

(* A way of writing rows is one step of RunLifecycle, or invisible in it.  *)
LEMMA RowStepImplements ==
  ASSUME RowTypes, RowsAgree, RowStep
  PROVE  [Lifecycle!Next]_(Lifecycle!vars)
<1> USE DEF RowTypes
<1>a. \A r \in Run : Agreement(r) /\ run[r] \in RunState
  BY DEF RowsAgree
<1>q. ASSUME UNCHANGED reports, \A r \in Run : (run'[r] \in Working <=> run[r] \in Working)
                                         /\ (run[r] \notin Working => run'[r] = run[r])
      PROVE  UNCHANGED Lifecycle!vars
  BY <1>q DEF Lifecycle!vars
<1>1. CASE UNCHANGED rows
  BY <1>1 DEF rows, Lifecycle!vars
<1>2. ASSUME NEW r \in Run, run[r] = "absent", AdmitRows(r)
      PROVE  Lifecycle!Accept(r)
  BY <1>2 DEF AdmitRows, Lifecycle!Accept, Working
<1>3. ASSUME NEW p \in Proc, NEW r \in Run, Claimable(r), ClaimRows(p, r)
      PROVE  Lifecycle!Start(r)
  BY <1>3 DEF Claimable, ClaimRows, Lifecycle!Start, Working
<1>4. ASSUME NEW r \in Run, exec[r] = "running", PreparedRows(r)
      PROVE  UNCHANGED Lifecycle!vars
  BY <1>4, <1>q DEF PreparedRows, Working
<1>5. ASSUME NEW r \in Run, run[r] \in Working, CompleteRows(r)
      PROVE  Lifecycle!Complete(r)
  BY <1>5 DEF CompleteRows, Lifecycle!Complete, Working
<1>6. ASSUME NEW S \in SUBSET Run, NEW code, \A r \in S : Live(r), FailRows(S, code)
      PROVE  Lifecycle!FailAll(S)
  <2>1. \A r \in S : ClientState[r] \in Lifecycle!Open
    BY <1>a, <1>6 DEF Live, ClientState, Lifecycle!Open, RunState, Working, Terminal
  <2>2. \A r \in Run : ClientState'[r] = IF r \in S THEN "failed" ELSE ClientState[r]
    BY <1>6 DEF FailRows, ClientState, Working
  <2> QED BY <1>6, <2>1, <2>2 DEF FailRows, ClientState, Lifecycle!FailAll
<1>7. ASSUME NEW r \in Run, Live(r), CancelRows(r)
      PROVE  Lifecycle!Cancel(r)
  BY <1>a, <1>7 DEF Live, CancelRows, Lifecycle!Cancel, Lifecycle!Open, RunState, Working, Terminal
<1> QED BY <1>1, <1>2, <1>3, <1>4, <1>5, <1>6, <1>7 DEF RowStep, Lifecycle!Next

(* What a client is promised of a run holds of the rows, coordinators and  *)
(* takeovers, for any number of runs and processes.                        *)
THEOREM Implementation == Spec => ImplementsLifecycle
<1>1. Init => Lifecycle!Init
  BY DEF Init, Lifecycle!Init, Working
<1>2. IInv /\ [Next]_vars => [Lifecycle!Next]_(Lifecycle!vars)
  BY NextEffects, RowStepImplements DEF IInv, TypeOK, RowTypes, Effects
<1> QED BY <1>1, <1>2, Invariance, PTL DEF Spec, ImplementsLifecycle, Lifecycle!Spec
=============================================================================
