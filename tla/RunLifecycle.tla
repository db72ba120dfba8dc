--------------------------- MODULE RunLifecycle ---------------------------
(***************************************************************************)
(* What a client of the platform is promised about a review run, with no   *)
(* database, process or coordinator in sight.  A run is accepted once,     *)
(* may be worked on, and reaches exactly one terminal state, which it      *)
(* keeps.  A run has its report from the step that completes it and has    *)
(* none otherwise.  ReviewExecution is shown to implement this module.     *)
(***************************************************************************)
EXTENDS Naturals

CONSTANT Run        \* the runs that may be created

VARIABLES
  state,            \* the state of each run
  reports           \* how many reports each run has

vars == <<state, reports>>

Open == {"queued", "active"}
Ended == {"completed", "failed", "cancelled"}

Init ==
  /\ state = [r \in Run |-> "absent"]
  /\ reports = [r \in Run |-> 0]

(* A client creates the run. *)
Accept(r) ==
  /\ state[r] = "absent"
  /\ state' = [state EXCEPT ![r] = "queued"]
  /\ UNCHANGED reports

(* The platform starts to work on the run. *)
Start(r) ==
  /\ state[r] = "queued"
  /\ state' = [state EXCEPT ![r] = "active"]
  /\ UNCHANGED reports

(* The run ends with its one report. *)
Complete(r) ==
  /\ state[r] = "active"
  /\ state' = [state EXCEPT ![r] = "completed"]
  /\ reports' = [reports EXCEPT ![r] = reports[r] + 1]

(* The client cancels a run that has not ended. *)
Cancel(r) ==
  /\ state[r] \in Open
  /\ state' = [state EXCEPT ![r] = "cancelled"]
  /\ UNCHANGED reports

(* Runs end without a report: one by an error, or every run that a restart *)
(* finds interrupted, at once.                                             *)
FailAll(S) ==
  /\ \A r \in S : state[r] \in Open
  /\ state' = [r \in Run |-> IF r \in S THEN "failed" ELSE state[r]]
  /\ UNCHANGED reports

Next ==
  \/ \E r \in Run : Accept(r) \/ Start(r) \/ Complete(r) \/ Cancel(r)
  \/ \E S \in SUBSET Run : FailAll(S)

Spec == Init /\ [][Next]_vars
=============================================================================
