------------------------------- MODULE RunWatch -------------------------------
(***************************************************************************)
(* Review runs as the pages of the web client watch them: the query of a   *)
(* run, its polling until the run ends, and the control that cancels it    *)
(* (apps/web: use-review-run.ts, polling.ts, CancelRunControl.tsx,         *)
(* RunPage.tsx, ReviewWorkspaceLayout.tsx).  NewReview composes it with    *)
(* the form that starts runs.                                              *)
(*                                                                         *)
(* How the service executes a run is ReviewExecution; here it is reduced   *)
(* to the states a page tells apart.  A page that is left gives up its     *)
(* queries; a promise that was under way goes on without it.               *)
(***************************************************************************)
EXTENDS Naturals, Sequences, FiniteSets

CONSTANTS
  Run,           \* runs of the workspace
  CancelCall,    \* calls of cancel() that may overlap
  NoData,        \* nothing in the cache yet
  Disturbances   \* lost requests, second clicks, cancellations, changes of a model, at most

ASSUME DisturbanceAssumption == Disturbances \in Nat
ASSUME NamesAssumption ==
  Run \cap {"home", "new"} = {} /\ NoData \notin {"active", "ended", "cancelled"}

VARIABLES
  run,         \* the state of every run in the database
  page,        \* the run whose page is shown, or the name of another page
  query,       \* the query of every run
  cancel,      \* the calls of cancel() under way
  disturbed    \* disturbances so far

watchVars == <<run, query, cancel>>

Q == INSTANCE QueryCache

Terminal == {"ended", "cancelled"}
Seen == {"active"} \cup Terminal
NoCancel == [step |-> "free"]

WatchInit ==
  /\ run = [r \in Run |-> "none"]
  /\ query = [r \in Run |-> Q!Empty]
  /\ cancel = [c \in CancelCall |-> NoCancel]

Disturb == disturbed < Disturbances /\ disturbed' = disturbed + 1

Shows(r) == page = r /\ Q!Loaded(query[r])
Ended(state) == state \in Terminal

(* Another page: the last observer of the old query gives it up; the new   *)
(* one starts a fetch, unless what it has is still fresh.                  *)
GoTo(target) ==
  /\ page' = target
  /\ cancel' = [c \in CancelCall |->
                  IF cancel[c].step = "free" THEN NoCancel ELSE [cancel[c] EXCEPT !.mounted = FALSE]]
  /\ LET left == [r \in Run |-> IF r = page THEN Q!Idle(query[r]) ELSE query[r]]
     IN  \/ target \in Run /\ query' = [left EXCEPT ![target] = Q!Fetch(@)]
         \/ (target \in Run => Q!Loaded(left[target])) /\ query' = left
-----------------------------------------------------------------------------
(* The query of the run. *)

(* The focus of the window, "Повторить" or "Обновить состояние". *)
LoadRun ==
  /\ page \in Run
  /\ \E q \in {Q!Fetch(query[page]), Q!Refetch(query[page], {})} :
       query' = [query EXCEPT ![page] = q]
  /\ UNCHANGED <<run, page, cancel, disturbed>>

(* runPollInterval(): until the run has been seen, and then until its end. *)
PollRunVariant ==
  /\ page \in Run
  /\ Q!Loaded(query[page]) /\ ~Ended(query[page].data)
  /\ ~Q!Fetching(query[page])
  /\ query' = [query EXCEPT ![page] = Q!Fetch(@)]
  /\ UNCHANGED <<run, page, cancel, disturbed>>

PollRun ==
  /\ page \in Run
  /\ Q!Loaded(query[page]) => ~Ended(query[page].data)
  /\ ~Q!Fetching(query[page])
  /\ query' = [query EXCEPT ![page] = Q!Fetch(@)]
  /\ UNCHANGED <<run, page, cancel, disturbed>>

GetRun(r) ==
  /\ query[r].fetch = "sent"
  /\ query' = [query EXCEPT ![r] = Q!Answered(@, run[r])]
  /\ UNCHANGED <<run, page, cancel, disturbed>>

ReceiveRun(r) ==
  /\ \/ query[r].fetch = "answered" /\ query' = [query EXCEPT ![r] = Q!Received(@)]
        /\ UNCHANGED disturbed
     \/ Q!Fetching(query[r]) /\ query' = [query EXCEPT ![r] = Q!Idle(@)] /\ Disturb
  /\ UNCHANGED <<run, page, cancel>>
-----------------------------------------------------------------------------
(* The service, and the control that cancels. *)

EndRun(r) ==
  /\ run[r] = "active" /\ run' = [run EXCEPT ![r] = "ended"]
  /\ UNCHANGED <<page, query, cancel, disturbed>>

Cancelling == \E c \in CancelCall : cancel[c].step # "free" /\ cancel[c].mounted

Cancel(c) ==
  /\ page \in Run /\ Shows(page) /\ ~Ended(query[page].data) /\ ~Cancelling
  /\ cancel[c].step = "free"
  /\ cancel' = [cancel EXCEPT ![c] = [step |-> "sent", run |-> page, mounted |-> TRUE]]
  /\ Disturb
  /\ UNCHANGED <<run, page, query>>

(* A run that has not ended is cancelled at once; one that has is refused. *)
CancelRun(c) ==
  /\ cancel[c].step = "sent"
  /\ IF Ended(run[cancel[c].run])
       THEN cancel' = [cancel EXCEPT ![c].step = "refused"] /\ UNCHANGED run
       ELSE /\ cancel' = [cancel EXCEPT ![c].step = "accepted"]
            /\ run' = [run EXCEPT ![cancel[c].run] = "cancelled"]
  /\ UNCHANGED <<page, query, disturbed>>

(* A poll started before the cancellation must not overwrite its state.    *)
CancelConfirmedVariant(c) ==
  /\ cancel[c].step = "accepted"
  /\ query' = [query EXCEPT ![cancel[c].run] = Q!SetData(@, "cancelled")]
  /\ cancel' = [cancel EXCEPT ![c] = NoCancel]
  /\ UNCHANGED <<run, page, disturbed>>

CancelConfirmed(c) ==
  /\ cancel[c].step = "accepted"
  /\ query' = [query EXCEPT ![cancel[c].run] = Q!SetData(Q!Cancel(@), "cancelled")]
  /\ cancel' = [cancel EXCEPT ![c] = NoCancel]
  /\ UNCHANGED <<run, page, disturbed>>

(* Refused or lost: the state is asked for again, if the run is shown.     *)
CancelFails(c) ==
  /\ \/ cancel[c].step = "refused" /\ UNCHANGED disturbed
     \/ cancel[c].step \in {"sent", "accepted"} /\ Disturb
  /\ query' = IF cancel[c].run = page
              THEN [query EXCEPT ![page] = Q!Refetch(@, {})] ELSE query
  /\ cancel' = [cancel EXCEPT ![c] = NoCancel]
  /\ UNCHANGED <<run, page>>

WatchNext ==
  \/ LoadRun \/ PollRun
  \/ \E r \in Run : GetRun(r) \/ ReceiveRun(r) \/ EndRun(r)
  \/ \E c \in CancelCall : Cancel(c) \/ CancelRun(c) \/ CancelConfirmed(c) \/ CancelFails(c)
-----------------------------------------------------------------------------
(* The runs, their queries and the calls hold only the values the code     *)
(* gives them.                                                             *)
WatchTypeOK ==
  /\ run \in [Run -> Seen \cup {"none"}]
  /\ \A r \in Run : Q!IsQuery(query[r], Seen, {})
  /\ \A c \in CancelCall :
       \/ cancel[c] = NoCancel
       \/ cancel[c] \in [step : {"sent", "accepted", "refused"}, run : Run, mounted : BOOLEAN]
  /\ disturbed \in 0..Disturbances

(* The end of a run, once shown, stays: no poll that was under way when    *)
(* the run was cancelled or ended turns it back (CancelRunControl.tsx).    *)
EndIsNotUndone ==
  [][\A r \in Run : Ended(query[r].data) => query'[r].data = query[r].data]_<<watchVars, page>>

(* Whoever stays on the page of a run that ends sees its end, whatever was *)
(* lost on the way (polling.ts, FR-014).                                   *)
EndUnseen == page \in Run /\ Ended(run[page]) /\ ~(Shows(page) /\ Ended(query[page].data))
EndIsSeen == EndUnseen ~> ~EndUnseen
===============================================================================
