----------------------------- MODULE DecisionForm -----------------------------
(***************************************************************************)
(* The form in which a person decides about a finding: the draft in the    *)
(* form, the decision in the query cache, the PUTs with the revision they  *)
(* expect, and other people who decide about the same finding              *)
(* (apps/web: DecisionForm.tsx, use-put-decision.ts, decision-schema.ts,   *)
(* use-finding-states.ts, query-keys.ts, FindingPage.tsx).                 *)
(*                                                                         *)
(* A decision is its status and its text; reason and resolution are one    *)
(* text, for the form lets nobody edit the resolution on its own.  The     *)
(* cycle never changes once it is known; its refetches and those of the    *)
(* dialogue matter for as long as a save waits for them, and are one here. *)
(* A continuation of a promise runs before the next event of the browser:  *)
(* Quiet guards every event.  In which order two saves go on that wait for *)
(* the same fetch is left open.                                            *)
(* A definition named ...Variant is a mistake used by no action.           *)
(***************************************************************************)
EXTENDS Naturals, FiniteSets

CONSTANTS
  Text,          \* reasons a person may write
  Theirs,        \* those other people write
  NoText,        \* an empty reason
  Verdict,       \* the statuses a person may choose, except unreviewed
  Save,          \* calls of save() that may overlap
  NoData,        \* nothing in the cache yet
  Carried,       \* the text of the decision the previous version left, or NoText
  Disturbances,  \* lost requests and reopenings, at most
  MaxRevision    \* revisions of the decision, at most

ASSUME TextAssumption == NoText \notin Text /\ Theirs \subseteq Text
ASSUME VerdictAssumption == "unreviewed" \notin Verdict
ASSUME CarriedAssumption == Carried \in Text \cup {NoText} /\ Verdict # {}
ASSUME BoundAssumption == MaxRevision \in Nat /\ Disturbances \in Nat

VARIABLES
  server,    \* the decision of the finding in the database
  states,    \* the query of the states of the findings
  cycle,     \* what the page knows of the carried decision
  slow,      \* saves that wait for the refetches of cycle and dialogue, and how
  form,      \* the draft, whether it was edited, and the notice of a save
  mutation,  \* what the mutation shows, and of which save
  save,      \* the saves under way
  disturbed  \* lost requests and reopenings so far

vars == <<server, states, cycle, slow, form, mutation, save, disturbed>>

Q == INSTANCE QueryCache

Unreviewed == [status |-> "unreviewed", text |-> NoText]
Value == [status : Verdict, text : Text] \cup {Unreviewed}
Decision == [revision : 0..MaxRevision, value : Value, by : {"me", "other"}]
Draft == [status : Verdict \cup {"unreviewed"}, text : Text \cup {NoText}]
ASSUME NoDataAssumption == NoData \notin Decision \cup Value \cup Save
CarriedDecision ==
  IF Carried = NoText THEN Unreviewed
  ELSE [status |-> CHOOSE v \in Verdict : TRUE, text |-> Carried]
NoWaiters == [waiting |-> {}, joined |-> {}]
Free == [step |-> "free", value |-> Unreviewed, expected |-> 0, mounted |-> TRUE]

(* effectiveDecision(): only an untouched finding inherits the decision of *)
(* the previous version, once the cycle is known.                          *)
Effective ==
  IF states.data.revision = 0 /\ cycle \notin {NoData, Unreviewed}
    THEN [states.data EXCEPT !.value = cycle]
    ELSE states.data

(* toFormValues() of the decision the page has. *)
Stored == IF Q!Loaded(states) THEN Effective.value ELSE Unreviewed

(* The form is told the revision of the finding itself, never that of a    *)
(* carried decision.                                                       *)
ExpectedRevisionVariant ==
  IF Q!Loaded(states) /\ mutation.show # "conflict" THEN server.revision ELSE 0
ExpectedRevision == IF Q!Loaded(states) THEN states.data.revision ELSE 0

NewForm == [values |-> Stored, edited |-> FALSE, saved |-> FALSE]
NoMutation == [show |-> "idle", of |-> NoData]

Init ==
  /\ server = [revision |-> 0, value |-> Unreviewed, by |-> "other"]
  /\ states = Q!Empty /\ cycle = NoData /\ slow = NoWaiters
  /\ form = [values |-> Unreviewed, edited |-> FALSE, saved |-> FALSE]
  /\ mutation = NoMutation
  /\ save = [s \in Save |-> Free]
  /\ disturbed = 0

Pending == mutation.show = "pending"
Conflict == mutation.show = "conflict"

(* A save whose awaited refetches have all ended, or been replaced.        *)
Released(s) ==
  /\ save[s].step \in {"refreshing", "reloading"}
  /\ s \notin Q!Waiters(states) \cup slow.waiting \cup slow.joined
Quiet == \A s \in Save : ~Released(s)
-----------------------------------------------------------------------------
(* The decision of the page, and the effect that fills an untouched form   *)
(* when that decision becomes another one.                                 *)

FillVariant ==
  IF Q!Loaded(states)' /\ ~form.edited /\ states'.data # states.data
    THEN form' = [form EXCEPT !.values = Stored']
    ELSE UNCHANGED form

Fill ==
  IF Q!Loaded(states)' /\ ~form.edited /\ (Q!Loaded(states) => Effective' # Effective)
    THEN form' = [form EXCEPT !.values = Stored']
    ELSE UNCHANGED form

(* The refetches of cycle and dialogue are begun anew, or one of the two,  *)
(* and a save that had joined them may await the other still.  They end    *)
(* together, or first the one for which the saves that joined still wait.  *)
Replaced(callers) ==
  {[waiting |-> callers, joined |-> slow.waiting \cup kept] : kept \in {{}, slow.joined}}
Ended == {NoWaiters, [slow EXCEPT !.joined = {}]}

(* A mount, or the focus of the window. *)
Load ==
  /\ Quiet
  /\ states' = Q!Fetch(states)
  /\ UNCHANGED <<server, cycle, slow, form, mutation, save, disturbed>>

(* "Повторить", next to the warning that the state could not be updated:   *)
(* the states are fetched anew, and then the cycle.                        *)
Reload ==
  /\ Quiet /\ disturbed > 0
  /\ \/ states' = Q!Refetch(states, {}) /\ UNCHANGED slow
     \/ slow' \in Replaced({}) /\ UNCHANGED states
  /\ UNCHANGED <<server, cycle, form, mutation, save, disturbed>>

ListStates ==
  /\ Quiet /\ states.fetch = "sent"
  /\ states' = Q!Answered(states, server)
  /\ UNCHANGED <<server, cycle, slow, form, mutation, save, disturbed>>

ReceiveStates ==
  /\ Quiet /\ states.fetch = "answered"
  /\ states' = Q!Received(states)
  /\ UNCHANGED <<server, cycle, slow, mutation, save, disturbed>>
  /\ Fill

ReceiveCycle ==
  /\ Quiet
  /\ \/ cycle = NoData /\ UNCHANGED slow
     \/ slow # NoWaiters /\ slow' \in Ended
  /\ cycle' = CarriedDecision
  /\ UNCHANGED <<server, states, mutation, save, disturbed>>
  /\ Fill

LoseFetch ==
  /\ Quiet /\ disturbed < Disturbances
  /\ disturbed' = disturbed + 1
  /\ \/ Q!Fetching(states) /\ states' = Q!Lost(states) /\ UNCHANGED slow
     \/ slow # NoWaiters /\ slow' \in Ended /\ UNCHANGED states
  /\ UNCHANGED <<server, cycle, form, mutation, save>>
-----------------------------------------------------------------------------
(* The form. *)

Edited(values) == [form EXCEPT !.values = values, !.edited = TRUE, !.saved = FALSE]

ChooseStatus(v) ==
  /\ Quiet /\ v # form.values.status
  /\ form' = Edited([form.values EXCEPT !.status = v])
  /\ UNCHANGED <<server, states, cycle, slow, mutation, save, disturbed>>

(* The field of the reason is there once a status has been chosen.         *)
WriteReason(t) ==
  /\ Quiet /\ form.values.status # "unreviewed" /\ t # form.values.text
  /\ form' = Edited([form.values EXCEPT !.text = t])
  /\ UNCHANGED <<server, states, cycle, slow, mutation, save, disturbed>>

(* decisionSchema and toPutFindingDecision(). *)
Valid(values) == values.status = "unreviewed" \/ values.text # NoText
Body(values) == IF values.status = "unreviewed" THEN Unreviewed ELSE values

(* submit(): a draft that is not valid is not sent. *)
Submit(values) ==
  /\ Valid(values)
  /\ ExpectedRevision < MaxRevision
  /\ \E s \in Save : save[s].step = "free"
  /\ LET s == CHOOSE s \in Save : save[s].step = "free"
     IN  /\ save' = [save EXCEPT ![s] =
                       [step |-> "sent", value |-> Body(values),
                        expected |-> ExpectedRevision, mounted |-> TRUE]]
         /\ mutation' = [show |-> "pending", of |-> s]
  /\ UNCHANGED <<server, states, cycle, slow, disturbed>>

SaveDecision ==
  /\ Quiet /\ form.values.status # "unreviewed" /\ ~Pending
  /\ Submit(form.values)
  /\ UNCHANGED form

RetryConflict ==
  /\ Quiet /\ Conflict
  /\ Submit(form.values)
  /\ UNCHANGED form

ResetDecision ==
  /\ Quiet /\ Stored.status # "unreviewed" /\ ~Pending
  /\ Submit(Unreviewed)
  /\ form' = Edited(Unreviewed)

(* Another finding is opened and this one again: the form and the mutation *)
(* begin anew, what was sent goes on without them, and nothing that was    *)
(* awaited matters any more.                                               *)
Reopen ==
  /\ Quiet /\ disturbed < Disturbances
  /\ disturbed' = disturbed + 1
  /\ form' = NewForm
  /\ mutation' = NoMutation
  /\ save' = [s \in Save |-> IF save[s].step \in {"refreshing", "reloading"} THEN Free
                              ELSE [save[s] EXCEPT !.mounted = save[s].step = "free"]]
  /\ states' = [states EXCEPT !.waiting = {}, !.joined = {}] /\ slow' = NoWaiters
  /\ UNCHANGED <<server, cycle>>
-----------------------------------------------------------------------------
(* The server: put_decision() under the lock of the row. *)

Put(s) ==
  /\ Quiet /\ save[s].step = "sent"
  /\ IF save[s].expected = server.revision
       THEN /\ server' = [revision |-> server.revision + 1,
                          value |-> save[s].value, by |-> "me"]
            /\ save' = [save EXCEPT ![s].step = "accepted"]
       ELSE /\ save' = [save EXCEPT ![s].step = "refused"]
            /\ UNCHANGED server
  /\ UNCHANGED <<states, cycle, slow, form, mutation, disturbed>>

(* A decision made in another window or by another person. *)
DecideElsewhere(v) ==
  /\ Quiet /\ server.revision < MaxRevision
  /\ server' = [revision |-> server.revision + 1, value |-> v, by |-> "other"]
  /\ UNCHANGED <<states, cycle, slow, form, mutation, save, disturbed>>
-----------------------------------------------------------------------------
(* save(): what follows the answer to the PUT. *)

Show(s, outcome) ==
  mutation' = IF mutation.of = s THEN [mutation EXCEPT !.show = outcome] ELSE mutation

(* What a save waits for matters as long as its form is mounted.           *)
Awaits(s, step) ==
  save' = [save EXCEPT ![s] = IF @.mounted THEN [@ EXCEPT !.step = step] ELSE Free]
Caller(s) == IF save[s].mounted THEN {s} ELSE {}

SucceedVariant(s) ==
  /\ Quiet /\ save[s].step = "accepted"
  /\ Show(s, "success")
  /\ states' = IF Q!Loaded(states) THEN Q!SetData(states, server) ELSE states
  /\ slow' \in Replaced(Caller(s))
  /\ Awaits(s, "refreshing")
  /\ UNCHANGED <<server, cycle, disturbed>>
  /\ Fill

SucceedUnseenVariant(s) ==
  /\ Quiet /\ save[s].step = "accepted"
  /\ Show(s, "success")
  /\ slow' \in Replaced(Caller(s))
  /\ Awaits(s, "refreshing")
  /\ UNCHANGED <<server, states, cycle, form, disturbed>>

(* invalidateAfterDecision(), awaited before save() returns. *)
Succeed(s) ==
  /\ Quiet /\ save[s].step = "accepted"
  /\ Show(s, "success")
  /\ states' = Q!Refetch(states, Caller(s)) /\ slow' \in Replaced(Caller(s))
  /\ Awaits(s, "refreshing")
  /\ UNCHANGED <<server, cycle, form, disturbed>>

(* A conflict loads the decision that is now in force; the draft stays.    *)
Refused(s) ==
  /\ Quiet /\ save[s].step = "refused"
  /\ Show(s, "conflict")
  /\ states' = Q!Refetch(states, Caller(s))
  /\ Awaits(s, "reloading")
  /\ UNCHANGED <<server, cycle, slow, form, disturbed>>

(* The request or its answer is lost. *)
LosePut(s) ==
  /\ Quiet /\ save[s].step \in {"sent", "accepted", "refused"} /\ disturbed < Disturbances
  /\ disturbed' = disturbed + 1
  /\ Show(s, "failed")
  /\ save' = [save EXCEPT ![s] = Free]
  /\ UNCHANGED <<server, states, cycle, slow, form>>

(* submit() goes on after save(): the stored decision enters the form. A   *)
(* reset has no decided_at, so that no notice follows it.                  *)
Return(s) ==
  /\ Released(s)
  /\ IF save[s].step = "refreshing"
       THEN form' = [form EXCEPT !.values = save[s].value,
                                 !.saved = save[s].value # Unreviewed]
       ELSE UNCHANGED form
  /\ save' = [save EXCEPT ![s] = Free]
  /\ UNCHANGED <<server, states, cycle, slow, mutation, disturbed>>
-----------------------------------------------------------------------------
Network(s) == Put(s) \/ Succeed(s) \/ Refused(s) \/ LosePut(s)

Next ==
  \/ Load \/ Reload \/ ListStates \/ ReceiveStates \/ ReceiveCycle \/ LoseFetch
  \/ \E v \in Verdict : ChooseStatus(v)
  \/ \E t \in Text : WriteReason(t)
  \/ SaveDecision \/ RetryConflict \/ ResetDecision \/ Reopen
  \/ \E v \in [status : Verdict, text : Theirs] : DecideElsewhere(v)
  \/ \E s \in Save : Network(s) \/ Return(s)

Spec == Init /\ [][Next]_vars

(* The network answers or loses every request, and promises go on.  Nobody *)
(* has to write, save or retry; a person who saves again and again, and so *)
(* replaces one reload by the next, does not for ever outrun the network.  *)
FairSpec ==
  /\ Spec
  /\ SF_vars(ListStates) /\ SF_vars(ReceiveStates) /\ WF_vars(ReceiveCycle)
  /\ \A s \in Save : WF_vars(Network(s)) /\ WF_vars(Return(s))
-----------------------------------------------------------------------------
(* What the form promises.                                                 *)

Shown == IF Q!Loaded(states) THEN states.data.revision ELSE 0

(* The page and the form hold only the values the code gives them, and     *)
(* what is sent is a decision the contract allows.                         *)
TypeOK ==
  /\ server \in Decision
  /\ Q!IsQuery(states, Decision, Save)
  /\ cycle \in Value \cup {NoData} /\ slow \in [waiting : SUBSET Save, joined : SUBSET Save]
  /\ form \in [values : Draft, edited : BOOLEAN, saved : BOOLEAN]
  /\ mutation \in [show : {"idle", "pending", "success", "conflict", "failed"},
                   of : Save \cup {NoData}]
  /\ save \in [Save -> [step : {"free", "sent", "accepted", "refused", "refreshing",
                                "reloading"},
                        value : Value, expected : 0..MaxRevision, mounted : BOOLEAN]]
  /\ disturbed \in 0..Disturbances

(* A form nobody has touched shows the decision in force, whichever of the *)
(* states and the cycle the page hears of first, and whatever others have  *)
(* decided meanwhile; only what this form has saved is put into it         *)
(* otherwise (DecisionForm.tsx).  Everything holds only the values the     *)
(* code gives it.                                                          *)
UntouchedShowsStored ==
  /\ TypeOK
  /\ ~form.edited /\ mutation = NoMutation /\ Q!Loaded(states) => form.values = Stored

(* "Решение сохранено" next to a draft means that this draft is the        *)
(* decision in the database, unless somebody else has decided since or a   *)
(* save is still under way.  The code does not keep this: of two saves     *)
(* that overlap the earlier one can go on last (DecisionForm.tsx), and its *)
(* text is called saved instead of the one that is.                        *)
SavedIsStored ==
  /\ form.saved /\ mutation.show = "success"
  /\ \A s \in Save : save[s].step = "free"
  /\ server.by = "me"
  => server.value = Body(form.values)

(* What a person has written stays in the form until it has been saved.    *)
(* The code does not keep this: what is written while a save waits for its *)
(* refetches is replaced by what that save has stored (DecisionForm.tsx).  *)
DraftIsKept ==
  [][(\E s \in Save : Return(s)) /\ form.edited => form'.values = form.values]_vars

(* However fetches, invalidations and losses interleave, the revision the  *)
(* page shows never falls (use-put-decision.ts, query-keys.ts).            *)
ShownRevisionNeverFalls ==
  [][Q!Loaded(states) => states'.data.revision >= states.data.revision]_vars

(* A save that replaces a decision replaces one this page has had in its   *)
(* cache: the revision a save expects is that of the decision shown, also  *)
(* when the form still holds a carried decision (FindingPage.tsx).         *)
OverwritesAreSeen ==
  [][server' # server /\ server'.by = "me" => server.revision <= Shown]_vars

(* A confirmed change of a decision is shown, or the page warns that the   *)
(* state could not be updated (use-put-decision.ts, FindingPage.tsx).  The *)
(* first decision of a finding is left out: saved before the states have   *)
(* been loaded, it can be followed by the answer of a load begun before.   *)
ConfirmedIsShown ==
  \A s \in Save : \A r \in 2..MaxRevision :
    save[s].step = "refreshing" /\ save[s].expected + 1 = r
      ~> states.failed \/ Shown >= r

===============================================================================
