-------------------------- MODULE DecisionFormProofs --------------------------
(***************************************************************************)
(* For any texts, statuses, calls and bounds: a form nobody has touched    *)
(* shows the decision in force, the revision the page shows never falls,   *)
(* and a save replaces only a decision the page has shown.                 *)
(***************************************************************************)
EXTENDS DecisionForm, TLAPS

Queries ==
  [data : Decision \cup {NoData}, failed : BOOLEAN, fetch : {"none", "sent", "answered"},
   answer : Decision \cup {NoData}, waiting : SUBSET Save, joined : SUBSET Save]
Waits == [waiting : SUBSET Save, joined : SUBSET Save]
Steps == {"free", "sent", "accepted", "refused", "refreshing", "reloading"}
Saves == [step : Steps, value : Value, expected : 0..MaxRevision, mounted : BOOLEAN]
Mutations ==
  [show : {"idle", "pending", "success", "conflict", "failed"}, of : Save \cup {NoData}]
Forms == [values : Draft, edited : BOOLEAN, saved : BOOLEAN]

(* The page and the answers on their way lag behind the server, and no     *)
(* answer is older than what it will replace.                              *)
Revisions ==
  /\ Q!Loaded(states) => states.data.revision <= server.revision
  /\ states.fetch = "answered" =>
       /\ states.answer \in Decision
       /\ states.answer.revision <= server.revision
       /\ Q!Loaded(states) => states.data.revision <= states.answer.revision

(* A save expects a revision the page has shown. *)
Expectations ==
  \A s \in Save :
    /\ save[s].step # "free" => save[s].expected <= Shown
    /\ save[s].step = "sent" => save[s].expected < MaxRevision

(* Only a save of the form that is mounted waits for refetches, and it has *)
(* been shown by the mutation.                                             *)
Mounted ==
  \A s \in Save :
    /\ save[s].step \in {"refreshing", "reloading"} => save[s].mounted
    /\ save[s].step # "free" /\ save[s].mounted => mutation # NoMutation

(* A form nobody has touched shows what the page holds. *)
Untouched ==
  ~form.edited /\ mutation = NoMutation /\ Q!Loaded(states) => form.values = Stored

IInv == TypeOK /\ Revisions /\ Expectations /\ Mounted /\ Untouched
-----------------------------------------------------------------------------
(* The parts of the state. *)

(* What TypeOK says, part by part. *)
LEMMA Types ==
  TypeOK <=>
    /\ server \in Decision /\ states \in Queries
    /\ cycle \in Value \cup {NoData} /\ slow \in Waits
    /\ form \in Forms /\ mutation \in Mutations /\ save \in [Save -> Saves]
    /\ disturbed \in 0..Disturbances
BY DEF TypeOK, Queries, Waits, Forms, Mutations, Saves, Steps, Q!IsQuery

(* What is sent, and what may be in the form. *)
LEMMA Values ==
  /\ Unreviewed \in Value /\ Value \subseteq Draft
  /\ CarriedDecision \in Value
  /\ \A v \in Draft : Valid(v) => Body(v) \in Value
  /\ \A v \in Value : Body(v) = v
<1>1. Unreviewed \in Value /\ Value \subseteq Draft
  BY DEF Value, Draft, Unreviewed
<1>2. CarriedDecision \in Value
  <2>1. CASE Carried = NoText
    BY <1>1, <2>1 DEF CarriedDecision
  <2>2. CASE Carried # NoText
    <3>1. (CHOOSE v \in Verdict : TRUE) \in Verdict
      BY CarriedAssumption
    <3> QED
      BY <2>2, <3>1, CarriedAssumption DEF CarriedDecision, Value
  <2> QED
    BY <2>1, <2>2
<1>3. ASSUME NEW v \in Draft, Valid(v) PROVE Body(v) \in Value
  <2>1. CASE v.status = "unreviewed"
    BY <1>1, <2>1 DEF Body
  <2>2. CASE v.status # "unreviewed"
    BY <1>3, <2>2 DEF Body, Valid, Draft, Value
  <2> QED
    BY <2>1, <2>2
<1>4. ASSUME NEW v \in Value PROVE Body(v) = v
  BY VerdictAssumption DEF Body, Value, Unreviewed
<1> QED
  BY <1>1, <1>2, <1>3, <1>4

(* What the operations of the cache leave of a query. *)
LEMMA QueryFields ==
  ASSUME NEW q \in Queries, NEW callers \in SUBSET Save
  PROVE  /\ Q!Fetch(q) \in Queries /\ Q!Fetch(q).data = q.data
         /\ Q!Fetch(q).fetch = "answered" =>
              q.fetch = "answered" /\ Q!Fetch(q).answer = q.answer
         /\ Q!Refetch(q, callers) \in Queries /\ Q!Refetch(q, callers).data = q.data
         /\ Q!Refetch(q, callers).fetch = "answered" =>
              q.fetch = "answered" /\ Q!Refetch(q, callers).answer = q.answer
         /\ Q!Lost(q) \in Queries /\ Q!Lost(q).data = q.data
         /\ Q!Lost(q).fetch = "none"
         /\ Q!Received(q) \in Queries /\ Q!Received(q).data = q.answer
         /\ Q!Received(q).fetch = "none"
<1> USE DEF Queries
<1>1. Q!Fetch(q) \in Queries /\ Q!Fetch(q).data = q.data
      /\ (Q!Fetch(q).fetch = "answered" =>
            q.fetch = "answered" /\ Q!Fetch(q).answer = q.answer)
  BY DEF Q!Fetch, Q!Fetching
<1>2. Q!Lost(q) \in Queries /\ Q!Lost(q).data = q.data /\ Q!Lost(q).fetch = "none"
  BY DEF Q!Lost, Q!Idle
<1>3. Q!Received(q) \in Queries /\ Q!Received(q).data = q.answer
      /\ Q!Received(q).fetch = "none"
  BY DEF Q!Received, Q!Idle
<1>4. CASE Q!Loaded(q) \/ ~Q!Fetching(q)
  BY <1>1, <1>2, <1>3, <1>4 DEF Q!Refetch
<1>5. CASE ~(Q!Loaded(q) \/ ~Q!Fetching(q))
  <2>1. Q!Refetch(q, callers) = [q EXCEPT !.joined = @ \cup callers]
    BY <1>5 DEF Q!Refetch
  <2> QED
    BY <1>1, <1>2, <1>3, <2>1
<1> QED
  BY <1>4, <1>5

(* An answer is what the server holds. *)
LEMMA AnswerFields ==
  ASSUME NEW q \in Queries, NEW d \in Decision
  PROVE  /\ Q!Answered(q, d) \in Queries /\ Q!Answered(q, d).data = q.data
         /\ Q!Answered(q, d).answer = d
BY DEF Queries, Q!Answered

(* Who waits for the cycle and the dialogue. *)
LEMMA WaitFields ==
  ASSUME slow \in Waits, NEW callers \in SUBSET Save
  PROVE  Replaced(callers) \subseteq Waits /\ Ended \subseteq Waits /\ NoWaiters \in Waits
BY DEF Waits, Replaced, Ended, NoWaiters

(* A save goes on, or is over. *)
LEMMA SaveFields ==
  ASSUME NEW f \in [Save -> Saves], NEW s \in Save
  PROVE  /\ \A new \in Saves : /\ [f EXCEPT ![s] = new] \in [Save -> Saves]
                               /\ [f EXCEPT ![s] = new][s] = new
                               /\ \A t \in Save \ {s} : [f EXCEPT ![s] = new][t] = f[t]
         /\ \A step \in Steps : /\ [f[s] EXCEPT !.step = step] \in Saves
                                /\ [f[s] EXCEPT !.step = step].step = step
                                /\ [f[s] EXCEPT !.step = step].value = f[s].value
                                /\ [f[s] EXCEPT !.step = step].expected = f[s].expected
                                /\ [f[s] EXCEPT !.step = step].mounted = f[s].mounted
         /\ Free \in Saves
<1>1. f[s] \in Saves
  OBVIOUS
<1>2. Free \in Saves
  BY Values, BoundAssumption DEF Free, Saves, Steps
<1> QED
  BY <1>1, <1>2 DEF Saves
-----------------------------------------------------------------------------
(* The types. *)

(* The decision of the page is one the form can show. *)
LEMMA StoredTypes ==
  states \in Queries /\ cycle \in Value \cup {NoData}
    => /\ Stored \in Value
       /\ Q!Loaded(states) => Effective \in Decision
       /\ NewForm \in Forms
<1> SUFFICES ASSUME states \in Queries, cycle \in Value \cup {NoData}
             PROVE  /\ Stored \in Value
                    /\ Q!Loaded(states) => Effective \in Decision
                    /\ NewForm \in Forms
  OBVIOUS
<1>1. ASSUME Q!Loaded(states) PROVE states.data \in Decision
  BY <1>1 DEF Queries, Q!Loaded
<1>2. ASSUME Q!Loaded(states) PROVE Effective \in Decision
  <2>1. cycle # NoData => cycle \in Value
    OBVIOUS
  <2>2. states.data \in Decision
    BY <1>1, <1>2
  <2> QED
    BY <2>1, <2>2 DEF Effective, Decision
<1>3. Stored \in Value
  BY <1>2, Values DEF Stored, Decision
<1> QED
  BY <1>2, <1>3, Values DEF NewForm, Forms

(* The filling of the form, and an edit. *)
LEMMA FormTypes ==
  ASSUME TypeOK
  PROVE  /\ Fill /\ states' \in Queries /\ cycle' \in Value \cup {NoData} => form' \in Forms
         /\ \A values \in Draft : Edited(values) \in Forms
<1>1. form \in Forms
  BY Types
<1>2. ASSUME Fill, states' \in Queries, cycle' \in Value \cup {NoData}
      PROVE  form' \in Forms
  <2>1. (states \in Queries /\ cycle \in Value \cup {NoData} => Stored \in Value)'
    BY StoredTypes, PTL
  <2>2. Stored' \in Draft
    BY <1>2, <2>1, Values
  <2> QED
    BY <1>1, <1>2, <2>2 DEF Fill, Forms
<1>3. ASSUME NEW values \in Draft PROVE Edited(values) \in Forms
  BY <1>1 DEF Edited, Forms
<1> QED
  BY <1>2, <1>3

(* What an answer, a submission and an end do to the saves. *)
LEMMA SubmitTypes ==
  ASSUME TypeOK, NEW values \in Draft, Submit(values)
  PROVE  \E s \in Save :
           /\ save[s].step = "free"
           /\ save' \in [Save -> Saves]
           /\ save'[s] = [step |-> "sent", value |-> Body(values),
                          expected |-> ExpectedRevision, mounted |-> TRUE]
           /\ \A t \in Save \ {s} : save'[t] = save[t]
           /\ mutation' = [show |-> "pending", of |-> s] /\ mutation' \in Mutations
           /\ ExpectedRevision = Shown /\ ExpectedRevision < MaxRevision
<1> DEFINE s == CHOOSE s \in Save : save[s].step = "free"
           new == [step |-> "sent", value |-> Body(values),
                   expected |-> ExpectedRevision, mounted |-> TRUE]
<1>1. save \in [Save -> Saves] /\ states \in Queries
  BY Types
<1>2. s \in Save /\ save[s].step = "free"
  BY DEF Submit
<1>3. /\ save' = [save EXCEPT ![s] = new]
      /\ mutation' = [show |-> "pending", of |-> s]
      /\ ExpectedRevision < MaxRevision /\ Valid(values)
  BY DEF Submit
<1>4. ExpectedRevision \in 0..MaxRevision /\ ExpectedRevision = Shown
  BY <1>1, BoundAssumption DEF ExpectedRevision, Shown, Queries, Decision, Q!Loaded
<1>5. Body(values) \in Value
  BY <1>3, Values
<1>6. new \in Saves
  BY <1>4, <1>5 DEF Saves, Steps
<1>7. /\ save' \in [Save -> Saves] /\ save'[s] = new
      /\ \A t \in Save \ {s} : save'[t] = save[t]
  BY <1>1, <1>2, <1>3, <1>6
<1>8. mutation' \in Mutations
  BY <1>2, <1>3 DEF Mutations
<1> HIDE DEF s
<1> QED
  BY <1>2, <1>3, <1>4, <1>7, <1>8

(* Showing an outcome. *)
LEMMA ShowTypes ==
  ASSUME TypeOK, NEW s \in Save,
         NEW outcome \in {"success", "conflict", "failed"}, Show(s, outcome)
  PROVE  /\ mutation' \in Mutations /\ mutation'.of = mutation.of
         /\ mutation.of = s => mutation'.show = outcome
         /\ mutation.of # s => mutation' = mutation
<1>1. mutation \in Mutations
  BY Types
<1> QED
  BY <1>1 DEF Show, Mutations

(* A save of a mounted form goes on, one of a form that is gone is over. *)
LEMMA AwaitsTypes ==
  ASSUME TypeOK, NEW s \in Save, NEW step \in Steps, Awaits(s, step)
  PROVE  /\ save' \in [Save -> Saves]
         /\ \A t \in Save \ {s} : save'[t] = save[t]
         /\ save[s].mounted => /\ save'[s].step = step /\ save'[s].mounted
                               /\ save'[s].value = save[s].value
                               /\ save'[s].expected = save[s].expected
         /\ ~save[s].mounted => save'[s] = Free
<1>1. save \in [Save -> Saves]
  BY Types
<1> DEFINE new == IF save[s].mounted THEN [save[s] EXCEPT !.step = step] ELSE Free
<1>2. save' = [save EXCEPT ![s] = new]
  BY DEF Awaits
<1>3. new \in Saves
  BY <1>1, SaveFields
<1>4. save' \in [Save -> Saves] /\ save'[s] = new /\ \A t \in Save \ {s} : save'[t] = save[t]
  BY <1>1, <1>2, <1>3
<1> QED
  BY <1>1, <1>4, SaveFields

(* A save is over. *)
LEMMA FreeTypes ==
  ASSUME TypeOK, NEW s \in Save, save' = [save EXCEPT ![s] = Free]
  PROVE  /\ save' \in [Save -> Saves] /\ save'[s] = Free
         /\ \A t \in Save \ {s} : save'[t] = save[t]
<1>1. save \in [Save -> Saves]
  BY Types
<1> QED
  BY <1>1, SaveFields

(* The server answers a save. *)
LEMMA PutTypes ==
  ASSUME TypeOK, \A s \in Save : save[s].step = "sent" => save[s].expected < MaxRevision,
         NEW s \in Save, Put(s)
  PROVE  /\ server' \in Decision /\ save' \in [Save -> Saves]
         /\ \A t \in Save \ {s} : save'[t] = save[t]
         /\ save'[s].value = save[s].value /\ save'[s].expected = save[s].expected
         /\ save'[s].mounted = save[s].mounted
         /\ \/ /\ save[s].expected = server.revision /\ save'[s].step = "accepted"
               /\ server' = [revision |-> server.revision + 1, value |-> save[s].value,
                             by |-> "me"]
            \/ /\ save[s].expected # server.revision /\ save'[s].step = "refused"
               /\ server' = server
<1>1. save \in [Save -> Saves] /\ server \in Decision
  BY Types
<1>2. PICK step \in {"accepted", "refused"} :
        /\ save' = [save EXCEPT ![s].step = step]
        /\ \/ /\ save[s].expected = server.revision /\ step = "accepted"
              /\ server' = [revision |-> server.revision + 1, value |-> save[s].value,
                            by |-> "me"]
           \/ /\ save[s].expected # server.revision /\ step = "refused"
              /\ server' = server
  BY DEF Put
<1> DEFINE new == [save[s] EXCEPT !.step = step]
<1>3. /\ new \in Saves /\ new.step = step /\ new.value = save[s].value
      /\ new.expected = save[s].expected /\ new.mounted = save[s].mounted
  <2>1. save[s] \in Saves /\ step \in Steps
    BY <1>1 DEF Steps
  <2> QED
    BY <2>1 DEF Saves
<1>4. save' = [save EXCEPT ![s] = new]
  BY <1>2
<1>5. save' \in [Save -> Saves] /\ save'[s] = new /\ \A t \in Save \ {s} : save'[t] = save[t]
  BY <1>1, <1>3, <1>4
<1>6. server' \in Decision
  <2>1. save[s].step = "sent" /\ save[s] \in Saves
    BY <1>1 DEF Put
  <2> QED
    BY <1>1, <1>2, <2>1, BoundAssumption DEF Decision, Saves
<1> QED
  BY <1>2, <1>3, <1>5, <1>6
-----------------------------------------------------------------------------
(* The page and the form. *)

(* TypeOK of the next state, part by part. *)
LEMMA TypesNext ==
  TypeOK' <=>
    /\ server' \in Decision /\ states' \in Queries
    /\ cycle' \in Value \cup {NoData} /\ slow' \in Waits
    /\ form' \in Forms /\ mutation' \in Mutations /\ save' \in [Save -> Saves]
    /\ disturbed' \in 0..Disturbances
BY DEF TypeOK, Queries, Waits, Forms, Mutations, Saves, Steps, Q!IsQuery

(* The revision shown is a number. *)
LEMMA ShownTypes ==
  ASSUME states \in Queries
  PROVE  /\ Q!Loaded(states) => states.data \in Decision
         /\ Shown \in Nat
<1>1. Q!Loaded(states) => states.data \in Decision
  BY DEF Queries, Q!Loaded
<1> QED
  BY <1>1 DEF Shown, Decision

(* While the page keeps its data and only loses answers, it shows the same *)
(* and lags behind the server as before.                                   *)
LEMMA PageKept ==
  ASSUME IInv, states'.data = states.data, server' \in Decision,
         server'.revision >= server.revision,
         states'.fetch = "answered" =>
           states.fetch = "answered" /\ states'.answer = states.answer
  PROVE  /\ Revisions' /\ Shown' = Shown /\ Q!Loaded(states)' = Q!Loaded(states)
         /\ cycle' = cycle => Stored' = Stored /\ Effective' = Effective
<1>1. server \in Decision /\ states \in Queries
  BY Types DEF IInv
<1>2. Q!Loaded(states) => states.data.revision \in Nat
  BY <1>1, ShownTypes DEF Decision
<1>3. server.revision \in Nat /\ server'.revision \in Nat
  BY <1>1 DEF Decision
<1>4. Q!Loaded(states)' = Q!Loaded(states)
  BY DEF Q!Loaded
<1>5. Revisions'
  <2>1. Q!Loaded(states) => states.data.revision <= server'.revision
    BY <1>2, <1>3 DEF IInv, Revisions
  <2>2. states.fetch = "answered" =>
          /\ states.answer \in Decision /\ states.answer.revision \in Nat
          /\ states.answer.revision <= server'.revision
    BY <1>3 DEF IInv, Revisions, Decision
  <2> QED
    BY <1>4, <2>1, <2>2 DEF IInv, Revisions
<1>6. Shown' = Shown
  BY <1>4 DEF Shown
<1>7. cycle' = cycle => Stored' = Stored /\ Effective' = Effective
  BY <1>4 DEF Stored, Effective
<1> QED
  BY <1>4, <1>5, <1>6, <1>7

(* What the saves expect stays shown while none is sent. *)
LEMMA SavesKept ==
  ASSUME IInv, TypeOK', Shown <= Shown',
         \A s \in Save : \/ save'[s].step = "free"
                         \/ /\ save[s].step # "free"
                            /\ save'[s].expected = save[s].expected
                            /\ save'[s].step = "sent" => save[s].step = "sent"
  PROVE  Expectations'
<1>1. save \in [Save -> Saves] /\ states \in Queries /\ states' \in Queries
  BY Types, TypesNext DEF IInv
<1>2. Shown \in Nat
  BY <1>1, ShownTypes
<1>3. Shown' \in Nat
  <2>1. (states \in Queries => Shown \in Nat)'
    BY ShownTypes, PTL
  <2> QED
    BY <1>1, <2>1
<1>4. \A s \in Save : save[s].expected \in Nat
  BY <1>1 DEF Saves
<1> QED
  BY <1>2, <1>3, <1>4 DEF IInv, Expectations

(* What the page learns leaves an untouched form in step with it. *)
LEMMA FillKeeps ==
  ASSUME IInv, Fill, mutation' = mutation, Q!Loaded(states) => Q!Loaded(states')
  PROVE  Untouched'
<1> SUFFICES ASSUME ~form'.edited, mutation = NoMutation, Q!Loaded(states')
             PROVE  form'.values = Stored'
  BY DEF Untouched, Q!Loaded
<1>1. form \in Forms
  BY Types DEF IInv
<1>2. ~form.edited
  BY <1>1 DEF Fill, Forms
<1>3. CASE Q!Loaded(states) => Effective' # Effective
  <2>1. form' = [form EXCEPT !.values = Stored']
    BY <1>2, <1>3 DEF Fill, Q!Loaded
  <2> QED
    BY <1>1, <2>1 DEF Forms
<1>4. CASE ~(Q!Loaded(states) => Effective' # Effective)
  <2>1. form' = form /\ Q!Loaded(states) /\ Effective' = Effective
    BY <1>4 DEF Fill
  <2>2. form.values = Effective.value
    BY <1>2, <2>1 DEF IInv, Untouched, Stored
  <2>3. Stored' = Effective'.value
    BY DEF Stored, Q!Loaded
  <2> QED
    BY <2>1, <2>2, <2>3
<1> QED
  BY <1>3, <1>4

(* What is fetched, answered, received and lost. *)
LEMMA FetchesGo ==
  ASSUME IInv, Load \/ Reload \/ ListStates \/ ReceiveStates \/ ReceiveCycle \/ LoseFetch
  PROVE  IInv'
<1>1. /\ server \in Decision /\ states \in Queries /\ cycle \in Value \cup {NoData}
      /\ slow \in Waits /\ form \in Forms /\ mutation \in Mutations
      /\ save \in [Save -> Saves] /\ disturbed \in 0..Disturbances
  BY Types DEF IInv
<1>2. UNCHANGED <<server, mutation, save>>
  BY DEF Load, Reload, ListStates, ReceiveStates, ReceiveCycle, LoseFetch
<1>3. ASSUME states' \in Queries, cycle' \in {cycle, CarriedDecision}, slow' \in Waits,
             disturbed' \in 0..Disturbances, form' = form \/ Fill
      PROVE  TypeOK'
  <2>1. cycle' \in Value \cup {NoData}
    BY <1>1, <1>3, Values
  <2>2. form' \in Forms
    BY <1>1, <1>3, <2>1, FormTypes DEF IInv
  <2> QED
    BY <1>1, <1>2, <1>3, <2>1, <2>2, TypesNext
<1>4. Shown \in Nat
  BY <1>1, ShownTypes
<1>5. Mounted'
  BY <1>2 DEF IInv, Mounted
<1>6. ASSUME TypeOK', Shown <= Shown' PROVE Expectations'
  BY <1>2, <1>6, SavesKept
<1>7. ASSUME states' \in Queries, states'.data = states.data,
             states'.fetch = "answered" =>
               states.fetch = "answered" /\ states'.answer = states.answer,
             TypeOK', (cycle' = cycle /\ form' = form) \/ Fill
      PROVE  IInv'
  <2>1. /\ Revisions' /\ Shown' = Shown /\ Q!Loaded(states)' = Q!Loaded(states)
        /\ cycle' = cycle => Stored' = Stored
    <3>1. server'.revision >= server.revision /\ server' \in Decision
      BY <1>1, <1>2 DEF Decision
    <3> QED
      BY <1>7, <3>1, PageKept
  <2>2. Expectations'
    BY <1>4, <1>6, <1>7, <2>1
  <2>3. Untouched'
    <3>1. CASE cycle' = cycle /\ form' = form
      BY <1>2, <2>1, <3>1 DEF IInv, Untouched
    <3>2. CASE Fill
      BY <1>2, <2>1, <3>2, FillKeeps DEF Q!Loaded
    <3> QED
      BY <1>7, <3>1, <3>2
  <2> QED
    BY <1>5, <1>7, <2>1, <2>2, <2>3 DEF IInv
<1>8. CASE Load
  <2>1. /\ states' = Q!Fetch(states) /\ cycle' = cycle /\ slow' = slow /\ form' = form
        /\ disturbed' = disturbed
    BY <1>8 DEF Load
  <2>2. /\ states' \in Queries /\ states'.data = states.data
        /\ states'.fetch = "answered" =>
             states.fetch = "answered" /\ states'.answer = states.answer
    BY <1>1, <2>1, QueryFields
  <2> QED
    BY <1>1, <1>3, <1>7, <2>1, <2>2
<1>9. CASE Reload
  <2>1. /\ \/ states' = Q!Refetch(states, {}) /\ slow' = slow
           \/ slow' \in Replaced({}) /\ states' = states
        /\ cycle' = cycle /\ form' = form /\ disturbed' = disturbed
    BY <1>9 DEF Reload
  <2>2. {} \in SUBSET Save
    OBVIOUS
  <2>3. slow' \in Waits
    BY <1>1, <2>1, <2>2, WaitFields
  <2>4. /\ states' \in Queries /\ states'.data = states.data
        /\ states'.fetch = "answered" =>
             states.fetch = "answered" /\ states'.answer = states.answer
    BY <1>1, <2>1, <2>2, QueryFields
  <2> QED
    BY <1>1, <1>3, <1>7, <2>1, <2>3, <2>4
<1>10. CASE ListStates
  <2>1. /\ states' = Q!Answered(states, server) /\ cycle' = cycle /\ slow' = slow
        /\ form' = form /\ disturbed' = disturbed
    BY <1>10 DEF ListStates
  <2>2. states' \in Queries /\ states'.data = states.data /\ states'.answer = server
    BY <1>1, <2>1, AnswerFields
  <2>3. TypeOK'
    BY <1>1, <1>3, <2>1, <2>2
  <2>4. Q!Loaded(states)' = Q!Loaded(states) /\ Shown' = Shown /\ Stored' = Stored
    BY <2>1, <2>2 DEF Q!Loaded, Shown, Stored, Effective
  <2>5. Revisions'
    <3>1. server.revision \in Nat
      BY <1>1 DEF Decision
    <3> QED
      BY <1>1, <1>2, <2>2, <2>4, <3>1 DEF IInv, Revisions
  <2>6. Expectations'
    BY <1>4, <1>6, <2>3, <2>4
  <2>7. Untouched'
    BY <1>2, <2>1, <2>4 DEF IInv, Untouched
  <2> QED
    BY <1>5, <2>3, <2>5, <2>6, <2>7 DEF IInv
<1>11. CASE ReceiveStates
  <2>1. /\ states' = Q!Received(states) /\ cycle' = cycle /\ slow' = slow /\ Fill
        /\ disturbed' = disturbed /\ states.fetch = "answered"
    BY <1>11 DEF ReceiveStates
  <2>2. states' \in Queries /\ states'.data = states.answer /\ states'.fetch = "none"
    BY <1>1, <2>1, QueryFields
  <2>3. TypeOK'
    BY <1>1, <1>3, <2>1, <2>2
  <2>4. /\ states.answer \in Decision /\ states.answer.revision <= server.revision
        /\ Q!Loaded(states) => states.data.revision <= states.answer.revision
    BY <2>1 DEF IInv, Revisions
  <2>5. Q!Loaded(states')
    BY <2>2, <2>4, NoDataAssumption DEF Q!Loaded
  <2>6. Revisions'
    BY <1>2, <2>2, <2>4 DEF Revisions
  <2>7. Shown <= Shown'
    <3>1. Shown' = states.answer.revision
      BY <2>2, <2>5 DEF Shown, Q!Loaded
    <3>2. states.answer.revision \in Nat
      BY <2>4 DEF Decision
    <3> QED
      BY <2>4, <3>1, <3>2 DEF Shown
  <2>8. Expectations'
    BY <1>6, <2>3, <2>7
  <2>9. Untouched'
    BY <1>2, <2>1, <2>5, FillKeeps
  <2> QED
    BY <1>5, <2>3, <2>6, <2>8, <2>9 DEF IInv
<1>12. CASE ReceiveCycle
  <2>1. /\ states' = states /\ cycle' = CarriedDecision /\ Fill /\ disturbed' = disturbed
        /\ slow' = slow \/ slow' \in Ended
    BY <1>12 DEF ReceiveCycle
  <2>2. slow' \in Waits
    BY <1>1, <2>1, WaitFields
  <2> QED
    BY <1>1, <1>3, <1>7, <2>1, <2>2
<1>13. CASE LoseFetch
  <2>1. /\ states' \in {states, Q!Lost(states)} /\ cycle' = cycle /\ form' = form
        /\ slow' = slow \/ slow' \in Ended
        /\ disturbed < Disturbances /\ disturbed' = disturbed + 1
    BY <1>13 DEF LoseFetch
  <2>2. /\ states' \in Queries /\ states'.data = states.data
        /\ states'.fetch = "answered" =>
             states.fetch = "answered" /\ states'.answer = states.answer
    BY <1>1, <2>1, QueryFields
  <2>3. disturbed' \in 0..Disturbances /\ slow' \in Waits
    BY <1>1, <2>1, WaitFields, BoundAssumption
  <2> QED
    BY <1>1, <1>3, <1>7, <2>1, <2>2, <2>3
<1> QED
  BY <1>8, <1>9, <1>10, <1>11, <1>12, <1>13
-----------------------------------------------------------------------------
(* The form. *)

(* An edited form is no longer an untouched one. *)
LEMMA EditsGo ==
  ASSUME IInv, UNCHANGED <<server, states, cycle, slow, disturbed>>,
         NEW values \in Draft, form' = Edited(values), UNCHANGED <<mutation, save>>
  PROVE  IInv'
<1>1. form' \in Forms /\ form'.edited
  <2>1. form \in Forms
    BY Types DEF IInv
  <2> QED
    BY <2>1 DEF Edited, Forms
<1>2. TypeOK'
  BY <1>1, Types, TypesNext DEF IInv
<1>3. Revisions' /\ Expectations' /\ Mounted'
  BY DEF IInv, Revisions, Expectations, Mounted, Shown, Q!Loaded
<1>4. Untouched'
  BY <1>1 DEF Untouched
<1> QED
  BY <1>2, <1>3, <1>4 DEF IInv

(* A draft is sent, expecting the revision that is shown. *)
LEMMA SubmitGoes ==
  ASSUME IInv, NEW values \in Draft, Submit(values), form' \in Forms
  PROVE  IInv'
<1>1. PICK s \in Save :
        /\ save[s].step = "free"
        /\ save' \in [Save -> Saves]
        /\ save'[s] = [step |-> "sent", value |-> Body(values),
                       expected |-> ExpectedRevision, mounted |-> TRUE]
        /\ \A t \in Save \ {s} : save'[t] = save[t]
        /\ mutation' = [show |-> "pending", of |-> s] /\ mutation' \in Mutations
        /\ ExpectedRevision = Shown /\ ExpectedRevision < MaxRevision
  BY SubmitTypes DEF IInv
<1>2. UNCHANGED <<server, states, cycle, slow, disturbed>>
  BY DEF Submit
<1>3. /\ save'[s].step = "sent" /\ save'[s].expected = Shown /\ mutation' # NoMutation
  BY <1>1 DEF NoMutation
<1>4. TypeOK'
  BY <1>1, <1>2, Types, TypesNext DEF IInv
<1>5. Revisions'
  BY <1>2 DEF IInv, Revisions, Q!Loaded
<1>6. Shown' = Shown /\ Shown \in Nat
  <2>1. states \in Queries
    BY Types DEF IInv
  <2> QED
    BY <1>2, <2>1, ShownTypes DEF Shown, Q!Loaded
<1>7. Expectations'
  BY <1>1, <1>3, <1>6 DEF IInv, Expectations
<1>8. Mounted'
  BY <1>1, <1>3 DEF IInv, Mounted
<1>9. Untouched'
  BY <1>3 DEF Untouched
<1> QED
  BY <1>4, <1>5, <1>7, <1>8, <1>9 DEF IInv

(* The finding is opened anew: nothing that was sent concerns the form.    *)
LEMMA ReopenGoes ==
  ASSUME IInv, Reopen
  PROVE  IInv'
<1>1. /\ server \in Decision /\ states \in Queries /\ cycle \in Value \cup {NoData}
      /\ save \in [Save -> Saves] /\ disturbed \in 0..Disturbances
  BY Types DEF IInv
<1>2. /\ disturbed < Disturbances /\ disturbed' = disturbed + 1
      /\ form' = NewForm /\ mutation' = NoMutation
      /\ states' = [states EXCEPT !.waiting = {}, !.joined = {}] /\ slow' = NoWaiters
      /\ UNCHANGED <<server, cycle>>
  BY DEF Reopen
<1>3. /\ states' \in Queries /\ states'.data = states.data /\ states'.fetch = states.fetch
      /\ states'.answer = states.answer
  BY <1>1, <1>2 DEF Queries
<1>4. form' \in Forms /\ form'.values = Stored
  BY <1>1, <1>2, StoredTypes DEF NewForm, Forms
<1>5. /\ save' \in [Save -> Saves]
      /\ \A s \in Save : \/ save'[s] = Free
                         \/ /\ save[s].step \notin {"refreshing", "reloading"}
                            /\ save'[s].step = save[s].step
                            /\ save'[s].expected = save[s].expected
                            /\ save'[s].mounted <=> save[s].step = "free"
  <2> DEFINE new(s) == IF save[s].step \in {"refreshing", "reloading"} THEN Free
                       ELSE [save[s] EXCEPT !.mounted = save[s].step = "free"]
  <2>1. save' = [s \in Save |-> new(s)]
    BY DEF Reopen
  <2>2. ASSUME NEW s \in Save
        PROVE  /\ new(s) \in Saves
               /\ \/ new(s) = Free
                  \/ /\ save[s].step \notin {"refreshing", "reloading"}
                     /\ new(s).step = save[s].step
                     /\ new(s).expected = save[s].expected
                     /\ new(s).mounted <=> save[s].step = "free"
    <3>1. CASE save[s].step \in {"refreshing", "reloading"}
      BY <1>1, <3>1, SaveFields
    <3>2. CASE save[s].step \notin {"refreshing", "reloading"}
      <4>1. save[s] \in Saves /\ (save[s].step = "free") \in BOOLEAN
        BY <1>1
      <4> QED
        BY <3>2, <4>1 DEF Saves
    <3> QED
      BY <3>1, <3>2
  <2> HIDE DEF new
  <2> QED
    BY <2>1, <2>2
<1>6. mutation' \in Mutations
  BY <1>2 DEF NoMutation, Mutations
<1>7. NoWaiters \in Waits
  BY DEF NoWaiters, Waits
<1>8. TypeOK'
  BY <1>1, <1>2, <1>3, <1>4, <1>5, <1>6, <1>7, TypesNext, BoundAssumption
<1>9. Revisions' /\ Shown' = Shown /\ Stored' = Stored
  <2>1. server'.revision >= server.revision
    BY <1>1, <1>2 DEF Decision
  <2> QED
    BY <1>1, <1>2, <1>3, <2>1, PageKept
<1>10. Expectations'
  <2>1. Shown \in Nat
    BY <1>1, ShownTypes
  <2>2. \A s \in Save : save'[s].step # "free" => /\ save'[s].step = save[s].step
                                                  /\ save'[s].expected = save[s].expected
    BY <1>5 DEF Free
  <2>3. \A s \in Save : \/ save'[s].step = "free"
                        \/ /\ save[s].step # "free"
                           /\ save'[s].expected = save[s].expected
                           /\ save'[s].step = "sent" => save[s].step = "sent"
    BY <2>2
  <2> QED
    BY <1>8, <1>9, <2>1, <2>3, SavesKept
<1>11. Mounted'
  BY <1>5 DEF Mounted, Free
<1>12. Untouched'
  BY <1>4, <1>9 DEF Untouched
<1> QED
  BY <1>8, <1>9, <1>10, <1>11, <1>12 DEF IInv
-----------------------------------------------------------------------------
(* The server, and what follows its answer. *)

(* A step that leaves the page and the form, and goes on with one save.    *)
LEMMA SaveGoes ==
  ASSUME IInv, TypeOK', UNCHANGED <<cycle, form>>, server'.revision >= server.revision,
         states'.data = states.data,
         states'.fetch = "answered" =>
           states.fetch = "answered" /\ states'.answer = states.answer,
         NEW s \in Save, save[s].step # "free",
         mutation'.of = mutation.of, mutation.of # s => mutation' = mutation,
         \A t \in Save \ {s} : save'[t] = save[t],
         \/ save'[s].step = "free"
         \/ /\ save'[s].expected = save[s].expected /\ save'[s].step # "sent"
            /\ save'[s].mounted = save[s].mounted
            /\ save'[s].step \in {"refreshing", "reloading"} => save'[s].mounted
  PROVE  IInv'
<1>1. /\ server' \in Decision /\ states \in Queries /\ save \in [Save -> Saves]
      /\ mutation \in Mutations /\ mutation' \in Mutations
  BY Types, TypesNext DEF IInv
<1>2. /\ Revisions' /\ Shown' = Shown /\ Q!Loaded(states)' = Q!Loaded(states)
      /\ Stored' = Stored
  BY <1>1, PageKept
<1>3. Expectations'
  <2>1. Shown \in Nat
    BY <1>1, ShownTypes
  <2>2. \A t \in Save : \/ save'[t].step = "free"
                        \/ /\ save[t].step # "free"
                           /\ save'[t].expected = save[t].expected
                           /\ save'[t].step = "sent" => save[t].step = "sent"
    OBVIOUS
  <2> QED
    BY <1>2, <2>1, <2>2, SavesKept
<1>4. mutation = NoMutation <=> mutation' = NoMutation
  <2>1. CASE mutation.of = s
    BY <2>1, NoDataAssumption DEF NoMutation
  <2>2. CASE mutation.of # s
    BY <2>2
  <2> QED
    BY <2>1, <2>2
<1>5. Mounted'
  BY <1>4 DEF IInv, Mounted
<1>6. Untouched'
  BY <1>2, <1>4 DEF IInv, Untouched
<1> QED
  BY <1>2, <1>3, <1>5, <1>6 DEF IInv

(* Another person decides. *)
LEMMA OthersGo ==
  ASSUME IInv, NEW v \in [status : Verdict, text : Theirs], DecideElsewhere(v)
  PROVE  IInv'
<1>1. server \in Decision /\ save \in [Save -> Saves]
  BY Types DEF IInv
<1>2. /\ server' = [revision |-> server.revision + 1, value |-> v, by |-> "other"]
      /\ server.revision < MaxRevision
      /\ UNCHANGED <<states, cycle, slow, form, mutation, save, disturbed>>
  BY DEF DecideElsewhere
<1>3. server' \in Decision /\ server'.revision >= server.revision
  BY <1>1, <1>2, TextAssumption, BoundAssumption DEF Decision, Value
<1>4. TypeOK'
  BY <1>2, <1>3, Types, TypesNext DEF IInv
<1>5. Revisions' /\ Shown' = Shown /\ Stored' = Stored
  BY <1>2, <1>3, PageKept
<1>6. Expectations' /\ Mounted'
  BY <1>2, <1>5 DEF IInv, Expectations, Mounted
<1>7. Untouched'
  BY <1>2, <1>5 DEF IInv, Untouched, Q!Loaded
<1> QED
  BY <1>4, <1>5, <1>6, <1>7 DEF IInv

(* The server answers a save. *)
LEMMA PutGoes ==
  ASSUME IInv, NEW s \in Save, Put(s)
  PROVE  IInv'
<1>1. server \in Decision /\ save \in [Save -> Saves]
  BY Types DEF IInv
<1>2. /\ server' \in Decision /\ save' \in [Save -> Saves]
      /\ \A t \in Save \ {s} : save'[t] = save[t]
      /\ save'[s].value = save[s].value /\ save'[s].expected = save[s].expected
      /\ save'[s].mounted = save[s].mounted
      /\ \/ /\ save[s].expected = server.revision /\ save'[s].step = "accepted"
            /\ server' = [revision |-> server.revision + 1, value |-> save[s].value,
                          by |-> "me"]
         \/ /\ save[s].expected # server.revision /\ save'[s].step = "refused"
            /\ server' = server
  BY PutTypes DEF IInv, Expectations
<1>3. /\ save[s].step = "sent"
      /\ UNCHANGED <<states, cycle, slow, form, mutation, disturbed>>
  BY DEF Put
<1>4. TypeOK'
  BY <1>2, <1>3, Types, TypesNext DEF IInv
<1>5. server'.revision >= server.revision
  BY <1>1, <1>2 DEF Decision
<1> QED
  BY <1>2, <1>3, <1>4, <1>5, SaveGoes

(* The save was accepted or refused: what is shown is fetched anew. *)
LEMMA AnswersGo ==
  ASSUME IInv, NEW s \in Save, Succeed(s) \/ Refused(s)
  PROVE  IInv'
<1>1. /\ server \in Decision /\ states \in Queries /\ save \in [Save -> Saves]
      /\ slow \in Waits
  BY Types DEF IInv
<1>2. Caller(s) \in SUBSET Save
  BY DEF Caller
<1>3. /\ save[s].step \in {"accepted", "refused"}
      /\ states' = Q!Refetch(states, Caller(s))
      /\ slow' = slow \/ slow' \in Replaced(Caller(s))
      /\ UNCHANGED <<server, cycle, form, disturbed>>
      /\ \/ Show(s, "success") /\ Awaits(s, "refreshing")
         \/ Show(s, "conflict") /\ Awaits(s, "reloading")
  BY DEF Succeed, Refused
<1>4. /\ states' \in Queries /\ states'.data = states.data
      /\ states'.fetch = "answered" =>
           states.fetch = "answered" /\ states'.answer = states.answer
  <2>1. /\ Q!Refetch(states, Caller(s)) \in Queries
        /\ Q!Refetch(states, Caller(s)).data = states.data
        /\ Q!Refetch(states, Caller(s)).fetch = "answered" =>
             /\ states.fetch = "answered"
             /\ Q!Refetch(states, Caller(s)).answer = states.answer
    BY <1>1, <1>2, QueryFields
  <2>2. states' = Q!Refetch(states, Caller(s))
    BY <1>3
  <2> QED
    BY <2>1, <2>2
<1>5. /\ mutation' \in Mutations /\ mutation'.of = mutation.of
      /\ mutation.of # s => mutation' = mutation
  BY <1>3, ShowTypes DEF IInv
<1>6. /\ save' \in [Save -> Saves]
      /\ \A t \in Save \ {s} : save'[t] = save[t]
      /\ save[s].mounted => /\ save'[s].step \in {"refreshing", "reloading"}
                            /\ save'[s].mounted
                            /\ save'[s].expected = save[s].expected
      /\ ~save[s].mounted => save'[s] = Free
  BY <1>3, AwaitsTypes DEF IInv, Steps
<1>7. slow' \in Waits
  BY <1>1, <1>2, <1>3, WaitFields
<1>8. TypeOK'
  BY <1>3, <1>4, <1>5, <1>6, <1>7, Types, TypesNext DEF IInv
<1>9. server'.revision >= server.revision
  BY <1>1, <1>3 DEF Decision
<1>10. CASE save[s].mounted
  <2>1. save'[s].step # "sent" /\ save'[s].mounted = save[s].mounted
    <3>1. save' \in [Save -> Saves]
      BY <1>6
    <3>2. save'[s].mounted \in BOOLEAN /\ save[s].mounted \in BOOLEAN
      BY <1>1, <3>1 DEF Saves
    <3> QED
      BY <1>6, <1>10, <3>2
  <2> QED
    BY <1>3, <1>4, <1>5, <1>6, <1>8, <1>9, <1>10, <2>1, SaveGoes
<1>11. CASE ~save[s].mounted
  <2>1. save'[s].step = "free"
    BY <1>6, <1>11 DEF Free
  <2> QED
    BY <1>3, <1>4, <1>5, <1>6, <1>8, <1>9, <2>1, SaveGoes
<1> QED
  BY <1>10, <1>11

(* The request or its answer is lost. *)
LEMMA LosePutGoes ==
  ASSUME IInv, NEW s \in Save, LosePut(s)
  PROVE  IInv'
<1>1. /\ save[s].step # "free" /\ Show(s, "failed")
      /\ disturbed < Disturbances /\ disturbed' = disturbed + 1
      /\ UNCHANGED <<server, states, cycle, slow, form>>
      /\ save' = [save EXCEPT ![s] = Free]
  BY DEF LosePut
<1>2. /\ mutation' \in Mutations /\ mutation'.of = mutation.of
      /\ mutation.of # s => mutation' = mutation
  BY <1>1, ShowTypes DEF IInv
<1>3. save' \in [Save -> Saves] /\ save'[s] = Free /\ \A t \in Save \ {s} : save'[t] = save[t]
  BY <1>1, FreeTypes DEF IInv
<1>4. TypeOK'
  BY <1>1, <1>2, <1>3, Types, TypesNext, BoundAssumption DEF IInv
<1>5. server'.revision >= server.revision /\ save'[s].step = "free"
  <2>1. server \in Decision
    BY Types DEF IInv
  <2> QED
    BY <1>1, <1>3, <2>1 DEF Decision, Free
<1> QED
  BY <1>1, <1>2, <1>3, <1>4, <1>5, SaveGoes

(* submit() goes on: the form has been saved from, so that it is not one   *)
(* that nobody has touched.                                                *)
LEMMA ReturnGoes ==
  ASSUME IInv, NEW s \in Save, Return(s)
  PROVE  IInv'
<1>1. /\ server \in Decision /\ save \in [Save -> Saves] /\ form \in Forms
      /\ states \in Queries
  BY Types DEF IInv
<1>2. /\ save[s].step \in {"refreshing", "reloading"}
      /\ save' = [save EXCEPT ![s] = Free]
      /\ UNCHANGED <<server, states, cycle, slow, mutation, disturbed>>
  BY DEF Return, Released
<1>3. form' \in Forms
  <2>1. save[s].value \in Draft
    BY <1>1, Values DEF Saves
  <2> QED
    BY <1>1, <2>1 DEF Return, Forms
<1>4. save' \in [Save -> Saves] /\ save'[s] = Free /\ \A t \in Save \ {s} : save'[t] = save[t]
  BY <1>2, FreeTypes DEF IInv
<1>5. TypeOK'
  BY <1>1, <1>2, <1>3, <1>4, Types, TypesNext DEF IInv
<1>6. Revisions' /\ Shown' = Shown
  BY <1>2 DEF IInv, Revisions, Shown, Q!Loaded
<1>7. Expectations' /\ Mounted'
  BY <1>2, <1>4, <1>6 DEF IInv, Expectations, Mounted, Free
<1>8. mutation' # NoMutation
  BY <1>2 DEF IInv, Mounted
<1>9. Untouched'
  BY <1>8 DEF Untouched
<1> QED
  BY <1>5, <1>6, <1>7, <1>9 DEF IInv
-----------------------------------------------------------------------------
(* Every step. *)

(* The page starts with an unedited form, no save and no answer. *)
LEMMA InitSound == Init => IInv
<1> SUFFICES ASSUME Init PROVE IInv
  OBVIOUS
<1>1. /\ server = [revision |-> 0, value |-> Unreviewed, by |-> "other"]
      /\ states = [data |-> NoData, failed |-> FALSE, fetch |-> "none", answer |-> NoData,
                   waiting |-> {}, joined |-> {}]
      /\ cycle = NoData /\ slow = [waiting |-> {}, joined |-> {}] /\ disturbed = 0
      /\ form = [values |-> Unreviewed, edited |-> FALSE, saved |-> FALSE]
      /\ mutation = [show |-> "idle", of |-> NoData] /\ save = [s \in Save |-> Free]
  BY DEF Init, Q!Empty, NoMutation, NoWaiters
<1>2. Free \in Saves
  BY Values, BoundAssumption DEF Free, Saves, Steps
<1>3. TypeOK
  <2>1. server \in Decision /\ disturbed \in 0..Disturbances
    BY <1>1, Values, BoundAssumption DEF Decision
  <2>2. states \in Queries /\ slow \in Waits /\ form \in Forms /\ mutation \in Mutations
    BY <1>1, Values DEF Queries, Waits, Forms, Mutations
  <2> QED
    BY <1>1, <1>2, <2>1, <2>2, Types
<1>4. Revisions /\ Untouched
  BY <1>1 DEF Revisions, Untouched, Q!Loaded
<1>5. Expectations /\ Mounted
  BY <1>1 DEF Expectations, Mounted, Free
<1> QED
  BY <1>3, <1>4, <1>5 DEF IInv

(* No step of the page, the server or the network breaks the invariant.    *)
LEMMA StepSound == IInv /\ [Next]_vars => IInv'
<1> SUFFICES ASSUME IInv, [Next]_vars PROVE IInv'
  OBVIOUS
<1>1. form \in Forms
  BY Types DEF IInv
<1>2. CASE Load \/ Reload \/ ListStates \/ ReceiveStates \/ ReceiveCycle \/ LoseFetch
  BY <1>2, FetchesGo
<1>3. ASSUME NEW v \in Verdict, ChooseStatus(v) PROVE IInv'
  <2>1. [form.values EXCEPT !.status = v] \in Draft
    BY <1>1 DEF Forms, Draft
  <2> QED
    BY <1>3, <2>1, EditsGo DEF ChooseStatus
<1>4. ASSUME NEW t \in Text, WriteReason(t) PROVE IInv'
  <2>1. [form.values EXCEPT !.text = t] \in Draft
    BY <1>1 DEF Forms, Draft
  <2> QED
    BY <1>4, <2>1, EditsGo DEF WriteReason
<1>5. CASE SaveDecision \/ RetryConflict
  <2>1. Submit(form.values) /\ form' = form /\ form.values \in Draft
    BY <1>1, <1>5 DEF SaveDecision, RetryConflict, Forms
  <2> QED
    BY <1>1, <2>1, SubmitGoes
<1>6. CASE ResetDecision
  <2>1. Submit(Unreviewed) /\ form' = Edited(Unreviewed) /\ Unreviewed \in Draft
    BY <1>6, Values DEF ResetDecision
  <2>2. form' \in Forms
    BY <1>1, <2>1 DEF Edited, Forms
  <2> QED
    BY <2>1, <2>2, SubmitGoes
<1>7. CASE Reopen
  BY <1>7, ReopenGoes
<1>8. ASSUME NEW v \in [status : Verdict, text : Theirs], DecideElsewhere(v) PROVE IInv'
  BY <1>8, OthersGo
<1>9. ASSUME NEW s \in Save, Network(s) \/ Return(s) PROVE IInv'
  BY <1>9, PutGoes, AnswersGo, LosePutGoes, ReturnGoes DEF Network
<1>10. CASE UNCHANGED vars
  BY <1>10 DEF vars, IInv, TypeOK, Revisions, Expectations, Mounted, Untouched, Shown,
               Stored, Effective, Q!Loaded, Q!IsQuery
<1> QED
  BY <1>2, <1>3, <1>4, <1>5, <1>6, <1>7, <1>8, <1>9, <1>10 DEF Next

(* The invariant holds in every state the form can reach. *)
THEOREM Invariance == Spec => []IInv
BY InitSound, StepSound, PTL DEF Spec

(* A form nobody has touched shows the decision in force, in whatever      *)
(* order the page hears of the states and of the cycle.                    *)
THEOREM UntouchedFormsShowIt == Spec => []UntouchedShowsStored
<1>1. IInv => UntouchedShowsStored
  BY DEF IInv, Untouched, UntouchedShowsStored
<1> QED
  BY <1>1, Invariance, PTL

(* The revision the page shows never falls. *)
THEOREM RevisionsNeverFall == Spec => ShownRevisionNeverFalls
<1>1. IInv /\ [Next]_vars
        => [Q!Loaded(states) => states'.data.revision >= states.data.revision]_vars
  <2> SUFFICES ASSUME IInv, [Next]_vars, Q!Loaded(states)
               PROVE  states'.data.revision >= states.data.revision
    OBVIOUS
  <2>1. states \in Queries /\ server \in Decision /\ save \in [Save -> Saves]
    BY Types DEF IInv
  <2>2. states.data.revision \in Nat
    BY <2>1 DEF Queries, Decision, Q!Loaded
  <2>3. CASE states'.data = states.data
    BY <2>2, <2>3
  <2>4. CASE ReceiveStates
    <3>1. states.fetch = "answered" /\ states' = Q!Received(states)
      BY <2>4 DEF ReceiveStates
    <3>2. states'.data = states.answer
      BY <2>1, <3>1, QueryFields
    <3>3. states.answer \in Decision /\ states.data.revision <= states.answer.revision
      BY <3>1 DEF IInv, Revisions
    <3> QED
      BY <2>2, <3>2, <3>3 DEF Decision
  <2>5. CASE ~ReceiveStates
    <3>1. Load \/ Reload => states'.data = states.data
      <4>1. {} \in SUBSET Save
        OBVIOUS
      <4> QED
        BY <2>1, <4>1, QueryFields DEF Load, Reload
    <3>2. ListStates => states'.data = states.data
      BY <2>1, AnswerFields DEF ListStates
    <3>3. LoseFetch => states'.data = states.data
      BY <2>1, QueryFields DEF LoseFetch
    <3>4. Reopen => states'.data = states.data
      BY <2>1 DEF Reopen, Queries
    <3>5. ASSUME NEW s \in Save, Succeed(s) \/ Refused(s) PROVE states'.data = states.data
      <4>1. Caller(s) \in SUBSET Save
        BY DEF Caller
      <4> QED
        BY <2>1, <3>5, <4>1, QueryFields DEF Succeed, Refused
    <3>6. ASSUME ~Load, ~Reload, ~ListStates, ~LoseFetch, ~Reopen,
                 \A s \in Save : ~Succeed(s) /\ ~Refused(s)
          PROVE  states' = states
      BY <2>5, <3>6 DEF Next, ReceiveCycle, ChooseStatus, WriteReason, SaveDecision,
                        RetryConflict, ResetDecision, Submit, DecideElsewhere, Network, Put,
                        LosePut, Return, vars
    <3> QED
      BY <2>3, <3>1, <3>2, <3>3, <3>4, <3>5, <3>6
  <2> QED
    BY <2>4, <2>5
<1> QED
  BY <1>1, Invariance, PTL DEF Spec, ShownRevisionNeverFalls

(* A save replaces no decision the page has not shown. *)
THEOREM OverwritesWereSeen == Spec => OverwritesAreSeen
<1>1. IInv /\ [Next]_vars
        => [server' # server /\ server'.by = "me" => server.revision <= Shown]_vars
  <2> SUFFICES ASSUME IInv, [Next]_vars, server' # server, server'.by = "me"
               PROVE  server.revision <= Shown
    OBVIOUS
  <2>1. ASSUME NEW s \in Save, Put(s) PROVE server.revision <= Shown
    BY <2>1 DEF Put, IInv, Expectations
  <2>2. ASSUME NEW v \in [status : Verdict, text : Theirs] PROVE ~DecideElsewhere(v)
    BY DEF DecideElsewhere
  <2>3. ASSUME \A s \in Save : ~Put(s) PROVE FALSE
    BY <2>2, <2>3 DEF Next, Load, Reload, ListStates, ReceiveStates, ReceiveCycle, LoseFetch,
                      ChooseStatus, WriteReason, SaveDecision, RetryConflict, ResetDecision,
                      Reopen, Submit, Network, Succeed, Refused, LosePut, Return, vars
  <2> QED
    BY <2>1, <2>3
<1> QED
  BY <1>1, Invariance, PTL DEF Spec, OverwritesAreSeen
=============================================================================
