--------------------------- MODULE NewReviewProofs ---------------------------
(***************************************************************************)
(* For any runs, documents, models, openings and calls: an opening of the  *)
(* form makes one run of the same request, every run is started with a     *)
(* document that can be read, attached documents stay, and the end of a    *)
(* run that a page has shown stays shown.                                  *)
(***************************************************************************)
EXTENDS NewReview, FiniteSetTheorems, TLAPS

(* A query and the state of its run: what is cached or on its way of the   *)
(* end of a run is its end, and no answer on its way is older than it.     *)
Sound(q, state) ==
  /\ Q!IsQuery(q, Seen, {})
  /\ Q!Fetching(q) => state # "none"
  /\ Ended(q.data) => state = q.data
  /\ q.fetch = "answered" =>
       /\ Ended(q.answer) => state = q.answer
       /\ Ended(q.data) => q.answer = q.data
KeepsEnd(q, p) == Ended(q.data) => p.data = q.data

Queries ==
  [data : Seen \cup {NoData}, failed : BOOLEAN, fetch : {"none", "sent", "answered"},
   answer : Seen \cup {NoData}, waiting : SUBSET {}, joined : SUBSET {}]

(* A call of cancel() is about a run, and an accepted one has ended it. *)
CallSound(call, runs) ==
  \/ call = NoCancel
  \/ /\ call \in [step : {"sent", "accepted", "refused"}, run : Run, mounted : BOOLEAN]
     /\ runs[call.run] # "none"
     /\ call.step = "accepted" => runs[call.run] = "cancelled"

Cancellations ==
  {NoCancel} \cup [step : {"sent", "accepted", "refused"}, run : Run, mounted : BOOLEAN]

RunTypes ==
  /\ run \in [Run -> Seen \cup {"none"}]
  /\ page \in Run \cup {"home", "new"}
  /\ page \in Run => run[page] # "none"
Watched ==
  /\ RunTypes
  /\ query \in [Run -> Queries] /\ \A r \in Run : Sound(query[r], run[r])
  /\ cancel \in [CancelCall -> Cancellations]
  /\ \A c \in CancelCall : CallSound(cancel[c], run)
  /\ disturbed \in 0..Disturbances

(* Runs start, end and are cancelled, each once. *)
RunsGo ==
  /\ run' \in [Run -> Seen \cup {"none"}]
  /\ \A r \in Run : run'[r] = run[r] \/ (~Ended(run[r]) /\ run'[r] # "none")
QueriesGo ==
  /\ query' \in [Run -> Queries]
  /\ \A r \in Run : Sound(query'[r], run'[r]) /\ KeepsEnd(query[r], query'[r])
CallsGo ==
  /\ cancel' \in [CancelCall -> Cancellations]
  /\ \A c \in CancelCall : CallSound(cancel'[c], run')
-----------------------------------------------------------------------------
(* The watched runs. *)

(* What the cache does to a sound query keeps it sound, and what it shows  *)
(* of the end of the run.                                                  *)
LEMMA QueryOperations ==
  ASSUME NEW q, NEW s \in Seen \cup {"none"}, Sound(q, s)
  PROVE  /\ Sound(Q!Idle(q), s) /\ KeepsEnd(q, Q!Idle(q))
         /\ s # "none" => /\ Sound(Q!Fetch(q), s) /\ KeepsEnd(q, Q!Fetch(q))
                          /\ Sound(Q!Refetch(q, {}), s) /\ KeepsEnd(q, Q!Refetch(q, {}))
                          /\ Sound(Q!Answered(q, s), s) /\ KeepsEnd(q, Q!Answered(q, s))
         /\ q.fetch = "answered" => Sound(Q!Received(q), s) /\ KeepsEnd(q, Q!Received(q))
         /\ s = "cancelled" => /\ Sound(Q!SetData(Q!Cancel(q), "cancelled"), s)
                               /\ KeepsEnd(q, Q!SetData(Q!Cancel(q), "cancelled"))
<1> USE DEF Sound, KeepsEnd, Q!IsQuery, Q!Fetching, Ended, Terminal, Seen
<1>1. Sound(Q!Idle(q), s) /\ KeepsEnd(q, Q!Idle(q))
  BY NamesAssumption DEF Q!Idle
<1>2. ASSUME s # "none"
      PROVE  Sound(Q!Fetch(q), s) /\ KeepsEnd(q, Q!Fetch(q))
  BY <1>2 DEF Q!Fetch
<1>3. ASSUME s # "none"
      PROVE  Sound(Q!Refetch(q, {}), s) /\ KeepsEnd(q, Q!Refetch(q, {}))
  BY <1>3 DEF Q!Refetch, Q!Loaded, Q!Fetch
<1>4. ASSUME s # "none"
      PROVE  Sound(Q!Answered(q, s), s) /\ KeepsEnd(q, Q!Answered(q, s))
  BY <1>4 DEF Q!Answered
<1>5. ASSUME q.fetch = "answered"
      PROVE  Sound(Q!Received(q), s) /\ KeepsEnd(q, Q!Received(q))
  BY <1>5 DEF Q!Received, Q!Idle
<1>6. ASSUME s = "cancelled"
      PROVE  /\ Sound(Q!SetData(Q!Cancel(q), "cancelled"), s)
             /\ KeepsEnd(q, Q!SetData(Q!Cancel(q), "cancelled"))
  BY <1>6 DEF Q!SetData, Q!Cancel, Q!Idle
<1> QED BY <1>1, <1>2, <1>3, <1>4, <1>5, <1>6

(* Queries and calls are sound for a run that goes on. *)
LEMMA RunGoesOn ==
  ASSUME Watched, RunsGo
  PROVE  /\ \A r \in Run : Sound(query[r], run'[r])
         /\ \A c \in CancelCall : CallSound(cancel[c], run')
<1>1. ASSUME NEW r \in Run
      PROVE  Sound(query[r], run'[r])
  BY DEF Watched, RunsGo, Sound, Ended, Terminal
<1>2. ASSUME NEW c \in CancelCall
      PROVE  CallSound(cancel[c], run')
  BY DEF Watched, RunsGo, CallSound, Ended, Terminal
<1> QED BY <1>1, <1>2

(* One query changes as the cache changes it, the others do not. *)
LEMMA QueryGoes ==
  ASSUME Watched, NEW r \in Run, NEW q, Sound(q, run[r]), KeepsEnd(query[r], q),
         query' = [query EXCEPT ![r] = q], UNCHANGED run
  PROVE  QueriesGo
<1>1. q \in Queries
  BY DEF Sound, Q!IsQuery, Queries
<1>2. query' \in [Run -> Queries]
  BY <1>1 DEF Watched
<1>3. ASSUME NEW s \in Run
      PROVE  Sound(query'[s], run'[s]) /\ KeepsEnd(query[s], query'[s])
  <2>1. CASE s = r
    BY <2>1 DEF Watched
  <2>2. CASE s # r
    BY <2>2 DEF Watched, KeepsEnd
  <2> QED BY <2>1, <2>2
<1> QED BY <1>2, <1>3 DEF QueriesGo

(* Queries left alone go on with their runs. *)
LEMMA QueriesStay ==
  ASSUME Watched, RunsGo, UNCHANGED query
  PROVE  QueriesGo
BY RunGoesOn DEF Watched, QueriesGo, KeepsEnd

(* So do calls. *)
LEMMA CallsStay ==
  ASSUME Watched, RunsGo, UNCHANGED cancel
  PROVE  CallsGo
BY RunGoesOn DEF Watched, CallsGo

(* Runs left alone go on. *)
LEMMA RunsStay ==
  ASSUME Watched, UNCHANGED run
  PROVE  RunsGo
BY DEF Watched, RunTypes, RunsGo

(* Another page gives up one query and fetches another. *)
LEMMA GoToPage ==
  ASSUME Watched, NEW target \in Run \cup {"home", "new"},
         target \in Run => run[target] # "none",
         GoTo(target), UNCHANGED <<run, disturbed>>
  PROVE  QueriesGo /\ CallsGo
<1> DEFINE left == [r \in Run |-> IF r = page THEN Q!Idle(query[r]) ELSE query[r]]
<1>1. \A r \in Run : Sound(query[r], run[r]) /\ run[r] \in Seen \cup {"none"}
  BY DEF Watched, RunTypes
<1>2. ASSUME NEW r \in Run
      PROVE  Sound(left[r], run[r]) /\ KeepsEnd(query[r], left[r])
  <2>1. Sound(Q!Idle(query[r]), run[r]) /\ KeepsEnd(query[r], Q!Idle(query[r]))
    BY <1>1, QueryOperations
  <2> QED BY <1>1, <2>1 DEF KeepsEnd
<1>3. left \in [Run -> Queries]
  <2>1. \A r \in Run : left[r] \in Queries
    BY <1>2 DEF Sound, Q!IsQuery, Queries
  <2> QED BY <2>1
<1> HIDE DEF left
<1>4. ASSUME query' = left
      PROVE  QueriesGo
  <2>1. run' = run
    OBVIOUS
  <2> QED BY <1>2, <1>3, <1>4, <2>1 DEF QueriesGo
<1>5. ASSUME target \in Run, query' = [left EXCEPT ![target] = Q!Fetch(left[target])]
      PROVE  QueriesGo
  <2>1. Sound(Q!Fetch(left[target]), run[target]) /\ KeepsEnd(left[target], Q!Fetch(left[target]))
    BY <1>1, <1>2, <1>5, QueryOperations
  <2>2. KeepsEnd(query[target], Q!Fetch(left[target]))
    BY <1>2, <1>5, <2>1 DEF KeepsEnd
  <2>3. Q!Fetch(left[target]) \in Queries
    BY <2>1 DEF Sound, Q!IsQuery, Queries
  <2>4. query' \in [Run -> Queries] /\ query'[target] = Q!Fetch(left[target])
        /\ \A r \in Run \ {target} : query'[r] = left[r]
    BY <1>3, <1>5, <2>3
  <2>5. ASSUME NEW r \in Run
        PROVE  Sound(query'[r], run[r]) /\ KeepsEnd(query[r], query'[r])
    <3>1. CASE r = target
      BY <2>1, <2>2, <2>4, <3>1
    <3>2. CASE r # target
      BY <1>2, <2>4, <3>2
    <3> QED BY <3>1, <3>2
  <2>6. run' = run
    OBVIOUS
  <2> QED BY <2>4, <2>5, <2>6 DEF QueriesGo
<1>6. QueriesGo
  BY <1>4, <1>5 DEF GoTo, left
<1>7. CallsGo
  <2>1. ASSUME NEW c \in CancelCall
        PROVE  cancel'[c] \in Cancellations /\ CallSound(cancel'[c], run')
    <3>1. CASE cancel[c] = NoCancel
      BY <3>1 DEF GoTo, NoCancel, CallSound, Cancellations
    <3>2. CASE cancel[c] # NoCancel
      <4>1. CallSound(cancel[c], run)
        BY DEF Watched
      <4>2. cancel[c].step # "free"
        BY <3>2, <4>1 DEF CallSound
      <4>3. cancel'[c] = [cancel[c] EXCEPT !.mounted = FALSE]
        BY <4>2 DEF GoTo
      <4> QED BY <3>2, <4>1, <4>3 DEF CallSound, Cancellations
    <3> QED BY <3>1, <3>2
  <2>2. cancel' = [c \in CancelCall |-> cancel'[c]]
    BY DEF GoTo
  <2> QED BY <2>1, <2>2 DEF CallsGo
<1> QED BY <1>6, <1>7

(* What the pages of runs and the service do to a run, its query and its   *)
(* cancellation.                                                           *)
LEMMA WatchGoes ==
  ASSUME Watched, WatchNext
  PROVE  RunsGo /\ QueriesGo /\ CallsGo /\ UNCHANGED page /\ disturbed' \in 0..Disturbances
<1>0. /\ \A r \in Run : Sound(query[r], run[r]) /\ run[r] \in Seen \cup {"none"}
      /\ \A c \in CancelCall : CallSound(cancel[c], run)
      /\ page \in Run => run[page] # "none"
  BY DEF Watched, RunTypes
<1>1. UNCHANGED page /\ disturbed' \in 0..Disturbances
  BY DisturbanceAssumption
     DEF WatchNext, LoadRun, PollRun, GetRun, ReceiveRun, EndRun, Cancel, CancelRun, CancelConfirmed,
         CancelFails, Disturb, Watched
<1>2. CASE LoadRun \/ PollRun
  <2>1. page \in Run /\ UNCHANGED <<run, cancel>>
    BY <1>2 DEF LoadRun, PollRun
  <2>2. PICK q \in {Q!Fetch(query[page]), Q!Refetch(query[page], {})} :
          query' = [query EXCEPT ![page] = q]
    BY <1>2, <2>1 DEF LoadRun, PollRun, Watched
  <2>3. Sound(q, run[page]) /\ KeepsEnd(query[page], q)
    BY <1>0, <2>1, <2>2, QueryOperations
  <2> QED BY <1>1, <2>1, <2>2, <2>3, QueryGoes, RunsStay, CallsStay
<1>3. ASSUME NEW r \in Run, GetRun(r)
      PROVE  RunsGo /\ QueriesGo /\ CallsGo
  <2>1. run[r] # "none"
    BY <1>0, <1>3 DEF GetRun, Sound, Q!Fetching
  <2>2. /\ Sound(Q!Answered(query[r], run[r]), run[r])
        /\ KeepsEnd(query[r], Q!Answered(query[r], run[r]))
    BY <1>0, <2>1, QueryOperations
  <2>3. query' = [query EXCEPT ![r] = Q!Answered(query[r], run[r])] /\ UNCHANGED <<run, cancel>>
    BY <1>3 DEF GetRun
  <2> QED BY <2>2, <2>3, QueryGoes, RunsStay, CallsStay
<1>4. ASSUME NEW r \in Run, ReceiveRun(r)
      PROVE  RunsGo /\ QueriesGo /\ CallsGo
  <2>1. PICK q \in {Q!Received(query[r]), Q!Idle(query[r])} :
          /\ query' = [query EXCEPT ![r] = q]
          /\ q = Q!Idle(query[r]) \/ query[r].fetch = "answered"
    BY <1>4 DEF ReceiveRun
  <2>2. Sound(q, run[r]) /\ KeepsEnd(query[r], q)
    BY <1>0, <2>1, QueryOperations
  <2>3. UNCHANGED <<run, cancel>>
    BY <1>4 DEF ReceiveRun
  <2> QED BY <2>1, <2>2, <2>3, QueryGoes, RunsStay, CallsStay
<1>5. ASSUME NEW r \in Run, EndRun(r)
      PROVE  RunsGo /\ QueriesGo /\ CallsGo
  <2>1. RunsGo
    BY <1>5 DEF EndRun, RunsGo, Watched, RunTypes, Ended, Terminal, Seen
  <2> QED BY <1>5, <2>1, QueriesStay, CallsStay DEF EndRun
<1>6. ASSUME NEW c \in CancelCall, Cancel(c)
      PROVE  RunsGo /\ QueriesGo /\ CallsGo
  <2>1. UNCHANGED <<run, query>> /\ page \in Run
    BY <1>6 DEF Cancel
  <2>2. CallsGo
    BY <1>0, <1>6, <2>1 DEF Cancel, Watched, CallsGo, CallSound, Cancellations
  <2> QED BY <2>1, <2>2, RunsStay, QueriesStay
<1>7. ASSUME NEW c \in CancelCall, CancelRun(c)
      PROVE  RunsGo /\ QueriesGo /\ CallsGo
  <2>1. /\ cancel[c] \in [step : {"sent", "accepted", "refused"}, run : Run, mounted : BOOLEAN]
        /\ run[cancel[c].run] # "none"
    BY <1>0, <1>7 DEF CancelRun, CallSound, NoCancel
  <2>2. RunsGo
    BY <1>7, <2>1 DEF CancelRun, RunsGo, Watched, RunTypes, Seen, Terminal, Ended
  <2>3. CallsGo
    <3>1. ASSUME NEW d \in CancelCall
          PROVE  cancel'[d] \in Cancellations /\ CallSound(cancel'[d], run')
      <4>1. CASE d = c /\ Ended(run[cancel[c].run])
        BY <1>7, <2>1, <4>1 DEF CancelRun, Watched, Cancellations, CallSound
      <4>2. CASE d = c /\ ~Ended(run[cancel[c].run])
        <5>1. cancel'[c] = [cancel[c] EXCEPT !.step = "accepted"] /\ run'[cancel[c].run] = "cancelled"
          BY <1>7, <2>1, <4>2 DEF CancelRun, Watched, RunTypes
        <5> QED BY <2>1, <4>2, <5>1 DEF Cancellations, CallSound
      <4>3. CASE d # c
        BY <1>7, <2>2, <4>3, RunGoesOn DEF CancelRun, Watched
      <4> QED BY <4>1, <4>2, <4>3
    <3>2. cancel' = [d \in CancelCall |-> cancel'[d]]
      BY <1>7 DEF CancelRun, Watched
    <3> QED BY <3>1, <3>2 DEF CallsGo
  <2> QED BY <1>7, <2>2, <2>3, QueriesStay DEF CancelRun
<1>8. ASSUME NEW c \in CancelCall, CancelConfirmed(c)
      PROVE  RunsGo /\ QueriesGo /\ CallsGo
  <2>1. cancel[c].run \in Run /\ run[cancel[c].run] = "cancelled"
    BY <1>0, <1>8 DEF CancelConfirmed, CallSound, NoCancel
  <2> DEFINE r == cancel[c].run
             q == Q!SetData(Q!Cancel(query[r]), "cancelled")
  <2>2. Sound(q, run[r]) /\ KeepsEnd(query[r], q)
    BY <1>0, <2>1, QueryOperations
  <2>3. query' = [query EXCEPT ![r] = q] /\ cancel' = [cancel EXCEPT ![c] = NoCancel] /\ UNCHANGED run
    BY <1>8 DEF CancelConfirmed
  <2> HIDE DEF q
  <2>4. CallsGo
    BY <1>0, <2>3 DEF Watched, CallsGo, CallSound, Cancellations
  <2> QED BY <2>1, <2>2, <2>3, <2>4, QueryGoes, RunsStay
<1>9. ASSUME NEW c \in CancelCall, CancelFails(c)
      PROVE  RunsGo /\ QueriesGo /\ CallsGo
  <2>1. cancel' = [cancel EXCEPT ![c] = NoCancel] /\ UNCHANGED run
    BY <1>9 DEF CancelFails
  <2>2. CallsGo
    BY <1>0, <2>1 DEF Watched, CallsGo, CallSound, Cancellations
  <2>3. CASE cancel[c].run # page
    BY <1>9, <2>1, <2>2, <2>3, RunsStay, QueriesStay DEF CancelFails
  <2>4. CASE cancel[c].run = page
    <3>1. page \in Run
      BY <1>0, <1>9, <2>4 DEF CancelFails, CallSound, NoCancel
    <3>2. /\ Sound(Q!Refetch(query[page], {}), run[page])
          /\ KeepsEnd(query[page], Q!Refetch(query[page], {}))
      BY <1>0, <3>1, QueryOperations
    <3>3. query' = [query EXCEPT ![page] = Q!Refetch(query[page], {})]
      BY <1>9, <2>4 DEF CancelFails
    <3> QED BY <2>1, <2>2, <3>1, <3>2, <3>3, QueryGoes, RunsStay
  <2> QED BY <2>3, <2>4
<1> QED BY <1>1, <1>2, <1>3, <1>4, <1>5, <1>6, <1>7, <1>8, <1>9 DEF WatchNext
-----------------------------------------------------------------------------
(* The form and its documents. *)

Forms ==
  [doc : Doc \cup {NoDoc}, state : Extraction, contexts : SUBSET Doc, panel : BOOLEAN,
   model : Model \cup {NoModel}, sending : StartCall \cup {NoData}]
Uploads == [doc : Doc, place : {"main", "context"}, field : BOOLEAN, base : SUBSET Doc]
Texts == [Doc -> Extraction \cup {"none"}]

(* A form that shows a document as readable shows one that is; an answer   *)
(* about it, too; and an upload makes a document of its own.               *)
DocumentSound(f, q, texts) ==
  /\ f \in Forms /\ Q!IsQuery(q, Extraction, {})
  /\ f.doc # NoDoc => texts[f.doc] # "none"
  /\ f.doc # NoDoc /\ f.state = "ready" => texts[f.doc] = "ready"
  /\ Q!Fetching(q) => f.doc # NoDoc
  /\ q.fetch = "answered" =>
       q.answer \in Extraction /\ (q.answer = "ready" => texts[f.doc] = "ready")
UploadsSound(uploads, texts) ==
  /\ uploads \subseteq Uploads
  /\ \A u \in uploads : texts[u.doc] = "none"
  /\ \A u, v \in uploads : u.doc = v.doc => u = v

Written ==
  /\ extraction \in Texts /\ available \subseteq Model
  /\ opening \in 0..MaxOpenings
  /\ offered \in (SUBSET Model) \cup {NoData}
  /\ DocumentSound(form, document, extraction)
  /\ UploadsSound(upload, extraction)
  /\ OnForm => opening # 0
  /\ ~OnForm => form = EmptyForm /\ document = Q!Empty /\ upload = {}

(* A text that the service has stays; a document that is known stays known. *)
TextsGo(texts, later) ==
  /\ later \in Texts
  /\ \A d \in Doc : \/ later[d] = texts[d]
                    \/ texts[d] = "none" /\ later[d] # "none"

(* What the cache does to the query of the document. *)
LEMMA DocumentOperations ==
  ASSUME NEW f, NEW q, NEW texts \in Texts, DocumentSound(f, q, texts)
  PROVE  /\ f.doc # NoDoc => DocumentSound(f, Q!Fetch(q), texts)
         /\ f.doc # NoDoc => DocumentSound(f, Q!Refetch(q, {}), texts)
         /\ q.fetch = "sent" => DocumentSound(f, Q!Answered(q, texts[f.doc]), texts)
         /\ DocumentSound(f, Q!Lost(q), texts)
         /\ q.fetch = "answered" =>
              DocumentSound([f EXCEPT !.state = q.answer], Q!Received(q), texts)
<1> USE DEF DocumentSound, Q!IsQuery, Q!Fetching
<1>1. ASSUME f.doc # NoDoc
      PROVE  DocumentSound(f, Q!Fetch(q), texts)
  BY <1>1 DEF Q!Fetch
<1>2. ASSUME q.fetch = "sent"
      PROVE  DocumentSound(f, Q!Answered(q, texts[f.doc]), texts)
  <2>1. texts[f.doc] \in Extraction
    BY <1>2 DEF Forms, Texts
  <2> QED BY <1>2, <2>1 DEF Q!Answered
<1>3. DocumentSound(f, Q!Lost(q), texts)
  BY DEF Q!Lost, Q!Idle
<1>4. ASSUME q.fetch = "answered"
      PROVE  DocumentSound([f EXCEPT !.state = q.answer], Q!Received(q), texts)
  <2>1. [f EXCEPT !.state = q.answer] \in Forms
    BY <1>4 DEF Forms
  <2> QED BY <1>4, <2>1 DEF Q!Received, Q!Idle, Forms
<1>5. ASSUME f.doc # NoDoc
      PROVE  DocumentSound(f, Q!Refetch(q, {}), texts)
  BY <1>5 DEF Q!Refetch
<1> QED BY <1>1, <1>2, <1>3, <1>4, <1>5

(* A form that keeps its document and what it shows of it.                 *)
LEMMA FormChanged ==
  ASSUME NEW f, NEW g \in Forms, NEW q, NEW texts, DocumentSound(f, q, texts),
         g.doc = f.doc, g.state = f.state
  PROVE  DocumentSound(g, q, texts)
BY DEF DocumentSound

(* A form with no document has nothing to be wrong about. *)
LEMMA NoDocument ==
  ASSUME NEW f \in Forms, NEW texts, f.doc = NoDoc
  PROVE  DocumentSound(f, Q!Empty, texts)
BY DEF DocumentSound, Q!Empty, Q!IsQuery, Q!Fetching

(* Texts that go on leave what the form shows true. *)
LEMMA TextsGoOn ==
  ASSUME NEW f, NEW q, NEW texts, NEW later, DocumentSound(f, q, texts), TextsGo(texts, later)
  PROVE  DocumentSound(f, q, later)
<1>1. CASE f.doc = NoDoc
  BY <1>1 DEF DocumentSound, Q!Fetching
<1>2. CASE f.doc # NoDoc
  <2>1. f.doc \in Doc
    BY <1>2 DEF DocumentSound, Forms
  <2>2. /\ texts[f.doc] # "none" => later[f.doc] # "none"
        /\ texts[f.doc] = "ready" => later[f.doc] = "ready"
    BY <2>1 DEF TextsGo
  <2> QED BY <1>2, <2>2 DEF DocumentSound
<1> QED BY <1>1, <1>2

(* Taking fields away keeps the uploads. *)
LEMMA FieldsSound ==
  ASSUME NEW f, NEW uploads, NEW texts, UploadsSound(uploads, texts)
  PROVE  UploadsSound(Fields(f, uploads), texts)
<1> DEFINE New(u) == [u EXCEPT !.field = @ /\ (u.place = "context" => HasField(f))]
<1>1. ASSUME NEW u \in uploads
      PROVE  New(u) \in Uploads /\ New(u).doc = u.doc
  <2>1. u \in Uploads
    BY DEF UploadsSound
  <2>2. PICK b \in BOOLEAN : b <=> (u.field /\ (u.place = "context" => HasField(f)))
    OBVIOUS
  <2>3. New(u) = [u EXCEPT !.field = b]
    BY <2>1, <2>2, Zenon DEF Uploads
  <2>4. [u EXCEPT !.field = b] \in Uploads /\ [u EXCEPT !.field = b].doc = u.doc
    BY <2>1 DEF Uploads
  <2> QED BY <2>3, <2>4
<1>2. Fields(f, uploads) = {New(u) : u \in uploads}
  BY DEF Fields
<1> HIDE DEF New
<1> QED BY <1>1, <1>2 DEF UploadsSound

(* The empty form. *)
LEMMA EmptySound ==
  ASSUME NEW texts
  PROVE  /\ EmptyForm \in Forms /\ EmptyForm.doc = NoDoc
         /\ DocumentSound(EmptyForm, Q!Empty, texts) /\ UploadsSound({}, texts)
<1>1. EmptyForm \in Forms /\ EmptyForm.doc = NoDoc
  BY DEF EmptyForm, Forms, Extraction
<1> QED BY <1>1, NoDocument DEF UploadsSound

(* A list offers a model, or none. *)
LEMMA DefaultType ==
  ASSUME NEW list \in (SUBSET Model) \cup {NoData}
  PROVE  Default(list) \in Model \cup {NoModel}
<1>1. CASE list = NoData \/ list = {}
  BY <1>1 DEF Default
<1>2. CASE list # NoData /\ list # {}
  <2>1. (CHOOSE m \in list : TRUE) \in list
    BY <1>2
  <2>2. list \subseteq Model
    BY <1>2
  <2>3. Default(list) = CHOOSE m \in list : TRUE
    BY <1>2, Zenon DEF Default
  <2> QED BY <2>1, <2>2, <2>3
<1> QED BY <1>1, <1>2

(* What the form is left with, when it is closed. *)
LEMMA FormCloses ==
  ASSUME Written, CloseForm, page' \in Run \cup {"home"} \/ (page' = page /\ ~OnForm),
         UNCHANGED <<extraction, available, opening, offered>>
  PROVE  Written'
<1>1. ~OnForm'
  BY NamesAssumption DEF OnForm
<1>2. DocumentSound(form', document', extraction') /\ UploadsSound(upload', extraction')
  BY EmptySound DEF CloseForm
<1> QED BY <1>1, <1>2 DEF Written, CloseForm

(* A change of the open form, or of what it asks for. *)
LEMMA FormGoes ==
  ASSUME Written, OnForm, UNCHANGED <<page, opening>>,
         extraction' \in Texts, available' \subseteq Model, offered' \in (SUBSET Model) \cup {NoData},
         DocumentSound(form', document', extraction'), UploadsSound(upload', extraction')
  PROVE  Written'
BY DEF Written, OnForm

(* The calls that one click or two make. *)
Clicked(calls, clicks) ==
  /\ calls # {} /\ IsFiniteSet(calls) /\ Cardinality(calls) = clicks
  /\ calls \subseteq StartCall \ Starting
  /\ start' = [c \in StartCall |->
        IF c \in calls
          THEN [step |-> "sent", opening |-> opening,
                body |-> [doc |-> form.doc, contexts |-> form.contexts, model |-> form.model]]
          ELSE start[c]]
  /\ form' = [form EXCEPT !.sending = CHOOSE c \in calls : TRUE]

(* A finite set that is large enough has a part of one element or two.     *)
LEMMA SmallParts ==
  ASSUME NEW S, IsFiniteSet(S), NEW n \in 1..2, n <= Cardinality(S)
  PROVE  \E C \in SUBSET S : Cardinality(C) = n
<1>1. \A x : Cardinality({x}) = 1 /\ IsFiniteSet({x})
  <2>1. Cardinality({}) = 0 /\ IsFiniteSet({})
    BY FS_EmptySet
  <2> QED BY <2>1, FS_AddElement
<1>2. PICK x \in S : TRUE
  BY FS_EmptySet
<1>3. CASE n = 1
  BY <1>1, <1>2, <1>3
<1>4. CASE n = 2
  <2>1. Cardinality(S \ {x}) = Cardinality(S) - 1 /\ Cardinality(S) \in Nat
    BY <1>2, FS_RemoveElement, FS_CardinalityType
  <2>2. S \ {x} # {}
    <3>1. Cardinality(S \ {x}) # 0
      BY <1>4, <2>1
    <3> QED BY <3>1, FS_EmptySet
  <2>3. PICK y \in S \ {x} : TRUE
    BY <2>2
  <2>4. Cardinality({x} \cup {y}) = 2
    <3>1. Cardinality({x} \cup {y}) = Cardinality({x}) + 1
      <4>1. IsFiniteSet({x}) /\ y \notin {x}
        BY <1>1, <2>3
      <4> QED BY <4>1, FS_AddElement
    <3> QED BY <1>1, <3>1
  <2> QED BY <1>2, <1>4, <2>3, <2>4
<1> QED BY <1>3, <1>4

(* The calls that a start chooses exist. *)
LEMMA CallsAreChosen ==
  ASSUME NEW clicks \in 1..2, Start(clicks)
  PROVE  \E calls \in SUBSET StartCall : Clicked(calls, clicks)
<1> DEFINE calls == CHOOSE C \in SUBSET (StartCall \ Starting) : Cardinality(C) = clicks
<1>1. IsFiniteSet(StartCall \ Starting) /\ clicks <= Cardinality(StartCall \ Starting)
  BY FormAssumption, FS_Difference DEF Start
<1>2. calls \subseteq StartCall \ Starting /\ Cardinality(calls) = clicks
  BY <1>1, SmallParts
<1>3. Clicked(calls, clicks)
  <2> HIDE DEF calls
  <2>1. IsFiniteSet(calls) /\ calls # {}
    BY <1>1, <1>2, FS_Subset, FS_EmptySet
  <2>2. /\ start' = [c \in StartCall |->
             IF c \in calls
               THEN [step |-> "sent", opening |-> opening,
                     body |-> [doc |-> form.doc, contexts |-> form.contexts,
                               model |-> form.model]]
               ELSE start[c]]
        /\ form' = [form EXCEPT !.sending = CHOOSE c \in calls : TRUE]
    BY DEF Start, calls
  <2> QED BY <1>2, <2>1, <2>2 DEF Clicked
<1> QED BY <1>2, <1>3

(* What the person and the network do to the form keeps it sound, and      *)
(* texts once known stay.                                                  *)
LEMMA WrittenGoes ==
  ASSUME Written, Next,
         \A c \in StartCall : start[c].step = "accepted" => start[c].run \in Run
  PROVE  Written' /\ TextsGo(extraction, extraction')
<1>0. /\ DocumentSound(form, document, extraction) /\ UploadsSound(upload, extraction)
      /\ form \in Forms /\ extraction \in Texts /\ available \subseteq Model
      /\ offered \in (SUBSET Model) \cup {NoData} /\ opening \in 0..MaxOpenings
      /\ TextsGo(extraction, extraction)
  BY DEF Written, DocumentSound, TextsGo
<1>1. ASSUME UNCHANGED <<page, opening, extraction, available, offered, form, document, upload>>
      PROVE  Written' /\ TextsGo(extraction, extraction')
  BY <1>0, <1>1 DEF Written, OnForm
<1>2. CASE OpenForm
  <2>1. /\ page' = "new" /\ document = Q!Empty /\ upload = {} /\ opening < MaxOpenings
        /\ opening' = opening + 1 /\ form' = [EmptyForm EXCEPT !.model = Default(offered)]
        /\ UNCHANGED <<extraction, available, document, offered, upload>>
    BY <1>2 DEF OpenForm, GoTo, Written, service
  <2>2. form' \in Forms /\ form'.doc = NoDoc
    BY <1>0, <2>1, EmptySound, DefaultType DEF Forms
  <2>3. DocumentSound(form', document', extraction')
    BY <2>1, <2>2, NoDocument
  <2>4. opening' \in 0..MaxOpenings /\ opening' # 0
    BY <1>0, <2>1, FormAssumption
  <2> QED BY <1>0, <2>1, <2>3, <2>4 DEF Written, OnForm
<1>3. ASSUME NEW target \in Run \cup {"home"}, OpenPage(target)
      PROVE  Written' /\ TextsGo(extraction, extraction')
  <2>1. page' = target /\ CloseForm /\ UNCHANGED <<extraction, available, opening, offered>>
    BY <1>3 DEF OpenPage, GoTo, service
  <2> QED BY <1>0, <2>1, FormCloses
<1>4. CASE LoadModels \/ \E m \in Model : Select(m)
  <2>1. /\ OnForm /\ UNCHANGED <<page, opening, extraction, available, document, upload>>
        /\ offered' \in (SUBSET Model) \cup {NoData}
    BY <1>0, <1>4 DEF LoadModels, Select, service
  <2>2. form' \in Forms /\ form'.doc = form.doc /\ form'.state = form.state
    <3>1. CASE LoadModels
      <4>1. Default(available) \in Model \cup {NoModel}
        BY <1>0, DefaultType
      <4> QED BY <1>0, <3>1, <4>1 DEF LoadModels, Forms
    <3>2. ASSUME NEW m \in Model, Select(m)
          PROVE  form' \in Forms /\ form'.doc = form.doc /\ form'.state = form.state
      BY <1>0, <3>2 DEF Select, Forms
    <3> QED BY <1>4, <3>1, <3>2
  <2>3. DocumentSound(form', document', extraction')
    BY <1>0, <2>1, <2>2, FormChanged
  <2> QED BY <1>0, <2>1, <2>3, FormGoes
<1>5. CASE TogglePanel \/ \E d \in Doc : Detach(d)
  <2>1. OnForm /\ UNCHANGED <<page, opening, extraction, available, offered, document>>
    BY <1>5 DEF TogglePanel, Detach, service
  <2>2. form' \in Forms /\ form'.doc = form.doc /\ form'.state = form.state
    BY <1>0, <1>5 DEF TogglePanel, Detach, Forms
  <2>3. upload' = upload \/ upload' = Fields(form', upload)
    BY <1>5 DEF TogglePanel, Detach
  <2>4. DocumentSound(form', document', extraction')
    BY <1>0, <2>1, <2>2, FormChanged
  <2>5. UploadsSound(upload', extraction')
    BY <1>0, <2>1, <2>3, FieldsSound
  <2> QED BY <1>0, <2>1, <2>4, <2>5, FormGoes
<1>6. ASSUME NEW m \in Model, ObserveModel(m)
      PROVE  Written' /\ TextsGo(extraction, extraction')
  <2>1. /\ available' \subseteq Model
        /\ UNCHANGED <<page, opening, extraction, offered, form, document, upload>>
    BY <1>0, <1>6 DEF ObserveModel, formVars
  <2> QED BY <1>0, <2>1 DEF Written, OnForm
<1>7. ASSUME NEW place \in {"main", "context"}, Upload(place)
      PROVE  Written' /\ TextsGo(extraction, extraction')
  <2> DEFINE d == CHOOSE d \in Unused : TRUE
             u == [doc |-> d, place |-> place, field |-> TRUE, base |-> form.contexts]
  <2>1. /\ OnForm /\ d \in Unused /\ upload' = upload \cup {u}
        /\ UNCHANGED <<page, opening, extraction, available, offered, form, document>>
    BY <1>7 DEF Upload, service
  <2> HIDE DEF d
  <2>2. d \in Doc /\ extraction[d] = "none" /\ \A v \in upload : v.doc # d
    BY <2>1 DEF Unused
  <2>3. u \in Uploads
    BY <1>0, <2>2 DEF Uploads, Forms
  <2>4. UploadsSound(upload', extraction')
    <3> HIDE DEF u
    <3>1. u.doc = d
      BY DEF u
    <3>2. \A v \in upload' : v \in Uploads /\ extraction[v.doc] = "none"
      BY <1>0, <2>1, <2>2, <2>3, <3>1 DEF UploadsSound
    <3>3. \A v, w \in upload' : v.doc = w.doc => v = w
      BY <1>0, <2>1, <2>2, <3>1 DEF UploadsSound
    <3>4. extraction' = extraction
      BY <2>1
    <3> QED BY <3>2, <3>3, <3>4 DEF UploadsSound
  <2> QED BY <1>0, <2>1, <2>4, FormGoes
<1>8. ASSUME NEW u \in upload, NEW state \in Extraction, Uploaded(u, state)
      PROVE  Written' /\ TextsGo(extraction, extraction')
  <2>1. /\ OnForm /\ u \in Uploads /\ u.doc \in Doc /\ extraction[u.doc] = "none"
        /\ u.place \in {"main", "context"}
    BY <1>0, <1>8 DEF Written, UploadsSound, Uploads
  <2>2. /\ extraction' = [extraction EXCEPT ![u.doc] = state]
        /\ upload' = Fields(form', upload \ {u})
        /\ UNCHANGED <<page, opening, available, offered>>
    BY <1>8 DEF Uploaded
  <2>3. extraction'[u.doc] = state /\ TextsGo(extraction, extraction')
    BY <1>0, <2>1, <2>2 DEF TextsGo, Texts
  <2>4. UploadsSound(upload \ {u}, extraction')
    <3>1. ASSUME NEW v \in upload \ {u}
          PROVE  v \in Uploads /\ extraction'[v.doc] = "none"
      <4>1. v \in Uploads /\ v.doc \in Doc /\ v.doc # u.doc /\ extraction[v.doc] = "none"
        BY <1>0 DEF UploadsSound, Uploads
      <4> QED BY <1>0, <2>2, <4>1 DEF Texts
    <3> QED BY <1>0, <3>1 DEF UploadsSound
  <2>5. UploadsSound(upload', extraction')
    BY <2>2, <2>4, FieldsSound
  <2>6. DocumentSound(form', document', extraction')
    <3>1. CASE u.place = "main"
      <4>1. form' = [form EXCEPT !.doc = u.doc, !.state = state] /\ document' = Q!Fetch(Q!Empty)
        BY <1>8, <3>1 DEF Uploaded
      <4>2. form' \in Forms /\ form'.doc = u.doc /\ form'.state = state
        BY <1>0, <2>1, <4>1 DEF Forms
      <4>3. document'.fetch = "sent" /\ Q!IsQuery(document', Extraction, {})
        BY <4>1 DEF Q!Fetch, Q!Empty, Q!IsQuery, Q!Fetching
      <4>4. state # "none"
        BY DEF Extraction
      <4>5. u.doc # NoDoc
        BY <2>1, FormAssumption
      <4> QED BY <2>3, <4>2, <4>3, <4>4, <4>5 DEF DocumentSound
    <3>2. CASE u.place # "main"
      <4>1. form' = [form EXCEPT !.contexts = Attach(u)] /\ UNCHANGED document
        BY <1>8, <3>2 DEF Uploaded
      <4>2. form' \in Forms /\ form'.doc = form.doc /\ form'.state = form.state
        BY <1>0, <2>1, <4>1 DEF Forms, Attach
      <4> QED BY <1>0, <2>3, <4>1, <4>2, FormChanged, TextsGoOn
    <3> QED BY <3>1, <3>2
  <2> QED BY <1>0, <2>1, <2>2, <2>3, <2>5, <2>6, FormGoes DEF TextsGo
<1>9. ASSUME NEW u \in upload, UploadFails(u)
      PROVE  Written' /\ TextsGo(extraction, extraction')
  <2>1. /\ OnForm /\ upload' = upload \ {u}
        /\ UNCHANGED <<page, opening, extraction, available, offered, form, document>>
    BY <1>9 DEF UploadFails, Written, service
  <2>2. UploadsSound(upload', extraction')
    BY <1>0, <2>1 DEF UploadsSound
  <2> QED BY <1>0, <2>1, <2>2, FormGoes
<1>10. CASE LoadDocument \/ GetDocument \/ ReceiveDocument
  <2>1. OnForm /\ UNCHANGED <<page, opening, extraction, available, offered, upload>>
    <3>1. OnForm
      BY <1>10 DEF LoadDocument, GetDocument, ReceiveDocument, Written,
                   Q!Empty, Q!Fetching
    <3> QED BY <1>10, <3>1 DEF LoadDocument, GetDocument, ReceiveDocument, service
  <2>2. DocumentSound(form', document', extraction')
    <3>1. CASE LoadDocument
      BY <1>0, <2>1, <3>1, DocumentOperations DEF LoadDocument
    <3>2. CASE GetDocument
      BY <1>0, <2>1, <3>2, DocumentOperations DEF GetDocument
    <3>3. ASSUME document.fetch = "answered", document' = Q!Received(document),
                 form' = [form EXCEPT !.state = document.answer]
          PROVE  DocumentSound(form', document', extraction')
      <4>1. DocumentSound([form EXCEPT !.state = document.answer], Q!Received(document), extraction)
        BY <1>0, <3>3, DocumentOperations
      <4> QED BY <2>1, <3>3, <4>1
    <3>4. ASSUME document' = Q!Lost(document), UNCHANGED form
          PROVE  DocumentSound(form', document', extraction')
      <4>1. DocumentSound(form, Q!Lost(document), extraction)
        BY <1>0, DocumentOperations
      <4> QED BY <2>1, <3>4, <4>1
    <3> QED BY <1>10, <3>1, <3>2, <3>3, <3>4 DEF ReceiveDocument
  <2> QED BY <1>0, <2>1, <2>2, FormGoes
<1>11. ASSUME NEW clicks \in 1..2, Start(clicks)
       PROVE  Written' /\ TextsGo(extraction, extraction')
  <2>1. PICK calls \in SUBSET StartCall : Clicked(calls, clicks)
    BY <1>11, CallsAreChosen
  <2>2. /\ OnForm /\ form' = [form EXCEPT !.sending = CHOOSE c \in calls : TRUE]
        /\ UNCHANGED <<page, opening, extraction, available, offered, document, upload>>
    BY <1>11, <2>1 DEF Start, service, Clicked
  <2>3. form' \in Forms /\ form'.doc = form.doc /\ form'.state = form.state
    <3>1. PICK c \in StartCall : form' = [form EXCEPT !.sending = c]
      BY <2>1, <2>2 DEF Clicked
    <3> QED BY <1>0, <3>1 DEF Forms
  <2>4. DocumentSound(form', document', extraction')
    <3>1. document' = document /\ extraction' = extraction
      BY <2>2
    <3> QED BY <1>0, <2>3, <3>1, FormChanged
  <2> QED BY <1>0, <2>2, <2>4, FormGoes
<1>12. ASSUME NEW c \in StartCall, Create(c)
       PROVE  Written' /\ TextsGo(extraction, extraction')
  BY <1>1, <1>12 DEF Create, formVars
<1>13. ASSUME NEW c \in StartCall, StartSucceeds(c)
       PROVE  Written' /\ TextsGo(extraction, extraction')
  <2>1. /\ CloseForm /\ page' = start[c].run /\ start[c].run \in Run
        /\ UNCHANGED <<extraction, available, opening, offered>>
    BY <1>13 DEF StartSucceeds, GoTo, service
  <2> QED BY <1>0, <2>1, FormCloses
<1>14. ASSUME NEW c \in StartCall, StartFails(c)
       PROVE  Written' /\ TextsGo(extraction, extraction')
  <2>1. /\ form' = IF form.sending = c THEN [form EXCEPT !.sending = NoData] ELSE form
        /\ UNCHANGED <<page, opening, extraction, available, offered, document, upload>>
    BY <1>14 DEF StartFails, service
  <2>2. form' \in Forms /\ form'.doc = form.doc /\ form'.state = form.state
    BY <1>0, <2>1 DEF Forms
  <2>3. DocumentSound(form', document', extraction')
    BY <1>0, <2>1, <2>2, FormChanged
  <2>4. ~OnForm => form' = form
    BY <2>1 DEF Written, EmptyForm
  <2> QED BY <1>0, <2>1, <2>3, <2>4 DEF Written, OnForm
<1>15. ASSUME WatchNext, UNCHANGED <<service, opening, formVars, offered, start>>
       PROVE  Written' /\ TextsGo(extraction, extraction')
  <2>1. UNCHANGED page
    BY <1>15 DEF WatchNext, LoadRun, PollRun, GetRun, ReceiveRun, EndRun, Cancel, CancelRun,
                 CancelConfirmed, CancelFails
  <2> QED BY <1>1, <1>15, <2>1 DEF service, formVars
<1> QED
  BY <1>2, <1>3, <1>4, <1>5, <1>6, <1>7, <1>8, <1>9, <1>10, <1>11, <1>12, <1>13, <1>14, <1>15
  DEF Next, FormNext, Network
-----------------------------------------------------------------------------
(* The calls of createRun() and what the service has admitted. *)

Intents == (1..MaxOpenings) \X Body
StartCalls ==
  {NotStarting} \cup [step : {"sent", "refused"}, opening : 1..MaxOpenings, body : Body]
                \cup [step : {"accepted"}, opening : 1..MaxOpenings, run : Run]

(* A request names a document that can be read; an answer, a started run.  *)
StartSound(s, runs, texts) ==
  /\ s \in StartCalls
  /\ s.step = "sent" => texts[s.body.doc] = "ready"
  /\ s.step = "accepted" => runs[s.run] # "none"
Sent(starts) == {c \in StartCall : starts[c].step = "sent"}

(* There is a run left for every request under way. *)
Starts ==
  /\ start \in [StartCall -> StartCalls]
  /\ \A c \in StartCall : StartSound(start[c], run, extraction)
  /\ Cardinality(Sent(start)) <= Cardinality(Run \ Started)

(* Every run that was started is that of the one admission of its intent.  *)
Admissions ==
  /\ origin \in [Run -> Intents \cup {NoData}]
  /\ \A a \in admitted : a.run \in Run /\ run[a.run] # "none" /\ origin[a.run] = a.key
  /\ \A r \in Run : run[r] # "none" =>
       /\ origin[r] \in Intents /\ extraction[origin[r][2].doc] = "ready"
       /\ \E a \in admitted : a.run = r
  /\ \A a, b \in admitted : a.key = b.key => a.run = b.run

(* Calls that end, or are answered, leave room; so do those left alone.    *)
LEMMA StartsStay ==
  ASSUME Starts, start' \in [StartCall -> StartCalls],
         \A c \in StartCall : StartSound(start'[c], run', extraction'),
         Sent(start') \subseteq Sent(start), Started' = Started
  PROVE  Starts'
<1>1. IsFiniteSet(Sent(start)) /\ IsFiniteSet(Run \ Started)
  BY FormAssumption, FS_Subset, FS_Difference DEF Sent
<1>2. /\ Cardinality(Sent(start')) \in Nat /\ Cardinality(Sent(start)) \in Nat
      /\ Cardinality(Run \ Started) \in Nat
      /\ Cardinality(Sent(start')) <= Cardinality(Sent(start))
  BY <1>1, FS_Subset, FS_CardinalityType
<1>3. Cardinality(Sent(start')) <= Cardinality(Run \ Started')
  BY <1>2 DEF Starts
<1> QED BY <1>3 DEF Starts

(* A call is sound while runs and texts go on. *)
LEMMA StartGoesOn ==
  ASSUME NEW s, Watched, Written, RunsGo, TextsGo(extraction, extraction'),
         StartSound(s, run, extraction)
  PROVE  StartSound(s, run', extraction')
<1>1. CASE s.step = "sent"
  <2>1. s.body.doc \in Doc
    BY <1>1 DEF StartSound, StartCalls, NotStarting, Body
  <2>2. extraction'[s.body.doc] = "ready"
    BY <1>1, <2>1 DEF StartSound, TextsGo
  <2> QED BY <1>1, <2>2 DEF StartSound
<1>2. CASE s.step = "accepted"
  <2>1. s.run \in Run
    BY <1>2 DEF StartSound, StartCalls, NotStarting
  <2>2. run'[s.run] # "none"
    BY <1>2, <2>1 DEF StartSound, RunsGo
  <2> QED BY <1>2, <2>2 DEF StartSound
<1> QED BY <1>1, <1>2 DEF StartSound

(* Calls left alone, or one of them ended. *)
LEMMA StartsGoOn ==
  ASSUME Starts, Watched, Written, RunsGo, TextsGo(extraction, extraction'), Started' = Started,
         start' = start \/ \E c \in StartCall : start' = [start EXCEPT ![c] = NotStarting]
  PROVE  Starts'
<1>1. \A c \in StartCall : start'[c] = start[c] \/ start'[c] = NotStarting
  BY DEF Starts
<1>2. ASSUME NEW c \in StartCall
      PROVE  StartSound(start'[c], run', extraction')
  <2>1. StartSound(start[c], run', extraction')
    BY StartGoesOn DEF Starts
  <2>2. StartSound(NotStarting, run', extraction')
    BY DEF StartSound, StartCalls, NotStarting
  <2> QED BY <1>1, <2>1, <2>2
<1>3. start' \in [StartCall -> StartCalls]
  BY DEF Starts, StartCalls
<1>4. Sent(start') \subseteq Sent(start)
  BY <1>1 DEF Sent, NotStarting
<1> QED BY <1>2, <1>3, <1>4, StartsStay

(* Admissions left alone. *)
LEMMA AdmissionsStay ==
  ASSUME Admissions, Written, TextsGo(extraction, extraction'), RunsGo, Started' = Started,
         UNCHANGED <<admitted, origin>>
  PROVE  Admissions'
<1>1. \A r \in Run : run'[r] # "none" <=> run[r] # "none"
  BY DEF Started
<1>2. ASSUME NEW r \in Run, run'[r] # "none"
      PROVE  /\ origin'[r] \in Intents /\ extraction'[origin'[r][2].doc] = "ready"
             /\ \E a \in admitted' : a.run = r
  <2>1. origin[r] \in Intents /\ extraction[origin[r][2].doc] = "ready"
    BY <1>1, <1>2 DEF Admissions
  <2>2. origin[r][2].doc \in Doc
    BY <2>1 DEF Intents, Body
  <2> QED BY <1>1, <1>2, <2>1, <2>2 DEF Admissions, TextsGo
<1> QED BY <1>1, <1>2 DEF Admissions

(* The pages of runs start none. *)
LEMMA WatchStartsNone ==
  ASSUME Watched, WatchNext
  PROVE  Started' = Started
<1>1. \A c \in CancelCall : CallSound(cancel[c], run) /\ run \in [Run -> Seen \cup {"none"}]
  BY DEF Watched, RunTypes
<1>2. ASSUME NEW r \in Run, EndRun(r)
      PROVE  Started' = Started
  BY <1>1, <1>2 DEF EndRun, Started, Watched, RunTypes
<1>3. ASSUME NEW c \in CancelCall, CancelRun(c)
      PROVE  Started' = Started
  <2>1. cancel[c].run \in Run /\ run[cancel[c].run] # "none"
    BY <1>1, <1>3 DEF CancelRun, CallSound, NoCancel
  <2> QED BY <1>1, <1>3, <2>1 DEF CancelRun, Started, Watched, RunTypes
<1>4. CASE UNCHANGED run
  BY <1>4 DEF Started
<1> QED BY <1>2, <1>3, <1>4
        DEF WatchNext, LoadRun, PollRun, GetRun, ReceiveRun, Cancel, CancelConfirmed, CancelFails

(* The service admits a request, replays one or refuses it.                *)
LEMMA CreateGoes ==
  ASSUME Watched, Written, Starts, Admissions, NEW c \in StartCall, Create(c)
  PROVE  RunsGo /\ Starts' /\ Admissions'
<1> DEFINE key == Key(c)
<1>1. /\ start[c] \in [step : {"sent", "refused"}, opening : 1..MaxOpenings, body : Body]
      /\ start[c].step = "sent" /\ extraction[start[c].body.doc] = "ready"
      /\ start \in [StartCall -> StartCalls] /\ key \in Intents /\ key[2] = start[c].body
      /\ \A d \in StartCall : StartSound(start[d], run, extraction)
      /\ UNCHANGED extraction
  BY DEF Starts, Create, StartSound, StartCalls, NotStarting, Key, Intents
<1>2. TextsGo(extraction, extraction')
  BY <1>1 DEF Written, TextsGo
<1> HIDE DEF key
<1>3. ASSUME NEW new \in StartCalls, start' = [start EXCEPT ![c] = new], new.step # "sent", RunsGo
      PROVE  /\ start' \in [StartCall -> StartCalls] /\ Sent(start') = Sent(start) \ {c}
             /\ StartSound(new, run', extraction') =>
                  \A d \in StartCall : StartSound(start'[d], run', extraction')
  <2>1. start' \in [StartCall -> StartCalls] /\ start'[c] = new
        /\ \A d \in StartCall \ {c} : start'[d] = start[d]
    BY <1>1, <1>3
  <2>2. Sent(start') = Sent(start) \ {c}
    BY <1>3, <2>1 DEF Sent
  <2>3. ASSUME StartSound(new, run', extraction'), NEW d \in StartCall
        PROVE  StartSound(start'[d], run', extraction')
    <3>1. StartSound(start[d], run', extraction')
      BY <1>1, <1>2, <1>3, StartGoesOn
    <3> QED BY <2>1, <2>3, <3>1
  <2> QED BY <2>1, <2>2, <2>3
<1>4. ASSUME UNCHANGED <<run, admitted, origin>>,
             NEW new \in StartCalls, start' = [start EXCEPT ![c] = new], new.step # "sent",
             StartSound(new, run, extraction)
      PROVE  RunsGo /\ Starts' /\ Admissions'
  <2>1. RunsGo /\ Started' = Started /\ StartSound(new, run', extraction')
    BY <1>1, <1>4, RunsStay DEF Started
  <2>2. Starts'
    BY <1>3, <1>4, <2>1, StartsStay
  <2> QED BY <1>2, <1>4, <2>1, <2>2, AdmissionsStay
<1>5. ASSUME start' = [start EXCEPT ![c].step = "refused"], UNCHANGED <<run, admitted, origin>>
      PROVE  RunsGo /\ Starts' /\ Admissions'
  <2> DEFINE new == [start[c] EXCEPT !.step = "refused"]
  <2>1. new \in StartCalls /\ new.step = "refused"
    BY <1>1 DEF StartCalls
  <2>2. start' = [start EXCEPT ![c] = new]
    BY <1>5
  <2> HIDE DEF new
  <2>3. StartSound(new, run, extraction)
    BY <2>1 DEF StartSound
  <2> QED BY <1>4, <1>5, <2>1, <2>2, <2>3
<1>6. ASSUME NEW a \in admitted, UNCHANGED <<run, admitted, origin>>,
             start' = [start EXCEPT ![c] = [step |-> "accepted", opening |-> @.opening,
                                            run |-> a.run]]
      PROVE  RunsGo /\ Starts' /\ Admissions'
  <2> DEFINE new == [step |-> "accepted", opening |-> start[c].opening, run |-> a.run]
  <2>1. new \in StartCalls /\ new.step = "accepted" /\ run[new.run] # "none"
    BY <1>1 DEF StartCalls, Admissions
  <2>2. start' = [start EXCEPT ![c] = new]
    BY <1>6
  <2> HIDE DEF new
  <2>3. StartSound(new, run, extraction)
    BY <2>1 DEF StartSound
  <2> QED BY <1>4, <1>6, <2>1, <2>2, <2>3
<1>7. ASSUME NEW r, r = (CHOOSE s \in Run : run[s] = "none"),
             \A a \in admitted : a.key # key,
             run' = [run EXCEPT ![r] = "active"],
             origin' = [origin EXCEPT ![r] = <<start[c].opening, start[c].body>>],
             admitted' = admitted \cup {[key |-> key, run |-> r]},
             start' = [start EXCEPT ![c] = [step |-> "accepted", opening |-> @.opening,
                                            run |-> r]]
      PROVE  RunsGo /\ Starts' /\ Admissions'
  <2>1. /\ IsFiniteSet(Sent(start)) /\ c \in Sent(start)
        /\ IsFiniteSet(Run \ Started)
        /\ Cardinality(Sent(start)) \in Nat /\ Cardinality(Run \ Started) \in Nat
    BY <1>1, FormAssumption, FS_Subset, FS_Difference, FS_CardinalityType DEF Sent
  <2>2. Cardinality(Sent(start) \ {c}) = Cardinality(Sent(start)) - 1
        /\ Cardinality(Sent(start) \ {c}) \in Nat
    BY <2>1, FS_RemoveElement, FS_CardinalityType
  <2>3. Cardinality(Run \ Started) # 0
    BY <2>1, <2>2 DEF Starts
  <2>4. r \in Run /\ run[r] = "none"
    <3>1. \E s \in Run : run[s] = "none"
      BY <2>3, FS_EmptySet DEF Started
    <3> QED BY <1>7, <3>1
  <2>5. /\ run' \in [Run -> Seen \cup {"none"}] /\ run'[r] = "active"
        /\ \A s \in Run \ {r} : run'[s] = run[s]
    BY <1>7, <2>4 DEF Watched, RunTypes, Seen
  <2>6. RunsGo /\ Run \ Started' = (Run \ Started) \ {r} /\ r \in Run \ Started
    BY <2>4, <2>5 DEF RunsGo, Started, Ended, Terminal
  <2> DEFINE new == [step |-> "accepted", opening |-> start[c].opening, run |-> r]
  <2>7. new \in StartCalls /\ new.step = "accepted" /\ new.run = r
    BY <1>1, <2>4 DEF StartCalls
  <2>8. start' = [start EXCEPT ![c] = new]
    BY <1>7
  <2> HIDE DEF new
  <2>9. StartSound(new, run', extraction')
    BY <2>5, <2>7 DEF StartSound
  <2>10. Starts'
    <3>1. Cardinality((Run \ Started) \ {r}) = Cardinality(Run \ Started) - 1
      BY <2>1, <2>6, FS_RemoveElement
    <3>2. Cardinality(Sent(start) \ {c}) <= Cardinality(Run \ Started')
      BY <2>1, <2>2, <2>6, <3>1 DEF Starts
    <3> QED BY <1>3, <2>6, <2>7, <2>8, <2>9, <3>2 DEF Starts
  <2>11. Admissions'
    <3>1. key = <<start[c].opening, start[c].body>>
      BY DEF key, Key
    <3>2. /\ origin' \in [Run -> Intents \cup {NoData}] /\ origin'[r] = key
          /\ \A s \in Run \ {r} : origin'[s] = origin[s]
      BY <1>1, <1>7, <2>4, <3>1 DEF Admissions
    <3>3. \A a \in admitted : a.run # r
      BY <2>4 DEF Admissions
    <3>4. ASSUME NEW a \in admitted'
          PROVE  a.run \in Run /\ run'[a.run] # "none" /\ origin'[a.run] = a.key
      BY <1>7, <2>4, <2>5, <3>2, <3>3 DEF Admissions
    <3>5. ASSUME NEW s \in Run, run'[s] # "none"
          PROVE  /\ origin'[s] \in Intents /\ extraction'[origin'[s][2].doc] = "ready"
                 /\ \E a \in admitted' : a.run = s
      <4>1. CASE s = r
        <5>1. origin'[s] = key /\ key \in Intents /\ extraction'[key[2].doc] = "ready"
          BY <1>1, <3>2, <4>1
        <5>2. [key |-> key, run |-> r] \in admitted'
          BY <1>7
        <5> QED BY <4>1, <5>1, <5>2
      <4>2. CASE s # r
        BY <1>1, <1>7, <2>5, <3>2, <3>5, <4>2 DEF Admissions
      <4> QED BY <4>1, <4>2
    <3>6. ASSUME NEW a \in admitted', NEW b \in admitted', a.key = b.key
          PROVE  a.run = b.run
      <4> DEFINE added == [key |-> key, run |-> r]
      <4>1. added.key = key /\ added.run = r /\ admitted' = admitted \cup {added}
        BY <1>7
      <4> HIDE DEF added
      <4>2. CASE a \in admitted /\ b \in admitted
        BY <3>6, <4>2 DEF Admissions
      <4>3. CASE a = added \/ b = added
        <5>1. a.key = key /\ b.key = key
          BY <3>6, <4>1, <4>3
        <5>2. a = added /\ b = added
          BY <1>7, <4>1, <5>1
        <5> QED BY <5>2
      <4> QED BY <4>1, <4>2, <4>3
    <3> QED BY <3>2, <3>4, <3>5, <3>6 DEF Admissions
  <2> QED BY <2>6, <2>10, <2>11
<1> QED BY <1>5, <1>6, <1>7 DEF Create, key

(* A click starts no more calls than there are runs left. *)
LEMMA StartGoes ==
  ASSUME Written, Starts, NEW clicks \in 1..2, Start(clicks), UNCHANGED <<run, extraction>>
  PROVE  Starts'
<1>1. PICK calls \in SUBSET StartCall : Clicked(calls, clicks)
  BY CallsAreChosen
<1> DEFINE new == [step |-> "sent", opening |-> opening,
                   body |-> [doc |-> form.doc, contexts |-> form.contexts, model |-> form.model]]
<1>2. /\ OnForm /\ form \in Forms /\ form.doc # NoDoc /\ form.model # NoModel
      /\ extraction[form.doc] = "ready" /\ opening \in 1..MaxOpenings
      /\ clicks + Cardinality(Starting) <= Cardinality(Run \ Started)
  <2>1. OnForm /\ CanStart(form) /\ clicks + Cardinality(Starting) <= Cardinality(Run \ Started)
    BY DEF Start
  <2> QED BY <2>1, FormAssumption DEF CanStart, Written, DocumentSound
<1>3. new \in StartCalls /\ new.step = "sent" /\ extraction[new.body.doc] = "ready"
  <2>1. new.body \in Body
    BY <1>2 DEF Forms, Body
  <2> QED BY <1>2, <2>1 DEF StartCalls
<1> HIDE DEF new
<1>4. start' = [c \in StartCall |-> IF c \in calls THEN new ELSE start[c]]
  BY <1>1 DEF Clicked, new
<1>5. start' \in [StartCall -> StartCalls]
  BY <1>3, <1>4 DEF Starts
<1>6. ASSUME NEW c \in StartCall
      PROVE  StartSound(start'[c], run', extraction')
  BY <1>3, <1>4 DEF Starts, StartSound
<1>7. Cardinality(Sent(start')) <= Cardinality(Run \ Started')
  <2>1. Sent(start') \subseteq Starting \cup calls
    BY <1>4 DEF Sent, Starting
  <2>2. IsFiniteSet(Starting) /\ IsFiniteSet(calls)
    BY <1>1, FormAssumption, FS_Subset DEF Starting, Clicked
  <2>3. Starting \cap calls = {} /\ Cardinality(calls) = clicks
    BY <1>1 DEF Clicked
  <2>4. Cardinality(Starting \cup calls) = Cardinality(Starting) + clicks
    <3>1. Cardinality(Starting \cap calls) = 0
      BY <2>3, FS_EmptySet
    <3>2. /\ Cardinality(Starting \cup calls)
               = Cardinality(Starting) + Cardinality(calls) - Cardinality(Starting \cap calls)
          /\ Cardinality(Starting) \in Nat
      BY <2>2, FS_Union, FS_CardinalityType
    <3> QED BY <2>3, <3>1, <3>2
  <2>5. /\ Cardinality(Sent(start')) <= Cardinality(Starting \cup calls)
        /\ Cardinality(Sent(start')) \in Nat /\ Cardinality(Starting) \in Nat
        /\ Cardinality(Run \ Started) \in Nat
    BY <2>1, <2>2, FormAssumption, FS_Union, FS_Subset, FS_Difference, FS_CardinalityType
  <2>6. Cardinality(Sent(start')) <= Cardinality(Run \ Started)
    BY <1>2, <2>4, <2>5
  <2>7. Started' = Started
    BY DEF Started
  <2> QED BY <2>6, <2>7
<1> QED BY <1>5, <1>6, <1>7 DEF Starts
-----------------------------------------------------------------------------
(* The invariant of the whole, and what it gives. *)

IInv == Watched /\ Written /\ Starts /\ Admissions

(* It holds of the empty service and the home page. *)
LEMMA InitSound ==
  ASSUME Init
  PROVE  IInv
<1>1. Watched
  <2>1. Q!Empty \in Queries /\ Sound(Q!Empty, "none")
    BY NamesAssumption
       DEF Q!Empty, Queries, Sound, Q!IsQuery, Q!Fetching, Ended, Terminal, Seen
  <2>2. run \in [Run -> Seen \cup {"none"}] /\ page \in Run \cup {"home", "new"} /\ page \notin Run
    BY NamesAssumption DEF Init, WatchInit
  <2>3. query \in [Run -> Queries] /\ \A r \in Run : Sound(query[r], run[r])
    BY <2>1 DEF Init, WatchInit
  <2>4. cancel \in [CancelCall -> Cancellations] /\ \A c \in CancelCall : CallSound(cancel[c], run)
    BY DEF Init, WatchInit, Cancellations, CallSound
  <2> QED BY <2>2, <2>3, <2>4, DisturbanceAssumption DEF Watched, RunTypes, Init
<1>2. Written
  <2>1. extraction \in Texts /\ form = EmptyForm /\ document = Q!Empty /\ upload = {}
    BY DEF Init, Texts
  <2>2. DocumentSound(form, document, extraction) /\ UploadsSound(upload, extraction)
    BY <2>1, EmptySound
  <2>3. ~OnForm /\ opening = 0 /\ available = Model /\ offered = NoData
    BY DEF Init, OnForm
  <2>4. available \subseteq Model /\ offered \in (SUBSET Model) \cup {NoData}
    BY <2>3
  <2>5. opening \in 0..MaxOpenings
    BY <2>3, FormAssumption
  <2>6. (OnForm => opening # 0) /\ (~OnForm => form = EmptyForm /\ document = Q!Empty /\ upload = {})
    BY <2>1, <2>3
  <2> QED BY <2>1, <2>2, <2>4, <2>5, <2>6 DEF Written
<1>3. Starts
  <2>1. start = [c \in StartCall |-> NotStarting] /\ Sent(start) = {} /\ Run \ Started = Run
    BY DEF Init, WatchInit, Sent, NotStarting, Started
  <2>2. Cardinality({}) = 0 /\ Cardinality(Run) \in Nat
    BY FormAssumption, FS_EmptySet, FS_CardinalityType
  <2>3. \A c \in StartCall : StartSound(start[c], run, extraction)
    BY <2>1 DEF StartSound, StartCalls, NotStarting
  <2> QED BY <2>1, <2>2, <2>3 DEF Starts, StartCalls
<1>4. Admissions
  BY DEF Admissions, Init, WatchInit
<1> QED BY <1>1, <1>2, <1>3, <1>4 DEF IInv

(* Every step keeps it, and goes on with runs, queries, calls and texts.   *)
LEMMA StepSound ==
  ASSUME IInv, Next
  PROVE  IInv' /\ QueriesGo
<1>0. /\ Watched /\ Written /\ Starts /\ Admissions
      /\ \A c \in StartCall :
           start[c].step = "accepted" => start[c].run \in Run /\ run[start[c].run] # "none"
  BY DEF IInv, Starts, StartSound, StartCalls, NotStarting
<1>1. Written' /\ TextsGo(extraction, extraction')
  BY <1>0, WrittenGoes
<1>2. ASSUME RunsGo, QueriesGo, CallsGo, disturbed' \in 0..Disturbances,
             page' \in Run \cup {"home", "new"}, page' \in Run => run[page'] # "none"
      PROVE  Watched'
  <2>1. page' \in Run => run'[page'] # "none"
    BY <1>2 DEF RunsGo
  <2> QED BY <1>2, <2>1 DEF Watched, RunTypes, RunsGo, QueriesGo, CallsGo
<1>3. /\ disturbed \in 0..Disturbances /\ page \in Run \cup {"home", "new"}
      /\ page \in Run => run[page] # "none"
  BY <1>0 DEF Watched, RunTypes
<1>4. ASSUME UNCHANGED watchVars, page' = page, disturbed' \in 0..Disturbances
      PROVE  Watched' /\ QueriesGo /\ RunsGo /\ Started' = Started
  <2>1. UNCHANGED <<run, query, cancel>>
    BY <1>4 DEF watchVars
  <2>2. Started' = Started
    BY <2>1 DEF Started
  <2> QED BY <1>0, <1>2, <1>3, <1>4, <2>1, <2>2, RunsStay, QueriesStay, CallsStay
<1>5. ASSUME UNCHANGED <<run, disturbed, admitted, origin>>,
             NEW target \in Run \cup {"home", "new"}, target \in Run => run[target] # "none",
             GoTo(target),
             start' = start \/ \E c \in StartCall : start' = [start EXCEPT ![c] = NotStarting]
      PROVE  IInv' /\ QueriesGo
  <2>1. QueriesGo /\ CallsGo /\ RunsGo /\ page' = target
    BY <1>0, <1>5, GoToPage, RunsStay DEF GoTo
  <2>2. Started' = Started
    BY <1>5 DEF Started
  <2>3. Watched'
    BY <1>2, <1>3, <1>5, <2>1
  <2>4. Starts' /\ Admissions'
    BY <1>0, <1>1, <1>5, <2>1, <2>2, StartsGoOn, AdmissionsStay
  <2> QED BY <1>1, <2>1, <2>3, <2>4 DEF IInv
<1>6. CASE OpenForm \/ \E target \in Run \cup {"home"} : OpenPage(target)
  <2>1. PICK target \in Run \cup {"home", "new"} :
          (target \in Run => run[target] # "none") /\ GoTo(target)
    BY <1>6, NamesAssumption DEF OpenForm, OpenPage
  <2>2. UNCHANGED <<run, disturbed, admitted, origin, start>>
    BY <1>6 DEF OpenForm, OpenPage, service
  <2> QED BY <1>5, <2>1, <2>2
<1>7. ASSUME NEW c \in StartCall, StartSucceeds(c)
      PROVE  IInv' /\ QueriesGo
  <2>1. /\ UNCHANGED <<run, disturbed, admitted, origin>> /\ start' = [start EXCEPT ![c] = NotStarting]
        /\ start[c].run \in Run /\ run[start[c].run] # "none"
    BY <1>0, <1>7 DEF StartSucceeds, service
  <2>2. CASE start[c].run = page
    <3>1. UNCHANGED <<page, query, cancel>>
      BY <1>7, <2>2 DEF StartSucceeds
    <3>2. Watched' /\ QueriesGo /\ RunsGo /\ Started' = Started
      BY <1>3, <1>4, <2>1, <3>1 DEF watchVars
    <3>3. Starts' /\ Admissions'
      BY <1>0, <1>1, <2>1, <3>2, StartsGoOn, AdmissionsStay
    <3> QED BY <1>1, <3>2, <3>3 DEF IInv
  <2>3. CASE start[c].run # page
    <3>1. GoTo(start[c].run)
      BY <1>7, <2>3 DEF StartSucceeds
    <3> QED BY <1>5, <2>1, <3>1
  <2> QED BY <2>2, <2>3
<1>8. ASSUME NEW c \in StartCall, Create(c)
      PROVE  IInv' /\ QueriesGo
  <2>1. RunsGo /\ Starts' /\ Admissions'
    BY <1>0, <1>8, CreateGoes
  <2>2. UNCHANGED <<page, query, cancel, disturbed>>
    BY <1>8 DEF Create
  <2>3. QueriesGo /\ CallsGo
    BY <1>0, <2>1, <2>2, QueriesStay, CallsStay
  <2>4. Watched'
    BY <1>2, <1>3, <2>1, <2>2, <2>3
  <2> QED BY <1>1, <2>1, <2>3, <2>4 DEF IInv
<1>9. ASSUME NEW clicks \in 1..2, Start(clicks)
      PROVE  IInv' /\ QueriesGo
  <2>1. /\ UNCHANGED <<watchVars, page, extraction, admitted, origin>>
        /\ disturbed' \in 0..Disturbances
    BY <1>3, <1>9, DisturbanceAssumption DEF Start, service, Disturb
  <2>2. Watched' /\ QueriesGo /\ RunsGo /\ Started' = Started
    BY <1>4, <2>1
  <2>3. Starts'
    BY <1>0, <1>9, <2>1, StartGoes DEF watchVars
  <2>4. Admissions'
    BY <1>0, <1>1, <2>1, <2>2, AdmissionsStay
  <2> QED BY <1>1, <2>2, <2>3, <2>4 DEF IInv
<1>10. ASSUME UNCHANGED <<watchVars, page, admitted, origin>>, disturbed' \in 0..Disturbances,
              start' = start \/ \E c \in StartCall : start' = [start EXCEPT ![c] = NotStarting]
       PROVE  IInv' /\ QueriesGo
  <2>1. Watched' /\ QueriesGo /\ RunsGo /\ Started' = Started
    BY <1>4, <1>10
  <2>2. Starts' /\ Admissions'
    BY <1>0, <1>1, <1>10, <2>1, StartsGoOn, AdmissionsStay
  <2> QED BY <1>1, <2>1, <2>2 DEF IInv
<1>11. CASE \/ LoadModels \/ TogglePanel
            \/ \E m \in Model : Select(m) \/ ObserveModel(m)
            \/ \E place \in {"main", "context"} : Upload(place)
            \/ \E d \in Doc : Detach(d)
            \/ \E u \in upload : (\E state \in Extraction : Uploaded(u, state)) \/ UploadFails(u)
  <2>1. UNCHANGED <<watchVars, page, admitted, origin, start>>
    BY <1>11 DEF LoadModels, TogglePanel, Select, ObserveModel, Upload, Detach, Uploaded,
                 UploadFails, service
  <2>2. disturbed' \in 0..Disturbances
    <3>1. UNCHANGED disturbed \/ Disturb
      BY <1>11 DEF LoadModels, TogglePanel, Select, ObserveModel, Upload, Detach, Uploaded,
                   UploadFails
    <3> QED BY <1>3, <3>1, DisturbanceAssumption DEF Disturb
  <2> QED BY <1>10, <2>1, <2>2
<1>12. CASE LoadDocument \/ GetDocument \/ ReceiveDocument
  <2>1. UNCHANGED <<watchVars, page, admitted, origin, start>> /\ disturbed' \in 0..Disturbances
    BY <1>3, <1>12, DisturbanceAssumption
       DEF LoadDocument, GetDocument, ReceiveDocument, service, Disturb
  <2> QED BY <1>10, <2>1
<1>13. ASSUME NEW c \in StartCall, StartFails(c)
       PROVE  IInv' /\ QueriesGo
  <2>1. /\ UNCHANGED <<watchVars, page, admitted, origin>> /\ disturbed' \in 0..Disturbances
        /\ start' = [start EXCEPT ![c] = NotStarting]
    BY <1>3, <1>13, DisturbanceAssumption DEF StartFails, service, Disturb
  <2> QED BY <1>10, <2>1
<1>14. ASSUME WatchNext, UNCHANGED <<service, opening, formVars, offered, start>>
       PROVE  IInv' /\ QueriesGo
  <2>1. /\ RunsGo /\ QueriesGo /\ CallsGo /\ UNCHANGED page /\ disturbed' \in 0..Disturbances
        /\ Started' = Started
    BY <1>0, <1>14, WatchGoes, WatchStartsNone
  <2>2. Watched'
    BY <1>2, <1>3, <2>1
  <2>3. UNCHANGED <<admitted, origin, start>>
    BY <1>14 DEF service
  <2>4. Starts' /\ Admissions'
    BY <1>0, <1>1, <2>1, <2>3, StartsGoOn, AdmissionsStay
  <2> QED BY <1>1, <2>1, <2>2, <2>4 DEF IInv
<1> QED
  BY <1>6, <1>7, <1>8, <1>9, <1>11, <1>12, <1>13, <1>14 DEF Next, FormNext, Network

(* The invariant is kept by every step, and implied by the start. *)
THEOREM Invariance == Spec => []IInv
<1>1. Init => IInv
  BY InitSound
<1>2. IInv /\ [Next]_vars => IInv'
  <2>1. CASE Next
    BY <2>1, StepSound
  <2>2. CASE UNCHANGED vars
    BY <2>2 DEF vars, watchVars, IInv, Watched, RunTypes, Sound, CallSound, Written, OnForm, Starts,
                StartSound, Sent, Started, Admissions
  <2> QED BY <2>1, <2>2
<1> QED BY <1>1, <1>2, PTL DEF Spec

(* An opening of the form makes one run of the same request, whatever is   *)
(* clicked twice, lost or sent again, and everything holds only the values *)
(* the code gives it (idempotency.ts, FR-012).                             *)
THEOREM IntentsMakeOneRun == Spec => []OneRunPerIntent
<1>1. IInv => OneRunPerIntent
  <2> SUFFICES ASSUME IInv
               PROVE  OneRunPerIntent
    OBVIOUS
  <2>0. Watched /\ Written /\ Starts /\ Admissions
    BY DEF IInv
  <2>1. ASSUME NEW r \in Started, NEW s \in Started, origin[r] = origin[s]
        PROVE  r = s
    <3>1. PICK a \in admitted : a.run = r
      BY <2>0 DEF Admissions, Started
    <3>2. PICK b \in admitted : b.run = s
      BY <2>0 DEF Admissions, Started
    <3>3. a.key = origin[r] /\ b.key = origin[s]
      BY <2>0, <3>1, <3>2 DEF Admissions
    <3> QED BY <2>0, <2>1, <3>1, <3>2, <3>3 DEF Admissions
  <2>2. WatchTypeOK
    <3>1. \A r \in Run : Q!IsQuery(query[r], Seen, {})
      BY <2>0 DEF Watched, Sound
    <3>2. \A c \in CancelCall :
            \/ cancel[c] = NoCancel
            \/ cancel[c] \in [step : {"sent", "accepted", "refused"}, run : Run, mounted : BOOLEAN]
      BY <2>0 DEF Watched, CallSound
    <3> QED BY <2>0, <3>1, <3>2 DEF WatchTypeOK, Watched, RunTypes
  <2>3. /\ page \in Run \cup {"home", "new"}
        /\ extraction \in [Doc -> Extraction \cup {"none"}] /\ available \subseteq Model
        /\ opening \in 0..MaxOpenings /\ offered \in (SUBSET Model) \cup {NoData}
    BY <2>0 DEF Watched, RunTypes, Written, Texts
  <2>4. (\A a \in admitted : a.run \in Started)
        /\ origin \in [Run -> ((1..MaxOpenings) \X Body) \cup {NoData}]
    BY <2>0 DEF Admissions, Started, Intents
  <2>5. /\ form \in [doc : Doc \cup {NoDoc}, state : Extraction, contexts : SUBSET Doc,
                     panel : BOOLEAN, model : Model \cup {NoModel},
                     sending : StartCall \cup {NoData}]
        /\ Q!IsQuery(document, Extraction, {})
    BY <2>0 DEF Written, DocumentSound, Forms
  <2>6. upload \subseteq [doc : Doc, place : {"main", "context"}, field : BOOLEAN, base : SUBSET Doc]
    BY <2>0 DEF Written, UploadsSound, Uploads
  <2>7. ASSUME NEW c \in StartCall
        PROVE  \/ start[c] = NotStarting
               \/ start[c] \in [step : {"sent", "refused"}, opening : 1..MaxOpenings, body : Body]
               \/ start[c] \in [step : {"accepted"}, opening : 1..MaxOpenings, run : Started]
    BY <2>0 DEF Starts, StartSound, StartCalls, Started
  <2> QED BY <2>1, <2>2, <2>3, <2>4, <2>5, <2>6, <2>7 DEF OneRunPerIntent, TypeOK
<1> QED BY <1>1, Invariance, PTL

(* Every run is started with a document whose text the service has, though *)
(* the form only copies its state, and replaces the document meanwhile.    *)
THEOREM RunsAreReadable == Spec => []StartedIsReadable
<1>1. IInv => StartedIsReadable
  <2> SUFFICES ASSUME IInv
               PROVE  StartedIsReadable
    OBVIOUS
  <2>1. \A c \in Starting : start[c].step = "sent" => extraction[start[c].body.doc] = "ready"
    BY DEF IInv, Starts, StartSound, Starting
  <2>2. \A r \in Started : extraction[origin[r][2].doc] = "ready"
    BY DEF IInv, Admissions, Started
  <2> QED BY <2>1, <2>2 DEF StartedIsReadable
<1> QED BY <1>1, Invariance, PTL

(* No poll that was under way when a run ended or was cancelled turns its  *)
(* end back, once a page has shown it (CancelRunControl.tsx).              *)
THEOREM EndsAreNotUndone == Spec => EndIsNotUndone
<1>1. IInv /\ [Next]_vars =>
        [\A r \in Run : Ended(query[r].data) => query'[r].data = query[r].data]_<<watchVars, page>>
  <2> SUFFICES ASSUME IInv, [Next]_vars
               PROVE  \/ \A r \in Run : Ended(query[r].data) => query'[r].data = query[r].data
                      \/ UNCHANGED <<watchVars, page>>
    OBVIOUS
  <2>1. CASE Next
    BY <2>1, StepSound DEF QueriesGo, KeepsEnd
  <2>2. CASE UNCHANGED vars
    BY <2>2 DEF vars
  <2> QED BY <2>1, <2>2
<1> QED BY <1>1, Invariance, PTL DEF Spec, EndIsNotUndone

(* No upload that ends, in whatever order, takes away material another one *)
(* attached (NewReviewPage.tsx).                                           *)
THEOREM MaterialStays == Spec => AttachedIsKept
<1>1. IInv /\ [Next]_vars =>
        [OnForm /\ OnForm' /\ opening' = opening =>
           form.contexts \subseteq form'.contexts \/ \E d \in Doc : Detach(d)]_vars
  <2> SUFFICES ASSUME IInv, Next, OnForm, OnForm'
               PROVE  form.contexts \subseteq form'.contexts \/ \E d \in Doc : Detach(d)
    BY DEF vars
  <2>1. /\ form \in Forms
        /\ \A c \in StartCall : start[c].step = "accepted" => start[c].run \in Run
    BY DEF IInv, Written, DocumentSound, Starts, StartSound, StartCalls, NotStarting
  <2>2. page = "new" /\ page' = "new" /\ page \notin Run
    BY NamesAssumption DEF OnForm
  <2>3. ASSUME NEW target \in Run \cup {"home"}, OpenPage(target)
        PROVE  FALSE
    BY <2>2, <2>3, NamesAssumption DEF OpenPage, GoTo
  <2>4. ASSUME NEW c \in StartCall, StartSucceeds(c)
        PROVE  FALSE
    BY <2>1, <2>2, <2>4 DEF StartSucceeds, GoTo
  <2>5. ASSUME UNCHANGED form
        PROVE  form.contexts \subseteq form'.contexts
    BY <2>5
  <2>6. ASSUME NEW m, form' = [form EXCEPT !.model = m]
        PROVE  form.contexts \subseteq form'.contexts
    BY <2>1, <2>6 DEF Forms
  <2>7. ASSUME NEW c, form' = [form EXCEPT !.sending = c]
        PROVE  form.contexts \subseteq form'.contexts
    BY <2>1, <2>7 DEF Forms
  <2>8. CASE OpenForm
    BY <2>8 DEF OpenForm
  <2>9. CASE TogglePanel
    BY <2>1, <2>9 DEF TogglePanel, Forms
  <2>10. ASSUME NEW u \in upload, NEW state \in Extraction, Uploaded(u, state)
         PROVE  form.contexts \subseteq form'.contexts
    <3>1. CASE u.place = "main"
      BY <2>1, <2>10, <3>1 DEF Uploaded, Forms
    <3>2. CASE u.place # "main"
      BY <2>1, <2>10, <3>2 DEF Uploaded, Forms, Attach
    <3> QED BY <3>1, <3>2
  <2>11. CASE ReceiveDocument
    BY <2>1, <2>5, <2>11 DEF ReceiveDocument, Forms
  <2>12. CASE LoadModels \/ \E m \in Model : Select(m)
    BY <2>5, <2>6, <2>12 DEF LoadModels, Select
  <2>13. ASSUME NEW clicks \in 1..2, Start(clicks)
         PROVE  form.contexts \subseteq form'.contexts
    BY <2>7, <2>13, CallsAreChosen DEF Clicked
  <2>14. ASSUME NEW c \in StartCall, StartFails(c)
         PROVE  form.contexts \subseteq form'.contexts
    BY <2>5, <2>7, <2>14 DEF StartFails
  <2>15. ASSUME \/ \E m \in Model : ObserveModel(m)
                \/ \E place \in {"main", "context"} : Upload(place)
                \/ \E u \in upload : UploadFails(u)
                \/ LoadDocument \/ GetDocument
                \/ \E c \in StartCall : Create(c)
                \/ WatchNext /\ UNCHANGED <<service, opening, formVars, offered, start>>
         PROVE  UNCHANGED form
    BY <2>15 DEF ObserveModel, Upload, UploadFails, LoadDocument, GetDocument,
                 Create, formVars
  <2> QED
    BY <2>3, <2>4, <2>5, <2>8, <2>9, <2>10, <2>11, <2>12, <2>13, <2>14, <2>15
    DEF Next, FormNext, Network
<1> QED BY <1>1, Invariance, PTL DEF Spec, AttachedIsKept
=============================================================================
