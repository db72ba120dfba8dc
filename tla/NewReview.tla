------------------------------- MODULE NewReview -------------------------------
(***************************************************************************)
(* The form that starts a review, composed with the pages that watch the   *)
(* run it started: documents uploaded, replaced and attached as context,   *)
(* the start with a key of its own for every opening of the form, and the  *)
(* page left and opened again meanwhile                                    *)
(* (apps/web: NewReviewPage.tsx, DocumentUpload.tsx, ContextDocuments.tsx, *)
(* context-limit.ts, run-readiness.ts, use-create-review-run.ts,           *)
(* ModelProfileSelect.tsx; the service: ml_runtime.py, create_run).        *)
(*                                                                         *)
(* The choice of a model stands for that of a review profile too, which    *)
(* the form makes in the same way.  Documents of the context are a set.    *)
(* upload() extracts the text before it answers (platform.py:1468-1546)    *)
(* and nothing extracts it later: the state "pending", for which the form  *)
(* would poll, is never answered by this service.                          *)
(* A definition named ...Variant is a mistake used by no action.           *)
(***************************************************************************)
EXTENDS RunWatch

CONSTANTS
  Doc,          \* documents: every upload makes one
  NoDoc,        \* no document chosen
  Limit,        \* max_context_documents
  Model,        \* models the service is configured with
  NoModel,      \* no model chosen
  StartCall,    \* calls of createRun() that may overlap
  MaxOpenings   \* openings of the form, at most

ASSUME FormAssumption ==
  /\ NoDoc \notin Doc /\ NoModel \notin Model /\ Limit \in Nat /\ MaxOpenings \in Nat
  /\ IsFiniteSet(Run) /\ IsFiniteSet(StartCall)

VARIABLES
  extraction,  \* what upload() made of the text of every document
  available,   \* the models the service has last seen answer
  admitted,    \* the keys the service has answered, with their run
  origin,      \* of every run: the opening and the request it came from
  opening,     \* the openings of the form so far; the last is its intent
  form,        \* what the form holds
  document,    \* the query of the form's document
  offered,     \* the list of models in the cache
  upload,      \* the uploads under way
  start        \* the calls of createRun() under way

vars == <<watchVars, page, disturbed, extraction, available, admitted, origin, opening, form,
          document, offered, upload, start>>
service == <<extraction, available, admitted, origin>>
formVars == <<form, document, upload>>

Extraction == {"ready", "failed"}    \* "ready": completed or partial
EmptyForm == [doc |-> NoDoc, state |-> "failed", contexts |-> {}, panel |-> FALSE,
              model |-> NoModel, sending |-> NoData]
NotStarting == [step |-> "free"]

Init ==
  /\ WatchInit
  /\ page = "home" /\ disturbed = 0
  /\ extraction = [d \in Doc |-> "none"]
  /\ available = Model
  /\ admitted = {}
  /\ origin = [r \in Run |-> NoData]
  /\ opening = 0 /\ form = EmptyForm /\ document = Q!Empty
  /\ offered = NoData
  /\ upload = {}
  /\ start = [c \in StartCall |-> NotStarting]

OnForm == page = "new"
-----------------------------------------------------------------------------
(* The form and the other pages. *)

(* What a form held is gone when it is left; answers go on without it.     *)
CloseForm ==
  form' = EmptyForm /\ document' = Q!Empty /\ upload' = {}

(* The first model on the list that answers is chosen at once.             *)
Default(list) == IF list = NoData \/ list = {} THEN NoModel ELSE CHOOSE m \in list : TRUE

OpenForm ==
  /\ ~OnForm /\ opening < MaxOpenings
  /\ GoTo("new")
  /\ opening' = opening + 1
  /\ form' = [EmptyForm EXCEPT !.model = Default(offered)]
  /\ UNCHANGED <<run, disturbed, service, document, offered, upload, start>>

OpenPage(target) ==
  /\ target # page \/ page = "home"
  /\ target \in Run => run[target] # "none"
  /\ GoTo(target)
  /\ CloseForm
  /\ UNCHANGED <<run, disturbed, service, opening, offered, start>>

(* A mount or the focus of the window reads the list of models.            *)
LoadModels ==
  /\ OnForm /\ offered' = available
  /\ form' = IF form.model = NoModel THEN [form EXCEPT !.model = Default(available)] ELSE form
  /\ UNCHANGED <<watchVars, page, disturbed, service, opening, document, upload, start>>

Select(m) ==
  /\ OnForm /\ offered # NoData /\ m \in offered
  /\ form' = [form EXCEPT !.model = m]
  /\ UNCHANGED <<watchVars, page, disturbed, service, opening, document, offered, upload, start>>
-----------------------------------------------------------------------------
(* Documents. *)

(* contextLimitState().canAttachMore: only then is there a field for a     *)
(* file.  A closed panel or a reached limit takes the field away, but not  *)
(* the upload it has begun.                                                *)
CanAttachMore(f) == Cardinality(f.contexts) < Limit
HasField(f) == f.panel /\ CanAttachMore(f)
Fields(f, uploads) ==
  {[u EXCEPT !.field = @ /\ (u.place = "context" => HasField(f))] : u \in uploads}

TogglePanel ==
  /\ OnForm
  /\ form' = [form EXCEPT !.panel = ~@]
  /\ upload' = Fields(form', upload)
  /\ UNCHANGED <<watchVars, page, disturbed, service, opening, document, offered, start>>

Unused == {d \in Doc : extraction[d] = "none" /\ \A u \in upload : u.doc # d}

Upload(place) ==
  /\ OnForm /\ Unused # {}
  /\ place = "context" => HasField(form)
  /\ ~\E u \in upload : u.place = place /\ u.field
  /\ upload' = upload \cup {[doc |-> CHOOSE d \in Unused : TRUE, place |-> place,
                             field |-> TRUE, base |-> form.contexts]}
  /\ UNCHANGED <<watchVars, page, disturbed, service, opening, form, document, offered, start>>

AttachVariant(u) == u.base \cup {u.doc}
Attach(u) == form.contexts \cup {u.doc}

(* The answer: onUploaded puts the document where it was asked for.        *)
Uploaded(u, state) ==
  /\ u \in upload
  /\ extraction' = [extraction EXCEPT ![u.doc] = state]
  /\ IF u.place = "main"
       THEN /\ form' = [form EXCEPT !.doc = u.doc, !.state = state]
            /\ document' = Q!Fetch(Q!Empty)
       ELSE /\ form' = [form EXCEPT !.contexts = Attach(u)]
            /\ UNCHANGED document
  /\ upload' = Fields(form', upload \ {u})
  /\ UNCHANGED <<watchVars, page, disturbed, available, admitted, origin, opening, offered, start>>

UploadFails(u) ==
  /\ u \in upload /\ Disturb
  /\ upload' = upload \ {u}
  /\ UNCHANGED <<watchVars, page, service, opening, form, document, offered, start>>

Detach(d) ==
  /\ OnForm /\ form.panel /\ d \in form.contexts
  /\ form' = [form EXCEPT !.contexts = @ \ {d}]
  /\ UNCHANGED <<watchVars, page, disturbed, service, opening, document, offered, upload, start>>
-----------------------------------------------------------------------------
(* The query of the document, whose state the form copies. *)

(* The focus of the window, or "Повторить загрузку" after a failure. *)
LoadDocument ==
  /\ OnForm /\ form.doc # NoDoc
  /\ \/ document' = Q!Fetch(document)
     \/ document.failed /\ document' = Q!Refetch(document, {})
  /\ UNCHANGED <<watchVars, page, disturbed, service, opening, form, offered, upload, start>>

GetDocument ==
  /\ document.fetch = "sent"
  /\ document' = Q!Answered(document, extraction[form.doc])
  /\ UNCHANGED <<watchVars, page, disturbed, service, opening, form, offered, upload, start>>

ReceiveDocument ==
  /\ \/ /\ document.fetch = "answered" /\ document' = Q!Received(document)
        /\ form' = [form EXCEPT !.state = document.answer]
        /\ UNCHANGED disturbed
     \/ Q!Fetching(document) /\ document' = Q!Lost(document) /\ Disturb /\ UNCHANGED form
  /\ UNCHANGED <<watchVars, page, service, opening, offered, upload, start>>
-----------------------------------------------------------------------------
(* The start. *)

CanStartVariant(f) == f.doc # NoDoc /\ f.model # NoModel /\ f.sending = NoData

CanStart(f) == f.doc # NoDoc /\ f.state = "ready" /\ f.model # NoModel /\ f.sending = NoData

Started == {r \in Run : run[r] # "none"}
Starting == {c \in StartCall : start[c].step \in {"sent", "accepted", "refused"}}

(* One click, or a second one before the button is seen disabled.  There   *)
(* is a run left for every call: Run bounds the starts.                    *)
Start(clicks) ==
  /\ OnForm /\ CanStart(form)
  /\ clicks <= Cardinality(StartCall \ Starting)
  /\ clicks + Cardinality(Starting) <= Cardinality(Run \ Started)
  /\ IF clicks = 1 THEN UNCHANGED disturbed ELSE Disturb
  /\ LET calls == CHOOSE C \in SUBSET (StartCall \ Starting) : Cardinality(C) = clicks
     IN  /\ start' = [c \in StartCall |->
               IF c \in calls
                 THEN [step |-> "sent", opening |-> opening,
                       body |-> [doc |-> form.doc, contexts |-> form.contexts,
                                 model |-> form.model]]
                 ELSE start[c]]
         /\ form' = [form EXCEPT !.sending = CHOOSE c \in calls : TRUE]
  /\ UNCHANGED <<watchVars, page, service, opening, document, offered, upload>>

(* idempotencyKeyFor() of the opening and the input. *)
KeyVariant(c) == <<c, start[c].opening, start[c].body>>
Key(c) == <<start[c].opening, start[c].body>>

(* The model is asked for before the key is looked up.                     *)
Refusable(b) == b.model \notin available \/ Cardinality(b.contexts) > Limit

Create(c) ==
  /\ start[c].step = "sent"
  /\ \/ /\ Refusable(start[c].body)
        /\ start' = [start EXCEPT ![c].step = "refused"]
        /\ UNCHANGED <<run, admitted, origin>>
     \/ /\ ~Refusable(start[c].body)
        /\ \E a \in admitted :
             /\ a.key = Key(c)
             /\ start' = [start EXCEPT ![c] = [step |-> "accepted", opening |-> @.opening,
                                               run |-> a.run]]
        /\ UNCHANGED <<run, admitted, origin>>
     \/ /\ ~Refusable(start[c].body)
        /\ \A a \in admitted : a.key # Key(c)
        /\ LET r == CHOOSE r \in Run : run[r] = "none"
           IN  /\ run' = [run EXCEPT ![r] = "active"]
               /\ origin' = [origin EXCEPT ![r] = <<start[c].opening, start[c].body>>]
               /\ admitted' = admitted \cup {[key |-> Key(c), run |-> r]}
               /\ start' = [start EXCEPT ![c] = [step |-> "accepted", opening |-> @.opening,
                                                 run |-> r]]
  /\ UNCHANGED <<page, query, cancel, disturbed, extraction, available, opening, formVars, offered>>

(* handleStart() goes to the run, wherever the person is by then.          *)
StartSucceeds(c) ==
  /\ start[c].step = "accepted"
  /\ IF start[c].run = page THEN UNCHANGED <<page, query, cancel>> ELSE GoTo(start[c].run)
  /\ CloseForm
  /\ start' = [start EXCEPT ![c] = NotStarting]
  /\ UNCHANGED <<run, disturbed, service, opening, offered>>

(* Refused, or lost on the way there or back: the form shows why, if it is *)
(* still open and the call was its last.                                   *)
StartFails(c) ==
  /\ \/ start[c].step = "refused" /\ UNCHANGED disturbed
     \/ start[c].step \in {"sent", "accepted"} /\ Disturb
  /\ start' = [start EXCEPT ![c] = NotStarting]
  /\ form' = IF form.sending = c THEN [form EXCEPT !.sending = NoData] ELSE form
  /\ UNCHANGED <<watchVars, page, service, opening, document, offered, upload>>

(* What a call of a model tells the service of it (_record_availability).  *)
ObserveModel(m) ==
  /\ Disturb
  /\ available' = IF m \in available THEN available \ {m} ELSE available \cup {m}
  /\ UNCHANGED <<watchVars, page, extraction, admitted, origin, opening, formVars, offered, start>>
-----------------------------------------------------------------------------
Network(c) == Create(c) \/ StartSucceeds(c) \/ StartFails(c)

FormNext ==
  \/ OpenForm \/ LoadModels \/ TogglePanel
  \/ \E target \in Run \cup {"home"} : OpenPage(target)
  \/ \E m \in Model : Select(m) \/ ObserveModel(m)
  \/ \E place \in {"main", "context"} : Upload(place)
  \/ \E d \in Doc : Detach(d)
  \/ \E u \in upload : (\E state \in Extraction : Uploaded(u, state)) \/ UploadFails(u)
  \/ LoadDocument \/ GetDocument \/ ReceiveDocument
  \/ \E clicks \in 1..2 : Start(clicks)
  \/ \E c \in StartCall : Network(c)

Next ==
  \/ FormNext
  \/ WatchNext /\ UNCHANGED <<service, opening, formVars, offered, start>>

Spec == Init /\ [][Next]_vars

(* The interval ticks, and what is asked about a run is answered or lost.  *)
(* Runs need not end, and nobody has to click, to leave or to come back.   *)
Goes(A) == A /\ UNCHANGED <<service, opening, formVars, offered, start>>
FairSpec ==
  /\ Spec
  /\ WF_vars(Goes(PollRun))
  /\ SF_vars(Goes(\E r \in Run : GetRun(r))) /\ SF_vars(Goes(\E r \in Run : ReceiveRun(r)))
-----------------------------------------------------------------------------
(* What the form and the pages promise.                                    *)

Body == [doc : Doc, contexts : SUBSET Doc, model : Model]

(* The form, the pages and the service hold only the values the code gives *)
(* them; what was answered names a run that was started.                   *)
TypeOK ==
  /\ WatchTypeOK
  /\ page \in Run \cup {"home", "new"}
  /\ extraction \in [Doc -> Extraction \cup {"none"}] /\ available \subseteq Model
  /\ \A a \in admitted : a.run \in Started
  /\ origin \in [Run -> ((1..MaxOpenings) \X Body) \cup {NoData}]
  /\ opening \in 0..MaxOpenings
  /\ form \in [doc : Doc \cup {NoDoc}, state : Extraction, contexts : SUBSET Doc,
               panel : BOOLEAN, model : Model \cup {NoModel}, sending : StartCall \cup {NoData}]
  /\ Q!IsQuery(document, Extraction, {})
  /\ offered \in (SUBSET Model) \cup {NoData}
  /\ upload \subseteq [doc : Doc, place : {"main", "context"}, field : BOOLEAN, base : SUBSET Doc]
  /\ \A c \in StartCall :
       \/ start[c] = NotStarting
       \/ start[c] \in [step : {"sent", "refused"}, opening : 1..MaxOpenings, body : Body]
       \/ start[c] \in [step : {"accepted"}, opening : 1..MaxOpenings, run : Started]

(* An opening of the form makes one run of the same request, however often *)
(* it is sent: twice by a double click, again after an answer was lost,    *)
(* or after the form was left (idempotency.ts, FR-012).  Everything holds  *)
(* only the values the code gives it.                                      *)
OneRunPerIntent ==
  /\ TypeOK
  /\ \A r, s \in Started : origin[r] = origin[s] => r = s

(* Every run is started with a document whose text the service has, though *)
(* the form only copies its state, and replaces the document meanwhile.    *)
StartedIsReadable ==
  /\ \A c \in Starting : start[c].step = "sent" => extraction[start[c].body.doc] = "ready"
  /\ \A r \in Started : extraction[origin[r][2].doc] = "ready"

(* No upload that ends, in whatever order, takes away material another one *)
(* attached: only the person who detaches it does (NewReviewPage.tsx:180). *)
AttachedIsKept ==
  [][OnForm /\ OnForm' /\ opening' = opening =>
       form.contexts \subseteq form'.contexts
       \/ \E d \in Doc : Detach(d)]_vars

(* A request that has made a run is never refused when it is sent again:   *)
(* "Same key and body replays the original result" (openapi.yaml:833).     *)
ReplayIsNotRefused ==
  \A c \in StartCall : start[c].step = "refused" =>
    \A r \in Started : origin[r] # <<start[c].opening, start[c].body>>
===============================================================================
