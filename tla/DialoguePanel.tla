----------------------------- MODULE DialoguePanel -----------------------------
(***************************************************************************)
(* The dialogue about a finding as the page sees it: the question in the   *)
(* composer and its attachments, turns sent and retried with the revision  *)
(* the page has, the polling while an answer is prepared, and people who   *)
(* ask or decide elsewhere (apps/web: DialoguePanel.tsx, TurnComposer.tsx, *)
(* DialogueAttachments.tsx, use-create-turn.ts, use-retry-turn.ts,         *)
(* use-finding-dialogue.ts, polling.ts, http-client.ts, idempotency.ts).   *)
(*                                                                         *)
(* The service is that of platform.py, reduced to what an answer tells the *)
(* page.  What the page does after an answer also waits for the states of  *)
(* the findings, which have no part here.  A continuation of a promise     *)
(* runs before the next event of the browser: Quiet guards every event.    *)
(* A definition named ...Variant is a mistake used by no action.           *)
(***************************************************************************)
EXTENDS Naturals, Sequences, FiniteSets

CONSTANTS
  Question,      \* what a person may write
  NoQuestion,    \* an empty composer
  File,          \* files a person may attach
  Limit,         \* attachments of a turn, at most
  Call,          \* calls of send() and retry() that may overlap
  NoData,        \* nothing in the cache yet
  Disturbances,  \* lost requests, calls that overlap, acts of others, at most
  MaxTurns,      \* turns of a dialogue, at most
  MaxRevision    \* the revision from which on nothing new begins

ASSUME QuestionAssumption == NoQuestion \notin Question
ASSUME BoundAssumption ==
  /\ Limit \in Nat /\ Disturbances \in Nat /\ MaxRevision \in Nat
  /\ MaxTurns \in Nat \ {0} /\ Call # {}

VARIABLES
  server,      \* the dialogue in the database
  admitted,    \* the idempotency keys the service has answered
  query,       \* the query of the dialogue
  message,     \* the question in the composer
  attached,    \* the files of the composer
  extracted,   \* those whose text the page knows to be extracted
  upload,      \* the files of attach() that are still to be uploaded
  mutation,    \* what the mutation of send() shows, and of which call
  call,        \* the calls under way
  disturbed    \* lost requests, calls that overlap, acts of others so far

vars == <<server, admitted, query, message, attached, extracted, upload, mutation,
          call, disturbed>>
composer == <<message, attached, extracted, upload>>

Q == INSTANCE QueryCache

(* A turn is failed when it may be retried, and ended when it may not.     *)
TurnState == {"generating", "failed", "ended"}
Turn == [question : Question \cup {NoQuestion}, files : SUBSET File,
         asked : 0..MaxRevision, mine : BOOLEAN, state : TurnState]
(* What has begun still ends, each time with a revision of its own.        *)
Dialogue == [revision : 0..(MaxRevision + MaxTurns), closed : BOOLEAN,
             turns : UNION {[1..n -> Turn] : n \in 0..MaxTurns}]

(* isDialogueGenerating(): a turn still waits for its answer.              *)
Generating(d) == \E t \in DOMAIN d.turns : d.turns[t].state = "generating"

(* can_send_message, which the service computes.                           *)
CanSend(d) == ~d.closed /\ ~Generating(d)

Body == [kind : {"send"}, question : Question \cup {NoQuestion}, files : SUBSET File,
         revision : 0..MaxRevision]
        \cup [kind : {"retry"}, turn : 1..MaxTurns, revision : 0..MaxRevision]

Free == [step |-> "free"]
Under(step, body) == [step |-> step, body |-> body]
NoUpload == [base |-> {}, files |-> {}]

(* Revisions are counted from the opening of the page: the dialogue is new *)
(* or holds a turn that failed before.                                     *)
Earlier == [question |-> NoQuestion, files |-> {}, asked |-> 0, mine |-> FALSE,
            state |-> "failed"]

Init ==
  /\ server \in [revision : {0}, closed : {FALSE}, turns : {<<>>, <<Earlier>>}]
  /\ admitted = {}
  /\ query = Q!Empty
  /\ message = NoQuestion /\ attached = {} /\ extracted = {} /\ upload = NoUpload
  /\ mutation = [show |-> "idle", of |-> NoData]
  /\ call = [c \in Call |-> Free]
  /\ disturbed = 0

Shown == Q!Loaded(query)
Uploading == upload.files # {}
Pending == mutation.show = "pending"
Retrying == \E c \in Call : call[c].step \in {"sent", "accepted", "refused"}
                            /\ call[c].body.kind = "retry"

Released(c) == call[c].step \in {"refreshing", "reloading"} /\ c \notin Q!Waiters(query)
Quiet == \A c \in Call : ~Released(c)
Disturb == disturbed < Disturbances /\ disturbed' = disturbed + 1
-----------------------------------------------------------------------------
(* The dialogue in the cache. *)

(* A mount, or the focus of the window. *)
Load ==
  /\ Quiet
  /\ query' = Q!Fetch(query)
  /\ UNCHANGED <<server, admitted, composer, mutation, call, disturbed>>

(* "Повторить", after a fetch that failed. *)
Reload ==
  /\ Quiet /\ query.failed
  /\ query' = Q!Refetch(query, {})
  /\ UNCHANGED <<server, admitted, composer, mutation, call, disturbed>>

(* The interval of use-finding-dialogue.ts. *)
PollVariant ==
  /\ Quiet
  /\ Shown /\ Generating(query.data)
  /\ ~Q!Fetching(query) /\ ~query.failed
  /\ query' = Q!Fetch(query)
  /\ UNCHANGED <<server, admitted, composer, mutation, call, disturbed>>

Poll ==
  /\ Quiet
  /\ Shown /\ Generating(query.data)
  /\ ~Q!Fetching(query)
  /\ query' = Q!Fetch(query)
  /\ UNCHANGED <<server, admitted, composer, mutation, call, disturbed>>

GetDialogue ==
  /\ Quiet /\ query.fetch = "sent"
  /\ query' = Q!Answered(query, server)
  /\ UNCHANGED <<server, admitted, composer, mutation, call, disturbed>>

ReceiveDialogue ==
  /\ Quiet
  /\ \/ query.fetch = "answered" /\ query' = Q!Received(query) /\ UNCHANGED disturbed
     \/ Q!Fetching(query) /\ query' = Q!Lost(query) /\ Disturb
  /\ UNCHANGED <<server, admitted, composer, mutation, call>>
-----------------------------------------------------------------------------
(* The composer. *)

Write(q) ==
  /\ Quiet /\ Shown /\ CanSend(query.data) /\ q # message
  /\ message' = q
  /\ UNCHANGED <<server, admitted, query, attached, extracted, upload, mutation, call,
                 disturbed>>

Unlocked == Shown /\ CanSend(query.data) /\ ~Pending

(* attach(): the files that were attached when it began stay its base.     *)
Attach(files) ==
  /\ Quiet /\ Unlocked /\ ~Uploading /\ files # {}
  /\ Cardinality(files) + Cardinality(attached) <= Limit
  /\ upload' = [base |-> attached, files |-> files]
  /\ UNCHANGED <<server, admitted, query, message, attached, extracted, mutation, call,
                 disturbed>>

(* One file after the other; each answer writes the whole list anew.       *)
Uploaded(f) ==
  /\ Quiet /\ f \in upload.files
  /\ upload' = IF upload.files = {f} THEN NoUpload
               ELSE [base |-> upload.base \cup {f}, files |-> upload.files \ {f}]
  /\ attached' = upload.base \cup {f} /\ extracted' = extracted \ {f}
  /\ UNCHANGED <<server, admitted, query, message, mutation, call, disturbed>>

UploadFails ==
  /\ Quiet /\ Uploading
  /\ upload' = NoUpload
  /\ UNCHANGED <<server, admitted, query, message, attached, extracted, mutation, call,
                 disturbed>>

(* The service has extracted the text before it answers the upload, or has *)
(* failed to; the page hears of the text by asking for the document.       *)
GetAttachment(f) ==
  /\ Quiet /\ f \in attached \ extracted
  /\ extracted' = extracted \cup {f}
  /\ UNCHANGED <<server, admitted, query, message, attached, upload, mutation, call,
                 disturbed>>

Detach(f) ==
  /\ Quiet /\ Unlocked /\ f \in attached
  /\ attached' = attached \ {f} /\ extracted' = extracted \ {f}
  /\ UNCHANGED <<server, admitted, query, message, upload, mutation, call,
                 disturbed>>

AttachmentsReady == ~Uploading /\ attached \subseteq extracted

Begin(body) ==
  /\ body.revision < MaxRevision
  /\ IF \A c \in Call : call[c].step = "free" THEN UNCHANGED disturbed
     ELSE (\E c \in Call : call[c].step = "free") /\ Disturb
  /\ LET c == CHOOSE c \in Call : call[c].step = "free"
     IN  /\ call' = [call EXCEPT ![c] = Under("sent", body)]
         /\ mutation' = IF body.kind = "send" THEN [show |-> "pending", of |-> c]
                        ELSE mutation

(* submit(), from the button and from the notice of a conflict. *)
Submit ==
  /\ Quiet /\ Unlocked
  /\ message # NoQuestion \/ attached # {}
  /\ AttachmentsReady
  /\ Begin([kind |-> "send", question |-> message, files |-> attached,
            revision |-> query.data.revision])
  /\ UNCHANGED <<server, admitted, query, composer>>

(* A failed turn is offered for another try, with the revision shown.      *)
Retry(t) ==
  /\ Quiet /\ Shown /\ ~Retrying
  /\ t \in DOMAIN query.data.turns /\ query.data.turns[t].state = "failed"
  /\ Begin([kind |-> "retry", turn |-> t, revision |-> query.data.revision])
  /\ UNCHANGED <<server, admitted, query, composer>>
-----------------------------------------------------------------------------
(* The service. *)

Asked(turns, question, files, mine) ==
  Append(turns, [question |-> question, files |-> files, asked |-> server.revision,
                 mine |-> mine, state |-> "generating"])
Changed(turns) ==
  server' = [server EXCEPT !.revision = @ + 1, !.turns = turns]

(* The key of a request is drawn from its body; a key the service knows is *)
(* answered with what it answered before.                                  *)
KeyVariant(c) == [call[c].body EXCEPT !.revision = server.revision]
Key(c) == call[c].body

Admissible(b) ==
  /\ b.revision = server.revision
  /\ IF b.kind = "send"
       THEN CanSend(server) /\ Len(server.turns) < MaxTurns
       ELSE server.turns[b.turn].state = "failed"

Admit(c) ==
  /\ Quiet /\ call[c].step = "sent"
  /\ LET b == call[c].body
     IN  \/ /\ Key(c) \in admitted
            /\ call' = [call EXCEPT ![c].step = "accepted"]
            /\ UNCHANGED <<server, admitted>>
         \/ /\ Key(c) \notin admitted /\ Admissible(b)
            /\ call' = [call EXCEPT ![c].step = "accepted"]
            /\ admitted' = admitted \cup {Key(c)}
            /\ Changed(IF b.kind = "send"
                       THEN Asked(server.turns, b.question, b.files, TRUE)
                       ELSE [server.turns EXCEPT ![b.turn].state = "generating"])
         \/ /\ Key(c) \notin admitted /\ ~Admissible(b)
            /\ call' = [call EXCEPT ![c].step =
                          IF b.revision # server.revision THEN "refused" ELSE "blocked"]
            /\ UNCHANGED <<server, admitted>>
  /\ UNCHANGED <<query, composer, mutation, disturbed>>

(* The answer of the model, or the end of the attempt without one. *)
Generate(t) ==
  /\ Quiet /\ server.turns[t].state = "generating"
  /\ \E result \in {"failed", "ended"} :
       Changed([server.turns EXCEPT ![t].state = result])
  /\ UNCHANGED <<admitted, query, composer, mutation, call, disturbed>>

(* Another person asks, or a decision closes or opens the dialogue.        *)
AskElsewhere(q) ==
  /\ Quiet /\ CanSend(server) /\ Len(server.turns) < MaxTurns
  /\ server.revision < MaxRevision /\ Disturb
  /\ Changed(Asked(server.turns, q, {}, FALSE))
  /\ UNCHANGED <<admitted, query, composer, mutation, call>>

DecideElsewhere ==
  /\ Quiet /\ server.revision < MaxRevision /\ Disturb
  /\ server' = [server EXCEPT !.revision = @ + 1, !.closed = ~@]
  /\ UNCHANGED <<admitted, query, composer, mutation, call>>
-----------------------------------------------------------------------------
(* send() and retry(): what follows the answer. *)

Show(c, outcome) ==
  mutation' = IF mutation.of = c THEN [mutation EXCEPT !.show = outcome] ELSE mutation

SucceedVariant(c) ==
  /\ Quiet /\ call[c].step = "accepted"
  /\ Show(c, "success")
  /\ query' = IF Q!Loaded(query) THEN query ELSE Q!Refetch(query, {c})
  /\ call' = [call EXCEPT ![c].step = "refreshing"]
  /\ UNCHANGED <<server, admitted, composer, disturbed>>

Succeed(c) ==
  /\ Quiet /\ call[c].step = "accepted"
  /\ Show(c, "success")
  /\ query' = Q!Refetch(query, {c})
  /\ call' = [call EXCEPT ![c].step = "refreshing"]
  /\ UNCHANGED <<server, admitted, composer, disturbed>>

(* A refused question loads the dialogue as it is now; a refused retry is  *)
(* passed over in silence.                                                 *)
Refused(c) ==
  /\ Quiet /\ call[c].step = "refused"
  /\ Show(c, "conflict")
  /\ IF call[c].body.kind = "send"
       THEN /\ query' = Q!Refetch(query, {c})
            /\ call' = [call EXCEPT ![c].step = "reloading"]
       ELSE /\ call' = [call EXCEPT ![c] = Free]
            /\ UNCHANGED query
  /\ UNCHANGED <<server, admitted, composer, disturbed>>

(* The answer is another problem, or the network lost request or answer.   *)
Failed(c) ==
  /\ Quiet
  /\ \/ call[c].step = "blocked" /\ UNCHANGED disturbed
     \/ call[c].step \in {"sent", "accepted", "refused"} /\ Disturb
  /\ Show(c, "failed")
  /\ call' = [call EXCEPT ![c] = Free]
  /\ UNCHANGED <<server, admitted, query, composer>>

(* submit() goes on: what was in the composer is taken away. *)
Return(c) ==
  /\ Released(c)
  /\ IF call[c].step = "refreshing" /\ call[c].body.kind = "send"
       THEN message' = NoQuestion /\ attached' = {} /\ extracted' = {}
       ELSE UNCHANGED <<message, attached, extracted>>
  /\ call' = [call EXCEPT ![c] = Free]
  /\ UNCHANGED <<server, admitted, query, upload, mutation, disturbed>>
-----------------------------------------------------------------------------
Network(c) == Admit(c) \/ Succeed(c) \/ Refused(c) \/ Failed(c)

Next ==
  \/ Load \/ Reload \/ Poll \/ GetDialogue \/ ReceiveDialogue
  \/ \E q \in Question : Write(q)
  \/ \E files \in SUBSET File : Attach(files)
  \/ \E f \in File : Uploaded(f) \/ GetAttachment(f) \/ Detach(f)
  \/ UploadFails
  \/ Submit
  \/ \E t \in 1..MaxTurns : Retry(t)
  \/ \E c \in Call : Network(c) \/ Return(c)
  \/ \E t \in DOMAIN server.turns : Generate(t)
  \/ \E q \in Question : AskElsewhere(q)
  \/ DecideElsewhere

Spec == Init /\ [][Next]_vars

(* The interval ticks, the network answers or loses every request, and     *)
(* promises go on.  No generation has to end, and nobody has to write,     *)
(* send, retry or come back to the window.                                 *)
FairSpec ==
  /\ Spec
  /\ WF_vars(Poll) /\ SF_vars(GetDialogue) /\ SF_vars(ReceiveDialogue)
  /\ \A c \in Call : WF_vars(Network(c)) /\ WF_vars(Return(c))
-----------------------------------------------------------------------------
(* What the panel promises.                                                *)

(* The page, its calls and the dialogue hold only the values the code      *)
(* gives them.                                                             *)
TypeOK ==
  /\ server \in Dialogue
  /\ admitted \subseteq Body
  /\ Q!IsQuery(query, Dialogue, Call)
  /\ message \in Question \cup {NoQuestion}
  /\ attached \subseteq File /\ extracted \subseteq File
  /\ upload \in [base : SUBSET File, files : SUBSET File]
  /\ mutation \in [show : {"idle", "pending", "success", "conflict", "failed"},
                   of : Call \cup {NoData}]
  /\ \A c \in Call :
       \/ call[c] = Free
       \/ call[c].body \in Body
          /\ call[c].step \in {"sent", "accepted", "refused", "blocked", "refreshing",
                               "reloading"}
  /\ disturbed \in 0..Disturbances

(* A question that is refused as asked of an old dialogue has not been     *)
(* asked: one sent again after its answer was lost is recognised by its    *)
(* key and shown as the turn it has become (idempotency.ts).  Everything   *)
(* holds only the values the code gives it.                                *)
RefusedIsNotAsked ==
  /\ TypeOK
  /\ \A c \in Call :
       call[c].step \in {"refused", "blocked"} /\ call[c].body.kind = "send"
         => \A t \in DOMAIN server.turns :
              \/ ~server.turns[t].mine
              \/ server.turns[t].asked # call[c].body.revision
              \/ server.turns[t].question # call[c].body.question
              \/ server.turns[t].files # call[c].body.files

(* An end the page does not know of yet is seen: while a turn is shown as  *)
(* being answered and the database says otherwise, the page goes on        *)
(* asking, whatever was lost on the way (polling.ts, FR-033).  That a turn *)
(* ends at all is not promised here.                                       *)
Awaited(t) ==
  Shown /\ t \in DOMAIN query.data.turns /\ query.data.turns[t].state = "generating"
AnswerIsSeen ==
  \A t \in 1..MaxTurns :
    Awaited(t) /\ server.turns[t].state # "generating"
      ~> ~Awaited(t) \/ server.turns[t].state = "generating"

(* A question the service took is among the turns shown, or the panel says *)
(* that the dialogue could not be updated (use-create-turn.ts).            *)
AskedIsShown ==
  \A c \in Call : \A r \in 0..MaxRevision :
    call[c].step = "refreshing" /\ call[c].body.kind = "send" /\ call[c].body.revision = r
      ~> query.failed \/ (Shown /\ query.data.revision > r)
===============================================================================
