------------------------- MODULE DialoguePanelProofs -------------------------
(***************************************************************************)
(* For any questions, files, calls and bounds: a question the page is told *)
(* was not taken is not among the turns of the dialogue.                   *)
(***************************************************************************)
EXTENDS DialoguePanel, FiniteSetTheorems, SequenceTheorems, TLAPS

Sends == [kind : {"send"}, question : Question \cup {NoQuestion}, files : SUBSET File,
          revision : 0..MaxRevision]
Retries == [kind : {"retry"}, turn : 1..MaxTurns, revision : 0..MaxRevision]
Calls ==
  {Free} \cup [step : {"sent", "accepted", "refused", "blocked", "refreshing", "reloading"},
               body : Body]
Queries ==
  [data : Dialogue \cup {NoData}, failed : BOOLEAN, fetch : {"none", "sent", "answered"},
   answer : Dialogue \cup {NoData}, waiting : SUBSET Call, joined : SUBSET Call]
Turns == UNION {[1..n -> Turn] : n \in 0..MaxTurns}
Mutations ==
  [show : {"idle", "pending", "success", "conflict", "failed"}, of : Call \cup {NoData}]

GeneratingTurns(turns) == {t \in DOMAIN turns : turns[t].state = "generating"}
SentAs(turn) == [kind |-> "send", question |-> turn.question, files |-> turn.files,
                 revision |-> turn.asked]

(* What was asked while revisions were left still ends. *)
Bounded == server.revision + Cardinality(GeneratingTurns(server.turns))
             <= MaxRevision + MaxTurns

(* The page, the answers on their way and the calls lag behind the server. *)
Lags ==
  /\ Q!Loaded(query) => query.data.revision <= server.revision
  /\ query.fetch = "answered" /\ query.answer # NoData
       => query.answer.revision <= server.revision
  /\ \A c \in Call : call[c].step # "free" => /\ call[c].body.revision <= server.revision
                                               /\ call[c].body.revision < MaxRevision

(* The service knows the key of every question the page has asked. *)
TurnsAreAdmitted ==
  \A t \in DOMAIN server.turns :
    server.turns[t].mine => SentAs(server.turns[t]) \in admitted

(* What was not admitted can never be. *)
RefusedAreOut ==
  \A c \in Call : call[c].step \in {"refused", "blocked"} =>
    call[c].body \notin admitted /\ ~Admissible(call[c].body)

(* The types of TypeOK, and that nothing but its calls is a call. *)
Typed ==
  /\ server \in Dialogue /\ admitted \in SUBSET Body /\ query \in Queries
  /\ message \in Question \cup {NoQuestion}
  /\ attached \in SUBSET File /\ extracted \in SUBSET File
  /\ upload \in [base : SUBSET File, files : SUBSET File]
  /\ mutation \in Mutations /\ call \in [Call -> Calls]
  /\ disturbed \in 0..Disturbances

IInv ==
  /\ Typed
  /\ Bounded /\ Lags /\ TurnsAreAdmitted /\ RefusedAreOut
-----------------------------------------------------------------------------
(* The parts of the state. *)

(* The calls of a typed state are those of TypeOK. *)
LEMMA TypedIsTypeOK == Typed => TypeOK
<1> SUFFICES ASSUME Typed PROVE TypeOK
  OBVIOUS
<1>1. Q!IsQuery(query, Dialogue, Call)
  BY DEF Typed, Queries, Q!IsQuery
<1>2. ASSUME NEW c \in Call
      PROVE  \/ call[c] = Free
             \/ /\ call[c].body \in Body
                /\ call[c].step \in {"sent", "accepted", "refused", "blocked", "refreshing",
                                     "reloading"}
  <2>1. call[c] \in Calls
    BY DEF Typed
  <2> QED
    BY <2>1 DEF Calls
<1> QED
  BY <1>1, <1>2 DEF Typed, TypeOK, Mutations

(* A call that is not free has a body. *)
LEMMA CallFields ==
  ASSUME NEW x \in Calls
  PROVE  /\ x.step = "free" => x = Free
         /\ x.step # "free" => x.body \in Body /\ x.body.revision \in 0..MaxRevision
         /\ \A step \in {"sent", "accepted", "refused", "blocked", "refreshing", "reloading"} :
              x.step # "free" => /\ [x EXCEPT !.step = step] \in Calls
                                 /\ [x EXCEPT !.step = step].step = step
                                 /\ [x EXCEPT !.step = step].body = x.body
<1>1. CASE x = Free
  BY <1>1 DEF Free
<1>2. CASE x \in [step : {"sent", "accepted", "refused", "blocked", "refreshing", "reloading"},
                  body : Body]
  <2>1. x.body \in Body /\ x.step # "free"
    BY <1>2
  <2>2. x.body.revision \in 0..MaxRevision
    BY <2>1 DEF Body
  <2> QED
    BY <1>2, <2>1, <2>2 DEF Calls
<1> QED
  BY <1>1, <1>2 DEF Calls

(* A call begins, goes on or ends. *)
LEMMA CallUpdate ==
  ASSUME Typed, NEW c \in Call, NEW new \in Calls, call' = [call EXCEPT ![c] = new]
  PROVE  /\ call' \in [Call -> Calls] /\ call'[c] = new
         /\ \A d \in Call \ {c} : call'[d] = call[d]
BY DEF Typed

(* So does a call that goes on to its next step. *)
LEMMA CallGoesOn ==
  ASSUME Typed, NEW c \in Call, call[c].step # "free",
         NEW step \in {"sent", "accepted", "refused", "blocked", "refreshing", "reloading"},
         call' = [call EXCEPT ![c].step = step]
  PROVE  /\ call' \in [Call -> Calls]
         /\ call'[c].step = step /\ call'[c].body = call[c].body
         /\ \A d \in Call \ {c} : call'[d] = call[d]
<1> DEFINE new == [call[c] EXCEPT !.step = step]
<1>1. call[c] \in Calls
  BY DEF Typed
<1>2. new \in Calls /\ new.step = step /\ new.body = call[c].body
  BY <1>1, CallFields
<1>3. call' = [call EXCEPT ![c] = new]
  OBVIOUS
<1> HIDE DEF new
<1> QED
  BY <1>2, <1>3, CallUpdate

(* What the operations of the cache leave of a query. *)
LEMMA QueryFields ==
  ASSUME NEW q \in Queries, NEW callers \in SUBSET Call
  PROVE  /\ Q!Fetch(q) \in Queries /\ Q!Fetch(q).data = q.data
         /\ Q!Fetch(q).fetch = "answered" =>
              q.fetch = "answered" /\ Q!Fetch(q).answer = q.answer
         /\ Q!Refetch(q, callers) \in Queries /\ Q!Refetch(q, callers).data = q.data
         /\ Q!Refetch(q, callers).fetch = "answered" =>
              q.fetch = "answered" /\ Q!Refetch(q, callers).answer = q.answer
         /\ Q!Lost(q) \in Queries /\ Q!Lost(q).data = q.data
         /\ Q!Lost(q).fetch = "none"
         /\ Q!Received(q) \in Queries /\ Q!Received(q).data = q.answer
         /\ Q!Received(q).fetch = "none"
<1> USE DEF Queries
<1>1. Q!Fetch(q) \in Queries /\ Q!Fetch(q).data = q.data
      /\ (Q!Fetch(q).fetch = "answered" =>
            q.fetch = "answered" /\ Q!Fetch(q).answer = q.answer)
  BY DEF Q!Fetch, Q!Fetching
<1>2. Q!Lost(q) \in Queries /\ Q!Lost(q).data = q.data /\ Q!Lost(q).fetch = "none"
  BY DEF Q!Lost, Q!Idle
<1>3. Q!Received(q) \in Queries /\ Q!Received(q).data = q.answer
      /\ Q!Received(q).fetch = "none"
  BY DEF Q!Received, Q!Idle
<1>4. CASE Q!Loaded(q) \/ ~Q!Fetching(q)
  BY <1>1, <1>2, <1>3, <1>4 DEF Q!Refetch
<1>5. CASE ~(Q!Loaded(q) \/ ~Q!Fetching(q))
  <2>1. Q!Refetch(q, callers) = [q EXCEPT !.joined = @ \cup callers]
    BY <1>5 DEF Q!Refetch
  <2> QED
    BY <1>1, <1>2, <1>3, <2>1
<1> QED
  BY <1>4, <1>5

(* An answer is what the service holds. *)
LEMMA AnswerFields ==
  ASSUME NEW q \in Queries, NEW d \in Dialogue
  PROVE  /\ Q!Answered(q, d) \in Queries /\ Q!Answered(q, d).data = q.data
         /\ Q!Answered(q, d).answer = d
BY DEF Queries, Q!Answered
-----------------------------------------------------------------------------
(* The turns of a dialogue. *)

(* The turns are numbered, and finitely many wait for an answer. *)
LEMMA TurnsFacts ==
  ASSUME NEW turns \in Turns
  PROVE  /\ Len(turns) \in 0..MaxTurns /\ turns \in [1..Len(turns) -> Turn]
         /\ DOMAIN turns = 1..Len(turns) /\ turns \in Seq(Turn)
         /\ IsFiniteSet(GeneratingTurns(turns))
         /\ Cardinality(GeneratingTurns(turns)) \in 0..MaxTurns
<1>1. PICK n \in 0..MaxTurns : turns \in [1..n -> Turn]
  BY DEF Turns
<1>2. n \in Nat /\ DOMAIN turns = 1..n
  BY <1>1, BoundAssumption
<1>3. turns \in Seq(Turn) /\ Len(turns) = n
  BY <1>1, <1>2
<1>4. IsFiniteSet(1..n) /\ Cardinality(1..n) = n
  BY <1>2, FS_Interval
<1>5. GeneratingTurns(turns) \subseteq 1..n
  BY <1>2 DEF GeneratingTurns
<1>6. /\ IsFiniteSet(GeneratingTurns(turns))
      /\ Cardinality(GeneratingTurns(turns)) <= n
  BY <1>4, <1>5, FS_Subset
<1>7. Cardinality(GeneratingTurns(turns)) \in Nat
  BY <1>6, FS_CardinalityType
<1> QED
  BY <1>1, <1>2, <1>3, <1>6, <1>7, BoundAssumption

(* A question becomes the last turn. *)
LEMMA TurnAppended ==
  ASSUME NEW turns \in Turns, Len(turns) < MaxTurns, NEW turn \in Turn
  PROVE  /\ Append(turns, turn) \in Turns
         /\ \A t \in DOMAIN Append(turns, turn) :
              \/ t \in DOMAIN turns /\ Append(turns, turn)[t] = turns[t]
              \/ Append(turns, turn)[t] = turn
<1>1. /\ Len(turns) \in 0..MaxTurns /\ turns \in [1..Len(turns) -> Turn]
      /\ DOMAIN turns = 1..Len(turns) /\ turns \in Seq(Turn)
  BY TurnsFacts
<1> DEFINE more == Append(turns, turn)
<1>2. more \in Seq(Turn) /\ Len(more) = Len(turns) + 1
      /\ (\A t \in 1..Len(turns) : more[t] = turns[t]) /\ more[Len(turns) + 1] = turn
  BY <1>1
<1>3. DOMAIN more = 1..(Len(turns) + 1) /\ more \in [1..(Len(turns) + 1) -> Turn]
  <2> HIDE DEF more
  <2>1. DOMAIN more = 1..Len(more) /\ more \in [1..Len(more) -> Turn]
    BY <1>2, LenProperties
  <2> QED
    BY <1>2, <2>1
<1>4. Len(turns) + 1 \in 0..MaxTurns
  BY <1>1, BoundAssumption
<1>5. more \in Turns
  BY <1>3, <1>4 DEF Turns
<1> HIDE DEF more
<1>6. \A t \in DOMAIN more : (t \in DOMAIN turns /\ more[t] = turns[t]) \/ more[t] = turn
  BY <1>1, <1>2, <1>3
<1> QED
  BY <1>5, <1>6 DEF more

InState(turns, t, state) == [turns EXCEPT ![t].state = state]

(* The state of a turn changes, and nothing else of it. *)
LEMMA TurnChanged ==
  ASSUME NEW turns \in Turns, NEW t, NEW state \in TurnState
  PROVE  LET new == InState(turns, t, state)
         IN  /\ new \in Turns /\ DOMAIN new = DOMAIN turns
             /\ \A u \in DOMAIN turns :
                  /\ SentAs(new[u]) = SentAs(turns[u])
                  /\ new[u].mine => turns[u].mine
                  /\ u # t => new[u] = turns[u]
                  /\ u = t => new[u].state = state
<1>1. PICK n \in 0..MaxTurns : turns \in [1..n -> Turn]
  BY DEF Turns
<1> DEFINE new == InState(turns, t, state)
<1>2. DOMAIN new = DOMAIN turns /\ DOMAIN turns = 1..n
  BY <1>1 DEF InState
<1>3. \A u \in 1..n : new[u] = IF u = t THEN [turns[u] EXCEPT !.state = state] ELSE turns[u]
  BY <1>1 DEF InState
<1>4. ASSUME NEW u \in 1..n
      PROVE  /\ new[u] \in Turn /\ SentAs(new[u]) = SentAs(turns[u])
             /\ new[u].mine => turns[u].mine
             /\ u # t => new[u] = turns[u]
             /\ u = t => new[u].state = state
  <2>1. turns[u] \in Turn
    BY <1>1
  <2> QED
    BY <1>3, <2>1 DEF Turn, SentAs
<1>5. new \in [1..n -> Turn]
  <2>1. new = [u \in 1..n |-> new[u]]
    BY <1>1 DEF InState
  <2> HIDE DEF new
  <2> QED
    BY <1>4, <2>1
<1>6. new \in Turns
  BY <1>5 DEF Turns
<1> QED
  BY <1>2, <1>4, <1>6

(* A turn that ends generates no more. *)
LEMMA TurnEnds ==
  ASSUME NEW turns \in Turns, NEW t \in DOMAIN turns, turns[t].state = "generating",
         NEW new \in Turns, DOMAIN new = DOMAIN turns, new[t].state # "generating",
         \A u \in DOMAIN turns \ {t} : new[u] = turns[u]
  PROVE  Cardinality(GeneratingTurns(new)) + 1 = Cardinality(GeneratingTurns(turns))
<1>1. GeneratingTurns(new) = GeneratingTurns(turns) \ {t}
  BY DEF GeneratingTurns
<1>2. t \in GeneratingTurns(turns)
  BY DEF GeneratingTurns
<1>3. IsFiniteSet(GeneratingTurns(turns)) /\ Cardinality(GeneratingTurns(turns)) \in Nat
  BY TurnsFacts, BoundAssumption
<1>4. Cardinality(GeneratingTurns(turns) \ {t}) = Cardinality(GeneratingTurns(turns)) - 1
  BY <1>2, <1>3, FS_RemoveElement
<1> QED
  BY <1>1, <1>3, <1>4
-----------------------------------------------------------------------------
(* What the page does. *)

(* The revision of the service and those of what lags behind it. *)
LEMMA RevisionFacts ==
  ASSUME IInv
  PROVE  /\ server.revision \in Nat
         /\ Q!Loaded(query) => query.data \in Dialogue /\ query.data.revision \in Nat
         /\ \A c \in Call : call[c] \in Calls
         /\ \A c \in Call : call[c].step # "free" => /\ call[c].body \in Body
                                                     /\ call[c].body.revision \in 0..MaxRevision
<1>1. server \in Dialogue /\ query \in Queries /\ call \in [Call -> Calls]
  BY DEF IInv, Typed
<1>2. server.revision \in Nat
  BY <1>1, BoundAssumption DEF Dialogue
<1>3. Q!Loaded(query) => query.data \in Dialogue
  BY <1>1 DEF Queries, Q!Loaded
<1>4. Q!Loaded(query) => query.data.revision \in Nat
  BY <1>3, BoundAssumption DEF Dialogue
<1>5. \A c \in Call : call[c] \in Calls
  BY <1>1
<1> QED
  BY <1>2, <1>3, <1>4, <1>5, CallFields

(* As long as the service does nothing, no question is asked or refused.   *)
LEMMA PageGoes ==
  ASSUME IInv, Typed', UNCHANGED <<server, admitted>>,
         \/ /\ query'.data = query.data
            /\ query'.fetch = "answered" =>
                 \/ query.fetch = "answered" /\ query'.answer = query.answer
                 \/ query'.answer = server
         \/ /\ query.fetch = "answered" /\ query'.data = query.answer
            /\ query'.fetch = "none",
         \A c \in Call :
           \/ call'[c] = call[c]
           \/ call'[c].step = "free"
           \/ /\ call'[c].step \notin {"refused", "blocked"}
              /\ call'[c].body.revision <= server.revision
              /\ call'[c].body.revision < MaxRevision
  PROVE  IInv'
<1>1. server.revision \in Nat
  BY RevisionFacts
<1>2. Bounded' /\ TurnsAreAdmitted'
  BY DEF IInv, Bounded, TurnsAreAdmitted
<1>3. Lags'
  <2>1. Q!Loaded(query)' => query'.data.revision <= server.revision
    BY DEF IInv, Lags, Q!Loaded
  <2>2. query'.fetch = "answered" /\ query'.answer # NoData
          => query'.answer.revision <= server.revision
    BY <1>1 DEF IInv, Lags
  <2>3. \A c \in Call : call'[c].step # "free" => /\ call'[c].body.revision <= server.revision
                                                 /\ call'[c].body.revision < MaxRevision
    BY DEF IInv, Lags
  <2> QED
    BY <2>1, <2>2, <2>3 DEF Lags
<1>4. RefusedAreOut'
  <2> SUFFICES ASSUME NEW c \in Call, call'[c].step \in {"refused", "blocked"}
               PROVE  call'[c].body \notin admitted' /\ ~Admissible(call[c].body)'
    BY DEF RefusedAreOut
  <2>1. call'[c] = call[c]
    OBVIOUS
  <2> QED
    BY <2>1 DEF IInv, RefusedAreOut, Admissible, CanSend, Generating
<1> QED
  BY <1>2, <1>3, <1>4 DEF IInv

(* Loading, polling, and what comes of it. *)
LEMMA FetchesGo ==
  ASSUME IInv, Load \/ Reload \/ Poll \/ GetDialogue \/ ReceiveDialogue
  PROVE  IInv'
<1>1. /\ query \in Queries /\ server \in Dialogue /\ disturbed \in 0..Disturbances
  BY DEF IInv, Typed
<1>2. UNCHANGED <<server, admitted, composer, mutation, call>>
  BY DEF Load, Reload, Poll, GetDialogue, ReceiveDialogue
<1>3. disturbed' \in 0..Disturbances
  BY <1>1, BoundAssumption DEF Load, Reload, Poll, GetDialogue, ReceiveDialogue, Disturb
<1>4. /\ query' \in Queries
      /\ \/ /\ query'.data = query.data
            /\ query'.fetch = "answered" =>
                 \/ query.fetch = "answered" /\ query'.answer = query.answer
                 \/ query'.answer = server
         \/ /\ query.fetch = "answered" /\ query'.data = query.answer
            /\ query'.fetch = "none"
  <2>1. CASE Load \/ Reload \/ Poll
    <3>1. {} \in SUBSET Call
      OBVIOUS
    <3>2. CASE Reload
      BY <1>1, <3>1, <3>2, QueryFields DEF Reload
    <3> QED
      BY <1>1, <2>1, <3>2, QueryFields DEF Load, Poll
  <2>2. CASE GetDialogue
    BY <1>1, <2>2, AnswerFields DEF GetDialogue
  <2>3. CASE ReceiveDialogue
    BY <1>1, <2>3, QueryFields DEF ReceiveDialogue
  <2> QED
    BY <2>1, <2>2, <2>3
<1>5. Typed'
  BY <1>2, <1>3, <1>4 DEF IInv, Typed, composer
<1> QED
  BY <1>2, <1>4, <1>5, PageGoes

(* Writing and attaching. *)
LEMMA ComposerGoes ==
  ASSUME IInv,
         \/ \E q \in Question : Write(q)
         \/ \E files \in SUBSET File : Attach(files)
         \/ \E f \in File : Uploaded(f) \/ GetAttachment(f) \/ Detach(f)
         \/ UploadFails
  PROVE  IInv'
<1>1. UNCHANGED <<server, admitted, query, mutation, call, disturbed>>
  BY DEF Write, Attach, Uploaded, GetAttachment, Detach, UploadFails
<1>2. /\ message' \in Question \cup {NoQuestion}
      /\ attached' \in SUBSET File /\ extracted' \in SUBSET File
      /\ upload' \in [base : SUBSET File, files : SUBSET File]
  <2> USE DEF IInv, Typed, NoUpload
  <2>1. ASSUME NEW q \in Question, Write(q) PROVE <1>2!:
    BY <2>1 DEF Write
  <2>2. ASSUME NEW files \in SUBSET File, Attach(files) PROVE <1>2!:
    BY <2>2 DEF Attach
  <2>3. ASSUME NEW f \in File, Uploaded(f) PROVE <1>2!:
    BY <2>3 DEF Uploaded
  <2>4. ASSUME NEW f \in File, GetAttachment(f) \/ Detach(f) PROVE <1>2!:
    BY <2>4 DEF GetAttachment, Detach
  <2>5. CASE UploadFails
    BY <2>5 DEF UploadFails
  <2> QED
    BY <2>1, <2>2, <2>3, <2>4, <2>5
<1>3. Typed'
  BY <1>1, <1>2 DEF IInv, Typed
<1> QED
  BY <1>1, <1>3, PageGoes

(* A call is sent with the revision the page shows. *)
LEMMA BeginGoes ==
  ASSUME IInv, NEW body \in Body, Begin(body), body.revision <= server.revision,
         UNCHANGED <<server, admitted, query, composer>>
  PROVE  IInv'
<1> DEFINE c == CHOOSE c \in Call : call[c].step = "free"
<1>1. c \in Call /\ call' = [call EXCEPT ![c] = Under("sent", body)]
  <2>1. \E d \in Call : call[d].step = "free"
    BY BoundAssumption DEF Begin
  <2> QED
    BY <2>1 DEF Begin
<1>2. mutation' \in Mutations
  <2>1. CASE body.kind = "send"
    <3>1. mutation' = [show |-> "pending", of |-> c]
      BY <2>1 DEF Begin
    <3> QED
      BY <1>1, <3>1 DEF Mutations
  <2>2. CASE body.kind # "send"
    BY <2>2 DEF Begin, IInv, Typed
  <2> QED
    BY <2>1, <2>2
<1>3. disturbed' \in 0..Disturbances
  BY BoundAssumption DEF IInv, Typed, Begin, Disturb
<1> HIDE DEF c
<1>4. Under("sent", body) \in Calls
  BY DEF Under, Calls
<1>5. /\ call' \in [Call -> Calls] /\ call'[c] = Under("sent", body)
      /\ \A d \in Call \ {c} : call'[d] = call[d]
  BY <1>1, <1>4, CallUpdate DEF IInv
<1>6. Typed'
  BY <1>2, <1>3, <1>5 DEF IInv, Typed, composer
<1>7. body.revision < MaxRevision
  BY DEF Begin
<1> QED
  BY <1>5, <1>6, <1>7, PageGoes DEF Under

(* The question of the composer, and a failed turn. *)
LEMMA SubmissionsGo ==
  ASSUME IInv, Submit \/ \E t \in 1..MaxTurns : Retry(t)
  PROVE  IInv'
<1>1. Shown => query.data.revision \in Nat /\ query.data.revision <= server.revision
  BY RevisionFacts DEF IInv, Lags, Shown
<1>2. CASE Submit
  <2> DEFINE body == [kind |-> "send", question |-> message, files |-> attached,
                      revision |-> query.data.revision]
  <2>1. Begin(body) /\ body.revision < MaxRevision /\ Shown
        /\ UNCHANGED <<server, admitted, query, composer>>
    BY <1>2 DEF Submit, Begin, Unlocked
  <2>2. query.data.revision \in 0..MaxRevision
    BY <1>1, <2>1, BoundAssumption
  <2>3. body \in Body
    BY <2>2 DEF IInv, Typed, Body
  <2>4. body.revision <= server.revision
    BY <1>1, <2>1
  <2> HIDE DEF body
  <2> QED
    BY <2>1, <2>3, <2>4, BeginGoes
<1>3. ASSUME NEW t \in 1..MaxTurns, Retry(t) PROVE IInv'
  <2> DEFINE body == [kind |-> "retry", turn |-> t, revision |-> query.data.revision]
  <2>1. Begin(body) /\ body.revision < MaxRevision /\ Shown
        /\ UNCHANGED <<server, admitted, query, composer>>
    BY <1>3 DEF Retry, Begin
  <2>2. query.data.revision \in 0..MaxRevision
    BY <1>1, <2>1, BoundAssumption
  <2>3. body \in Body
    BY <2>2 DEF Body
  <2>4. body.revision <= server.revision
    BY <1>1, <2>1
  <2> HIDE DEF body
  <2> QED
    BY <2>1, <2>3, <2>4, BeginGoes
<1> QED
  BY <1>2, <1>3
-----------------------------------------------------------------------------
(* The service. *)

(* A later revision lets no call in that was refused before. *)
LEMMA ServerGoes ==
  ASSUME IInv, Typed', Bounded', TurnsAreAdmitted',
         server'.revision = server.revision + 1, query' = query,
         \A b \in admitted' : b \in admitted \/ Admissible(b),
         \A c \in Call :
           \/ call'[c] = call[c]
           \/ /\ call'[c].step = "accepted" /\ call[c].step # "free"
              /\ call'[c].body = call[c].body
  PROVE  IInv'
<1>1. server.revision \in Nat
      /\ (Q!Loaded(query) => query.data.revision \in Nat)
      /\ \A c \in Call : call[c].step # "free" => call[c].body.revision \in Nat
  BY RevisionFacts, BoundAssumption
<1>2. query.answer # NoData => query.answer.revision \in Nat
  <2>1. query.answer # NoData => query.answer \in Dialogue
    BY DEF IInv, Typed, Queries
  <2> QED
    BY <2>1, BoundAssumption DEF Dialogue
<1>3. \A c \in Call : call'[c].step # "free" =>
        call[c].step # "free" /\ call'[c].body = call[c].body
  OBVIOUS
<1>4. Lags'
  BY <1>1, <1>2, <1>3 DEF IInv, Lags, Q!Loaded
<1>5. RefusedAreOut'
  <2> SUFFICES ASSUME NEW c \in Call, call'[c].step \in {"refused", "blocked"}
               PROVE  call'[c].body \notin admitted' /\ ~Admissible(call[c].body)'
    BY DEF RefusedAreOut
  <2>1. call'[c] = call[c] /\ call[c].step \in {"refused", "blocked"}
    OBVIOUS
  <2>2. call[c].body \notin admitted /\ ~Admissible(call[c].body)
    BY <2>1 DEF IInv, RefusedAreOut
  <2>3. call[c].body.revision <= server.revision
    BY <2>1 DEF IInv, Lags
  <2>4. call'[c].body.revision # server'.revision
    BY <1>1, <2>1, <2>3
  <2> QED
    BY <2>1, <2>2, <2>4 DEF Admissible
<1> QED
  BY <1>4, <1>5 DEF IInv

(* What a change of the turns leaves of the dialogue. *)
LEMMA ServerChanges ==
  ASSUME IInv, NEW turns \in Turns, Changed(turns),
         server.revision + 1 + Cardinality(GeneratingTurns(turns)) <= MaxRevision + MaxTurns
  PROVE  /\ server' \in Dialogue /\ server'.turns = turns
         /\ server'.revision = server.revision + 1 /\ Bounded'
<1>1. server \in Dialogue
  BY DEF IInv, Typed
<1>2. server' = [revision |-> server.revision + 1, closed |-> server.closed, turns |-> turns]
  BY <1>1 DEF Changed, Dialogue
<1>3. server.revision \in Nat /\ Cardinality(GeneratingTurns(turns)) \in Nat
  BY RevisionFacts, TurnsFacts, BoundAssumption
<1>4. server.revision + 1 \in 0..(MaxRevision + MaxTurns)
  BY <1>3, BoundAssumption
<1>5. server' \in Dialogue
  BY <1>1, <1>2, <1>4 DEF Dialogue, Turns
<1> QED
  BY <1>2, <1>5 DEF Bounded

(* A question is asked, of this page or of another one. *)
LEMMA QuestionAsked ==
  ASSUME IInv, server.revision < MaxRevision, Len(server.turns) < MaxTurns,
         NEW question \in Question \cup {NoQuestion}, NEW files \in SUBSET File,
         NEW mine \in BOOLEAN,
         Changed(Asked(server.turns, question, files, mine)),
         admitted \subseteq admitted',
         mine => [kind |-> "send", question |-> question, files |-> files,
                  revision |-> server.revision] \in admitted'
  PROVE  /\ server' \in Dialogue /\ server'.revision = server.revision + 1
         /\ Bounded' /\ TurnsAreAdmitted'
<1> DEFINE turn == [question |-> question, files |-> files, asked |-> server.revision,
                    mine |-> mine, state |-> "generating"]
           turns == Append(server.turns, turn)
<1>1. server.turns \in Turns /\ server.revision \in Nat
  BY RevisionFacts DEF IInv, Typed, Dialogue, Turns
<1>2. turn \in Turn
  BY <1>1, BoundAssumption DEF Turn, TurnState
<1>3. SentAs(turn) = [kind |-> "send", question |-> question, files |-> files,
                      revision |-> server.revision] /\ turn.mine = mine
  BY DEF SentAs
<1>4. Changed(turns)
  BY DEF Asked
<1> HIDE DEF turn
<1>5. /\ turns \in Turns
      /\ \A t \in DOMAIN turns :
           \/ t \in DOMAIN server.turns /\ turns[t] = server.turns[t]
           \/ turns[t] = turn
  BY <1>1, <1>2, TurnAppended
<1> HIDE DEF turns
<1>6. Cardinality(GeneratingTurns(turns)) \in 0..MaxTurns
  BY <1>5, TurnsFacts
<1>7. /\ server' \in Dialogue /\ server'.turns = turns
      /\ server'.revision = server.revision + 1 /\ Bounded'
  BY <1>1, <1>4, <1>5, <1>6, ServerChanges, BoundAssumption
<1>8. TurnsAreAdmitted'
  BY <1>3, <1>5, <1>7 DEF IInv, TurnsAreAdmitted
<1> QED
  BY <1>7, <1>8

(* A turn changes its state, as long as revisions are left. *)
LEMMA StateChanged ==
  ASSUME IInv, NEW t, NEW state \in TurnState,
         Changed([server.turns EXCEPT ![t].state = state]),
         \/ server.revision < MaxRevision
         \/ /\ t \in DOMAIN server.turns /\ server.turns[t].state = "generating"
            /\ state # "generating",
         admitted \subseteq admitted'
  PROVE  /\ server' \in Dialogue /\ server'.revision = server.revision + 1
         /\ Bounded' /\ TurnsAreAdmitted'
<1> DEFINE turns == InState(server.turns, t, state)
<1>1. server.turns \in Turns /\ server.revision \in Nat
  BY RevisionFacts DEF IInv, Typed, Dialogue, Turns
<1>2. /\ turns \in Turns /\ DOMAIN turns = DOMAIN server.turns
      /\ \A u \in DOMAIN server.turns :
           /\ SentAs(turns[u]) = SentAs(server.turns[u])
           /\ turns[u].mine => server.turns[u].mine
           /\ u # t => turns[u] = server.turns[u]
           /\ u = t => turns[u].state = state
  BY <1>1, TurnChanged
<1>3. Changed(turns)
  BY DEF InState
<1> HIDE DEF turns
<1>4. /\ Cardinality(GeneratingTurns(turns)) \in 0..MaxTurns
      /\ Cardinality(GeneratingTurns(server.turns)) \in 0..MaxTurns
  BY <1>1, <1>2, TurnsFacts
<1>5. server.revision + 1 + Cardinality(GeneratingTurns(turns)) <= MaxRevision + MaxTurns
  <2>1. CASE server.revision < MaxRevision
    BY <1>1, <1>4, <2>1, BoundAssumption
  <2>2. CASE /\ t \in DOMAIN server.turns /\ server.turns[t].state = "generating"
             /\ state # "generating"
    <3>1. Cardinality(GeneratingTurns(turns)) + 1
            = Cardinality(GeneratingTurns(server.turns))
      BY <1>1, <1>2, <2>2, TurnEnds
    <3> QED
      BY <1>1, <1>4, <3>1, BoundAssumption DEF IInv, Bounded
  <2> QED
    BY <2>1, <2>2
<1>6. /\ server' \in Dialogue /\ server'.turns = turns
      /\ server'.revision = server.revision + 1 /\ Bounded'
  BY <1>2, <1>3, <1>5, ServerChanges
<1>7. TurnsAreAdmitted'
  BY <1>2, <1>6 DEF IInv, TurnsAreAdmitted
<1> QED
  BY <1>6, <1>7

(* The service answers a call. *)
LEMMA AdmitGoes ==
  ASSUME IInv, NEW c \in Call, Admit(c)
  PROVE  IInv'
<1> DEFINE b == call[c].body
<1>1. /\ call[c].step = "sent" /\ b \in Body /\ b.revision \in 0..MaxRevision
      /\ b.revision <= server.revision /\ b.revision < MaxRevision
      /\ server.revision \in Nat /\ server \in Dialogue /\ admitted \in SUBSET Body
  BY RevisionFacts DEF Admit, IInv, Lags, Typed
<1>2. UNCHANGED <<query, composer, mutation, disturbed>>
  BY DEF Admit
<1>3. CASE /\ b \in admitted
           /\ call' = [call EXCEPT ![c].step = "accepted"]
           /\ UNCHANGED <<server, admitted>>
  <2>1. /\ call' \in [Call -> Calls]
        /\ call'[c].step = "accepted" /\ call'[c].body = call[c].body
        /\ \A d \in Call \ {c} : call'[d] = call[d]
    BY <1>1, <1>3, CallGoesOn DEF IInv
  <2>2. Typed'
    BY <1>2, <1>3, <2>1 DEF IInv, Typed, composer
  <2> QED
    BY <1>1, <1>2, <1>3, <2>1, <2>2, PageGoes
<1>4. CASE /\ b \notin admitted /\ Admissible(b)
           /\ call' = [call EXCEPT ![c].step = "accepted"]
           /\ admitted' = admitted \cup {b}
           /\ Changed(IF b.kind = "send"
                      THEN Asked(server.turns, b.question, b.files, TRUE)
                      ELSE [server.turns EXCEPT ![b.turn].state = "generating"])
  <2>1. /\ call' \in [Call -> Calls]
        /\ call'[c].step = "accepted" /\ call'[c].body = call[c].body
        /\ \A d \in Call \ {c} : call'[d] = call[d]
    BY <1>1, <1>4, CallGoesOn DEF IInv
  <2>2. b.revision = server.revision /\ server.revision < MaxRevision
    BY <1>1, <1>4 DEF Admissible
  <2>3. /\ server' \in Dialogue /\ server'.revision = server.revision + 1
        /\ Bounded' /\ TurnsAreAdmitted'
    <3>1. CASE b.kind = "send"
      <4>1. /\ b.question \in Question \cup {NoQuestion} /\ b.files \in SUBSET File
            /\ b = [kind |-> "send", question |-> b.question, files |-> b.files,
                    revision |-> b.revision]
        BY <1>1, <3>1 DEF Body
      <4>2. Changed(Asked(server.turns, b.question, b.files, TRUE))
        BY <1>4, <3>1
      <4>3. Len(server.turns) < MaxTurns
        BY <1>4, <3>1 DEF Admissible
      <4>4. [kind |-> "send", question |-> b.question, files |-> b.files,
             revision |-> server.revision] \in admitted'
        BY <1>4, <2>2, <4>1
      <4> HIDE DEF b
      <4> QED
        BY <1>4, <2>2, <4>1, <4>2, <4>3, <4>4, QuestionAsked
    <3>2. CASE b.kind # "send"
      <4>1. Changed([server.turns EXCEPT ![b.turn].state = "generating"])
        BY <1>4, <3>2
      <4> HIDE DEF b
      <4> QED
        BY <1>4, <2>2, <4>1, StateChanged DEF TurnState
    <3> QED
      BY <3>1, <3>2
  <2>4. Typed'
    BY <1>1, <1>2, <1>4, <2>1, <2>3 DEF IInv, Typed, composer
  <2> QED
    BY <1>1, <1>2, <1>4, <2>1, <2>3, <2>4, ServerGoes
<1>5. ASSUME NEW step \in {"refused", "blocked"}, b \notin admitted, ~Admissible(b),
             call' = [call EXCEPT ![c].step = step], UNCHANGED <<server, admitted>>
      PROVE  IInv'
  <2>1. /\ call' \in [Call -> Calls]
        /\ call'[c].step = step /\ call'[c].body = call[c].body
        /\ \A d \in Call \ {c} : call'[d] = call[d]
    BY <1>1, <1>5, CallGoesOn DEF IInv
  <2>2. Typed'
    BY <1>2, <1>5, <2>1 DEF IInv, Typed, composer
  <2>3. Bounded' /\ Lags' /\ TurnsAreAdmitted'
    BY <1>1, <1>2, <1>5, <2>1 DEF IInv, Bounded, Lags, TurnsAreAdmitted, Q!Loaded
  <2>4. RefusedAreOut'
    <3> SUFFICES ASSUME NEW d \in Call, call'[d].step \in {"refused", "blocked"}
                 PROVE  call'[d].body \notin admitted' /\ ~Admissible(call[d].body)'
      BY DEF RefusedAreOut
    <3>1. call[d].body \notin admitted /\ ~Admissible(call[d].body)
          /\ call'[d].body = call[d].body
      BY <1>5, <2>1 DEF IInv, RefusedAreOut
    <3> QED
      BY <1>5, <3>1 DEF Admissible, CanSend, Generating
  <2> QED
    BY <2>2, <2>3, <2>4 DEF IInv
<1> QED
  BY <1>3, <1>4, <1>5 DEF Admit, Key

(* An answer of the model, and others who ask and decide. *)
LEMMA OthersGo ==
  ASSUME IInv,
         \/ \E t \in DOMAIN server.turns : Generate(t)
         \/ \E q \in Question : AskElsewhere(q)
         \/ DecideElsewhere
  PROVE  IInv'
<1>1. /\ server.revision \in Nat /\ server \in Dialogue /\ disturbed \in 0..Disturbances
  BY RevisionFacts DEF IInv, Typed
<1>2. UNCHANGED <<admitted, query, composer, mutation, call>>
  BY DEF Generate, AskElsewhere, DecideElsewhere
<1>3. disturbed' \in 0..Disturbances
  <2>1. disturbed' = disturbed \/ Disturb
    BY DEF Generate, AskElsewhere, DecideElsewhere
  <2> QED
    BY <1>1, <2>1, BoundAssumption DEF Disturb
<1>4. /\ server' \in Dialogue /\ server'.revision = server.revision + 1
      /\ Bounded' /\ TurnsAreAdmitted'
  <2>1. ASSUME NEW t \in DOMAIN server.turns, Generate(t) PROVE <1>4!:
    <3>1. PICK result \in {"failed", "ended"} :
            Changed([server.turns EXCEPT ![t].state = result])
      BY <2>1 DEF Generate
    <3>2. server.turns[t].state = "generating"
      BY <2>1 DEF Generate
    <3> QED
      BY <1>2, <3>1, <3>2, StateChanged DEF TurnState
  <2>2. ASSUME NEW q \in Question, AskElsewhere(q) PROVE <1>4!:
    <3>1. /\ Changed(Asked(server.turns, q, {}, FALSE))
          /\ Len(server.turns) < MaxTurns /\ server.revision < MaxRevision
      BY <2>2 DEF AskElsewhere
    <3> QED
      BY <1>2, <3>1, QuestionAsked
  <2>3. CASE DecideElsewhere
    <3>1. /\ server' = [revision |-> server.revision + 1, closed |-> ~server.closed,
                        turns |-> server.turns]
          /\ server.revision < MaxRevision
      BY <1>1, <2>3 DEF DecideElsewhere, Dialogue
    <3>2. server.turns \in Turns
      BY <1>1 DEF Dialogue, Turns
    <3>3. Cardinality(GeneratingTurns(server.turns)) \in 0..MaxTurns
      BY <3>2, TurnsFacts
    <3>4. server.revision + 1 \in 0..(MaxRevision + MaxTurns)
      BY <1>1, <3>1, BoundAssumption
    <3>5. server' \in Dialogue
      BY <1>1, <3>1, <3>4 DEF Dialogue
    <3>6. Bounded'
      BY <1>1, <3>1, <3>3, BoundAssumption DEF Bounded
    <3>7. TurnsAreAdmitted'
      BY <1>2, <3>1 DEF IInv, TurnsAreAdmitted
    <3> QED
      BY <3>1, <3>5, <3>6, <3>7
  <2> QED
    BY <2>1, <2>2, <2>3
<1>5. Typed'
  BY <1>2, <1>3, <1>4 DEF IInv, Typed, composer
<1> QED
  BY <1>2, <1>4, <1>5, ServerGoes
-----------------------------------------------------------------------------
(* send() and retry() go on. *)

(* What shows an outcome keeps its type. *)
LEMMA ShowTypes ==
  ASSUME Typed, NEW c \in Call, NEW outcome \in {"success", "conflict", "failed"},
         Show(c, outcome)
  PROVE  mutation' \in Mutations
BY DEF Typed, Show, Mutations

(* A call that has been answered asks nothing more. *)
LEMMA CallsEnd ==
  ASSUME IInv, NEW c \in Call, Succeed(c) \/ Refused(c) \/ Failed(c) \/ Return(c)
  PROVE  IInv'
<1>1. query \in Queries /\ disturbed \in 0..Disturbances /\ {c} \in SUBSET Call
      /\ attached \in SUBSET File /\ extracted \in SUBSET File
  BY DEF IInv, Typed
<1>2. UNCHANGED <<server, admitted>>
  BY DEF Succeed, Refused, Failed, Return
<1>3. mutation' \in Mutations
  BY ShowTypes DEF Succeed, Refused, Failed, Return, IInv, Typed
<1>4. disturbed' \in 0..Disturbances
  <2>1. disturbed' = disturbed \/ Disturb
    BY DEF Succeed, Refused, Failed, Return
  <2> QED
    BY <1>1, <2>1, BoundAssumption DEF Disturb
<1>5. /\ message' \in Question \cup {NoQuestion}
      /\ attached' \in SUBSET File /\ extracted' \in SUBSET File /\ upload' = upload
  BY DEF Succeed, Refused, Failed, Return, IInv, Typed, composer
<1>6. query' = query \/ query' = Q!Refetch(query, {c})
  BY DEF Succeed, Refused, Failed, Return
<1>7. /\ query' \in Queries /\ query'.data = query.data
      /\ query'.fetch = "answered" => query.fetch = "answered" /\ query'.answer = query.answer
  BY <1>1, <1>6, QueryFields
<1>8. /\ call' \in [Call -> Calls]
      /\ \A d \in Call \ {c} : call'[d] = call[d]
      /\ \/ call'[c] = Free
         \/ /\ call'[c].step \in {"refreshing", "reloading"} /\ call[c].step # "free"
            /\ call'[c].body = call[c].body
  <2>1. CASE call' = [call EXCEPT ![c] = Free]
    <3>1. Free \in Calls
      BY DEF Calls
    <3> QED
      BY <2>1, <3>1, CallUpdate DEF IInv
  <2>2. ASSUME NEW step \in {"refreshing", "reloading"}, call[c].step # "free",
               call' = [call EXCEPT ![c].step = step]
        PROVE  <1>8!:
    BY <2>2, CallGoesOn DEF IInv
  <2>3. CASE Succeed(c)
    BY <2>2, <2>3 DEF Succeed
  <2>4. CASE Refused(c)
    BY <2>1, <2>2, <2>4 DEF Refused
  <2>5. CASE Failed(c) \/ Return(c)
    BY <2>1, <2>5 DEF Failed, Return
  <2> QED
    BY <2>3, <2>4, <2>5
<1>9. Typed'
  BY <1>2, <1>3, <1>4, <1>5, <1>7, <1>8 DEF IInv, Typed
<1>10. \A d \in Call : \/ call'[d] = call[d]
                       \/ call'[d].step = "free"
                       \/ /\ call'[d].step \notin {"refused", "blocked"}
                          /\ call'[d].body.revision <= server.revision
                          /\ call'[d].body.revision < MaxRevision
  BY <1>8 DEF IInv, Lags, Free
<1> QED
  BY <1>2, <1>7, <1>9, <1>10, PageGoes
-----------------------------------------------------------------------------
(* Every step. *)

(* The page starts without an answer, a call or a question of its own. *)
LEMMA InitSound == Init => IInv
<1> SUFFICES ASSUME Init PROVE IInv
  OBVIOUS
<1>1. PICK turns \in {<<>>, <<Earlier>>} :
        server = [revision |-> 0, closed |-> FALSE, turns |-> turns]
  BY DEF Init
<1>2. Earlier \in Turn
  BY BoundAssumption DEF Earlier, Turn, TurnState
<1>3. turns \in Turns /\ \A t \in DOMAIN turns : turns[t] = Earlier
  <2>1. CASE turns = <<>>
    <3>1. turns \in [1..0 -> Turn] /\ DOMAIN turns = {}
      BY <2>1
    <3> QED
      BY <3>1, BoundAssumption DEF Turns
  <2>2. CASE turns = <<Earlier>>
    <3>1. turns \in [1..1 -> Turn] /\ DOMAIN turns = {1} /\ turns[1] = Earlier
      BY <1>2, <2>2
    <3> QED
      BY <3>1, BoundAssumption DEF Turns
  <2> QED
    BY <2>1, <2>2
<1>4. server \in Dialogue
  BY <1>1, <1>3, BoundAssumption DEF Dialogue, Turns
<1>5. query = [data |-> NoData, failed |-> FALSE, fetch |-> "none", answer |-> NoData,
               waiting |-> {}, joined |-> {}]
  BY DEF Init, Q!Empty
<1>6. query \in Queries
  BY <1>5 DEF Queries
<1>7. call \in [Call -> Calls] /\ \A c \in Call : call[c].step = "free"
  BY DEF Init, Calls, Free
<1>8. Typed
  BY <1>4, <1>6, <1>7, BoundAssumption DEF Init, Typed, NoUpload, Mutations
<1>9. Bounded
  <2>1. GeneratingTurns(server.turns) = {}
    BY <1>1, <1>3 DEF GeneratingTurns, Earlier
  <2>2. Cardinality(GeneratingTurns(server.turns)) = 0
    BY <2>1, FS_EmptySet
  <2>3. server.revision = 0
    BY <1>1
  <2> QED
    BY <2>2, <2>3, BoundAssumption DEF Bounded
<1>10. Lags /\ RefusedAreOut
  BY <1>5, <1>7 DEF Lags, RefusedAreOut, Q!Loaded
<1>11. TurnsAreAdmitted
  BY <1>1, <1>3 DEF TurnsAreAdmitted, Earlier
<1> QED
  BY <1>8, <1>9, <1>10, <1>11 DEF IInv

(* No step of the page, the service or the network breaks the invariant.   *)
LEMMA StepSound == IInv /\ [Next]_vars => IInv'
<1> SUFFICES ASSUME IInv, [Next]_vars PROVE IInv'
  OBVIOUS
<1>1. CASE Load \/ Reload \/ Poll \/ GetDialogue \/ ReceiveDialogue
  BY <1>1, FetchesGo
<1>2. CASE \/ \E q \in Question : Write(q)
           \/ \E files \in SUBSET File : Attach(files)
           \/ \E f \in File : Uploaded(f) \/ GetAttachment(f) \/ Detach(f)
           \/ UploadFails
  BY <1>2, ComposerGoes
<1>3. CASE Submit \/ \E t \in 1..MaxTurns : Retry(t)
  BY <1>3, SubmissionsGo
<1>4. ASSUME NEW c \in Call, Network(c) \/ Return(c) PROVE IInv'
  BY <1>4, AdmitGoes, CallsEnd DEF Network
<1>5. CASE \/ \E t \in DOMAIN server.turns : Generate(t)
           \/ \E q \in Question : AskElsewhere(q)
           \/ DecideElsewhere
  BY <1>5, OthersGo
<1>6. CASE UNCHANGED vars
  BY <1>6 DEF vars, composer, IInv, Typed, Bounded, Lags, TurnsAreAdmitted, RefusedAreOut,
              Admissible, CanSend, Generating, Q!Loaded
<1> QED
  BY <1>1, <1>2, <1>3, <1>4, <1>5, <1>6 DEF Next

(* The invariant holds in every state the panel can reach. *)
THEOREM Invariance == Spec => []IInv
BY InitSound, StepSound, PTL DEF Spec

(* A question the service refused as asked of an old dialogue, or while it *)
(* could not be asked, has not been asked by this page under the same key, *)
(* whatever was lost, repeated or asked by others.                         *)
THEOREM RefusedQuestionsWereNotAsked == Spec => []RefusedIsNotAsked
<1>1. IInv => RefusedIsNotAsked
  <2> SUFFICES ASSUME IInv, NEW c \in Call, call[c].step \in {"refused", "blocked"},
                      call[c].body.kind = "send", NEW t \in DOMAIN server.turns,
                      server.turns[t].mine,
                      server.turns[t].asked = call[c].body.revision,
                      server.turns[t].question = call[c].body.question,
                      server.turns[t].files = call[c].body.files
               PROVE  FALSE
    BY TypedIsTypeOK DEF IInv, RefusedIsNotAsked
  <2>1. SentAs(server.turns[t]) \in admitted
    BY DEF IInv, TurnsAreAdmitted
  <2>2. call[c].body \in Body
    BY RevisionFacts
  <2>3. SentAs(server.turns[t]) = call[c].body
    BY <2>2 DEF SentAs, Body
  <2> QED
    BY <2>1, <2>3 DEF IInv, RefusedAreOut
<1> QED
  BY <1>1, Invariance, PTL
=============================================================================
