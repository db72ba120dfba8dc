# Verification of the document review platform

TLA+ models of the platform. On the server: the execution of review runs, the calls to the
model, the dialogues about findings, the cycle of a document's versions, the runtimes and the
storage quota of guests, and the row locks of the transactions. In the web client: the form of a
decision, the panel of a dialogue, the form that starts a review with the pages that watch the
run, and the report page with the cycle. TLC checks small instances of them; TLAPS proves their
safety properties for every number of runs, processes, calls, guests, documents and findings.

Sources are named relative to `src/`; the abbreviations below are used throughout.

| Short | File |
| --- | --- |
| execution.py | `packages/review-core/src/review_core/application/execution.py` |
| model_retry.py | `packages/review-core/src/review_core/application/model_retry.py` |
| platform.py | `packages/review-runtime/src/review_runtime/postgres/platform.py` |
| ml_runtime.py | `packages/review-runtime/src/review_runtime/ml_runtime.py` |
| document_cycles.py | `packages/review-runtime/src/review_runtime/postgres/document_cycles.py` |
| guest_contexts.py, guest_storage.py | `packages/review-runtime/src/review_runtime/security/` |
| upload_reservations.py | `packages/review-runtime/src/review_runtime/postgres/` |
| cycle_state.py, review_completion.py, review_cycle.py | `packages/review-core/src/review_core/application/` |
| `*.tsx`, `*.ts` | `apps/web/src/`, in `api/`, `app/` and `features/` |

## 1. The system

A person uploads a document, starts a review run, reads its report, and discusses and decides
each finding. The API process executes runs and dialogue turns itself, in tasks of one event
loop; there is no queue and no worker in the deployed composition. Everything durable is in
PostgreSQL (READ COMMITTED, one connection and one transaction per operation) and in a
directory of artifacts. A session advisory lock per deployment keeps a second API process out,
as long as the session lives; a starting process ends what its predecessor left unfinished.

| Component | State | Operations | Interacts with | Hard behaviour | What makes it correct |
| --- | --- | --- | --- | --- | --- |
| Execution of runs (execution.py, `PostgresReviewExecutionStorage`) | rows of run, execution, work item, report; the coordinator's operations, waiters, task group | submit, claim, prepare, publish, fail, read terminal, cancel, start-up, shutdown | model calls, document cycles (after publishing), artifact store | cancellation or takeover between any two transactions, unanswered COMMIT, failing finalization, grace period | the rows agree, one report, an answer stays true, an end is final, waiters are released, a claimed run ends |
| Model calls (model_retry.py, ml_runtime.py) | rows of model attempts, permits of a semaphore, position in two loops | begin, call, record, retry, regenerate | execution, profile availability | deadline or shutdown at any await, cancellation between a read and an insert | which call follows which, permits conserved, an operation ends |
| Dialogue, with a model (platform.py, ml_runtime.py) | rows of dialogue, turn, attempt, decision; dialogue task group | message, retry, claim, publish, fail, decide, reconcile | model calls | decision during a generation, retry during another, restart | three copies of a state agree, ends stay, an end leaves a closed dialogue closed |
| Dialogue and runs without a model | the same rows | the same in one request | - | crash between two transactions | planned |
| Document cycles (document_cycles.py, cycle_state.py, review_completion.py) | cycle of each run with its entries, revision, completion | compare, link, resolve, complete | runs, decisions, the report page | lazy comparison, sticky failure, two kinds of revision | one entry per finding, a completion lapses, the page and the service agree on what is left |
| Decision form (DecisionForm.tsx, use-put-decision.ts) | draft, notice, mutation, queries of states and cycle | write, choose, save, reset, retry, reopen | decisions, cycle | saves that overlap, a refetch replaced by another, others who decide | an untouched form shows the decision in force, no unseen decision is replaced, what is shown never falls back |
| Dialogue panel (TurnComposer.tsx, use-create-turn.ts, polling.ts) | question, attachments, query of the dialogue, calls | write, attach, ask, retry, poll | dialogue of the service | answers lost after they took effect, others who ask and decide | no question asked twice, an answer is seen |
| New review and run page (NewReviewPage.tsx, use-review-run.ts, CancelRunControl.tsx) | form, uploads, query of the document and of every run, calls | upload, attach, start, watch, cancel | uploads, admission, cancellation | double clicks, answers after the form was left, polls under way at a cancellation | one run per intent, the end is seen and stays |
| Guest contexts (guest_contexts.py) | entry per live guest workspace, references, capacity event | use, serve, retire, close | runtimes of execution and dialogue | retiring while a request arrives, lost notifications | references exact, capacity, idle runtimes leave |
| Guest upload quota (guest_storage.py, upload_reservations.py) | reservations with session leases, documents, versions | reserve, persist, release, reclaim | document families, artifact store | lost connection between the two transactions | quota, live reservations stay, versions without gaps |
| Row locks | locks held by open transactions | all of the above | all of the above | circles of waits | few and known pairs of operations can deadlock |
| Artifact store | staged and promoted files | stage, promote, collect | publication, upload | collection during promotion | planned |
| Review profiles | versions and a head | publish, activate | admission | two editors | planned |
| Guest sessions, HTTP API, model routing, engine and validation, skills, PDF, reports, the other pages of the client, CLI, worker prototype, schema | see the components in `PROJECT.json` | | | | pure, sequential or not deployed: not modelled, with the reason in `PROJECT.json` |

## 2. Modules

| Module | Models | Runs |
| --- | --- | --- |
| `RunLifecycle` | the promise: a run is accepted once, worked on, ends once, has a report exactly when completed | as a PROPERTY of `review_runs` |
| `ReviewExecution` | coordinator, storage transactions, cancellation, takeover | `review_runs` |
| `ReviewExecutionProofs` | its theorems | - |
| `ReviewGeneration` | the calls made in the phase "generating" of `ReviewExecution` | `generation_calls` |
| `FindingDialogue` | one dialogue, its turns, attempts and decision | `dialogue_rows`, `dialogue_interrupted` |
| `GuestContexts` | the registry of live guest runtimes | `context_registry` |
| `GuestStorage` | uploads of guests under quota, version and family locks | `storage_quota` |
| `RowLocks`, `MCRowLocks` | the lock order of the transactions; the instance with its symmetry | `run_deadlocks` |
| `ReviewGenerationProofs` | the theorems of `ReviewGeneration` | - |
| `FindingDialogueProofs` | those of `FindingDialogue` and of `RowLocks` | - |
| `GuestProofs` | those of `GuestContexts` and `GuestStorage` | - |
| `QueryCache` | one query of the client's cache, as operators | through the client modules |
| `DecisionForm` | the form of a decision, the service behind it, other people | `decision_saves` |
| `DialoguePanel` | composer, turns and polling, the service behind them, other people | `dialogue_turns` |
| `DecisionFormProofs`, `DialoguePanelProofs` | the theorems of the form and of the panel | - |
| `RunWatch` | the pages that watch and cancel runs | through `NewReview` |
| `NewReview` | the form that starts runs, composed with `RunWatch` | `review_start`, `start_replayed` |
| `NewReviewProofs` | the theorems of both | - |
| `ReviewCycle`, `ReviewCycleProofs` | the cycle of a version: service and report page | `review_cycle` |

The modules meet at named places. `ReviewGeneration` is the inside of one phase of
`ReviewExecution`: an operation there starts prepared and running, and `EndExecution` stands
for the transactions of `ReviewExecution` that end the execution meanwhile. `RowLocks` is the
inside of the transactions that `ReviewExecution` and `FindingDialogue` have as one step (it and
`GuestStorage` give their specifications names of their own, `LocksSpec` and `StorageSpec`, so that
one module can prove things about two);
what the deadlocks it finds do there (one transaction is aborted) is one of their
storage faults. `work` in `GuestContexts` is the number of operations and attempts of one
runtime. `NewReview` EXTENDS `RunWatch`: a start that succeeds opens the page of its run. The
client modules hold the service they talk to, reduced to what an answer tells a page; how it
comes to that answer is the subject of the server modules (`RunWatch` and `ReviewExecution`,
`DialoguePanel` and `FindingDialogue`). All four read through `QueryCache`.

Conventions: an action is one transaction, or what a task does between two awaits. An await is
a place where everything else may happen. In the client an action is one event of the browser
with the continuations of promises that run before the next (`Quiet`). `StorageFaults` says whether
a database call may raise, before or after its commit; in `ReviewExecution` the set `Faulty` says
in which processes. `Disturb` counts what a run allows only so often: lost requests, acts of
other people, calls that overlap. A definition `...Variant` is a plausible mistake that no
action uses; each property is known to fail when the definition it shadows is replaced by it.

### ReviewExecution

`run`, `exec`, `item`, `lease`, `error` and `reports` are columns; `late` says that the clock
of the database has passed `deadline_at`; `doubt` is the set of runs with a COMMIT sent and
not yet settled, whose row locks keep every other transaction of the run waiting (they are
guards on `doubt`). `op[p][r]` is where the coordinator of process `p` is in `_execute()`,
`answer` what `wait()` returns, `group` whether the task group was cancelled. `Admit`, `Claim*`
are the two halves of `submit()` under the admission lock; `SavePrepared`, `Generate`,
`Publish*`, `Reread` the phases; `PhaseRaises`, `Timeout`, `Interrupt` the exceptions;
`FailAnswered`, `FailRefused`, `FinalizationRaises` the handlers of execution.py 271-310.
An exception that leaves the handler of `TimeoutError` is not guarded there and cancels the
task group (`EscapesFrom`), and with it the siblings and the process. `LoseOwnership` is the
loss of the session that holds the advisory lock, which the process does not notice.

anyio runs a blocking call in a thread that is not interrupted: a cancellation is raised
before the thread starts or after it has finished, never inside a transaction, and a result
that arrives after the deadline is still used.

### ReviewGeneration

`phase` is the position in `_generate` (up to three generations), `generate_with_retry` (two
calls each), the concurrency limit and the recording adapter; `attempts` the rows of
model_attempts, each with a `stale` mark when it was inserted after the execution ended.
`begin_model_attempt()` is two steps since it does not lock the row whose state it reads.

### FindingDialogue

`turn`, `attempt`, `active` and `error` are rows of their own; `listed`, `dialogue`, `canSend`
are what the JSON value of the dialogue says of them, and `behind` whether the revision inside
that value lags the column. `Startup` writes the dialogue as `_reconcile_interrupted()` does,
once for every interrupted turn and each time from the value its single SELECT read. There is one
process; two at once are the subject of `ReviewExecution`. `Owned` leaves out that the lease token
of an attempt is compared with the token of the task: an attempt is claimed once, by the task that
draws its token, and no statement writes another one, so that the comparison never decides. A task
that comes too late is stopped by the state of its turn and by `active`.

### GuestContexts, GuestStorage, RowLocks

In `GuestContexts`, `refs`, `work` and `watch` are what the entry of a workspace counts and where
its idle watch is; `outlived` marks a request whose entry has left the registry before it. In
`GuestStorage` the rows of a table are the uploads that wrote them:
`reserved` the reservations, `stored` the documents, and what the service sums over them are
cardinalities, for the size of every upload is one. Every guest begins with one document, so that
the guests are no more than `Total`. The free space of the disk is a refusal that may always
happen. In `RowLocks` a row may be
awaited for ever: the code sets neither lock nor statement timeouts. A circle of waits is broken
by the database, which aborts one transaction in it (`Abort`).

### QueryCache

A query keeps its last data while it is fetched again and has one live fetch at most.
`invalidateQueries` and `refetchQueries` replace the live fetch of a query with data and join
that of a query without; a fetch that was cancelled never reaches the cache. `waiting` are the
callers that began the live fetch and `joined` those that came to it. When another fetch replaces
it, whoever had begun it awaits the new one in its place, and whoever had only joined is let go.
This is what the client code relies on in TanStack Query 5.102.8 (`apps/web/package.json`), which is
not under `src/`; the generated client (Orval) is taken to pass on the headers it is given.

### DecisionForm

`server` is the decision of a finding in the database, `states` the query of the states,
`cycle` the decision carried over from the previous version, `slow` the saves that also wait for
the refetches of cycle and dialogue, which `Replaced` and `Ended` let be begun and end together or
one by one. `form` is the React state of DecisionForm.tsx, `mutation` that of usePutDecision, which
shows the last save only. `Reopen` is the remount with another key (FindingPage.tsx); what was sent
before it goes on. `Return` is what submit() does after save(). Of two saves that are let go by the
same fetch either may go on first (`SavedIsStored`, below, is what this breaks). `Fill` is the effect that
fills an untouched form: React runs it when the decision of the page is another one, and a refetch
that brings the same decision leaves the object as it was.

### DialoguePanel

`server` is the dialogue in the database, with turns that are generating, failed or ended;
`admitted` the idempotency keys. The key of a call is its body, as requestIntent() draws it from
method, path and body. `upload.base` is the list attach() closed over. The question and its files
are what the composer holds; `Return` empties it. `Generate` is whatever ends a turn; nothing says
that it ever does, for a restart may leave a turn generating in the shown copy
(`dialogue_interrupted`).

### NewReview, RunWatch

upload() reads the text of a document before it answers (platform.py 1468-1546), so that an upload
is answered with a document that can be read or cannot; the state "pending" and the polling for its
end never occur with this service and are left out. `opening` is the intent that useCreateReviewRun
draws when the form is mounted. A document copied into the form (`form.state`) is the one its query
saw last. `upload` holds uploads under way with the field they came from: a closed panel takes the
field away and not the upload. `query[r]` is polled while page `r` is shown; the last observer that
leaves gives up its fetch (`GoTo`). `ReplayIsNotRefused` is what `start_replayed` refutes. Choosing
the model the form has is a stutter; an upload takes any unused document, which one makes no
difference.

### ReviewCycle

`cycle` is the row of review_cycles, a function from issues to entries; `decision` the decisions
of the findings. `Compared` is build_cycle() of any one-to-one matching and any lineage of the
baseline. `WithLink`, `WithResolution`, `WithCompletion` are the three revisions, `Settled` is
completion_state(), `NextStep` nextStep() of the report page. A completion is the digest of the
state completed; `Projected` compares it with the state now, as GET does, and `Raw` does not, as
the answers to PUT and POST do not. `card` is the state of the cards of ReviewCyclePage.tsx
as they are embedded in the report page (its own page is reached by no route).

## 3. Runs

| Run | Instance | Shows |
| --- | --- | --- |
| review_runs | 1 run, 2 processes, unanswered commits, failing calls in one process, fair | the rows agree; one report; answers and ends are durable; `RunLifecycle` is implemented; waiters are released; a running run is executed; claimed runs end |
| generation_calls | 2 runs, 1 permit, 2 generations, failing records, fair | the order of calls; no second call after a cancellation (`OneLateCall`); permits come back (`TypeOK`); operations end |
| dialogue_rows | 3 turns of 2 attempts, failing calls, fair | the copies agree; ends stay; the end of a turn leaves a closed dialogue closed; claimed attempts end |
| context_registry | 2 requests, 2 guests, room for 1, failing runtimes, fair | references, capacity, retirement (`RegistrySound`); no lost wake-up; idle runtimes leave; closing ends all |
| storage_quota | 3 uploads, 2 guests, 2 keys, quotas 3 and 4, fair | quota, live reservations, nothing counted twice; versions without gaps; uploads end |
| decision_saves | 1 text, 1 verdict, 2 saves that overlap, a carried decision, 1 disturbance, fair | an untouched form shows the decision in force; the revision shown never falls; a decision replaced was shown; a confirmed change is shown, or the page warns |
| dialogue_turns | 1 question, 1 file, 2 calls, 2 turns, 1 disturbance, fair | a refused question was not asked; the end of an answer is seen once the service has it; a question taken is shown |
| review_start | 2 runs, 2 documents, 2 openings, 2 starts, 1 cancellation, 1 disturbance, fair | one run per intent; a readable document; the end of a run is seen and stays; attached material stays |
| review_cycle | 1 finding, 1 older issue, 1 call of the page, 2 verdicts, 1 disturbance | one entry per finding; page and service agree on what is left; a completion lapses; no refusal and no lost call takes an explanation |

Three runs end in a counterexample, each against a document of the repository:

| Run | Instance | Refutes |
| --- | --- | --- |
| dialogue_interrupted | 2 turns of 2 attempts | after a restart a person can go on with the dialogue (`InterruptedIsRetryable`) |
| run_deadlocks | 3 sessions, every operation | no transactions wait for each other in a circle (`NoDeadlock`) |
| start_replayed | 2 runs, 2 documents, 2 starts, 1 opening, 2 disturbances | the repetition of a start that made a run is not refused (`ReplayIsNotRefused`) |

Where a promise of the documents is broken and TLC was given no run for it, the property is in its
module nevertheless, and the disagreements below name it; given to the cfg of the passing run of
that module, it is violated. What is left of such a promise is a property of that run: no second
late call, an end that opens nothing, explanations that outlive a refusal.

Why the bounds are enough: two processes show a takeover, and a third only repeats the second
one's part; the theorems cover siblings and any number of either. Failing calls are given to one
process so that liveness can be stated of the other: one failed `fail()` leaves a run running
until the next restart. Three turns let one be retried, one be generated and one be new. Room
for one runtime among two guests makes every request wait. Every guest begins with one document,
so the quotas of 3 and 4 can be exceeded by one guest and by two together. The second of two
generations is the last, as the third is in the code. A deadlock of row locks needs two
sessions; circles of any length are the matter of a theorem (`OnlyCrossingsCircle`). In the client, two calls are what it takes to
overlap or to repeat; a decision can be changed twice (`MaxRevision`), so that a first and a
later decision are told apart; two documents let one be replaced, or one be read and one
attached; a limit of one attached document is reached and passed. A finding, an older issue and
three revisions are enough to link, to fix, to complete and to reopen; several findings are the
matter of the theorems. `Limited = {FALSE}` in `review_cycle`, for a limited comparison can never
be completed; the theorems cover it.

Bounds of the model only: `MaxAttempts` (retries of a turn are unlimited in the code),
`MaxWork`, the numbers of clients, uploads and sessions, `Disturbances`, `MaxTurns`,
`MaxOpenings`, `MaxRevision` and `MaxDecision`; `MaxGenerations` is 3 in the code and 2 in the runs.

Where TLC is told not to report deadlocks (`GenerationCalls`, `StorageQuota`), every operation or
upload of the instance is over: they happen once.

### Disagreements between the code and its documents

| Property and run | Code | Document |
| --- | --- | --- |
| `NoLateCall` | begin_model_attempt() locks the work item and reads the execution unlocked, cancel_run() does not lock the work item (platform.py 119-148): a call begins for a run whose cancellation has committed | configuration.md 210: "Отмена запрещает начало следующих попыток." |
| `StaysClosed` | a failed turn is retried whatever decision stands; its answer opens the dialogue for messages (platform.py 2573, 2625, 2931) | spec 004 research.md 115: "ответ модели не открывает закрытый человеком диалог" |
| `NoDeadlock`, run_deadlocks | cancel_run() locks run, then execution; claim, preparation, publication and failure lock execution, then run (platform.py 2334, 391-403). A retry locks dialogue, then turn; the end of a turn locks turn, attempt, then dialogue (2509, 2563, 2893, 2925) | spec 004 data-model.md 38: publish and cancel lock the run alike, the transactions of a dialogue lock in one order |
| `SavedIsStored` | a save sent while the refetches of the one before are under way may go on before it; the earlier one then puts its text and time into the form as saved (DecisionForm.tsx 80-82) | spec 006 evidence.md 82: "Исправлены [...] устаревшая отметка сохранения" |
| `DraftIsKept` | a save that returns replaces what was written meanwhile (DecisionForm.tsx 81) | spec 006 data-model.md 16: "draft хранится до успешного сохранения или явного изменения пользователем" |
| `ExplanationIsKept` | after a refusal the person loads again; a reload that fails takes the panel off the page, and the explanation with it (ReviewCyclePage.tsx 39) | ReviewCyclePage.tsx 86: "пояснение сохранено в форме" |
| `InterruptedIsRetryable`, dialogue_interrupted | a restart that interrupts two turns of one dialogue loses the end of the first in the dialogue and leaves the shown revision one behind: every message and retry is refused (platform.py 1144-1188) | research.md R-07: a human retries |
| `ReplayIsNotRefused`, start_replayed | create_run() asks for the availability of the model before it looks the key up (ml_runtime.py 429-442): the repetition of a start that made a run is refused once the model was seen unavailable | openapi.yaml 833: "Same key and body replays the original result" |

Found while modelling, seen in the actions named, and without a property of their own:

- A failing `fail()` after a timeout cancels sibling runs (`EscapesFrom`), recorded as interrupted
  during shutdown (execution.py:284).
- A retry is admitted while another turn generates (`Retry` does not ask), where plan.md of
  spec 004 says that transaction reads the absence of another active turn. The first of the
  two turns to end opens the dialogue while the other still generates.
- `process_interrupted` and `deadline_exceeded` reach public errors (`FailureCode` of both
  modules) whose codes openapi.yaml lists without them (AsyncError, DialogueError).
- A model attempt cut off by the deadline or a shutdown stays `running` (`Interrupt` leaves
  `attempts` alone), where data-model.md lets every attempt succeed or fail.
- A run whose claim was refused is neither owned nor ended; its replay gets an error until a
  restart (`ClaimRefused`).
- The answers to PUT and POST of a cycle hold the stored completion and not the projected one
  (`Raw`): after completing, reopening a fix and confirming it again the page says that the review
  is complete until it loads the cycle anew, where openapi.yaml:635 lets a later change invalidate
  the completion.
- An uncertain match that the analyst denies cannot be settled: unlinking is offered for issues of
  an earlier version only (ReviewCyclePage.tsx:106), and the review can never be completed.
- A sent question takes away the next one in the composer when it returns (`Return` of
  `DialoguePanel`).
- A lost answer to a PUT is followed by a conflict with the person's own decision (`LosePut`);
  the first decision, saved before the states are loaded, can be followed by an older answer
  (`Refetch` joins).
- A refused retry of a turn is passed over in silence (`Refused` of `DialoguePanel`,
  DialoguePanel.tsx:63).
- The key of a start is drawn anew with every opening of the form (`opening`), so that a reload of
  the page makes a second run, where idempotency.ts:15-18 promises one key for one intent.
- The form can exceed the limit of context documents with two uploads (`Fields`, `Attach`); the
  service refuses the start.

### Fairness

Weak fairness of every step of a task: the event loop runs what can run, and a blocking call
returns. The deadline of every operation (`fail_after`) makes the phases end, so fairness is
on a task's steps as a whole and never on the model answering: `ReviewGeneration` lets a
provider be silent for ever. A COMMIT in doubt settles (the server decides when the connection
is gone). The grace period of a shutdown ends, and a stopped process is started again, as
`compose.production.yaml` asks (`restart: unless-stopped`). No fairness is assumed of
clients, except that a request that uses a guest runtime ends, and none of crashes. Termination
is stated of a run claimed by the owner of the deployment: a run that a process without the
deployment claims before it dies waits for the next restart.

In the client, the intervals of polling tick, which they do while the window is visible; the
network answers or loses every request, and promises go on. Strong fairness is on the
steps of a fetch, since a refetch may replace it any number of times: a person who saves again
and again does not for ever outrun the network. With several runs watched (`NewReview`) it is one
strong fairness for the service that answers polls, of whichever run, and one for the page that
receives them. Nobody has to click, to write or to come back.
Nothing is assumed of the end of a generation in `DialoguePanel`: `AnswerIsSeen` begins where the
service has it. `review_cycle` states no liveness.

## 4. Proofs

`ReviewExecutionProofs`, for any sets of runs and processes, with or without faults: the
assumptions are those named in `ReviewExecution`.

| Theorem | Statement |
| --- | --- |
| TypeCorrect | every variable keeps its type |
| RowsAlwaysAgree | run, execution and work item agree |
| OneReport | a report exactly when completed |
| AnswersAreDurable | an answer given stays the state of the run |
| EndsArePermanent | no step changes an ended run |
| Implementation | `ReviewExecution` implements `RunLifecycle` |
| RunningRunsAreExecuted | a running run of a process that is up, with a working database, is executed by one of its tasks |

The argument: every action, whichever process takes it, writes the rows in one of seven ways
(`RowStep`) and the answers in one of three (`AnswerStep`). The lemmas about the rows are
proved of `RowStep` alone, and each action is shown to be one once (`NextEffects`). The
invariant of the rows is not inductive alone: a publication in doubt commits later without
looking at the row again, which is right only because its row locks keep every other
transaction out. `DoubtIsWorking` says so, and `IInv` is the types, the agreement, the reports,
the answers and it. Refinement maps preparing and reviewing to "active" and every `RowStep` to
a step of `RunLifecycle` or to none.

`RunningRunsAreExecuted`: a run which a live process with a working database holds as
running is executed by one of its tasks. It is inductive together with `IInv`: a claim starts the
task in the step that marks the run; every step that takes the task away ends the run, finds it
ended or another's, or is that of a process whose database calls fail (`Faulty`) or that stops;
and a process that comes up finds no run running.

`ReviewGenerationProofs`, for any finite set of operations, any permits and generations:

| Theorem | Statement |
| --- | --- |
| PermitsAreReturned | types, and every permit comes back once (`TypeOK`) |
| CallsAreAllowed | the calls of a run follow each other as the retry policy allows (`CallHistory`) |
| OnlyOneCallIsLate | however many retries and generations are left, no second call begins after the end of the run |

`PermitsReturn` counts: the free permits and the operations that are at a call make `Permits`. That
a history is allowed is not inductive, for a next call looks only at counters: `Tale(r)` says that
the last calls of the history are the ones counted in this generation (`Counted`), what the phase
knows of the last of them (`Continues`), and that a late call is the last. Each action does
one of four things to a history: begin a call, finish it, go on, or start another generation.

`FindingDialogueProofs`, for any numbers of turns and attempts, with and without faults:

| Theorem | Statement |
| --- | --- |
| TurnsAlwaysAgree | the rows of turns and attempts and the copy inside the dialogue agree |
| EndsStayForever | the end of a turn stays but for a retry of a failed one, the end of an attempt for ever |
| ClosedOutlivesEnds | whatever ends a turn, a dialogue that is closed at that moment stays closed |

`TurnsAgree` needs one thing more to be inductive: a task has an attempt to work on
(`TasksHaveAttempts`). `Moves` is what a step may do to one turn; the startup after a crash ends
several turns at once and is a move of each.

In the same module, of `RowLocks` and any set of sessions:

| Theorem | Statement |
| --- | --- |
| LocksTypeCorrect | no session has more locks than its operation takes |
| OnlyCrossingsCircle | a circle of waits, of any length and any operations, holds two that cross (`Crossing`) |

Operations without a crossing pair leave the rows a rank that rises along the locks of each of them
(`LocksRise`); which of cancellation, retry and reconciliation is among them decides between the
ranks (`Rank`). Along a circle of waits the rank of the awaited row would rise for ever
(`WaitsRise`), and there are six ranks.

`GuestProofs`, of `GuestContexts` for any finite sets of requests and workspaces and any capacity:

| Theorem | Statement |
| --- | --- |
| RegistryIsSound | references are exact, the capacity holds, neither a borrowed nor a working runtime is retired |
| WakeupsArrive | no request waits for a runtime or for room that is there |

The invariant is the two properties and that a request which is still acquiring or waiting for room
has not outlived a runtime (`AcquirersHoldNothing`).

and of `GuestStorage` for any finite sets of uploads and guests and any limits that the first
documents respect:

| Theorem | Statement |
| --- | --- |
| QuotaIsRespected | documents and reservations stay within the limits, live reservations are not reclaimed, nothing is counted twice |
| VersionsAreInOrder | the versions of a family are numbered without a gap, no key stores two |

Each limit is checked in one step and used in a later one. `OneChecks` says that one upload at a
time is between the two, under the lock of the quota, and `RoomStays` that the room it found is
still there; `OneNumbers` and `NumberStays` say the same of the lock of a family and the number
drawn under it; `RowsHaveUploads`, that a row is written by an upload that has come so far.

`ReviewCycleProofs`, for any findings, issues, verdicts, calls and comparisons, limited ones
included:

| Theorem | Statement |
| --- | --- |
| TypesHold | types, and one entry for each finding of a compared report (`TypeOK`) |
| NextStepHolds | the report page offers completion, or calls the review complete, exactly when the service finds nothing left open |
| CompletionHolds | a completion that lapsed comes back only by completing once more |
| ExplanationsOutliveRefusals | what was written about a fix goes only with the change it was written for, with an answer that takes its issue off the panel, or with a panel that could not be loaded |

The argument: every action writes the rows in one of seven ways, each under its guard
(`StepIsRowStep`). `IInv` is the types of the rows and `OneEntryEach`: a compared report has
exactly one entry for each finding. Without it the two rules differ, for one asks for some entry
of a finding and the other for its entry. `Bounded` says that no entry has more revisions than its
cycle and that there is none before the comparison. A completion lapses for good since no later
state has the digest of an earlier one: decisions and fixes have revisions that rise, and a link
takes a finding from an issue to which nothing gives it back (`LinkIsSeen`, `FixIsSeen`,
`DecisionIsSeen`); `Past` says that the stored digest is one of the past. The explanations rest on
`Page`: a card that holds anything is on the page, so that the failure of a call, which comes when
it will, empties no other card (`PageGoes`).

`NewReviewProofs`, for any documents, models, openings and calls, and any finite set of runs:

| Theorem | Statement |
| --- | --- |
| IntentsMakeOneRun | an opening of the form makes one run of the same request (`OneRunPerIntent`, with the types) |
| RunsAreReadable | every run is started with a document whose text the service has |
| EndsAreNotUndone | the end of a run that the cache has shown stays |
| MaterialStays | attached material leaves an open form only when the person detaches it |

The invariant has four parts. `Watched`: what the cache or an answer on its way says of the end of
a run is its end, and an answer on its way to a cache that has seen the end is that end
too. `Written`: what the form believes of its document, or will be told by an answer on
its way, is no more than the service knows. `Starts`: a request sent names a document that can be
read, and there are no more such requests than runs left to make, the bound that keeps `CHOOSE`
of a new run defined. `Admissions`: every run that was started is that of the one admission of its
key.

`DecisionFormProofs`, for any texts, statuses, saves, disturbances and revisions:

| Theorem | Statement |
| --- | --- |
| UntouchedFormsShowIt | a form nobody has touched, that has saved nothing, shows the decision in force (`UntouchedShowsStored`, with the types) |
| RevisionsNeverFall | the revision the page shows never falls |
| OverwritesWereSeen | a save replaces only a decision the page has shown |

`Revisions`: the page and an answer on its way know nothing the server has not held, and no
answer is older than what it replaces. The second theorem is that alone. `Expectations`: a save expects
no more than the page shows, and each revision lets one save through; the third follows. The first
is `Untouched`, which needs `Mounted`: only a save of the mounted form, one the mutation shows, waits
for refetches, so that a form just opened is written by nothing but the effect that fills it,
whichever of the queries is answered first.

`DialoguePanelProofs`, for any questions, files, calls and bounds:

| Theorem | Statement |
| --- | --- |
| RefusedQuestionsWereNotAsked | a question the page is told was refused is not among the turns (`RefusedIsNotAsked`, with the types) |

`TurnsAreAdmitted` says that the service knows the key of every turn of this page, and `RefusedAreOut`
that a refused call has no known key and can get none, for the revision it carries is past or its turn
has moved. `Lags`: page, answers and calls are not ahead of the server. `Bounded` counts the turns that
are generating, so that the revision of the dialogue stays within its type although what was begun
before `MaxRevision` may still end.

Only model-checked: liveness under fairness, which is out of reach of the prover, as is ENABLED
(`WaiterReleased`, `EveryClaimedRunTerminates`, `OperationsEnd`, `ClaimedAttemptEnds`,
`IdleContextsLeave`, `CloseEndsAll`, `UploadsEnd`, `ConfirmedIsShown`, `AnswerIsSeen`, `AskedIsShown`,
`EndIsSeen`). Every safety property that a passing run checks is a theorem.

## 5. Plan

Done: `ReviewExecution` with `RunLifecycle`, `ReviewGeneration`, `FindingDialogue`, `GuestContexts`,
`GuestStorage`, `RowLocks`, `ReviewCycle`, `RunWatch`, `NewReview`, `DecisionForm` and
`DialoguePanel`, all with proofs. Next, in this order:

1. `FindingDialogueSync` and the synchronous run: the composition without a model.
2. `ArtifactStore`: stage, promote, collect under the fence lock, with crashes.
3. Profiles: versions and the optimistic head.
4. `FindingMatching`: the matching of findings against a declarative definition.

## 6. Not modelled

- The chain of document versions beyond the one before, and undoing a link: a comparison starts
  from any state the earlier versions may have left. The second transaction of get() that marks a
  failed comparison is one step with the first: what the comparison reads no longer changes.
- Time: the hint that a run is slow (stall-detector.ts, use-review-run.ts 34-49), intervals and
  retry delays are only "later".
- The branch of NewReviewPage.tsx for a repeated run (`repeatRunId`, `savedDocumentId`), which its
  caller never uses, and the prefilled resolution of the decision form, which no caller fills.
- The composition without a model (planned): a turn it creates is left generating by a crash
  between its two transactions, and a run by an exception that is no ValueError.
- The order in which requests wait for a guest runtime: the code promises none.
- Artifact files, profiles, sessions, lists, rendering, the mock service of the client's tests, the
  command line client, the worker prototype and the schema, with the reasons in `PROJECT.json`.
