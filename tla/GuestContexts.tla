--------------------------- MODULE GuestContexts ---------------------------
(***************************************************************************)
(* GuestContextRegistry: the live runtimes of guest workspaces, created on *)
(* the first request of a workspace, shared by its requests, kept while a  *)
(* request uses them or background work is pending, and bounded in number. *)
(*                                                                         *)
(* The tasks of one event loop interleave at their awaits, and what they   *)
(* do under the registry's lock is one step here.  A request keeps a       *)
(* reference to the entry object, which may outlive the registration:      *)
(* "outlived" tells that the entry of a request is registered no more.     *)
(* A definition named ...Variant is a mistake used by no action.           *)
(***************************************************************************)
EXTENDS Naturals, FiniteSets

CONSTANTS
  Client,         \* concurrent requests
  Workspace,      \* guest workspaces
  MaxContexts,    \* max_contexts of the registry
  MaxWork,        \* bound of the model: pending operations of one runtime
  Faults          \* may a runtime fail to start, or break later?

ASSUME CapacityAssumption == MaxContexts \in Nat \ {0}
ASSUME WorkAssumption == MaxWork \in Nat \ {0} /\ Faults \in BOOLEAN
ASSUME FiniteAssumption == IsFiniteSet(Client) /\ IsFiniteSet(Workspace)

VARIABLES
  phase,       \* the task _serve() of each workspace
  refs,        \* entry.references
  work,        \* has_pending_work: operations and dialogue attempts of the runtime
  watch,       \* where _serve_until_idle() is
  woken,       \* has the event that _serve_until_idle() waits for been set?
  request,     \* what each client is doing
  home,        \* the workspace of its session
  outlived,    \* has the entry of the request been removed from the registry?
  closing      \* _closing

serving == <<phase, refs, work, watch, woken>>
requests == <<request, home, outlived>>
vars == <<serving, requests, closing>>

Phase == {"none", "starting", "serving", "leaving", "failing", "broken"}
Registered == {w \in Workspace : phase[w] # "none"}

(* A runtime that has been entered and not been left yet. *)
RuntimeLive(w) == phase[w] \in {"serving", "leaving", "failing"}
Borrowing(c) == request[c] \in {"waiting", "using"}

Init ==
  /\ phase = [w \in Workspace |-> "none"]
  /\ refs = [w \in Workspace |-> 0]
  /\ work = [w \in Workspace |-> 0]
  /\ watch = [w \in Workspace |-> "check"]
  /\ woken = [w \in Workspace |-> FALSE]
  /\ request = [c \in Client |-> "idle"]
  /\ home \in [Client -> Workspace]
  /\ outlived = [c \in Client |-> FALSE]
  /\ closing = FALSE

(* _notify_entry(): wakes the owner if it waits, and replaces the event.   *)
NotifyEntry(w) == woken' = [woken EXCEPT ![w] = watch[w] # "check"]
-----------------------------------------------------------------------------
(* use() and _acquire(). *)

Request(c, w) ==
  /\ request[c] = "idle"
  /\ request' = [request EXCEPT ![c] = "acquiring"]
  /\ home' = [home EXCEPT ![c] = w]
  /\ outlived' = [outlived EXCEPT ![c] = FALSE]
  /\ UNCHANGED <<serving, closing>>

OpenVariant == TRUE
Open == ~closing

(* An entry that retires takes no more borrowers. *)
JoinableVariant(w) == phase[w] # "none"
Joinable(w) == phase[w] \in {"starting", "serving", "failing", "broken"}

Room == Cardinality(Registered) < MaxContexts


Borrow(c, w) ==
  /\ refs' = [refs EXCEPT ![w] = @ + 1]
  /\ request' = [request EXCEPT ![c] = "waiting"]

(* The registry is closing. *)
AcquireRefused(c) ==
  /\ request[c] = "acquiring" /\ ~Open
  /\ request' = [request EXCEPT ![c] = "idle"]
  /\ UNCHANGED <<serving, home, outlived, closing>>

Create(c) == LET w == home[c] IN
  /\ request[c] = "acquiring" /\ Open
  /\ phase[w] = "none" /\ Room
  /\ phase' = [phase EXCEPT ![w] = "starting"]
  /\ Borrow(c, w)
  /\ watch' = [watch EXCEPT ![w] = "check"]
  /\ woken' = [woken EXCEPT ![w] = FALSE]
  /\ UNCHANGED <<work, home, outlived, closing>>

Join(c) == LET w == home[c] IN
  /\ request[c] = "acquiring" /\ Open
  /\ Joinable(w)
  /\ Borrow(c, w)
  /\ NotifyEntry(w)
  /\ UNCHANGED <<phase, work, watch, home, outlived, closing>>

Block(c) == LET w == home[c] IN
  /\ request[c] = "acquiring" /\ Open
  /\ ~Joinable(w) /\ ~(phase[w] = "none" /\ Room)
  /\ request' = [request EXCEPT ![c] = "blocked"]
  /\ UNCHANGED <<serving, home, outlived, closing>>

Acquire(c) == AcquireRefused(c) \/ Create(c) \/ Join(c) \/ Block(c)

(* entry.ready is set and there is no error. *)
Use(c) ==
  /\ request[c] = "waiting"
  /\ ~outlived[c] /\ RuntimeLive(home[c])
  /\ request' = [request EXCEPT ![c] = "using"]
  /\ UNCHANGED <<serving, home, outlived, closing>>

(* The request starts an operation or a dialogue attempt that outlives it. *)
Submit(c) == LET w == home[c] IN
  /\ request[c] = "using"
  /\ ~outlived[c] /\ RuntimeLive(w) /\ work[w] < MaxWork
  /\ work' = [work EXCEPT ![w] = @ + 1]
  /\ UNCHANGED <<phase, refs, watch, woken, requests, closing>>

(* The finally clause of use(): the request ended, was disconnected or     *)
(* found the error of the entry.                                           *)
GiveBack(c) ==
  IF outlived[c] THEN UNCHANGED <<refs, woken>>
  ELSE refs' = [refs EXCEPT ![home[c]] = @ - 1] /\ NotifyEntry(home[c])

Release(c) ==
  /\ Borrowing(c)
  /\ GiveBack(c)
  /\ request' = [request EXCEPT ![c] = "idle"]
  /\ UNCHANGED <<phase, work, watch, home, outlived, closing>>

(* A request that waits for room is disconnected. *)
GiveUp(c) ==
  /\ request[c] \in {"acquiring", "blocked"}
  /\ request' = [request EXCEPT ![c] = "idle"]
  /\ UNCHANGED <<serving, home, outlived, closing>>
-----------------------------------------------------------------------------
(* _serve() and _serve_until_idle(). *)

Goes(w, p) == phase' = [phase EXCEPT ![w] = p] /\ UNCHANGED <<refs, work>>

Start(w) ==
  /\ phase[w] = "starting"
  /\ Goes(w, "serving") \/ (Faults /\ Goes(w, "broken"))
  /\ UNCHANGED <<watch, woken, requests, closing>>

Idle(w) == refs[w] = 0 /\ work[w] = 0

Retire(w) ==
  /\ phase[w] = "serving" /\ watch[w] = "check"
  /\ closing \/ Idle(w)
  /\ Goes(w, "leaving")
  /\ UNCHANGED <<watch, woken, requests, closing>>

KeepServing(w) ==
  /\ phase[w] = "serving" /\ watch[w] = "check"
  /\ ~closing /\ ~Idle(w)
  /\ watch' = [watch EXCEPT ![w] = IF refs[w] = 0 THEN "idle" ELSE "borrowed"]
  /\ woken' = [woken EXCEPT ![w] = FALSE]
  /\ UNCHANGED <<phase, refs, work, requests, closing>>

(* _notify_when_idle() runs only while nobody borrows the entry. *)
WatchedVariant(w) == watch[w] = "borrowed"
Watched(w) == watch[w] = "idle"

NotifyWhenIdle(w) ==
  /\ phase[w] = "serving" /\ Watched(w)
  /\ work[w] = 0 /\ ~woken[w]
  /\ woken' = [woken EXCEPT ![w] = TRUE]
  /\ UNCHANGED <<phase, refs, work, watch, requests, closing>>

Wake(w) ==
  /\ phase[w] = "serving" /\ watch[w] # "check" /\ woken[w]
  /\ watch' = [watch EXCEPT ![w] = "check"]
  /\ UNCHANGED <<phase, refs, work, woken, requests, closing>>

(* An operation ends, by itself or cancelled with the runtime. *)
FinishWork(w) ==
  /\ work[w] > 0
  /\ work' = [work EXCEPT ![w] = @ - 1]
  /\ UNCHANGED <<phase, refs, watch, woken, requests, closing>>

(* A failure in one of the runtime's task groups cancels the owner's task. *)
Break(w) ==
  /\ Faults /\ phase[w] = "serving"
  /\ Goes(w, "failing")
  /\ UNCHANGED <<watch, woken, requests, closing>>

(* The runtime has been left: the error is stored in the entry. *)
Failed(w) ==
  /\ phase[w] = "failing" /\ work[w] = 0
  /\ Goes(w, "broken")
  /\ UNCHANGED <<watch, woken, requests, closing>>

(* _notify_capacity(): every request waiting for room or for a successor   *)
(* of a retired entry tries again.                                         *)
AfterCapacityVariant(c, w) ==
  IF request[c] = "blocked" /\ home[c] = w THEN "acquiring" ELSE request[c]
AfterCapacity(c, w) == IF request[c] = "blocked" THEN "acquiring" ELSE request[c]

Left(w) == phase[w] = "broken" \/ (phase[w] = "leaving" /\ work[w] = 0)

Remove(w) ==
  /\ Left(w)
  /\ phase' = [phase EXCEPT ![w] = "none"]
  /\ refs' = [refs EXCEPT ![w] = 0]
  /\ outlived' = [c \in Client |-> outlived[c] \/ (home[c] = w /\ Borrowing(c))]
  /\ request' = [c \in Client |-> AfterCapacity(c, w)]
  /\ UNCHANGED <<work, watch, woken, home, closing>>

(* __aexit__() of the registry. *)
CloseWakes ==
  /\ request' = [c \in Client |-> IF request[c] = "blocked" THEN "acquiring" ELSE request[c]]
  /\ woken' = [w \in Workspace |-> woken[w] \/ (phase[w] # "none" /\ watch[w] # "check")]

Close ==
  /\ ~closing
  /\ closing' = TRUE
  /\ CloseWakes
  /\ UNCHANGED <<phase, refs, work, watch, home, outlived>>

ClientStep(c) == Acquire(c) \/ Use(c) \/ Release(c)
OwnerStep(w) ==
  Start(w) \/ Retire(w) \/ KeepServing(w) \/ NotifyWhenIdle(w) \/ Wake(w)
    \/ Failed(w) \/ Remove(w)

Next ==
  \/ \E c \in Client : ClientStep(c) \/ Submit(c) \/ GiveUp(c)
  \/ \E c \in Client, w \in Workspace : Request(c, w)
  \/ \E w \in Workspace : OwnerStep(w) \/ FinishWork(w) \/ Break(w)
  \/ Close

Spec == Init /\ [][Next]_vars

(* The event loop runs every task that can run, a request ends, and every  *)
(* operation ends, by its deadline at the latest.                          *)
FairSpec ==
  /\ Spec
  /\ \A c \in Client : WF_vars(Acquire(c)) /\ WF_vars(Use(c)) /\ WF_vars(Release(c))
  /\ \A w \in Workspace : WF_vars(OwnerStep(w)) /\ WF_vars(FinishWork(w))
-----------------------------------------------------------------------------
(* Properties. *)

(* Every field of an entry and every request holds a value of its type. *)
TypeOK ==
  /\ phase \in [Workspace -> Phase]
  /\ refs \in [Workspace -> 0..Cardinality(Client)]
  /\ work \in [Workspace -> 0..MaxWork]
  /\ watch \in [Workspace -> {"check", "idle", "borrowed"}]
  /\ woken \in [Workspace -> BOOLEAN]
  /\ request \in [Client -> {"idle", "acquiring", "blocked", "waiting", "using"}]
  /\ home \in [Client -> Workspace]
  /\ outlived \in [Client -> BOOLEAN]
  /\ closing \in BOOLEAN

(* The requests that hold the entry a workspace has now.                   *)
Holders(w) == {c \in Client : Borrowing(c) /\ home[c] = w /\ ~outlived[c]}

(* The references of an entry are the requests that hold it: requests that *)
(* outlived an earlier entry of the workspace do not disturb its           *)
(* successor.  No more runtimes live than the registry may have, retired   *)
(* ones that are still being left included.  Unless the registry closes, a *)
(* runtime retires only when nobody uses it and nothing it executes is     *)
(* left, and nobody can come back to it; so work is never left without the *)
(* runtime that executes it.                                               *)
RegistrySound ==
  /\ TypeOK
  /\ Cardinality(Registered) <= MaxContexts
  /\ \A w \in Workspace :
       /\ refs[w] = Cardinality(Holders(w))
       /\ phase[w] = "leaving" /\ ~closing => refs[w] = 0 /\ work[w] = 0
       /\ work[w] > 0 => RuntimeLive(w)

(* A request waits for room only while there is none, or while the entry   *)
(* of its workspace retires: no notification is lost.                      *)
NoLostWakeup ==
  \A c \in Client : request[c] = "blocked" =>
    \/ phase[home[c]] = "leaving"
    \/ phase[home[c]] = "none" /\ Cardinality(Registered) >= MaxContexts

(* A runtime nobody uses and that has nothing to do does not stay. *)
IdleContextsLeave ==
  \A w \in Workspace : phase[w] = "serving" /\ Idle(w) ~> phase[w] # "serving" \/ ~Idle(w)

(* Closing the registry ends every runtime. *)
CloseEndsAll == closing ~> Registered = {}
=============================================================================
