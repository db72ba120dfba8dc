----------------------------- MODULE GuestProofs -----------------------------
(***************************************************************************)
(* Guests: the registry of their contexts and the storage they share.      *)
(*                                                                         *)
(* The contexts, for any finite sets of requests and workspaces, any       *)
(* capacity and any failures: references are exact, the capacity is        *)
(* respected, a runtime with users or work is not retired, and no request  *)
(* waits for room that there is.                                           *)
(*                                                                         *)
(* The storage, for any finite sets of uploads and guests and any limits:  *)
(* the quotas are respected, live reservations stay, nothing is counted    *)
(* twice, and the versions of a family are numbered without gaps.          *)
(***************************************************************************)
EXTENDS GuestContexts, GuestStorage, FiniteSetTheorems, TLAPS

(* A request that acquires has no entry that could have been removed: only *)
(* so does the reference it takes count for the entry it joins.            *)
AcquirersHoldNothing ==
  \A c \in Client : request[c] \in {"acquiring", "blocked"} => ~outlived[c]

IInv == RegistrySound /\ NoLostWakeup /\ AcquirersHoldNothing
-----------------------------------------------------------------------------
(* Counting. *)

(* The requests that hold an entry can be counted. *)
LEMMA HoldersFinite ==
  ASSUME NEW w
  PROVE  /\ IsFiniteSet(Holders(w)) /\ Cardinality(Holders(w)) \in Nat
         /\ Cardinality(Holders(w)) <= Cardinality(Client)
<1>1. Holders(w) \in SUBSET Client
  BY DEF Holders
<1> QED BY <1>1, FiniteAssumption, FS_Subset, FS_CardinalityType

(* So can the registered entries. *)
LEMMA RegisteredFinite == IsFiniteSet(Registered) /\ Cardinality(Registered) \in Nat
<1>1. Registered \in SUBSET Workspace
  BY DEF Registered
<1> QED BY <1>1, FiniteAssumption, FS_Subset, FS_CardinalityType

(* Entries that hold are counted exactly. *)
Counted == \A w \in Workspace : refs[w] = Cardinality(Holders(w))

(* The fields of an entry and of a request, but for its references.        *)
FieldTypes ==
  /\ phase \in [Workspace -> Phase]
  /\ refs \in [Workspace -> Int]
  /\ work \in [Workspace -> 0..MaxWork]
  /\ watch \in [Workspace -> {"check", "idle", "borrowed"}]
  /\ woken \in [Workspace -> BOOLEAN]
  /\ request \in [Client -> {"idle", "acquiring", "blocked", "waiting", "using"}]
  /\ home \in [Client -> Workspace]
  /\ outlived \in [Client -> BOOLEAN]
  /\ closing \in BOOLEAN

(* Exact references are within their type. *)
LEMMA CountedTypes ==
  ASSUME FieldTypes, Counted
  PROVE  TypeOK
<1>1. \A w \in Workspace : refs[w] \in 0..Cardinality(Client)
  BY HoldersFinite, FS_CardinalityType, FiniteAssumption DEF Counted, FieldTypes
<1> QED BY <1>1 DEF TypeOK, FieldTypes

(* The type invariant gives each field its type. *)
LEMMA TypesAreFieldTypes == TypeOK => FieldTypes
<1>1. Cardinality(Client) \in Nat
  BY FS_CardinalityType, FiniteAssumption
<1> QED BY <1>1 DEF TypeOK, FieldTypes

(* What does not touch the borrowers of an entry leaves the count exact.   *)
LEMMA SameHolders ==
  ASSUME Counted, UNCHANGED refs,
         \A c \in Client : /\ Borrowing(c)' <=> Borrowing(c)
                           /\ Borrowing(c) => home'[c] = home[c] /\ outlived'[c] = outlived[c]
  PROVE  Counted'
<1>1. ASSUME NEW w \in Workspace
      PROVE  Holders(w)' = Holders(w)
  BY DEF Holders
<1> QED BY <1>1 DEF Counted

(* A request that joins an entry becomes one of its holders. *)
LEMMA BorrowCounts ==
  ASSUME FieldTypes, Counted, NEW c \in Client, Borrow(c, home[c]), ~Borrowing(c),
         ~outlived[c], UNCHANGED <<home, outlived>>
  PROVE  Counted'
<1> SUFFICES ASSUME NEW w \in Workspace
             PROVE  refs'[w] = Cardinality(Holders(w)')
  BY DEF Counted
<1>1. CASE w = home[c]
  <2>1. Holders(w)' = Holders(w) \cup {c} /\ c \notin Holders(w)
    BY <1>1 DEF Holders, Borrow, Borrowing, FieldTypes
  <2>2. refs'[w] = refs[w] + 1
    BY <1>1 DEF Borrow, FieldTypes
  <2>3. IsFiniteSet(Holders(w))
    BY HoldersFinite
  <2>4. Cardinality(Holders(w) \cup {c}) = Cardinality(Holders(w)) + 1
    BY <2>1, <2>3, FS_AddElement
  <2>5. refs[w] = Cardinality(Holders(w))
    BY DEF Counted
  <2> QED BY <2>1, <2>2, <2>4, <2>5
<1>2. CASE w # home[c]
  <2>1. Holders(w)' = Holders(w)
    BY <1>2 DEF Holders, Borrow, Borrowing, FieldTypes
  <2> QED BY <1>2, <2>1 DEF Counted, Borrow, FieldTypes
<1> QED BY <1>1, <1>2

(* A request that ends is no holder any more, and counts off if it was one. *)
LEMMA ReleaseCounts ==
  ASSUME FieldTypes, Counted, NEW c \in Client, Release(c)
  PROVE  Counted'
<1> SUFFICES ASSUME NEW w \in Workspace
             PROVE  refs'[w] = Cardinality(Holders(w)')
  BY DEF Counted
<1>1. CASE w = home[c] /\ ~outlived[c]
  <2>1. Holders(w)' = Holders(w) \ {c} /\ c \in Holders(w)
    BY <1>1 DEF Holders, Release, Borrowing, FieldTypes
  <2>2. refs'[w] = refs[w] - 1
    BY <1>1 DEF Release, GiveBack, FieldTypes
  <2> QED BY <2>1, <2>2, HoldersFinite, FS_RemoveElement DEF Counted
<1>2. CASE w # home[c] \/ outlived[c]
  <2>1. Holders(w)' = Holders(w)
    BY <1>2 DEF Holders, Release, Borrowing, FieldTypes
  <2> QED BY <1>2, <2>1 DEF Counted, Release, GiveBack, FieldTypes
<1> QED BY <1>1, <1>2

(* An entry that leaves the registry takes its holders along. *)
LEMMA RemoveCounts ==
  ASSUME FieldTypes, Counted, NEW v \in Workspace, Remove(v)
  PROVE  Counted'
<1> SUFFICES ASSUME NEW w \in Workspace
             PROVE  refs'[w] = Cardinality(Holders(w)')
  BY DEF Counted
<1>0. \A c \in Client : Borrowing(c)' <=> Borrowing(c)
  BY DEF Remove, Borrowing, AfterCapacity, FieldTypes
<1>1. CASE w = v
  <2>1. Holders(w)' = {}
    BY <1>0, <1>1 DEF Holders, Remove, FieldTypes
  <2> QED BY <1>1, <2>1, FS_EmptySet DEF Remove, FieldTypes
<1>2. CASE w # v
  <2>1. Holders(w)' = Holders(w)
    BY <1>0, <1>2 DEF Holders, Remove, FieldTypes
  <2> QED BY <1>2, <2>1 DEF Counted, Remove, FieldTypes
<1> QED BY <1>1, <1>2
-----------------------------------------------------------------------------
(* The steps of the registry. *)

(* Every step writes values of their types. *)
LEMMA NextTypes ==
  ASSUME FieldTypes, [Next]_vars
  PROVE  FieldTypes'
<1> USE WorkAssumption DEF FieldTypes
<1>0. CASE UNCHANGED vars
  BY <1>0 DEF vars, serving, requests
<1>1. ASSUME NEW c \in Client, Acquire(c)
      PROVE  FieldTypes'
  <2>1. CASE AcquireRefused(c) \/ Block(c)
    BY <2>1 DEF AcquireRefused, Block, serving
  <2>2. CASE Create(c)
    BY <2>2 DEF Create, Borrow, Phase
  <2>3. CASE Join(c)
    BY <2>3 DEF Join, Borrow, NotifyEntry
  <2> QED BY <1>1, <2>1, <2>2, <2>3 DEF Acquire
<1>2. ASSUME NEW c \in Client, Use(c) \/ Release(c) \/ Submit(c) \/ GiveUp(c)
      PROVE  FieldTypes'
  <2>1. CASE Use(c) \/ GiveUp(c)
    BY <2>1 DEF Use, GiveUp, serving
  <2>2. CASE Release(c)
    <3>1. CASE outlived[c]
      BY <2>2, <3>1 DEF Release, GiveBack
    <3>2. CASE ~outlived[c]
      <4>1. /\ refs' = [refs EXCEPT ![home[c]] = @ - 1]
            /\ woken' = [woken EXCEPT ![home[c]] = watch[home[c]] # "check"]
        BY <2>2, <3>2 DEF Release, GiveBack, NotifyEntry
      <4>2. refs' \in [Workspace -> Int] /\ woken' \in [Workspace -> BOOLEAN]
        BY <4>1
      <4> QED BY <2>2, <4>2 DEF Release
    <3> QED BY <3>1, <3>2
  <2>3. CASE Submit(c)
    BY <2>3 DEF Submit, requests
  <2> QED BY <1>2, <2>1, <2>2, <2>3
<1>3. ASSUME NEW c \in Client, NEW w \in Workspace, Request(c, w)
      PROVE  FieldTypes'
  BY <1>3 DEF Request, serving
<1>4. ASSUME NEW w \in Workspace,
             Start(w) \/ Retire(w) \/ KeepServing(w) \/ NotifyWhenIdle(w) \/ Wake(w) \/ Failed(w)
      PROVE  FieldTypes'
  BY <1>4 DEF Start, Retire, KeepServing, NotifyWhenIdle, Wake, Failed, Goes, Phase, requests
<1>5. ASSUME NEW w \in Workspace, Remove(w)
      PROVE  FieldTypes'
  BY <1>5 DEF Remove, AfterCapacity, Phase
<1>6. ASSUME NEW w \in Workspace, FinishWork(w) \/ Break(w)
      PROVE  FieldTypes'
  BY <1>6 DEF FinishWork, Break, Goes, Phase, requests
<1>7. CASE Close
  BY <1>7 DEF Close, CloseWakes
<1> QED BY <1>0, <1>1, <1>2, <1>3, <1>4, <1>5, <1>6, <1>7 DEF Next, ClientStep, OwnerStep

(* Every step keeps the references exact. *)
LEMMA NextCounts ==
  ASSUME FieldTypes, Counted, AcquirersHoldNothing, [Next]_vars
  PROVE  Counted'
<1>0. CASE UNCHANGED vars
  BY <1>0, SameHolders DEF vars, serving, requests, Borrowing
<1>1. ASSUME NEW c \in Client, Acquire(c)
      PROVE  Counted'
  <2>1. CASE AcquireRefused(c) \/ Block(c)
    BY <2>1, SameHolders DEF AcquireRefused, Block, serving, Borrowing, FieldTypes
  <2>2. CASE Create(c) \/ Join(c)
    BY <2>2, BorrowCounts DEF Create, Join, AcquirersHoldNothing, Borrowing
  <2> QED BY <1>1, <2>1, <2>2 DEF Acquire
<1>2. ASSUME NEW c \in Client, Use(c) \/ Submit(c) \/ GiveUp(c)
      PROVE  Counted'
  BY <1>2, SameHolders DEF Use, Submit, GiveUp, serving, requests, Borrowing, FieldTypes
<1>3. ASSUME NEW c \in Client, Release(c)
      PROVE  Counted'
  BY <1>3, ReleaseCounts
<1>4. ASSUME NEW c \in Client, NEW w \in Workspace, Request(c, w)
      PROVE  Counted'
  BY <1>4, SameHolders DEF Request, serving, Borrowing, FieldTypes
<1>5. ASSUME NEW w \in Workspace,
             \/ Start(w) \/ Retire(w) \/ KeepServing(w) \/ NotifyWhenIdle(w) \/ Wake(w) \/ Failed(w)
             \/ FinishWork(w) \/ Break(w)
      PROVE  Counted'
  BY <1>5, SameHolders DEF Start, Retire, KeepServing, NotifyWhenIdle, Wake, Failed, FinishWork,
                           Break, Goes, requests, Borrowing
<1>6. ASSUME NEW w \in Workspace, Remove(w)
      PROVE  Counted'
  BY <1>6, RemoveCounts
<1>7. CASE Close
  BY <1>7, SameHolders DEF Close, CloseWakes, Borrowing, FieldTypes
<1> QED BY <1>0, <1>1, <1>2, <1>3, <1>4, <1>5, <1>6, <1>7 DEF Next, ClientStep, OwnerStep

(* Only a request that finds room registers an entry. *)
LEMMA NextCapacity ==
  ASSUME FieldTypes, Cardinality(Registered) <= MaxContexts, [Next]_vars
  PROVE  Cardinality(Registered') <= MaxContexts
<1>0. ASSUME \A w \in Workspace : phase'[w] # "none" => phase[w] # "none"
      PROVE  Cardinality(Registered') <= MaxContexts
  <2>1. Registered' \in SUBSET Registered
    BY <1>0 DEF Registered
  <2> QED BY <2>1, RegisteredFinite, FS_Subset, CapacityAssumption, FS_CardinalityType
<1>1. ASSUME NEW c \in Client, Create(c)
      PROVE  Cardinality(Registered') <= MaxContexts
  <2>1. Registered' = Registered \cup {home[c]} /\ home[c] \notin Registered
    BY <1>1 DEF Create, Registered, FieldTypes
  <2>2. Cardinality(Registered') = Cardinality(Registered) + 1
    BY <2>1, RegisteredFinite, FS_AddElement
  <2>3. Cardinality(Registered) < MaxContexts
    BY <1>1 DEF Create, Room
  <2> QED BY <2>2, <2>3, RegisteredFinite, CapacityAssumption
<1>2. CASE UNCHANGED phase
  BY <1>0, <1>2
<1>3. ASSUME NEW w \in Workspace, OwnerStep(w) \/ Break(w)
      PROVE  Cardinality(Registered') <= MaxContexts
  BY <1>0, <1>3 DEF OwnerStep, Start, Retire, KeepServing, NotifyWhenIdle, Wake, Failed, Remove, Break,
                    Goes, FieldTypes
<1> QED BY <1>1, <1>2, <1>3
        DEF Next, vars, serving, ClientStep, Acquire, AcquireRefused, Join, Block, Use, Release,
            Submit, GiveUp, Request, FinishWork, Close

(* A runtime that retires, and one that is gone, as the registry has them. *)
Retired(w) == phase[w] = "leaving" /\ ~closing => refs[w] = 0 /\ work[w] = 0
Executed(w) == work[w] > 0 => RuntimeLive(w)

(* A runtime nobody holds is joined by nobody and given no work.           *)
LEMMA NextRetired ==
  ASSUME FieldTypes, Counted, [Next]_vars, NEW w \in Workspace, Retired(w), Executed(w)
  PROVE  Retired(w)' /\ Executed(w)'
<1> USE DEF Retired, Executed, RuntimeLive, FieldTypes
<1>h. ASSUME NEW c \in Client, Borrowing(c), ~outlived[c]
      PROVE  refs[home[c]] > 0
  <2>1. c \in Holders(home[c])
    BY <1>h DEF Holders
  <2> QED BY <2>1, HoldersFinite, FS_EmptySet DEF Counted
<1>0. CASE UNCHANGED vars
  BY <1>0 DEF vars, serving
<1>1. ASSUME NEW c \in Client, Acquire(c)
      PROVE  Retired(w)' /\ Executed(w)'
  BY <1>1 DEF Acquire, AcquireRefused, Block, Create, Join, Joinable, Borrow, serving
<1>2. ASSUME NEW c \in Client, Release(c)
      PROVE  Retired(w)' /\ Executed(w)'
  BY <1>2, <1>h DEF Release, GiveBack
<1>3. ASSUME NEW c \in Client, Submit(c)
      PROVE  Retired(w)' /\ Executed(w)'
  BY <1>3, <1>h DEF Submit, Borrowing
<1>4. ASSUME NEW c \in Client, Use(c) \/ GiveUp(c) \/ \E v \in Workspace : Request(c, v)
      PROVE  Retired(w)' /\ Executed(w)'
  BY <1>4 DEF Use, GiveUp, Request, serving
<1>5. ASSUME NEW v \in Workspace, OwnerStep(v)
      PROVE  Retired(w)' /\ Executed(w)'
  <2>1. CASE Start(v) \/ Retire(v) \/ Failed(v)
    BY <2>1 DEF Start, Retire, Failed, Goes, Idle
  <2>2. CASE KeepServing(v) \/ NotifyWhenIdle(v) \/ Wake(v)
    BY <2>2 DEF KeepServing, NotifyWhenIdle, Wake
  <2>3. CASE Remove(v)
    BY <2>3 DEF Remove, Left
  <2> QED BY <1>5, <2>1, <2>2, <2>3 DEF OwnerStep
<1>6. ASSUME NEW v \in Workspace, FinishWork(v) \/ Break(v)
      PROVE  Retired(w)' /\ Executed(w)'
  BY <1>6 DEF FinishWork, Break, Goes
<1>7. CASE Close
  BY <1>7 DEF Close
<1> QED BY <1>0, <1>1, <1>2, <1>3, <1>4, <1>5, <1>6, <1>7 DEF Next, ClientStep

(* A reference that no longer counts is not carried into a new request.    *)
LEMMA NextAcquirers ==
  ASSUME FieldTypes, AcquirersHoldNothing, [Next]_vars
  PROVE  AcquirersHoldNothing'
<1> USE DEF FieldTypes, AcquirersHoldNothing
<1>0. CASE UNCHANGED <<request, outlived>>
  BY <1>0
<1>1. ASSUME NEW c \in Client, ClientStep(c) \/ GiveUp(c)
      PROVE  AcquirersHoldNothing'
  BY <1>1 DEF ClientStep, Acquire, AcquireRefused, Create, Join, Block, Borrow, Use, Release, GiveUp
<1>2. ASSUME NEW c \in Client, NEW w \in Workspace, Request(c, w)
      PROVE  AcquirersHoldNothing'
  BY <1>2 DEF Request
<1>3. ASSUME NEW w \in Workspace, Remove(w)
      PROVE  AcquirersHoldNothing'
  BY <1>3 DEF Remove, AfterCapacity, Borrowing
<1>4. CASE Close
  BY <1>4 DEF Close, CloseWakes
<1> QED BY <1>0, <1>1, <1>2, <1>3, <1>4
        DEF Next, vars, requests, Submit, OwnerStep, Start, Retire, KeepServing, NotifyWhenIdle, Wake,
            Failed, FinishWork, Break

(* A request goes on waiting only while what it waits for has not come.    *)
LEMMA NextWaits ==
  ASSUME FieldTypes, NoLostWakeup, [Next]_vars
  PROVE  NoLostWakeup'
<1> DEFINE Waits(c) == \/ phase[home[c]] = "leaving"
                       \/ phase[home[c]] = "none" /\ Cardinality(Registered) >= MaxContexts
<1> USE DEF FieldTypes
<1>a. \A c \in Client : request[c] = "blocked" => Waits(c)
  BY DEF NoLostWakeup
<1>b. ASSUME \A w \in Workspace : phase[w] # "none" => phase'[w] # "none"
      PROVE  Cardinality(Registered) <= Cardinality(Registered')
  <2>1. Registered \in SUBSET Registered' /\ Registered' \in SUBSET Workspace
    BY <1>b DEF Registered
  <2> QED BY <2>1, FS_Subset, FiniteAssumption
<1>c. Cardinality(Registered) \in Nat /\ Cardinality(Registered') \in Nat /\ MaxContexts \in Nat
  <2>1. Registered' \in SUBSET Workspace
    BY DEF Registered
  <2> QED BY <2>1, RegisteredFinite, CapacityAssumption, FiniteAssumption, FS_Subset, FS_CardinalityType
<1>d. ASSUME \A w \in Workspace : /\ phase[w] # "none" => phase'[w] # "none"
                                  /\ phase[w] = "leaving" => phase'[w] = "leaving"
                                  /\ phase[w] = "none" => phase'[w] = "none" \/ Room,
             \A c \in Client : request'[c] = "blocked" => home'[c] = home[c] /\ Waits(c)
      PROVE  NoLostWakeup'
  <2> SUFFICES ASSUME NEW c \in Client, request'[c] = "blocked"
               PROVE  Waits(c)'
    BY DEF NoLostWakeup
  <2>1. home'[c] = home[c] /\ home[c] \in Workspace /\ Waits(c)
    BY <1>d
  <2>2. CASE phase[home[c]] = "leaving"
    BY <1>d, <2>1, <2>2
  <2>3. CASE phase[home[c]] = "none" /\ Cardinality(Registered) >= MaxContexts
    <3>1. ~Room
      BY <1>c, <2>3 DEF Room
    <3>2. Cardinality(Registered') >= MaxContexts
      BY <1>b, <1>c, <1>d, <2>3
    <3> QED BY <1>d, <2>1, <2>3, <3>1, <3>2
  <2> QED BY <2>1, <2>2, <2>3
<1> HIDE DEF Waits
<1>0. CASE UNCHANGED <<phase, home, request>>
  BY <1>a, <1>d, <1>0
<1>1. ASSUME NEW c \in Client, AcquireRefused(c) \/ Join(c) \/ Use(c) \/ Release(c) \/ GiveUp(c)
      PROVE  NoLostWakeup'
  BY <1>a, <1>d, <1>1 DEF AcquireRefused, Join, Borrow, Use, Release, GiveUp, serving
<1>2. ASSUME NEW c \in Client, Create(c)
      PROVE  NoLostWakeup'
  BY <1>a, <1>d, <1>2 DEF Create, Borrow
<1>3. ASSUME NEW c \in Client, Block(c)
      PROVE  NoLostWakeup'
  <2>1. Waits(c)
    BY <1>c, <1>3 DEF Block, Joinable, Room, Phase, Waits
  <2> QED BY <1>a, <1>d, <1>3, <2>1 DEF Block, serving
<1>4. ASSUME NEW c \in Client, NEW w \in Workspace, Request(c, w)
      PROVE  NoLostWakeup'
  BY <1>a, <1>d, <1>4 DEF Request, serving
<1>5. ASSUME NEW w \in Workspace, Start(w) \/ Retire(w) \/ Failed(w) \/ Break(w)
      PROVE  NoLostWakeup'
  BY <1>a, <1>d, <1>5 DEF Start, Retire, Failed, Break, Goes, requests
<1>6. ASSUME NEW w \in Workspace, Remove(w)
      PROVE  NoLostWakeup'
  BY <1>6 DEF Remove, AfterCapacity, NoLostWakeup
<1>7. CASE Close
  BY <1>7 DEF Close, CloseWakes, NoLostWakeup
<1> QED BY <1>0, <1>1, <1>2, <1>3, <1>4, <1>5, <1>6, <1>7
        DEF Next, vars, serving, requests, ClientStep, Acquire, Submit, OwnerStep, KeepServing,
            NotifyWhenIdle, Wake, FinishWork
-----------------------------------------------------------------------------
(* The inductive invariant. *)

(* The strengthened invariant holds initially. *)
LEMMA InitIInv == Init => IInv
<1> SUFFICES ASSUME Init
             PROVE  IInv
  OBVIOUS
<1>1. FieldTypes
  <2>1. /\ phase \in [Workspace -> Phase] /\ refs \in [Workspace -> Int]
        /\ work \in [Workspace -> 0..MaxWork]
    BY WorkAssumption DEF Init, Phase
  <2>2. /\ watch \in [Workspace -> {"check", "idle", "borrowed"}]
        /\ request \in [Client -> {"idle", "acquiring", "blocked", "waiting", "using"}]
    BY DEF Init
  <2>3. woken \in [Workspace -> BOOLEAN] /\ outlived \in [Client -> BOOLEAN] /\ closing \in BOOLEAN
    BY DEF Init
  <2> QED BY <2>1, <2>2, <2>3 DEF Init, FieldTypes
<1>2. Counted
  <2>1. ASSUME NEW w \in Workspace
        PROVE  refs[w] = 0 /\ Holders(w) = {}
    BY DEF Init, Holders, Borrowing
  <2> QED BY <2>1, FS_EmptySet DEF Counted
<1>3. Cardinality(Registered) <= MaxContexts
  <2>1. Registered = {}
    BY DEF Init, Registered
  <2> QED BY <2>1, FS_EmptySet, CapacityAssumption
<1>4. NoLostWakeup /\ AcquirersHoldNothing
  BY DEF Init, NoLostWakeup, AcquirersHoldNothing
<1> QED BY <1>1, <1>2, <1>3, <1>4, CountedTypes DEF Init, IInv, RegistrySound, Counted

(* Every step preserves it. *)
LEMMA NextIInv == IInv /\ [Next]_vars => IInv'
<1> SUFFICES ASSUME IInv, [Next]_vars
             PROVE  IInv'
  OBVIOUS
<1>1. FieldTypes /\ Counted
  BY TypesAreFieldTypes DEF IInv, RegistrySound, Counted
<1>2. FieldTypes' /\ Counted'
  BY <1>1, NextTypes, NextCounts DEF IInv
<1>3. TypeOK'
  <2>1. Cardinality(Client) \in Nat
    BY FiniteAssumption, FS_CardinalityType
  <2>2. ASSUME NEW w \in Workspace
        PROVE  refs'[w] \in 0..Cardinality(Client)
    <3>1. Holders(w)' \in SUBSET Client
      BY DEF Holders
    <3> QED BY <1>2, <2>1, <3>1, FiniteAssumption, FS_Subset, FS_CardinalityType DEF Counted
  <2> QED BY <1>2, <2>2 DEF TypeOK, FieldTypes
<1>4. Cardinality(Registered') <= MaxContexts
  BY <1>1, NextCapacity DEF IInv, RegistrySound
<1>5. \A w \in Workspace : Retired(w)' /\ Executed(w)'
  BY <1>1, NextRetired DEF IInv, RegistrySound, Retired, Executed
<1>6. NoLostWakeup' /\ AcquirersHoldNothing'
  BY <1>1, NextWaits, NextAcquirers DEF IInv
<1> QED BY <1>2, <1>3, <1>4, <1>5, <1>6 DEF IInv, RegistrySound, Counted, Retired, Executed

(* References, capacity, retirement, waiting and fresh acquirers together. *)
THEOREM Invariance == Spec => []IInv
BY InitIInv, NextIInv, PTL DEF Spec

(* References are exact, capacity is respected, and neither a borrowed nor *)
(* a working runtime is retired, for any number of guests and requests.    *)
THEOREM RegistryIsSound == Spec => []RegistrySound
BY Invariance, PTL DEF IInv

(* No request waits for room that there is. *)
THEOREM WakeupsArrive == Spec => []NoLostWakeup
BY Invariance, PTL DEF IInv
-----------------------------------------------------------------------------
(* The storage of guests: GuestStorage. *)

(* Whoever has the quota lock has it alone, and the room it has found      *)
(* stays until it has taken it.                                            *)
OneChecks ==
  \A u, v \in Upload :
    stage[u] \in {"locked", "checked"} /\ stage[v] \in {"locked", "checked"} => u = v
RoomStays == \A u \in Upload : stage[u] = "checked" => Capacity(u)

(* A row belongs to an upload that has come so far. *)
RowsHaveUploads ==
  /\ \A u \in reserved : stage[u] \in {"parsing", "persisting", "done"}
  /\ \A u \in stored : stage[u] = "done"

(* Whoever has locked a family has locked it alone, and the number it has  *)
(* drawn remains the next one, for a key that is not there.                *)
OneNumbers ==
  \A u, v \in Upload :
    /\ stage[u] = "persisting" /\ stage[v] = "persisting"
    /\ key[u] # NoKey /\ key[v] # NoKey /\ guest[u] = guest[v]
    => u = v
NumberStays ==
  \A u \in Upload : stage[u] = "persisting" /\ key[u] # NoKey =>
    number[u] = Cardinality(Versions(guest[u])) + 2 /\ ~Replayed(u)

StorageIInv ==
  /\ QuotaRespected /\ OneChecks /\ RoomStays /\ RowsHaveUploads
  /\ VersionsInOrder /\ OneNumbers /\ NumberStays
-----------------------------------------------------------------------------
(* Counting rows. *)

(* The rows of each table can be counted. *)
LEMMA RowsFinite ==
  ASSUME StorageTyped
  PROVE  /\ IsFiniteSet(reserved) /\ Cardinality(reserved) \in Nat
         /\ IsFiniteSet(stored) /\ Cardinality(stored) \in Nat
         /\ IsFiniteSet(Guest) /\ Cardinality(Guest) \in Nat
BY GuestAssumption, FS_Subset, FS_CardinalityType DEF StorageTyped

(* So can the rows of one guest. *)
LEMMA OfFinite ==
  ASSUME NEW S \in SUBSET Upload, NEW g
  PROVE  IsFiniteSet(Of(S, g)) /\ Cardinality(Of(S, g)) \in Nat
<1>1. Of(S, g) \in SUBSET Upload
  BY DEF Of
<1> QED BY <1>1, GuestAssumption, FS_Subset, FS_CardinalityType

(* A row more counts for its guest and in total. *)
LEMMA OfAdd ==
  ASSUME NEW S \in SUBSET Upload, NEW u \in Upload \ S, NEW g
  PROVE  /\ Cardinality(S \cup {u}) = Cardinality(S) + 1
         /\ Cardinality(Of(S \cup {u}, g)) =
              Cardinality(Of(S, g)) + (IF guest[u] = g THEN 1 ELSE 0)
<1>1. IsFiniteSet(S)
  BY GuestAssumption, FS_Subset
<1>2. CASE guest[u] = g
  <2>1. Of(S \cup {u}, g) = Of(S, g) \cup {u} /\ u \notin Of(S, g)
    BY <1>2 DEF Of
  <2> QED BY <1>1, <1>2, <2>1, OfFinite, FS_AddElement
<1>3. CASE guest[u] # g
  <2>1. Of(S \cup {u}, g) = Of(S, g)
    BY <1>3 DEF Of
  <2> QED BY <1>1, <1>3, <2>1, OfFinite, FS_AddElement
<1> QED BY <1>2, <1>3

(* Fewer rows do not count more. *)
LEMMA OfFewer ==
  ASSUME NEW S \in SUBSET Upload, NEW T \in SUBSET S, NEW g
  PROVE  /\ Cardinality(T) <= Cardinality(S)
         /\ Cardinality(Of(T, g)) <= Cardinality(Of(S, g))
<1>1. IsFiniteSet(S)
  BY GuestAssumption, FS_Subset
<1>2. Of(T, g) \in SUBSET Of(S, g)
  BY DEF Of
<1> QED BY <1>1, <1>2, OfFinite, FS_Subset

(* What a guest uses and what all use are numbers. *)
LEMMA UsageTypes ==
  ASSUME StorageTyped
  PROVE  TotalUsage \in Nat /\ \A g \in Guest : Usage(g) \in Nat
<1>1. \A g \in Guest : Cardinality(Of(stored, g)) \in Nat /\ Cardinality(Of(reserved, g)) \in Nat
  BY OfFinite DEF StorageTyped
<1> QED BY <1>1, RowsFinite DEF Usage, TotalUsage

-----------------------------------------------------------------------------
(* What a step does to the rows. *)

LessIsUsed == TotalUsage' \in 0..TotalUsage /\ \A g \in Guest : Usage(g)' \in 0..Usage(g)

(* Giving reservations back frees room. *)
LEMMA RowsFreed ==
  ASSUME StorageTyped, reserved' \subseteq reserved, UNCHANGED <<stored, guest>>
  PROVE  LessIsUsed
<1>1. Cardinality(reserved') <= Cardinality(reserved) /\ Cardinality(reserved') \in Nat
  BY RowsFinite, FS_Subset, FS_CardinalityType
<1>2. ASSUME NEW g \in Guest
      PROVE  Usage(g)' \in 0..Usage(g)
  <2>1. Of(reserved, g)' = Of(reserved', g) /\ Of(stored, g)' = Of(stored, g)
    BY DEF Of
  <2>2. /\ Cardinality(Of(reserved', g)) <= Cardinality(Of(reserved, g))
        /\ Cardinality(Of(reserved', g)) \in Nat /\ Cardinality(Of(reserved, g)) \in Nat
        /\ Cardinality(Of(stored, g)) \in Nat
    BY OfFewer, OfFinite DEF StorageTyped
  <2> QED BY <2>1, <2>2 DEF Usage
<1> QED BY <1>1, <1>2, RowsFinite DEF LessIsUsed, TotalUsage

(* A document that replaces its reservation uses what this used. *)
LEMMA RowPersisted ==
  ASSUME StorageTyped, NEW u \in reserved, u \notin stored, reserved' = reserved \ {u},
         stored' = stored \cup {u}, UNCHANGED guest
  PROVE  LessIsUsed
<1> DEFINE S == reserved \ {u}
<1>0. /\ S \in SUBSET Upload /\ u \in Upload \ S /\ reserved = S \cup {u} /\ u \in Upload \ stored
      /\ stored \in SUBSET Upload
  BY DEF StorageTyped
<1>1. TotalUsage' = TotalUsage
  <2>1. Cardinality(reserved) = Cardinality(reserved') + 1
    <3>1. Cardinality(S \cup {u}) = Cardinality(S) + 1
      BY <1>0, OfAdd
    <3> QED BY <1>0, <3>1
  <2>2. Cardinality(stored') = Cardinality(stored) + 1
    BY <1>0, OfAdd
  <2>3. Cardinality(reserved') \in Nat
    BY RowsFinite, FS_Subset, FS_CardinalityType
  <2> QED BY <2>1, <2>2, <2>3, RowsFinite DEF TotalUsage
<1>2. ASSUME NEW g \in Guest
      PROVE  Usage(g)' = Usage(g)
  <2>1. Of(reserved, g)' = Of(S, g) /\ Of(stored, g)' = Of(stored \cup {u}, g)
    BY DEF Of
  <2>2. Cardinality(Of(reserved, g)) = Cardinality(Of(S, g)) + (IF guest[u] = g THEN 1 ELSE 0)
    <3>1. Cardinality(Of(S \cup {u}, g)) = Cardinality(Of(S, g)) + (IF guest[u] = g THEN 1 ELSE 0)
      BY <1>0, OfAdd
    <3> HIDE DEF S
    <3> QED BY <1>0, <3>1
  <2>3. Cardinality(Of(stored \cup {u}, g)) =
          Cardinality(Of(stored, g)) + (IF guest[u] = g THEN 1 ELSE 0)
    BY <1>0, OfAdd
  <2>4. Cardinality(Of(S, g)) \in Nat /\ Cardinality(Of(stored, g)) \in Nat
    BY <1>0, OfFinite
  <2> HIDE DEF S
  <2> QED BY <2>1, <2>2, <2>3, <2>4 DEF Usage
<1> QED BY <1>1, <1>2, UsageTypes DEF LessIsUsed

(* A reservation uses the room that was found. *)
LEMMA RowReserved ==
  ASSUME StorageTyped, NEW u \in Upload \ reserved, Capacity(u), reserved' = reserved \cup {u},
         UNCHANGED <<stored, guest>>,
         TotalUsage <= Total, \A g \in Guest : Usage(g) <= PerGuest
  PROVE  TotalUsage' <= Total /\ \A g \in Guest : Usage(g)' <= PerGuest
<1>0. reserved \in SUBSET Upload /\ stored \in SUBSET Upload /\ Total \in Nat /\ PerGuest \in Nat
  BY LimitsAssumption DEF StorageTyped
<1>1. TotalUsage' = TotalUsage + 1
  <2>1. Cardinality(reserved \cup {u}) = Cardinality(reserved) + 1
    BY <1>0, OfAdd
  <2> QED BY <2>1, RowsFinite DEF TotalUsage
<1>2. ASSUME NEW g \in Guest
      PROVE  Usage(g)' = Usage(g) + (IF guest[u] = g THEN 1 ELSE 0)
  <2>1. Of(reserved, g)' = Of(reserved \cup {u}, g) /\ Of(stored, g)' = Of(stored, g)
    BY DEF Of
  <2>2. Cardinality(Of(reserved \cup {u}, g)) =
          Cardinality(Of(reserved, g)) + (IF guest[u] = g THEN 1 ELSE 0)
    BY <1>0, OfAdd
  <2>3. Cardinality(Of(reserved, g)) \in Nat /\ Cardinality(Of(stored, g)) \in Nat
    BY <1>0, OfFinite
  <2> QED BY <2>1, <2>2, <2>3 DEF Usage
<1>3. Usage(guest[u]) < PerGuest /\ TotalUsage < Total
  BY DEF Capacity
<1> QED BY <1>0, <1>1, <1>2, <1>3, UsageTypes
-----------------------------------------------------------------------------
(* What every step preserves. *)

Requests == UNCHANGED <<guest, key>>

(* The number drawn for a version is the one after those there are.        *)
LEMMA NumberFollows ==
  ASSUME StorageTyped, VersionsInOrder, NEW g \in Guest
  PROVE  /\ Cardinality(Versions(g)) \in Nat
         /\ NextNumber(g) = Cardinality(Versions(g)) + 2
<1> DEFINE n == Cardinality(Versions(g))
           S == {1} \cup {number[v] : v \in Versions(g)}
<1>1. n \in Nat
  <2>1. Versions(g) \in SUBSET Upload
    BY DEF Versions, Of, StorageTyped
  <2> QED BY <2>1, GuestAssumption, FS_Subset, FS_CardinalityType
<1>2. {number[v] : v \in Versions(g)} = 2..(n + 1)
  BY DEF VersionsInOrder
<1> HIDE DEF n
<1>3. S = 1..(n + 1)
  BY <1>1, <1>2
<1>4. Max(S) = n + 1
  BY <1>1, <1>3 DEF Max
<1> QED BY <1>1, <1>4 DEF NextNumber, n

(* Every step writes values of their types, and no request changes.        *)
LEMMA StorageNextTypes ==
  ASSUME StorageTyped, VersionsInOrder, [StorageNext]_storageVars
  PROVE  StorageTyped' /\ Requests
<1> USE DEF StorageTyped, Stage, Requests, Reaches
<1>0. CASE UNCHANGED storageVars
  BY <1>0 DEF storageVars
<1>1. ASSUME NEW u \in Upload, LockVersion(u) \/ Check(u) \/ Refuse(u) \/ BeginFamily(u)
             \/ LoseConnection(u)
      PROVE  StorageTyped' /\ Requests
  BY <1>1 DEF LockVersion, Check, Refuse, BeginFamily, LoseConnection
<1>2. ASSUME NEW u \in Upload, LockQuota(u) \/ Reserve(u) \/ Persist(u) \/ Fail(u)
      PROVE  StorageTyped' /\ Requests
  BY <1>2 DEF LockQuota, Reserve, Persist, Commit, Fail
<1>3. ASSUME NEW u \in Upload, BeginVersion(u)
      PROVE  StorageTyped' /\ Requests
  BY <1>3, NumberFollows DEF BeginVersion
<1> QED BY <1>0, <1>1, <1>2, <1>3 DEF StorageNext, UploadStep

(* The rows and the stages of the uploads that wrote them. *)
Placed ==
  /\ \A u \in Upload : stage[u] \in {"parsing", "persisting"} => u \in reserved
  /\ reserved \cap stored = {}
  /\ RowsHaveUploads
  /\ OneChecks

(* Rows, live reservations and the holder of the quota lock stay right.   *)
LEMMA NextPlaced ==
  ASSUME StorageTyped, Placed, [StorageNext]_storageVars
  PROVE  Placed'
<1> USE DEF StorageTyped, Stage, Placed, RowsHaveUploads, OneChecks, Reaches
<1>0. CASE UNCHANGED storageVars
  BY <1>0 DEF storageVars
<1>1. ASSUME NEW u \in Upload, LockVersion(u) \/ Check(u) \/ Refuse(u)
      PROVE  Placed'
  BY <1>1 DEF LockVersion, Check, Refuse
<1>2. ASSUME NEW u \in Upload, LockQuota(u)
      PROVE  Placed'
  BY <1>2 DEF LockQuota, QuotaLockFree, LeaseHeld
<1>3. ASSUME NEW u \in Upload, Reserve(u)
      PROVE  Placed'
  BY <1>3 DEF Reserve
<1>4. ASSUME NEW u \in Upload, BeginVersion(u) \/ BeginFamily(u)
      PROVE  Placed'
  BY <1>4 DEF BeginVersion, BeginFamily
<1>5. ASSUME NEW u \in Upload, Persist(u) \/ Fail(u)
      PROVE  Placed'
  BY <1>5 DEF Persist, Commit, Fail
<1>6. ASSUME NEW u \in Upload, LoseConnection(u)
      PROVE  Placed'
  BY <1>6 DEF LoseConnection
<1> QED BY <1>0, <1>1, <1>2, <1>3, <1>4, <1>5, <1>6 DEF StorageNext, UploadStep

Limits == TotalUsage <= Total /\ \A g \in Guest : Usage(g) <= PerGuest

(* Only a reservation uses more than was used before it. *)
LEMMA NextUsage ==
  ASSUME StorageTyped, VersionsInOrder, Placed, [StorageNext]_storageVars
  PROVE  LessIsUsed \/ \E u \in Upload : Reserve(u)
<1>1. CASE reserved' \subseteq reserved /\ UNCHANGED stored
  BY <1>1, RowsFreed, StorageNextTypes DEF Requests
<1>2. ASSUME NEW u \in Upload, Persist(u)
      PROVE  LessIsUsed
  BY <1>2, RowPersisted DEF Persist, Commit, Placed
<1> QED BY <1>1, <1>2 DEF StorageNext, storageVars, UploadStep, LockVersion, LockQuota, Check,
                          Refuse, BeginVersion, BeginFamily, Fail, LoseConnection

(* No step breaks the limits, and the room that was found stays. *)
LEMMA NextLimits ==
  ASSUME StorageTyped, VersionsInOrder, Placed, Limits, RoomStays, [StorageNext]_storageVars
  PROVE  Limits' /\ RoomStays'
<1>a. Requests /\ StorageTyped'
  BY StorageNextTypes
<1>b. Total \in Nat /\ PerGuest \in Nat
  BY LimitsAssumption
<1>1. CASE LessIsUsed
  <2>1. Limits'
    BY <1>a, <1>b, <1>1, UsageTypes DEF LessIsUsed, Limits, StorageTyped
  <2>2. ASSUME NEW u \in Upload, Capacity(u)
        PROVE  Capacity(u)'
    BY <1>a, <1>b, <1>1, <2>2, UsageTypes DEF LessIsUsed, Capacity, Requests, StorageTyped
  <2>3. ASSUME NEW u \in Upload, stage'[u] = "checked", stage[u] # "checked"
        PROVE  Capacity(u)
    BY <2>3 DEF StorageNext, storageVars, StorageTyped, Reaches, UploadStep, LockVersion,
                LockQuota, Check, Refuse, Reserve, BeginVersion, BeginFamily, Persist, Fail, LoseConnection
  <2> QED BY <2>1, <2>2, <2>3 DEF RoomStays
<1>2. ASSUME NEW u \in Upload, Reserve(u)
      PROVE  Limits' /\ RoomStays'
  <2>1. Capacity(u) /\ u \notin reserved
    BY <1>2 DEF Reserve, RoomStays, Placed, RowsHaveUploads
  <2>2. Limits'
    BY <1>2, <2>1, RowReserved DEF Reserve, Limits
  <2>3. \A v \in Upload : stage'[v] # "checked"
    BY <1>2 DEF Reserve, Reaches, Placed, OneChecks, StorageTyped
  <2> QED BY <2>2, <2>3 DEF RoomStays
<1> QED BY <1>1, <1>2, NextUsage
-----------------------------------------------------------------------------
(* The numbers of versions. *)

Numbered == OneNumbers /\ NumberStays

(* A step that stores nothing leaves the versions of every family alone.   *)
LEMMA VersionsKept ==
  ASSUME StorageTyped, Placed, [StorageNext]_storageVars, UNCHANGED stored
  PROVE  /\ Requests /\ \A v \in stored : number'[v] = number[v]
         /\ \A g \in Guest : Versions(g)' = Versions(g)
         /\ \A v \in Upload : Replayed(v)' <=> Replayed(v)
<1>1. Requests
  BY DEF Requests, StorageNext, storageVars, UploadStep, LockVersion, LockQuota, Check, Refuse,
         Reserve, BeginVersion,
         BeginFamily, Persist, Fail, LoseConnection
<1>2. ASSUME NEW v \in stored
      PROVE  number'[v] = number[v]
  BY DEF StorageTyped, Placed, RowsHaveUploads, StorageNext, storageVars, UploadStep,
         LockVersion, LockQuota, Check, Refuse,
         Reserve, BeginVersion, BeginFamily, Persist, Fail, LoseConnection
<1> QED BY <1>1, <1>2 DEF Requests, Versions, Of, Replayed, SameRequest

(* A number is drawn under the lock of its family. *)
LEMMA NumberDrawn ==
  ASSUME StorageTyped, Placed, VersionsInOrder, Numbered, [StorageNext]_storageVars, UNCHANGED stored
  PROVE  VersionsInOrder' /\ Numbered'
<1>a. /\ Requests /\ \A v \in stored : number'[v] = number[v]
      /\ \A g \in Guest : Versions(g)' = Versions(g)
      /\ \A v \in Upload : Replayed(v)' <=> Replayed(v)
  BY VersionsKept
<1>1. VersionsInOrder'
  <2>1. ASSUME NEW g \in Guest
        PROVE  {number'[u] : u \in Versions(g)'} = 2..(Cardinality(Versions(g)') + 1)
    <3>1. {number'[u] : u \in Versions(g)'} = {number[u] : u \in Versions(g)}
      BY <1>a DEF Versions, Of
    <3> QED BY <1>a, <3>1 DEF VersionsInOrder
  <2> QED BY <1>a, <2>1 DEF VersionsInOrder, Requests, SameRequest
<1>2. ASSUME \A v \in Upload : stage'[v] = "persisting" /\ key[v] # NoKey =>
               stage[v] = "persisting" /\ number'[v] = number[v]
      PROVE  Numbered'
  <2>1. \A v \in Upload : Versions(guest[v])' = Versions(guest[v])
    BY <1>a DEF StorageTyped, Requests
  <2> QED BY <1>a, <1>2, <2>1 DEF Numbered, OneNumbers, NumberStays, Requests, StorageTyped
<1>3. ASSUME NEW u \in Upload, BeginVersion(u)
      PROVE  Numbered'
  <2>1. OneNumbers'
    BY <1>a, <1>3 DEF Numbered, OneNumbers, BeginVersion, FamilyLockFree, Reaches, Requests, StorageTyped
  <2>2. ASSUME NEW v \in Upload, stage'[v] = "persisting", key'[v] # NoKey
        PROVE  number'[v] = Cardinality(Versions(guest[v])') + 2 /\ ~Replayed(v)'
    <3>1. guest[v] \in Guest /\ Versions(guest[v])' = Versions(guest[v])
      BY <1>a DEF StorageTyped, Requests
    <3>2. CASE v = u
      BY <1>a, <1>3, <3>1, <3>2, NumberFollows DEF BeginVersion, StorageTyped
    <3>3. CASE v # u
      BY <1>a, <1>3, <2>2, <3>1, <3>3 DEF BeginVersion, Reaches, StorageTyped, Requests,
                                          Numbered, NumberStays
    <3> QED BY <3>2, <3>3
  <2> QED BY <2>1, <2>2 DEF Numbered, NumberStays
<1>4. CASE UNCHANGED storageVars
  <2>1. UNCHANGED <<stage, key, number>>
    BY <1>4 DEF storageVars
  <2> QED BY <1>1, <1>2, <2>1
<1>5. ASSUME NEW u \in Upload, LockVersion(u) \/ LockQuota(u) \/ Check(u) \/ Refuse(u) \/ Reserve(u)
             \/ BeginFamily(u) \/ Fail(u) \/ LoseConnection(u)
      PROVE  Numbered'
  BY <1>2, <1>5 DEF LockVersion, LockQuota, Check, Refuse, Reserve, BeginFamily, Fail, LoseConnection,
                    Reaches, StorageTyped
<1>6. ASSUME NEW u \in Upload, Persist(u)
      PROVE  Numbered'
  BY <1>2, <1>6 DEF Persist, Reaches, StorageTyped
<1> QED BY <1>1, <1>3, <1>4, <1>5, <1>6 DEF StorageNext, UploadStep

(* The version that is stored has the next number and a new key. *)
LEMMA NumberUsed ==
  ASSUME StorageTyped, Placed, VersionsInOrder, Numbered, NEW u \in Upload, Persist(u)
  PROVE  VersionsInOrder' /\ Numbered'
<1>a. /\ UNCHANGED <<guest, key, number>> /\ stored' = stored \cup {u} /\ stage[u] = "persisting"
      /\ u \notin stored /\ stage' = [stage EXCEPT ![u] = "done"]
  BY DEF Persist, Reaches, Placed, RowsHaveUploads
<1>b. ASSUME NEW g \in Guest
      PROVE  Versions(g)' = IF guest[u] = g /\ key[u] # NoKey THEN Versions(g) \cup {u} ELSE Versions(g)
  BY <1>a DEF Versions, Of
<1>1. ASSUME NEW g \in Guest
      PROVE  {number'[v] : v \in Versions(g)'} = 2..(Cardinality(Versions(g)') + 1)
  <2>0. /\ {number[v] : v \in Versions(g)} = 2..(Cardinality(Versions(g)) + 1)
        /\ Cardinality(Versions(g)) \in Nat
    BY NumberFollows DEF VersionsInOrder
  <2>1. CASE guest[u] = g /\ key[u] # NoKey
    <3>1. u \notin Versions(g) /\ IsFiniteSet(Versions(g))
      BY <1>a, GuestAssumption, FS_Subset DEF Versions, Of, StorageTyped
    <3>2. Cardinality(Versions(g)') = Cardinality(Versions(g)) + 1
      BY <1>b, <2>1, <3>1, FS_AddElement
    <3>3. {number'[v] : v \in Versions(g)'} = {number[v] : v \in Versions(g)} \cup {number[u]}
      BY <1>a, <1>b, <2>1
    <3>4. number[u] = Cardinality(Versions(g)) + 2
      BY <1>a, <2>1 DEF Numbered, NumberStays
    <3> QED BY <2>0, <3>2, <3>3, <3>4
  <2>2. CASE ~(guest[u] = g /\ key[u] # NoKey)
    BY <1>a, <1>b, <2>0, <2>2
  <2> QED BY <2>1, <2>2
<1>2. ASSUME NEW v \in stored', NEW w \in stored', SameRequest(v, w)', key'[v] # NoKey
      PROVE  v = w
  BY <1>a, <1>2 DEF SameRequest, VersionsInOrder, Numbered, NumberStays, Replayed, StorageTyped
<1>3. OneNumbers'
  BY <1>a DEF Numbered, OneNumbers, StorageTyped
<1>4. ASSUME NEW v \in Upload, stage'[v] = "persisting", key'[v] # NoKey
      PROVE  number'[v] = Cardinality(Versions(guest[v])') + 2 /\ ~Replayed(v)'
  <2>1. v # u /\ stage[v] = "persisting" /\ key[v] # NoKey /\ guest[v] \in Guest
    BY <1>a, <1>4 DEF StorageTyped
  <2>2. ~(guest[u] = guest[v] /\ key[u] # NoKey)
    BY <1>a, <2>1 DEF Numbered, OneNumbers
  <2>3. Versions(guest[v])' = Versions(guest[v])
    BY <1>a, <1>b, <2>1, <2>2
  <2>4. ~Replayed(v)'
    BY <1>a, <2>1, <2>2 DEF Replayed, SameRequest, Numbered, NumberStays
  <2> QED BY <1>a, <2>1, <2>3, <2>4 DEF Numbered, NumberStays
<1> QED BY <1>1, <1>2, <1>3, <1>4 DEF VersionsInOrder, Numbered, NumberStays
-----------------------------------------------------------------------------
(* The inductive invariant. *)

(* The strengthened invariant holds initially. *)
LEMMA StorageInitSound == StorageInit => StorageIInv
<1> SUFFICES ASSUME StorageInit
             PROVE  StorageIInv
  OBVIOUS
<1>1. StorageTyped
  BY DEF StorageInit, StorageTyped, Stage
<1>2. \A g \in Guest : Of(stored, g) = {} /\ Of(reserved, g) = {} /\ Versions(g) = {}
  BY DEF StorageInit, Of, Versions
<1>3. TotalUsage <= Total /\ \A g \in Guest : Usage(g) <= PerGuest
  <2>1. Cardinality(Guest) \in Nat
    BY GuestAssumption, FS_CardinalityType
  <2> QED BY <1>2, <2>1, FS_EmptySet, GuestAssumption, LimitsAssumption
             DEF StorageInit, TotalUsage, Usage
<1>4. VersionsInOrder
  <2>1. ASSUME NEW g \in Guest
        PROVE  {number[u] : u \in Versions(g)} = 2..(Cardinality(Versions(g)) + 1)
    BY <1>2, FS_EmptySet
  <2> QED BY <2>1 DEF VersionsInOrder, StorageInit
<1> QED BY <1>1, <1>3, <1>4 DEF StorageInit, StorageIInv, QuotaRespected, OneChecks, RoomStays,
                                RowsHaveUploads, OneNumbers, NumberStays

(* Every step preserves it. *)
LEMMA StorageNextSound == StorageIInv /\ [StorageNext]_storageVars => StorageIInv'
<1> SUFFICES ASSUME StorageIInv, [StorageNext]_storageVars
             PROVE  StorageIInv'
  OBVIOUS
<1>1. StorageTyped /\ VersionsInOrder /\ Placed /\ Limits /\ Numbered
  BY DEF StorageIInv, QuotaRespected, Placed, Limits, Numbered
<1>2. StorageTyped' /\ Placed' /\ Limits' /\ RoomStays'
  BY <1>1, StorageNextTypes, NextPlaced, NextLimits DEF StorageIInv
<1>3. UNCHANGED stored \/ \E u \in Upload : Persist(u)
  BY DEF StorageNext, storageVars, UploadStep, LockVersion, LockQuota, Check, Refuse, Reserve,
         BeginVersion,
         BeginFamily, Fail, LoseConnection
<1>4. VersionsInOrder' /\ Numbered'
  BY <1>1, <1>3, NumberDrawn, NumberUsed
<1> QED BY <1>2, <1>4 DEF StorageIInv, QuotaRespected, Placed, Limits, Numbered

(* Limits, rows, locks and numbers together. *)
THEOREM StorageInvariance == StorageSpec => []StorageIInv
BY StorageInitSound, StorageNextSound, PTL DEF StorageSpec

(* Documents and reservations stay within the limits of each guest and of  *)
(* all, for any number of uploads, guests and lost connections; live       *)
(* reservations stay and nothing is counted twice.                         *)
THEOREM QuotaIsRespected == StorageSpec => []QuotaRespected
BY StorageInvariance, PTL DEF StorageIInv

(* The versions of a family are numbered without a gap, each key once.     *)
THEOREM VersionsAreInOrder == StorageSpec => []VersionsInOrder
BY StorageInvariance, PTL DEF StorageIInv
=============================================================================
