---------------------------- MODULE GuestStorage ----------------------------
(***************************************************************************)
(* The storage quota of guests.  An upload reserves capacity under the     *)
(* quota lock, gives the lock back, parses its document while a session    *)
(* lock (its lease) shows that it lives, and turns the reservation into a  *)
(* document in one transaction of the same connection; what a lost         *)
(* connection leaves behind is reclaimed by the next admission             *)
(* (upload_with_guest_limits, UploadReservation, PostgresReviewPlatform    *)
(* .upload, prepare_upload and finish_upload).                             *)
(*                                                                         *)
(* Every upload has the size one; the byte limits of the code are limits   *)
(* on sums just like its limits on counts.  Each guest has one document    *)
(* family whose first version exists; every other document is the one row  *)
(* of the upload that stored it.  The locks are a matter of the stage an   *)
(* upload has reached: a lost connection gives them back.                  *)
(* A definition named ...Variant is a mistake used by no action.           *)
(***************************************************************************)
EXTENDS Naturals, FiniteSets, FiniteSetsExt

CONSTANTS
  Upload,          \* uploads, each with a connection of its own
  Guest,           \* guest workspaces
  Key,             \* idempotency keys of version uploads
  NoKey,           \* an upload that begins a new family
  PerGuest,        \* per_guest_documents and per_guest_bytes
  Total            \* total_bytes

ASSUME LimitsAssumption == PerGuest \in Nat \ {0} /\ Total \in Nat \ {0}
ASSUME KeyAssumption == NoKey \notin Key

(* The first versions were uploaded under the same limits. *)
ASSUME GuestAssumption ==
  /\ IsFiniteSet(Upload) /\ IsFiniteSet(Guest)
  /\ Cardinality(Guest) <= Total

VARIABLES
  stage,       \* how far each upload has come
  guest,       \* its workspace
  key,         \* its idempotency key
  reserved,    \* the rows of guest_upload_reservations
  stored,      \* the rows of document_versions, as the uploads that wrote them
  number       \* the version number computed for an upload

storageVars == <<stage, guest, key, reserved, stored, number>>

Stage == {"new", "keyed", "locked", "checked", "parsing", "persisting", "done"}

StorageInit ==
  /\ stage = [u \in Upload |-> "new"]
  /\ guest \in [Upload -> Guest]
  /\ key \in [Upload -> Key \cup {NoKey}]
  /\ reserved = {}
  /\ stored = {}
  /\ number = [u \in Upload |-> 0]

Reaches(u, s) == stage' = [stage EXCEPT ![u] = s]
SameRequest(u, v) == guest[u] = guest[v] /\ key[u] = key[v]

(* Two uploads with one key of one guest exclude each other by a session   *)
(* lock, held until the connection closes.                                 *)
VersionLockFreeVariant(u) ==
  \A v \in Upload \ {u} : SameRequest(u, v) => stage[v] = "new"
VersionLockFree(u) ==
  \A v \in Upload \ {u} : SameRequest(u, v) => stage[v] \in {"new", "done"}

QuotaLockFree(u) == \A v \in Upload \ {u} : stage[v] \notin {"locked", "checked"}

(* FOR UPDATE of the family, until the transaction of the document ends.   *)
FamilyLockFreeVariant(u) == TRUE
FamilyLockFree(u) ==
  \A v \in Upload \ {u} :
    guest[v] = guest[u] /\ key[v] # NoKey => stage[v] # "persisting"

(* The lease of a reservation is held while its connection is open.        *)
LeaseHeldVariant(v) == stage[v] = "persisting"
LeaseHeld(v) == stage[v] \in {"parsing", "persisting"}

Replayed(u) == \E v \in stored : SameRequest(u, v)
-----------------------------------------------------------------------------
(* upload_with_guest_limits(), before the reservation. *)

LockVersion(u) ==
  /\ stage[u] = "new" /\ key[u] # NoKey
  /\ VersionLockFree(u)
  /\ Reaches(u, IF Replayed(u) THEN "done" ELSE "keyed")
  /\ UNCHANGED <<guest, key, reserved, stored, number>>

(* The quota lock, then _reclaim_abandoned(). *)
LockQuota(u) ==
  /\ \/ stage[u] = "keyed"
     \/ stage[u] = "new" /\ key[u] = NoKey
  /\ QuotaLockFree(u)
  /\ reserved' = {v \in reserved : LeaseHeld(v)}
  /\ Reaches(u, "locked")
  /\ UNCHANGED <<guest, key, stored, number>>

(* _check_capacity() reads documents and reservations in one snapshot.     *)
Of(S, g) == {v \in S : guest[v] = g}
Usage(g) == 1 + Cardinality(Of(stored, g)) + Cardinality(Of(reserved, g))
TotalUsage == Cardinality(Guest) + Cardinality(stored) + Cardinality(reserved)
Capacity(u) == Usage(guest[u]) < PerGuest /\ TotalUsage < Total

Check(u) ==
  /\ stage[u] = "locked"
  /\ Capacity(u)
  /\ Reaches(u, "checked")
  /\ UNCHANGED <<guest, key, reserved, stored, number>>

(* The limits, or the free space of the disk, leave no room. *)
Refuse(u) ==
  /\ stage[u] = "locked"
  /\ Reaches(u, "done")
  /\ UNCHANGED <<guest, key, reserved, stored, number>>

(* The lease, the row and the commit that gives the quota lock back.       *)
Reserve(u) ==
  /\ stage[u] = "checked"
  /\ reserved' = reserved \cup {u}
  /\ Reaches(u, "parsing")
  /\ UNCHANGED <<guest, key, stored, number>>
-----------------------------------------------------------------------------
(* PostgresReviewPlatform.upload() with a reservation. *)

Versions(g) == {v \in Of(stored, g) : key[v] # NoKey}
NextNumber(g) == Max({1} \cup {number[v] : v \in Versions(g)}) + 1

(* persist(), prepare_upload(): the reservation is there, the family is    *)
(* locked, the key has no version yet.                                     *)
BeginVersion(u) ==
  /\ stage[u] = "parsing" /\ u \in reserved
  /\ key[u] # NoKey /\ FamilyLockFree(u) /\ ~Replayed(u)
  /\ number' = [number EXCEPT ![u] = NextNumber(guest[u])]
  /\ Reaches(u, "persisting")
  /\ UNCHANGED <<guest, key, reserved, stored>>

BeginFamily(u) ==
  /\ stage[u] = "parsing" /\ u \in reserved
  /\ key[u] = NoKey
  /\ Reaches(u, "persisting")
  /\ UNCHANGED <<guest, key, reserved, stored, number>>

(* The document replaces the reservation when the transaction commits; an  *)
(* answer lost with the connection changes nothing any more.               *)
Commit(u) == reserved' = reserved \ {u}

Persist(u) ==
  /\ stage[u] = "persisting"
  /\ stored' = stored \cup {u}
  /\ Commit(u)
  /\ Reaches(u, "done")
  /\ UNCHANGED <<guest, key, number>>

(* An upload that fails gives its reservation back. *)
Fail(u) ==
  /\ stage[u] \in {"parsing", "persisting"}
  /\ reserved' = reserved \ {u}
  /\ Reaches(u, "done")
  /\ UNCHANGED <<guest, key, stored, number>>

(* The connection is lost: what has been committed stays. *)
LoseConnection(u) ==
  /\ stage[u] \notin {"new", "done"}
  /\ Reaches(u, "done")
  /\ UNCHANGED <<guest, key, reserved, stored, number>>

UploadStep(u) ==
  \/ LockVersion(u) \/ LockQuota(u) \/ Check(u) \/ Refuse(u) \/ Reserve(u)
  \/ BeginVersion(u) \/ BeginFamily(u) \/ Persist(u) \/ Fail(u)

StorageNext == \E u \in Upload : UploadStep(u) \/ LoseConnection(u)

StorageSpec == StorageInit /\ [][StorageNext]_storageVars

(* The thread of an upload goes on whenever the locks let it.              *)
StorageFairSpec == StorageSpec /\ \A u \in Upload : WF_storageVars(UploadStep(u))
-----------------------------------------------------------------------------
(* Properties. *)

(* Every upload and every row holds a value of its type. *)
StorageTyped ==
  /\ stage \in [Upload -> Stage]
  /\ guest \in [Upload -> Guest]
  /\ key \in [Upload -> Key \cup {NoKey}]
  /\ reserved \subseteq Upload
  /\ stored \subseteq Upload
  /\ number \in [Upload -> Nat]

(* Documents and reservations never exceed the limits, although capacity   *)
(* is checked in one transaction and used in a later one.  Nobody reclaims *)
(* the reservation of an upload that still runs, and a stored document     *)
(* does not keep its reservation, wherever the upload was cut off.         *)
QuotaRespected ==
  /\ StorageTyped
  /\ \A g \in Guest : Usage(g) <= PerGuest
  /\ TotalUsage <= Total
  /\ \A u \in Upload : stage[u] \in {"parsing", "persisting"} => u \in reserved
  /\ reserved \cap stored = {}

(* The versions of a family are numbered 1, 2, ..., n without a gap and    *)
(* without a number or a key used twice.                                   *)
VersionsInOrder ==
  /\ \A g \in Guest :
       {number[u] : u \in Versions(g)} = 2..(Cardinality(Versions(g)) + 1)
  /\ \A u, v \in stored : SameRequest(u, v) /\ key[u] # NoKey => u = v

(* No upload waits forever for the locks of others. *)
UploadsEnd == \A u \in Upload : <>(stage[u] = "done")
=============================================================================
