------------------------------ MODULE QueryCache ------------------------------
(***************************************************************************)
(* One query of the TanStack Query cache the web client reads through, as  *)
(* the code of apps/web relies on it (version 5.102.8): a query keeps its  *)
(* last data while it is fetched again, has one live fetch at most, and a  *)
(* fetch that was cancelled never reaches the cache.  A fetch is "sent",   *)
(* then "answered" with what the server held at that moment, then received *)
(* or lost.                                                                *)
(***************************************************************************)
CONSTANT NoData    \* a query that has never been answered

(* waiting are the callers that began the live fetch, joined those that    *)
(* await it besides.                                                       *)
Empty == [data |-> NoData, failed |-> FALSE, fetch |-> "none", answer |-> NoData,
          waiting |-> {}, joined |-> {}]

(* A value may stand in the cache or in an answer on its way.              *)
IsQuery(q, Values, Callers) ==
  q \in [data : Values \cup {NoData}, failed : BOOLEAN,
         fetch : {"none", "sent", "answered"}, answer : Values \cup {NoData},
         waiting : SUBSET Callers, joined : SUBSET Callers]

Loaded(q) == q.data # NoData
Fetching(q) == q.fetch # "none"
Waiters(q) == q.waiting \cup q.joined
Idle(q) == [q EXCEPT !.fetch = "none", !.answer = NoData, !.waiting = {}, !.joined = {}]

(* A mount, an interval or the focus of the window starts a fetch only     *)
(* when there is none.                                                     *)
Fetch(q) == IF Fetching(q) THEN q ELSE [q EXCEPT !.fetch = "sent"]

(* invalidateQueries(), refetchQueries() and the refetch() of a button     *)
(* replace the live fetch of a query with data, and join that of a query   *)
(* without.  Whoever began the fetch that is replaced awaits the one that  *)
(* replaces it instead; whoever had only joined it is released.            *)
Refetch(q, callers) ==
  IF Loaded(q) \/ ~Fetching(q)
    THEN [q EXCEPT !.fetch = "sent", !.answer = NoData,
                   !.waiting = callers, !.joined = q.waiting]
    ELSE [q EXCEPT !.joined = @ \cup callers]

(* cancelQueries() and setQueryData(). *)
Cancel(q) == Idle(q)
SetData(q, value) == [q EXCEPT !.data = value, !.failed = FALSE]

Answered(q, value) == [q EXCEPT !.fetch = "answered", !.answer = value]
Received(q) == [Idle(q) EXCEPT !.data = q.answer, !.failed = FALSE]
Lost(q) == [Idle(q) EXCEPT !.failed = TRUE]
===============================================================================
