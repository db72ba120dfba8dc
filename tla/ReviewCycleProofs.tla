--------------------------- MODULE ReviewCycleProofs ---------------------------
(***************************************************************************)
(* For any findings, issues, calls and histories: the types hold, the next *)
(* step on a page that is up to date agrees with the service, a completion *)
(* that lapsed never comes back by itself, and what a person wrote about a *)
(* fix outlives refusals, lost calls and what happens to other cards.      *)
(*                                                                         *)
(* Every action writes the rows in one of seven ways (RowStep).  The types *)
(* and the next step need that every finding of a compared report has one  *)
(* entry (OneEntryEach) and that no entry has more revisions than its      *)
(* cycle (Bounded); the completion, that the state a completion is of is   *)
(* never met again: decisions and fixes only gain revisions, and a link    *)
(* leaves a trace for ever (Past).  The explanations need that a card that *)
(* holds anything is on the page (Page).                                   *)
(***************************************************************************)
EXTENDS ReviewCycle, TLAPS

Decisions == [status : Status, revision : Nat]
Entries ==
  [current : Finding \cup {Nobody},
   status : {"new", "persisting", "not_detected", "uncertain", "not_checked", "reappeared"},
   carried : BOOLEAN, previous : Status, resolved : BOOLEAN, revision : Nat]

DecisionStep ==
  \E f \in Finding, v \in Verdict :
    /\ decision[f].revision < MaxDecision
    /\ decision' = [decision EXCEPT ![f] = [status |-> v, revision |-> @.revision + 1]]
ComparisonStep ==
  (cycle.stage = "unavailable" \/ cycle.revision < MaxRevision) /\ Compare(cycle')
FailureStep ==
  cycle.stage = "unavailable" /\ cycle' = [cycle EXCEPT !.stage = "comparison_failed"]
ResolutionStep ==
  /\ cycle.revision < MaxRevision
  /\ \E i \in DOMAIN cycle.entries, resolved \in BOOLEAN : cycle' = WithResolution(i, resolved)
LinkStep ==
  /\ cycle.revision < MaxRevision
  /\ \E f \in Finding, old \in Old \cap DOMAIN cycle.entries :
       cycle.entries[old].current \in {Nobody, f} /\ cycle' = WithLink(f, old)
CompletionStep ==
  cycle.revision < MaxRevision /\ Settled(cycle, decision) /\ cycle' = WithCompletion

RowStep ==
  \/ UNCHANGED <<cycle, decision>>
  \/ DecisionStep /\ UNCHANGED cycle
  \/ /\ UNCHANGED decision
     /\ \/ ComparisonStep
        \/ FailureStep
        \/ ResolutionStep
        \/ LinkStep
        \/ CompletionStep /\ \E c \in Call : Complete(c)

RowTypes ==
  /\ decision \in [Finding -> Decisions]
  /\ cycle \in [stage : Stage, limited : BOOLEAN, revision : Nat,
                entries : {cycle.entries}, completion : {cycle.completion}]
  /\ cycle.entries \in [DOMAIN cycle.entries -> Entries]
  /\ DOMAIN cycle.entries \subseteq Issue

(* The part of the type invariant that the next step rests on. *)
OneEntryEach ==
  cycle.stage = "ready" => \A f \in Finding : \E i \in Issue : EntriesOf(cycle, f) = {i}

IInv == RowTypes /\ OneEntryEach
-----------------------------------------------------------------------------
(* Every action is one of the seven ways of writing the rows. *)

(* A step of the system is a step of its rows. *)
LEMMA StepIsRowStep ==
  ASSUME Next
  PROVE  RowStep
<1>1. CASE Load \/ ReceiveCycle \/ LoseFetch \/ SendCompletion \/ SendComparison
  BY <1>1 DEF Load, ReceiveCycle, LoseFetch, SendCompletion, SendComparison, Send, RowStep
<1>2. CASE GetCycle
  BY <1>2 DEF GetCycle, FirstComparison, Disturb, RowStep, ComparisonStep, FailureStep
<1>3. CASE AfterPublish
  BY <1>3 DEF AfterPublish, FirstComparison, Disturb, RowStep, ComparisonStep, FailureStep
<1>4. CASE ReviseElsewhere
  BY <1>4 DEF ReviseElsewhere, RowStep, ResolutionStep, LinkStep
<1>5. CASE \E f \in Finding, v \in Verdict : DecideElsewhere(f, v)
  BY <1>5 DEF DecideElsewhere, RowStep, DecisionStep
<1>6. CASE \E i \in Issue : \/ Explain(i) \/ SendResolution(i) \/ Reload(i) \/ GoOn(i)
                            \/ \E old \in Old : SendLink(i, old)
  BY <1>6 DEF Explain, SendResolution, Reload, GoOn, SendLink, Send, RowStep
<1>7. ASSUME NEW c \in Call, Network(c)
      PROVE  RowStep
  <2>1. CASE Refuse(c) \/ Succeed(c) \/ Refused(c) \/ LoseCall(c) \/ Retry(c)
    BY <2>1 DEF Refuse, Succeed, Refused, LoseCall, Retry, RowStep
  <2>2. CASE Resolve(c)
    <3>1. /\ call[c].issue \in DOMAIN cycle.entries /\ (call[c].kind = "resolve") \in BOOLEAN
          /\ cycle.revision < MaxRevision
      BY <2>2 DEF Resolve, Accepts, Missing
    <3> QED BY <2>2, <3>1 DEF Resolve, Reply, RowStep, ResolutionStep
  <2>3. CASE Link(c)
    <3>1. /\ call[c].issue \in Finding /\ call[c].old \in Old \cap DOMAIN cycle.entries
          /\ cycle.entries[call[c].old].current \in {Nobody, call[c].issue}
          /\ cycle.revision < MaxRevision
      BY <2>3 DEF Link, Accepts, Missing, Stale
    <3> QED BY <2>3, <3>1 DEF Link, Reply, RowStep, LinkStep
  <2>4. CASE Complete(c)
    <3>1. Settled(cycle, decision) /\ cycle.revision < MaxRevision
      BY <2>4 DEF Complete, Accepts, Stale
    <3>2. cycle' = WithCompletion /\ UNCHANGED decision
      BY <2>4 DEF Complete, Reply
    <3> QED BY <2>4, <3>1, <3>2 DEF RowStep, CompletionStep
  <2>5. CASE CompareAgain(c)
    BY <2>5 DEF CompareAgain, Accepts, Reply, RowStep, ComparisonStep
  <2> QED BY <1>7, <2>1, <2>2, <2>3, <2>4, <2>5 DEF Network
<1> QED BY <1>1, <1>2, <1>3, <1>4, <1>5, <1>6, <1>7 DEF Next
-----------------------------------------------------------------------------
(* What the ways of writing the rows preserve. *)

(* The first comparison gives every finding one entry. *)
LEMMA ComparisonTypes ==
  ASSUME RowTypes, Compare(cycle'), UNCHANGED decision
  PROVE  /\ RowTypes' /\ OneEntryEach'
         /\ cycle'.stage = "ready" /\ cycle'.revision = cycle.revision + 1
         /\ \A i \in DOMAIN cycle'.entries : cycle'.entries[i].revision = 0
<1>1. PICK matched \in Matching, alike \in SUBSET (Finding \X Old),
           before \in [Old -> [verdict : PriorVerdict, resolved : BOOLEAN]],
           carry \in BOOLEAN, limited \in Limited :
        cycle' = [stage |-> "ready", limited |-> limited, revision |-> cycle.revision + 1,
                  entries |-> Compared(matched, alike, before, carry, limited),
                  completion |-> {}]
  BY DEF Compare
<1> DEFINE new == {f \in Finding : matched[f] = Nobody}
           gone == {i \in Old : \A f \in Finding : matched[f] # i}
           e == cycle'.entries
<1>2. /\ matched \in [Finding -> Old \cup {Nobody}]
      /\ \A f, h \in Finding : matched[f] = matched[h] /\ matched[f] # Nobody => f = h
  BY DEF Matching
<1>3. limited \in BOOLEAN /\ PriorVerdict \subseteq Status
  BY PriorAssumption, BoundAssumption DEF Status
<1>4. e = Compared(matched, alike, before, carry, limited)
  BY <1>1
<1>5. DOMAIN e = Old \cup new
  BY <1>4 DEF Compared
<1>6. ASSUME NEW i \in new
      PROVE  e[i].current = i /\ e[i] \in Entries /\ e[i].revision = 0
  <2>1. \E s \in {"uncertain", "new"} :
          e[i] = [current |-> i, status |-> s, carried |-> FALSE, previous |-> "unreviewed",
                  resolved |-> FALSE, revision |-> 0]
    BY <1>4 DEF Compared
  <2> QED BY <2>1 DEF Entries, Status
<1>7. ASSUME NEW i \in Old, i \in gone
      PROVE  e[i].current = Nobody /\ e[i] \in Entries /\ e[i].revision = 0
  <2>1. \E s \in {"uncertain", "not_checked", "not_detected"} :
          e[i] = [current |-> Nobody, status |-> s, carried |-> FALSE,
                  previous |-> before[i].verdict, resolved |-> before[i].resolved, revision |-> 0]
    BY <1>4, <1>7, NameAssumption DEF Compared
  <2>2. before[i].verdict \in Status /\ before[i].resolved \in BOOLEAN
    BY <1>3
  <2> QED BY <2>1, <2>2 DEF Entries
<1>8. ASSUME NEW i \in Old, i \notin gone
      PROVE  /\ e[i].current \in Finding /\ matched[e[i].current] = i
             /\ e[i] \in Entries /\ e[i].revision = 0
  <2>1. e[i] = [current |-> CHOOSE f \in Finding : matched[f] = i,
                status |-> IF before[i].resolved THEN "reappeared" ELSE "persisting",
                carried |-> carry /\ ~before[i].resolved /\ before[i].verdict # "unreviewed",
                previous |-> before[i].verdict, resolved |-> FALSE, revision |-> 0]
    BY <1>4, <1>8, NameAssumption DEF Compared
  <2>2. PICK f \in Finding : matched[f] = i
    BY <1>8
  <2>3. e[i].current \in Finding /\ matched[e[i].current] = i
    BY <2>1, <2>2
  <2>4. before[i].verdict \in Status /\ before[i].resolved \in BOOLEAN
    BY <1>3
  <2>5. (carry /\ ~before[i].resolved /\ before[i].verdict # "unreviewed") \in BOOLEAN
    OBVIOUS
  <2>6. PICK h \in Finding, s \in {"persisting", "reappeared"}, b \in BOOLEAN :
          e[i] = [current |-> h, status |-> s, carried |-> b, previous |-> before[i].verdict,
                  resolved |-> FALSE, revision |-> 0]
    BY <2>1, <2>3, <2>5, Zenon
  <2>7. \A v : v \in Status =>
          [current |-> h, status |-> s, carried |-> b, previous |-> v,
           resolved |-> FALSE, revision |-> 0] \in Entries
    BY DEF Entries
  <2>8. e[i] \in Entries
    BY <2>4, <2>6, <2>7, Zenon
  <2>9. e[i].revision = 0
    BY <2>6
  <2> QED BY <2>3, <2>8, <2>9
<1>9. RowTypes'
  <2>1. /\ cycle' \in [stage : Stage, limited : BOOLEAN, revision : Nat,
                       entries : {e}, completion : {cycle'.completion}]
        /\ decision' \in [Finding -> Decisions]
    BY <1>1, <1>3 DEF RowTypes, Stage
  <2>2. \A i \in DOMAIN e : e[i] \in Entries
    BY <1>5, <1>6, <1>7, <1>8
  <2>3. e = [i \in DOMAIN e |-> e[i]]
    BY <1>4 DEF Compared
  <2>4. DOMAIN e \subseteq Issue
    BY <1>5 DEF Issue
  <2> QED BY <2>1, <2>2, <2>3, <2>4 DEF RowTypes
<1>10. ASSUME NEW f \in Finding
       PROVE  \E i \in Issue : EntriesOf(cycle', f) = {i}
  <2>1. CASE f \in new
    <3>1. \A i \in DOMAIN e : e[i].current = f <=> i = f
      BY <2>1, <1>5, <1>6, <1>7, <1>8, NameAssumption
    <3> QED BY <3>1, <2>1, <1>5 DEF EntriesOf, Issue
  <2>2. CASE f \notin new
    <3>1. matched[f] \in Old /\ matched[f] \notin gone
      BY <2>2, <1>2
    <3>2. \A i \in DOMAIN e : e[i].current = f <=> i = matched[f]
      BY <3>1, <2>2, <1>2, <1>5, <1>6, <1>7, <1>8, NameAssumption
    <3> QED BY <3>1, <3>2, <1>5 DEF EntriesOf, Issue
  <2> QED BY <2>1, <2>2
<1>11. cycle'.stage = "ready" /\ cycle'.revision = cycle.revision + 1
  BY <1>1
<1>12. \A i \in DOMAIN e : e[i].revision = 0
  BY <1>5, <1>6, <1>7, <1>8
<1> QED BY <1>9, <1>10, <1>11, <1>12 DEF OneEntryEach

(* A change of the entries leaves the stage and the completion alone. *)
LEMMA RowFields ==
  ASSUME RowTypes, NEW entries,
         cycle' = [cycle EXCEPT !.revision = @ + 1, !.entries = entries]
  PROVE  /\ cycle'.entries = entries /\ cycle'.stage = cycle.stage
         /\ cycle'.revision = cycle.revision + 1
         /\ cycle'.completion = cycle.completion
         /\ cycle' \in [stage : Stage, limited : BOOLEAN, revision : Nat,
                        entries : {cycle'.entries}, completion : {cycle'.completion}]
<1>1. PICK s \in Stage, l \in BOOLEAN, r \in Nat,
           e \in {cycle.entries}, c \in {cycle.completion} :
        cycle = [stage |-> s, limited |-> l, revision |-> r, entries |-> e, completion |-> c]
  BY DEF RowTypes
<1>2. cycle' = [stage |-> s, limited |-> l, revision |-> r + 1, entries |-> entries,
                completion |-> c]
  BY <1>1
<1> QED BY <1>1, <1>2

(* A completion changes nothing else. *)
LEMMA CompletionFields ==
  ASSUME RowTypes, NEW completion,
         cycle' = [cycle EXCEPT !.revision = @ + 1, !.completion = completion]
  PROVE  /\ cycle'.entries = cycle.entries /\ cycle'.stage = cycle.stage
         /\ cycle'.revision = cycle.revision + 1
         /\ cycle'.completion = completion
         /\ cycle' \in [stage : Stage, limited : BOOLEAN, revision : Nat,
                        entries : {cycle'.entries}, completion : {cycle'.completion}]
<1>1. PICK s \in Stage, l \in BOOLEAN, r \in Nat,
           e \in {cycle.entries}, c \in {cycle.completion} :
        cycle = [stage |-> s, limited |-> l, revision |-> r, entries |-> e, completion |-> c]
  BY DEF RowTypes
<1>2. cycle' = [stage |-> s, limited |-> l, revision |-> r + 1, entries |-> e,
                completion |-> completion]
  BY <1>1
<1> QED BY <1>1, <1>2

Fixed(e, resolved, r) == [e EXCEPT !.resolved = resolved, !.revision = r]

(* A fix keeps the finding and the status of its entry. *)
LEMMA FixedEntry ==
  ASSUME NEW e \in Entries, NEW resolved \in BOOLEAN, NEW r \in Nat
  PROVE  /\ Fixed(e, resolved, r) \in Entries
         /\ Fixed(e, resolved, r).current = e.current
         /\ Fixed(e, resolved, r).status = e.status
         /\ Fixed(e, resolved, r).revision = r
<1> DEFINE n == Fixed(e, resolved, r)
<1>1. n = [e EXCEPT !.resolved = resolved, !.revision = r]
  BY DEF Fixed
<1> HIDE DEF n
<1>2. n \in Entries /\ n.current = e.current /\ n.status = e.status /\ n.revision = r
  BY <1>1, Zenon DEF Entries
<1> QED BY <1>2 DEF n

(* A fix keeps every entry where it is. *)
LEMMA ResolutionTypes ==
  ASSUME IInv, NEW i \in DOMAIN cycle.entries, NEW resolved \in BOOLEAN,
         cycle' = WithResolution(i, resolved), UNCHANGED decision
  PROVE  /\ RowTypes' /\ OneEntryEach'
         /\ DOMAIN cycle'.entries = DOMAIN cycle.entries
         /\ \A j \in DOMAIN cycle.entries :
              /\ cycle'.entries[j].current = cycle.entries[j].current
              /\ cycle'.entries[j].status = cycle.entries[j].status
              /\ cycle'.entries[j].revision =
                   cycle.entries[j].revision + IF j = i THEN 1 ELSE 0
         /\ cycle'.completion = cycle.completion
         /\ cycle'.revision = cycle.revision + 1 /\ cycle'.stage = cycle.stage
<1> DEFINE e == cycle.entries
           n == [e[i] EXCEPT !.resolved = resolved, !.revision = @ + 1]
<1>1. /\ e \in [DOMAIN e -> Entries] /\ DOMAIN e \subseteq Issue
      /\ decision \in [Finding -> Decisions]
  BY DEF IInv, RowTypes
<1>2. cycle' = [cycle EXCEPT !.revision = @ + 1, !.entries = [e EXCEPT ![i] = n]]
  BY DEF WithResolution, IInv, RowTypes
<1>3. n \in Entries /\ n.current = e[i].current /\ n.status = e[i].status
        /\ n.revision = e[i].revision + 1
  <2>1. e[i] \in Entries /\ e[i].revision + 1 \in Nat
    BY <1>1 DEF Entries
  <2>2. n = Fixed(e[i], resolved, e[i].revision + 1)
    BY DEF Fixed
  <2> HIDE DEF n, e
  <2> QED BY <2>1, <2>2, FixedEntry
<1>4. /\ cycle'.entries = [e EXCEPT ![i] = n] /\ cycle'.stage = cycle.stage
      /\ cycle'.revision = cycle.revision + 1
      /\ cycle'.completion = cycle.completion
      /\ cycle' \in [stage : Stage, limited : BOOLEAN, revision : Nat,
                     entries : {cycle'.entries}, completion : {cycle'.completion}]
  BY <1>2, RowFields DEF IInv
<1>5. /\ DOMAIN cycle'.entries = DOMAIN e
      /\ cycle'.entries \in [DOMAIN e -> Entries]
      /\ \A j \in DOMAIN e : cycle'.entries[j] = IF j = i THEN n ELSE e[j]
  BY <1>1, <1>3, <1>4
<1>6. \A j \in DOMAIN e : e[j].revision \in Nat
  BY <1>1 DEF Entries
<1>7. \A f \in Finding : EntriesOf(cycle', f) = EntriesOf(cycle, f)
  BY <1>3, <1>5 DEF EntriesOf
<1>8. RowTypes'
  BY <1>1, <1>4, <1>5 DEF RowTypes
<1>9. OneEntryEach'
  BY <1>4, <1>7 DEF OneEntryEach, IInv
<1> QED BY <1>3, <1>4, <1>5, <1>6, <1>8, <1>9

(* A link moves the finding to the issue it names.  What it leaves behind  *)
(* is gone, or unlinked and marked.                                        *)
LEMMA LinkTypes ==
  ASSUME IInv, NEW f \in Finding, NEW old \in Old \cap DOMAIN cycle.entries,
         cycle.entries[old].current = Nobody,
         cycle' = WithLink(f, old), UNCHANGED decision
  PROVE  /\ RowTypes' /\ OneEntryEach'
         /\ cycle'.completion = cycle.completion
         /\ cycle'.revision = cycle.revision + 1 /\ cycle'.stage = cycle.stage
         /\ \A j \in DOMAIN cycle'.entries :
              cycle'.entries[j].revision \in {0, cycle.entries[j].revision}
         /\ old \in DOMAIN cycle'.entries /\ cycle'.entries[old].current = f
         /\ Old \cap DOMAIN cycle.entries \subseteq DOMAIN cycle'.entries
         /\ DOMAIN cycle'.entries \subseteq DOMAIN cycle.entries
         /\ \A j \in DOMAIN cycle'.entries \ {old} :
              IF cycle.entries[j].current = f
                THEN cycle'.entries[j].current = Nobody /\ cycle'.entries[j].status = "not_checked"
                ELSE cycle'.entries[j] = cycle.entries[j]
<1> DEFINE e == cycle.entries
           left == EntriesOf(cycle, f)
           linked == IF e[old].resolved
                       THEN [e[old] EXCEPT !.current = f, !.status = "reappeared",
                                           !.carried = FALSE, !.resolved = FALSE, !.revision = 0]
                       ELSE [e[old] EXCEPT !.current = f, !.status = "persisting",
                                           !.carried = FALSE]
           unlinked(i) == [e[i] EXCEPT !.current = Nobody, !.status = "not_checked",
                                       !.carried = FALSE]
           n == [i \in DOMAIN e \ (left \ Old) |->
                   IF i = old THEN linked ELSE IF i \in left THEN unlinked(i) ELSE e[i]]
<1>1. /\ e \in [DOMAIN e -> Entries] /\ DOMAIN e \subseteq Issue
      /\ decision \in [Finding -> Decisions]
  BY DEF IInv, RowTypes
<1>2. old \notin left
  BY NameAssumption DEF EntriesOf
<1>3. cycle' = [cycle EXCEPT !.revision = @ + 1, !.entries = n]
  BY <1>2 DEF WithLink
<1>4. /\ cycle'.entries = n /\ cycle'.stage = cycle.stage
      /\ cycle'.revision = cycle.revision + 1
      /\ cycle'.completion = cycle.completion
      /\ cycle' \in [stage : Stage, limited : BOOLEAN, revision : Nat,
                     entries : {cycle'.entries}, completion : {cycle'.completion}]
  BY <1>3, RowFields DEF IInv
<1>5. linked \in Entries /\ linked.current = f /\ linked.revision \in {0, e[old].revision}
  BY <1>1 DEF Entries
<1>6. ASSUME NEW i \in DOMAIN e
      PROVE  /\ unlinked(i) \in Entries /\ unlinked(i).current = Nobody
             /\ unlinked(i).status = "not_checked" /\ unlinked(i).revision = e[i].revision
  BY <1>1 DEF Entries
<1>7. n \in [DOMAIN n -> Entries] /\ DOMAIN n = DOMAIN e \ (left \ Old)
  BY <1>1, <1>5, <1>6
<1>8. /\ old \in DOMAIN n /\ n[old].current = f
      /\ Old \cap DOMAIN e \subseteq DOMAIN n /\ DOMAIN n \subseteq DOMAIN e
  BY <1>5, <1>7
<1>9. ASSUME NEW j \in DOMAIN n \ {old}
      PROVE  IF e[j].current = f
               THEN n[j].current = Nobody /\ n[j].status = "not_checked"
               ELSE n[j] = e[j]
  BY <1>6 DEF EntriesOf
<1>9a. \A j \in DOMAIN n : n[j].revision \in {0, e[j].revision}
  BY <1>5, <1>6, <1>7
<1> HIDE DEF n, linked, unlinked
<1>10. RowTypes'
  BY <1>1, <1>4, <1>7 DEF RowTypes
<1>11. ASSUME NEW g \in Finding, cycle.stage = "ready"
       PROVE  \E i \in Issue : EntriesOf(cycle', g) = {i}
  <2>1. CASE g = f
    <3>1. \A j \in DOMAIN n : n[j].current = f <=> j = old
      <4>1. ASSUME NEW j \in DOMAIN n, j # old
            PROVE  n[j].current # f
        BY <4>1, <1>9, NameAssumption
      <4> QED BY <1>8, <4>1
    <3> QED BY <2>1, <3>1, <1>4, <1>8 DEF EntriesOf, Issue
  <2>2. CASE g # f
    <3>1. \A j \in DOMAIN n : n[j].current = g <=> e[j].current = g
      BY <2>2, <1>8, <1>9, NameAssumption
    <3>2. \A j \in DOMAIN e : e[j].current = g => j \in DOMAIN n
      BY <2>2, <1>7 DEF EntriesOf
    <3>3. /\ EntriesOf(cycle', g) = {j \in DOMAIN n : n[j].current = g}
          /\ EntriesOf(cycle, g) = {j \in DOMAIN e : e[j].current = g}
      BY <1>4 DEF EntriesOf
    <3>4. EntriesOf(cycle', g) = EntriesOf(cycle, g)
      BY <3>1, <3>2, <3>3, <1>8
    <3> QED BY <3>4, <1>11 DEF IInv, OneEntryEach
  <2> QED BY <2>1, <2>2
<1>12. OneEntryEach'
  BY <1>4, <1>11 DEF OneEntryEach
<1>13. /\ old \in DOMAIN cycle'.entries /\ cycle'.entries[old].current = f
       /\ Old \cap DOMAIN e \subseteq DOMAIN cycle'.entries
       /\ DOMAIN cycle'.entries \subseteq DOMAIN e
  BY <1>4, <1>8
<1>14. \A j \in DOMAIN cycle'.entries \ {old} :
         IF e[j].current = f
           THEN cycle'.entries[j].current = Nobody /\ cycle'.entries[j].status = "not_checked"
           ELSE cycle'.entries[j] = e[j]
  BY <1>4, <1>9
<1> QED BY <1>4, <1>10, <1>12, <1>13, <1>14, <1>9a

(* The invariant is inductive. *)
LEMMA RowsInvariant ==
  ASSUME IInv, RowStep
  PROVE  IInv'
<1>1. CASE UNCHANGED <<cycle, decision>>
  BY <1>1 DEF IInv, RowTypes, OneEntryEach, EntriesOf
<1>2. CASE DecisionStep /\ UNCHANGED cycle
  <2>1. decision' \in [Finding -> Decisions]
    BY <1>2, VerdictAssumption DEF DecisionStep, IInv, RowTypes, Decisions, Status
  <2> QED BY <1>2, <2>1 DEF IInv, RowTypes, OneEntryEach, EntriesOf
<1>3. CASE ComparisonStep /\ UNCHANGED decision
  BY <1>3, ComparisonTypes DEF ComparisonStep, IInv
<1>4. CASE FailureStep /\ UNCHANGED decision
  <2>1. /\ cycle'.entries = cycle.entries /\ cycle'.stage = "comparison_failed"
        /\ cycle' \in [stage : Stage, limited : BOOLEAN, revision : Nat,
                       entries : {cycle'.entries}, completion : {cycle'.completion}]
    BY <1>4 DEF FailureStep, IInv, RowTypes, Stage
  <2> QED BY <1>4, <2>1 DEF IInv, RowTypes, OneEntryEach
<1>5. CASE ResolutionStep /\ UNCHANGED decision
  BY <1>5, ResolutionTypes DEF ResolutionStep, IInv
<1>6. CASE LinkStep /\ UNCHANGED decision
  <2>1. PICK f \in Finding, old \in Old \cap DOMAIN cycle.entries :
          cycle.entries[old].current \in {Nobody, f} /\ cycle' = WithLink(f, old)
    BY <1>6 DEF LinkStep
  <2>2. CASE cycle.entries[old].current = f
    <3>1. cycle' = cycle
      BY <2>1, <2>2 DEF WithLink, EntriesOf
    <3> QED BY <3>1, <1>6 DEF IInv, RowTypes, OneEntryEach, EntriesOf
  <2>3. CASE cycle.entries[old].current = Nobody
    BY <1>6, <2>1, <2>3, LinkTypes DEF IInv
  <2> QED BY <2>1, <2>2, <2>3
<1>7. CASE CompletionStep /\ UNCHANGED decision
  <2>1. /\ cycle'.entries = cycle.entries /\ cycle'.stage = cycle.stage
        /\ cycle' \in [stage : Stage, limited : BOOLEAN, revision : Nat,
                       entries : {cycle'.entries}, completion : {cycle'.completion}]
    BY <1>7, CompletionFields DEF CompletionStep, WithCompletion, IInv, RowTypes
  <2> QED BY <1>7, <2>1 DEF IInv, RowTypes, OneEntryEach, EntriesOf
<1> QED BY <1>1, <1>2, <1>3, <1>4, <1>5, <1>6, <1>7 DEF RowStep
-----------------------------------------------------------------------------
(* The next step. *)

(* What nextStep() asks, of what the service sends. *)
Undecided == \E f \in Finding : Inherited(decision, cycle)[f] \in {"unreviewed", "needs_context"}
Unresolved ==
  \/ cycle.stage # "ready" \/ cycle.limited
  \/ \E i \in DOMAIN cycle.entries :
       \/ cycle.entries[i].status \in {"uncertain", "not_checked"}
       \/ /\ cycle.entries[i].current = Nobody /\ ~cycle.entries[i].resolved
          /\ cycle.entries[i].previous # "rejected"
Unfixed ==
  \E f \in Finding : /\ Inherited(decision, cycle)[f] = "confirmed"
                     /\ ~\E i \in EntriesOf(cycle, f) : cycle.entries[i].resolved

(* The page offers completion when none of the three is left. *)
LEMMA NextStepIs ==
  NextStep(decision, Projected(cycle)) \in {"complete", "completed"}
    <=> ~Undecided /\ ~Unresolved /\ ~Unfixed
<1> DEFINE p == Projected(cycle)
<1>1. p.entries = cycle.entries /\ p.stage = cycle.stage /\ p.limited = cycle.limited
  BY DEF Projected, Answer
<1>2. /\ \A f : EntriesOf(p, f) = EntriesOf(cycle, f)
      /\ Inherited(decision, p) = Inherited(decision, cycle)
  BY <1>1 DEF EntriesOf, Inherited
<1> HIDE DEF p
<1>3. NextStep(decision, p) \in {"complete", "completed"}
        <=> ~Undecided /\ ~Unresolved /\ ~Unfixed
  BY <1>1, <1>2 DEF NextStep, Undecided, Unresolved, Unfixed
<1> QED BY <1>3 DEF p

(* The service asks the same. *)
LEMMA Agreement ==
  ASSUME IInv
  PROVE  NextStepAgrees
<1>1. CASE cycle.stage # "ready"
  BY <1>1, NextStepIs DEF NextStepAgrees, Settled, Unresolved
<1>2. CASE cycle.stage = "ready"
  <2>1. ASSUME NEW f \in Finding
        PROVE  \E i \in DOMAIN cycle.entries :
                 /\ EntriesOf(cycle, f) = {i}
                 /\ Inherited(decision, cycle)[f] = Effective(decision[f], cycle.entries[i])
                 /\ Effective(decision[f], cycle.entries[i])
                      \in {"confirmed", "rejected", "needs_context", "unreviewed"}
    <3>1. PICK i \in Issue : EntriesOf(cycle, f) = {i}
      BY <1>2 DEF IInv, OneEntryEach
    <3>2. i \in DOMAIN cycle.entries
      BY <3>1 DEF EntriesOf
    <3>3. cycle.entries[i].previous \in Status /\ decision[f].status \in Status
      BY <3>2 DEF IInv, RowTypes, Entries, Decisions
    <3>4. Inherited(decision, cycle)[f] = Effective(decision[f], cycle.entries[i])
      BY <3>1 DEF Inherited
    <3> QED BY <3>1, <3>2, <3>3, <3>4, VerdictAssumption DEF Effective, Status
  <2>2. Settled(cycle, decision) <=> ~Undecided /\ ~Unresolved /\ ~Unfixed
    BY <1>2, <2>1 DEF Settled, Undecided, Unresolved, Unfixed
  <2> QED BY <2>2, NextStepIs DEF NextStepAgrees
<1> QED BY <1>1, <1>2

(* nextStep() and completion_state() are one rule written twice: the page  *)
(* that is up to date offers completion, or says the review is complete,   *)
(* exactly when the service finds nothing left open.                       *)
THEOREM NextStepHolds == Spec => []NextStepAgrees
<1>1. Init => IInv
  BY DEF Init, NoEntries, IInv, RowTypes, OneEntryEach, Decisions, Status, Stage, Issue
<1>2. IInv /\ [Next]_vars => IInv'
  <2>1. UNCHANGED vars => RowStep
    BY DEF vars, RowStep
  <2> QED BY <2>1, StepIsRowStep, RowsInvariant
<1> QED BY <1>1, <1>2, Agreement, PTL DEF Spec
-----------------------------------------------------------------------------
(* The completion. *)

(* A link made since g is still to be seen. *)
Relinked(g) ==
  \E i \in Old \cap DOMAIN cycle.entries \cap DOMAIN g.entries :
    /\ g.entries[i].current = Nobody
    /\ cycle.entries[i].current # Nobody \/ cycle.entries[i].status = "not_checked"

(* No link was made since g, and fixes only gained revisions. *)
Unlinked(g) ==
  /\ DOMAIN g.entries = DOMAIN cycle.entries
  /\ \A i \in DOMAIN g.entries :
       /\ g.entries[i].current = cycle.entries[i].current
       /\ g.entries[i].revision \in Nat
       /\ g.entries[i].revision <= cycle.entries[i].revision

Checked(g) == \A i \in DOMAIN g.entries : g.entries[i].status # "not_checked"
DecidedBefore(g) ==
  \A f \in Finding : /\ g.decisions[f].revision \in Nat
                     /\ g.decisions[f].revision <= decision[f].revision

(* What a completion is of lies in the past, and no part of it is met      *)
(* again.                                                                  *)
Past ==
  \A g \in cycle.completion :
    Checked(g) /\ DecidedBefore(g) /\ (Relinked(g) \/ Unlinked(g))

(* A link leaves the completion alone. *)
LEMMA LinkFields ==
  ASSUME IInv, LinkStep, UNCHANGED decision
  PROVE  cycle' = cycle \/ cycle'.completion = cycle.completion
<1>1. PICK f \in Finding, old \in Old \cap DOMAIN cycle.entries :
        cycle.entries[old].current \in {Nobody, f} /\ cycle' = WithLink(f, old)
  BY DEF LinkStep
<1>2. CASE cycle.entries[old].current = f
  BY <1>1, <1>2 DEF WithLink, EntriesOf
<1>3. CASE cycle.entries[old].current = Nobody
  BY <1>1, <1>3, LinkTypes
<1> QED BY <1>1, <1>2, <1>3

(* A link makes a completed state one that is never met again. *)
LEMMA LinkIsSeen ==
  ASSUME IInv, LinkStep, UNCHANGED decision, NEW g, Checked(g),
         Relinked(g) \/ Unlinked(g)
  PROVE  /\ (Relinked(g) \/ Unlinked(g))'
         /\ cycle' = cycle \/ cycle'.entries # g.entries
<1>1. PICK f \in Finding, old \in Old \cap DOMAIN cycle.entries :
        cycle.entries[old].current \in {Nobody, f} /\ cycle' = WithLink(f, old)
  BY DEF LinkStep
<1>2. CASE cycle.entries[old].current = f
  <2>1. cycle' = cycle
    BY <1>1, <1>2 DEF WithLink, EntriesOf
  <2> QED BY <2>1 DEF Relinked, Unlinked
<1>3. CASE cycle.entries[old].current = Nobody
  <2>1. /\ cycle'.completion = cycle.completion
        /\ old \in DOMAIN cycle'.entries /\ cycle'.entries[old].current = f
        /\ Old \cap DOMAIN cycle.entries \subseteq DOMAIN cycle'.entries
        /\ \A j \in DOMAIN cycle'.entries \ {old} :
             IF cycle.entries[j].current = f
               THEN cycle'.entries[j].current = Nobody /\ cycle'.entries[j].status = "not_checked"
               ELSE cycle'.entries[j] = cycle.entries[j]
    BY <1>1, <1>3, LinkTypes
  <2>2. f # Nobody
    BY NameAssumption
  <2>3. CASE Unlinked(g)
    <3>1. old \in DOMAIN g.entries /\ g.entries[old].current = Nobody
      BY <2>3, <1>3 DEF Unlinked
    <3>2. Relinked(g)'
      BY <3>1, <2>1, <2>2 DEF Relinked
    <3> QED BY <3>1, <3>2, <2>1, <2>2
  <2>4. CASE Relinked(g)
    <3>1. PICK i \in Old \cap DOMAIN cycle.entries \cap DOMAIN g.entries :
            /\ g.entries[i].current = Nobody
            /\ cycle.entries[i].current # Nobody \/ cycle.entries[i].status = "not_checked"
      BY <2>4 DEF Relinked
    <3>2. i \in DOMAIN cycle'.entries
      BY <2>1
    <3>3. cycle'.entries[i].current # Nobody \/ cycle'.entries[i].status = "not_checked"
      <4>1. CASE i = old
        BY <4>1, <2>1, <2>2
      <4>2. CASE i # old
        BY <4>2, <2>1, <3>1, <3>2
      <4> QED BY <4>1, <4>2
    <3>4. Relinked(g)'
      BY <3>1, <3>2, <3>3 DEF Relinked
    <3>5. cycle'.entries # g.entries
      BY <3>1, <3>3 DEF Checked
    <3> QED BY <2>1, <3>4, <3>5
  <2> QED BY <2>1, <2>3, <2>4
<1> QED BY <1>1, <1>2, <1>3

(* A fix, made or withdrawn, gains a revision. *)
LEMMA FixIsSeen ==
  ASSUME IInv, ResolutionStep, UNCHANGED decision, NEW g, Checked(g),
         Relinked(g) \/ Unlinked(g)
  PROVE  /\ cycle'.completion = cycle.completion
         /\ (Relinked(g) \/ Unlinked(g))'
         /\ cycle'.entries # g.entries
<1>1. PICK i \in DOMAIN cycle.entries, resolved \in BOOLEAN : cycle' = WithResolution(i, resolved)
  BY DEF ResolutionStep
<1>2. /\ DOMAIN cycle'.entries = DOMAIN cycle.entries
      /\ \A j \in DOMAIN cycle.entries :
           /\ cycle'.entries[j].current = cycle.entries[j].current
           /\ cycle'.entries[j].status = cycle.entries[j].status
           /\ cycle'.entries[j].revision = cycle.entries[j].revision + IF j = i THEN 1 ELSE 0
      /\ cycle'.completion = cycle.completion
  BY <1>1, ResolutionTypes
<1>3. \A j \in DOMAIN cycle.entries : cycle.entries[j].revision \in Nat
  BY DEF IInv, RowTypes, Entries
<1>4. CASE Relinked(g)
  BY <1>2, <1>4 DEF Relinked, Checked
<1>5. CASE Unlinked(g)
  <2>1. Unlinked(g)'
    BY <1>2, <1>3, <1>5 DEF Unlinked
  <2>2. cycle'.entries[i].revision > g.entries[i].revision
    BY <1>2, <1>3, <1>5 DEF Unlinked
  <2>3. g.entries[i].revision \in Nat
    BY <1>5 DEF Unlinked
  <2>4. cycle'.entries # g.entries
    BY <2>2, <2>3
  <2> QED BY <1>2, <2>1, <2>4
<1> QED BY <1>2, <1>4, <1>5

(* A decision gains a revision. *)
LEMMA DecisionIsSeen ==
  ASSUME IInv, DecisionStep, NEW g, DecidedBefore(g)
  PROVE  DecidedBefore(g)' /\ decision' # g.decisions
<1>1. PICK f \in Finding, v \in Verdict :
        decision' = [decision EXCEPT ![f] = [status |-> v, revision |-> @.revision + 1]]
  BY DEF DecisionStep
<1>2. decision \in [Finding -> Decisions] /\ \A h \in Finding : decision[h].revision \in Nat
  BY DEF IInv, RowTypes, Decisions
<1>3. \A h \in Finding :
        decision'[h].revision = decision[h].revision + IF h = f THEN 1 ELSE 0
  BY <1>1, <1>2
<1>4. DecidedBefore(g)'
  BY <1>2, <1>3 DEF DecidedBefore
<1>5. decision'[f].revision > g.decisions[f].revision /\ g.decisions[f].revision \in Nat
  BY <1>2, <1>3 DEF DecidedBefore
<1> QED BY <1>4, <1>5

(* The completion stays in the past. *)
LEMMA PastInvariant ==
  ASSUME IInv, Past, RowStep
  PROVE  Past'
<1>1. CASE UNCHANGED <<cycle, decision>>
  BY <1>1 DEF Past, Checked, DecidedBefore, Relinked, Unlinked
<1>2. CASE DecisionStep /\ UNCHANGED cycle
  BY <1>2, DecisionIsSeen DEF Past, Checked, Relinked, Unlinked
<1>3. CASE ComparisonStep /\ UNCHANGED decision
  BY <1>3 DEF ComparisonStep, Compare, Past
<1>4. CASE FailureStep /\ UNCHANGED decision
  <2>1. cycle'.entries = cycle.entries /\ cycle'.completion = cycle.completion
    BY <1>4 DEF FailureStep, IInv, RowTypes
  <2> QED BY <1>4, <2>1 DEF Past, Checked, DecidedBefore, Relinked, Unlinked
<1>5. CASE ResolutionStep /\ UNCHANGED decision
  <2>1. ASSUME NEW g \in cycle.completion
        PROVE  /\ cycle'.completion = cycle.completion
               /\ Checked(g) /\ DecidedBefore(g)' /\ (Relinked(g) \/ Unlinked(g))'
    BY <1>5, FixIsSeen DEF Past, DecidedBefore
  <2>2. cycle'.completion = cycle.completion
    BY <1>5, ResolutionTypes DEF ResolutionStep
  <2> QED BY <2>1, <2>2 DEF Past, Checked
<1>6. CASE LinkStep /\ UNCHANGED decision
  <2>1. ASSUME NEW g \in cycle.completion
        PROVE  Checked(g) /\ DecidedBefore(g)' /\ (Relinked(g) \/ Unlinked(g))'
    BY <1>6, LinkIsSeen DEF Past, DecidedBefore
  <2>2. cycle' = cycle \/ cycle'.completion = cycle.completion
    BY <1>6, LinkFields
  <2> QED BY <2>1, <2>2 DEF Past, Checked
<1>7. CASE CompletionStep /\ UNCHANGED decision
  <2>0. PICK d : d = Digest(cycle, decision)
    OBVIOUS
  <2>1. cycle' = cycle \/ (cycle'.entries = cycle.entries /\ cycle'.completion = {d})
    BY <1>7, <2>0, CompletionFields DEF CompletionStep, WithCompletion, IInv
  <2>2. CASE cycle' = cycle
    BY <1>7, <2>2 DEF Past, Checked, DecidedBefore, Relinked, Unlinked
  <2>3. CASE cycle'.entries = cycle.entries /\ cycle'.completion = {d}
    <3>1. d.entries = cycle.entries /\ d.decisions = decision
      BY <2>0 DEF Digest
    <3>2. \A i \in DOMAIN cycle.entries : cycle.entries[i].revision \in Nat
      BY DEF IInv, RowTypes, Entries
    <3>3. \A f \in Finding : decision[f].revision \in Nat
      BY DEF IInv, RowTypes, Decisions
    <3>4. Checked(d)
      BY <1>7, <3>1 DEF CompletionStep, Settled, Checked
    <3>5. DecidedBefore(d)'
      BY <1>7, <3>1, <3>3 DEF DecidedBefore
    <3>6. Unlinked(d)'
      BY <2>3, <3>1, <3>2 DEF Unlinked
    <3> QED BY <2>3, <3>4, <3>5, <3>6 DEF Past, Checked
  <2> QED BY <2>1, <2>2, <2>3
<1> QED BY <1>1, <1>2, <1>3, <1>4, <1>5, <1>6, <1>7 DEF RowStep

(* What is complete again has been completed again. *)
LEMMA Lapse ==
  ASSUME IInv, Past, RowStep, ~Completed(cycle, decision), Completed(cycle, decision)'
  PROVE  \E c \in Call : Complete(c)
<1>1. /\ Settled(cycle', decision') /\ cycle'.completion = {Digest(cycle', decision')}
      /\ Digest(cycle', decision').entries = cycle'.entries
      /\ Digest(cycle', decision').decisions = decision'
  BY DEF Completed, Digest
<1>2. CASE UNCHANGED <<cycle, decision>>
  BY <1>2 DEF Completed
<1>3. CASE DecisionStep /\ UNCHANGED cycle
  BY <1>1, <1>3, DecisionIsSeen DEF Past
<1>4. CASE UNCHANGED decision /\ ComparisonStep
  BY <1>1, <1>4 DEF ComparisonStep, Compare
<1>5. CASE UNCHANGED decision /\ FailureStep
  <2>1. cycle'.stage = "comparison_failed"
    BY <1>5 DEF FailureStep, IInv, RowTypes
  <2> QED BY <1>1, <2>1 DEF Settled
<1>6. CASE UNCHANGED decision /\ ResolutionStep
  <2>1. cycle'.completion = cycle.completion
    BY <1>6, ResolutionTypes DEF ResolutionStep
  <2> QED BY <1>1, <1>6, <2>1, FixIsSeen DEF Past
<1>7. CASE UNCHANGED decision /\ LinkStep
  <2>1. CASE cycle' = cycle
    BY <1>7, <2>1 DEF Completed
  <2>2. CASE cycle' # cycle
    <3>1. \A g \in cycle.completion : cycle'.entries # g.entries
      BY <1>7, <2>2, LinkIsSeen DEF Past
    <3>2. cycle'.completion = cycle.completion
      BY <1>7, <2>2, LinkFields
    <3> QED BY <1>1, <3>1, <3>2
  <2> QED BY <2>1, <2>2
<1>8. CASE \E c \in Call : Complete(c)
  BY <1>8
<1> QED BY <1>2, <1>3, <1>4, <1>5, <1>6, <1>7, <1>8 DEF RowStep

(* A completion that lapsed because a decision, a link or a fix changed    *)
(* comes back only by completing once more (review_completion.py).         *)
THEOREM CompletionHolds == Spec => CompletionLapses
<1>1. Init => IInv /\ Past
  BY DEF Init, NoEntries, IInv, Past, RowTypes, OneEntryEach, Decisions, Status, Stage, Issue
<1>2. [Next]_vars => RowStep
  <2>1. UNCHANGED vars => RowStep
    BY DEF vars, RowStep
  <2> QED BY <2>1, StepIsRowStep
<1>3. IInv /\ Past /\ [Next]_vars => IInv' /\ Past'
  BY <1>2, RowsInvariant, PastInvariant
<1>4. IInv /\ Past /\ [Next]_vars =>
        [~Completed(cycle, decision) /\ Completed(cycle, decision)'
           => \E c \in Call : Complete(c)]_vars
  BY <1>2, Lapse
<1> QED BY <1>1, <1>3, <1>4, PTL DEF Spec, CompletionLapses
-----------------------------------------------------------------------------
(* The bounds of the revisions. *)

(* An entry has no more revisions than its cycle, which has none before    *)
(* the first comparison; and there is nothing to revise then.              *)
Bounded ==
  /\ decision \in [Finding -> Decision]
  /\ cycle.revision \in 0..MaxRevision
  /\ cycle.stage = "unavailable" => cycle.revision = 0
  /\ cycle.stage # "ready" => DOMAIN cycle.entries = {}
  /\ \A i \in DOMAIN cycle.entries :
       cycle.entries[i].revision \in Nat /\ cycle.entries[i].revision <= cycle.revision

(* Every way of writing the rows keeps the bounds. *)
LEMMA BoundsInvariant ==
  ASSUME IInv, Bounded, RowStep
  PROVE  Bounded'
<1>0. /\ IInv' /\ cycle.revision \in Nat /\ cycle.revision <= MaxRevision
      /\ MaxRevision \in Nat /\ MaxRevision # 0
  BY RowsInvariant, BoundAssumption DEF Bounded
<1>1. CASE UNCHANGED <<cycle, decision>>
  BY <1>1 DEF Bounded
<1>2. CASE DecisionStep /\ UNCHANGED cycle
  <2>1. decision' \in [Finding -> Decision]
    BY <1>2, BoundAssumption DEF DecisionStep, Bounded, Decision, Status
  <2> QED BY <1>2, <2>1 DEF Bounded
<1>3. CASE ComparisonStep /\ UNCHANGED decision
  <2>1. /\ cycle'.stage = "ready" /\ cycle'.revision = cycle.revision + 1
        /\ \A i \in DOMAIN cycle'.entries : cycle'.entries[i].revision = 0
    BY <1>3, ComparisonTypes DEF ComparisonStep, IInv
  <2>2. cycle'.revision \in 0..MaxRevision
    BY <1>0, <1>3, <2>1 DEF ComparisonStep, Bounded
  <2> QED BY <1>0, <1>3, <2>1, <2>2 DEF Bounded
<1>4. CASE FailureStep /\ UNCHANGED decision
  <2>1. /\ cycle'.stage = "comparison_failed" /\ cycle'.revision = cycle.revision
        /\ cycle'.entries = cycle.entries
    BY <1>4 DEF FailureStep, IInv, RowTypes
  <2> QED BY <1>4, <2>1 DEF FailureStep, Bounded
<1>5. CASE ResolutionStep /\ UNCHANGED decision
  <2>1. PICK i \in DOMAIN cycle.entries, resolved \in BOOLEAN : cycle' = WithResolution(i, resolved)
    BY <1>5 DEF ResolutionStep
  <2>2. /\ DOMAIN cycle'.entries = DOMAIN cycle.entries
        /\ cycle'.revision = cycle.revision + 1 /\ cycle'.stage = cycle.stage
        /\ \A j \in DOMAIN cycle.entries :
             cycle'.entries[j].revision = cycle.entries[j].revision + IF j = i THEN 1 ELSE 0
    BY <1>5, <2>1, ResolutionTypes
  <2>3. cycle.stage = "ready" /\ cycle'.revision \in 0..MaxRevision
    BY <1>0, <1>5, <2>1, <2>2 DEF Bounded, ResolutionStep
  <2>4. \A j \in DOMAIN cycle'.entries :
          cycle'.entries[j].revision \in Nat /\ cycle'.entries[j].revision <= cycle'.revision
    BY <1>0, <2>2 DEF Bounded
  <2> QED BY <1>5, <2>2, <2>3, <2>4 DEF Bounded
<1>6. CASE LinkStep /\ UNCHANGED decision
  <2>1. PICK f \in Finding, old \in Old \cap DOMAIN cycle.entries :
          cycle.entries[old].current \in {Nobody, f} /\ cycle' = WithLink(f, old)
    BY <1>6 DEF LinkStep
  <2>2. CASE cycle.entries[old].current = f
    <3>1. cycle' = cycle
      BY <2>1, <2>2 DEF WithLink, EntriesOf
    <3> QED BY <3>1, <1>6 DEF Bounded
  <2>3. CASE cycle.entries[old].current = Nobody
    <3>1. /\ cycle'.revision = cycle.revision + 1 /\ cycle'.stage = cycle.stage
          /\ DOMAIN cycle'.entries \subseteq DOMAIN cycle.entries
          /\ \A j \in DOMAIN cycle'.entries :
               cycle'.entries[j].revision \in {0, cycle.entries[j].revision}
      BY <1>6, <2>1, <2>3, LinkTypes
    <3>2. cycle.stage = "ready" /\ cycle'.revision \in 0..MaxRevision
      BY <1>0, <1>6, <2>1, <3>1 DEF Bounded, LinkStep
    <3>3. \A j \in DOMAIN cycle'.entries :
            cycle'.entries[j].revision \in Nat /\ cycle'.entries[j].revision <= cycle'.revision
      BY <1>0, <3>1 DEF Bounded
    <3> QED BY <1>6, <3>1, <3>2, <3>3 DEF Bounded
  <2> QED BY <2>1, <2>2, <2>3
<1>7. CASE CompletionStep /\ UNCHANGED decision
  <2>1. \/ cycle' = cycle
        \/ /\ cycle'.entries = cycle.entries /\ cycle'.stage = cycle.stage
           /\ cycle'.revision = cycle.revision + 1
    BY <1>7, CompletionFields DEF CompletionStep, WithCompletion, IInv
  <2>2. cycle.revision < MaxRevision /\ cycle.stage = "ready"
    BY <1>7 DEF CompletionStep, Settled
  <2> QED BY <1>0, <1>7, <2>1, <2>2 DEF Bounded
<1> QED BY <1>1, <1>2, <1>3, <1>4, <1>5, <1>6, <1>7 DEF RowStep
-----------------------------------------------------------------------------
(* The cards on the page. *)

Cards ==
  {k \in [reason : BOOLEAN, step : {"idle", "sending", "conflict", "reloading"},
          call : Call \cup {NoData}] : k.step = "sending" <=> k.call \in Call}
CallSteps == {"free", "sent", "done", "stale", "failed", "retrying"}

(* What is asked of a query and of a call is that they are records. *)
QueryRecords(data, failed, fetch, answer, waiting, joined) ==
  [data : {data}, failed : {failed}, fetch : {fetch}, answer : {answer}, waiting : {waiting},
   joined : {joined}]
IsQueryRecord(q) ==
  \E data, failed, fetch, answer, waiting, joined :
    q \in QueryRecords(data, failed, fetch, answer, waiting, joined)
CallRecords(step, kind, issue, old, expected, answer) ==
  [step : {step}, kind : {kind}, issue : {issue}, old : {old}, expected : {expected},
   answer : {answer}]
IsCallRecord(r) ==
  \E step \in CallSteps : \E kind, issue, old, expected, answer :
    r \in CallRecords(step, kind, issue, old, expected, answer)

(* A card that holds anything is on the page. *)
CardsOn(cards, q) ==
  /\ cards \in [Issue -> Cards]
  /\ \A i \in Issue : cards[i] # NewCard => i \in OnPage(q)

Page ==
  /\ IsQueryRecord(query)
  /\ CardsOn(card, query)
  /\ call = [c \in Call |-> call[c]] /\ \A c \in Call : IsCallRecord(call[c])
  /\ disturbed \in 0..Disturbances

(* What happens to the explanations in a step. *)
Stored(i) == \E c \in Call : call[c].step = "done" /\ Answering(c) /\ call[c].issue = i
ExplanationsStay ==
  \A i \in Issue : card[i].reason /\ ~card'[i].reason => i \notin OnPage(query') \/ Stored(i)

(* A fetch changes nothing on the page before it is received. *)
LEMMA QueryKeepsPage ==
  ASSUME NEW q, IsQueryRecord(q), NEW w, NEW v
  PROVE  /\ IsQueryRecord(Q!Fetch(q)) /\ OnPage(Q!Fetch(q)) = OnPage(q)
         /\ IsQueryRecord(Q!Refetch(q, w)) /\ OnPage(Q!Refetch(q, w)) = OnPage(q)
         /\ IsQueryRecord(Q!Answered(q, v)) /\ OnPage(Q!Answered(q, v)) = OnPage(q)
         /\ IsQueryRecord(Q!Received(q)) /\ IsQueryRecord(Q!Lost(q))
         /\ IsQueryRecord(Q!SetData(q, v))
<1> DEFINE Alike(p) == IsQueryRecord(p) /\ p.data = q.data /\ p.failed = q.failed
<1>1. ASSUME NEW p, Alike(p)
      PROVE  IsQueryRecord(p) /\ OnPage(p) = OnPage(q)
  BY <1>1 DEF OnPage, Issues
<1>2. PICK d, b, f, a, s, j : q \in QueryRecords(d, b, f, a, s, j)
  BY DEF IsQueryRecord
<1>3. ASSUME NEW p, NEW g, NEW c, NEW u, NEW n, p \in QueryRecords(d, b, g, c, u, n)
      PROVE  Alike(p)
  BY <1>2, <1>3 DEF QueryRecords, IsQueryRecord
<1>5. \E g : Q!Fetch(q) \in QueryRecords(d, b, g, a, s, j)
  <2>1. q \in QueryRecords(d, b, f, a, s, j)
          /\ [q EXCEPT !.fetch = "sent"] \in QueryRecords(d, b, "sent", a, s, j)
    BY <1>2, Zenon DEF QueryRecords
  <2> QED BY <2>1 DEF Q!Fetch
<1>6. Alike(Q!Refetch(q, w))
  <2>1. [q EXCEPT !.fetch = "sent", !.answer = NoData, !.waiting = w, !.joined = q.waiting]
          \in QueryRecords(d, b, "sent", NoData, w, q.waiting)
    BY <1>2, Zenon DEF QueryRecords
  <2>2. [q EXCEPT !.joined = @ \cup w] \in QueryRecords(d, b, f, a, s, q.joined \cup w)
    BY <1>2, Zenon DEF QueryRecords
  <2>3. PICK x, y :
          /\ x = [q EXCEPT !.fetch = "sent", !.answer = NoData, !.waiting = w, !.joined = q.waiting]
          /\ y = [q EXCEPT !.joined = @ \cup w]
    BY Zenon
  <2>4. Q!Refetch(q, w) = IF Q!Loaded(q) \/ ~Q!Fetching(q) THEN x ELSE y
    BY <2>3, Zenon DEF Q!Refetch
  <2>5. Alike(x) /\ Alike(y)
    BY <1>3, <2>1, <2>2, <2>3, Zenon
  <2> QED BY <2>4, <2>5
<1>7. Q!Answered(q, v) \in QueryRecords(d, b, "answered", v, s, j)
  BY <1>2, Zenon DEF Q!Answered, QueryRecords
<1>8. /\ Q!Received(q) \in QueryRecords(q.answer, FALSE, "none", NoData, {}, {})
      /\ Q!Lost(q) \in QueryRecords(d, TRUE, "none", NoData, {}, {})
      /\ Q!SetData(q, v) \in QueryRecords(v, FALSE, f, a, s, j)
  BY <1>2, Zenon DEF Q!Received, Q!Lost, Q!SetData, Q!Idle, QueryRecords
<1>9. IsQueryRecord(Q!Received(q)) /\ IsQueryRecord(Q!Lost(q)) /\ IsQueryRecord(Q!SetData(q, v))
  BY <1>8, Zenon DEF IsQueryRecord
<1>10. Alike(Q!Fetch(q)) /\ Alike(Q!Answered(q, v))
  BY <1>3, <1>5, <1>7
<1> HIDE DEF Alike
<1> QED BY <1>1, <1>6, <1>9, <1>10

(* What is kept of the cards is on the page. *)
LEMMA KeepsCards ==
  ASSUME NEW cards \in [Issue -> Cards], NEW q
  PROVE  /\ CardsOn(Keep(cards, q), q)
         /\ \A i \in Issue : i \in OnPage(q) => Keep(cards, q)[i] = cards[i]
<1>1. NewCard \in Cards
  BY NameAssumption DEF NewCard, Cards
<1> QED BY <1>1 DEF CardsOn, Keep

(* A card on the page may be used. *)
LEMMA UsesCard ==
  ASSUME NEW q, NEW p, CardsOn(card, q), OnPage(p) = OnPage(q),
         NEW i \in Issue, NEW k \in Cards, i \in OnPage(q), k.reason \/ ~card[i].reason,
         card' = [card EXCEPT ![i] = k]
  PROVE  CardsOn(card', p) /\ \A j \in Issue : card[j].reason => card'[j].reason
BY DEF CardsOn

RequestFor(r, issue) == IsCallRecord(r) /\ r.issue = issue

(* A request is a record of a call. *)
LEMMA FreeIsRecord ==
  /\ RequestFor(Free, Nobody)
  /\ \A kind, issue, old, expected :
       /\ RequestFor([Free EXCEPT !.kind = kind, !.expected = expected], Nobody)
       /\ RequestFor([Free EXCEPT !.kind = kind, !.issue = issue, !.expected = expected], issue)
       /\ RequestFor([Free EXCEPT !.kind = kind, !.issue = issue, !.old = old,
                                  !.expected = expected], issue)
<1>1. Free \in CallRecords("free", "none", Nobody, Nobody, 0, NoData)
  BY DEF Free, CallRecords
<1>2. ASSUME NEW kind, NEW issue, NEW old, NEW expected
      PROVE  /\ [Free EXCEPT !.kind = kind, !.expected = expected]
                  \in CallRecords("free", kind, Nobody, Nobody, expected, NoData)
             /\ [Free EXCEPT !.kind = kind, !.issue = issue, !.expected = expected]
                  \in CallRecords("free", kind, issue, Nobody, expected, NoData)
             /\ [Free EXCEPT !.kind = kind, !.issue = issue, !.old = old, !.expected = expected]
                  \in CallRecords("free", kind, issue, old, expected, NoData)
  BY <1>1, Zenon DEF CallRecords
<1>3. ASSUME NEW kind, NEW issue, NEW old, NEW expected,
             NEW r \in CallRecords("free", kind, issue, old, expected, NoData)
      PROVE  RequestFor(r, issue)
  <2>1. IsCallRecord(r)
    BY Zenon DEF IsCallRecord, CallSteps
  <2> QED BY <2>1 DEF CallRecords, RequestFor
<1>4. RequestFor(Free, Nobody)
  BY <1>1, <1>3
<1>5. ASSUME NEW kind, NEW issue, NEW old, NEW expected
      PROVE  /\ RequestFor([Free EXCEPT !.kind = kind, !.expected = expected], Nobody)
             /\ RequestFor([Free EXCEPT !.kind = kind, !.issue = issue, !.expected = expected], issue)
             /\ RequestFor([Free EXCEPT !.kind = kind, !.issue = issue, !.old = old,
                                        !.expected = expected], issue)
  <2>1. PICK r1, r2, r3 :
          /\ r1 = [Free EXCEPT !.kind = kind, !.expected = expected]
          /\ r2 = [Free EXCEPT !.kind = kind, !.issue = issue, !.expected = expected]
          /\ r3 = [Free EXCEPT !.kind = kind, !.issue = issue, !.old = old, !.expected = expected]
    BY Zenon
  <2>2. /\ r1 \in CallRecords("free", kind, Nobody, Nobody, expected, NoData)
        /\ r2 \in CallRecords("free", kind, issue, Nobody, expected, NoData)
        /\ r3 \in CallRecords("free", kind, issue, old, expected, NoData)
    BY <1>2, <2>1, Zenon
  <2>3. RequestFor(r1, Nobody) /\ RequestFor(r2, issue) /\ RequestFor(r3, issue)
    BY <1>3, <2>2, Zenon
  <2> QED BY <2>1, <2>3, Zenon
<1> QED BY <1>4, <1>5, Zenon

(* What happens to the calls and cards in a step. *)
LEMMA PageGoes ==
  ASSUME Page, Next
  PROVE  Page' /\ ExplanationsStay
<1>0. /\ IsQueryRecord(query) /\ CardsOn(card, query) /\ card \in [Issue -> Cards]
      /\ call = [c \in Call |-> call[c]] /\ \A c \in Call : IsCallRecord(call[c])
      /\ disturbed \in 0..Disturbances
      /\ UNCHANGED disturbed \/ Disturb => disturbed' \in 0..Disturbances
  BY BoundAssumption DEF Page, CardsOn, Disturb
<1>1. ASSUME NEW c \in Call, NEW r, IsCallRecord(r), call' = [call EXCEPT ![c] = r]
      PROVE  call' = [d \in Call |-> call'[d]] /\ \A d \in Call : IsCallRecord(call'[d])
  BY <1>0, <1>1
<1>2. ASSUME NEW c \in Call, NEW s \in CallSteps, NEW x, NEW a
      PROVE  /\ IsCallRecord([call[c] EXCEPT !.step = s])
             /\ IsCallRecord([call[c] EXCEPT !.step = s, !.expected = x])
             /\ IsCallRecord([call[c] EXCEPT !.step = s, !.expected = x, !.answer = a])
  <2>1. PICK t, kind, issue, old, expected, answer :
          t \in CallSteps /\ call[c] \in CallRecords(t, kind, issue, old, expected, answer)
    BY <1>0 DEF IsCallRecord
  <2>2. /\ [call[c] EXCEPT !.step = s] \in CallRecords(s, kind, issue, old, expected, answer)
        /\ [call[c] EXCEPT !.step = s, !.expected = x]
             \in CallRecords(s, kind, issue, old, x, answer)
        /\ [call[c] EXCEPT !.step = s, !.expected = x, !.answer = a]
             \in CallRecords(s, kind, issue, old, x, a)
    BY <2>1, Zenon DEF CallRecords
  <2> QED BY <2>2, Zenon DEF IsCallRecord
<1>3. IsCallRecord(Free)
  BY FreeIsRecord DEF RequestFor
<1>4. ASSUME UNCHANGED <<call, card>>, IsQueryRecord(query'), OnPage(query') = OnPage(query),
             UNCHANGED disturbed \/ Disturb
      PROVE  Page' /\ ExplanationsStay
  BY <1>0, <1>4 DEF Page, CardsOn, ExplanationsStay
<1>5. CASE Load \/ AfterPublish \/ ReviseElsewhere \/ GetCycle
           \/ \E f \in Finding, v \in Verdict : DecideElsewhere(f, v)
  <2>1. UNCHANGED <<call, card>> /\ (UNCHANGED disturbed \/ Disturb)
    BY <1>5 DEF Load, AfterPublish, ReviseElsewhere, GetCycle, DecideElsewhere, FirstComparison
  <2>2. \/ UNCHANGED query \/ query' \in {Q!Fetch(query), Q!Refetch(query, {})}
        \/ \E v : query' = Q!Answered(query, v)
    BY <1>5 DEF Load, AfterPublish, ReviseElsewhere, GetCycle, DecideElsewhere
  <2>3. IsQueryRecord(query') /\ OnPage(query') = OnPage(query)
    BY <1>0, <2>2, QueryKeepsPage
  <2> QED BY <1>4, <2>1, <2>3
<1>6. CASE ReceiveCycle \/ LoseFetch
  <2>1. PICK q : Update(q) /\ IsQueryRecord(q)
    BY <1>0, <1>6, QueryKeepsPage DEF ReceiveCycle, LoseFetch
  <2>2. UNCHANGED call /\ (UNCHANGED disturbed \/ Disturb)
    BY <1>6 DEF ReceiveCycle, LoseFetch
  <2>3. CardsOn(card', query') /\ ExplanationsStay
    BY <1>0, <2>1, KeepsCards DEF Update, ExplanationsStay
  <2> QED BY <1>0, <2>1, <2>2, <2>3 DEF Page, Update
<1>7. ASSUME NEW i \in Issue, i \in OnPage(query), NEW k \in Cards, k.reason \/ ~card[i].reason,
             card' = [card EXCEPT ![i] = k], IsQueryRecord(query'), OnPage(query') = OnPage(query)
      PROVE  IsQueryRecord(query') /\ CardsOn(card', query') /\ ExplanationsStay
  BY <1>0, <1>7, UsesCard DEF ExplanationsStay
<1>8. ASSUME NEW i \in Issue
      PROVE  card[i] = [reason |-> card[i].reason, step |-> card[i].step, call |-> card[i].call]
             /\ card[i] \in Cards
  BY <1>0 DEF Cards
<1>9. ASSUME NEW i \in Issue, Explain(i)
      PROVE  Page' /\ ExplanationsStay
  <2> DEFINE k == [card[i] EXCEPT !.reason = TRUE]
  <2>1. k \in Cards /\ k.reason
    BY <1>8 DEF Cards
  <2>2. card' = [card EXCEPT ![i] = k] /\ i \in OnPage(query) /\ UNCHANGED <<query, call, disturbed>>
    BY <1>9 DEF Explain
  <2> HIDE DEF k
  <2> QED BY <1>0, <1>7, <2>1, <2>2 DEF Page
<1>10. ASSUME NEW i \in Issue, Reload(i) \/ GoOn(i)
       PROVE  Page' /\ ExplanationsStay
  <2>1. PICK step \in {"reloading", "idle"} : card' = [card EXCEPT ![i].step = step]
    BY <1>10 DEF Reload, GoOn
  <2>2. card[i].step \in {"conflict", "reloading"} /\ UNCHANGED <<call, disturbed>>
        /\ (query' = query \/ query' = Q!Refetch(query, {i}))
    BY <1>10 DEF Reload, GoOn, Reloaded
  <2>3. IsQueryRecord(query') /\ OnPage(query') = OnPage(query)
    BY <1>0, <2>2, QueryKeepsPage
  <2> DEFINE k == [card[i] EXCEPT !.step = step]
  <2>4. k \in Cards /\ k.reason = card[i].reason
    BY <1>8, <2>2, NameAssumption DEF Cards
  <2>5. card[i] # NewCard
    BY <2>2 DEF NewCard
  <2>6. i \in OnPage(query)
    BY <1>0, <2>5 DEF CardsOn
  <2>7. card' = [card EXCEPT ![i] = k]
    BY <2>1
  <2> HIDE DEF k
  <2> QED BY <1>0, <1>7, <2>2, <2>3, <2>4, <2>6, <2>7 DEF Page
<1>11. ASSUME NEW r, IsCallRecord(r), Send(r),
              r.issue # Nobody => r.issue \in Issue /\ r.issue \in OnPage(query)
       PROVE  Page' /\ ExplanationsStay
  <2> DEFINE c == CHOOSE c \in Call : call[c].step = "free"
             i == r.issue
             k == [reason |-> card[i].reason, step |-> "sending", call |-> c]
  <2>1. c \in Call /\ UNCHANGED <<query, disturbed>>
    BY <1>11 DEF Send
  <2>2. call' = [call EXCEPT ![c] = [r EXCEPT !.step = "sent"]]
    BY <1>11 DEF Send
  <2>3. IsCallRecord([r EXCEPT !.step = "sent"])
    <3>1. PICK t, kind, issue, old, expected, answer :
            t \in CallSteps /\ r \in CallRecords(t, kind, issue, old, expected, answer)
      BY <1>11 DEF IsCallRecord
    <3>2. [r EXCEPT !.step = "sent"] \in CallRecords("sent", kind, issue, old, expected, answer)
      BY <3>1, Zenon DEF CallRecords
    <3> QED BY <3>2, Zenon DEF IsCallRecord, CallSteps
  <2>4. i = Nobody => card' = card
    BY <1>11 DEF Send
  <2>5. i # Nobody => card' = [card EXCEPT ![i].step = "sending", ![i].call = c]
    BY <1>11 DEF Send
  <2> HIDE DEF c
  <2>6. call' = [d \in Call |-> call'[d]] /\ \A d \in Call : IsCallRecord(call'[d])
    BY <1>1, <2>1, <2>2, <2>3
  <2>7. CASE i = Nobody
    BY <1>0, <2>1, <2>4, <2>6, <2>7 DEF Page, CardsOn, ExplanationsStay
  <2>8. CASE i # Nobody
    <3>1. i \in Issue /\ i \in OnPage(query)
      BY <1>11, <2>8
    <3>2. k \in Cards /\ k.reason = card[i].reason
      BY <1>8, <2>1, <3>1 DEF Cards
    <3>3. card' = [card EXCEPT ![i] = k]
      BY <1>8, <2>5, <2>8, <3>1
    <3> HIDE DEF k
    <3>4. IsQueryRecord(query') /\ CardsOn(card', query') /\ ExplanationsStay
      BY <1>0, <1>7, <2>1, <3>1, <3>2, <3>3
    <3> QED BY <1>0, <2>1, <2>6, <3>4 DEF Page
  <2> QED BY <2>7, <2>8
<1>12. ASSUME NEW i \in Issue, SendResolution(i) \/ \E old \in Old : SendLink(i, old)
       PROVE  Page' /\ ExplanationsStay
  <2>1. PICK r : Send(r) /\ IsCallRecord(r) /\ r.issue = i
    <3>1. CASE SendResolution(i)
      <4>1. PICK kind, expected : Send([Free EXCEPT !.kind = kind, !.issue = i, !.expected = expected])
        BY <3>1, Zenon DEF SendResolution
      <4>2. RequestFor([Free EXCEPT !.kind = kind, !.issue = i, !.expected = expected], i)
        BY FreeIsRecord, Zenon
      <4> QED BY <4>1, <4>2, Zenon DEF RequestFor
    <3>2. CASE \E old \in Old : SendLink(i, old)
      <4>1. PICK kind, old, expected : Send([Free EXCEPT !.kind = kind, !.issue = i, !.old = old, !.expected = expected])
        BY <3>2, Zenon DEF SendLink
      <4>2. RequestFor([Free EXCEPT !.kind = kind, !.issue = i, !.old = old, !.expected = expected], i)
        BY FreeIsRecord, Zenon
      <4> QED BY <4>1, <4>2, Zenon DEF RequestFor
    <3> QED BY <1>12, <3>1, <3>2
  <2>2. i \in OnPage(query)
    BY <1>12 DEF SendResolution, SendLink
  <2> QED BY <1>11, <2>1, <2>2
<1>13. CASE SendCompletion \/ SendComparison
  <2>1. PICK r : Send(r) /\ IsCallRecord(r) /\ r.issue = Nobody
    <3>1. CASE SendCompletion
      <4>1. PICK kind, expected : Send([Free EXCEPT !.kind = kind, !.expected = expected])
        BY <3>1, Zenon DEF SendCompletion
      <4>2. RequestFor([Free EXCEPT !.kind = kind, !.expected = expected], Nobody)
        BY FreeIsRecord, Zenon
      <4> QED BY <4>1, <4>2, Zenon DEF RequestFor
    <3>2. CASE SendComparison
      <4>1. PICK kind, expected : Send([Free EXCEPT !.kind = kind, !.expected = expected])
        BY <3>2, Zenon DEF SendComparison
      <4>2. RequestFor([Free EXCEPT !.kind = kind, !.expected = expected], Nobody)
        BY FreeIsRecord, Zenon
      <4> QED BY <4>1, <4>2, Zenon DEF RequestFor
    <3> QED BY <1>13, <3>1, <3>2
  <2> QED BY <1>11, <2>1
<1>14. ASSUME NEW c \in Call, NEW r, IsCallRecord(r), call' = [call EXCEPT ![c] = r],
              UNCHANGED card, IsQueryRecord(query'), OnPage(query') = OnPage(query),
              UNCHANGED disturbed \/ Disturb
       PROVE  Page' /\ ExplanationsStay
  <2>1. call' = [d \in Call |-> call'[d]] /\ \A d \in Call : IsCallRecord(call'[d])
    BY <1>1, <1>14
  <2> QED BY <1>0, <1>14, <2>1 DEF Page, CardsOn, ExplanationsStay
<1>15. ASSUME NEW c \in Call, Refuse(c) \/ Reply(c)
       PROVE  Page' /\ ExplanationsStay
  <2>1. UNCHANGED <<query, card, disturbed>>
    BY <1>15 DEF Refuse, Reply
  <2>2. \/ \E s \in CallSteps : call' = [call EXCEPT ![c].step = s, ![c].expected = 0]
        \/ \E s \in CallSteps : \E a :
             call' = [call EXCEPT ![c].step = s, ![c].expected = 0, ![c].answer = a]
    BY <1>15, Zenon DEF Refuse, Reply, CallSteps
  <2>3. CASE \E s \in CallSteps : call' = [call EXCEPT ![c].step = s, ![c].expected = 0]
    <3>1. PICK s \in CallSteps : call' = [call EXCEPT ![c].step = s, ![c].expected = 0]
      BY <2>3
    <3>2. call' = [call EXCEPT ![c] = [call[c] EXCEPT !.step = s, !.expected = 0]]
      BY <3>1, <1>0
    <3> QED BY <1>0, <1>2, <1>14, <2>1, <3>2
  <2>4. CASE \E s \in CallSteps : \E a :
               call' = [call EXCEPT ![c].step = s, ![c].expected = 0, ![c].answer = a]
    <3>1. PICK s \in CallSteps :
            \E a : call' = [call EXCEPT ![c].step = s, ![c].expected = 0, ![c].answer = a]
      BY <2>4
    <3>2. PICK a : call' = [call EXCEPT ![c].step = s, ![c].expected = 0, ![c].answer = a]
      BY <3>1
    <3>3. call' = [call EXCEPT ![c] = [call[c] EXCEPT !.step = s, !.expected = 0, !.answer = a]]
      BY <3>2, <1>0
    <3>4. IsCallRecord([call[c] EXCEPT !.step = s, !.expected = 0, !.answer = a])
      BY <1>2
    <3> QED BY <1>0, <1>14, <2>1, <3>3, <3>4
  <2> QED BY <2>2, <2>3, <2>4
<1>16. ASSUME NEW c \in Call, Succeed(c)
       PROVE  Page' /\ ExplanationsStay
  <2> DEFINE i == call[c].issue
  <2>1. PICK q : q = Q!SetData(query, call[c].answer)
    OBVIOUS
  <2>2. PICK cards : cards = IF Answering(c) THEN [card EXCEPT ![i] = NewCard] ELSE card
    OBVIOUS
  <2>3. /\ query' = q /\ card' = Keep(cards, q) /\ call' = [call EXCEPT ![c] = Free]
        /\ UNCHANGED disturbed /\ call[c].step = "done"
    BY <1>16, <2>1, <2>2 DEF Succeed
  <2>4. NewCard \in Cards
    BY NameAssumption DEF NewCard, Cards
  <2>5. /\ cards \in [Issue -> Cards]
        /\ \A j \in Issue : cards[j] # card[j] => j = i /\ Answering(c)
    BY <1>0, <2>2, <2>4
  <2>6. IsQueryRecord(query') /\ CardsOn(card', query')
    BY <1>0, <2>1, <2>3, <2>5, QueryKeepsPage, KeepsCards
  <2>7. ExplanationsStay
    BY <2>3, <2>5, KeepsCards DEF ExplanationsStay, Stored
  <2>8. call' = [d \in Call |-> call'[d]] /\ \A d \in Call : IsCallRecord(call'[d])
    BY <1>1, <1>3, <2>3
  <2> QED BY <1>0, <2>3, <2>6, <2>7, <2>8 DEF Page
<1>17. ASSUME NEW c \in Call, Refused(c) \/ LoseCall(c)
       PROVE  Page' /\ ExplanationsStay
  <2>1. PICK stale \in BOOLEAN : Fail(c, stale)
    BY <1>17 DEF Refused, LoseCall
  <2>2. UNCHANGED disturbed \/ Disturb
    BY <1>17 DEF Refused, LoseCall
  <2>3. CASE call[c].kind = "complete"
    <3>1. /\ query' = Q!Refetch(query, {}) /\ UNCHANGED card
          /\ call' = [call EXCEPT ![c].step = "retrying"]
      BY <2>1, <2>3 DEF Fail
    <3>2. call' = [call EXCEPT ![c] = [call[c] EXCEPT !.step = "retrying"]]
      BY <3>1, <1>0
    <3>3. IsQueryRecord(query') /\ OnPage(query') = OnPage(query)
      BY <1>0, <3>1, QueryKeepsPage
    <3>4. IsCallRecord([call[c] EXCEPT !.step = "retrying"])
      BY <1>2 DEF CallSteps
    <3> QED BY <1>14, <2>2, <3>1, <3>2, <3>3, <3>4
  <2>4. CASE call[c].kind # "complete"
    <3> DEFINE i == call[c].issue
    <3>1. PICK s \in {"conflict", "idle"} :
            card' = IF Answering(c) THEN [card EXCEPT ![i] = AfterFailure(i, s)] ELSE card
      BY <2>1, <2>4, Zenon DEF Fail
    <3>2. UNCHANGED query /\ call' = [call EXCEPT ![c] = Free]
      BY <2>1, <2>4 DEF Fail
    <3>3. CASE card' = card
      BY <1>0, <1>3, <1>14, <2>2, <3>2, <3>3
    <3>4. CASE Answering(c) /\ i \in Issue
      <4>1. card[i] \in [reason : BOOLEAN, step : {"idle", "sending", "conflict", "reloading"},
                          call : Call \cup {NoData}]
        BY <1>8, <3>4 DEF Cards
      <4>2. PICK k : k = AfterFailure(i, s)
        OBVIOUS
      <4>3. k \in Cards /\ k.reason = card[i].reason
        <5>1. k \in [reason : {card[i].reason}, step : {s}, call : {NoData}]
          BY <4>1, <4>2, Zenon DEF AfterFailure
        <5> QED BY <4>1, <5>1, NameAssumption DEF Cards
      <4>4. card[i].call = c
        BY <3>4 DEF Answering
      <4>5. card[i] # NewCard
        BY <4>4, NameAssumption DEF NewCard
      <4>6. i \in OnPage(query)
        BY <1>0, <3>4, <4>5 DEF CardsOn
      <4>7. card' = [card EXCEPT ![i] = k]
        BY <3>1, <3>4, <4>2
      <4>8. k.reason \/ ~card[i].reason
        BY <4>3
      <4>9. IsQueryRecord(query') /\ CardsOn(card', query') /\ ExplanationsStay
        BY <1>0, <1>7, <3>2, <3>4, <4>3, <4>6, <4>7, <4>8
      <4>10. call' = [d \in Call |-> call'[d]] /\ \A d \in Call : IsCallRecord(call'[d])
        BY <1>1, <1>3, <3>2
      <4> QED BY <1>0, <2>2, <4>9, <4>10 DEF Page
    <3>5. CASE Answering(c) /\ i \notin Issue
      <4>1. card' = card
        BY <1>0, <3>1, <3>5
      <4> QED BY <3>3, <4>1
    <3>6. CASE ~Answering(c)
      BY <3>1, <3>3, <3>6
    <3> QED BY <3>4, <3>5, <3>6
  <2> QED BY <2>3, <2>4
<1>18. ASSUME NEW c \in Call, Retry(c)
       PROVE  Page' /\ ExplanationsStay
  <2>1. /\ query' = Q!Refetch(query, {}) /\ UNCHANGED <<card, disturbed>>
        /\ call' = [call EXCEPT ![c] = Free]
    BY <1>18 DEF Retry
  <2>2. IsQueryRecord(query') /\ OnPage(query') = OnPage(query)
    BY <1>0, <2>1, QueryKeepsPage
  <2> QED BY <1>3, <1>14, <2>1, <2>2
<1>19. ASSUME NEW c \in Call, Network(c)
       PROVE  Page' /\ ExplanationsStay
  BY <1>15, <1>16, <1>17, <1>18, <1>19 DEF Network, Resolve, Link, Complete, CompareAgain
<1> QED BY <1>5, <1>6, <1>9, <1>10, <1>12, <1>13, <1>19 DEF Next
-----------------------------------------------------------------------------
(* The row, the page and the calls hold only the values the code gives     *)
(* them, and each finding of a compared report has exactly one entry.      *)
THEOREM TypesHold == Spec => []TypeOK
<1>1. Init => IInv /\ Bounded /\ Page
  <2>1. ASSUME Init
        PROVE  IInv /\ Bounded
    BY <2>1, BoundAssumption DEF Init, NoEntries, IInv, RowTypes, OneEntryEach, Bounded,
       Decision, Decisions, Status, Stage, Issue
  <2>2. ASSUME Init
        PROVE  Page
    <3>1. IsQueryRecord(query)
      BY <2>2 DEF Init, Q!Empty, IsQueryRecord, QueryRecords
    <3>2. CardsOn(card, query)
      BY <2>2, NameAssumption DEF Init, CardsOn, Cards, NewCard
    <3>3. IsCallRecord(Free)
      BY FreeIsRecord DEF RequestFor
    <3> QED BY <2>2, <3>1, <3>2, <3>3, BoundAssumption DEF Init, Page
  <2> QED BY <2>1, <2>2
<1>2. IInv /\ Bounded /\ Page /\ [Next]_vars => IInv' /\ Bounded' /\ Page'
  <2>1. ASSUME IInv, Bounded, Page, Next
        PROVE  IInv' /\ Bounded' /\ Page'
    BY <2>1, StepIsRowStep, RowsInvariant, BoundsInvariant, PageGoes
  <2>2. ASSUME IInv, Bounded, Page, UNCHANGED vars
        PROVE  IInv' /\ Bounded' /\ Page'
    <3>1. RowStep
      BY <2>2 DEF vars, RowStep
    <3>2. Page'
      BY <2>2 DEF vars, Page, CardsOn
    <3> QED BY <2>2, <3>1, <3>2, RowsInvariant, BoundsInvariant
  <2> QED BY <2>1, <2>2
<1>3. IInv /\ Bounded /\ Page => TypeOK
  <2> SUFFICES ASSUME IInv, Bounded, Page
               PROVE  TypeOK
    OBVIOUS
  <2>1. /\ decision \in [Finding -> Decision] /\ cycle.stage \in Stage /\ cycle.limited \in BOOLEAN
        /\ cycle.revision \in 0..MaxRevision /\ DOMAIN cycle.entries \subseteq Issue
        /\ cycle.stage = "ready" => \A f \in Finding : \E i \in Issue : EntriesOf(cycle, f) = {i}
        /\ disturbed \in 0..Disturbances
    BY DEF IInv, RowTypes, OneEntryEach, Bounded, Page
  <2>2. \A i \in DOMAIN cycle.entries : cycle.entries[i] \in Entry
    <3> SUFFICES ASSUME NEW i \in DOMAIN cycle.entries
                 PROVE  cycle.entries[i] \in Entry
      OBVIOUS
    <3>1. cycle.entries[i] \in Entries
      BY DEF IInv, RowTypes
    <3>2. cycle.entries[i].revision \in 0..MaxRevision
      BY BoundAssumption DEF Bounded
    <3> QED BY <3>1, <3>2 DEF Entries, Entry
  <2>3. \A i \in Issue : /\ card[i].reason \in BOOLEAN
                         /\ card[i].step \in {"idle", "sending", "conflict", "reloading"}
                         /\ card[i].step = "sending" <=> card[i].call \in Call
                         /\ card[i] # NewCard => i \in OnPage(query)
    BY DEF Page, CardsOn, Cards
  <2>4. \A c \in Call : call[c].step \in {"free", "sent", "done", "stale", "failed", "retrying"}
    BY DEF Page, IsCallRecord, CallRecords, CallSteps
  <2> QED BY <2>1, <2>2, <2>3, <2>4 DEF TypeOK
<1> QED BY <1>1, <1>2, <1>3, PTL DEF Spec

(* What a person wrote about a fix goes only with the change it was        *)
(* written for, with an answer by which the issue is no longer one of the  *)
(* panel's, or with a panel that could not be loaded.                      *)
THEOREM ExplanationsOutliveRefusals == Spec => ExplanationOutlivesRefusals
<1>1. Init => Page
  <2>1. ASSUME Init
        PROVE  IsQueryRecord(query) /\ CardsOn(card, query) /\ IsCallRecord(Free)
    BY <2>1, NameAssumption, FreeIsRecord
       DEF Init, Q!Empty, IsQueryRecord, QueryRecords, CardsOn, Cards, NewCard, RequestFor
  <2> QED BY <2>1, BoundAssumption DEF Init, Page
<1>2. Page /\ [Next]_vars => Page'
  <2>1. Page /\ UNCHANGED vars => Page'
    BY DEF vars, Page, CardsOn
  <2> QED BY <2>1, PageGoes
<1>3. ASSUME Page, Next, NEW i \in Issue, card[i].reason, ~card'[i].reason
      PROVE  \/ query'.failed
             \/ query'.data # query.data /\ i \notin OnPage(query')
             \/ \E c \in Call : call[c].step = "done" /\ Answering(c) /\ call[c].issue = i
  <2>1. card[i] # NewCard
    BY <1>3 DEF NewCard
  <2>2. i \in OnPage(query)
    BY <1>3, <2>1 DEF Page, CardsOn
  <2>3. i \notin OnPage(query') \/ Stored(i)
    BY <1>3, PageGoes DEF ExplanationsStay
  <2>4. ASSUME ~query'.failed, query'.data = query.data
        PROVE  i \in OnPage(query')
    BY <2>2, <2>4 DEF OnPage, Issues
  <2> QED BY <2>3, <2>4 DEF Stored
<1>4. Page /\ [Next]_vars =>
        [\A i \in Issue : card[i].reason /\ ~card'[i].reason =>
           \/ query'.failed
           \/ query'.data # query.data /\ i \notin OnPage(query')
           \/ \E c \in Call : call[c].step = "done" /\ Answering(c) /\ call[c].issue = i]_vars
  BY <1>3
<1> QED BY <1>1, <1>2, <1>4, PTL DEF Spec, ExplanationOutlivesRefusals
=============================================================================
