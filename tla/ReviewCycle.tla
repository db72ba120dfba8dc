------------------------------ MODULE ReviewCycle ------------------------------
(***************************************************************************)
(* The cycle of a document: the findings of a report compared once with    *)
(* those of the version before, the links, fixes and the completion that   *)
(* people record about it, and the report page that shows the next step    *)
(* and sends all of these, while others do the same elsewhere              *)
(* (document_cycles.py, cycle_state.py, review_completion.py; apps/web:    *)
(* ReviewCyclePage.tsx, ReviewNextStep.tsx, use-finding-states.ts,         *)
(* effective-decision.ts).                                                 *)
(*                                                                         *)
(* An issue of an earlier version is a member of Old; an issue that is new *)
(* in this version is named by its finding.  The coverage of the report    *)
(* and the limitations of the comparison are one flag, "limited".  The     *)
(* reason of a fix is there or not; when it was stored is left out, for    *)
(* its revision never repeats.  Decisions are made in other windows, and   *)
(* the list of them is read in one step, for a list received late is one   *)
(* that was read before the decision it misses; a list that cannot be read *)
(* hides the next step until it can.                                       *)
(* A definition named ...Variant is a mistake used by no action.           *)
(***************************************************************************)
EXTENDS Naturals, FiniteSets

CONSTANTS
  Finding,       \* findings of the report
  Old,           \* issues of earlier versions
  Nobody,        \* no finding, no issue
  Verdict,       \* the statuses people choose, except unreviewed
  PriorVerdict,  \* the statuses earlier versions may have left
  Limited,       \* whether a comparison may be limited: a set of Booleans
  Call,          \* calls of the page that may overlap
  NoData,        \* nothing in the cache, no call
  Disturbances,  \* lost requests and failed comparisons, at most
  MaxDecision,   \* revisions of a decision, at most
  MaxRevision    \* revisions of the cycle, at most

ASSUME NameAssumption ==
  Nobody \notin Finding \cup Old /\ Finding \cap Old = {} /\ NoData \notin Call
ASSUME VerdictAssumption == Verdict \subseteq {"confirmed", "rejected", "needs_context"}
ASSUME PriorAssumption == PriorVerdict \subseteq Verdict \cup {"unreviewed"}
ASSUME BoundAssumption ==
  /\ Limited \subseteq BOOLEAN
  /\ MaxDecision \in Nat /\ MaxRevision \in Nat \ {0} /\ Disturbances \in Nat

VARIABLES
  decision,   \* the decisions about the findings in the database
  cycle,      \* the row of the cycle in the database
  states,     \* the decisions the page has read
  query,      \* the query of the cycle
  card,       \* the cards of the issues on the page
  call,       \* the calls under way
  disturbed   \* disturbances so far

vars == <<decision, cycle, states, query, card, call, disturbed>>

Q == INSTANCE QueryCache

Issue == Old \cup Finding
Status == Verdict \cup {"unreviewed"}
Decision == [status : Status, revision : 0..MaxDecision]
Entry == [current : Finding \cup {Nobody},
          status : {"new", "persisting", "not_detected", "uncertain", "not_checked", "reappeared"},
          carried : BOOLEAN, previous : Status, resolved : BOOLEAN, revision : 0..MaxRevision]
Stage == {"unavailable", "comparison_failed", "ready"}

Free == [step |-> "free", kind |-> "none", issue |-> Nobody, old |-> Nobody,
         expected |-> 0, answer |-> NoData]

(* empty_cycle(). *)
NoEntries == [i \in {} |-> Nobody]
Init ==
  /\ decision = [f \in Finding |-> [status |-> "unreviewed", revision |-> 0]]
  /\ cycle = [stage |-> "unavailable", limited |-> FALSE, revision |-> 0,
              entries |-> NoEntries, completion |-> {}]
  /\ states = NoData /\ query = Q!Empty
  /\ card = [i \in Issue |-> [reason |-> FALSE, step |-> "idle", call |-> NoData]]
  /\ call = [c \in Call |-> Free]
  /\ disturbed = 0
-----------------------------------------------------------------------------
(* The comparison. *)

(* build_cycle(): matched gives the issue a finding has been found to be,  *)
(* alike the pairs that resemble each other and were not matched.  A fix   *)
(* of what turns up again is open again.                                   *)
Compared(matched, alike, before, carry, limited) ==
  LET new == {f \in Finding : matched[f] = Nobody}
      gone == {i \in Old : \A f \in Finding : matched[f] # i}
      Uncertain(i) == \E f \in new, o \in gone : <<f, o>> \in alike /\ i \in {f, o}
      Appeared(f) ==
        [current |-> f, status |-> IF Uncertain(f) THEN "uncertain" ELSE "new",
         carried |-> FALSE, previous |-> "unreviewed", resolved |-> FALSE, revision |-> 0]
      Gone(i) ==
        [current |-> Nobody,
         status |-> IF Uncertain(i) THEN "uncertain"
                    ELSE IF limited THEN "not_checked" ELSE "not_detected",
         carried |-> FALSE, previous |-> before[i].verdict,
         resolved |-> before[i].resolved, revision |-> 0]
      Found(i) ==
        [current |-> CHOOSE f \in Finding : matched[f] = i,
         status |-> IF before[i].resolved THEN "reappeared" ELSE "persisting",
         carried |-> carry /\ ~before[i].resolved /\ before[i].verdict # "unreviewed",
         previous |-> before[i].verdict, resolved |-> FALSE, revision |-> 0]
  IN [i \in Old \cup new |->
       IF i \in new THEN Appeared(i) ELSE IF i \in gone THEN Gone(i) ELSE Found(i)]

(* One issue is matched with one finding at most. *)
Matching ==
  {g \in [Finding -> Old \cup {Nobody}] :
     \A f, h \in Finding : g[f] = g[h] /\ g[f] # Nobody => f = h}

(* _compare() of a report not compared yet: what the matching of the two   *)
(* versions may find.                                                      *)
Compare(c) ==
  \E matched \in Matching, alike \in SUBSET (Finding \X Old),
     before \in [Old -> [verdict : PriorVerdict, resolved : BOOLEAN]],
     carry \in BOOLEAN, limited \in Limited :
    c = [stage |-> "ready", limited |-> limited, revision |-> cycle.revision + 1,
         entries |-> Compared(matched, alike, before, carry, limited), completion |-> {}]
-----------------------------------------------------------------------------
(* Completion. *)

(* A decision of the version before holds while nobody has touched the     *)
(* finding: effectiveDecision(), and the same in completion_state().       *)
Effective(d, e) == IF d.revision = 0 /\ e.carried THEN e.previous ELSE d.status

EntriesOf(c, f) == {i \in DOMAIN c.entries : c.entries[i].current = f}

(* completion_state(): every finding is rejected, or confirmed and fixed,  *)
(* and nothing of the versions before is left open.                        *)
Settled(c, d) ==
  /\ c.stage = "ready" /\ ~c.limited
  /\ \A f \in Finding : \E i \in EntriesOf(c, f) :
       \/ Effective(d[f], c.entries[i]) = "rejected"
       \/ Effective(d[f], c.entries[i]) = "confirmed" /\ c.entries[i].resolved
  /\ \A i \in DOMAIN c.entries :
       /\ c.entries[i].status \notin {"uncertain", "not_checked"}
       /\ c.entries[i].current = Nobody =>
            c.entries[i].resolved \/ c.entries[i].previous = "rejected"

Digest(c, d) == [entries |-> c.entries, decisions |-> d]

(* project_completion(). *)
CompletedVariant(c, d) == Settled(c, d) /\ c.completion # {}
Completed(c, d) == Settled(c, d) /\ c.completion = {Digest(c, d)}

(* What the page is sent: GET projects the completion, the answers to      *)
(* PUT and POST hold the row as it stands.                                 *)
Answer(c, completed) ==
  [stage |-> c.stage, limited |-> c.limited, revision |-> c.revision,
   entries |-> c.entries, completed |-> completed]
Projected(c) == Answer(c, Completed(c, decision))
Raw(c) == Answer(c, c.completion # {})

(* useFindingStates(): the decisions of the page, each with its entry.     *)
InheritedVariant(d, c) == [f \in Finding |-> d[f].status]
Inherited(d, c) ==
  [f \in Finding |->
     IF EntriesOf(c, f) = {} THEN d[f].status
     ELSE Effective(d[f], c.entries[CHOOSE i \in EntriesOf(c, f) : TRUE])]

(* nextStep(), of the decisions and the cycle on the page. *)
NextStep(d, c) ==
  LET effective == Inherited(d, c)
      Open(i) == /\ c.entries[i].current = Nobody /\ ~c.entries[i].resolved
                 /\ c.entries[i].previous # "rejected"
      Unclear(i) == c.entries[i].status \in {"uncertain", "not_checked"}
      Fixed(f) == \E i \in EntriesOf(c, f) : c.entries[i].resolved
  IN IF \E f \in Finding : effective[f] \in {"unreviewed", "needs_context"} THEN "decide"
     ELSE IF c.stage # "ready" \/ c.limited \/ \E i \in DOMAIN c.entries : Unclear(i) \/ Open(i)
       THEN "fixes"
     ELSE IF \E f \in Finding : effective[f] = "confirmed" /\ ~Fixed(f) THEN "upload"
     ELSE IF c.completed THEN "completed" ELSE "complete"
-----------------------------------------------------------------------------
(* The page. *)

Issues(q) == IF q.data = NoData THEN {} ELSE DOMAIN q.data.entries

(* The panel of the report page: cards of what is no longer found and of   *)
(* what may be the same.  An error takes the panel, and with it what was   *)
(* written, off the page.                                                  *)
OnPage(q) ==
  IF q.failed THEN {}
  ELSE {i \in Issues(q) : \/ q.data.entries[i].current = Nobody
                          \/ q.data.entries[i].status = "uncertain"}
NewCard == [reason |-> FALSE, step |-> "idle", call |-> NoData]
Keep(cards, q) == [i \in Issue |-> IF i \in OnPage(q) THEN cards[i] ELSE NewCard]
Update(q) == query' = q /\ card' = Keep(card, q)

(* What awaits a reload goes on before the next event of the browser.      *)
Reloaded(i) == card[i].step = "reloading" /\ i \notin Q!Waiters(query)
Quiet == \A i \in Issue : ~Reloaded(i)
Disturb == disturbed < Disturbances /\ disturbed' = disturbed + 1

(* A mount or the focus of the window; a button that loads again replaces  *)
(* the fetch under way.                                                    *)
Load ==
  /\ Quiet
  /\ \/ states' = decision /\ UNCHANGED query
     \/ query' \in {Q!Fetch(query), Q!Refetch(query, {})} /\ UNCHANGED states
  /\ UNCHANGED <<decision, cycle, card, call, disturbed>>

ReceiveCycle ==
  /\ Quiet /\ query.fetch = "answered"
  /\ Update(Q!Received(query))
  /\ UNCHANGED <<decision, cycle, states, call, disturbed>>

LoseFetch ==
  /\ Quiet /\ Disturb /\ Q!Fetching(query)
  /\ Update(Q!Lost(query))
  /\ UNCHANGED <<decision, cycle, states, call>>

Explain(i) ==
  /\ Quiet /\ i \in OnPage(query) /\ card[i].step # "sending" /\ ~card[i].reason
  /\ card' = [card EXCEPT ![i].reason = TRUE]
  /\ UNCHANGED <<decision, cycle, states, query, call, disturbed>>

(* A click that sends one call more; a card waits for its own.             *)
Send(request) ==
  LET c == CHOOSE c \in Call : call[c].step = "free"
      i == request.issue
  IN  /\ Quiet /\ \E k \in Call : call[k].step = "free"
      /\ call' = [call EXCEPT ![c] = [request EXCEPT !.step = "sent"]]
      /\ card' = IF i = Nobody THEN card
                 ELSE [card EXCEPT ![i].step = "sending", ![i].call = c]
      /\ UNCHANGED <<decision, cycle, states, query, disturbed>>
Pending(kind) == \E c \in Call : call[c].step \notin {"free", "retrying"} /\ call[c].kind = kind

(* "Подтвердить исправление" and "Вернуть в работу". *)
SendResolution(i) ==
  /\ i \in OnPage(query) /\ card[i].step = "idle" /\ card[i].reason
  /\ LET e == query.data.entries[i]
     IN Send([Free EXCEPT !.kind = IF e.resolved THEN "reopen" ELSE "resolve", !.issue = i,
                          !.expected = e.revision])

(* "Связать": the finding of the card with an issue without a finding.     *)
SendLink(i, old) ==
  /\ i \in OnPage(query) /\ query.data.entries[i].current # Nobody /\ card[i].step = "idle"
  /\ old \in Issues(query) \ {i} /\ query.data.entries[old].current = Nobody
  /\ Send([Free EXCEPT !.kind = "link", !.issue = i, !.old = old,
                       !.expected = query.data.revision])

(* The next step is shown of what has been loaded without an error.        *)
ShownStep ==
  IF ~query.failed /\ states # NoData /\ Q!Loaded(query)
    THEN NextStep(states, query.data) ELSE "none"

SendCompletion ==
  /\ ShownStep = "complete" /\ ~Pending("complete")
  /\ Send([Free EXCEPT !.kind = "complete", !.expected = query.data.revision])

(* "Повторить сравнение", on a panel that is there. *)
SendComparison ==
  /\ Q!Loaded(query) /\ ~query.failed /\ ~Pending("compare")
  /\ query.data.stage # "ready" \/ OnPage(query) # {} \/ query.data.limited
  /\ Send([Free EXCEPT !.kind = "compare", !.expected = query.data.revision])
-----------------------------------------------------------------------------
(* The service. *)

(* The first comparison, after the report is published or by a GET before. *)
FirstComparison ==
  \/ Compare(cycle') /\ UNCHANGED disturbed
  \/ Disturb /\ cycle' = [cycle EXCEPT !.stage = "comparison_failed"]

AfterPublish ==
  /\ Quiet /\ cycle.stage = "unavailable" /\ FirstComparison
  /\ UNCHANGED <<decision, states, query, card, call>>

GetCycle ==
  /\ Quiet /\ query.fetch = "sent"
  /\ IF cycle.stage = "unavailable" THEN FirstComparison ELSE UNCHANGED <<cycle, disturbed>>
  /\ query' = Q!Answered(query, Projected(cycle'))
  /\ UNCHANGED <<decision, states, card, call>>

(* revise_resolution(). *)
WithResolution(i, resolved) ==
  [cycle EXCEPT !.revision = @ + 1, !.entries[i].resolved = resolved,
                !.entries[i].revision = @ + 1]

(* revise_link(): the issue that was new for the finding is gone, an older *)
(* one is left to be checked; a fix of what turns up again is open again.  *)
WithLinkVariant(f, old) ==
  [cycle EXCEPT !.revision = @ + 1, !.entries[old].current = f,
                !.entries[old].status = "persisting"]
WithLink(f, old) ==
  LET e == cycle.entries
      left == EntriesOf(cycle, f)
      linked == IF e[old].resolved
                  THEN [e[old] EXCEPT !.current = f, !.status = "reappeared", !.carried = FALSE,
                                      !.resolved = FALSE, !.revision = 0]
                  ELSE [e[old] EXCEPT !.current = f, !.status = "persisting", !.carried = FALSE]
      unlinked(i) == [e[i] EXCEPT !.current = Nobody, !.status = "not_checked", !.carried = FALSE]
  IN IF old \in left THEN cycle
     ELSE [cycle EXCEPT !.revision = @ + 1,
             !.entries = [i \in DOMAIN e \ (left \ Old) |->
                            IF i = old THEN linked ELSE IF i \in left THEN unlinked(i) ELSE e[i]]]

(* complete(): the same state is not completed twice. *)
WithCompletion ==
  IF cycle.completion = {Digest(cycle, decision)} THEN cycle
  ELSE [cycle EXCEPT !.revision = @ + 1, !.completion = {Digest(cycle, decision)}]

OnFix(r) == r.kind \in {"resolve", "reopen"}
Missing(r) ==
  \/ OnFix(r) /\ r.issue \notin DOMAIN cycle.entries
  \/ /\ r.kind = "link"
     /\ \/ r.issue \notin Finding \/ EntriesOf(cycle, r.issue) = {}
        \/ r.old \notin Old \cap DOMAIN cycle.entries
Stale(r) ==
  \/ OnFix(r) /\ cycle.entries[r.issue].revision # r.expected
  \/ ~OnFix(r) /\ cycle.revision # r.expected
  \/ r.kind = "link" /\ cycle.entries[r.old].current \notin {Nobody, r.issue}
  \/ r.kind = "complete" /\ ~Settled(cycle, decision)

Refuse(c) ==
  /\ Quiet /\ call[c].step = "sent"
  /\ \/ Missing(call[c]) /\ call' = [call EXCEPT ![c].step = "failed", ![c].expected = 0]
     \/ ~Missing(call[c]) /\ Stale(call[c])
          /\ call' = [call EXCEPT ![c].step = "stale", ![c].expected = 0]
  /\ UNCHANGED <<decision, cycle, states, query, card, disturbed>>

Accepts(c) ==
  /\ Quiet /\ call[c].step = "sent" /\ cycle.revision < MaxRevision
  /\ ~Missing(call[c]) /\ ~Stale(call[c])
Reply(c) ==
  /\ call' = [call EXCEPT ![c].step = "done", ![c].expected = 0, ![c].answer = Raw(cycle')]
  /\ UNCHANGED <<decision, states, query, card, disturbed>>

Resolve(c) ==
  /\ OnFix(call[c]) /\ Accepts(c)
  /\ cycle' = WithResolution(call[c].issue, call[c].kind = "resolve")
  /\ Reply(c)
Link(c) ==
  /\ call[c].kind = "link" /\ Accepts(c)
  /\ cycle' = WithLink(call[c].issue, call[c].old)
  /\ Reply(c)
Complete(c) ==
  /\ call[c].kind = "complete" /\ Accepts(c)
  /\ cycle' = WithCompletion
  /\ Reply(c)
CompareAgain(c) ==
  /\ call[c].kind = "compare" /\ Accepts(c)
  /\ IF cycle.stage = "ready" THEN UNCHANGED cycle ELSE Compare(cycle')
  /\ Reply(c)

(* Other windows and other people. *)
DecideElsewhere(f, v) ==
  /\ Quiet /\ decision[f].revision < MaxDecision
  /\ decision' = [decision EXCEPT ![f] = [status |-> v, revision |-> @.revision + 1]]
  /\ UNCHANGED <<cycle, states, query, card, call, disturbed>>

ReviseElsewhere ==
  /\ Quiet /\ cycle.revision < MaxRevision
  /\ \/ \E i \in DOMAIN cycle.entries :
          cycle' = WithResolution(i, ~cycle.entries[i].resolved)
     \/ \E f \in Finding, old \in Old \cap DOMAIN cycle.entries :
          cycle.entries[old].current = Nobody /\ cycle' = WithLink(f, old)
  /\ UNCHANGED <<decision, states, query, card, call, disturbed>>
-----------------------------------------------------------------------------
(* What follows the answers. *)

Answering(c) == call[c].issue # Nobody /\ card[call[c].issue].call = c

(* The answer becomes what the page shows, without a cancel of the reload  *)
(* under way; the card it was for is empty again.                          *)
Succeed(c) ==
  /\ Quiet /\ call[c].step = "done"
  /\ LET q == Q!SetData(query, call[c].answer)
     IN  /\ query' = q
         /\ card' = Keep(IF Answering(c) THEN [card EXCEPT ![call[c].issue] = NewCard]
                         ELSE card, q)
  /\ call' = [call EXCEPT ![c] = Free]
  /\ UNCHANGED <<decision, cycle, states, disturbed>>

AfterFailureVariant(i, step) == NewCard
AfterFailure(i, step) == [card[i] EXCEPT !.step = step, !.call = NoData]

(* A refusal leaves the explanation where it is; one of the completion     *)
(* loads the decisions and the cycle again.                                *)
Fail(c, stale) ==
  IF call[c].kind = "complete"
    THEN /\ query' = Q!Refetch(query, {})
         /\ call' = [call EXCEPT ![c].step = "retrying"]
         /\ UNCHANGED <<states, card>>
    ELSE /\ card' = IF Answering(c)
                      THEN [card EXCEPT ![call[c].issue] =
                              AfterFailure(call[c].issue, IF stale THEN "conflict" ELSE "idle")]
                      ELSE card
         /\ call' = [call EXCEPT ![c] = Free]
         /\ UNCHANGED <<states, query>>

Refused(c) ==
  /\ Quiet /\ call[c].step \in {"stale", "failed"}
  /\ Fail(c, call[c].step = "stale")
  /\ UNCHANGED <<decision, cycle, disturbed>>

(* The request is lost, or its answer, or the comparison fails again; to   *)
(* lose a refusal is to lose the request.                                  *)
LoseCall(c) ==
  /\ Quiet /\ call[c].step \in {"sent", "done"} /\ Disturb
  /\ Fail(c, FALSE)
  /\ UNCHANGED <<decision, cycle>>

(* retry() reads the decisions, and then the cycle once more. *)
Retry(c) ==
  /\ Quiet /\ call[c].step = "retrying"
  /\ states' = decision
  /\ query' = Q!Refetch(query, {})
  /\ call' = [call EXCEPT ![c] = Free]
  /\ UNCHANGED <<decision, cycle, card, disturbed>>

(* "Обновить состояние" on a card. *)
Reload(i) ==
  /\ Quiet /\ card[i].step = "conflict"
  /\ query' = Q!Refetch(query, {i})
  /\ card' = [card EXCEPT ![i].step = "reloading"]
  /\ UNCHANGED <<decision, cycle, states, call, disturbed>>

GoOn(i) ==
  /\ Reloaded(i)
  /\ card' = [card EXCEPT ![i].step = "idle"]
  /\ UNCHANGED <<decision, cycle, states, query, call, disturbed>>
-----------------------------------------------------------------------------
Network(c) ==
  Refuse(c) \/ Resolve(c) \/ Link(c) \/ Complete(c) \/ CompareAgain(c) \/ Succeed(c)
    \/ Refused(c) \/ LoseCall(c) \/ Retry(c)

Next ==
  \/ Load \/ GetCycle \/ ReceiveCycle \/ LoseFetch
  \/ AfterPublish \/ ReviseElsewhere \/ SendCompletion \/ SendComparison
  \/ \E f \in Finding, v \in Verdict : DecideElsewhere(f, v)
  \/ \E i \in Issue : \/ Explain(i) \/ SendResolution(i) \/ Reload(i) \/ GoOn(i)
                      \/ \E old \in Old : SendLink(i, old)
  \/ \E c \in Call : Network(c)

Spec == Init /\ [][Next]_vars
-----------------------------------------------------------------------------
(* What the page and the service promise.                                  *)

(* The row, the page and the calls hold only the values the code gives     *)
(* them; each finding of a compared report has exactly one entry.          *)
TypeOK ==
  /\ decision \in [Finding -> Decision]
  /\ cycle.stage \in Stage /\ cycle.limited \in BOOLEAN /\ cycle.revision \in 0..MaxRevision
  /\ DOMAIN cycle.entries \subseteq Issue
  /\ \A i \in DOMAIN cycle.entries : cycle.entries[i] \in Entry
  /\ cycle.stage = "ready" =>
       \A f \in Finding : \E i \in Issue : EntriesOf(cycle, f) = {i}
  /\ \A i \in Issue : /\ card[i].reason \in BOOLEAN
                      /\ card[i].step \in {"idle", "sending", "conflict", "reloading"}
                      /\ card[i].step = "sending" <=> card[i].call \in Call
                      /\ card[i] # NewCard => i \in OnPage(query)
  /\ \A c \in Call : call[c].step \in {"free", "sent", "done", "stale", "failed", "retrying"}
  /\ disturbed \in 0..Disturbances

(* When the page shows what the database holds, it offers completion, or   *)
(* says the review is complete, exactly when the service finds nothing     *)
(* left open: nextStep() and completion_state() are one rule written       *)
(* twice, with carried decisions, fixes and limitations.                   *)
NextStepAgrees ==
  (NextStep(decision, Projected(cycle)) \in {"complete", "completed"})
    <=> Settled(cycle, decision)

(* A completion that lapsed because a decision, a link or a fix changed    *)
(* never comes back but by completing once more (review_completion.py).    *)
CompletionLapses ==
  [][~Completed(cycle, decision) /\ Completed(cycle, decision)'
       => \E c \in Call : Complete(c)]_vars

(* What a person wrote about a fix goes only with the change it was        *)
(* written for, with an answer by which the issue is no longer one of the  *)
(* panel's, or with a panel that could not be loaded: no refusal, no lost  *)
(* call and no answer about another card takes it (ReviewCyclePage.tsx).   *)
ExplanationOutlivesRefusals ==
  [][\A i \in Issue : card[i].reason /\ ~card'[i].reason =>
       \/ query'.failed
       \/ query'.data # query.data /\ i \notin OnPage(query')
       \/ \E c \in Call : call[c].step = "done" /\ Answering(c) /\ call[c].issue = i]_vars

(* Whoever is told that the state has changed is told that the explanation *)
(* is kept in the form (ReviewCyclePage.tsx:86): it stays there while the  *)
(* data are loaded again, as long as the issue is one of the panel's.      *)
ExplanationIsKept ==
  [][\A i \in Issue : card[i].step \in {"conflict", "reloading"} /\ card[i].reason =>
       card'[i].reason \/ (query'.data # query.data /\ i \notin OnPage(query'))]_vars
===============================================================================
