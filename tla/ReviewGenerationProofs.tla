----------------------- MODULE ReviewGenerationProofs ----------------------
(***************************************************************************)
(* For any finite set of operations and any number of permits and          *)
(* generations: every permit comes back once, and the history of the calls *)
(* of a run is the one the retry policy allows.                            *)
(***************************************************************************)
EXTENDS ReviewGeneration, FiniteSetTheorems, SequenceTheorems, TLAPS

(* TypeOK without the count of permits, which needs an argument of its own. *)
Types ==
  /\ phase \in [Run -> Phase]
  /\ round \in [Run -> 1..MaxGenerations]
  /\ try \in [Run -> 1..MaxAttempts]
  /\ outcome \in [Run -> Outcome \cup {"none"}]
  /\ attempts \in [Run -> Seq(Attempt)]
  /\ ended \subseteq Run /\ late \subseteq Run /\ stopping \in BOOLEAN

Holders == {r \in Run : phase[r] \in Holding}
PermitsReturn == permits \in Nat /\ permits + Cardinality(Holders) = Permits

(* The calls an operation has made in its present generation. *)
Before == {"idle", "waiting", "beginning", "inserting"}
Made(r) == IF phase[r] \in Before THEN try[r] - 1 ELSE try[r]

(* They are the last ones of its history. *)
Counted(r) ==
  LET calls == attempts[r] IN
    phase[r] # "over" =>
      /\ Made(r) <= Len(calls)
      /\ \A i \in 1..Len(calls) :
           /\ calls[i].round <= round[r]
           /\ calls[i].round = round[r] <=> i > Len(calls) - Made(r)

(* The last call is what the next one follows. *)
Continues(r) ==
  LET calls == attempts[r]
      last == attempts[r][Len(attempts[r])]
  IN  /\ phase[r] \in Before /\ try[r] = 1 =>
           calls = <<>> \/ (last.outcome = "text" /\ round[r] = last.round + 1)
      /\ phase[r] \in Before /\ try[r] = 2 => last.outcome = "transient"
      /\ phase[r] = "pausing" => last.outcome = "transient" /\ try[r] = 1
      /\ phase[r] = "validating" => last.outcome = "text"

(* An operation that has made a call after the end of its execution does   *)
(* not make another one.                                                   *)
LateCallIsLast(r) ==
  \A i \in 1..Len(attempts[r]) :
    attempts[r][i].stale => r \in ended /\ phase[r] # "inserting"

(* CallHistory and OneLateCall for one operation. *)
Allowed(calls) ==
  /\ \A i \in 1..(Len(calls) - 1) : Follows(calls[i], calls[i + 1])
  /\ \A i \in 1..(Len(calls) - 2) :
       ~(calls[i].round = calls[i + 1].round /\ calls[i].round = calls[i + 2].round)
  /\ \A i, j \in 1..Len(calls) : calls[i].stale /\ calls[j].stale => i = j

Tale(r) == Counted(r) /\ Continues(r) /\ LateCallIsLast(r) /\ Allowed(attempts[r])

IInv == Types /\ PermitsReturn /\ \A r \in Run : Tale(r)

(* What a step does to the history of an operation. *)
Begun(r) ==
  /\ phase[r] = "inserting" /\ phase'[r] = "calling"
  /\ UNCHANGED <<round[r], try[r]>> /\ (r \in ended <=> r \in ended')
  /\ \E call \in Attempt :
       /\ call.round = round[r] /\ (call.stale <=> r \in ended)
       /\ attempts'[r] = Append(attempts[r], call)
Finished(r) ==
  /\ phase[r] = "recording" /\ phase'[r] \in {"validating", "pausing", "over"}
  /\ UNCHANGED <<round[r], try[r]>> /\ (r \in ended <=> r \in ended')
  /\ attempts[r] # <<>>
  /\ \E call \in Attempt :
       /\ call.round = attempts[r][Len(attempts[r])].round
       /\ call.stale = attempts[r][Len(attempts[r])].stale
       /\ phase'[r] = "validating" => call.outcome = "text"
       /\ phase'[r] = "pausing" => call.outcome = "transient" /\ try[r] = 1
       /\ attempts'[r] = [attempts[r] EXCEPT ![Len(attempts[r])] = call]
Advanced(r) ==
  /\ UNCHANGED <<round[r], try[r], attempts[r]>> /\ (r \in ended => r \in ended')
  /\ \/ UNCHANGED phase[r]
     \/ phase'[r] = "over"
     \/ phase[r] \in Before /\ phase'[r] \in Before /\ (phase'[r] = "inserting" => r \notin ended')
     \/ phase[r] = "calling" /\ phase'[r] = "recording"
Again(r) ==
  /\ phase'[r] = "idle" /\ UNCHANGED attempts[r] /\ (r \in ended => r \in ended')
  /\ \/ phase[r] = "pausing" /\ try'[r] = try[r] + 1 /\ UNCHANGED round[r]
     \/ phase[r] = "validating" /\ try'[r] = 1 /\ round'[r] = round[r] + 1
Moves(r) == Begun(r) \/ Finished(r) \/ Advanced(r) \/ Again(r)
-----------------------------------------------------------------------------
(* Types and steps. *)

(* A recording operation has a call to record. *)
LEMMA RecordingHasCall ==
  ASSUME Types, NEW r \in Run, Tale(r), phase[r] = "recording"
  PROVE  Len(attempts[r]) \in Nat \ {0} /\ attempts[r] # <<>>
<1>1. attempts[r] \in Seq(Attempt) /\ try[r] \in {1, 2}
  BY DEF Types, MaxAttempts
<1>2. Made(r) = try[r] /\ Made(r) <= Len(attempts[r])
  BY DEF Made, Before, Tale, Counted
<1> QED BY <1>1, <1>2

(* Recording replaces the last call by one with a state and an outcome. *)
LEMMA RecordedCall ==
  ASSUME Types, NEW r \in Run, Len(attempts[r]) \in Nat \ {0}, Recorded(r)
  PROVE  /\ attempts' \in [Run -> Seq(Attempt)]
         /\ \A s \in Run \ {r} : attempts'[s] = attempts[s]
         /\ \E call \in Attempt :
              /\ call.round = attempts[r][Len(attempts[r])].round
              /\ call.stale = attempts[r][Len(attempts[r])].stale
              /\ call.outcome = outcome[r]
              /\ attempts'[r] = [attempts[r] EXCEPT ![Len(attempts[r])] = call]
<1> DEFINE last == Len(attempts[r])
           state == IF outcome[r] = "text" THEN "succeeded" ELSE "failed"
           call == [attempts[r][last] EXCEPT !.state = state, !.outcome = outcome[r]]
<1>1. attempts[r] \in Seq(Attempt) /\ last \in 1..Len(attempts[r])
  BY DEF Types
<1>2. attempts[r][last] \in Attempt /\ outcome[r] \in Outcome \cup {"none"}
  BY <1>1, ElementOfSeq DEF Types
<1>3. call \in Attempt
  BY <1>2 DEF Attempt
<1>4. /\ call.round = attempts[r][last].round /\ call.stale = attempts[r][last].stale
      /\ call.outcome = outcome[r]
  BY <1>2 DEF Attempt
<1>5. attempts' = [attempts EXCEPT ![r] = [attempts[r] EXCEPT ![last] = call]]
  BY <1>1 DEF Recorded, Types
<1>6. [attempts[r] EXCEPT ![last] = call] \in Seq(Attempt)
  BY <1>1, <1>3, ExceptSeq
<1> HIDE DEF call
<1> QED BY <1>3, <1>4, <1>5, <1>6 DEF Types

(* Every step writes values of their types and moves every operation in    *)
(* one of the ways above.                                                  *)
LEMMA NextMoves ==
  ASSUME Types, \A r \in Run : Tale(r), [Next]_vars
  PROVE  Types' /\ \A r \in Run : Moves(r)
<1>0. ASSUME NEW s \in Run, NEW p \in Phase, Go(s, p),
             UNCHANGED <<round, try, attempts, ended, late, stopping>>,
             outcome' \in [Run -> Outcome \cup {"none"}],
             \/ p = "over"
             \/ phase[s] \in Before /\ p \in Before /\ (p = "inserting" => s \notin ended)
             \/ phase[s] = "calling" /\ p = "recording"
      PROVE  Types' /\ \A r \in Run : Moves(r)
  <2>1. phase' \in [Run -> Phase] /\ phase'[s] = p /\ \A r \in Run \ {s} : phase'[r] = phase[r]
    BY <1>0 DEF Go, Types
  <2>2. Types'
    BY <1>0, <2>1 DEF Types
  <2>3. \A r \in Run : Advanced(r)
    BY <1>0, <2>1 DEF Advanced
  <2> QED BY <2>2, <2>3 DEF Moves
<1>1. ASSUME NEW s \in Run, Ask(s) \/ Acquire(s) \/ BeginRead(s) \/ Answer(s) \/ Conclude(s) \/ Interrupt(s)
      PROVE  Types' /\ \A r \in Run : Moves(r)
  <2> USE DEF Before, Phase, Holding
  <2>1. CASE Ask(s)
    BY <1>0, <2>1 DEF Ask, Types
  <2>2. CASE Acquire(s)
    BY <1>0, <2>2 DEF Acquire, Types
  <2>3. CASE BeginRead(s)
    BY <1>0, <2>3 DEF BeginRead, Types
  <2>4. CASE Answer(s)
    BY <1>0, <2>4 DEF Answer, Types
  <2>5. CASE Conclude(s) \/ Interrupt(s)
    BY <1>0, <2>5 DEF Conclude, Interrupt, Types
  <2> QED BY <1>1, <2>1, <2>2, <2>3, <2>4, <2>5
<1>2. ASSUME NEW s \in Run, BeginInsert(s)
      PROVE  Types' /\ \A r \in Run : Moves(r)
  <2> DEFINE stale == s \in ended
             call == [round |-> round[s], state |-> "running", outcome |-> "none", stale |-> stale]
  <2>0. stale \in BOOLEAN
    OBVIOUS
  <2>1. call \in Attempt /\ call.round = round[s] /\ (call.stale <=> s \in ended)
    <3>1. call.round = round[s] /\ (call.stale <=> s \in ended)
      OBVIOUS
    <3> HIDE DEF stale
    <3>2. call \in Attempt
      BY <2>0 DEF Types, Attempt
    <3> QED BY <3>1, <3>2
  <2>2. attempts' = [attempts EXCEPT ![s] = Append(attempts[s], call)]
    BY <1>2 DEF BeginInsert
  <2> HIDE DEF call
  <2>3. Append(attempts[s], call) \in Seq(Attempt)
    BY <2>1, AppendProperties DEF Types
  <2>4. Types'
    BY <1>2, <2>2, <2>3 DEF BeginInsert, Go, Types, Phase, Holding
  <2>5. Begun(s)
    BY <1>2, <2>1, <2>2 DEF BeginInsert, Go, Types, Begun
  <2>6. ASSUME NEW r \in Run, r # s
        PROVE  Advanced(r)
    BY <1>2, <2>2, <2>6 DEF BeginInsert, Go, Types, Advanced
  <2> QED BY <2>4, <2>5, <2>6 DEF Moves
<1>3. ASSUME NEW s \in Run, Record(s) \/ RecordRaises(s)
      PROVE  Types' /\ \A r \in Run : Moves(r)
  <2>1. phase[s] = "recording" /\ UNCHANGED <<round, try, ended, late, stopping>>
    BY <1>3 DEF Record, RecordRaises
  <2>2. PICK p \in {"validating", "pausing", "over"} :
          Go(s, p) /\ (p = "validating" => outcome[s] = "text")
                   /\ (p = "pausing" => outcome[s] = "transient" /\ try[s] = 1)
                   /\ (UNCHANGED attempts => p = "over" \/ Recorded(s))
    <3>1. try[s] \in {1, 2}
      BY DEF Types, MaxAttempts
    <3> QED BY <1>3, <3>1 DEF Record, RecordRaises, AfterCall, MaxAttempts
  <2>3. Recorded(s) \/ UNCHANGED attempts
    BY <1>3 DEF Record, RecordRaises
  <2>4. Len(attempts[s]) \in Nat \ {0} /\ attempts[s] # <<>>
    BY <2>1, RecordingHasCall
  <2>5. attempts' \in [Run -> Seq(Attempt)] /\ \A r \in Run \ {s} : attempts'[r] = attempts[r]
    BY <2>3, <2>4, RecordedCall DEF Types
  <2>6. outcome' \in [Run -> Outcome \cup {"none"}]
    BY <1>3 DEF Record, RecordRaises, Types
  <2>7. Types'
    BY <2>1, <2>2, <2>5, <2>6 DEF Go, Types, Phase
  <2>8. ASSUME NEW r \in Run, r # s
        PROVE  Advanced(r)
    BY <2>1, <2>2, <2>5, <2>8 DEF Go, Types, Advanced
  <2>9. Finished(s) \/ Advanced(s)
    <3>1. CASE Recorded(s)
      <4>1. PICK call \in Attempt :
              /\ call.round = attempts[s][Len(attempts[s])].round
              /\ call.stale = attempts[s][Len(attempts[s])].stale
              /\ call.outcome = outcome[s]
              /\ attempts'[s] = [attempts[s] EXCEPT ![Len(attempts[s])] = call]
        BY <2>4, <3>1, RecordedCall
      <4>2. phase'[s] = p
        BY <2>2 DEF Go, Types
      <4> QED BY <2>1, <2>2, <2>4, <4>1, <4>2 DEF Finished
    <3>2. CASE UNCHANGED attempts /\ ~Recorded(s)
      BY <2>1, <2>2, <3>2 DEF Go, Types, Advanced
    <3> QED BY <2>3, <3>1, <3>2
  <2> QED BY <2>7, <2>8, <2>9 DEF Moves
<1>4. ASSUME NEW s \in Run, Wake(s) \/ Regenerate(s)
      PROVE  Types' /\ \A r \in Run : Moves(r)
  <2>1. try[s] + 1 \in 1..MaxAttempts \/ phase[s] # "pausing"
    BY <1>4 DEF Tale, Continues, MaxAttempts
  <2>2. Types'
    <3>1. try' \in [Run -> 1..MaxAttempts]
      BY <1>4, <2>1 DEF Wake, Regenerate, Types, MaxAttempts
    <3>2. round' \in [Run -> 1..MaxGenerations]
      BY <1>4, GenerationsAssumption DEF Wake, Regenerate, Types
    <3>3. phase' \in [Run -> Phase]
      BY <1>4 DEF Wake, Regenerate, Go, Types, Phase
    <3> QED BY <1>4, <3>1, <3>2, <3>3 DEF Wake, Regenerate, Types
  <2>3. ASSUME NEW r \in Run, r # s
        PROVE  Advanced(r)
    BY <1>4, <2>3 DEF Wake, Regenerate, Go, Types, Advanced
  <2>4. Again(s)
    BY <1>4 DEF Wake, Regenerate, Go, Types, Again
  <2> QED BY <2>2, <2>3, <2>4 DEF Moves
<1>5. ASSUME UNCHANGED <<phase, round, try, attempts, outcome>>, ended \subseteq ended', ended' \subseteq Run,
             late' \subseteq Run, stopping' \in BOOLEAN
      PROVE  Types' /\ \A r \in Run : Moves(r)
  BY <1>5 DEF Types, Moves, Advanced
<1>6. ASSUME NEW s \in Run, PassDeadline(s) \/ EndExecution(s)
      PROVE  Types' /\ \A r \in Run : Moves(r)
  BY <1>5, <1>6 DEF PassDeadline, EndExecution, Types
<1>7. CASE Stop \/ UNCHANGED vars
  BY <1>5, <1>7 DEF Stop, vars, Types
<1> QED BY <1>1, <1>2, <1>3, <1>4, <1>6, <1>7 DEF Next, CallStep
-----------------------------------------------------------------------------
(* Permits. *)

(* Operations can be counted. *)
LEMMA HoldersFinite ==
  IsFiniteSet(Holders) /\ Cardinality(Holders) \in Nat
<1>1. Holders \subseteq Run
  BY DEF Holders
<1> QED BY <1>1, RunAssumption, FS_Subset, FS_CardinalityType

(* An operation holds a permit in some phases and in the others none.      *)
LEMMA PermitTaken ==
  ASSUME Types, NEW r \in Run, NEW p, Go(r, p)
  PROVE  Cardinality(Holders') = Cardinality(Holders)
           + (IF p \in Holding /\ phase[r] \notin Holding THEN 1 ELSE 0)
           - (IF p \notin Holding /\ phase[r] \in Holding THEN 1 ELSE 0)
<1>1. CASE p \in Holding
  <2>1. Holders' = Holders \cup {r}
    BY <1>1 DEF Go, Types, Holders
  <2>2. r \in Holders <=> phase[r] \in Holding
    BY DEF Holders
  <2>3. Cardinality(Holders \cup {r}) =
          IF r \in Holders THEN Cardinality(Holders) ELSE Cardinality(Holders) + 1
    BY HoldersFinite, FS_AddElement
  <2> QED BY <1>1, <2>1, <2>2, <2>3, HoldersFinite
<1>2. CASE p \notin Holding
  <2>1. Holders' = Holders \ {r}
    BY <1>2 DEF Go, Types, Holders
  <2>2. r \in Holders <=> phase[r] \in Holding
    BY DEF Holders
  <2>3. Cardinality(Holders \ {r}) =
          IF r \in Holders THEN Cardinality(Holders) - 1 ELSE Cardinality(Holders)
    BY HoldersFinite, FS_RemoveElement
  <2> QED BY <1>2, <2>1, <2>2, <2>3, HoldersFinite
<1> QED BY <1>1, <1>2

(* Every way into and out of a call moves one permit. *)
LEMMA NextPermits ==
  ASSUME Types, PermitsReturn, [Next]_vars
  PROVE  PermitsReturn'
<1>0. permits \in Nat /\ Cardinality(Holders) \in Nat /\ permits + Cardinality(Holders) = Permits
  BY HoldersFinite DEF PermitsReturn
<1>1. CASE UNCHANGED <<phase, permits>>
  BY <1>0, <1>1 DEF PermitsReturn, Holders
<1>2. ASSUME NEW r \in Run, NEW p, Go(r, p), UNCHANGED permits, p \in Holding <=> phase[r] \in Holding
      PROVE  PermitsReturn'
  BY <1>0, <1>2, PermitTaken DEF PermitsReturn
<1>3. ASSUME NEW r \in Run, NEW p, Go(r, p), permits' = permits + 1, p \notin Holding, phase[r] \in Holding
      PROVE  PermitsReturn'
  BY <1>0, <1>3, PermitTaken DEF PermitsReturn
<1>4. ASSUME NEW r \in Run, Acquire(r)
      PROVE  PermitsReturn'
  <2>1. Go(r, "beginning") /\ "beginning" \in Holding /\ phase[r] \notin Holding
    BY <1>4 DEF Acquire, Holding
  <2> QED BY <1>0, <1>4, <2>1, PermitTaken DEF Acquire, PermitsReturn
<1>5. ASSUME NEW r \in Run, Record(r) \/ RecordRaises(r)
      PROVE  PermitsReturn'
  BY <1>3, <1>5 DEF Record, RecordRaises, AfterCall, Holding
<1>6. ASSUME NEW r \in Run, Interrupt(r)
      PROVE  PermitsReturn'
  BY <1>2, <1>3, <1>6 DEF Interrupt, Holding
<1>7. ASSUME NEW r \in Run, BeginRead(r)
      PROVE  PermitsReturn'
  BY <1>2, <1>3, <1>7 DEF BeginRead, Holding
<1>8. ASSUME NEW r \in Run,
             Ask(r) \/ BeginInsert(r) \/ Answer(r) \/ Wake(r) \/ Conclude(r) \/ Regenerate(r)
      PROVE  PermitsReturn'
  BY <1>2, <1>8 DEF Ask, BeginInsert, Answer, Wake, Conclude, Regenerate, Holding
<1>9. ASSUME NEW r \in Run, PassDeadline(r) \/ EndExecution(r)
      PROVE  PermitsReturn'
  BY <1>1, <1>9 DEF PassDeadline, EndExecution
<1> QED BY <1>1, <1>4, <1>5, <1>6, <1>7, <1>8, <1>9 DEF Next, CallStep, Stop, vars
-----------------------------------------------------------------------------
(* Histories. *)

(* The numbers of an operation. *)
LEMMA Numbers ==
  ASSUME Types, NEW r \in Run
  PROVE  /\ try[r] \in {1, 2} /\ round[r] \in Nat
         /\ attempts[r] \in Seq(Attempt) /\ Len(attempts[r]) \in Nat
         /\ \A i \in 1..Len(attempts[r]) : attempts[r][i] \in Attempt /\ attempts[r][i].round \in Nat
<1>1. attempts[r] \in Seq(Attempt)
  BY DEF Types
<1>2. ASSUME NEW i \in 1..Len(attempts[r])
      PROVE  attempts[r][i] \in Attempt /\ attempts[r][i].round \in Nat
  <2>1. attempts[r][i] \in Attempt
    BY <1>1, ElementOfSeq
  <2> QED BY <2>1, GenerationsAssumption DEF Attempt
<1>3. try[r] \in {1, 2} /\ round[r] \in Nat
  BY GenerationsAssumption DEF Types, MaxAttempts
<1> QED BY <1>1, <1>2, <1>3

(* The call that begins is the only one after the end of the execution,    *)
(* and follows the last one as the retry policy says.                      *)
LEMMA BegunTale ==
  ASSUME Types, NEW r \in Run, Tale(r), Begun(r)
  PROVE  Tale(r)'
<1> DEFINE calls == attempts[r]
           n == Len(attempts[r])
<1>1. PICK call \in Attempt :
        /\ call.round = round[r] /\ (call.stale <=> r \in ended)
        /\ attempts'[r] = Append(attempts[r], call)
  BY DEF Begun
<1>2. /\ try[r] \in {1, 2} /\ round[r] \in Nat /\ n \in Nat /\ calls \in Seq(Attempt)
      /\ \A i \in 1..n : calls[i].round \in Nat
  BY Numbers
<1>3. /\ Len(attempts'[r]) = n + 1 /\ attempts'[r][n + 1] = call
      /\ \A i \in 1..n : attempts'[r][i] = calls[i]
  BY <1>1, <1>2, AppendProperties
<1>4. /\ phase[r] = "inserting" /\ phase'[r] = "calling" /\ Made(r) = try[r] - 1 /\ Made(r)' = try[r]
      /\ UNCHANGED <<round[r], try[r]>> /\ (r \in ended <=> r \in ended')
  BY DEF Begun, Made, Before
<1>5. /\ try[r] - 1 <= n
      /\ \A i \in 1..n : /\ calls[i].round <= round[r]
                         /\ calls[i].round = round[r] <=> i > n - (try[r] - 1)
  BY <1>4 DEF Tale, Counted
<1>6. \A i \in 1..n : ~calls[i].stale \/ r \notin ended
  BY <1>4 DEF Tale, LateCallIsLast
<1> HIDE DEF calls, n
<1>7. Counted(r)'
  <2>1. ASSUME NEW i \in 1..(n + 1)
        PROVE  /\ attempts'[r][i].round <= round[r]
               /\ attempts'[r][i].round = round[r] <=> i > n + 1 - try[r]
    <3>1. CASE i = n + 1
      BY <1>1, <1>2, <1>3, <3>1
    <3>2. CASE i # n + 1
      <4>1. i \in 1..n /\ attempts'[r][i] = calls[i]
        BY <1>2, <1>3, <3>2
      <4> QED BY <1>2, <1>5, <4>1
    <3> QED BY <3>1, <3>2
  <2> QED BY <1>2, <1>3, <1>4, <1>5, <2>1 DEF Counted
<1>8. Continues(r)'
  BY <1>4 DEF Continues, Before
<1>9. LateCallIsLast(r)'
  <2>1. \A i \in 1..n : calls[i].stale => r \in ended
    BY DEF Tale, LateCallIsLast, calls, n
  <2> QED BY <1>1, <1>2, <1>3, <1>4, <2>1 DEF LateCallIsLast
<1>10. Allowed(attempts[r])'
  <2>1. n = 0 \/ Follows(calls[n], call)
    <3>1. CASE try[r] = 1
      BY <1>1, <1>2, <1>4, <3>1 DEF Tale, Continues, Before, Follows, calls, n
    <3>2. CASE try[r] = 2
      <4>1. calls[n].outcome = "transient"
        BY <1>4, <3>2 DEF Tale, Continues, Before, calls, n
      <4>2. n \in 1..n /\ calls[n].round = round[r]
        BY <1>2, <1>5, <3>2
      <4> QED BY <1>1, <4>1, <4>2 DEF Follows
    <3> QED BY <1>2, <3>1, <3>2
  <2>2. \A i \in 1..(n - 1) : Follows(calls[i], calls[i + 1])
    BY DEF Tale, Allowed, calls, n
  <2>3. \A i \in 1..n : Follows(attempts'[r][i], attempts'[r][i + 1])
    <3>1. ASSUME NEW i \in 1..n
          PROVE  Follows(attempts'[r][i], attempts'[r][i + 1])
      <4>1. CASE i = n
        BY <1>2, <1>3, <2>1, <3>1, <4>1
      <4>2. CASE i # n
        <5>1. i \in 1..(n - 1) /\ i + 1 \in 1..n
          BY <1>2, <3>1, <4>2
        <5> QED BY <1>3, <2>2, <5>1
      <4> QED BY <4>1, <4>2
    <3> QED BY <3>1
  <2>4. \A i \in 1..(n - 2) : ~(calls[i].round = calls[i + 1].round /\ calls[i].round = calls[i + 2].round)
    BY DEF Tale, Allowed, calls, n
  <2>5. ASSUME NEW i \in 1..(n - 1), attempts'[r][i].round = attempts'[r][i + 1].round,
               attempts'[r][i].round = attempts'[r][i + 2].round
        PROVE  FALSE
    <3>1. CASE i = n - 1
      <4>1. i \in 1..n /\ attempts'[r][i] = calls[i] /\ attempts'[r][i + 2] = call
        BY <1>2, <1>3, <2>5, <3>1
      <4>2. calls[i].round = round[r]
        BY <1>1, <2>5, <4>1
      <4> QED BY <1>2, <1>5, <3>1, <4>1, <4>2
    <3>2. CASE i # n - 1
      <4>1. i \in 1..(n - 2) /\ i \in 1..n /\ i + 1 \in 1..n /\ i + 2 \in 1..n
        BY <1>2, <2>5, <3>2
      <4> QED BY <1>3, <2>4, <2>5, <4>1
    <3> QED BY <3>1, <3>2
  <2>6. ASSUME NEW i \in 1..(n + 1), NEW j \in 1..(n + 1), attempts'[r][i].stale, attempts'[r][j].stale
        PROVE  i = j
    <3>1. \A k, l \in 1..n : calls[k].stale /\ calls[l].stale => k = l
      BY DEF Tale, Allowed, calls, n
    <3>2. (i = n + 1 \/ i \in 1..n) /\ (j = n + 1 \/ j \in 1..n)
      BY <1>2
    <3>3. CASE i = n + 1 \/ j = n + 1
      BY <1>1, <1>3, <1>6, <2>6, <3>2, <3>3
    <3> QED BY <1>3, <2>6, <3>1, <3>2, <3>3
  <2> DEFINE later == attempts'[r]
  <2>7. 1..Len(later) = 1..(n + 1) /\ 1..(Len(later) - 1) = 1..n /\ 1..(Len(later) - 2) = 1..(n - 1)
    BY <1>2, <1>3
  <2>8. /\ \A i \in 1..(Len(later) - 1) : Follows(later[i], later[i + 1])
        /\ \A i \in 1..(Len(later) - 2) :
             ~(later[i].round = later[i + 1].round /\ later[i].round = later[i + 2].round)
        /\ \A i, j \in 1..Len(later) : later[i].stale /\ later[j].stale => i = j
    <3> HIDE DEF later
    <3>1. \A i \in 1..n : Follows(later[i], later[i + 1])
      BY <2>3 DEF later
    <3>2. \A i \in 1..(n - 1) :
            ~(later[i].round = later[i + 1].round /\ later[i].round = later[i + 2].round)
      BY <2>5 DEF later
    <3>3. \A i, j \in 1..(n + 1) : later[i].stale /\ later[j].stale => i = j
      BY <2>6 DEF later
    <3> QED BY <2>7, <3>1, <3>2, <3>3, Zenon
  <2> QED BY <2>8, Zenon DEF Allowed
<1> QED BY <1>7, <1>8, <1>9, <1>10 DEF Tale

(* The call that ends keeps its place in the history. *)
LEMMA FinishedTale ==
  ASSUME Types, NEW r \in Run, Tale(r), Finished(r)
  PROVE  Tale(r)'
<1> DEFINE calls == attempts[r]
           n == Len(attempts[r])
<1>1. PICK call \in Attempt :
        /\ call.round = calls[n].round
        /\ call.stale = calls[n].stale
        /\ phase'[r] = "validating" => call.outcome = "text"
        /\ phase'[r] = "pausing" => call.outcome = "transient" /\ try[r] = 1
        /\ attempts'[r] = [calls EXCEPT ![n] = call]
  BY DEF Finished
<1>2. /\ try[r] \in {1, 2} /\ round[r] \in Nat /\ n \in Nat /\ calls \in Seq(Attempt)
      /\ \A i \in 1..n : calls[i].round \in Nat
  BY Numbers
<1>3. /\ phase[r] = "recording" /\ phase'[r] \in {"validating", "pausing", "over"}
      /\ Made(r) = try[r] /\ Made(r)' = try[r]
      /\ UNCHANGED <<round[r], try[r]>> /\ (r \in ended <=> r \in ended')
  BY DEF Finished, Made, Before
<1>4. n \in 1..n
  BY <1>2, <1>3, RecordingHasCall
<1>5. /\ Len(attempts'[r]) = n /\ attempts'[r][n] = call
      /\ \A i \in 1..n : i # n => attempts'[r][i] = calls[i]
      /\ \A i \in 1..n : /\ attempts'[r][i].round = calls[i].round
                         /\ attempts'[r][i].stale = calls[i].stale
  <2>1. /\ Len(attempts'[r]) = n
        /\ \A i \in 1..n : attempts'[r][i] = IF i = n THEN call ELSE calls[i]
    BY <1>1, <1>2, <1>4, ExceptSeq
  <2> QED BY <1>1, <1>4, <2>1
<1> HIDE DEF calls, n
<1>6. Counted(r)'
  <2>1. /\ try[r] <= n
        /\ \A i \in 1..n : /\ calls[i].round <= round[r]
                           /\ calls[i].round = round[r] <=> i > n - try[r]
    BY <1>3 DEF Tale, Counted, calls, n
  <2> QED BY <1>3, <1>5, <2>1 DEF Counted
<1>7. Continues(r)'
  BY <1>1, <1>3, <1>5 DEF Continues, Before
<1>8. LateCallIsLast(r)'
  BY <1>3, <1>5 DEF Tale, LateCallIsLast, calls, n
<1>9. Allowed(attempts[r])'
  <2>1. /\ \A i \in 1..(n - 1) : Follows(calls[i], calls[i + 1])
        /\ \A i \in 1..(n - 2) : ~(calls[i].round = calls[i + 1].round /\ calls[i].round = calls[i + 2].round)
        /\ \A i, j \in 1..n : calls[i].stale /\ calls[j].stale => i = j
    BY DEF Tale, Allowed, calls, n
  <2>2. ASSUME NEW i \in 1..(n - 1)
        PROVE  Follows(attempts'[r][i], attempts'[r][i + 1])
    <3>1. i \in 1..n /\ i + 1 \in 1..n /\ i # n
      BY <1>2
    <3> QED BY <1>5, <2>1, <3>1 DEF Follows
  <2>3. ASSUME NEW i \in 1..(n - 2)
        PROVE  ~(/\ attempts'[r][i].round = attempts'[r][i + 1].round
                 /\ attempts'[r][i].round = attempts'[r][i + 2].round)
    <3>1. i \in 1..n /\ i + 1 \in 1..n /\ i + 2 \in 1..n
      BY <1>2
    <3> QED BY <1>5, <2>1, <3>1
  <2>4. ASSUME NEW i \in 1..n, NEW j \in 1..n, attempts'[r][i].stale, attempts'[r][j].stale
        PROVE  i = j
    BY <1>5, <2>1, <2>4
  <2> QED BY <1>5, <2>2, <2>3, <2>4 DEF Allowed
<1> QED BY <1>6, <1>7, <1>8, <1>9 DEF Tale

(* Steps between calls leave the history alone. *)
LEMMA AdvancedTale ==
  ASSUME Types, NEW r \in Run, Tale(r), Advanced(r)
  PROVE  Tale(r)'
<1>1. phase'[r] = "over" \/ (phase[r] # "over" /\ Made(r)' = Made(r))
  BY DEF Advanced, Made, Before
<1>2. Counted(r)'
  <2>1. CASE phase'[r] = "over"
    BY <2>1 DEF Counted
  <2>2. CASE phase[r] # "over" /\ Made(r)' = Made(r)
    <3>1. attempts'[r] = attempts[r] /\ round'[r] = round[r]
      BY DEF Advanced
    <3> QED BY <2>2, <3>1 DEF Tale, Counted
  <2> QED BY <1>1, <2>1, <2>2
<1>3. Continues(r)'
  BY DEF Tale, Continues, Advanced, Before
<1>4. LateCallIsLast(r)'
  BY DEF Tale, LateCallIsLast, Advanced
<1>5. Allowed(attempts[r])'
  BY DEF Tale, Advanced, Allowed
<1> QED BY <1>2, <1>3, <1>4, <1>5 DEF Tale

(* A retry continues its generation, a new generation starts afresh. *)
LEMMA AgainTale ==
  ASSUME Types, NEW r \in Run, Tale(r), Again(r)
  PROVE  Tale(r)'
<1> DEFINE calls == attempts[r]
           n == Len(attempts[r])
<1>1. /\ try[r] \in {1, 2} /\ round[r] \in Nat /\ n \in Nat
      /\ \A i \in 1..n : calls[i].round \in Nat
  BY Numbers
<1>2. phase'[r] = "idle" /\ attempts'[r] = calls /\ phase[r] \in {"pausing", "validating"}
  BY DEF Again
<1>3. /\ try[r] <= n
      /\ \A i \in 1..n : /\ calls[i].round <= round[r]
                         /\ calls[i].round = round[r] <=> i > n - try[r]
  BY <1>2 DEF Tale, Counted, Made, Before
<1>4. LateCallIsLast(r)'
  BY DEF Tale, LateCallIsLast, Again
<1>5. Allowed(attempts[r])'
  BY DEF Tale, Again, Allowed
<1>6. CASE phase[r] = "pausing"
  <2>1. try[r] = 1 /\ try'[r] = 2 /\ round'[r] = round[r] /\ calls[n].outcome = "transient"
    BY <1>6 DEF Tale, Continues, Again
  <2>2. Made(r)' = 1
    BY <1>2, <2>1 DEF Made, Before
  <2> HIDE DEF calls, n
  <2>3. Counted(r)'
    BY <1>1, <1>2, <1>3, <2>1, <2>2 DEF Counted, n, calls
  <2>4. Continues(r)'
    BY <1>2, <2>1 DEF Continues, n, calls
  <2> QED BY <1>4, <1>5, <2>3, <2>4 DEF Tale
<1>7. CASE phase[r] = "validating"
  <2>1. try'[r] = 1 /\ round'[r] = round[r] + 1 /\ calls[n].outcome = "text"
    BY <1>7 DEF Tale, Continues, Again
  <2>2. Made(r)' = 0
    BY <1>2, <2>1 DEF Made, Before
  <2>3. n \in 1..n /\ calls[n].round = round[r]
    BY <1>1, <1>3
  <2> HIDE DEF calls, n
  <2>4. Counted(r)'
    BY <1>1, <1>2, <1>3, <2>1, <2>2 DEF Counted, n, calls
  <2>5. Continues(r)'
    BY <1>2, <2>1, <2>3 DEF Continues, n, calls
  <2> QED BY <1>4, <1>5, <2>4, <2>5 DEF Tale
<1> QED BY <1>2, <1>6, <1>7
-----------------------------------------------------------------------------
(* The inductive invariant. *)

(* The strengthened invariant holds initially. *)
LEMMA InitIInv == Init => IInv
<1> SUFFICES ASSUME Init
             PROVE  IInv
  OBVIOUS
<1>1. Types
  <2>1. <<>> \in Seq(Attempt)
    OBVIOUS
  <2>2. attempts \in [Run -> Seq(Attempt)]
    BY <2>1 DEF Init
  <2>3. round \in [Run -> 1..MaxGenerations] /\ try \in [Run -> 1..MaxAttempts]
    BY GenerationsAssumption DEF Init, MaxAttempts
  <2> QED BY <2>2, <2>3 DEF Init, Types, Phase
<1>2. PermitsReturn
  <2>1. Holders = {}
    BY DEF Init, Holders, Holding
  <2> QED BY <2>1, FS_EmptySet, PermitsAssumption DEF Init, PermitsReturn
<1>3. ASSUME NEW r \in Run
      PROVE  Tale(r)
  <2>1. /\ attempts[r] = <<>> /\ Len(attempts[r]) = 0 /\ try[r] = 1 /\ phase[r] = "idle"
    BY DEF Init
  <2> QED BY <2>1 DEF Tale, Counted, Made, Before, Continues, LateCallIsLast, Allowed
<1> QED BY <1>1, <1>2, <1>3 DEF IInv

(* Every step preserves it. *)
LEMMA NextIInv == IInv /\ [Next]_vars => IInv'
<1> SUFFICES ASSUME IInv, [Next]_vars
             PROVE  IInv'
  OBVIOUS
<1>1. Types /\ PermitsReturn /\ \A r \in Run : Tale(r)
  BY DEF IInv
<1>2. Types' /\ \A r \in Run : Moves(r)
  BY <1>1, NextMoves
<1>3. PermitsReturn'
  BY <1>1, NextPermits
<1>4. \A r \in Run : Tale(r)'
  BY <1>1, <1>2, BegunTale, FinishedTale, AdvancedTale, AgainTale DEF Moves
<1> QED BY <1>2, <1>3, <1>4 DEF IInv

(* Permits, types and histories together. *)
THEOREM Invariance == Spec => []IInv
BY InitIInv, NextIInv, PTL DEF Spec

(* No operation asks for a generation or makes a call too many, and every  *)
(* way out of a call gives its permit back once, for any number of         *)
(* operations and permits.                                                 *)
THEOREM PermitsAreReturned == Spec => []TypeOK
<1>1. IInv => TypeOK
  BY DEF IInv, Types, PermitsReturn, Holders, TypeOK
<1> QED BY <1>1, Invariance, PTL

(* A call of unknown outcome is never repeated, a transient refusal once,  *)
(* and a new generation follows an answered call only.                     *)
THEOREM CallsAreAllowed == Spec => []CallHistory
<1>1. IInv => CallHistory
  BY DEF IInv, Tale, Allowed, CallHistory
<1> QED BY <1>1, Invariance, PTL

(* Whatever is retried or generated anew, at most one call of a run begins *)
(* after its execution has ended (begin_model_attempt).                    *)
THEOREM OnlyOneCallIsLate == Spec => []OneLateCall
<1>1. IInv => OneLateCall
  <2> SUFFICES ASSUME IInv, NEW r \in Run, NEW i \in DOMAIN attempts[r],
                      NEW j \in DOMAIN attempts[r], attempts[r][i].stale, attempts[r][j].stale
               PROVE  i = j
    BY DEF OneLateCall
  <2>1. DOMAIN attempts[r] = 1..Len(attempts[r])
    BY DEF IInv, Types
  <2> QED BY <2>1 DEF IInv, Tale, Allowed
<1> QED BY <1>1, Invariance, PTL
=============================================================================
