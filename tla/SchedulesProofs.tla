--------------------------- MODULE SchedulesProofs ---------------------------
(***************************************************************************)
(* Theorems about Schedules for any requests, schedulers, leases, limits   *)
(* and delays.                                                             *)
(***************************************************************************)
EXTENDS Schedules, TLAPS, SequenceTheorems

ScheduleStates == {"NONE", "SCHEDULED", "CLAIMED", "FIRED", "CANCELLED"}
OccurrenceStates == {"NONE", "PENDING", "CLAIMED", "FIRED", "FAILED"}
RowIn(states) == [state: states, owner: Scheduler \cup {None}, left: -MaxAge .. Lease]

LEMMA Matches ==
  /\ Matching["NONE"] = "NONE" /\ Matching["SCHEDULED"] = "PENDING"
  /\ Matching["CLAIMED"] = "CLAIMED" /\ Matching["FIRED"] = "FIRED"
  /\ Matching["CANCELLED"] = "FAILED"
BY DEF Matching

\* The occurrence o says what the schedule s says.
Agree(s, o) == o = [s EXCEPT !.state = Matching[@]]

LEMMA AgreeMeans ==
  ASSUME NEW s \in RowIn(ScheduleStates), NEW o \in RowIn(OccurrenceStates)
  PROVE  Agree(s, o) <=>
           /\ o.owner = s.owner /\ o.left = s.left
           /\ \/ s.state = "NONE" /\ o.state = "NONE"
              \/ s.state = "SCHEDULED" /\ o.state = "PENDING"
              \/ s.state = "CLAIMED" /\ o.state = "CLAIMED"
              \/ s.state = "FIRED" /\ o.state = "FIRED"
              \/ s.state = "CANCELLED" /\ o.state = "FAILED"
<1>1. \A st \in ScheduleStates :
        /\ st = "NONE" => Matching[st] = "NONE"
        /\ st = "SCHEDULED" => Matching[st] = "PENDING"
        /\ st = "CLAIMED" => Matching[st] = "CLAIMED"
        /\ st = "FIRED" => Matching[st] = "FIRED"
        /\ st = "CANCELLED" => Matching[st] = "FAILED"
  BY Matches
<1> QED BY <1>1 DEF Agree, RowIn, ScheduleStates, OccurrenceStates

\* What a step may do to a schedule and its occurrence.
Moves(s, o, s2, o2) ==
  \/ s2 = s /\ o2 = o
  \/ s = Gone /\ s2 = Row("SCHEDULED") /\ o2 = Row("PENDING")
  \/ Live(s) /\ s2 = Row("CANCELLED") /\ o2 = Row("FAILED")
  \/ Live(s) /\ s2 = Row("SCHEDULED") /\ o2 = Row("PENDING")
  \/ Live(s) /\ s2 = o2 /\ s2 \in RowIn({"CLAIMED"})
  \/ s.state = "CLAIMED" /\ s2 = Row("FIRED") /\ o2 = Row("FIRED")

LEMMA RowType ==
  /\ \A st : Row(st) \in RowIn({st}) /\ Row(st).state = st
  /\ Gone = Row("NONE")
<1>1. 0 \in -MaxAge .. Lease
  BY SchedulesAssumption
<1>2. \A st : Row(st) = [state |-> st, owner |-> None, left |-> 0]
  BY DEF Row, Gone
<1> QED BY <1>1, <1>2 DEF RowIn, Gone

LEMMA MovesKeep ==
  ASSUME NEW s \in RowIn(ScheduleStates), NEW o \in RowIn(OccurrenceStates), Agree(s, o),
         NEW s2, NEW o2, Moves(s, o, s2, o2)
  PROVE  /\ s2 \in RowIn(ScheduleStates) /\ o2 \in RowIn(OccurrenceStates) /\ Agree(s2, o2)
         /\ s.state \in {"FIRED", "CANCELLED"} => s2 = s
         /\ s2 = Gone => s = Gone
<1>1. \A st : Row(st) = [state |-> st, owner |-> None, left |-> 0] /\ Row(st) \in RowIn({st})
  BY RowType DEF Row, Gone
<1>2. s2 \in RowIn(ScheduleStates) /\ o2 \in RowIn(OccurrenceStates)
  <2>1. \A st \in ScheduleStates : Row(st) \in RowIn(ScheduleStates)
    BY <1>1 DEF RowIn
  <2>2. \A st \in OccurrenceStates : Row(st) \in RowIn(OccurrenceStates)
    BY <1>1 DEF RowIn
  <2>3. RowIn({"CLAIMED"}) \subseteq RowIn(ScheduleStates) \cap RowIn(OccurrenceStates)
    BY DEF RowIn, ScheduleStates, OccurrenceStates
  <2>4. {"SCHEDULED", "CANCELLED", "FIRED"} \subseteq ScheduleStates
        /\ {"PENDING", "FAILED", "FIRED"} \subseteq OccurrenceStates
    BY DEF ScheduleStates, OccurrenceStates
  <2> QED BY <2>1, <2>2, <2>3, <2>4 DEF Moves
<1>3. Agree(s2, o2)
  <2>1. CASE s2 = s /\ o2 = o
    BY <2>1
  <2>2. CASE s2 = o2 /\ s2 \in RowIn({"CLAIMED"})
    <3>1. s2.state = "CLAIMED"
      BY <2>2 DEF RowIn
    <3> QED BY <1>2, <2>2, <3>1, AgreeMeans
  <2>3. ASSUME NEW a, NEW b, s2 = Row(a), o2 = Row(b)
        PROVE  s2.state = a /\ o2.state = b /\ s2.owner = o2.owner /\ s2.left = o2.left
    BY <1>1, <2>3
  <2>4. CASE s2 = Row("SCHEDULED") /\ o2 = Row("PENDING")
    BY <1>2, <2>3, <2>4, AgreeMeans
  <2>5. CASE s2 = Row("CANCELLED") /\ o2 = Row("FAILED")
    BY <1>2, <2>3, <2>5, AgreeMeans
  <2>6. CASE s2 = Row("FIRED") /\ o2 = Row("FIRED")
    BY <1>2, <2>3, <2>6, AgreeMeans
  <2> QED BY <2>1, <2>2, <2>4, <2>5, <2>6 DEF Moves
<1>4. s.state \in {"FIRED", "CANCELLED"} => s2 = s
  BY DEF Moves, Live, Gone
<1>5. s2 = Gone => s = Gone
  <2>1. s2 = Gone => s2.state = "NONE"
    BY DEF Gone
  <2>2. s2 \in RowIn({"CLAIMED"}) => s2.state = "CLAIMED"
    BY DEF RowIn
  <2>3. \A st : Row(st).state = st
    BY RowType
  <2> QED BY <2>1, <2>2, <2>3 DEF Moves
<1> QED BY <1>2, <1>3, <1>4, <1>5

-----------------------------------------------------------------------------
(* The invariant.                                                          *)

Rows ==
  /\ schedule \in [Request -> RowIn(ScheduleStates)]
  /\ occurrence \in [Request -> RowIn(OccurrenceStates)]
  /\ \A r \in Request : Agree(schedule[r], occurrence[r])

Passes == [step: {"down", "asleep", "recover", "reconcile", "fire", "commit", "enqueue"},
           wake: 0..MaxDelay, streak: 0..8, age: 0..MaxAge, taken: 0..Limit,
           claim: Request \cup {None}]

\* Who is about to commit has a claim in hand.
PassOK == \A w \in Scheduler : pass[w] \in Passes /\ (pass[w].step = "commit" => pass[w].claim \in Request)

IInv == TypeOK /\ RowsAgree /\ DeliveredOnce /\ PassOK /\ PromisesKept

LEMMA TypeMeans ==
  TypeOK /\ RowsAgree <=>
    /\ Rows /\ finals \in [Parents -> Seq(Written)] /\ turns \in [Request -> 0..2]
    /\ speech \in [Request -> {"none", "waiting", "queued"}]
    /\ active \subseteq Projects \cup Devices /\ refused \subseteq Request
    /\ accepted \subseteq Users /\ preclaimed \subseteq Request
    /\ pass \in [Scheduler -> Passes] /\ time \in Nat /\ faults \in 0..MaxFaults
BY DEF TypeOK, Rows, RowsAgree, Agree, RowIn, ScheduleStates, OccurrenceStates, Passes

\* What the step does to each row and what it delivers.
RowMoves(r) ==
  /\ Moves(schedule[r], occurrence[r], schedule'[r], occurrence'[r])
  /\ IF schedule'[r].state = "FIRED" /\ schedule[r].state # "FIRED"
     THEN turns'[r] = turns[r] + 1 /\ speech'[r] = "waiting"
     ELSE turns'[r] = turns[r] /\ (speech'[r] = "none" <=> speech[r] = "none")

RowsMove ==
  /\ schedule' = [r \in Request |-> schedule'[r]] /\ occurrence' = [r \in Request |-> occurrence'[r]]
  /\ \A r \in Request : RowMoves(r)

LEMMA RowsKept == ASSUME Rows, UNCHANGED <<rows, turns>>,
                         \A r \in Request : speech'[r] = "none" <=> speech[r] = "none"
                  PROVE RowsMove
BY DEF Rows, rows, RowsMove, RowMoves, Moves

\* The rows are typed and agree after such a step, and deliveries are counted.
LEMMA RowsMoved ==
  ASSUME IInv, RowsMove, turns' = [r \in Request |-> turns'[r]]
  PROVE  Rows' /\ DeliveredOnce' /\ turns' \in [Request -> 0..2]
<1>1. Rows /\ turns \in [Request -> 0..2]
  BY TypeMeans DEF IInv
<1>2. ASSUME NEW r \in Request
      PROVE  /\ schedule'[r] \in RowIn(ScheduleStates) /\ occurrence'[r] \in RowIn(OccurrenceStates)
             /\ Agree(schedule'[r], occurrence'[r])
             /\ schedule[r].state = "FIRED" => schedule'[r] = schedule[r]
  BY <1>1, <1>2, MovesKeep DEF Rows, RowsMove, RowMoves
<1>3. Rows'
  BY <1>2 DEF Rows, RowsMove
<1>4. ASSUME NEW r \in Request
      PROVE  /\ turns'[r] = (IF schedule'[r].state = "FIRED" THEN 1 ELSE 0)
             /\ speech'[r] = "none" <=> turns'[r] = 0
  <2>1. /\ turns[r] = (IF schedule[r].state = "FIRED" THEN 1 ELSE 0)
        /\ (speech[r] = "none" <=> turns[r] = 0)
    BY DEF IInv, DeliveredOnce
  <2> QED BY <1>2, <2>1 DEF RowsMove, RowMoves
<1>5. turns' \in [Request -> 0..2]
  <2>1. \A r \in Request : turns'[r] \in 0..2
    BY <1>4
  <2> QED BY <2>1
<1> QED BY <1>3, <1>4, <1>5 DEF DeliveredOnce

\* A FINAL that a step other than Create gives to a turn.
Spoken(p) == \/ finals'[p] = finals[p]
             \/ finals[p] = <<>> /\ finals'[p] = <<By("failure")>>
             \/ finals'[p] = Append(finals[p], By("stages"))

AnswersFollow(p) == \A i \in 2..Len(finals[p]) : finals[p][i] = By("stages")

LEMMA FinalsDiffer ==
  /\ \A r \in Request : Confirmed(r) \notin {By("failure"), By("stages"), By("legacy")}
  /\ By("legacy") \notin {By("failure"), By("stages")}
BY DEF By, Confirmed

\* It changes neither what confirms a schedule nor what an earlier version left.
LEMMA SpokenKeeps ==
  ASSUME NEW p \in Parents, finals[p] \in Seq(Written), Spoken(p)
  PROVE  /\ \A x : x \notin {By("failure"), By("stages")} => (BeginsWith(p, x)' <=> BeginsWith(p, x))
         /\ AnswersFollow(p) => AnswersFollow(p)'
<1>1. CASE finals'[p] = finals[p]
  BY <1>1 DEF BeginsWith, AnswersFollow
<1>2. CASE finals[p] = <<>> /\ finals'[p] = <<By("failure")>>
  <2>1. Len(finals'[p]) = 1 /\ finals'[p][1] = By("failure") /\ finals'[p] # <<>>
    BY <1>2
  <2> QED BY <1>2, <2>1 DEF BeginsWith, AnswersFollow
<1>3. CASE finals'[p] = Append(finals[p], By("stages"))
  <2>1. By("stages") \in Written
    BY DEF Written, Other
  <2>2. /\ Len(finals'[p]) = Len(finals[p]) + 1 /\ Len(finals[p]) \in Nat
        /\ \A i \in 1..Len(finals[p]) : finals'[p][i] = finals[p][i]
        /\ finals'[p][Len(finals[p]) + 1] = By("stages")
        /\ finals[p] = <<>> <=> Len(finals[p]) = 0
        /\ finals'[p] # <<>>
    BY <1>3, <2>1
  <2>3. CASE finals[p] = <<>>
    <3>1. finals'[p][1] = By("stages") /\ Len(finals'[p]) = 1
      BY <2>2, <2>3
    <3> QED BY <2>2, <2>3, <3>1 DEF BeginsWith, AnswersFollow
  <2>4. CASE finals[p] # <<>>
    <3>1. finals'[p][1] = finals[p][1]
      BY <2>2, <2>4
    <3>2. ASSUME AnswersFollow(p), NEW i \in 2..Len(finals'[p]) PROVE finals'[p][i] = By("stages")
      BY <2>2, <3>2 DEF AnswersFollow
    <3> QED BY <2>2, <2>4, <3>1, <3>2 DEF BeginsWith, AnswersFollow
  <2> QED BY <2>3, <2>4
<1> QED BY <1>1, <1>2, <1>3 DEF Spoken

LEMMA PromiseMeans ==
  PromiseKept <=>
    /\ \A r \in Request :
         ~OfOldVersion(r) => ((schedule[r] # Gone) <=> BeginsWith(ParentOf[r], Confirmed(r)))
    /\ \A p \in Parents : AnswersFollow(p)
BY DEF PromiseKept, AnswersFollow

\* What the user was told stays true in every step but Create.
LEMMA PromisesMoved ==
  ASSUME IInv, RowsMove, \A r \in Request : schedule[r] = Gone => schedule'[r] = Gone,
         \A p \in Parents : Spoken(p),
         active' \subseteq active,
         \A r \in Request : ProjectOf[r] \in active \ active' => ~Live(schedule'[r])
  PROVE  PromisesKept'
<1>1. Rows
  BY TypeMeans DEF IInv
<1>2. ASSUME NEW r \in Request
      PROVE  /\ schedule[r] = Gone <=> schedule'[r] = Gone
             /\ ~Live(schedule[r]) => ~Live(schedule'[r])
  <2>1. schedule'[r] = Gone => schedule[r] = Gone
    BY <1>1, MovesKeep DEF Rows, RowsMove, RowMoves
  <2>2. ASSUME schedule[r] # Gone, ~Live(schedule[r]) PROVE schedule'[r] = schedule[r]
    BY <2>2 DEF RowsMove, RowMoves, Moves, Live
  <2> QED BY <2>1, <2>2
<1>3. ASSUME NEW r \in Request
      PROVE  /\ OfOldVersion(r)' <=> OfOldVersion(r)
             /\ BeginsWith(ParentOf[r], Confirmed(r))' <=> BeginsWith(ParentOf[r], Confirmed(r))
  <2>1. ParentOf[r] \in Parents /\ finals[ParentOf[r]] \in Seq(Written)
    BY TypeMeans DEF IInv, Parents
  <2> QED BY <2>1, SpokenKeeps, FinalsDiffer DEF OfOldVersion
<1>4. PromiseKept'
  <2>1. PromiseKept /\ finals \in [Parents -> Seq(Written)]
    BY TypeMeans DEF IInv, PromisesKept
  <2>2. \A p \in Parents : AnswersFollow(p)'
    BY <2>1, PromiseMeans, SpokenKeeps
  <2>3. \A r \in Request :
          ~OfOldVersion(r)' => ((schedule'[r] # Gone) <=> BeginsWith(ParentOf[r], Confirmed(r))')
    BY <1>2, <1>3, <2>1, PromiseMeans
  <2> QED BY <2>2, <2>3 DEF PromiseKept, AnswersFollow
<1>5. ArchivedIsQuiet'
  <2> SUFFICES ASSUME NEW r \in Request, ProjectOf[r] \notin active', ~OfOldVersion(r)'
               PROVE  ~Live(schedule'[r])
    BY DEF ArchivedIsQuiet
  <2> QED BY <1>2, <1>3 DEF IInv, PromisesKept, ArchivedIsQuiet
<1> QED BY <1>4, <1>5 DEF PromisesKept

-----------------------------------------------------------------------------
(* Passes.                                                                 *)

LEMMA PassType ==
  ASSUME IInv, NEW w \in Scheduler, NEW row \in Passes,
         row.step = "commit" => row.claim \in Request, pass' = [pass EXCEPT ![w] = row]
  PROVE  PassOK' /\ pass' \in [Scheduler -> Passes]
<1>1. pass \in [Scheduler -> Passes] /\ PassOK
  BY TypeMeans DEF IInv
<1>2. pass' \in [Scheduler -> Passes] /\ pass'[w] = row /\ \A v \in Scheduler \ {w} : pass'[v] = pass[v]
  BY <1>1
<1> QED BY <1>1, <1>2 DEF PassOK

LEMMA AsleepType ==
  /\ \A delay \in 0..MaxDelay, streak \in 0..8 :
       Asleep(delay, streak) \in Passes /\ Asleep(delay, streak).step = "asleep"
  /\ Down \in Passes /\ Down.step = "down"
<1>1. /\ \A delay, streak : Asleep(delay, streak) =
           [step |-> "asleep", wake |-> delay, streak |-> streak, age |-> 0, taken |-> 0, claim |-> None]
      /\ Down = [step |-> "down", wake |-> 0, streak |-> 0, age |-> 0, taken |-> 0, claim |-> None]
  BY DEF Asleep, Down
<1> QED BY <1>1, SchedulesAssumption DEF Passes

\* A pass that goes to another step, but not to commit, or ends.
LEMMA PassGoes ==
  ASSUME IInv, NEW w \in Scheduler,
         \/ \E step \in {"recover", "reconcile", "fire", "enqueue"} : GoesTo(w, step)
         \/ Succeeds(w) \/ Fails(w)
  PROVE  PassOK' /\ pass' \in [Scheduler -> Passes]
<1>1. pass[w] \in Passes /\ pass \in [Scheduler -> Passes]
  BY TypeMeans DEF IInv
<1>2. \A n \in Nat : Capped(n) \in 0..MaxDelay
  BY SchedulesAssumption DEF Capped
<1>3. ASSUME NEW step \in {"recover", "reconcile", "fire", "enqueue"}, GoesTo(w, step)
      PROVE  PassOK' /\ pass' \in [Scheduler -> Passes]
  <2> DEFINE row == [pass[w] EXCEPT !.step = step]
  <2>1. row \in Passes /\ row.step # "commit"
    BY <1>1 DEF Passes
  <2>2. pass' = [pass EXCEPT ![w] = row]
    BY <1>3 DEF GoesTo
  <2> HIDE DEF row
  <2> QED BY <2>1, <2>2, PassType
<1>4. CASE Succeeds(w)
  <2> DEFINE row == Asleep(IF w = Loop THEN Capped(Poll) ELSE 0, 0)
  <2>1. (IF w = Loop THEN Capped(Poll) ELSE 0) \in 0..MaxDelay
    BY <1>2, SchedulesAssumption
  <2>2. row \in Passes /\ row.step # "commit"
    BY <2>1, AsleepType
  <2>3. pass' = [pass EXCEPT ![w] = row]
    BY <1>4 DEF Succeeds
  <2> HIDE DEF row
  <2> QED BY <2>2, <2>3, PassType
<1>5. CASE Fails(w)
  <2> DEFINE streak == IF pass[w].streak < 8 THEN pass[w].streak + 1 ELSE 8
             delay  == Capped(Poll * <<2, 4, 8, 16, 32, 64, 128, 256>>[streak])
             row == IF w = Loop THEN Asleep(delay, streak) ELSE Asleep(0, 0)
  <2>1. streak \in 1..8
    BY <1>1 DEF Passes
  <2>2. \A n \in 1..8 : <<2, 4, 8, 16, 32, 64, 128, 256>>[n] \in Nat
    OBVIOUS
  <2>3. delay \in 0..MaxDelay
    <3>1. \A n \in Nat : Poll * n \in Nat
      BY SchedulesAssumption
    <3> HIDE DEF streak
    <3> QED BY <1>2, <2>1, <2>2, <3>1
  <2>4. pass' = [pass EXCEPT ![w] = row]
    BY <1>5 DEF Fails
  <2> HIDE DEF streak, delay
  <2>5. row \in Passes /\ row.step # "commit"
    BY <2>1, <2>3, AsleepType, SchedulesAssumption
  <2> HIDE DEF row
  <2> QED BY <2>4, <2>5, PassType
<1> QED BY <1>3, <1>4, <1>5

-----------------------------------------------------------------------------
(* The steps.                                                              *)

\* What is left to show of a step once its rows and promises are.
LEMMA Assemble ==
  ASSUME IInv, RowsMove, PromisesKept', PassOK' /\ pass' \in [Scheduler -> Passes],
         finals' \in [Parents -> Seq(Written)], turns' = [r \in Request |-> turns'[r]],
         speech' \in [Request -> {"none", "waiting", "queued"}],
         active' \subseteq active, accepted' \subseteq Users, preclaimed' \subseteq Request,
         refused' \subseteq Request, time' \in Nat, faults' \in 0..MaxFaults
  PROVE  IInv'
<1>1. Rows' /\ DeliveredOnce' /\ turns' \in [Request -> 0..2]
  BY RowsMoved
<1>2. active' \subseteq Projects \cup Devices
  BY TypeMeans DEF IInv
<1>3. TypeOK' /\ RowsAgree'
  BY <1>1, <1>2 DEF TypeOK, Rows, RowsAgree, Agree, RowIn, ScheduleStates, OccurrenceStates, Passes
<1> QED BY <1>1, <1>3 DEF IInv

\* Steps that leave the rows and the outcome as they are.
LEMMA OtherStep ==
  ASSUME IInv, UNCHANGED <<rows, outcome>>, PassOK' /\ pass' \in [Scheduler -> Passes],
         finals' \in [Parents -> Seq(Written)],
         \A p \in Parents : Spoken(p),
         active' \subseteq active, accepted' \subseteq Users, preclaimed' \subseteq Request,
         \A r \in Request : ProjectOf[r] \in active => ProjectOf[r] \in active',
         refused' \subseteq Request, time' \in Nat, faults' \in 0..MaxFaults
  PROVE  IInv'
<1>1. /\ Rows /\ turns \in [Request -> 0..2]
      /\ speech \in [Request -> {"none", "waiting", "queued"}]
  BY TypeMeans DEF IInv
<1>2. RowsMove
  BY <1>1, RowsKept DEF outcome
<1>3. PromisesKept'
  <2>1. schedule' = schedule
    BY DEF rows
  <2> QED BY <1>2, <2>1, PromisesMoved
<1>4. /\ turns' = [r \in Request |-> turns'[r]]
      /\ speech' \in [Request -> {"none", "waiting", "queued"}]
  BY <1>1 DEF outcome
<1> QED BY <1>2, <1>3, <1>4, Assemble

LEMMA PassKept == ASSUME IInv, UNCHANGED pass PROVE PassOK' /\ pass' \in [Scheduler -> Passes]
<1>1. pass \in [Scheduler -> Passes] /\ PassOK
  BY TypeMeans DEF IInv
<1> QED BY <1>1 DEF PassOK

LEMMA FinalWritten ==
  ASSUME IInv, NEW p \in Parents,
         \/ finals[p] = <<>> /\ finals' = [finals EXCEPT ![p] = <<By("failure")>>]
         \/ finals' = [finals EXCEPT ![p] = Append(finals[p], By("stages"))]
  PROVE  finals' \in [Parents -> Seq(Written)] /\ \A q \in Parents : Spoken(q)
<1>1. {By("failure"), By("stages")} \subseteq Written /\ finals \in [Parents -> Seq(Written)]
  BY TypeMeans DEF IInv, Written, Other
<1>2. <<By("failure")>> \in Seq(Written) /\ Append(finals[p], By("stages")) \in Seq(Written)
  BY <1>1
<1> QED BY <1>1, <1>2 DEF Spoken

LEMMA RequestSteps ==
  ASSUME IInv,
         \/ \E r \in Request : CreateFails(r) \/ RecordFailure(r) \/ IdPreclaimed(r)
         \/ \E p \in Parents : TurnAnswered(p)
         \/ \E u \in Users : TurnAccepted(u)
         \/ \E d \in Devices : RevokeDevice(d)
         \/ UNCHANGED vars
  PROVE  IInv'
<1>1. /\ finals \in [Parents -> Seq(Written)] /\ active \subseteq Projects \cup Devices
      /\ accepted \subseteq Users /\ preclaimed \subseteq Request
      /\ refused \subseteq Request /\ time \in Nat /\ faults \in 0..MaxFaults
  BY TypeMeans DEF IInv
<1>2. UNCHANGED <<rows, outcome, pass, time, faults>>
  BY DEF CreateFails, RecordFailure, TurnAnswered, TurnAccepted, IdPreclaimed, RevokeDevice, vars
<1>3. PassOK' /\ pass' \in [Scheduler -> Passes]
  BY <1>2, PassKept
<1>4. UNCHANGED finals => \A p \in Parents : Spoken(p)
  BY DEF Spoken
<1>5. ASSUME NEW r \in Request, RecordFailure(r) PROVE IInv'
  <2>1. ParentOf[r] \in Parents
    BY DEF Parents
  <2>2. finals' \in [Parents -> Seq(Written)] /\ \A q \in Parents : Spoken(q)
    BY <1>1, <1>4, <1>5, <2>1, FinalWritten DEF RecordFailure
  <2>3. refused' \subseteq Request /\ active' = active /\ UNCHANGED clients
    BY <1>1, <1>5 DEF RecordFailure
  <2> QED BY <1>1, <1>2, <1>3, <2>2, <2>3, OtherStep DEF clients
<1>6. ASSUME NEW p \in Parents, TurnAnswered(p) PROVE IInv'
  <2>1. finals' = [finals EXCEPT ![p] = Append(finals[p], By("stages"))]
    BY <1>1, <1>6 DEF TurnAnswered
  <2>2. finals' \in [Parents -> Seq(Written)] /\ \A q \in Parents : Spoken(q)
    BY <2>1, FinalWritten
  <2>3. refused' = refused /\ active' = active /\ UNCHANGED clients
    BY <1>6 DEF TurnAnswered
  <2> QED BY <1>1, <1>2, <1>3, <2>2, <2>3, OtherStep DEF clients
<1>7. ASSUME NEW d \in Devices, RevokeDevice(d) PROVE IInv'
  <2>1. \A r \in Request : ProjectOf[r] # d
    BY SchedulesAssumption DEF Projects
  <2> QED BY <1>1, <1>2, <1>3, <1>4, <1>7, <2>1, OtherStep DEF RevokeDevice, clients
<1>8. ASSUME \/ \E r \in Request : CreateFails(r) \/ IdPreclaimed(r)
             \/ \E u \in Users : TurnAccepted(u)
             \/ UNCHANGED vars
      PROVE  IInv'
  <2>1. UNCHANGED <<finals, active>>
    BY <1>8 DEF CreateFails, IdPreclaimed, TurnAccepted, vars
  <2>2. refused' \subseteq Request /\ accepted' \subseteq Users /\ preclaimed' \subseteq Request
    BY <1>1, <1>8 DEF CreateFails, IdPreclaimed, TurnAccepted, clients, vars
  <2> QED BY <1>1, <1>2, <1>3, <1>4, <2>1, <2>2, OtherStep
<1> QED BY <1>5, <1>6, <1>7, <1>8

LEMMA CreateInv == ASSUME IInv, NEW r \in Request, Create(r) PROVE IInv'
<1>1. /\ Rows /\ finals \in [Parents -> Seq(Written)] /\ turns \in [Request -> 0..2]
      /\ speech \in [Request -> {"none", "waiting", "queued"}] /\ refused \subseteq Request
      /\ accepted \subseteq Users /\ preclaimed \subseteq Request
      /\ time \in Nat /\ faults \in 0..MaxFaults
  BY TypeMeans DEF IInv
<1>2. schedule[r] = Gone
  BY DEF Create, Known
<1>3. /\ UNCHANGED <<turns, speech, active, accepted, preclaimed, refused, pass, time, faults>>
      /\ finals[ParentOf[r]] = <<>> /\ ProjectOf[r] \in active /\ ParentOf[r] \in Parents
  BY DEF Create, outcome, clients, Parents
<1>4. /\ schedule' = [schedule EXCEPT ![r] = Row("SCHEDULED")]
      /\ occurrence' = [occurrence EXCEPT ![r] = Row("PENDING")]
      /\ finals' = [finals EXCEPT ![ParentOf[r]] = <<Confirmed(r)>>]
  BY DEF Create
<1>5. /\ schedule'[r] = Row("SCHEDULED") /\ occurrence'[r] = Row("PENDING")
      /\ \A s \in Request \ {r} : schedule'[s] = schedule[s] /\ occurrence'[s] = occurrence[s]
      /\ schedule' = [s \in Request |-> schedule'[s]] /\ occurrence' = [s \in Request |-> occurrence'[s]]
  BY <1>1, <1>4 DEF Rows
<1>6. RowsMove
  <2>1. ASSUME NEW s \in Request PROVE RowMoves(s)
    <3>1. CASE s = r
      BY <1>2, <1>3, <1>5, <3>1, RowType DEF RowMoves, Moves
    <3>2. CASE s # r
      BY <1>3, <1>5, <3>2 DEF RowMoves, Moves
    <3> QED BY <3>1, <3>2
  <2> QED BY <1>5, <2>1 DEF RowsMove
<1>7. Confirmed(r) \in Written
  BY DEF Written
<1>8. finals' \in [Parents -> Seq(Written)] /\ finals'[ParentOf[r]] = <<Confirmed(r)>>
      /\ \A p \in Parents \ {ParentOf[r]} : finals'[p] = finals[p]
  <2>1. <<Confirmed(r)>> \in Seq(Written)
    BY <1>7
  <2> QED BY <1>1, <1>3, <1>4, <2>1
<1>9. /\ \A x : BeginsWith(ParentOf[r], x)' <=> x = Confirmed(r)
      /\ \A x : ~BeginsWith(ParentOf[r], x)
      /\ \A p \in Parents \ {ParentOf[r]} : \A x : BeginsWith(p, x)' <=> BeginsWith(p, x)
      /\ \A p \in Parents : AnswersFollow(p) => AnswersFollow(p)'
  <2>1. finals'[ParentOf[r]] # <<>> /\ Len(finals'[ParentOf[r]]) = 1 /\ finals'[ParentOf[r]][1] = Confirmed(r)
    BY <1>8
  <2> QED BY <1>3, <1>8, <2>1 DEF BeginsWith, AnswersFollow
<1>10. PromisesKept'
  <2>1. ASSUME NEW s \in Request
        PROVE  /\ ~OfOldVersion(s)' => ((schedule'[s] # Gone) <=> BeginsWith(ParentOf[s], Confirmed(s))')
               /\ ProjectOf[s] \notin active' /\ ~OfOldVersion(s)' => ~Live(schedule'[s])
    <3>1. CASE s = r
      <4>1. Row("SCHEDULED") # Gone
        BY DEF Row, Gone
      <4> QED BY <1>3, <1>5, <1>9, <3>1, <4>1
    <3>2. CASE s # r /\ ParentOf[s] = ParentOf[r]
      <4>1. ~OfOldVersion(s) /\ schedule'[s] = Gone
        BY <1>5, <1>9, <3>2, PromiseMeans DEF IInv, PromisesKept, OfOldVersion
      <4>2. Confirmed(s) # Confirmed(r)
        BY <3>2 DEF Confirmed
      <4>3. ~Live(Gone)
        BY DEF Gone, Live
      <4> QED BY <1>9, <3>2, <4>1, <4>2, <4>3
    <3>3. CASE ParentOf[s] # ParentOf[r]
      <4>1. /\ OfOldVersion(s)' <=> OfOldVersion(s)
            /\ BeginsWith(ParentOf[s], Confirmed(s))' <=> BeginsWith(ParentOf[s], Confirmed(s))
            /\ schedule'[s] = schedule[s] /\ active' = active
        BY <1>3, <1>5, <1>9, <3>3 DEF OfOldVersion, Parents
      <4> QED BY <4>1, PromiseMeans DEF IInv, PromisesKept, ArchivedIsQuiet
    <3> QED BY <3>1, <3>2, <3>3
  <2>2. \A p \in Parents : AnswersFollow(p)'
    BY <1>9, PromiseMeans DEF IInv, PromisesKept
  <2> QED BY <2>1, <2>2 DEF PromisesKept, PromiseKept, ArchivedIsQuiet, AnswersFollow
<1>11. PassOK' /\ pass' \in [Scheduler -> Passes]
  BY <1>3, PassKept
<1>12. turns' = [s \in Request |-> turns'[s]]
  BY <1>1, <1>3
<1> QED BY <1>1, <1>3, <1>6, <1>8, <1>10, <1>11, <1>12, Assemble

\* Steps that move rows, and leave the rest of what was promised.
LEMMA RowStep ==
  ASSUME IInv, RowsMove, UNCHANGED <<finals, clients, refused>>, PassOK' /\ pass' \in [Scheduler -> Passes],
         \A r \in Request : schedule[r] = Gone => schedule'[r] = Gone,
         turns' = [r \in Request |-> turns'[r]],
         speech' \in [Request -> {"none", "waiting", "queued"}],
         active' \subseteq active,
         \A r \in Request : ProjectOf[r] \in active \ active' => ~Live(schedule'[r]),
         time' \in Nat, faults' \in 0..MaxFaults
  PROVE  IInv'
<1>1. /\ finals \in [Parents -> Seq(Written)] /\ refused \subseteq Request
      /\ accepted' \subseteq Users /\ preclaimed' \subseteq Request
  BY TypeMeans DEF IInv, clients
<1>2. PromisesKept'
  <2>1. \A p \in Parents : Spoken(p)
    BY DEF Spoken
  <2> QED BY <2>1, PromisesMoved
<1> QED BY <1>1, <1>2, Assemble

\* Rows that only move, with what was delivered as it was.
LEMMA RowsOnly ==
  ASSUME IInv, UNCHANGED outcome,
         schedule' = [r \in Request |-> schedule'[r]], occurrence' = [r \in Request |-> occurrence'[r]],
         \A r \in Request : /\ Moves(schedule[r], occurrence[r], schedule'[r], occurrence'[r])
                            /\ schedule'[r].state = "FIRED" => schedule[r].state = "FIRED"
  PROVE  /\ RowsMove /\ turns' = [r \in Request |-> turns'[r]]
         /\ speech' \in [Request -> {"none", "waiting", "queued"}]
<1>1. turns \in [Request -> 0..2] /\ speech \in [Request -> {"none", "waiting", "queued"}]
  BY TypeMeans DEF IInv
<1> QED BY <1>1 DEF outcome, RowsMove, RowMoves

LEMMA LiveAgrees ==
  ASSUME Rows, NEW r \in Request
  PROVE  /\ Live(schedule[r]) <=> Live(occurrence[r])
         /\ schedule[r].state = "CLAIMED" <=> occurrence[r].state = "CLAIMED"
         /\ schedule[r].state = "FIRED" <=> occurrence[r].state = "FIRED"
         /\ schedule[r].left = occurrence[r].left /\ schedule[r].owner = occurrence[r].owner
         /\ schedule[r] = Gone => ~Live(schedule[r])
<1>1. schedule[r] \in RowIn(ScheduleStates) /\ occurrence[r] \in RowIn(OccurrenceStates)
      /\ Agree(schedule[r], occurrence[r])
  BY DEF Rows
<1> QED BY <1>1, AgreeMeans DEF Live, Gone

\* Cancelled, wherever it is used.
LEMMA CancelledMoves ==
  ASSUME IInv, NEW projects, Cancelled(projects)
  PROVE  /\ schedule' = [r \in Request |-> schedule'[r]] /\ occurrence' = [r \in Request |-> occurrence'[r]]
         /\ \A r \in Request :
              /\ Moves(schedule[r], occurrence[r], schedule'[r], occurrence'[r])
              /\ schedule'[r].state = "FIRED" => schedule[r].state = "FIRED"
              /\ schedule[r] = Gone => schedule'[r] = Gone
              /\ ProjectOf[r] \in projects => ~Live(schedule'[r])
<1>1. Rows
  BY TypeMeans DEF IInv
<1>2. /\ schedule' = [r \in Request |-> schedule'[r]] /\ occurrence' = [r \in Request |-> occurrence'[r]]
  BY DEF Cancelled
<1>3. ASSUME NEW r \in Request
      PROVE  IF Live(schedule[r]) /\ ProjectOf[r] \in projects
             THEN schedule'[r] = Row("CANCELLED") /\ occurrence'[r] = Row("FAILED")
             ELSE schedule'[r] = schedule[r] /\ occurrence'[r] = occurrence[r]
  BY <1>1, LiveAgrees DEF Cancelled
<1>4. Row("CANCELLED").state = "CANCELLED"
  BY RowType
<1>5. ~Live(Row("CANCELLED"))
  BY <1>4 DEF Live
<1>6. ASSUME NEW r \in Request PROVE Moves(schedule[r], occurrence[r], schedule'[r], occurrence'[r])
  BY <1>3 DEF Moves
<1> QED BY <1>1, <1>2, <1>3, <1>4, <1>5, <1>6, LiveAgrees

LEMMA ArchiveInv == ASSUME IInv, NEW p \in Projects, ArchiveProject(p) PROVE IInv'
<1>1. /\ UNCHANGED <<finals, outcome, clients, refused, pass, time, faults>>
      /\ active' = active \ {p} /\ Cancelled({p})
  BY DEF ArchiveProject
<1>2. /\ schedule' = [r \in Request |-> schedule'[r]] /\ occurrence' = [r \in Request |-> occurrence'[r]]
      /\ \A r \in Request :
           /\ Moves(schedule[r], occurrence[r], schedule'[r], occurrence'[r])
           /\ schedule'[r].state = "FIRED" => schedule[r].state = "FIRED"
           /\ schedule[r] = Gone => schedule'[r] = Gone
           /\ ProjectOf[r] \in {p} => ~Live(schedule'[r])
  BY <1>1, CancelledMoves
<1>3. time \in Nat /\ faults \in 0..MaxFaults
  BY TypeMeans DEF IInv
<1>4. PassOK' /\ pass' \in [Scheduler -> Passes]
  BY <1>1, PassKept
<1>5. /\ RowsMove /\ turns' = [r \in Request |-> turns'[r]]
      /\ speech' \in [Request -> {"none", "waiting", "queued"}]
  BY <1>1, <1>2, RowsOnly
<1> QED BY <1>1, <1>2, <1>3, <1>4, <1>5, RowStep

LEMMA RecoverInv == ASSUME IInv, NEW w \in Scheduler, Recover(w) PROVE IInv'
<1> DEFINE quiet(r) == Live(schedule[r]) /\ ProjectOf[r] \notin active
<1>1. Rows /\ time \in Nat /\ faults \in 0..MaxFaults
  BY TypeMeans DEF IInv
<1>2. UNCHANGED <<finals, outcome, active, clients, refused, time, faults>> /\ GoesTo(w, "reconcile")
  BY DEF Recover
<1>3. PassOK' /\ pass' \in [Scheduler -> Passes]
  BY <1>2, PassGoes
<1>4. /\ schedule' = [r \in Request |-> schedule'[r]] /\ occurrence' = [r \in Request |-> occurrence'[r]]
      /\ \A r \in Request :
           /\ schedule'[r] = IF quiet(r) THEN Row("CANCELLED") ELSE Released(schedule[r], "SCHEDULED", 0)
           /\ occurrence'[r] = IF quiet(r) /\ Live(occurrence[r]) THEN Row("FAILED")
                               ELSE Released(occurrence[r], "PENDING", 0)
  BY DEF Recover
<1>5. ASSUME NEW r \in Request
      PROVE  /\ Moves(schedule[r], occurrence[r], schedule'[r], occurrence'[r])
             /\ schedule'[r].state = "FIRED" => schedule[r].state = "FIRED"
             /\ schedule[r] = Gone => schedule'[r] = Gone
  <2>1. /\ Live(schedule[r]) <=> Live(occurrence[r])
        /\ RunOut(schedule[r], 0) <=> RunOut(occurrence[r], 0)
        /\ RunOut(schedule[r], 0) => Live(schedule[r])
        /\ schedule[r] = Gone => ~Live(schedule[r])
    BY <1>1, LiveAgrees DEF RunOut, Live
  <2>2. Row("CANCELLED").state = "CANCELLED" /\ Row("SCHEDULED").state = "SCHEDULED"
    BY RowType
  <2> HIDE DEF quiet
  <2>3. quiet(r) => Live(schedule[r])
    BY DEF quiet
  <2> QED BY <1>4, <2>1, <2>2, <2>3 DEF Moves, Released
<1>6. /\ RowsMove /\ turns' = [r \in Request |-> turns'[r]]
      /\ speech' \in [Request -> {"none", "waiting", "queued"}]
  BY <1>2, <1>4, <1>5, RowsOnly
<1> QED BY <1>1, <1>2, <1>3, <1>5, <1>6, RowStep

LEMMA ClaimInv == ASSUME IInv, NEW w \in Scheduler, Claim(w) PROVE IInv'
<1>1. Rows /\ time \in Nat /\ faults \in 0..MaxFaults /\ pass[w] \in Passes
  BY TypeMeans DEF IInv
<1> DEFINE row == [state |-> "CLAIMED", owner |-> w, left |-> Lease - pass[w].age]
           quiet(s) == Live(schedule[s]) /\ ProjectOf[s] \notin active
<1>2. PICK r \in Request :
        /\ Claimable(r, w)
        /\ occurrence' = [s \in Request |-> IF s = r THEN row
                            ELSE IF quiet(s) /\ Live(occurrence[s]) THEN Row("FAILED") ELSE occurrence[s]]
        /\ schedule' = [s \in Request |-> IF s = r THEN row
                            ELSE IF quiet(s) THEN Row("CANCELLED") ELSE schedule[s]]
        /\ pass' = [pass EXCEPT ![w].step = "commit", ![w].claim = r, ![w].taken = @ + 1]
  BY DEF Claim
<1>3. UNCHANGED <<finals, outcome, active, clients, refused, time, faults>> /\ pass[w].taken < Limit
  BY DEF Claim
<1>4. row \in RowIn({"CLAIMED"}) /\ row.state = "CLAIMED"
  <2>1. Lease - pass[w].age \in -MaxAge .. Lease
    BY <1>1, SchedulesAssumption DEF Passes
  <2> QED BY <2>1 DEF RowIn
<1>5. PassOK' /\ pass' \in [Scheduler -> Passes]
  <2> DEFINE next == [pass[w] EXCEPT !.step = "commit", !.claim = r, !.taken = pass[w].taken + 1]
  <2>1. pass[w].taken + 1 \in 0..Limit
    BY <1>1, <1>3, SchedulesAssumption DEF Passes
  <2>2. next \in Passes /\ next.claim \in Request
    BY <1>1, <2>1 DEF Passes
  <2>3. pass' = [pass EXCEPT ![w] = next]
    BY <1>2, TypeMeans DEF IInv
  <2> HIDE DEF next
  <2> QED BY <2>2, <2>3, PassType
<1> HIDE DEF row
<1>6. ASSUME NEW s \in Request
      PROVE  /\ Moves(schedule[s], occurrence[s], schedule'[s], occurrence'[s])
             /\ schedule'[s].state = "FIRED" => schedule[s].state = "FIRED"
             /\ schedule[s] = Gone => schedule'[s] = Gone
  <2>1. /\ Live(schedule[s]) <=> Live(occurrence[s])
        /\ schedule[s] = Gone => ~Live(schedule[s])
    BY <1>1, LiveAgrees
  <2>2. CASE s = r
    <3>1. schedule'[s] = row /\ occurrence'[s] = row /\ Live(schedule[s])
      BY <1>2, <2>2 DEF Claimable
    <3> QED BY <1>4, <2>1, <3>1 DEF Moves
  <2>3. CASE s # r /\ quiet(s)
    <3>1. schedule'[s] = Row("CANCELLED") /\ occurrence'[s] = Row("FAILED") /\ Live(schedule[s])
      BY <1>2, <2>1, <2>3
    <3>2. Row("CANCELLED").state = "CANCELLED"
      BY RowType
    <3> QED BY <2>1, <3>1, <3>2 DEF Moves
  <2>4. CASE s # r /\ ~quiet(s)
    <3>1. schedule'[s] = schedule[s] /\ occurrence'[s] = occurrence[s]
      BY <1>2, <2>4
    <3> QED BY <3>1 DEF Moves
  <2> QED BY <2>2, <2>3, <2>4
<1>7. /\ schedule' = [s \in Request |-> schedule'[s]] /\ occurrence' = [s \in Request |-> occurrence'[s]]
  BY <1>2
<1>8. /\ RowsMove /\ turns' = [s \in Request |-> turns'[s]]
      /\ speech' \in [Request -> {"none", "waiting", "queued"}]
  BY <1>3, <1>6, <1>7, RowsOnly
<1> QED BY <1>1, <1>3, <1>5, <1>6, <1>8, RowStep

LEMMA FiredInv == ASSUME IInv, NEW w \in Scheduler, Fired(w) PROVE IInv'
<1>1. Rows /\ time \in Nat /\ faults \in 0..MaxFaults
  BY TypeMeans DEF IInv
<1>2. /\ UNCHANGED <<finals, outcome, active, clients, refused, time, faults>> /\ GoesTo(w, "enqueue")
      /\ Cancelled(Projects \ active) \/ UNCHANGED rows
  BY DEF Fired
<1>3. PassOK' /\ pass' \in [Scheduler -> Passes]
  BY <1>2, PassGoes
<1>4. CASE UNCHANGED rows
  <2>1. /\ finals \in [Parents -> Seq(Written)] /\ refused \subseteq Request
        /\ accepted' \subseteq Users /\ preclaimed' \subseteq Request
    BY <1>2, TypeMeans DEF IInv, clients
  <2>2. \A p \in Parents : Spoken(p)
    BY <1>2 DEF Spoken
  <2> QED BY <1>1, <1>2, <1>3, <1>4, <2>1, <2>2, OtherStep
<1>5. CASE Cancelled(Projects \ active)
  <2>1. /\ schedule' = [r \in Request |-> schedule'[r]] /\ occurrence' = [r \in Request |-> occurrence'[r]]
        /\ \A r \in Request :
             /\ Moves(schedule[r], occurrence[r], schedule'[r], occurrence'[r])
             /\ schedule'[r].state = "FIRED" => schedule[r].state = "FIRED"
             /\ schedule[r] = Gone => schedule'[r] = Gone
    BY <1>5, CancelledMoves
  <2>2. /\ RowsMove /\ turns' = [r \in Request |-> turns'[r]]
        /\ speech' \in [Request -> {"none", "waiting", "queued"}]
    BY <1>2, <2>1, RowsOnly
  <2> QED BY <1>1, <1>2, <1>3, <2>1, <2>2, RowStep
<1> QED BY <1>2, <1>4, <1>5

LEMMA CommitInv == ASSUME IInv, NEW w \in Scheduler, Commit(w) PROVE IInv'
<1> DEFINE r == pass[w].claim
<1>1. /\ Rows /\ time \in Nat /\ faults \in 0..MaxFaults /\ pass \in [Scheduler -> Passes]
      /\ turns \in [Request -> 0..2] /\ speech \in [Request -> {"none", "waiting", "queued"}]
  BY TypeMeans DEF IInv
<1>2. r \in Request
  BY DEF IInv, PassOK, Commit
<1>3. /\ UNCHANGED <<finals, active, clients, refused, time, faults>> /\ Held(r, w)
      /\ turns' = [turns EXCEPT ![r] = turns[r] + 1] /\ speech' = [speech EXCEPT ![r] = "waiting"]
      /\ occurrence' = [occurrence EXCEPT ![r] = Row("FIRED")]
      /\ schedule' = [schedule EXCEPT ![r] = IF schedule[r].state = "CLAIMED" /\ schedule[r].owner = w
                                             THEN Row("FIRED") ELSE schedule[r]]
      /\ pass' = [pass EXCEPT ![w].step = "fire", ![w].claim = None]
  <2>1. turns' = [turns EXCEPT ![r] = turns[r] + 1]
    BY <1>1, <1>2 DEF Commit
  <2> QED BY <1>1, <1>2, <2>1 DEF Commit
<1> HIDE DEF r
<1>4. schedule[r].state = "CLAIMED" /\ schedule[r].owner = w /\ occurrence[r].state = "CLAIMED"
  BY <1>1, <1>2, <1>3, LiveAgrees DEF Held
<1>5. /\ schedule'[r] = Row("FIRED") /\ occurrence'[r] = Row("FIRED")
      /\ \A s \in Request \ {r} : schedule'[s] = schedule[s] /\ occurrence'[s] = occurrence[s]
      /\ schedule' = [s \in Request |-> schedule'[s]] /\ occurrence' = [s \in Request |-> occurrence'[s]]
      /\ turns' = [s \in Request |-> turns'[s]]
      /\ speech' \in [Request -> {"none", "waiting", "queued"}]
      /\ turns'[r] = turns[r] + 1 /\ speech'[r] = "waiting"
      /\ \A s \in Request \ {r} : turns'[s] = turns[s] /\ speech'[s] = speech[s]
  BY <1>1, <1>2, <1>3, <1>4 DEF Rows
<1>6. PassOK' /\ pass' \in [Scheduler -> Passes]
  <2> DEFINE next == [pass[w] EXCEPT !.step = "fire", !.claim = None]
  <2>1. next \in Passes /\ next.step # "commit"
    BY <1>1 DEF Passes
  <2>2. pass' = [pass EXCEPT ![w] = next]
    BY <1>1, <1>3
  <2> HIDE DEF next
  <2> QED BY <2>1, <2>2, PassType
<1>7. RowsMove
  <2>1. ASSUME NEW s \in Request PROVE RowMoves(s)
    <3>1. CASE s = r
      <4>1. Row("FIRED").state = "FIRED"
        BY RowType
      <4> QED BY <1>4, <1>5, <3>1, <4>1 DEF RowMoves, Moves
    <3>2. CASE s # r
      BY <1>5, <3>2 DEF RowMoves, Moves
    <3> QED BY <3>1, <3>2
  <2> QED BY <1>5, <2>1 DEF RowsMove
<1>8. \A s \in Request : schedule[s] = Gone => schedule'[s] = Gone
  BY <1>4, <1>5 DEF Gone
<1> QED BY <1>1, <1>3, <1>5, <1>6, <1>7, <1>8, RowStep

LEMMA TickInv == ASSUME IInv, Tick PROVE IInv'
<1>1. Rows /\ time \in Nat /\ faults \in 0..MaxFaults /\ pass \in [Scheduler -> Passes]
  BY TypeMeans DEF IInv
<1>2. /\ UNCHANGED <<finals, outcome, active, clients, refused, faults>>
      /\ schedule' = [r \in Request |-> Older(schedule[r])]
      /\ occurrence' = [r \in Request |-> Older(occurrence[r])]
      /\ time' \in Nat
  BY <1>1 DEF Tick
<1>3. PassOK' /\ pass' \in [Scheduler -> Passes]
  <2>1. ASSUME NEW w \in Scheduler
        PROVE  /\ pass'[w] \in Passes /\ pass'[w].step = pass[w].step /\ pass'[w].claim = pass[w].claim
    <3>1. CASE Working(w)
      <4>1. pass'[w] = [pass[w] EXCEPT !.age = pass[w].age + 1] /\ pass[w].age < MaxAge
        BY <1>1, <3>1 DEF Tick
      <4>2. pass[w].age + 1 \in 0..MaxAge
        BY <1>1, <4>1, SchedulesAssumption DEF Passes
      <4> QED BY <1>1, <4>1, <4>2 DEF Passes
    <3>2. CASE ~Working(w)
      <4> DEFINE left == IF pass[w].wake > 0 THEN pass[w].wake - 1 ELSE 0
      <4>1. pass'[w] = [pass[w] EXCEPT !.wake = left]
        BY <1>1, <3>2 DEF Tick
      <4>2. left \in 0..MaxDelay
        BY <1>1, SchedulesAssumption DEF Passes
      <4> HIDE DEF left
      <4> QED BY <1>1, <4>1, <4>2 DEF Passes
    <3> QED BY <3>1, <3>2
  <2>2. pass' = [w \in Scheduler |-> pass'[w]]
    BY DEF Tick
  <2> QED BY <2>1, <2>2 DEF IInv, PassOK
<1>4. ASSUME NEW r \in Request
      PROVE  /\ Moves(schedule[r], occurrence[r], schedule'[r], occurrence'[r])
             /\ schedule'[r].state = "FIRED" => schedule[r].state = "FIRED"
             /\ schedule[r] = Gone => schedule'[r] = Gone
  <2>1. /\ schedule[r] \in RowIn(ScheduleStates) /\ occurrence[r] \in RowIn(OccurrenceStates)
        /\ Agree(schedule[r], occurrence[r])
        /\ schedule[r].state = "CLAIMED" <=> occurrence[r].state = "CLAIMED"
        /\ schedule[r].left = occurrence[r].left /\ schedule[r].owner = occurrence[r].owner
    BY <1>1, LiveAgrees DEF Rows
  <2>2. schedule'[r] = Older(schedule[r]) /\ occurrence'[r] = Older(occurrence[r])
    BY <1>2
  <2>3. CASE schedule[r].state = "CLAIMED" /\ schedule[r].left > -MaxAge
    <3> DEFINE s2 == [schedule[r] EXCEPT !.left = schedule[r].left - 1]
               o2 == [occurrence[r] EXCEPT !.left = occurrence[r].left - 1]
    <3>1. schedule'[r] = s2 /\ occurrence'[r] = o2
      BY <2>1, <2>2, <2>3 DEF Older
    <3>2. schedule[r].left - 1 \in -MaxAge .. Lease
      BY <2>1, <2>3, SchedulesAssumption DEF RowIn
    <3>3. s2 \in RowIn({"CLAIMED"}) /\ o2 \in RowIn({"CLAIMED"}) /\ s2.state = "CLAIMED"
      BY <2>1, <2>3, <3>2 DEF RowIn
    <3>4. s2 = o2
      <4>1. s2.state = o2.state /\ s2.owner = o2.owner /\ s2.left = o2.left
        BY <2>1, <2>3 DEF RowIn
      <4> HIDE DEF s2, o2
      <4> QED BY <3>3, <4>1 DEF RowIn
    <3> HIDE DEF s2, o2
    <3> QED BY <2>3, <3>1, <3>3, <3>4 DEF Moves, Live, Gone
  <2>4. CASE ~(schedule[r].state = "CLAIMED" /\ schedule[r].left > -MaxAge)
    BY <2>1, <2>2, <2>4 DEF Older, Moves
  <2> QED BY <2>3, <2>4
<1>5. /\ RowsMove /\ turns' = [r \in Request |-> turns'[r]]
      /\ speech' \in [Request -> {"none", "waiting", "queued"}]
  <2>1. /\ schedule' = [r \in Request |-> schedule'[r]] /\ occurrence' = [r \in Request |-> occurrence'[r]]
    BY <1>2
  <2> QED BY <1>2, <1>4, <2>1, RowsOnly
<1> QED BY <1>1, <1>2, <1>3, <1>4, <1>5, RowStep

\* The other steps of a pass, and the end and the start of the process.
LEMMA PassInv ==
  ASSUME IInv,
         \/ \E w \in Scheduler :
              \/ Wake(w) \/ Enqueued(w) \/ PassFails(w) \/ CommitReplays(w) \/ CommitRefused(w)
              \/ \E r \in Request : EnqueueSpeech(w, r)
         \/ Crash \/ Restart
  PROVE  IInv'
<1>1. /\ Rows /\ finals \in [Parents -> Seq(Written)] /\ refused \subseteq Request
      /\ accepted \subseteq Users /\ preclaimed \subseteq Request
      /\ UNCHANGED finals => \A p \in Parents : Spoken(p)
      /\ time \in Nat /\ faults \in 0..MaxFaults /\ pass \in [Scheduler -> Passes]
      /\ turns \in [Request -> 0..2] /\ speech \in [Request -> {"none", "waiting", "queued"}]
  BY TypeMeans DEF IInv, Spoken
<1>2. Fault => faults' \in 0..MaxFaults
  BY <1>1, SchedulesAssumption DEF Fault
<1>3. ASSUME NEW w \in Scheduler, Wake(w) \/ Enqueued(w) PROVE IInv'
  <2>1. PassOK' /\ pass' \in [Scheduler -> Passes]
    BY <1>3, PassGoes DEF Wake, Enqueued
  <2> QED BY <1>1, <1>3, <2>1, OtherStep DEF Wake, Enqueued, clients
<1>4. ASSUME NEW w \in Scheduler, PassFails(w) PROVE IInv'
  <2>1. PassOK' /\ pass' \in [Scheduler -> Passes]
    BY <1>4, PassGoes DEF PassFails
  <2> QED BY <1>1, <1>2, <1>4, <2>1, OtherStep DEF PassFails, clients
<1>5. ASSUME NEW w \in Scheduler, CommitRefused(w) PROVE IInv'
  <2>1. PassOK' /\ pass' \in [Scheduler -> Passes]
    BY <1>5, PassGoes DEF CommitRefused
  <2> QED BY <1>1, <1>5, <2>1, OtherStep DEF CommitRefused, clients
<1>6. ASSUME NEW w \in Scheduler, CommitReplays(w) PROVE IInv'
  <2> DEFINE next == [pass[w] EXCEPT !.step = "fire", !.claim = None]
  <2>1. next \in Passes /\ next.step # "commit"
    BY <1>1 DEF Passes
  <2>2. pass' = [pass EXCEPT ![w] = next]
    BY <1>1, <1>6 DEF CommitReplays
  <2>3. PassOK' /\ pass' \in [Scheduler -> Passes]
    <3> HIDE DEF next
    <3> QED BY <2>1, <2>2, PassType
  <2> QED BY <1>1, <1>6, <2>3, OtherStep DEF CommitReplays, clients
<1>7. ASSUME NEW w \in Scheduler, NEW r \in Request, EnqueueSpeech(w, r) PROVE IInv'
  <2>1. /\ UNCHANGED <<finals, rows, turns, active, clients, refused, pass, time, faults>>
        /\ speech[r] = "waiting" /\ speech' = [speech EXCEPT ![r] = "queued"]
    BY <1>7 DEF EnqueueSpeech
  <2>2. /\ speech' \in [Request -> {"none", "waiting", "queued"}]
        /\ \A s \in Request : speech'[s] = "none" <=> speech[s] = "none"
    BY <1>1, <2>1
  <2>3. RowsMove
    BY <1>1, <2>1, <2>2, RowsKept
  <2>4. PassOK' /\ pass' \in [Scheduler -> Passes]
    BY <2>1, PassKept
  <2> QED BY <1>1, <2>1, <2>2, <2>3, <2>4, RowStep DEF rows
<1>8. CASE Crash \/ Restart
  <2>1. PassOK' /\ pass' \in [Scheduler -> Passes]
    <3>1. Down \in Passes /\ Down.step # "commit" /\ Asleep(0, 0) \in Passes /\ Asleep(0, 0).step # "commit"
      BY AsleepType, SchedulesAssumption
    <3>2. pass' = [w \in Scheduler |-> Down] \/ pass' = [w \in Scheduler |-> Asleep(0, 0)]
      BY <1>8 DEF Crash, Restart
    <3> QED BY <3>1, <3>2 DEF PassOK
  <2>2. refused' \subseteq Request /\ faults' \in 0..MaxFaults
    BY <1>1, <1>2, <1>8 DEF Crash, Restart
  <2> QED BY <1>1, <1>8, <2>1, <2>2, OtherStep DEF Crash, Restart, clients
<1> QED BY <1>3, <1>4, <1>5, <1>6, <1>7, <1>8

LEMMA InitInv == Init => IInv
<1> SUFFICES ASSUME Init PROVE IInv
  OBVIOUS
<1>1. \A st : Row(st) \in RowIn({st}) /\ Row(st).state = st /\ Row(st).owner = None /\ Row(st).left = 0
  BY RowType DEF Row, Gone
<1>2. Gone = Row("NONE")
  BY RowType
<1>3. schedule = [r \in Request |-> IF r \in Legacy THEN Row("SCHEDULED") ELSE Gone]
      /\ occurrence = [r \in Request |-> IF r \in Legacy THEN Row("PENDING") ELSE Gone]
  BY DEF Init
<1>4. Rows
  <2>1. ASSUME NEW r \in Request
        PROVE  /\ schedule[r] \in RowIn(ScheduleStates) /\ occurrence[r] \in RowIn(OccurrenceStates)
               /\ Agree(schedule[r], occurrence[r])
    <3>1. schedule[r] \in RowIn(ScheduleStates) /\ occurrence[r] \in RowIn(OccurrenceStates)
      BY <1>1, <1>2, <1>3 DEF RowIn, ScheduleStates, OccurrenceStates
    <3>2. /\ schedule[r].owner = occurrence[r].owner /\ schedule[r].left = occurrence[r].left
          /\ \/ schedule[r].state = "SCHEDULED" /\ occurrence[r].state = "PENDING"
             \/ schedule[r].state = "NONE" /\ occurrence[r].state = "NONE"
      BY <1>1, <1>2, <1>3
    <3> QED BY <3>1, <3>2, AgreeMeans
  <2> QED BY <1>3, <2>1 DEF Rows
<1>5. /\ turns = [r \in Request |-> 0] /\ speech = [r \in Request |-> "none"]
      /\ active \subseteq Projects \cup Devices /\ refused = {} /\ time = 0 /\ faults = 0
      /\ accepted \subseteq Users /\ preclaimed \subseteq Request
  BY DEF Init
<1>6. Asleep(0, 0) \in Passes /\ Asleep(0, 0).step = "asleep"
  BY AsleepType, SchedulesAssumption
<1>7. PassOK /\ pass \in [Scheduler -> Passes]
  BY <1>6 DEF Init, PassOK
<1>8. ASSUME NEW p \in Parents
      PROVE  /\ finals[p] \in Seq(Written)
             /\ (\E r \in Legacy : ParentOf[r] = p) => finals[p] = <<By("legacy")>>
             /\ (~\E r \in Legacy : ParentOf[r] = p) => finals[p] = <<>>
  <2>1. finals[p] = IF \E r \in Legacy : ParentOf[r] = p THEN <<By("legacy")>> ELSE <<>>
    BY DEF Init
  <2>2. By("legacy") \in Written
    BY DEF Written, Other
  <2>3. <<By("legacy")>> \in Seq(Written) /\ <<>> \in Seq(Written)
    BY <2>2
  <2> QED BY <2>1, <2>3
<1>9. finals \in [Parents -> Seq(Written)]
  <2>1. finals = [p \in Parents |-> finals[p]]
    BY DEF Init
  <2> QED BY <1>8, <2>1
<1>10. ASSUME NEW r \in Request, ~OfOldVersion(r)
       PROVE  schedule[r] = Gone /\ finals[ParentOf[r]] = <<>>
  <2>1. ParentOf[r] \in Parents
    BY DEF Parents
  <2>2. finals[ParentOf[r]] # <<By("legacy")>>
    <3>1. <<By("legacy")>> # <<>> /\ <<By("legacy")>>[1] = By("legacy")
      OBVIOUS
    <3> QED BY <1>10, <3>1 DEF OfOldVersion, BeginsWith
  <2>3. r \notin Legacy /\ ~\E s \in Legacy : ParentOf[s] = ParentOf[r]
    BY <1>8, <2>1, <2>2
  <2> QED BY <1>3, <1>8, <2>1, <2>3
<1>11. PromisesKept
  <2>1. \A p \in Parents : AnswersFollow(p)
    <3> SUFFICES ASSUME NEW p \in Parents PROVE AnswersFollow(p)
      OBVIOUS
    <3>1. finals[p] = <<By("legacy")>> \/ finals[p] = <<>>
      BY <1>8
    <3>2. Len(<<By("legacy")>>) = 1 /\ Len(<<>>) = 0
      OBVIOUS
    <3> QED BY <3>1, <3>2 DEF AnswersFollow
  <2>2. PromiseKept
    BY <1>10, <2>1, PromiseMeans DEF BeginsWith
  <2>3. ArchivedIsQuiet
    BY <1>1, <1>2, <1>10 DEF ArchivedIsQuiet, Live
  <2> QED BY <2>2, <2>3 DEF PromisesKept
<1>12. DeliveredOnce
  <2>1. \A r \in Request : schedule[r].state # "FIRED"
    BY <1>1, <1>2, <1>3
  <2> QED BY <1>5, <2>1 DEF DeliveredOnce
<1>13. TypeOK /\ RowsAgree
  <2>1. faults \in 0..MaxFaults /\ time \in Nat /\ refused \subseteq Request
    BY <1>5, SchedulesAssumption
  <2>2. turns \in [Request -> 0..2] /\ speech \in [Request -> {"none", "waiting", "queued"}]
    BY <1>5
  <2> QED BY <1>4, <1>5, <1>7, <1>9, <2>1, <2>2, TypeMeans
<1> QED BY <1>7, <1>11, <1>12, <1>13 DEF IInv

LEMMA NextInv == IInv /\ [Next]_vars => IInv'
<1> SUFFICES ASSUME IInv, [Next]_vars PROVE IInv'
  OBVIOUS
<1>1. ASSUME NEW w \in Scheduler, PassStep(w) \/ PassFails(w) PROVE IInv'
  BY <1>1, RecoverInv, ClaimInv, FiredInv, CommitInv, PassInv DEF PassStep
<1>2. CASE \E r \in Request : Create(r)
  BY <1>2, CreateInv
<1>3. CASE \E p \in Projects : ArchiveProject(p)
  BY <1>3, ArchiveInv
<1> QED BY <1>1, <1>2, <1>3, RequestSteps, TickInv, PassInv DEF Next

LEMMA Invariance == Spec => []IInv
BY InitInv, NextInv, PTL DEF Spec

-----------------------------------------------------------------------------
(* The theorems.                                                           *)

\* However schedulers race, crash and come back around the ends of leases,
\* the schedule and its occurrence carry the same state, owner and lease, and
\* the turn of a reminder is written exactly once, when both say FIRED.
THEOREM AgreementHolds == Spec => []RemindersAgree
<1>1. IInv => RemindersAgree
  BY DEF IInv, RemindersAgree
<1> QED BY <1>1, Invariance, PTL

\* A schedule exists exactly when its confirmation is the first FINAL of its
\* parent turn, only the turn's own stages add to a FINAL, and nothing of an
\* archived project waits any more.
THEOREM PromisesHold == Spec => []PromisesKept
<1>1. IInv => PromisesKept
  BY DEF IInv
<1> QED BY <1>1, Invariance, PTL

\* A schedule that is FIRED or CANCELLED is left as it is by every step.
LEMMA Settled ==
  ASSUME IInv, [Next]_vars, NEW r \in Request, schedule[r].state \in {"FIRED", "CANCELLED"}
  PROVE  schedule'[r] = schedule[r]
<1>1. /\ schedule \in [Request -> RowIn(ScheduleStates)]
      /\ ~Live(schedule[r]) /\ schedule[r].state # "CLAIMED" /\ schedule[r] # Gone
  BY TypeMeans DEF IInv, Rows, Live, Gone
<1>2. ASSUME NEW s \in Request, Create(s) PROVE schedule'[r] = schedule[r]
  <2>1. schedule[s] = Gone /\ schedule' = [schedule EXCEPT ![s] = Row("SCHEDULED")]
    BY <1>2 DEF Create, Known
  <2> QED BY <1>1, <2>1
<1>3. ASSUME NEW projects, Cancelled(projects) PROVE schedule'[r] = schedule[r]
  BY <1>1, <1>3 DEF Cancelled
<1>4. ASSUME NEW w \in Scheduler, Recover(w) PROVE schedule'[r] = schedule[r]
  BY <1>1, <1>4 DEF Recover, Released, RunOut
<1>5. ASSUME NEW w \in Scheduler, Claim(w) PROVE schedule'[r] = schedule[r]
  <2> DEFINE row == [state |-> "CLAIMED", owner |-> w, left |-> Lease - pass[w].age]
             quiet(s) == Live(schedule[s]) /\ ProjectOf[s] \notin active
  <2>1. PICK t \in Request :
          /\ Claimable(t, w)
          /\ schedule' = [s \in Request |-> IF s = t THEN row
                            ELSE IF quiet(s) THEN Row("CANCELLED") ELSE schedule[s]]
    BY <1>5 DEF Claim
  <2>2. t # r
    BY <1>1, <2>1 DEF Claimable
  <2> HIDE DEF row
  <2> QED BY <1>1, <2>1, <2>2
<1>6. ASSUME NEW w \in Scheduler, Commit(w) PROVE schedule'[r] = schedule[r]
  <2> DEFINE t == pass[w].claim
  <2>1. schedule' = [schedule EXCEPT ![t] = IF schedule[t].state = "CLAIMED" /\ schedule[t].owner = w
                                            THEN Row("FIRED") ELSE schedule[t]]
    <3>1. t \in Request
      BY <1>6 DEF IInv, PassOK, Commit
    <3> QED BY <1>1, <1>6, <3>1 DEF Commit
  <2> HIDE DEF t
  <2> QED BY <1>1, <2>1
<1>7. CASE Tick
  BY <1>1, <1>7 DEF Tick, Older
<1>8. CASE UNCHANGED rows
  BY <1>8 DEF rows
<1>9. ASSUME NEW w \in Scheduler, PassStep(w) \/ PassFails(w) PROVE schedule'[r] = schedule[r]
  BY <1>3, <1>4, <1>5, <1>6, <1>8, <1>9
     DEF PassStep, PassFails, Wake, Enqueued, Fired, CommitReplays, CommitRefused, EnqueueSpeech
<1>10. CASE \/ \E s \in Request : CreateFails(s) \/ RecordFailure(s) \/ IdPreclaimed(s)
            \/ \E p \in Parents : TurnAnswered(p)
            \/ \E u \in Users : TurnAccepted(u)
            \/ \E d \in Devices : RevokeDevice(d)
            \/ Crash \/ Restart \/ UNCHANGED vars
  BY <1>8, <1>10 DEF CreateFails, RecordFailure, TurnAnswered, TurnAccepted, IdPreclaimed, RevokeDevice,
                     Crash, Restart, vars
<1>11. CASE \E p \in Projects : ArchiveProject(p)
  BY <1>3, <1>11 DEF ArchiveProject
<1> QED BY <1>2, <1>7, <1>9, <1>10, <1>11 DEF Next

\* Only a commit that finds the project and the devices active delivers.
LEMMA OnlyCommitDelivers ==
  ASSUME IInv, [Next]_vars, NEW r \in Request, turns'[r] > turns[r] PROVE Permitted(r)
<1>1. turns \in [Request -> 0..2]
  BY TypeMeans DEF IInv
<1>2. ~(turns' = turns)
  BY <1>1
<1>3. PICK w \in Scheduler : Commit(w)
  BY <1>2 DEF Next, Create, CreateFails, RecordFailure, TurnAnswered, TurnAccepted, IdPreclaimed, ArchiveProject, RevokeDevice,
              PassStep, PassFails, Wake, Recover, Enqueued, Claim, Fired, CommitReplays, CommitRefused,
              EnqueueSpeech, Crash, Restart, Tick, outcome, vars
<1> DEFINE t == pass[w].claim
<1>4. Permitted(t) /\ \A s \in Request \ {t} : turns'[s] = turns[s]
  BY <1>1, <1>3 DEF Commit
<1> HIDE DEF t
<1>5. r = t
  BY <1>1, <1>4
<1> QED BY <1>4, <1>5

\* A reminder is delivered only while its project and its devices are active,
\* whatever was true when it was claimed, and a settled one stays settled.
THEOREM PermittedOnly == Spec => DeliveryIsPermitted
<1> DEFINE Fine(r) == /\ turns'[r] > turns[r] => DevicesOf[r] \cup {ProjectOf[r]} \subseteq active
                      /\ schedule[r].state \in {"FIRED", "CANCELLED"} => schedule'[r] = schedule[r]
<1>1. ASSUME IInv, [Next]_vars PROVE \A r \in Request : Fine(r)
  BY <1>1, Settled, OnlyCommitDelivers DEF Permitted
<1>2. IInv /\ [Next]_vars => [\A r \in Request : Fine(r)]_vars
  BY <1>1
<1> QED BY <1>2, Invariance, PTL DEF Spec, DeliveryIsPermitted

=============================================================================
