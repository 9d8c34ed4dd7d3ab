------------------------- MODULE TurnProtocolProofs -------------------------
(***************************************************************************)
(* Theorems about TurnProtocol for any number of turns, sessions and       *)
(* workers and any attempt limits: first what a turn's row and jobs say of *)
(* each other (Fine), and with it that its jobs are those of JobContract;  *)
(* then the FINAL versions, the state and the acknowledgements of a turn,  *)
(* for which only the attempt in charge of a job commits and a stage has   *)
(* no job before the stage before it has brought the turn to it; and last  *)
(* the order of a user's turns.                                            *)
(***************************************************************************)
EXTENDS TurnProtocol, TLAPS, FiniteSetTheorems, SequenceTheorems

Kind == {"ROUTED"} \cup Finals
Rows == [status: {"NONE", "QUEUED", "IN_PROGRESS", "LAPSED", "SUBMITTED", "FAILED"},
         token: Nat, bound: BOOLEAN]
Claimed == [turn: Turn, stage: Stage, token: Nat, step: Steps, seen: Nat]

\* What appending one event to a turn does to what is read from its events.
LEMMA Appended ==
  ASSUME TypeOK, NEW t \in Turn, NEW kind \in Kind, events' = Inserted(t, kind)
  PROVE  /\ events' \in [Turn -> Seq(Kind)]
         /\ \A u \in Turn \ {t} : events'[u] = events[u]
         /\ Len(events'[t]) = Len(events[t]) + 1 /\ Len(events[t]) \in Nat
         /\ DOMAIN events[t] = 1 .. Len(events[t])
         /\ DOMAIN events'[t] = 1 .. Len(events[t]) + 1
         /\ events'[t] # <<>>
         /\ \A i \in 1 .. Len(events[t]) : events'[t][i] = events[t][i]
         /\ events'[t][Len(events[t]) + 1] = kind
         /\ events'[t] = Append(events[t], kind)
<1>1. events \in [Turn -> Seq(Kind)] /\ events[t] \in Seq(Kind)
  BY DEF TypeOK, Kind
<1>2. events' = [events EXCEPT ![t] = Append(events[t], kind)]
  BY DEF Inserted
<1>3. Append(events[t], kind) \in Seq(Kind)
  BY <1>1, AppendProperties
<1>4. events' \in [Turn -> Seq(Kind)] /\ events'[t] = Append(events[t], kind)
  BY <1>1, <1>2, <1>3
<1>5. /\ Len(events[t]) \in Nat /\ DOMAIN events[t] = 1 .. Len(events[t])
      /\ DOMAIN events'[t] = 1 .. Len(events'[t])
  BY <1>1, <1>4, LenProperties
<1>6. /\ events'[t] # <<>> /\ Len(events'[t]) = Len(events[t]) + 1
      /\ \A i \in 1 .. Len(events[t]) : events'[t][i] = events[t][i]
      /\ events'[t][Len(events[t]) + 1] = kind
  BY <1>1, <1>4, AppendProperties
<1> QED BY <1>1, <1>2, <1>4, <1>5, <1>6

LEMMA InitType == Init => TypeOK
<1> SUFFICES ASSUME Init PROVE TypeOK
  OBVIOUS
<1>1. <<>> \in Seq({"ROUTED"} \cup Finals)
  BY EmptySeq
<1>2. \A t \in Turn, s \in Stage : job[t][s] = NoJob
  BY DEF Init
<1>3. \A s \in Stage : 0 <= JobAttempts[s]
  BY Attempts
<1> QED BY <1>1, <1>2, <1>3 DEF Init, TypeOK, TurnStates, AsrOutcomes, Phases, NoJob, Idle

-----------------------------------------------------------------------------
(* Types.                                                                  *)

JobsTyped(jobs) ==
  /\ jobs \in [Stage -> [phase: Phases, current: Nat, last: Nat]]
  /\ \A s \in Stage : jobs[s].current <= jobs[s].last /\ jobs[s].last <= JobAttempts[s]

LEMMA OpenedType ==
  ASSUME NEW jobs, NEW s \in Stage, JobsTyped(jobs)
  PROVE  JobsTyped(Opened(jobs, s))
BY DEF JobsTyped, Opened, Phases

\* The rows a step may change, with the types they keep.
LEMMA ProtocolFinalType ==
  ASSUME TypeOK, NEW t \in Turn, NEW kind \in Finals, NEW withGrace \in BOOLEAN,
         ProtocolFinal(t, kind, withGrace), UNCHANGED acked
  PROVE  /\ state' \in [Turn -> TurnStates]
         /\ events' \in [Turn -> Seq({"ROUTED"} \cup Finals)]
         /\ \A u \in Turn : acked'[u] \subseteq DOMAIN events'[u]
         /\ grace' \in [Turn -> {"NONE", "RUNNING", "ELAPSED"}]
<1>1. kind \in Kind /\ events' = Inserted(t, kind)
  BY DEF ProtocolFinal, Kind
<1>2. events' \in [Turn -> Seq({"ROUTED"} \cup Finals)]
  BY <1>1, Appended DEF Kind
<1>3. \A u \in Turn : acked'[u] \subseteq DOMAIN events'[u]
  <2> TAKE u \in Turn
  <2>1. acked[u] \subseteq DOMAIN events[u] /\ acked'[u] = acked[u]
    BY DEF TypeOK
  <2>2. CASE u = t
    BY <2>1, <2>2, <1>1, Appended
  <2>3. CASE u # t
    BY <2>1, <2>3, <1>1, Appended
  <2> QED BY <2>2, <2>3
<1>4. state' \in [Turn -> TurnStates] /\ grace' \in [Turn -> {"NONE", "RUNNING", "ELAPSED"}]
  BY DEF ProtocolFinal, TypeOK, TurnStates
<1> QED BY <1>2, <1>3, <1>4

\* job stays typed when one turn's jobs do.
LEMMA JobType ==
  ASSUME TypeOK, NEW t \in Turn, NEW jobs, JobsTyped(jobs), job' = [job EXCEPT ![t] = jobs]
  PROVE  /\ job' \in [Turn -> [Stage -> [phase: Phases, current: Nat, last: Nat]]]
         /\ \A u \in Turn, s \in Stage : job'[u][s].current <= job'[u][s].last
                                         /\ job'[u][s].last <= JobAttempts[s]
BY DEF TypeOK, JobsTyped

LEMMA TurnJobsTyped == ASSUME TypeOK, NEW t \in Turn PROVE JobsTyped(job[t])
BY DEF TypeOK, JobsTyped

LEMMA FailForType ==
  ASSUME TypeOK, NEW t \in Turn, NEW s \in Stage, FailFor(t, s), UNCHANGED <<seq, acked>>,
         running' \in [Worker -> {Idle} \cup Claimed]
  PROVE  TypeOK'
<1> DEFINE jobs == [job[t] EXCEPT ![s].phase = "FAILED", ![s].current = 0]
<1>1. JobsTyped(jobs) /\ JobsTyped(Opened(jobs, "history"))
  <2>1. JobsTyped(job[t])
    BY TurnJobsTyped
  <2>2. JobsTyped(jobs)
    BY <2>1 DEF JobsTyped, Phases
  <2> QED BY <2>2, OpenedType DEF Stage
<1>2. \/ job' = [job EXCEPT ![t] = jobs]
      \/ job' = [job EXCEPT ![t] = Opened(jobs, "history")]
  BY DEF FailFor, Project
<1>3. /\ job' \in [Turn -> [Stage -> [phase: Phases, current: Nat, last: Nat]]]
      /\ \A u \in Turn, r \in Stage : job'[u][r].current <= job'[u][r].last
                                      /\ job'[u][r].last <= JobAttempts[r]
  <2> HIDE DEF jobs
  <2> QED BY <1>1, <1>2, JobType
<1>4. /\ seq' = seq /\ acked' = acked
      /\ asr' \in [Turn -> [generation: Nat, outcome: AsrOutcomes]]
      /\ router' \in [Turn -> {"NONE", "QUEUED", "IN_PROGRESS", "LAPSED", "DONE", "FAILED"}]
      /\ ingress' \in [Turn -> [status: {"NONE", "QUEUED", "IN_PROGRESS", "LAPSED", "SUBMITTED", "FAILED"},
                                token: Nat, bound: BOOLEAN]]
  <2>1. asr' = asr \/ asr' = [asr EXCEPT ![t].outcome = "PROVIDER_ERROR"]
    BY DEF FailFor, Project
  <2>2. router' = router \/ router' = [router EXCEPT ![t] = "FAILED"]
    BY DEF FailFor, Project
  <2>3. ingress' = ingress \/ ingress' = [ingress EXCEPT ![t].status = "FAILED"]
    BY DEF FailFor, Project
  <2>4. asr' \in [Turn -> [generation: Nat, outcome: AsrOutcomes]]
    <3>1. asr \in [Turn -> [generation: Nat, outcome: AsrOutcomes]]
      BY DEF TypeOK
    <3>2. [asr EXCEPT ![t].outcome = "PROVIDER_ERROR"] \in [Turn -> [generation: Nat, outcome: AsrOutcomes]]
      BY <3>1 DEF AsrOutcomes
    <3> QED BY <2>1, <3>1, <3>2
  <2>5. router' \in [Turn -> {"NONE", "QUEUED", "IN_PROGRESS", "LAPSED", "DONE", "FAILED"}]
    BY <2>2 DEF TypeOK
  <2>6. ingress' \in [Turn -> Rows]
    <3>1. ingress \in [Turn -> Rows]
      BY DEF TypeOK, Rows
    <3>2. [ingress EXCEPT ![t].status = "FAILED"] \in [Turn -> Rows]
      BY <3>1 DEF Rows
    <3> QED BY <2>3, <3>1, <3>2
  <2> QED BY <2>4, <2>5, <2>6 DEF Rows
<1>5. /\ state' \in [Turn -> TurnStates]
      /\ events' \in [Turn -> Seq({"ROUTED"} \cup Finals)]
      /\ \A u \in Turn : acked'[u] \subseteq DOMAIN events'[u]
      /\ grace' \in [Turn -> {"NONE", "RUNNING", "ELAPSED"}]
  <2>1. CASE UNCHANGED <<state, events, grace>>
    BY <1>4, <2>1 DEF TypeOK
  <2>2. CASE \E kind \in Finals, withGrace \in BOOLEAN : ProtocolFinal(t, kind, withGrace)
    BY <1>4, <2>2, ProtocolFinalType
  <2>3. {"hermes", "asr", "routing"} \subseteq Finals
    BY DEF Finals, ScheduleFinals
  <2> QED BY <2>1, <2>2, <2>3 DEF FailFor, Project
<1> HIDE DEF jobs
<1> QED BY <1>3, <1>4, <1>5 DEF TypeOK, Claimed

\* A worker's memory stays typed.
LEMMA MemoryType ==
  ASSUME TypeOK, NEW w \in Worker
  PROVE  /\ running[w] # Idle => running[w] \in Claimed
         /\ \A s, step : \A t \in Turn : At(w, t, s, step) => running[w] \in Claimed
         /\ running[w].step # "idle" => running[w] \in Claimed
         /\ running[w].turn \in Turn => running[w] \in Claimed
BY Nulls DEF TypeOK, Claimed, Idle, At

LEMMA GoToType ==
  ASSUME TypeOK, NEW w \in Worker, running[w] \in Claimed, NEW step \in Steps,
         \/ GoTo(w, step)
         \/ \E n \in Nat : Remember(w, step, n)
         \/ running' = [running EXCEPT ![w] = Idle]
  PROVE  running' \in [Worker -> {Idle} \cup Claimed]
<1>1. running \in [Worker -> {Idle} \cup Claimed]
  BY DEF TypeOK, Claimed
<1>2. [running[w] EXCEPT !.step = step] \in Claimed
  BY DEF Claimed
<1>3. \A n \in Nat : [running[w] EXCEPT !.step = step, !.seen = n] \in Claimed
  BY DEF Claimed
<1>4. CASE GoTo(w, step)
  BY <1>1, <1>2, <1>4 DEF GoTo
<1>5. CASE \E n \in Nat : Remember(w, step, n)
  BY <1>1, <1>3, <1>5 DEF Remember
<1> QED BY <1>1, <1>4, <1>5

LEMMA AcceptTurnType == ASSUME TypeOK, NEW t \in Turn, AcceptTurn(t) PROVE TypeOK'
<1>1. IsFiniteSet({u \in Turn : seq[u] # 0})
  BY TurnSets, FS_Subset
<1>2. 1 + Cardinality({u \in Turn : seq[u] # 0}) \in Nat
  BY <1>1, FS_CardinalityType
<1>3. JobsTyped(Opened(job[t], FirstStage(t)))
  BY TurnJobsTyped, OpenedType DEF FirstStage, Stage
<1>4. job' = [job EXCEPT ![t] = Opened(job[t], FirstStage(t))]
  BY DEF AcceptTurn, TypeOK
<1> QED BY <1>2, <1>3, <1>4, JobType DEF TypeOK, AcceptTurn, TurnStates

LEMMA ClaimJobType ==
  ASSUME TypeOK, NEW t \in Turn, NEW s \in Stage, NEW w \in Worker, ClaimJob(w, t, s) PROVE TypeOK'
<1> DEFINE n == job[t][s].last + 1
           jobs == [job[t] EXCEPT ![s].current = n, ![s].last = n]
<1>1. JobsTyped(job[t]) /\ JobAttempts[s] \in Nat
  BY TurnJobsTyped, Attempts
<1>2. job[t][s].last < JobAttempts[s]
  BY DEF ClaimJob
<1>3. JobsTyped(jobs)
  BY <1>1, <1>2 DEF JobsTyped
<1>4. job' = [job EXCEPT ![t] = jobs]
  BY DEF ClaimJob, TypeOK
<1>5. n \in Nat
  BY <1>1 DEF JobsTyped
<1>6. running' \in [Worker -> {Idle} \cup Claimed]
  BY <1>5 DEF ClaimJob, TypeOK, Claimed, Steps
<1> HIDE DEF jobs
<1> QED BY <1>3, <1>4, <1>6, JobType DEF TypeOK, ClaimJob, queues, Claimed

LEMMA CompleteType == ASSUME TypeOK, NEW w \in Worker, Complete(w) PROVE TypeOK'
<1> DEFINE t == running[w].turn
           s == running[w].stage
           jobs == [job[t] EXCEPT ![s].phase = "SUCCEEDED", ![s].current = 0]
<1>1. running[w] \in Claimed
  BY MemoryType DEF Complete
<1>2. t \in Turn /\ s \in Stage
  BY <1>1 DEF Claimed
<1>3. JobsTyped(jobs)
  <2>1. JobsTyped(job[t])
    BY <1>2, TurnJobsTyped
  <2>2. PICK some : some = [job[t][s] EXCEPT !.phase = "SUCCEEDED", !.current = 0]
    OBVIOUS
  <2>3. some \in [phase: Phases, current: Nat, last: Nat] /\ some.current = 0 /\ some.last = job[t][s].last
    BY <1>2, <2>1, <2>2 DEF JobsTyped, Phases
  <2>4. jobs = [job[t] EXCEPT ![s] = some]
    BY <2>2
  <2> HIDE DEF jobs, t, s
  <2> QED BY <1>2, <2>1, <2>3, <2>4 DEF JobsTyped
<1>4. job' = job \/ job' = [job EXCEPT ![t] = jobs]
  BY <1>2 DEF Complete, TypeOK
<1>5. running' \in [Worker -> {Idle} \cup Claimed]
  BY DEF Complete, TypeOK, Claimed
<1>6. /\ job' \in [Turn -> [Stage -> [phase: Phases, current: Nat, last: Nat]]]
      /\ \A u \in Turn, r \in Stage : job'[u][r].current <= job'[u][r].last
                                      /\ job'[u][r].last <= JobAttempts[r]
  <2> HIDE DEF jobs, t
  <2> QED BY <1>2, <1>3, <1>4, JobType DEF TypeOK
<1> QED BY <1>5, <1>6 DEF TypeOK, Complete, queues, Claimed

LEMMA FailType == ASSUME TypeOK, NEW w \in Worker, Fail(w) PROVE TypeOK'
<1> DEFINE t == running[w].turn
           s == running[w].stage
           jobs == [job[t] EXCEPT ![s].current = 0]
<1>1. running[w] \in Claimed
  BY MemoryType DEF Fail
<1>2. t \in Turn /\ s \in Stage
  BY <1>1 DEF Claimed
<1>3. running' \in [Worker -> {Idle} \cup Claimed] /\ UNCHANGED <<seq, acked>>
  BY DEF Fail, TypeOK, Claimed
<1>4. CASE FailFor(t, s)
  BY <1>2, <1>3, <1>4, FailForType
<1>5. CASE ~FailFor(t, s)
  <2>1. JobsTyped(jobs)
    BY <1>2, TurnJobsTyped DEF JobsTyped
  <2>2. job' = job \/ job' = [job EXCEPT ![t] = jobs]
    BY <1>2, <1>5 DEF Fail, TypeOK
  <2>3. /\ job' \in [Turn -> [Stage -> [phase: Phases, current: Nat, last: Nat]]]
        /\ \A u \in Turn, r \in Stage : job'[u][r].current <= job'[u][r].last
                                        /\ job'[u][r].last <= JobAttempts[r]
    <3> HIDE DEF jobs, t
    <3> QED BY <1>2, <2>1, <2>2, JobType DEF TypeOK
  <2>4. UNCHANGED <<state, asr, router, ingress, events, grace>>
    BY <1>5 DEF Fail
  <2> QED BY <1>3, <2>3, <2>4 DEF TypeOK, Claimed
<1> QED BY <1>4, <1>5

\* What a step writes into an ingress row.
LEMMA IngressType ==
  ASSUME TypeOK, NEW t \in Turn
  PROVE  /\ ingress \in [Turn -> Rows]
         /\ [ingress EXCEPT ![t].status = "QUEUED"] \in [Turn -> Rows]
         /\ [ingress EXCEPT ![t].status = "LAPSED"] \in [Turn -> Rows]
         /\ [ingress EXCEPT ![t].status = "SUBMITTED"] \in [Turn -> Rows]
         /\ [ingress EXCEPT ![t].status = "FAILED"] \in [Turn -> Rows]
         /\ [ingress EXCEPT ![t].status = "IN_PROGRESS", ![t].token = @ + 1] \in [Turn -> Rows]
         /\ [ingress EXCEPT ![t].bound = TRUE] \in [Turn -> Rows]
<1>1. ingress \in [Turn -> Rows]
  BY DEF TypeOK, Rows
<1>2. ASSUME NEW status \in {"QUEUED", "LAPSED", "SUBMITTED", "FAILED"}
      PROVE  [ingress EXCEPT ![t].status = status] \in [Turn -> Rows]
  BY <1>1 DEF Rows
<1>3. [ingress EXCEPT ![t].status = "IN_PROGRESS", ![t].token = @ + 1] \in [Turn -> Rows]
  <2>1. ingress[t].token + 1 \in Nat
    BY <1>1 DEF Rows
  <2>2. ASSUME NEW n \in Nat
        PROVE  [ingress EXCEPT ![t].status = "IN_PROGRESS", ![t].token = n] \in [Turn -> Rows]
    BY <1>1 DEF Rows
  <2> QED BY <2>1, <2>2
<1>4. [ingress EXCEPT ![t].bound = TRUE] \in [Turn -> Rows]
  BY <1>1 DEF Rows
<1> QED BY <1>1, <1>2, <1>3, <1>4

\* A step of the asr handler.
LEMMA AsrType ==
  ASSUME TypeOK, NEW t \in Turn, NEW w \in Worker,
         \/ AsrRead(w, t) \/ SetAsrStage(w, t) \/ AsrUnavailable(w, t) \/ AsrGiveUp(w, t)
         \/ \E result \in AsrOutcomes \ {"NONE"} : CommitAsrResult(w, t, result)
  PROVE  TypeOK'
<1>1. running[w] \in Claimed
  BY MemoryType DEF AsrRead, SetAsrStage, AsrUnavailable, AsrGiveUp, CommitAsrResult
<1>2. /\ asr \in [Turn -> [generation: Nat, outcome: AsrOutcomes]]
      /\ asr[t].generation \in Nat /\ running[w].seen + 1 \in Nat
  BY <1>1 DEF TypeOK, Claimed
<1>3. CASE AsrRead(w, t)
  <2>1. running' \in [Worker -> {Idle} \cup Claimed]
    BY <1>1, <1>2, <1>3, GoToType DEF AsrRead, Steps
  <2> QED BY <1>3, <2>1 DEF AsrRead, TypeOK, queues, Claimed
<1>4. CASE SetAsrStage(w, t)
  <2>1. running' \in [Worker -> {Idle} \cup Claimed]
    BY <1>1, <1>2, <1>4, GoToType DEF SetAsrStage, Steps
  <2>2. asr' \in [Turn -> [generation: Nat, outcome: AsrOutcomes]]
    BY <1>2, <1>4 DEF SetAsrStage
  <2>3. state' \in [Turn -> TurnStates]
    BY <1>4 DEF SetAsrStage, TypeOK, TurnStates
  <2> QED BY <1>4, <2>1, <2>2, <2>3 DEF SetAsrStage, TypeOK, queues, Claimed
<1>5. CASE AsrUnavailable(w, t)
  <2>1. running' \in [Worker -> {Idle} \cup Claimed]
    BY <1>1, <1>5, GoToType DEF AsrUnavailable, Steps
  <2> QED BY <1>5, <2>1 DEF AsrUnavailable, TypeOK, queues, Claimed
<1>6. CASE AsrGiveUp(w, t)
  <2>1. running' \in [Worker -> {Idle} \cup Claimed]
    BY <1>1, <1>6, GoToType DEF AsrGiveUp, Steps
  <2>2. "asr" \in Finals /\ ProtocolFinal(t, "asr", FALSE) /\ UNCHANGED <<asr, queues, job, acked>>
    BY <1>6 DEF AsrGiveUp, Finals, ScheduleFinals
  <2> QED BY <2>1, <2>2, ProtocolFinalType DEF TypeOK, queues, Claimed
<1>7. ASSUME NEW result \in AsrOutcomes \ {"NONE"}, CommitAsrResult(w, t, result) PROVE TypeOK'
  <2>1. running' \in [Worker -> {Idle} \cup Claimed]
    BY <1>1, <1>7, GoToType DEF CommitAsrResult, Steps
  <2>2. asr' \in [Turn -> [generation: Nat, outcome: AsrOutcomes]]
    BY <1>2, <1>7 DEF CommitAsrResult
  <2>3. UNCHANGED <<seq, ingress, acked>>
    BY <1>7 DEF CommitAsrResult
  <2>4. CASE result = "VALID_TRANSCRIPT"
    <3>1. JobsTyped(Opened(job[t], "route"))
      BY TurnJobsTyped, OpenedType DEF Stage
    <3>2. job' = [job EXCEPT ![t] = Opened(job[t], "route")] /\ UNCHANGED <<router, events, grace>>
      BY <1>7, <2>4 DEF CommitAsrResult, TypeOK
    <3>3. state' = state \/ state' = [state EXCEPT ![t] = "ACCEPTED"]
      BY <1>7, <2>4 DEF CommitAsrResult
    <3>4. state' \in [Turn -> TurnStates]
      BY <3>3 DEF TypeOK, TurnStates
    <3> QED BY <2>1, <2>2, <2>3, <3>1, <3>2, <3>4, JobType DEF TypeOK, Claimed
  <2>5. CASE result # "VALID_TRANSCRIPT"
    <3>1. /\ ProtocolFinal(t, "no_speech", FALSE) \/ ProtocolFinal(t, "asr", FALSE)
          /\ router' = [router EXCEPT ![t] = "DONE"] \/ router' = [router EXCEPT ![t] = "FAILED"]
          /\ UNCHANGED job
      BY <1>7, <2>5 DEF CommitAsrResult
    <3>2. {"no_speech", "asr"} \subseteq Finals
      BY DEF Finals, ScheduleFinals
    <3> QED BY <2>1, <2>2, <2>3, <3>1, <3>2, ProtocolFinalType DEF TypeOK, Claimed
  <2> QED BY <2>4, <2>5
<1> QED BY <1>3, <1>4, <1>5, <1>6, <1>7

\* A step of the route handler.
LEMMA RouteType ==
  ASSUME TypeOK, NEW t \in Turn, NEW w \in Worker,
         \/ ClaimRouter(w, t) \/ CommitRoute(w, t) \/ RouteAnswered(w, t)
         \/ CommitRoutingError(w, t) \/ RouteRefused(w, t)
  PROVE  TypeOK'
<1>1. running[w] \in Claimed
  BY MemoryType DEF ClaimRouter, CommitRoute, RouteAnswered, CommitRoutingError, RouteRefused
<1>2. \E step \in Steps : GoTo(w, step)
  BY DEF ClaimRouter, CommitRoute, RouteAnswered, CommitRoutingError, RouteRefused, Steps
<1>3. running' \in [Worker -> {Idle} \cup Claimed]
  BY <1>1, <1>2, GoToType
<1>4. CASE ClaimRouter(w, t)
  <2> DEFINE rows == [u \in Turn |-> IF router[u] \in RouterBusy /\ Answered(u) THEN "DONE" ELSE router[u]]
  <2>1. rows \in [Turn -> {"NONE", "QUEUED", "IN_PROGRESS", "LAPSED", "DONE", "FAILED"}]
    BY DEF TypeOK
  <2>2. router' = rows \/ router' = [rows EXCEPT ![t] = "IN_PROGRESS"]
    BY <1>4 DEF ClaimRouter
  <2>3. router' \in [Turn -> {"NONE", "QUEUED", "IN_PROGRESS", "LAPSED", "DONE", "FAILED"}]
    BY <2>1, <2>2
  <2> QED BY <1>3, <1>4, <2>3 DEF ClaimRouter, TypeOK, Claimed
<1>5. CASE CommitRoute(w, t)
  <2>1. events' = Inserted(t, "ROUTED") /\ "ROUTED" \in Kind
    BY <1>5 DEF CommitRoute, Kind
  <2>2. ingress' \in [Turn -> Rows]
    BY <1>5, IngressType DEF CommitRoute
  <2>3. job' = [job EXCEPT ![t] = Opened(job[t], "hermes")] /\ JobsTyped(Opened(job[t], "hermes"))
    BY <1>5, TurnJobsTyped, OpenedType DEF CommitRoute, TypeOK, Stage
  <2>4. \A u \in Turn : acked'[u] \subseteq DOMAIN events'[u]
    <3> TAKE u \in Turn
    <3>1. acked[u] \subseteq DOMAIN events[u] /\ acked'[u] = acked[u]
      BY <1>5 DEF TypeOK, CommitRoute
    <3>2. CASE u = t
      BY <3>1, <3>2, <2>1, Appended
    <3>3. CASE u # t
      BY <3>1, <3>3, <2>1, Appended
    <3> QED BY <3>2, <3>3
  <2>5. events' \in [Turn -> Seq({"ROUTED"} \cup Finals)]
    BY <2>1, Appended DEF Kind
  <2>6. /\ state' \in [Turn -> TurnStates]
        /\ router' \in [Turn -> {"NONE", "QUEUED", "IN_PROGRESS", "LAPSED", "DONE", "FAILED"}]
    BY <1>5 DEF CommitRoute, TypeOK, TurnStates
  <2>7. UNCHANGED <<asr, seq, acked, grace>>
    BY <1>5 DEF CommitRoute
  <2> QED BY <1>3, <2>2, <2>3, <2>4, <2>5, <2>6, <2>7, JobType DEF TypeOK, Rows, Claimed
<1>6. CASE CommitRoutingError(w, t)
  <2>1. /\ "routing" \in Finals /\ ProtocolFinal(t, "routing", FALSE) /\ UNCHANGED <<asr, seq, ingress, job, acked>>
        /\ router' = [router EXCEPT ![t] = "FAILED"]
    BY <1>6 DEF CommitRoutingError, Finals, ScheduleFinals
  <2> QED BY <1>3, <2>1, ProtocolFinalType DEF TypeOK, Claimed
<1>7. CASE RouteRefused(w, t)
  BY <1>3, <1>7 DEF RouteRefused, TypeOK, queues, Claimed
<1>8. CASE RouteAnswered(w, t)
  BY <1>3, <1>8 DEF RouteAnswered, TypeOK, Claimed
<1> QED BY <1>4, <1>5, <1>6, <1>7, <1>8

LEMMA HermesResultType ==
  ASSUME TypeOK, NEW t \in Turn, HermesResult(t), UNCHANGED <<asr, seq, router, job, acked>>,
         running' \in [Worker -> {Idle} \cup Claimed]
  PROVE  TypeOK'
<1>1. ProtocolFinal(t, "success", FALSE) /\ "success" \in Finals
  BY DEF HermesResult, ProtocolFinal, Finals, ScheduleFinals
<1>2. ingress' \in [Turn -> Rows]
  BY IngressType DEF HermesResult
<1> QED BY <1>1, <1>2, ProtocolFinalType DEF TypeOK, Rows, Claimed

\* A step of the hermes handler.
LEMMA HermesType ==
  ASSUME TypeOK, NEW t \in Turn, NEW w \in Worker,
         \/ ClaimIngress(w, t) \/ BindRun(w, t) \/ CommitHermesResult(w, t)
         \/ \E withGrace \in BOOLEAN : CommitHermesError(w, t, withGrace)
         \/ ReleaseIngress(w, t) \/ HermesPending(w, t)
  PROVE  TypeOK'
<1>1. running[w] \in Claimed
  BY MemoryType DEF ClaimIngress, BindRun, CommitHermesResult, CommitHermesError, HermesFailed,
                    ReleaseIngress, HermesPending
<1>2. ingress[t].token + 1 \in Nat
  BY DEF TypeOK
<1>3. running' \in [Worker -> {Idle} \cup Claimed]
  <2>1. \/ \E step \in Steps : GoTo(w, step)
        \/ Remember(w, "submit", ingress[t].token + 1)
    BY DEF ClaimIngress, BindRun, CommitHermesResult, CommitHermesError, ReleaseIngress, HermesPending, Steps
  <2>2. "submit" \in Steps
    BY DEF Steps
  <2> QED BY <1>1, <1>2, <2>1, <2>2, GoToType
<1>4. CASE ClaimIngress(w, t) \/ BindRun(w, t) \/ ReleaseIngress(w, t)
  <2>1. ingress' \in [Turn -> Rows]
    <3>1. CASE ClaimIngress(w, t)
      <4>1. \/ ingress' = ingress
            \/ ingress' = [ingress EXCEPT ![t].status = "IN_PROGRESS", ![t].token = @ + 1]
        BY <3>1 DEF ClaimIngress
      <4> QED BY <4>1, IngressType
    <3>2. CASE BindRun(w, t)
      <4>1. ingress' = [ingress EXCEPT ![t].bound = TRUE]
        BY <3>2 DEF BindRun
      <4> QED BY <4>1, IngressType
    <3>3. CASE ReleaseIngress(w, t)
      <4>1. ingress' = ingress \/ ingress' = [ingress EXCEPT ![t].status = "QUEUED"]
        BY <3>3 DEF ReleaseIngress
      <4>2. ingress \in [Turn -> Rows] /\ [ingress EXCEPT ![t].status = "QUEUED"] \in [Turn -> Rows]
        BY IngressType
      <4> QED BY <4>1, <4>2
    <3> QED BY <1>4, <3>1, <3>2, <3>3
  <2>2. UNCHANGED <<state, asr, seq, router, job, events, acked, grace>>
    BY <1>4 DEF ClaimIngress, BindRun, ReleaseIngress
  <2> QED BY <1>3, <2>1, <2>2 DEF TypeOK, Rows, Claimed
<1>5. CASE CommitHermesResult(w, t)
  <2>1. HermesResult(t) /\ UNCHANGED <<asr, seq, router, job, acked>>
    BY <1>5 DEF CommitHermesResult
  <2> QED BY <1>3, <2>1, HermesResultType
<1>6. ASSUME NEW withGrace \in BOOLEAN, CommitHermesError(w, t, withGrace) PROVE TypeOK'
  <2>1. /\ "hermes" \in Finals /\ ProtocolFinal(t, "hermes", withGrace) /\ UNCHANGED <<asr, seq, router, acked>>
        /\ ingress' = [ingress EXCEPT ![t].status = "FAILED"]
        /\ job' = job \/ job' = [job EXCEPT ![t] = Opened(job[t], "history")]
    BY <1>6 DEF CommitHermesError, Finals, ScheduleFinals, TypeOK
  <2>2. JobsTyped(Opened(job[t], "history"))
    BY TurnJobsTyped, OpenedType DEF Stage
  <2>3. ingress' \in [Turn -> Rows]
    BY <2>1, IngressType
  <2>4. /\ job' \in [Turn -> [Stage -> [phase: Phases, current: Nat, last: Nat]]]
        /\ \A u \in Turn, r \in Stage : job'[u][r].current <= job'[u][r].last
                                        /\ job'[u][r].last <= JobAttempts[r]
    BY <2>1, <2>2, JobType DEF TypeOK
  <2>5. /\ state' \in [Turn -> TurnStates]
        /\ events' \in [Turn -> Seq({"ROUTED"} \cup Finals)]
        /\ \A u \in Turn : acked'[u] \subseteq DOMAIN events'[u]
        /\ grace' \in [Turn -> {"NONE", "RUNNING", "ELAPSED"}]
    BY <2>1, ProtocolFinalType
  <2> QED BY <1>3, <2>1, <2>3, <2>4, <2>5 DEF TypeOK, Rows, Claimed
<1>7. CASE HermesPending(w, t)
  BY <1>3, <1>7 DEF HermesPending, queues, TypeOK, Claimed
<1> QED BY <1>4, <1>5, <1>6, <1>7

\* A step of the history handler.
LEMMA HistoryType ==
  ASSUME TypeOK, NEW t \in Turn, NEW w \in Worker,
         HistoryRead(w, t) \/ HistoryNothing(w, t) \/ HistoryAnswer(w, t) \/ LateResultIgnored(w, t)
  PROVE  TypeOK'
<1>1. running[w] \in Claimed
  BY MemoryType DEF HistoryRead, HistoryNothing, HistoryAnswer, LateResultIgnored
<1>2. \E step \in Steps : GoTo(w, step)
  BY DEF HistoryRead, HistoryNothing, HistoryAnswer, LateResultIgnored, Steps
<1>3. running' \in [Worker -> {Idle} \cup Claimed]
  BY <1>1, <1>2, GoToType
<1>4. CASE HistoryAnswer(w, t)
  <2>1. HermesResult(t) /\ UNCHANGED <<asr, seq, router, job, acked>>
    BY <1>4 DEF HistoryAnswer
  <2> QED BY <1>3, <2>1, HermesResultType
<1>5. CASE HistoryRead(w, t) \/ HistoryNothing(w, t) \/ LateResultIgnored(w, t)
  BY <1>3, <1>5 DEF HistoryRead, HistoryNothing, LateResultIgnored, queues, TypeOK, Claimed
<1> QED BY <1>4, <1>5

\* A handler that finds its error ignored has only its own step to change.
LEMMA IgnoredClaimed ==
  ASSUME TypeOK, NEW t \in Turn, NEW w \in Worker, ErrorIgnored(w, t)
  PROVE  running[w] \in Claimed /\ running[w].turn = t
BY MemoryType DEF ErrorIgnored, HermesFailed, At

LEMMA IgnoredType ==
  ASSUME TypeOK, NEW t \in Turn, NEW w \in Worker, ErrorIgnored(w, t) PROVE TypeOK'
<1>1. running[w] \in Claimed /\ GoTo(w, "done") /\ "done" \in Steps
  BY IgnoredClaimed DEF ErrorIgnored, Steps
<1>2. running' \in [Worker -> {Idle} \cup Claimed]
  BY <1>1, GoToType
<1> QED BY <1>2 DEF ErrorIgnored, TypeOK, queues, Claimed

LEMMA ScheduleFinalType ==
  ASSUME TypeOK, NEW t \in Turn, NEW kind \in ScheduleFinals, ScheduleFinal(t, kind) PROVE TypeOK'
<1>1. /\ kind \in Finals /\ ProtocolFinal(t, kind, FALSE)
      /\ UNCHANGED <<asr, queues, job, acked, running>>
  BY DEF ScheduleFinal, Finals, ScheduleFinals
<1> QED BY <1>1, ProtocolFinalType DEF TypeOK, queues, Claimed

LEMMA RecoverType == ASSUME TypeOK, Recover PROVE TypeOK'
<1>1. state' \in [Turn -> TurnStates]
  BY DEF Recover, TypeOK, TurnStates
<1>2. router' \in [Turn -> {"NONE", "QUEUED", "IN_PROGRESS", "LAPSED", "DONE", "FAILED"}]
  BY DEF Recover, TypeOK
<1>3. ingress' \in [Turn -> Rows]
  <2>1. \A t \in Turn : ingress[t] \in Rows
    BY DEF TypeOK, Rows
  <2>2. \A t \in Turn : [ingress[t] EXCEPT !.status = "QUEUED"] \in Rows
    BY <2>1 DEF Rows
  <2> QED BY <2>1, <2>2 DEF Recover
<1>4. \A t \in Turn : JobsTyped(job'[t])
  <2> TAKE t \in Turn
  <2>1. JobsTyped(job[t]) /\ FirstStage(t) \in Stage
    BY TurnJobsTyped DEF FirstStage, Stage
  <2>2. job'[t] = job[t] \/ job'[t] = Opened(job[t], FirstStage(t))
    BY DEF Recover
  <2> QED BY <2>1, <2>2, OpenedType
<1>5. /\ job' \in [Turn -> [Stage -> [phase: Phases, current: Nat, last: Nat]]]
      /\ \A u \in Turn, r \in Stage : job'[u][r].current <= job'[u][r].last
                                      /\ job'[u][r].last <= JobAttempts[r]
  <2>1. DOMAIN job' = Turn /\ job' = [t \in Turn |-> job'[t]]
    BY DEF Recover
  <2> QED BY <1>4, <2>1 DEF JobsTyped
<1> QED BY <1>1, <1>2, <1>3, <1>5 DEF Recover, TypeOK, Rows, Claimed

LEMMA TimeAndDeviceType ==
  ASSUME TypeOK, NEW t \in Turn,
         LeaseRunsOut(t) \/ GraceRunsOut(t) \/ \E i \in DOMAIN events[t] : AckEvent(t, i)
  PROVE  TypeOK'
<1>1. CASE LeaseRunsOut(t)
  <2>1. ingress' \in [Turn -> Rows]
    <3>1. ingress' = ingress \/ ingress' = [ingress EXCEPT ![t].status = "LAPSED"]
      BY <1>1 DEF LeaseRunsOut
    <3>2. ingress \in [Turn -> Rows] /\ [ingress EXCEPT ![t].status = "LAPSED"] \in [Turn -> Rows]
      BY IngressType
    <3> QED BY <3>1, <3>2
  <2>2. router' \in [Turn -> {"NONE", "QUEUED", "IN_PROGRESS", "LAPSED", "DONE", "FAILED"}]
    BY <1>1 DEF LeaseRunsOut, TypeOK
  <2> QED BY <1>1, <2>1, <2>2 DEF LeaseRunsOut, TypeOK, Rows
<1>2. CASE GraceRunsOut(t)
  BY <1>2 DEF GraceRunsOut, TypeOK, queues
<1>3. ASSUME NEW i \in DOMAIN events[t], AckEvent(t, i) PROVE TypeOK'
  <2>1. \A u \in Turn : acked'[u] \subseteq DOMAIN events'[u]
    BY <1>3 DEF AckEvent, TypeOK
  <2>2. state' \in [Turn -> TurnStates]
    <3>1. \/ state' = state
          \/ \E new \in {"DELIVERED", "FAILED_PERMANENT", "LATE_RESULT_GRACE"} : state' = [state EXCEPT ![t] = new]
      BY <1>3 DEF AckEvent
    <3> QED BY <3>1 DEF TypeOK, TurnStates
  <2>3. acked' \in [Turn -> SUBSET Nat]
    <3>1. i \in Nat /\ acked \in [Turn -> SUBSET Nat]
      BY <1>3 DEF TypeOK
    <3>2. acked' = [acked EXCEPT ![t] = acked[t] \cup {i}] /\ acked[t] \cup {i} \in SUBSET Nat
      BY <1>3, <3>1 DEF AckEvent
    <3> QED BY <3>1, <3>2
  <2>4. UNCHANGED <<seq, asr, router, ingress, job, events, grace, running>>
    BY <1>3 DEF AckEvent, queues
  <2> QED BY <2>1, <2>2, <2>3, <2>4 DEF TypeOK
<1> QED BY <1>1, <1>2, <1>3

LEMMA NextType == TypeOK /\ [Next]_vars => TypeOK'
<1> SUFFICES ASSUME TypeOK, [Next]_vars PROVE TypeOK'
  OBVIOUS
<1>1. CASE UNCHANGED vars
  BY <1>1 DEF vars, queues, TypeOK
<1>2. ASSUME NEW t \in Turn, AcceptTurn(t) PROVE TypeOK'
  BY <1>2, AcceptTurnType
<1>3. ASSUME NEW t \in Turn, NEW s \in Stage, JobExpires(t, s) PROVE TypeOK'
  <2>1. running' \in [Worker -> {Idle} \cup Claimed]
    BY <1>3 DEF JobExpires, TypeOK, Claimed
  <2> QED BY <1>3, <2>1, FailForType DEF JobExpires
<1>4. ASSUME NEW t \in Turn, NEW s \in Stage, NEW w \in Worker, ClaimJob(w, t, s) PROVE TypeOK'
  BY <1>4, ClaimJobType
<1>5. ASSUME NEW t \in Turn, NEW w \in Worker, Handler(w, t) PROVE TypeOK'
  BY <1>5, AsrType, RouteType, HermesType, HistoryType, IgnoredType DEF Handler
<1>6. ASSUME NEW w \in Worker, Complete(w) \/ Fail(w) PROVE TypeOK'
  BY <1>6, CompleteType, FailType
<1>7. ASSUME NEW w \in Worker, Vanish(w) PROVE TypeOK'
  BY <1>7 DEF Vanish, TypeOK, queues
<1>8. ASSUME NEW t \in Turn, NEW kind \in ScheduleFinals, ScheduleFinal(t, kind) PROVE TypeOK'
  BY <1>8, ScheduleFinalType
<1> QED BY <1>1, <1>2, <1>3, <1>4, <1>5, <1>6, <1>7, <1>8, RecoverType, TimeAndDeviceType DEF Next

\* The rows and the workers' memory keep their types.
THEOREM TypeCorrect == Spec => []TypeOK
BY InitType, NextType, PTL DEF Spec

-----------------------------------------------------------------------------
(* What a turn's rows and a worker's memory say of each other.             *)

\* The state column follows the events: nothing yet, routed, answered.
StateTells(t) ==
  /\ state[t] \in {"RECEIVING", "ACCEPTED", "PREPROCESSING"} => events[t] = <<>>
  /\ state[t] = "HERMES_PENDING" => events[t] = <<"ROUTED">>
  /\ state[t] \in {"FINAL_READY", "LATE_RESULT_GRACE"} \cup TERMINAL_TURN_STATES => Answered(t)

\* A transcription that failed, or heard nothing, has answered the turn.
AsrTells(t) == asr[t].outcome \in {"NO_SPEECH", "PROVIDER_ERROR"} => Answered(t)

\* The jobs a turn has had: none before acceptance, no route job before the
\* transcript, no hermes or history job before the route.
JobsTell(t) ==
  /\ state[t] = "RECEIVING" => \A s \in Stage : job[t][s].phase = "ABSENT"
  /\ t \in Voice /\ asr[t].outcome = "NONE" => job[t]["route"].phase = "ABSENT"
  /\ job[t]["hermes"].phase # "ABSENT" => Routed(t)
  /\ job[t]["history"].phase # "ABSENT" => Routed(t) /\ Answered(t)

Waits(t) == state[t] # "RECEIVING" /\ ~Answered(t) => job[t][StageOf(t)].phase = "OPEN"

TurnFine(t) == StateTells(t) /\ AsrTells(t) /\ JobsTell(t) /\ Waits(t)

\* A handler that is done has brought its turn further.
DoneIsDone(w) ==
  running[w].step = "done" =>
    LET t == running[w].turn IN
    \/ Answered(t)
    \/ running[w].stage = "asr" /\ asr[t].outcome = "VALID_TRANSCRIPT"
    \/ running[w].stage = "route" /\ Routed(t)

\* A worker's claim is of an attempt its job has had.
ClaimIsReal(w) ==
  running[w] # Idle =>
    LET j == job[running[w].turn][running[w].stage] IN
    running[w].token \in 1 .. j.last /\ j.phase # "ABSENT"

WorkerFine(w) == DoneIsDone(w) /\ ClaimIsReal(w)

Fine == (\A t \in Turn : TurnFine(t)) /\ (\A w \in Worker : WorkerFine(w))

\* What no step takes back.
Grows(t) ==
  /\ Answered(t) => Answered(t)'
  /\ Routed(t) => Routed(t)'
  /\ asr[t].outcome = "VALID_TRANSCRIPT" => asr'[t].outcome = "VALID_TRANSCRIPT" \/ Answered(t)'
  /\ \A s \in Stage : /\ job[t][s].phase # "ABSENT" => job'[t][s].phase # "ABSENT"
                      /\ job[t][s].last <= job'[t][s].last

\* What is read of a turn's events after one more.
LEMMA EventRead ==
  ASSUME TypeOK, NEW t \in Turn, NEW kind \in Kind, events' = Inserted(t, kind)
  PROVE  /\ Last(t)' = kind
         /\ Routed(t)' <=> (IF events[t] = <<>> THEN kind = "ROUTED" ELSE Routed(t))
         /\ events[t] = <<>> => events'[t] = <<kind>>
         /\ kind \in Finals => Final(t)' = kind /\ Answered(t)'
<1>1. events[t] \in Seq(Kind)
  BY DEF TypeOK, Kind
<1>2. Last(t)' = kind
  BY Appended DEF Last
<1>3. CASE events[t] = <<>>
  <2>1. events'[t] = <<kind>>
    BY <1>3, Appended
  <2> QED BY <1>2, <1>3, <2>1 DEF Final, Answered, Finals, ScheduleFinals, Routed
<1>4. CASE events[t] # <<>>
  <2>1. 1 \in 1 .. Len(events[t])
    BY <1>1, <1>4, EmptySeq
  <2>2. events'[t][1] = events[t][1] /\ events'[t] # <<>>
    BY <2>1, Appended
  <2> QED BY <1>2, <1>4, <2>2 DEF Final, Answered, Finals, ScheduleFinals, Routed
<1> QED BY <1>3, <1>4

LEMMA AnsweredMeans == ASSUME NEW t PROVE Answered(t) <=> Last(t) \in Finals
BY DEF Answered, Final, Finals, ScheduleFinals

\* A turn whose rows stay is as fine as before.
LEMMA TurnKept ==
  ASSUME TypeOK, NEW t \in Turn, TurnFine(t),
         UNCHANGED <<state[t], asr[t].outcome, events[t], job[t]>>
  PROVE  TurnFine(t)' /\ Grows(t)
<1>1. \A s \in Stage : job[t][s].last \in Nat
  BY DEF TypeOK
<1>2. /\ Answered(t)' <=> Answered(t)
      /\ Routed(t)' <=> Routed(t)
      /\ StageOf(t)' = StageOf(t)
  BY DEF Answered, Final, Last, Routed, StageOf
<1> QED BY <1>1, <1>2 DEF TurnFine, StateTells, AsrTells, JobsTell, Waits, Grows

\* Every FINAL leaves its turn fine, whatever else its transaction does.
LEMMA FinalFine ==
  ASSUME TypeOK, NEW t \in Turn, TurnFine(t), NEW kind \in Finals, NEW withGrace \in BOOLEAN,
         ProtocolFinal(t, kind, withGrace),
         \A s \in Stage : /\ job[t][s].phase # "ABSENT" => job'[t][s].phase # "ABSENT"
                          /\ job[t][s].last <= job'[t][s].last,
         job'[t]["hermes"].phase # "ABSENT" \/ job'[t]["history"].phase # "ABSENT" => Routed(t),
         t \in Voice /\ asr'[t].outcome = "NONE"
           => asr[t].outcome = "NONE" /\ job'[t]["route"].phase = job[t]["route"].phase
  PROVE  TurnFine(t)' /\ Grows(t)
<1>1. kind \in Kind /\ events' = Inserted(t, kind)
  BY DEF Kind, ProtocolFinal
<1>2. Answered(t)' /\ (Routed(t) => Routed(t)')
  BY <1>1, EventRead DEF Routed
<1>3. state'[t] \in {"FINAL_READY", "LATE_RESULT_GRACE"}
  BY DEF ProtocolFinal, TypeOK
<1> QED BY <1>2, <1>3 DEF TurnFine, StateTells, AsrTells, JobsTell, Waits, Grows

\* What opening a job changes.
LEMMA OpenedRead ==
  ASSUME NEW jobs, NEW s \in Stage, jobs \in [Stage -> [phase: Phases, current: Nat, last: Nat]]
  PROVE  /\ Opened(jobs, s) \in [Stage -> [phase: Phases, current: Nat, last: Nat]]
         /\ \A r \in Stage : r # s => Opened(jobs, s)[r] = jobs[r]
         /\ Opened(jobs, s)[s].phase = IF jobs[s].phase = "ABSENT" THEN "OPEN" ELSE jobs[s].phase
         /\ Opened(jobs, s)[s].last = jobs[s].last
         /\ Opened(jobs, s)[s].current = jobs[s].current
BY DEF Opened, Phases

\* A job that fails answers its turn, or leaves its rows.
LEMMA FailForFine ==
  ASSUME TypeOK, NEW t \in Turn, \A u \in Turn : TurnFine(u), NEW s \in Stage, FailFor(t, s),
         job[t][s].phase = "OPEN"
  PROVE  \A u \in Turn : TurnFine(u)' /\ Grows(u)
<1> DEFINE jobs == [job[t] EXCEPT ![s].phase = "FAILED", ![s].current = 0]
<1>1. /\ job[t] \in [Stage -> [phase: Phases, current: Nat, last: Nat]]
      /\ jobs \in [Stage -> [phase: Phases, current: Nat, last: Nat]]
      /\ jobs[s].phase = "FAILED" /\ jobs[s].last = job[t][s].last
      /\ \A r \in Stage : r # s => jobs[r] = job[t][r]
  <2>1. job[t] \in [Stage -> [phase: Phases, current: Nat, last: Nat]]
    BY DEF TypeOK
  <2> QED BY <2>1 DEF Phases
<1>2. ASSUME NEW u \in Turn \ {t} PROVE TurnFine(u)' /\ Grows(u)
  <2>1. UNCHANGED <<state[u], asr[u].outcome, events[u], job[u]>>
    <3>1. /\ events' = events \/ events' = [events EXCEPT ![t] = Append(@, "hermes")]
             \/ events' = [events EXCEPT ![t] = Append(@, IF s = "asr" THEN "asr" ELSE "routing")]
          /\ state' = state \/ state' = [state EXCEPT ![t] = "LATE_RESULT_GRACE"]
             \/ state' = [state EXCEPT ![t] = "FINAL_READY"]
      BY DEF FailFor, Project, ProtocolFinal, Inserted
    <3>2. asr' = asr \/ asr' = [asr EXCEPT ![t].outcome = "PROVIDER_ERROR"]
      BY DEF FailFor, Project
    <3>3. job' = [job EXCEPT ![t] = jobs] \/ job' = [job EXCEPT ![t] = Opened(jobs, "history")]
      BY DEF FailFor, Project
    <3> HIDE DEF jobs
    <3>4. events'[u] = events[u] /\ state'[u] = state[u]
      BY <3>1 DEF TypeOK
    <3>5. asr'[u] = asr[u]
      BY <3>2 DEF TypeOK
    <3>6. job'[u] = job[u]
      BY <3>3 DEF TypeOK
    <3> QED BY <3>4, <3>5, <3>6
  <2> QED BY <2>1, TurnKept
<1>3. TurnFine(t)' /\ Grows(t)
  <2>1. job'[t] = jobs \/ job'[t] = Opened(jobs, "history")
    BY DEF FailFor, Project, TypeOK
  <2>2. /\ \A r \in Stage : /\ job[t][r].phase # "ABSENT" => job'[t][r].phase # "ABSENT"
                            /\ job[t][r].last <= job'[t][r].last
        /\ job'[t]["hermes"].phase # "ABSENT" => job[t]["hermes"].phase # "ABSENT"
        /\ job'[t]["history"].phase # "ABSENT" => job[t]["history"].phase # "ABSENT" \/ job'[t] = Opened(jobs, "history")
    <3> HIDE DEF jobs
    <3>1. CASE job'[t] = jobs
      BY <1>1, <3>1 DEF Stage
    <3>2. CASE job'[t] = Opened(jobs, "history")
      BY <1>1, <3>2, OpenedRead DEF Stage
    <3> QED BY <2>1, <3>1, <3>2
  <2>3. CASE Answered(t) \/ s = "history"
    <3>1. UNCHANGED <<state, asr, events>> /\ job'[t] = jobs
      BY <2>3 DEF FailFor, Project, TypeOK, Stage
    <3>2. Answered(t)
      BY <2>3 DEF TurnFine, JobsTell
    <3>3. (Answered(t)' <=> Answered(t)) /\ (Routed(t)' <=> Routed(t))
      BY <3>1 DEF Answered, Final, Last, Routed
    <3>4. state[t] # "RECEIVING"
      BY DEF TurnFine, JobsTell
    <3> HIDE DEF jobs
    <3> QED BY <1>1, <2>2, <3>1, <3>2, <3>3, <3>4 DEF TurnFine, StateTells, AsrTells, JobsTell, Waits, Grows, Stage
  <2>4. CASE ~Answered(t) /\ s = "hermes"
    <3>1. ProtocolFinal(t, "hermes", TRUE) /\ "hermes" \in Finals
      BY <2>4 DEF FailFor, Project, Finals, ScheduleFinals
    <3>2. Routed(t)
      BY <2>4 DEF TurnFine, JobsTell
    <3>3. asr' = asr
      BY <2>4 DEF FailFor, Project
    <3> HIDE DEF jobs
    <3>4. job'[t]["route"].phase = job[t]["route"].phase
      BY <1>1, <2>1, <2>4, OpenedRead DEF Stage
    <3> QED BY <2>2, <3>1, <3>2, <3>3, <3>4, FinalFine
  <2>5. CASE ~Answered(t) /\ s \in {"asr", "route"}
    <3>1. \E kind \in {"asr", "routing"} : ProtocolFinal(t, kind, FALSE)
      BY <2>5 DEF FailFor, Project
    <3>2. {"asr", "routing"} \subseteq Finals
      BY DEF Finals, ScheduleFinals
    <3>3. job'[t] = jobs
      BY <2>5 DEF FailFor, Project, TypeOK
    <3>4. job'[t]["history"].phase # "ABSENT" => job[t]["history"].phase # "ABSENT"
      BY <1>1, <3>3, <2>5 DEF Stage
    <3>5. job'[t]["hermes"].phase # "ABSENT" \/ job'[t]["history"].phase # "ABSENT" => Routed(t)
      BY <2>2, <3>4 DEF TurnFine, JobsTell
    <3>6. asr'[t].outcome = "NONE" => s = "route" /\ asr' = asr
      <4>1. asr' = IF s = "asr" THEN [asr EXCEPT ![t].outcome = "PROVIDER_ERROR"] ELSE asr
        BY <2>5 DEF FailFor, Project
      <4>2. CASE s = "asr"
        BY <4>1, <4>2 DEF TypeOK
      <4>3. CASE s = "route"
        BY <4>1, <4>3
      <4> QED BY <4>2, <4>3, <2>5
    <3>7. s = "route" => t \notin Voice \/ asr[t].outcome # "NONE"
      BY DEF TurnFine, JobsTell
    <3> HIDE DEF jobs
    <3> QED BY <2>2, <3>1, <3>2, <3>5, <3>6, <3>7, FinalFine
  <2> QED BY <2>3, <2>4, <2>5 DEF Stage
<1> QED BY <1>2, <1>3

\* A job's attempts change, but not what its phase says of the turn.
LEMMA PhasesKept ==
  ASSUME TypeOK, NEW t \in Turn, TurnFine(t), UNCHANGED <<state[t], asr[t].outcome, events[t]>>,
         \A s \in Stage : job'[t][s].phase = job[t][s].phase /\ job[t][s].last <= job'[t][s].last
  PROVE  TurnFine(t)' /\ Grows(t)
<1>1. /\ Answered(t)' <=> Answered(t)
      /\ Routed(t)' <=> Routed(t)
      /\ StageOf(t)' = StageOf(t) /\ StageOf(t) \in Stage
  BY DEF Answered, Final, Last, Routed, StageOf, Stage
<1> QED BY <1>1 DEF TurnFine, StateTells, AsrTells, JobsTell, Waits, Grows, Stage

LEMMA AcceptTurnFine ==
  ASSUME TypeOK, NEW t \in Turn, \A u \in Turn : TurnFine(u), AcceptTurn(t)
  PROVE  \A u \in Turn : TurnFine(u)' /\ Grows(u)
<1> DEFINE jobs == Opened(job[t], FirstStage(t))
<1>1. job[t] \in [Stage -> [phase: Phases, current: Nat, last: Nat]] /\ FirstStage(t) \in {"asr", "route"}
  BY DEF TypeOK, FirstStage
<1>2. job'[t] = jobs /\ state'[t] = "ACCEPTED" /\ UNCHANGED <<asr, events>>
  BY DEF AcceptTurn, TypeOK
<1>3. events[t] = <<>> /\ ~Answered(t) /\ ~Routed(t) /\ asr[t].outcome \in {"NONE", "VALID_TRANSCRIPT"}
      /\ \A s \in Stage : job[t][s].phase = "ABSENT"
  <2>1. events[t] = <<>> /\ \A s \in Stage : job[t][s].phase = "ABSENT"
    BY DEF TurnFine, StateTells, JobsTell, AcceptTurn
  <2>2. ~Answered(t) /\ ~Routed(t)
    BY <2>1 DEF Answered, Final, Last, Routed, Finals, ScheduleFinals
  <2>3. asr[t].outcome \in AsrOutcomes
    BY DEF TypeOK
  <2> QED BY <2>1, <2>2, <2>3 DEF TurnFine, AsrTells, AsrOutcomes
<1>4. FirstStage(t) = StageOf(t)
  BY <1>3 DEF FirstStage, StageOf
<1>5. (Answered(t)' <=> Answered(t)) /\ (Routed(t)' <=> Routed(t)) /\ StageOf(t)' = StageOf(t)
  BY <1>2 DEF Answered, Final, Last, Routed, StageOf
<1>6. /\ jobs[StageOf(t)].phase = "OPEN"
      /\ \A s \in Stage : s # FirstStage(t) => jobs[s] = job[t][s]
      /\ \A s \in Stage : jobs[s].last = job[t][s].last /\ job[t][s].last \in Nat
  BY <1>1, <1>3, <1>4, OpenedRead DEF Stage
<1>7. TurnFine(t)' /\ Grows(t)
  <2>1. StateTells(t)' /\ AsrTells(t)'
    BY <1>2, <1>3, <1>5 DEF StateTells, AsrTells, TERMINAL_TURN_STATES
  <2>2. t \in Voice /\ asr[t].outcome = "NONE" => FirstStage(t) = "asr"
    BY DEF FirstStage
  <2>3. JobsTell(t)' /\ Waits(t)' /\ Grows(t)
    <3> HIDE DEF jobs
    <3> QED BY <1>1, <1>2, <1>3, <1>4, <1>5, <1>6, <2>2 DEF JobsTell, Waits, Grows, Stage
  <2> QED BY <2>1, <2>3 DEF TurnFine
<1>8. ASSUME NEW u \in Turn \ {t} PROVE TurnFine(u)' /\ Grows(u)
  <2>1. UNCHANGED <<state[u], asr[u].outcome, events[u], job[u]>>
    BY DEF AcceptTurn, TypeOK
  <2> QED BY <2>1, TurnKept
<1> QED BY <1>7, <1>8

\* What the queue writes into one job's row.
RowIs(t, s, phase, current, last) ==
  /\ job'[t][s].phase = phase /\ job'[t][s].current = current /\ job'[t][s].last = last
  /\ \A r \in Stage : r # s => job'[t][r] = job[t][r]
  /\ \A u \in Turn : u # t => job'[u] = job[u]

LEMMA RowEnds ==
  ASSUME TypeOK, NEW t \in Turn, NEW s \in Stage, NEW phase,
         job' = [job EXCEPT ![t][s].phase = phase, ![t][s].current = 0]
  PROVE  RowIs(t, s, phase, 0, job[t][s].last)
<1>1. job \in [Turn -> [Stage -> [phase: Phases, current: Nat, last: Nat]]]
  BY DEF TypeOK
<1> QED BY <1>1 DEF RowIs

LEMMA RowRests ==
  ASSUME TypeOK, NEW t \in Turn, NEW s \in Stage, job' = [job EXCEPT ![t][s].current = 0]
  PROVE  RowIs(t, s, job[t][s].phase, 0, job[t][s].last)
<1>1. job \in [Turn -> [Stage -> [phase: Phases, current: Nat, last: Nat]]]
  BY DEF TypeOK
<1> QED BY <1>1 DEF RowIs

LEMMA RowStarts ==
  ASSUME TypeOK, NEW t \in Turn, NEW s \in Stage, NEW n \in Nat,
         job' = [job EXCEPT ![t][s].current = n, ![t][s].last = n]
  PROVE  RowIs(t, s, job[t][s].phase, n, n)
<1>1. job \in [Turn -> [Stage -> [phase: Phases, current: Nat, last: Nat]]]
  BY DEF TypeOK
<1> QED BY <1>1 DEF RowIs

LEMMA ClaimJobFine ==
  ASSUME TypeOK, \A u \in Turn : TurnFine(u), NEW w \in Worker, NEW t \in Turn, NEW s \in Stage, ClaimJob(w, t, s)
  PROVE  \A u \in Turn : TurnFine(u)' /\ Grows(u)
<1> TAKE u \in Turn
<1>1. UNCHANGED <<state[u], asr[u].outcome, events[u]>>
  BY DEF ClaimJob
<1>2. job[t][s].last + 1 \in Nat /\ job[t][s].phase \in Phases /\ \A v \in Turn, r \in Stage : job[v][r].last \in Nat
  BY DEF TypeOK
<1>3. RowIs(t, s, job[t][s].phase, job[t][s].last + 1, job[t][s].last + 1)
  BY <1>2, RowStarts DEF ClaimJob
<1>4. \A r \in Stage : job'[u][r].phase = job[u][r].phase /\ job[u][r].last <= job'[u][r].last
  BY <1>2, <1>3 DEF RowIs
<1> QED BY <1>1, <1>4, PhasesKept

LEMMA CompleteFine ==
  ASSUME TypeOK, \A u \in Turn : TurnFine(u), NEW w \in Worker, WorkerFine(w), Complete(w),
         NEW t \in Turn, NEW s \in Stage, t = running[w].turn, s = running[w].stage
  PROVE  \A u \in Turn : TurnFine(u)' /\ Grows(u)
<1>1. UNCHANGED <<state, asr, events>>
  BY DEF Complete
<1>2. ASSUME ~Live(w), NEW u \in Turn PROVE TurnFine(u)' /\ Grows(u)
  BY <1>1, <1>2, TurnKept DEF Complete
<1>3. CASE Live(w)
  <2>1. RowIs(t, s, "SUCCEEDED", 0, job[t][s].last)
    BY <1>3, RowEnds DEF Complete
  <2>2. ASSUME NEW u \in Turn \ {t} PROVE TurnFine(u)' /\ Grows(u)
    BY <1>1, <2>1, TurnKept DEF RowIs
  <2>3. (Answered(t)' <=> Answered(t)) /\ (Routed(t)' <=> Routed(t)) /\ StageOf(t)' = StageOf(t)
    BY <1>1 DEF Answered, Final, Last, Routed, StageOf
  <2>4. job[t][s].phase = "OPEN" /\ \A r \in Stage : job[t][r].last \in Nat
    BY <1>3 DEF Live, TypeOK
  <2>5. StageOf(t) = s => Answered(t)
    <3>1. DoneIsDone(w) /\ running[w].step = "done"
      BY DEF WorkerFine, Complete
    <3> QED BY <3>1 DEF DoneIsDone, StageOf
  <2>6. TurnFine(t) /\ StageOf(t) \in Stage
    BY DEF StageOf, Stage
  <2>7. StateTells(t)' /\ AsrTells(t)'
    BY <1>1, <2>3, <2>6 DEF TurnFine, StateTells, AsrTells
  <2>8. \A r \in Stage : /\ job'[t][r].phase = (IF r = s THEN "SUCCEEDED" ELSE job[t][r].phase)
                         /\ job[t][r].last <= job'[t][r].last
    BY <2>1, <2>4 DEF RowIs
  <2>9. JobsTell(t)'
    BY <1>1, <2>3, <2>4, <2>6, <2>8 DEF TurnFine, JobsTell, Stage
  <2>10. Waits(t)'
    BY <1>1, <2>3, <2>5, <2>6, <2>8 DEF TurnFine, Waits
  <2>11. Grows(t)
    BY <1>1, <2>3, <2>8 DEF Grows
  <2> QED BY <2>2, <2>7, <2>9, <2>10, <2>11 DEF TurnFine
<1> QED BY <1>2, <1>3

LEMMA FailFine ==
  ASSUME TypeOK, \A u \in Turn : TurnFine(u), NEW w \in Worker, Fail(w),
         NEW t \in Turn, NEW s \in Stage, t = running[w].turn, s = running[w].stage
  PROVE  \A u \in Turn : TurnFine(u)' /\ Grows(u)
<1>1. CASE Live(w) /\ FailFor(t, s)
  BY <1>1, FailForFine DEF Live
<1>2. CASE ~(Live(w) /\ FailFor(t, s))
  <2>1. /\ UNCHANGED <<state, asr, events>>
        /\ job' = job \/ job' = [job EXCEPT ![t][s].current = 0]
    BY <1>2 DEF Fail
  <2>2. CASE job' = job
    BY <2>1, <2>2, TurnKept
  <2>3. CASE job' = [job EXCEPT ![t][s].current = 0]
    <3>1. job[t][s].phase \in Phases /\ 0 \in Nat /\ \A v \in Turn, r \in Stage : job[v][r].last \in Nat
      BY DEF TypeOK
    <3>2. RowIs(t, s, job[t][s].phase, 0, job[t][s].last)
      BY <2>3, RowRests
    <3>3. \A u \in Turn, r \in Stage : job'[u][r].phase = job[u][r].phase /\ job[u][r].last <= job'[u][r].last
      BY <3>1, <3>2 DEF RowIs
    <3> QED BY <2>1, <3>3, PhasesKept
  <2> QED BY <2>1, <2>2, <2>3
<1> QED BY <1>1, <1>2

-----------------------------------------------------------------------------
(* The steps of a handler.                                                 *)

\* A handler's step moves its own worker's memory.
LEMMA Stepped ==
  ASSUME TypeOK, NEW w \in Worker, running[w] \in Claimed, NEW step \in Steps,
         GoTo(w, step) \/ \E n \in Nat : Remember(w, step, n)
  PROVE  /\ running'[w].turn = running[w].turn /\ running'[w].stage = running[w].stage
         /\ running'[w].token = running[w].token /\ running'[w].step = step
         /\ \A x \in Worker \ {w} : running'[x] = running[x]
<1>1. running \in [Worker -> {Idle} \cup Claimed]
  BY DEF TypeOK, Claimed
<1>2. CASE GoTo(w, step)
  <2>1. running'[w] = [running[w] EXCEPT !.step = step]
    BY <1>1, <1>2 DEF GoTo
  <2> QED BY <1>1, <1>2, <2>1 DEF GoTo, Claimed
<1>3. ASSUME NEW n \in Nat, Remember(w, step, n)
      PROVE  /\ running'[w] = [running[w] EXCEPT !.step = step, !.seen = n]
             /\ \A x \in Worker \ {w} : running'[x] = running[x]
  BY <1>1, <1>3 DEF Remember
<1> QED BY <1>2, <1>3 DEF Claimed

\* What a worker's memory says stays true as turns grow.
LEMMA WorkerKept ==
  ASSUME TypeOK, TypeOK', NEW x \in Worker, WorkerFine(x), \A u \in Turn : Grows(u), running'[x] = running[x]
  PROVE  WorkerFine(x)'
<1>1. CASE running[x] = Idle
  BY <1>1 DEF WorkerFine, DoneIsDone, ClaimIsReal, Idle
<1>2. CASE running[x] # Idle
  <2>1. PICK t \in Turn, s \in Stage : t = running[x].turn /\ s = running[x].stage
    BY <1>2, MemoryType DEF Claimed
  <2>2. Grows(t) /\ running'[x].turn = t /\ running'[x].stage = s
    BY <2>1
  <2>3. ClaimIsReal(x)'
    <3>1. running[x].token \in 1 .. job[t][s].last /\ job[t][s].phase # "ABSENT"
      BY <1>2, <2>1 DEF WorkerFine, ClaimIsReal
    <3>2. job[t][s].last <= job'[t][s].last /\ job'[t][s].phase # "ABSENT"
          /\ job[t][s].last \in Nat /\ job'[t][s].last \in Nat
      BY <2>2, <3>1 DEF Grows, TypeOK
    <3> QED BY <2>2, <3>1, <3>2 DEF ClaimIsReal
  <2>4. DoneIsDone(x)'
    BY <2>1, <2>2 DEF WorkerFine, DoneIsDone, Grows
  <2> QED BY <2>3, <2>4 DEF WorkerFine
<1> QED BY <1>1, <1>2

\* Where a handler's transaction leaves its own turn fine, all is.
LEMMA HandlerFine ==
  ASSUME TypeOK, TypeOK', Fine, NEW w \in Worker, NEW t \in Turn, t = running[w].turn, NEW step \in Steps,
         GoTo(w, step) \/ \E n \in Nat : Remember(w, step, n),
         \A u \in Turn \ {t} : UNCHANGED <<state[u], asr[u].outcome, events[u], job[u]>>,
         TurnFine(t)', Grows(t),
         step = "done" => \/ Answered(t)'
                          \/ running[w].stage = "asr" /\ asr'[t].outcome = "VALID_TRANSCRIPT"
                          \/ running[w].stage = "route" /\ Routed(t)'
  PROVE  Fine' /\ \A u \in Turn : Grows(u)
<1>1. running[w] \in Claimed /\ running[w] # Idle
  BY MemoryType, Nulls DEF Idle
<1>2. /\ running'[w].turn = t /\ running'[w].stage = running[w].stage
      /\ running'[w].token = running[w].token /\ running'[w].step = step
      /\ \A x \in Worker \ {w} : running'[x] = running[x]
  BY <1>1, Stepped
<1>3. \A u \in Turn : TurnFine(u)' /\ Grows(u)
  BY TurnKept DEF Fine
<1>4. \A x \in Worker \ {w} : WorkerFine(x)'
  BY <1>2, <1>3, WorkerKept DEF Fine
<1>5. DoneIsDone(w)'
  BY <1>2 DEF DoneIsDone
<1>6. ClaimIsReal(w)'
  <2>1. PICK s \in Stage : s = running[w].stage
    BY <1>1 DEF Claimed
  <2>2. running[w].token \in 1 .. job[t][s].last /\ job[t][s].phase # "ABSENT"
    BY <1>1, <2>1 DEF Fine, WorkerFine, ClaimIsReal
  <2>3. job[t][s].last <= job'[t][s].last /\ job'[t][s].phase # "ABSENT"
        /\ job[t][s].last \in Nat /\ job'[t][s].last \in Nat
    BY <2>1, <2>2 DEF Grows, TypeOK
  <2> QED BY <1>2, <2>1, <2>2, <2>3 DEF ClaimIsReal
<1> QED BY <1>3, <1>4, <1>5, <1>6 DEF Fine, WorkerFine

\* The rows of other turns when one turn gets a FINAL.
LEMMA FinalElsewhere ==
  ASSUME TypeOK, NEW t \in Turn, NEW kind \in Finals, NEW withGrace \in BOOLEAN, ProtocolFinal(t, kind, withGrace)
  PROVE  \A u \in Turn \ {t} : UNCHANGED <<state[u], events[u]>>
<1>1. kind \in Kind /\ events' = Inserted(t, kind)
  BY DEF ProtocolFinal, Kind
<1>2. \A u \in Turn \ {t} : events'[u] = events[u]
  BY <1>1, Appended
<1>3. \A u \in Turn \ {t} : state'[u] = state[u]
  BY DEF ProtocolFinal, TypeOK
<1> QED BY <1>2, <1>3

\* A FINAL that leaves the jobs as they are.
LEMMA FinalAlone ==
  ASSUME TypeOK, NEW t \in Turn, TurnFine(t), NEW kind \in Finals, NEW withGrace \in BOOLEAN,
         ProtocolFinal(t, kind, withGrace), job' = job,
         asr'[t].outcome = "NONE" => asr[t].outcome = "NONE"
  PROVE  TurnFine(t)' /\ Grows(t) /\ Answered(t)'
<1>1. \A s \in Stage : job[t][s].last \in Nat
  BY DEF TypeOK
<1>2. job[t]["hermes"].phase # "ABSENT" \/ job[t]["history"].phase # "ABSENT" => Routed(t)
  BY DEF TurnFine, JobsTell
<1>3. TurnFine(t)' /\ Grows(t)
  BY <1>1, <1>2, FinalFine
<1>4. kind \in Kind /\ events' = Inserted(t, kind)
  BY DEF ProtocolFinal, Kind
<1> QED BY <1>3, <1>4, EventRead

\* A handler whose job is real works on an accepted turn.
LEMMA WorkIsAccepted ==
  ASSUME TypeOK, Fine, NEW w \in Worker, NEW t \in Turn, NEW s \in Stage, t = running[w].turn, s = running[w].stage
  PROVE  state[t] # "RECEIVING" /\ job[t][s].phase # "ABSENT"
<1>1. running[w] # Idle
  BY Nulls DEF Idle
<1> QED BY <1>1 DEF Fine, WorkerFine, ClaimIsReal, TurnFine, JobsTell

LEMMA AsrFine ==
  ASSUME TypeOK, TypeOK', Fine, NEW t \in Turn, NEW w \in Worker,
         \/ AsrRead(w, t) \/ SetAsrStage(w, t) \/ AsrUnavailable(w, t) \/ AsrGiveUp(w, t)
         \/ \E result \in AsrOutcomes \ {"NONE"} : CommitAsrResult(w, t, result)
  PROVE  Fine' /\ \A u \in Turn : Grows(u)
<1>1. t = running[w].turn /\ running[w].stage = "asr" /\ TurnFine(t) /\ "asr" \in Stage
  BY DEF AsrRead, SetAsrStage, AsrUnavailable, AsrGiveUp, CommitAsrResult, At, Fine, Stage
<1>2. /\ asr[t].outcome \in AsrOutcomes /\ asr[t].generation \in Nat /\ running[w].seen \in Nat
      /\ asr \in [Turn -> [generation: Nat, outcome: AsrOutcomes]]
  BY <1>1, MemoryType DEF TypeOK, Claimed
<1>3. CASE AsrRead(w, t)
  <2>1. UNCHANGED <<state, asr, events, job>>
    BY <1>3 DEF AsrRead
  <2>2. (TurnFine(t)' /\ Grows(t)) /\ (Answered(t)' <=> Answered(t))
    BY <1>1, <2>1, TurnKept DEF Answered, Final, Last
  <2>3. asr[t].outcome # "NONE" => Answered(t) \/ asr[t].outcome = "VALID_TRANSCRIPT"
    BY <1>1, <1>2 DEF TurnFine, AsrTells, AsrOutcomes
  <2>4. CASE asr[t].outcome = "NONE"
    <3>1. Remember(w, "stage", asr[t].generation) /\ "stage" \in Steps
      BY <1>3, <2>4 DEF AsrRead, Steps
    <3> QED BY <1>1, <1>2, <2>1, <2>2, <3>1, HandlerFine
  <2>5. CASE asr[t].outcome # "NONE"
    <3>1. GoTo(w, "done") /\ "done" \in Steps
      BY <1>3, <2>5 DEF AsrRead, Steps
    <3> QED BY <1>1, <2>1, <2>2, <2>3, <2>5, <3>1, HandlerFine
  <2> QED BY <2>4, <2>5
<1>4. CASE SetAsrStage(w, t)
  <2>1. /\ UNCHANGED <<events, job>> /\ \A u \in Turn : asr'[u].outcome = asr[u].outcome
        /\ \A u \in Turn \ {t} : state'[u] = state[u]
        /\ \/ state'[t] = state[t]
           \/ state[t] \in {"ACCEPTED", "RETRY_WAIT"} /\ state'[t] = "PREPROCESSING"
    BY <1>2, <1>4 DEF SetAsrStage, TypeOK
  <2>2. state[t] # "RETRY_WAIT" /\ \A s \in Stage : job[t][s].last \in Nat
    <3>1. state[t] \in TurnStates /\ \A s \in Stage : job[t][s].last \in Nat
      BY DEF TypeOK
    <3> QED BY <3>1 DEF TurnStates
  <2>3. (Answered(t)' <=> Answered(t)) /\ (Routed(t)' <=> Routed(t)) /\ StageOf(t)' = StageOf(t)
    BY <2>1 DEF Answered, Final, Last, Routed, StageOf
  <2>4. TurnFine(t)' /\ Grows(t)
    BY <1>1, <2>1, <2>2, <2>3 DEF TurnFine, StateTells, AsrTells, JobsTell, Waits, Grows, TERMINAL_TURN_STATES
  <2>5. Remember(w, "transcribe", running[w].seen + 1) /\ "transcribe" \in Steps /\ running[w].seen + 1 \in Nat
    BY <1>2, <1>4 DEF SetAsrStage, Steps
  <2> QED BY <1>1, <2>1, <2>4, <2>5, HandlerFine
<1>5. CASE AsrUnavailable(w, t)
  <2>1. UNCHANGED <<state, asr, events, job>>
    BY <1>5 DEF AsrUnavailable
  <2>2. \E step \in {"raise", "giveup"} : GoTo(w, step)
    BY <1>5 DEF AsrUnavailable
  <2>3. TurnFine(t)' /\ Grows(t) /\ {"raise", "giveup"} \subseteq Steps
    BY <1>1, <2>1, TurnKept DEF Steps
  <2> QED BY <1>1, <2>1, <2>2, <2>3, HandlerFine
<1>6. CASE AsrGiveUp(w, t)
  <2>1. ProtocolFinal(t, "asr", FALSE) /\ UNCHANGED <<asr, job>> /\ "asr" \in Finals
    BY <1>6 DEF AsrGiveUp, Finals, ScheduleFinals
  <2>2. TurnFine(t)' /\ Grows(t) /\ Answered(t)'
    BY <1>1, <2>1, FinalAlone
  <2>3. \A u \in Turn \ {t} : UNCHANGED <<state[u], asr[u].outcome, events[u], job[u]>>
    BY <2>1, FinalElsewhere
  <2>4. GoTo(w, "done") /\ "done" \in Steps
    BY <1>6 DEF AsrGiveUp, Steps
  <2> QED BY <1>1, <2>2, <2>3, <2>4, HandlerFine
<1>7. ASSUME NEW result \in AsrOutcomes \ {"NONE"}, CommitAsrResult(w, t, result)
      PROVE  Fine' /\ \A u \in Turn : Grows(u)
  <2>1. GoTo(w, "done") /\ "done" \in Steps
    BY <1>7 DEF CommitAsrResult, Steps
  <2>2. asr'[t].outcome = result /\ \A u \in Turn \ {t} : asr'[u] = asr[u]
    BY <1>2, <1>7 DEF CommitAsrResult
  <2>3. CASE result = "VALID_TRANSCRIPT"
    <3> DEFINE jobs == Opened(job[t], "route")
    <3>1. /\ job[t] \in [Stage -> [phase: Phases, current: Nat, last: Nat]] /\ "route" \in Stage
          /\ state[t] \in TurnStates
      BY DEF TypeOK, Stage
    <3>2. /\ job'[t] = jobs /\ events' = events
          /\ \A u \in Turn \ {t} : UNCHANGED <<state[u], job[u]>>
          /\ \/ state'[t] = state[t]
             \/ state[t] \in {"ACCEPTED", "PREPROCESSING", "RETRY_WAIT"} /\ state'[t] = "ACCEPTED"
      BY <1>7, <2>3 DEF CommitAsrResult, TypeOK
    <3>3. (Answered(t)' <=> Answered(t)) /\ (Routed(t)' <=> Routed(t))
      BY <3>2 DEF Answered, Final, Last, Routed
    <3>4. /\ \A r \in Stage : r # "route" => jobs[r] = job[t][r]
          /\ jobs["route"].phase = IF job[t]["route"].phase = "ABSENT" THEN "OPEN" ELSE job[t]["route"].phase
          /\ \A r \in Stage : jobs[r].last = job[t][r].last /\ job[t][r].last \in Nat
      BY <3>1, OpenedRead
    <3>5. state[t] # "RECEIVING"
      BY <1>1, WorkIsAccepted
    <3>6. ~Answered(t) /\ ~Routed(t) => jobs["route"].phase = "OPEN"
      BY <1>1, <1>2, <3>4, <3>5 DEF TurnFine, AsrTells, JobsTell, Waits, StageOf, AsrOutcomes
    <3> HIDE DEF jobs
    <3>7. StateTells(t)' /\ AsrTells(t)'
      BY <1>1, <2>2, <2>3, <3>1, <3>2, <3>3 DEF TurnFine, StateTells, AsrTells, TERMINAL_TURN_STATES, TurnStates
    <3>8. Grows(t)
      BY <2>2, <2>3, <3>2, <3>3, <3>4 DEF Grows
    <3>9. JobsTell(t)'
      BY <1>1, <2>2, <2>3, <3>2, <3>3, <3>4, <3>5 DEF TurnFine, JobsTell, Stage
    <3>10. Waits(t)'
      <4>1. ~Answered(t) /\ Routed(t) => job[t]["hermes"].phase = "OPEN"
        BY <1>1, <3>5 DEF TurnFine, Waits, StageOf
      <4>2. StageOf(t)' = IF Routed(t) THEN "hermes" ELSE "route"
        BY <2>2, <2>3, <3>3 DEF StageOf
      <4> QED BY <3>2, <3>3, <3>4, <3>6, <4>1, <4>2 DEF Waits, Stage
    <3> QED BY <1>1, <2>1, <2>2, <2>3, <3>2, <3>7, <3>8, <3>9, <3>10, HandlerFine DEF TurnFine
  <2>4. CASE result # "VALID_TRANSCRIPT"
    <3>1. \E kind \in {"no_speech", "asr"} : ProtocolFinal(t, kind, FALSE)
      BY <1>7, <2>4 DEF CommitAsrResult
    <3>2. job' = job /\ {"no_speech", "asr"} \subseteq Finals
      BY <1>7, <2>4 DEF CommitAsrResult, Finals, ScheduleFinals
    <3>3. TurnFine(t)' /\ Grows(t) /\ Answered(t)'
      BY <1>1, <2>2, <3>1, <3>2, FinalAlone
    <3>4. \A u \in Turn \ {t} : UNCHANGED <<state[u], asr[u].outcome, events[u], job[u]>>
      BY <2>2, <3>1, <3>2, FinalElsewhere
    <3> QED BY <1>1, <2>1, <3>3, <3>4, HandlerFine
  <2> QED BY <2>3, <2>4
<1> QED BY <1>3, <1>4, <1>5, <1>6, <1>7

\* A step of a handler that touches no row of the turn itself.
LEMMA QuietHandler ==
  ASSUME TypeOK, TypeOK', Fine, NEW w \in Worker, NEW t \in Turn, t = running[w].turn, NEW step \in Steps,
         GoTo(w, step) \/ \E n \in Nat : Remember(w, step, n), UNCHANGED <<state, asr, events, job>>,
         step = "done" => Answered(t)
  PROVE  Fine' /\ \A u \in Turn : Grows(u)
<1>1. TurnFine(t)' /\ Grows(t) /\ (Answered(t)' <=> Answered(t))
  BY TurnKept DEF Fine, Answered, Final, Last
<1> QED BY <1>1, HandlerFine

\* A handler's FINAL.
LEMMA FinalHandler ==
  ASSUME TypeOK, TypeOK', Fine, NEW w \in Worker, NEW t \in Turn, t = running[w].turn,
         GoTo(w, "done"), NEW kind \in Finals, NEW withGrace \in BOOLEAN, ProtocolFinal(t, kind, withGrace),
         UNCHANGED <<asr, job>>
  PROVE  Fine' /\ \A u \in Turn : Grows(u)
<1>1. TurnFine(t)' /\ Grows(t) /\ Answered(t)'
  BY FinalAlone DEF Fine
<1>2. \A u \in Turn \ {t} : UNCHANGED <<state[u], asr[u].outcome, events[u], job[u]>>
  BY FinalElsewhere
<1> QED BY <1>1, <1>2, HandlerFine DEF Steps

\* The only turn a route claim can find too late without its route.
LEMMA RouteAnsweredMeans ==
  ASSUME TypeOK, Fine, NEW t \in Turn, NEW w \in Worker, RouteAnswered(w, t) PROVE Answered(t)
<1>1. ~Routed(t) /\ state[t] \in TurnStates /\ state[t] \in {"ROUTED", "HERMES_PENDING", "FINAL_READY", "DELIVERED"}
  BY DEF RouteAnswered, TypeOK
<1>2. state[t] # "ROUTED"
  BY <1>1 DEF TurnStates
<1>3. state[t] # "HERMES_PENDING"
  BY <1>1 DEF Fine, TurnFine, StateTells, Routed
<1> QED BY <1>1, <1>2, <1>3 DEF Fine, TurnFine, StateTells, TERMINAL_TURN_STATES

LEMMA RouteFine ==
  ASSUME TypeOK, TypeOK', Fine, NEW t \in Turn, NEW w \in Worker,
         \/ ClaimRouter(w, t) \/ CommitRoute(w, t) \/ RouteAnswered(w, t)
         \/ CommitRoutingError(w, t) \/ RouteRefused(w, t)
  PROVE  Fine' /\ \A u \in Turn : Grows(u)
<1>1. t = running[w].turn /\ TurnFine(t)
  BY DEF ClaimRouter, CommitRoute, RouteAnswered, CommitRoutingError, RouteRefused, At, Fine
<1>2. CASE ClaimRouter(w, t) \/ RouteRefused(w, t)
  <2>1. UNCHANGED <<state, asr, events, job>> /\ \E step \in {"decide", "raise", "fatal"} : GoTo(w, step)
    BY <1>2 DEF ClaimRouter, RouteRefused
  <2>2. {"decide", "raise", "fatal"} \subseteq Steps
    BY DEF Steps
  <2> QED BY <1>1, <2>1, <2>2, QuietHandler
<1>3. CASE CommitRoutingError(w, t)
  <2>1. ProtocolFinal(t, "routing", FALSE) /\ UNCHANGED <<asr, job>> /\ GoTo(w, "done") /\ "routing" \in Finals
    BY <1>3 DEF CommitRoutingError, Finals, ScheduleFinals
  <2> QED BY <1>1, <2>1, FinalHandler
<1>4. CASE CommitRoute(w, t)
  <2> DEFINE jobs == Opened(job[t], "hermes")
  <2>1. /\ job[t] \in [Stage -> [phase: Phases, current: Nat, last: Nat]] /\ "hermes" \in Stage
        /\ state[t] \in TurnStates /\ "ROUTED" \in Kind
    BY DEF TypeOK, Stage, Kind
  <2>2. /\ job'[t] = jobs /\ state'[t] = "HERMES_PENDING" /\ asr' = asr
        /\ events' = Inserted(t, "ROUTED") /\ GoTo(w, "done") /\ running[w].stage = "route"
        /\ \A u \in Turn \ {t} : UNCHANGED <<state[u], asr[u].outcome, job[u]>>
    BY <1>4 DEF CommitRoute, At, TypeOK
  <2>3. events[t] = <<>> /\ ~Answered(t) /\ ~Routed(t)
    <3>1. state[t] = "ACCEPTED"
      BY <1>4, <2>1 DEF CommitRoute, TurnStates
    <3> QED BY <1>1, <3>1 DEF TurnFine, StateTells, Answered, Final, Last, Routed, Finals, ScheduleFinals
  <2>4. /\ events'[t] = <<"ROUTED">> /\ Last(t)' = "ROUTED" /\ Routed(t)'
        /\ \A u \in Turn \ {t} : events'[u] = events[u]
    BY <2>1, <2>2, <2>3, EventRead, Appended
  <2>5. ~Answered(t)'
    BY <2>4 DEF Answered, Final, Finals, ScheduleFinals
  <2>6. /\ \A r \in Stage : r # "hermes" => jobs[r] = job[t][r]
        /\ jobs["hermes"].phase = IF job[t]["hermes"].phase = "ABSENT" THEN "OPEN" ELSE job[t]["hermes"].phase
        /\ \A r \in Stage : jobs[r].last = job[t][r].last /\ job[t][r].last \in Nat
    BY <2>1, OpenedRead
  <2>7. jobs["hermes"].phase = "OPEN" /\ jobs["history"].phase = "ABSENT"
    BY <1>1, <2>3, <2>6 DEF TurnFine, JobsTell, Stage
  <2> HIDE DEF jobs
  <2>8. StateTells(t)' /\ AsrTells(t)'
    BY <1>1, <2>2, <2>3, <2>4 DEF TurnFine, StateTells, AsrTells, TERMINAL_TURN_STATES
  <2>9. JobsTell(t)'
    <3>1. job'[t]["route"] = job[t]["route"] /\ job'[t]["history"].phase = "ABSENT"
      BY <2>2, <2>6, <2>7 DEF Stage
    <3> QED BY <1>1, <2>2, <2>3, <2>4, <3>1 DEF TurnFine, JobsTell
  <2>10. Waits(t)'
    BY <2>2, <2>4, <2>7 DEF Waits, StageOf
  <2>11. Grows(t)
    <3>1. \A r \in Stage : /\ job[t][r].phase # "ABSENT" => job'[t][r].phase # "ABSENT"
                           /\ job[t][r].last <= job'[t][r].last
      BY <2>2, <2>6, <2>7
    <3> QED BY <2>2, <2>3, <2>4, <3>1 DEF Grows
  <2> QED BY <1>1, <2>2, <2>4, <2>8, <2>9, <2>10, <2>11, HandlerFine DEF TurnFine, Steps
<1>5. CASE RouteAnswered(w, t)
  <2>1. UNCHANGED <<state, asr, events, job>> /\ GoTo(w, "done") /\ "done" \in Steps
    BY <1>5 DEF RouteAnswered, Steps
  <2>2. Answered(t)
    BY <1>5, RouteAnsweredMeans
  <2> QED BY <1>1, <2>1, <2>2, QuietHandler
<1> QED BY <1>2, <1>3, <1>4, <1>5

\* The errors a handler finds ignored are those of an answered turn.
LEMMA IgnoredFine ==
  ASSUME TypeOK, TypeOK', Fine, NEW t \in Turn, NEW w \in Worker, ErrorIgnored(w, t)
  PROVE  Fine' /\ \A u \in Turn : Grows(u)
<1>1. t = running[w].turn
  BY IgnoredClaimed
<1>2. UNCHANGED <<state, asr, events, job>> /\ GoTo(w, "done") /\ "done" \in Steps /\ Answered(t)
  BY DEF ErrorIgnored, Steps, Answered, Succeeded
<1> QED BY <1>1, <1>2, QuietHandler

\* A late or timely answer is a FINAL.
LEMMA ResultIsFinal == ASSUME NEW t, HermesResult(t) PROVE ProtocolFinal(t, "success", FALSE) /\ "success" \in Finals
BY DEF HermesResult, ProtocolFinal, Finals, ScheduleFinals

LEMMA HermesFine ==
  ASSUME TypeOK, TypeOK', Fine, NEW t \in Turn, NEW w \in Worker,
         \/ ClaimIngress(w, t) \/ BindRun(w, t) \/ CommitHermesResult(w, t)
         \/ \E withGrace \in BOOLEAN : CommitHermesError(w, t, withGrace)
         \/ ReleaseIngress(w, t) \/ HermesPending(w, t)
  PROVE  Fine' /\ \A u \in Turn : Grows(u)
<1>1. t = running[w].turn /\ running[w].stage = "hermes" /\ TurnFine(t) /\ {"hermes", "history"} \subseteq Stage
  BY DEF ClaimIngress, BindRun, CommitHermesResult, CommitHermesError, HermesFailed, ReleaseIngress,
         HermesPending, At, Fine, Stage
<1>2. Routed(t)
  BY <1>1, WorkIsAccepted DEF TurnFine, JobsTell
<1>3. CASE ClaimIngress(w, t)
  <2>1. UNCHANGED <<state, asr, events, job>> /\ ingress[t].token + 1 \in Nat
    BY <1>3 DEF ClaimIngress, TypeOK
  <2>2. GoTo(w, "raise") \/ Remember(w, "submit", ingress[t].token + 1)
    BY <1>3 DEF ClaimIngress
  <2>3. {"raise", "submit"} \subseteq Steps
    BY DEF Steps
  <2> QED BY <1>1, <2>1, <2>2, <2>3, QuietHandler
<1>4. CASE BindRun(w, t) \/ ReleaseIngress(w, t)
  <2>1. UNCHANGED <<state, asr, events, job>> /\ \E step \in {"submitted", "check"} : GoTo(w, step)
    BY <1>4 DEF BindRun, ReleaseIngress
  <2>2. {"submitted", "check"} \subseteq Steps
    BY DEF Steps
  <2> QED BY <1>1, <2>1, <2>2, QuietHandler
<1>5. CASE CommitHermesResult(w, t)
  BY <1>1, <1>5, ResultIsFinal, FinalHandler DEF CommitHermesResult
<1>6. ASSUME CommitHermesError(w, t, FALSE) PROVE Fine' /\ \A u \in Turn : Grows(u)
  <2>1. ProtocolFinal(t, "hermes", FALSE) /\ UNCHANGED <<asr, job>> /\ GoTo(w, "done") /\ "hermes" \in Finals
    BY <1>6 DEF CommitHermesError, Finals, ScheduleFinals
  <2> QED BY <1>1, <2>1, FinalHandler
<1>7. ASSUME CommitHermesError(w, t, TRUE) PROVE Fine' /\ \A u \in Turn : Grows(u)
  <2>1. /\ ProtocolFinal(t, "hermes", TRUE) /\ GoTo(w, "done") /\ "hermes" \in Finals /\ asr' = asr
        /\ job' = [job EXCEPT ![t] = Opened(job[t], "history")]
    BY <1>7 DEF CommitHermesError, Finals, ScheduleFinals, TypeOK
  <2>2. job[t] \in [Stage -> [phase: Phases, current: Nat, last: Nat]]
    BY DEF TypeOK
  <2>3. job'[t] = Opened(job[t], "history") /\ \A u \in Turn \ {t} : job'[u] = job[u]
    BY <2>1 DEF TypeOK
  <2>4. \A s \in Stage : /\ job[t][s].phase # "ABSENT" => job'[t][s].phase # "ABSENT"
                         /\ job[t][s].last <= job'[t][s].last
        /\ job'[t]["route"] = job[t]["route"]
    BY <1>1, <2>2, <2>3, OpenedRead DEF Stage
  <2>5. TurnFine(t)' /\ Grows(t)
    BY <1>1, <1>2, <2>1, <2>4, FinalFine
  <2>6. Answered(t)'
    BY <2>1, EventRead DEF ProtocolFinal, Kind
  <2>7. \A u \in Turn \ {t} : UNCHANGED <<state[u], asr[u].outcome, events[u], job[u]>>
    BY <2>1, <2>3, FinalElsewhere
  <2> QED BY <1>1, <2>1, <2>5, <2>6, <2>7, HandlerFine DEF Steps
<1>8. CASE HermesPending(w, t)
  <2>1. UNCHANGED <<state, asr, events, job>> /\ {"raise", "done"} \subseteq Steps
    BY <1>8 DEF HermesPending, Steps
  <2>2. state[t] = "HERMES_PENDING" \/ Answered(t)
    <3>1. events[t] # <<>> /\ state[t] \in TurnStates
      BY <1>2 DEF Routed, TypeOK
    <3>2. state[t] # "RECEIVING"
      BY <1>1, WorkIsAccepted
    <3> QED BY <1>1, <3>1, <3>2 DEF TurnFine, StateTells, TurnStates, TERMINAL_TURN_STATES
  <2>3. CASE state[t] = "HERMES_PENDING" /\ ~Answered(t)
    BY <1>1, <1>8, <2>1, <2>3, QuietHandler DEF HermesPending
  <2>4. CASE ~(state[t] = "HERMES_PENDING" /\ ~Answered(t))
    BY <1>1, <1>8, <2>1, <2>2, <2>4, QuietHandler DEF HermesPending
  <2> QED BY <2>3, <2>4
<1> QED BY <1>3, <1>4, <1>5, <1>6, <1>7, <1>8

LEMMA HistoryFine ==
  ASSUME TypeOK, TypeOK', Fine, NEW t \in Turn, NEW w \in Worker,
         HistoryRead(w, t) \/ HistoryNothing(w, t) \/ HistoryAnswer(w, t) \/ LateResultIgnored(w, t)
  PROVE  Fine' /\ \A u \in Turn : Grows(u)
<1>1. t = running[w].turn
  BY DEF HistoryRead, HistoryNothing, HistoryAnswer, LateResultIgnored, At
<1>2. CASE HistoryRead(w, t) \/ HistoryNothing(w, t)
  <2>1. UNCHANGED <<state, asr, events, job>> /\ \E step \in {"query", "raise", "fatal"} : GoTo(w, step)
    BY <1>2 DEF HistoryRead, HistoryNothing
  <2>2. {"query", "raise", "fatal"} \subseteq Steps
    BY DEF Steps
  <2> QED BY <1>1, <2>1, <2>2, QuietHandler
<1>3. CASE HistoryAnswer(w, t)
  BY <1>1, <1>3, ResultIsFinal, FinalHandler DEF HistoryAnswer
<1>4. CASE LateResultIgnored(w, t)
  <2>1. UNCHANGED <<state, asr, events, job>> /\ GoTo(w, "done") /\ "done" \in Steps /\ Answered(t)
    BY <1>4 DEF LateResultIgnored, TooLate, Answered, Steps
  <2> QED BY <1>1, <2>1, QuietHandler
<1> QED BY <1>2, <1>3, <1>4

-----------------------------------------------------------------------------
(* The remaining steps.                                                    *)

\* Where the turns are fine and the workers' memory stays, all is.
LEMMA TurnsSuffice ==
  ASSUME TypeOK, TypeOK', Fine, \A u \in Turn : TurnFine(u)' /\ Grows(u),
         \A x \in Worker : running'[x] = running[x] \/ running'[x] = Idle
  PROVE  Fine'
<1>1. ASSUME NEW x \in Worker, running'[x] = Idle PROVE WorkerFine(x)'
  BY <1>1 DEF WorkerFine, DoneIsDone, ClaimIsReal, Idle
<1>2. ASSUME NEW x \in Worker, running'[x] = running[x] PROVE WorkerFine(x)'
  BY <1>2, WorkerKept DEF Fine
<1> QED BY <1>1, <1>2 DEF Fine

\* Recovery opens no job: every turn it looks at has the job already.
LEMMA RecoverOpensNothing ==
  ASSUME TypeOK, Fine, Recover, NEW u \in Turn
  PROVE  job'[u] = job[u]
<1>1. TurnFine(u) /\ job'[u] = IF state[u] = "ACCEPTED" THEN Opened(job[u], FirstStage(u)) ELSE job[u]
  BY DEF Recover, Fine
<1>2. CASE state[u] = "ACCEPTED"
  <2>1. ~Answered(u) /\ ~Routed(u)
    BY <1>1, <1>2 DEF TurnFine, StateTells, Answered, Final, Last, Routed, Finals, ScheduleFinals
  <2>2. asr[u].outcome \in AsrOutcomes
    BY DEF TypeOK
  <2>3. FirstStage(u) = StageOf(u)
    BY <1>1, <2>1, <2>2 DEF TurnFine, AsrTells, FirstStage, StageOf, AsrOutcomes
  <2> QED BY <1>1, <1>2, <2>1, <2>3 DEF TurnFine, Waits, Opened
<1> QED BY <1>1, <1>2

LEMMA RecoverFine ==
  ASSUME TypeOK, TypeOK', Fine, Recover
  PROVE  \A u \in Turn : TurnFine(u)' /\ Grows(u)
<1> TAKE u \in Turn
<1>1. UNCHANGED <<asr, events>> /\ TurnFine(u)
  BY DEF Recover, Fine
<1>2. (Answered(u)' <=> Answered(u)) /\ (Routed(u)' <=> Routed(u)) /\ StageOf(u)' = StageOf(u)
  BY <1>1 DEF Answered, Final, Last, Routed, StageOf
<1>3. job'[u] = job[u]
  BY RecoverOpensNothing
<1>4. CASE state'[u] = state[u]
  BY <1>1, <1>3, <1>4, TurnKept
<1>5. CASE state'[u] # state[u]
  <2>1. state'[u] \in {"FAILED_PERMANENT", "EXPIRED"} /\ Final(u) = "hermes"
    BY <1>5 DEF Recover
  <2>2. Answered(u) /\ \A s \in Stage : job[u][s].last \in Nat
    BY <2>1 DEF Answered, TypeOK
  <2> QED BY <1>1, <1>2, <1>3, <2>1, <2>2
          DEF TurnFine, StateTells, AsrTells, JobsTell, Waits, Grows, TERMINAL_TURN_STATES
<1> QED BY <1>4, <1>5

LEMMA AckFine ==
  ASSUME TypeOK, TypeOK', Fine, NEW t \in Turn, NEW i \in DOMAIN events[t], AckEvent(t, i)
  PROVE  \A u \in Turn : TurnFine(u)' /\ Grows(u)
<1> TAKE u \in Turn
<1>1. UNCHANGED <<asr, events, job>> /\ TurnFine(u)
  BY DEF AckEvent, Fine
<1>2. CASE state'[u] = state[u]
  BY <1>1, <1>2, TurnKept
<1>3. CASE state'[u] # state[u]
  <2>1. state' = state \/ (Newest(t, i) /\ \E new \in {"DELIVERED", "FAILED_PERMANENT", "LATE_RESULT_GRACE"} :
                                             state' = [state EXCEPT ![t] = new])
    BY DEF AckEvent
  <2>2. u = t /\ Newest(t, i) /\ state'[t] \in {"DELIVERED", "FAILED_PERMANENT", "LATE_RESULT_GRACE"}
    BY <1>3, <2>1 DEF TypeOK
  <2>3. events[t] \in Seq(Kind) /\ i \in 1 .. Len(events[t])
    <3>1. events \in [Turn -> Seq(Kind)]
      BY DEF TypeOK, Kind
    <3>2. events[t] \in Seq(Kind)
      BY <3>1
    <3>3. DOMAIN events[t] = 1 .. Len(events[t])
      BY <3>2, LenProperties
    <3> QED BY <3>2, <3>3
  <2>4. events[t][i] \in Kind /\ events[t] # <<>> /\ i = Len(events[t])
    BY <2>2, <2>3, ElementOfSeq, EmptySeq DEF Newest
  <2>5. Last(t) \in Finals
    BY <2>4 DEF Last, AckEvent, Kind
  <2>6. Answered(t) /\ Answered(t)' /\ (Routed(t)' <=> Routed(t)) /\ \A s \in Stage : job[t][s].last \in Nat
    BY <1>1, <2>5 DEF Answered, Final, Last, Routed, Finals, ScheduleFinals, TypeOK
  <2> QED BY <1>1, <2>2, <2>6
          DEF TurnFine, StateTells, AsrTells, JobsTell, Waits, Grows, TERMINAL_TURN_STATES
<1> QED BY <1>2, <1>3

LEMMA InitFine == Init => Fine
<1> SUFFICES ASSUME Init PROVE Fine
  OBVIOUS
<1>1. \A t \in Turn, s \in Stage : job[t][s] = NoJob
  BY DEF Init
<1>2. \A t \in Turn : TurnFine(t)
  BY <1>1 DEF Init, TurnFine, StateTells, AsrTells, JobsTell, Waits, NoJob, TERMINAL_TURN_STATES, Stage
<1>3. \A w \in Worker : WorkerFine(w)
  BY DEF Init, WorkerFine, DoneIsDone, ClaimIsReal, Idle
<1> QED BY <1>2, <1>3 DEF Fine

\* Every step leaves every turn and every worker fine.
LEMMA NextFine == ASSUME TypeOK, TypeOK', Fine, [Next]_vars PROVE Fine' /\ \A u \in Turn : Grows(u)
<1>1. ASSUME UNCHANGED <<state, asr, events, job>> PROVE \A u \in Turn : TurnFine(u)' /\ Grows(u)
  BY <1>1, TurnKept DEF Fine
<1>2. CASE UNCHANGED vars
  BY <1>1, <1>2, TurnsSuffice DEF vars, queues
<1>3. ASSUME NEW t \in Turn, NEW w \in Worker, Handler(w, t) PROVE Fine' /\ \A u \in Turn : Grows(u)
  BY <1>3, AsrFine, RouteFine, HermesFine, HistoryFine, IgnoredFine DEF Handler
<1>4. ASSUME NEW t \in Turn, AcceptTurn(t) PROVE Fine' /\ \A u \in Turn : Grows(u)
  <2>1. \A u \in Turn : TurnFine(u)' /\ Grows(u)
    BY <1>4, AcceptTurnFine DEF Fine
  <2> QED BY <1>4, <2>1, TurnsSuffice DEF AcceptTurn
<1>5. ASSUME NEW t \in Turn, NEW s \in Stage, JobExpires(t, s) PROVE Fine' /\ \A u \in Turn : Grows(u)
  <2>1. \A u \in Turn : TurnFine(u)' /\ Grows(u)
    BY <1>5, FailForFine DEF Fine, JobExpires
  <2> QED BY <1>5, <2>1, TurnsSuffice DEF JobExpires
<1>6. ASSUME NEW t \in Turn, NEW s \in Stage, NEW w \in Worker, ClaimJob(w, t, s)
      PROVE  Fine' /\ \A u \in Turn : Grows(u)
  <2> DEFINE n == job[t][s].last + 1
  <2>1. \A u \in Turn : TurnFine(u)' /\ Grows(u)
    BY <1>6, ClaimJobFine DEF Fine
  <2>2. n \in Nat /\ n \in 1 .. n /\ job[t][s].phase = "OPEN"
    <3>1. job[t][s].last \in Nat
      BY DEF TypeOK
    <3>2. job[t][s].phase = "OPEN"
      BY <1>6 DEF ClaimJob
    <3> QED BY <3>1, <3>2
  <2>3. RowIs(t, s, "OPEN", n, n)
    <3> HIDE DEF n
    <3>1. job' = [job EXCEPT ![t][s].current = n, ![t][s].last = n]
      BY <1>6 DEF ClaimJob, n
    <3> QED BY <2>2, <3>1, RowStarts
  <2>4. /\ running'[w] = [turn |-> t, stage |-> s, token |-> n, step |-> "start", seen |-> 0]
        /\ \A x \in Worker \ {w} : running'[x] = running[x]
    <3>1. running \in [Worker -> {Idle} \cup Claimed]
      BY DEF TypeOK, Claimed
    <3>2. running' = [running EXCEPT ![w] = [turn |-> t, stage |-> s, token |-> n, step |-> "start", seen |-> 0]]
      BY <1>6 DEF ClaimJob
    <3> HIDE DEF n
    <3> QED BY <3>1, <3>2
  <2>5. WorkerFine(w)'
    <3> HIDE DEF n
    <3> QED BY <2>2, <2>3, <2>4 DEF WorkerFine, DoneIsDone, ClaimIsReal, RowIs
  <2>6. \A x \in Worker \ {w} : WorkerFine(x)'
    BY <2>1, <2>4, WorkerKept DEF Fine
  <2> QED BY <2>1, <2>5, <2>6 DEF Fine
<1>7. ASSUME NEW w \in Worker, Complete(w) \/ Fail(w) PROVE Fine' /\ \A u \in Turn : Grows(u)
  <2>1. PICK t \in Turn, s \in Stage : t = running[w].turn /\ s = running[w].stage
    BY <1>7, MemoryType DEF Complete, Fail, Claimed
  <2>2. \A u \in Turn : TurnFine(u)' /\ Grows(u)
    BY <1>7, <2>1, CompleteFine, FailFine DEF Fine
  <2>3. running' = [running EXCEPT ![w] = Idle]
    BY <1>7 DEF Complete, Fail
  <2>4. \A x \in Worker : running'[x] = running[x] \/ running'[x] = Idle
    BY <2>3 DEF TypeOK
  <2> QED BY <2>2, <2>4, TurnsSuffice
<1>8. ASSUME NEW w \in Worker, Vanish(w) PROVE Fine' /\ \A u \in Turn : Grows(u)
  <2>1. \A x \in Worker : running'[x] = running[x] \/ running'[x] = Idle
    BY <1>8 DEF Vanish, TypeOK
  <2> QED BY <1>1, <1>8, <2>1, TurnsSuffice DEF Vanish
<1>9. ASSUME NEW t \in Turn, LeaseRunsOut(t) \/ GraceRunsOut(t) PROVE Fine' /\ \A u \in Turn : Grows(u)
  BY <1>1, <1>9, TurnsSuffice DEF LeaseRunsOut, GraceRunsOut
<1>10. ASSUME NEW t \in Turn, NEW i \in DOMAIN events[t], AckEvent(t, i) PROVE Fine' /\ \A u \in Turn : Grows(u)
  BY <1>10, AckFine, TurnsSuffice DEF AckEvent
<1>11. CASE Recover
  BY <1>11, RecoverFine, TurnsSuffice DEF Recover
<1>12. ASSUME NEW t \in Turn, NEW kind \in ScheduleFinals, ScheduleFinal(t, kind)
       PROVE  Fine' /\ \A u \in Turn : Grows(u)
  <2>1. ProtocolFinal(t, kind, FALSE) /\ UNCHANGED <<asr, job, running>> /\ kind \in Finals
    BY <1>12 DEF ScheduleFinal, Finals, ScheduleFinals
  <2>2. TurnFine(t)' /\ Grows(t)
    BY <2>1, FinalAlone DEF Fine
  <2>3. \A u \in Turn \ {t} : TurnFine(u)' /\ Grows(u)
    BY <2>1, FinalElsewhere, TurnKept DEF Fine
  <2> QED BY <2>1, <2>2, <2>3, TurnsSuffice
<1> QED BY <1>2, <1>3, <1>4, <1>5, <1>6, <1>7, <1>8, <1>9, <1>10, <1>11, <1>12 DEF Next

\* No accepted turn is forgotten: until it has a FINAL the job of its stage
\* is open, whatever crashes, refuses or gives up (store.py
\* _enqueue_turn_stage, commit_route, _project_terminal_job_tx).
THEOREM TurnsAreRemembered == Spec => []NoTurnStranded
<1>1. Init => TypeOK /\ Fine
  BY InitType, InitFine
<1>2. TypeOK /\ Fine /\ [Next]_vars => (TypeOK /\ Fine)'
  BY NextType, NextFine
<1>3. Fine => NoTurnStranded
  BY DEF Fine, TurnFine, Waits, NoTurnStranded
<1> QED BY <1>1, <1>2, <1>3, PTL DEF Spec

-----------------------------------------------------------------------------
(* The jobs are those of the contract.                                     *)

\* What one step does to the row of one job.
RowStep(t, s) ==
  LET old == job[t][s]
      new == job'[t][s]
  IN
  \/ new.phase = old.phase /\ new.current = old.current /\ new.last = old.last
  \/ /\ old.phase = "ABSENT" /\ new.phase = "OPEN"
     /\ new.current = old.current /\ new.last = old.last
  \/ /\ old.phase = "OPEN" /\ new.phase = "OPEN" /\ old.last < JobAttempts[s]
     /\ new.current = old.last + 1 /\ new.last = old.last + 1
  \/ /\ old.phase = "OPEN" /\ old.current # 0 /\ new.phase \in {"OPEN", "SUCCEEDED"}
     /\ new.current = 0 /\ new.last = old.last
  \/ old.phase = "OPEN" /\ new.phase = "FAILED" /\ new.current = 0 /\ new.last = old.last

\* A step that writes one row is judged by that row.
LEMMA OneRow ==
  ASSUME NEW t \in Turn, NEW s \in Stage, NEW phase, NEW current, NEW last,
         RowIs(t, s, phase, current, last), RowStep(t, s)
  PROVE  \A u \in Turn, r \in Stage : RowStep(u, r)
<1> TAKE u \in Turn, r \in Stage
<1>1. CASE u = t /\ r = s
  BY <1>1
<1>2. CASE ~(u = t /\ r = s)
  <2>1. job'[u][r] = job[u][r]
    BY <1>2 DEF RowIs
  <2> QED BY <2>1 DEF RowStep
<1> QED BY <1>1, <1>2

LEMMA OpenedRow ==
  ASSUME TypeOK, NEW t \in Turn, NEW s \in Stage, job'[t] = Opened(job[t], s)
  PROVE  \A r \in Stage : RowStep(t, r)
<1>1. job[t] \in [Stage -> [phase: Phases, current: Nat, last: Nat]]
  BY DEF TypeOK
<1>2. \A r \in Stage : r # s => RowStep(t, r)
  BY <1>1, OpenedRead DEF RowStep
<1>3. RowStep(t, s)
  BY <1>1, OpenedRead DEF RowStep
<1> QED BY <1>2, <1>3

LEMMA SameRows ==
  ASSUME NEW t \in Turn, job'[t] = job[t]
  PROVE  \A r \in Stage : RowStep(t, r)
BY DEF RowStep

LEMMA FailForRow ==
  ASSUME TypeOK, NEW t \in Turn, NEW s \in Stage, FailFor(t, s), job[t][s].phase = "OPEN"
  PROVE  \A u \in Turn, r \in Stage : RowStep(u, r)
<1> DEFINE jobs == [job[t] EXCEPT ![s].phase = "FAILED", ![s].current = 0]
<1>1. /\ job[t] \in [Stage -> [phase: Phases, current: Nat, last: Nat]]
      /\ jobs \in [Stage -> [phase: Phases, current: Nat, last: Nat]]
      /\ jobs[s].phase = "FAILED" /\ jobs[s].current = 0 /\ jobs[s].last = job[t][s].last
      /\ \A r \in Stage : r # s => jobs[r] = job[t][r]
  <2>1. job[t] \in [Stage -> [phase: Phases, current: Nat, last: Nat]]
    BY DEF TypeOK
  <2> QED BY <2>1 DEF Phases
<1>2. /\ job'[t] = jobs \/ (s = "hermes" /\ job'[t] = Opened(jobs, "history"))
      /\ \A u \in Turn \ {t} : job'[u] = job[u]
  BY DEF FailFor, Project, TypeOK
<1>3. /\ job'[t][s].phase = "FAILED" /\ job'[t][s].current = 0 /\ job'[t][s].last = job[t][s].last
      /\ \A r \in Stage : r # s => \/ job'[t][r] = job[t][r]
                                   \/ /\ job[t][r].phase = "ABSENT" /\ job'[t][r].phase = "OPEN"
                                      /\ job'[t][r].current = job[t][r].current
                                      /\ job'[t][r].last = job[t][r].last
  <2> HIDE DEF jobs
  <2>1. CASE job'[t] = jobs
    BY <1>1, <2>1
  <2>2. CASE s = "hermes" /\ job'[t] = Opened(jobs, "history")
    <3>1. "history" \in Stage /\ "hermes" \in Stage
      BY DEF Stage
    <3>2. job'[t][s] = jobs[s] /\ \A r \in Stage : r # "history" => job'[t][r] = jobs[r]
      BY <1>1, <2>2, <3>1, OpenedRead
    <3>3. CASE jobs["history"].phase = "ABSENT"
      BY <1>1, <2>2, <3>1, <3>2, <3>3, OpenedRead
    <3>4. CASE jobs["history"].phase # "ABSENT"
      BY <1>1, <2>2, <3>1, <3>2, <3>4 DEF Opened
    <3> QED BY <3>3, <3>4
  <2> QED BY <1>2, <2>1, <2>2
<1>4. \A r \in Stage : RowStep(t, r)
  BY <1>3 DEF RowStep
<1> QED BY <1>2, <1>4, SameRows

\* A live claim is of an attempt in charge.
LEMMA LiveIsInCharge ==
  ASSUME TypeOK, Fine, NEW w \in Worker, running[w] # Idle, Live(w)
  PROVE  /\ running[w].turn \in Turn /\ running[w].stage \in Stage
         /\ job[running[w].turn][running[w].stage].phase = "OPEN"
         /\ job[running[w].turn][running[w].stage].current # 0
<1>1. PICK t \in Turn, s \in Stage : t = running[w].turn /\ s = running[w].stage
  BY MemoryType DEF Claimed
<1>2. running[w].token \in 1 .. job[t][s].last
  BY <1>1 DEF Fine, WorkerFine, ClaimIsReal
<1>3. job[t][s].last \in Nat
  BY DEF TypeOK
<1> QED BY <1>1, <1>2, <1>3 DEF Live

LEMMA NextRows == ASSUME TypeOK, Fine, [Next]_vars PROVE \A t \in Turn, s \in Stage : RowStep(t, s)
<1>1. ASSUME job' = job PROVE \A t \in Turn, s \in Stage : RowStep(t, s)
  BY <1>1, SameRows
<1>2. CASE UNCHANGED vars
  BY <1>1, <1>2 DEF vars
<1>3. ASSUME NEW t \in Turn, NEW s \in Stage, job' = [job EXCEPT ![t] = Opened(job[t], s)]
      PROVE  \A u \in Turn, r \in Stage : RowStep(u, r)
  <2>1. job'[t] = Opened(job[t], s) /\ \A u \in Turn \ {t} : job'[u] = job[u]
    BY <1>3 DEF TypeOK
  <2> QED BY <2>1, OpenedRow, SameRows
<1>4. ASSUME NEW t \in Turn, AcceptTurn(t) PROVE \A u \in Turn, r \in Stage : RowStep(u, r)
  <2>1. job' = [job EXCEPT ![t] = Opened(job[t], FirstStage(t))] /\ FirstStage(t) \in Stage
    BY <1>4 DEF AcceptTurn, FirstStage, Stage
  <2> QED BY <1>3, <2>1
<1>5. ASSUME NEW t \in Turn, NEW w \in Worker, Handler(w, t)
      PROVE  \A u \in Turn, r \in Stage : RowStep(u, r)
  <2>1. \/ job' = job
        \/ \E s \in Stage : job' = [job EXCEPT ![t] = Opened(job[t], s)]
    BY <1>5 DEF Handler, AsrRead, SetAsrStage, AsrUnavailable, AsrGiveUp, CommitAsrResult,
                ClaimRouter, CommitRoute, RouteAnswered, CommitRoutingError, RouteRefused,
                ErrorIgnored, ClaimIngress, BindRun,
                CommitHermesResult, CommitHermesError, ReleaseIngress, HermesPending, HistoryRead,
                HistoryNothing, HistoryAnswer, LateResultIgnored, Stage
  <2> QED BY <1>1, <1>3, <2>1
<1>6. ASSUME NEW t \in Turn, NEW s \in Stage, JobExpires(t, s)
      PROVE  \A u \in Turn, r \in Stage : RowStep(u, r)
  BY <1>6, FailForRow DEF JobExpires
<1>7. ASSUME NEW t \in Turn, NEW s \in Stage, NEW w \in Worker, ClaimJob(w, t, s)
      PROVE  \A u \in Turn, r \in Stage : RowStep(u, r)
  <2>1. job[t][s].last + 1 \in Nat /\ job[t][s].phase = "OPEN" /\ job[t][s].last < JobAttempts[s]
    BY <1>7 DEF TypeOK, ClaimJob
  <2>2. RowIs(t, s, "OPEN", job[t][s].last + 1, job[t][s].last + 1)
    BY <1>7, <2>1, RowStarts DEF ClaimJob
  <2>3. RowStep(t, s)
    BY <2>1, <2>2 DEF RowIs, RowStep
  <2> QED BY <2>2, <2>3, OneRow
<1>8. ASSUME NEW w \in Worker, Complete(w) \/ Fail(w) PROVE \A u \in Turn, r \in Stage : RowStep(u, r)
  <2>1. PICK t \in Turn, s \in Stage : t = running[w].turn /\ s = running[w].stage
    BY <1>8, MemoryType DEF Complete, Fail, Claimed
  <2>2. ASSUME Live(w) PROVE job[t][s].phase = "OPEN" /\ job[t][s].current # 0
    BY <2>1, <2>2, LiveIsInCharge, Nulls DEF Idle
  <2>3. \/ job' = job
        \/ Live(w) /\ job' = [job EXCEPT ![t][s].phase = "SUCCEEDED", ![t][s].current = 0]
        \/ Live(w) /\ job' = [job EXCEPT ![t][s].current = 0]
        \/ Live(w) /\ FailFor(t, s)
    BY <1>8, <2>1 DEF Complete, Fail
  <2>4. CASE Live(w) /\ job' = [job EXCEPT ![t][s].phase = "SUCCEEDED", ![t][s].current = 0]
    <3>1. RowIs(t, s, "SUCCEEDED", 0, job[t][s].last)
      BY <2>4, RowEnds
    <3>2. RowStep(t, s)
      BY <2>2, <2>4, <3>1 DEF RowIs, RowStep
    <3> QED BY <3>1, <3>2, OneRow
  <2>5. CASE Live(w) /\ job' = [job EXCEPT ![t][s].current = 0]
    <3>1. RowIs(t, s, job[t][s].phase, 0, job[t][s].last)
      BY <2>5, RowRests
    <3>2. RowStep(t, s)
      BY <2>2, <2>5, <3>1 DEF RowIs, RowStep
    <3> QED BY <3>1, <3>2, OneRow
  <2> QED BY <1>1, <2>2, <2>3, <2>4, <2>5, FailForRow
<1>9. CASE Recover
  <2>1. \A t \in Turn : job'[t] = job[t] \/ job'[t] = Opened(job[t], FirstStage(t))
    BY <1>9 DEF Recover
  <2>2. \A t \in Turn : FirstStage(t) \in Stage
    BY DEF FirstStage, Stage
  <2> QED BY <2>1, <2>2, SameRows, OpenedRow
<1>10. ASSUME NEW t \in Turn,
              \/ LeaseRunsOut(t) \/ GraceRunsOut(t)
              \/ \E i \in DOMAIN events[t] : AckEvent(t, i)
              \/ \E w \in Worker : Vanish(w)
              \/ \E kind \in ScheduleFinals : ScheduleFinal(t, kind)
       PROVE  job' = job
  BY <1>10 DEF LeaseRunsOut, GraceRunsOut, AckEvent, Vanish, ScheduleFinal
<1>11. ASSUME NEW w \in Worker, Vanish(w) PROVE job' = job
  BY <1>11 DEF Vanish
<1> QED BY <1>1, <1>2, <1>4, <1>5, <1>6, <1>7, <1>8, <1>9, <1>10, <1>11 DEF Next

LEMMA RowStepIsJobStep ==
  ASSUME NEW t \in Turn, NEW s \in Stage, RowStep(t, s)
  PROVE  Contract!JobStep(<<t, s>>)
<1>1. <<t, s>> \in Jobs
  BY DEF Jobs
<1> DEFINE old == job[t][s]
           new == job'[t][s]
<1>2. CASE new.phase = old.phase /\ new.current = old.current /\ new.last = old.last
  BY <1>1, <1>2 DEF Contract!JobStep, Contract!Stay, Contract!Same
<1>3. CASE /\ old.phase = "ABSENT" /\ new.phase = "OPEN"
           /\ new.current = old.current /\ new.last = old.last
  BY <1>1, <1>3 DEF Contract!JobStep, Contract!Open, Contract!Same
<1>4. CASE /\ old.phase = "OPEN" /\ new.phase = "OPEN" /\ old.last < JobAttempts[s]
           /\ new.current = old.last + 1 /\ new.last = old.last + 1
  BY <1>1, <1>4 DEF Contract!JobStep, Contract!Start, Contract!Same
<1>5. CASE /\ old.phase = "OPEN" /\ old.current # 0 /\ new.phase \in {"OPEN", "SUCCEEDED"}
           /\ new.current = 0 /\ new.last = old.last
  BY <1>1, <1>5 DEF Contract!JobStep, Contract!Release, Contract!Succeed, Contract!Same
<1>6. CASE old.phase = "OPEN" /\ new.phase = "FAILED" /\ new.current = 0 /\ new.last = old.last
  BY <1>1, <1>6 DEF Contract!JobStep, Contract!Fail, Contract!Same
<1> QED BY <1>2, <1>3, <1>4, <1>5, <1>6 DEF RowStep

\* What the handlers see of their jobs is what JobContract says of them; with
\* ImplementsContract of WorkerJobs this joins the turn to the worker queue.
THEOREM JobsAsPromised == Spec => JobsKeepContract
<1>1. Init => TypeOK /\ Fine
  BY InitType, InitFine
<1>2. TypeOK /\ Fine /\ [Next]_vars => (TypeOK /\ Fine)'
  BY NextType, NextFine
<1>3. Init => Contract!Init
  <2> SUFFICES ASSUME Init PROVE Contract!Init
    OBVIOUS
  <2>1. \A p \in Jobs : job[p[1]][p[2]] = NoJob
    BY DEF Init, Jobs
  <2> QED BY <2>1 DEF Contract!Init, NoJob
<1>4. TypeOK /\ Fine /\ [Next]_vars => Contract!Next
  <2> SUFFICES ASSUME TypeOK, Fine, [Next]_vars, NEW p \in Jobs PROVE Contract!JobStep(p)
    BY DEF Contract!Next
  <2>1. PICK t \in Turn, s \in Stage : p = <<t, s>>
    BY DEF Jobs
  <2> QED BY <2>1, NextRows, RowStepIsJobStep
<1> QED BY <1>1, <1>2, <1>3, <1>4, PTL DEF Spec, JobsKeepContract, Contract!Spec

-----------------------------------------------------------------------------
(* The FINAL versions of a turn, its state and its acknowledgements.       *)

\* The ingress row of a turn follows its events: no row before the route,
\* settled by an answer or a Hermes error, and by then only searched for.
IngressTells(t) ==
  /\ ingress[t].status # "NONE" => Routed(t)
  /\ Last(t) = "hermes" => ingress[t].status = "FAILED"
  /\ Last(t) = "success" => ingress[t].status = "SUBMITTED"
  /\ job[t]["history"].phase # "ABSENT" => ingress[t].status \in {"FAILED", "SUBMITTED"}

\* A stage of the turn has brought it its FINAL, whatever a schedule answered.
Concluded(t) == Last(t) \in Finals \ ScheduleFinals

\* The transcription comes before the route, and an asr error given without
\* an outcome is the work of the last attempt.
TranscriptTells(t) ==
  /\ job[t]["asr"].phase # "ABSENT" => t \in Voice
  /\ Routed(t) => job[t]["route"].phase # "ABSENT"
  /\ Concluded(t) /\ asr[t].outcome = "NONE" /\ job[t]["asr"].phase = "OPEN"
       => job[t]["asr"].last = JobAttempts["asr"]
  /\ Last(t) = "no_speech" => ~Routed(t)

VersionsTell(t) == \A i \in 1 .. Len(events[t]) - 1 : Replaces(t, events[t][i + 1], events[t][i])

AcksTell(t) ==
  /\ state[t] = "DELIVERED" => Succeeded(t) /\ LastAcked(t)
  /\ state[t] = "FAILED_PERMANENT" => Final(t) \in {"hermes", "routing", "asr"} /\ LastAcked(t)
  /\ state[t] \in {"EXPIRED", "LATE_RESULT_GRACE"} => Final(t) = "hermes"
  /\ state[t] = "FINAL_READY" /\ LastAcked(t) => Final(t) \in {"no_speech", "schedule"}
  /\ state[t] = "HERMES_PENDING" => Routed(t) /\ ~Answered(t)

TurnStory(t) == IngressTells(t) /\ TranscriptTells(t) /\ VersionsTell(t) /\ AcksTell(t)

\* A live transcriber is the first: the turn has no outcome and no FINAL but a
\* schedule's.
\* A live history query is about a turn without an answer.
WorkerStory(w) ==
  /\ running[w].step = "giveup" => running[w].token >= JobAttempts["asr"]
  /\ running[w].stage = "asr" /\ Live(w) /\ running[w].step \in {"start", "stage", "transcribe", "giveup"} =>
       /\ asr[running[w].turn].outcome = "NONE" => ~Concluded(running[w].turn)
       /\ running[w].step # "start" => asr[running[w].turn].outcome = "NONE"
  /\ running[w].stage = "history" /\ Live(w) /\ running[w].step = "query" =>
       Last(running[w].turn) # "success"

SameClaim(w, x) ==
  running[w].turn = running[x].turn /\ running[w].stage = running[x].stage /\ running[w].token = running[x].token

\* No two workers hold the same attempt.
OneEach == \A w, x \in Worker : running[w] # Idle /\ running[x] # Idle /\ SameClaim(w, x) => w = x

Story == (\A t \in Turn : TurnStory(t)) /\ (\A w \in Worker : WorkerStory(w)) /\ OneEach

\* What EndedTurnsStay says of one turn.
Ends(t) ==
  state[t] \in {"DELIVERED", "EXPIRED"} /\ state'[t] # state[t]
    => Final(t) = "confirmed" /\ Len(events'[t]) > Len(events[t])

-----------------------------------------------------------------------------
(* Claims.                                                                 *)

KeepsClaim(x) ==
  /\ running'[x].turn = running[x].turn /\ running'[x].stage = running[x].stage
  /\ running'[x].token = running[x].token

\* A claim that is live after a step was live before.
LEMMA LiveBefore ==
  ASSUME TypeOK, Fine, NEW x \in Worker, running[x] # Idle, KeepsClaim(x), Live(x)',
         \A t \in Turn, s \in Stage : RowStep(t, s)
  PROVE  Live(x)
<1>1. PICK t \in Turn, s \in Stage : t = running[x].turn /\ s = running[x].stage
  BY MemoryType DEF Claimed
<1>2. running[x].token \in 1 .. job[t][s].last /\ job[t][s].phase # "ABSENT" /\ job[t][s].last \in Nat
  BY <1>1 DEF Fine, WorkerFine, ClaimIsReal, TypeOK
<1>3. job'[t][s].phase = "OPEN" /\ job'[t][s].current = running[x].token
  BY <1>1 DEF Live, KeepsClaim
<1>4. job[t][s].phase = "OPEN" /\ job[t][s].current = running[x].token
  BY <1>2, <1>3 DEF RowStep
<1> QED BY <1>1, <1>4 DEF Live

\* Of two workers on one job, one at most is in charge.
LEMMA OneInCharge ==
  ASSUME OneEach, NEW w \in Worker, NEW x \in Worker \ {w}, running[w] # Idle, running[x] # Idle,
         running[x].turn = running[w].turn, running[x].stage = running[w].stage, Live(w)
  PROVE  ~Live(x)
BY DEF OneEach, SameClaim, Live

LEMMA HandlerMoves ==
  ASSUME TypeOK, NEW t \in Turn, NEW w \in Worker, Handler(w, t)
  PROVE  running[w] \in Claimed /\ running[w].turn = t
         /\ \E step, n : GoTo(w, step) \/ Remember(w, step, n)
<1>1. running[w].turn = t
  BY DEF Handler, At, AsrRead, SetAsrStage, AsrUnavailable, AsrGiveUp, CommitAsrResult,
         ClaimRouter, CommitRoute, RouteAnswered, CommitRoutingError, RouteRefused,
         ErrorIgnored, HermesFailed, ClaimIngress, BindRun,
         CommitHermesResult, CommitHermesError, ReleaseIngress, HermesPending, HistoryRead,
         HistoryNothing, HistoryAnswer, LateResultIgnored
<1>2. running[w] \in Claimed
  BY <1>1, MemoryType
<1>3. \E step, n : GoTo(w, step) \/ Remember(w, step, n)
  <2>1. CASE AsrRead(w, t) \/ SetAsrStage(w, t) \/ AsrUnavailable(w, t) \/ AsrGiveUp(w, t)
    BY <2>1 DEF AsrRead, SetAsrStage, AsrUnavailable, AsrGiveUp
  <2>2. CASE \E result \in AsrOutcomes \ {"NONE"} : CommitAsrResult(w, t, result)
    BY <2>2 DEF CommitAsrResult
  <2>3. CASE \/ ClaimRouter(w, t) \/ CommitRoute(w, t) \/ RouteAnswered(w, t)
             \/ CommitRoutingError(w, t) \/ RouteRefused(w, t) \/ ErrorIgnored(w, t)
    BY <2>3 DEF ClaimRouter, CommitRoute, RouteAnswered, CommitRoutingError, RouteRefused, ErrorIgnored
  <2>4. CASE ClaimIngress(w, t) \/ BindRun(w, t) \/ CommitHermesResult(w, t)
    BY <2>4 DEF ClaimIngress, BindRun, CommitHermesResult
  <2>5. CASE \E withGrace \in BOOLEAN : CommitHermesError(w, t, withGrace)
    BY <2>5 DEF CommitHermesError
  <2>6. CASE ReleaseIngress(w, t) \/ HermesPending(w, t)
    BY <2>6 DEF ReleaseIngress, HermesPending
  <2>7. CASE HistoryRead(w, t) \/ HistoryNothing(w, t) \/ HistoryAnswer(w, t) \/ LateResultIgnored(w, t)
    BY <2>7 DEF HistoryRead, HistoryNothing, HistoryAnswer, LateResultIgnored
  <2> QED BY <2>1, <2>2, <2>3, <2>4, <2>5, <2>6, <2>7 DEF Handler
<1> QED BY <1>1, <1>2, <1>3

\* A worker that moves within its handler keeps its claim; the others stay.
LEMMA HandlerKeeps ==
  ASSUME TypeOK, NEW w \in Worker, running[w] \in Claimed,
         \E step, n : GoTo(w, step) \/ Remember(w, step, n)
  PROVE  KeepsClaim(w) /\ \A x \in Worker \ {w} : running'[x] = running[x]
<1>1. running \in [Worker -> {Idle} \cup Claimed]
  BY DEF TypeOK, Claimed
<1>2. ASSUME NEW step, GoTo(w, step)
      PROVE  KeepsClaim(w) /\ \A x \in Worker \ {w} : running'[x] = running[x]
  BY <1>1, <1>2 DEF GoTo, KeepsClaim, Claimed
<1>3. ASSUME NEW step, NEW n, Remember(w, step, n)
      PROVE  KeepsClaim(w) /\ \A x \in Worker \ {w} : running'[x] = running[x]
  <2>1. running'[w] = [running[w] EXCEPT !.step = step, !.seen = n]
        /\ \A x \in Worker \ {w} : running'[x] = running[x]
    BY <1>1, <1>3 DEF Remember
  <2> QED BY <2>1 DEF KeepsClaim, Claimed
<1> QED BY <1>2, <1>3

LEMMA OneEachNext == ASSUME TypeOK, Fine, OneEach, [Next]_vars PROVE OneEach'
<1>1. ASSUME \A x \in Worker : running'[x] = Idle \/ (running[x] # Idle /\ KeepsClaim(x)) PROVE OneEach'
  BY <1>1 DEF OneEach, SameClaim, KeepsClaim
<1>2. ASSUME \A x \in Worker : running'[x] = Idle \/ running'[x] = running[x] PROVE OneEach'
  BY <1>1, <1>2 DEF KeepsClaim
<1>3. ASSUME NEW t \in Turn, NEW w \in Worker, Handler(w, t) PROVE OneEach'
  <2>1. running[w] \in Claimed /\ \E step, n : GoTo(w, step) \/ Remember(w, step, n)
    BY <1>3, HandlerMoves
  <2>2. running[w] # Idle
    BY <2>1, Nulls DEF Claimed, Idle
  <2>3. KeepsClaim(w) /\ \A x \in Worker \ {w} : running'[x] = running[x]
    BY <2>1, HandlerKeeps
  <2> QED BY <1>1, <2>2, <2>3 DEF KeepsClaim
<1>4. ASSUME NEW t \in Turn, NEW s \in Stage, NEW w \in Worker, ClaimJob(w, t, s) PROVE OneEach'
  <2>1. /\ running'[w].turn = t /\ running'[w].stage = s /\ running'[w].token = job[t][s].last + 1
        /\ \A x \in Worker \ {w} : running'[x] = running[x]
    BY <1>4 DEF ClaimJob, TypeOK
  <2>2. ASSUME NEW x \in Worker \ {w}, running[x] # Idle, running[x].turn = t, running[x].stage = s
        PROVE  running[x].token # job[t][s].last + 1
    <3>1. running[x].token \in 1 .. job[t][s].last /\ job[t][s].last \in Nat
      BY <2>2 DEF Fine, WorkerFine, ClaimIsReal, TypeOK
    <3> QED BY <3>1
  <2> QED BY <2>1, <2>2 DEF OneEach, SameClaim
<1>5. ASSUME NEW w \in Worker, Complete(w) \/ Fail(w) \/ Vanish(w) PROVE OneEach'
  <2>1. running' = [running EXCEPT ![w] = Idle]
    BY <1>5 DEF Complete, Fail, Vanish
  <2> QED BY <1>2, <2>1 DEF TypeOK
<1>6. ASSUME UNCHANGED running PROVE OneEach'
  BY <1>2, <1>6
<1> QED BY <1>3, <1>4, <1>5, <1>6
        DEF Next, vars, AcceptTurn, JobExpires, LeaseRunsOut, GraceRunsOut, ScheduleFinal, AckEvent, Recover

-----------------------------------------------------------------------------
(* What a step leaves true of turns and of workers that stay where they are. *)

\* The step gives t no FINAL and no outcome that a transcriber would mind.
AsrCalm(t) ==
  /\ asr'[t].outcome = asr[t].outcome
  /\ Concluded(t)' => Concluded(t) \/ asr[t].outcome # "NONE" \/ t \notin Voice

AnswerCalm(t) == Last(t)' = "success" => Last(t) = "success"

\* Nor does it matter if the worker is no longer in charge.
CalmFor(x) ==
  /\ running[x].stage = "asr" => AsrCalm(running[x].turn) \/ ~Live(x)'
  /\ running[x].stage = "history" => AnswerCalm(running[x].turn) \/ ~Live(x)'

LEMMA WorkerStoryKept ==
  ASSUME TypeOK, Fine, Story, NEW x \in Worker, \A t \in Turn, s \in Stage : RowStep(t, s),
         running'[x] = running[x], running[x] # Idle => CalmFor(x)
  PROVE  WorkerStory(x)'
<1>1. CASE running[x] = Idle
  BY <1>1 DEF WorkerStory, Idle
<1>2. CASE running[x] # Idle
  <2>1. PICK t \in Turn, s \in Stage : t = running[x].turn /\ s = running[x].stage
    BY <1>2, MemoryType DEF Claimed
  <2>2. Live(x)' => Live(x)
    BY <1>2, LiveBefore DEF KeepsClaim
  <2>3. s = "asr" => t \in Voice
    <3>1. job[t][s].phase # "ABSENT"
      BY <2>1, WorkIsAccepted
    <3> QED BY <3>1 DEF Story, TurnStory, TranscriptTells
  <2>4. WorkerStory(x)
    BY DEF Story
  <2> QED BY <1>2, <2>1, <2>2, <2>3, <2>4 DEF WorkerStory, CalmFor, AsrCalm, AnswerCalm
<1> QED BY <1>1, <1>2

\* A turn without a new event.
LEMMA StoryKept ==
  ASSUME TypeOK, NEW t \in Turn, TurnStory(t), Grows(t), \A s \in Stage : RowStep(t, s),
         UNCHANGED <<events[t], acked[t]>>,
         \/ state'[t] = state[t]
         \/ {state[t], state'[t]} \subseteq {"RECEIVING", "ACCEPTED", "PREPROCESSING"},
         asr'[t].outcome = asr[t].outcome \/ asr'[t].outcome # "NONE",
         \/ ingress'[t].status = ingress[t].status
         \/ {ingress[t].status, ingress'[t].status} \subseteq {"QUEUED", "IN_PROGRESS", "LAPSED"},
         job'[t]["history"].phase # "ABSENT" => job[t]["history"].phase # "ABSENT",
         job'[t]["asr"].phase # "ABSENT" => job[t]["asr"].phase # "ABSENT" \/ (t \in Voice /\ ~Answered(t))
  PROVE  TurnStory(t)' /\ Ends(t)
<1>1. /\ Last(t)' = Last(t) /\ (Routed(t)' <=> Routed(t)) /\ (Answered(t)' <=> Answered(t))
      /\ Final(t)' = Final(t) /\ (LastAcked(t)' <=> LastAcked(t))
      /\ (Concluded(t)' <=> Concluded(t)) /\ (Succeeded(t)' <=> Succeeded(t))
  BY DEF Last, Routed, Answered, Final, LastAcked, Concluded, Succeeded
<1>2. IngressTells(t)'
  BY <1>1 DEF TurnStory, IngressTells
<1>3. TranscriptTells(t)'
  <2>1. "asr" \in Stage /\ "route" \in Stage
    BY DEF Stage
  <2>2. TranscriptTells(t) /\ JobAttempts["asr"] \in Nat /\ job[t]["asr"].last \in Nat
    BY <2>1, Attempts DEF TurnStory, TypeOK
  <2>3. Routed(t)' => job'[t]["route"].phase # "ABSENT"
    BY <1>1, <2>1, <2>2 DEF TranscriptTells, Grows
  <2>4. Concluded(t)' /\ asr'[t].outcome = "NONE" /\ job'[t]["asr"].phase = "OPEN"
          => job'[t]["asr"].last = JobAttempts["asr"]
    BY <1>1, <2>1, <2>2, AnsweredMeans DEF TranscriptTells, RowStep, Concluded
  <2> QED BY <1>1, <2>2, <2>3, <2>4 DEF TranscriptTells
<1>4. VersionsTell(t)'
  BY <1>1 DEF TurnStory, VersionsTell, Replaces
<1>5. AcksTell(t)' /\ Ends(t)
  BY <1>1 DEF TurnStory, AcksTell, Ends
<1> QED BY <1>2, <1>3, <1>4, <1>5 DEF TurnStory

LEMMA UntouchedTurn ==
  ASSUME TypeOK, NEW t \in Turn, TurnStory(t),
         UNCHANGED <<state[t], events[t], acked[t], asr[t].outcome, ingress[t].status, job[t]>>
  PROVE  TurnStory(t)' /\ Ends(t) /\ AsrCalm(t) /\ AnswerCalm(t)
<1>1. /\ Last(t)' = Last(t) /\ (Routed(t)' <=> Routed(t)) /\ (Answered(t)' <=> Answered(t))
      /\ Final(t)' = Final(t) /\ (LastAcked(t)' <=> LastAcked(t))
      /\ (Concluded(t)' <=> Concluded(t)) /\ (Succeeded(t)' <=> Succeeded(t))
  BY DEF Last, Routed, Answered, Final, LastAcked, Concluded, Succeeded
<1>2. IngressTells(t)' /\ TranscriptTells(t)'
  BY <1>1 DEF TurnStory, IngressTells, TranscriptTells
<1>3. VersionsTell(t)' /\ AcksTell(t)'
  BY <1>1 DEF TurnStory, VersionsTell, Replaces, AcksTell
<1> QED BY <1>1, <1>2, <1>3 DEF TurnStory, Ends, AsrCalm, AnswerCalm

\* A turn that gets a FINAL, on top of one that may be replaced.
LEMMA StoryGrows ==
  ASSUME TypeOK, NEW t \in Turn, TurnFine(t), TurnStory(t), NEW kind \in Finals, NEW withGrace \in BOOLEAN,
         ProtocolFinal(t, kind, withGrace), withGrace => kind = "hermes", acked' = acked,
         state[t] # "EXPIRED",
         Last(t) = "NONE" \/ Replaces(t, kind, Last(t)),
         kind = "no_speech" => ~Routed(t),
         kind = "hermes" => ingress'[t].status = "FAILED" /\ Routed(t),
         kind = "success" => ingress'[t].status = "SUBMITTED" /\ Routed(t),
         kind \notin {"hermes", "success"} => ingress'[t].status = ingress[t].status,
         kind \notin {"hermes", "success"} => job'[t]["history"].phase = job[t]["history"].phase,
         job'[t]["asr"].phase # "ABSENT" => job[t]["asr"].phase # "ABSENT",
         Routed(t) => job'[t]["route"].phase # "ABSENT",
         asr'[t].outcome = "NONE" /\ job'[t]["asr"].phase = "OPEN"
           => job'[t]["asr"].last = JobAttempts["asr"] \/ kind \in ScheduleFinals
  PROVE  TurnStory(t)' /\ Ends(t)
<1>1. kind \in Kind /\ events' = Inserted(t, kind) /\ Len(events[t]) \in Nat
  BY Appended DEF ProtocolFinal, Kind
<1>2. Last(t)' = kind /\ Final(t)' = kind /\ Answered(t)' /\ (Routed(t)' <=> Routed(t))
  BY <1>1, EventRead DEF Routed, Finals, ScheduleFinals
<1>3. state'[t] \in {"FINAL_READY", "LATE_RESULT_GRACE"} /\ (state'[t] = "LATE_RESULT_GRACE" => kind = "hermes")
  BY DEF ProtocolFinal, TypeOK
<1>4. IngressTells(t)'
  BY <1>2 DEF TurnStory, IngressTells
<1>5. TranscriptTells(t)'
  BY <1>2 DEF TurnStory, TranscriptTells, Concluded
<1>6. /\ DOMAIN events[t] = 1 .. Len(events[t]) /\ Len(events'[t]) = Len(events[t]) + 1
      /\ \A i \in 1 .. Len(events[t]) : events'[t][i] = events[t][i]
  BY <1>1, Appended
<1>7. VersionsTell(t)'
  <2> SUFFICES ASSUME NEW i \in 1 .. Len(events'[t]) - 1 PROVE Replaces(t, events[t][i + 1], events[t][i])'
    BY DEF VersionsTell
  <2>1. i \in 1 .. Len(events[t]) /\ events'[t][i] = events[t][i]
    BY <1>1, <1>6
  <2>2. CASE i = Len(events[t])
    <3>1. events[t] # <<>>
      BY <1>1, <2>1, <2>2
    <3>2. events[t][i] = Last(t) /\ Last(t) # "NONE"
      <4>1. events[t] \in Seq(Kind)
        BY DEF TypeOK, Kind
      <4>2. events[t][i] \in Kind
        BY <2>1, <4>1, ElementOfSeq
      <4> QED BY <2>2, <3>1, <4>2 DEF Last, Kind, Finals, ScheduleFinals
    <3>3. events'[t][i + 1] = kind
      BY <1>1, <2>2, Appended
    <3> QED BY <1>2, <2>1, <3>2, <3>3 DEF Replaces
  <2>3. CASE i # Len(events[t])
    <3>1. i \in 1 .. Len(events[t]) - 1
      BY <1>1, <2>1, <2>3
    <3>2. events'[t][i + 1] = events[t][i + 1]
      BY <1>1, <1>6, <3>1
    <3> QED BY <1>2, <2>1, <3>1, <3>2 DEF TurnStory, VersionsTell, Replaces
  <2> QED BY <2>2, <2>3
<1>8. ~LastAcked(t)'
  <2>1. acked[t] \subseteq 1 .. Len(events[t])
    BY <1>6 DEF TypeOK
  <2> QED BY <1>1, <1>6, <2>1 DEF LastAcked
<1>9. AcksTell(t)'
  BY <1>2, <1>3, <1>8 DEF AcksTell
<1>10. Ends(t)
  <2>1. state[t] = "DELIVERED" => Final(t) \in {"success", "confirmed"} /\ Final(t) = Last(t)
    BY DEF TurnStory, AcksTell, Succeeded, Final
  <2>2. Last(t) # "success"
    BY DEF Replaces
  <2> QED BY <1>1, <1>6, <2>1, <2>2 DEF Ends
<1> QED BY <1>4, <1>5, <1>7, <1>9, <1>10 DEF TurnStory

-----------------------------------------------------------------------------
(* The handlers.                                                           *)

LEMMA HandlerElsewhere ==
  ASSUME TypeOK, NEW t \in Turn, NEW w \in Worker, Handler(w, t), NEW u \in Turn \ {t}
  PROVE  UNCHANGED <<state[u], events[u], acked[u], asr[u].outcome, ingress[u].status, job[u]>>
<1>1. ASSUME NEW kind \in Finals, NEW withGrace \in BOOLEAN, ProtocolFinal(t, kind, withGrace)
      PROVE  UNCHANGED <<state[u], events[u]>>
  BY <1>1, FinalElsewhere
<1>2. {"asr", "routing", "hermes", "success", "no_speech"} \subseteq Finals
  BY DEF Finals, ScheduleFinals
<1>3. CASE \/ AsrRead(w, t) \/ SetAsrStage(w, t) \/ AsrUnavailable(w, t) \/ RouteRefused(w, t)
           \/ ClaimRouter(w, t) \/ RouteAnswered(w, t) \/ ErrorIgnored(w, t)
  BY <1>3 DEF AsrRead, SetAsrStage, AsrUnavailable, RouteRefused, ClaimRouter, RouteAnswered,
              ErrorIgnored, TypeOK, queues
<1>4. CASE AsrGiveUp(w, t) \/ CommitRoutingError(w, t)
  BY <1>1, <1>2, <1>4 DEF AsrGiveUp, CommitRoutingError, queues
<1>5. ASSUME NEW result \in AsrOutcomes \ {"NONE"}, CommitAsrResult(w, t, result)
      PROVE  UNCHANGED <<state[u], events[u], acked[u], asr[u].outcome, ingress[u].status, job[u]>>
  <2>1. asr'[u] = asr[u] /\ job'[u] = job[u] /\ UNCHANGED <<acked, ingress>>
    BY <1>5 DEF CommitAsrResult, TypeOK
  <2>2. UNCHANGED <<state[u], events[u]>>
    BY <1>1, <1>2, <1>5 DEF CommitAsrResult, TypeOK
  <2> QED BY <2>1, <2>2
<1>6. CASE CommitRoute(w, t)
  <2>1. events' = Inserted(t, "ROUTED") /\ "ROUTED" \in Kind
    BY <1>6 DEF CommitRoute, Kind
  <2>2. events'[u] = events[u]
    BY <2>1, Appended
  <2> QED BY <1>6, <2>2 DEF CommitRoute, TypeOK
<1>7. CASE ClaimIngress(w, t) \/ BindRun(w, t) \/ ReleaseIngress(w, t) \/ HermesPending(w, t)
  <2>1. ingress'[u] = ingress[u]
    BY <1>7 DEF ClaimIngress, BindRun, ReleaseIngress, HermesPending, TypeOK, queues
  <2> QED BY <1>7, <2>1 DEF ClaimIngress, BindRun, ReleaseIngress, HermesPending
<1>8. ASSUME HermesResult(t) PROVE UNCHANGED <<state[u], events[u], ingress[u].status>>
  <2>1. UNCHANGED <<state[u], events[u]>>
    BY <1>1, <1>8, ResultIsFinal
  <2>2. ingress'[u] = ingress[u]
    BY <1>8 DEF HermesResult, TypeOK
  <2> QED BY <2>1, <2>2
<1>9. CASE CommitHermesResult(w, t) \/ HistoryAnswer(w, t)
  BY <1>8, <1>9 DEF CommitHermesResult, HistoryAnswer
<1>10. ASSUME NEW withGrace \in BOOLEAN, CommitHermesError(w, t, withGrace)
       PROVE  UNCHANGED <<state[u], events[u], acked[u], asr[u].outcome, ingress[u].status, job[u]>>
  <2>1. UNCHANGED <<state[u], events[u]>>
    BY <1>1, <1>2, <1>10 DEF CommitHermesError
  <2>2. ingress'[u] = ingress[u] /\ job'[u] = job[u]
    BY <1>10 DEF CommitHermesError, TypeOK
  <2> QED BY <1>10, <2>1, <2>2 DEF CommitHermesError
<1>11. CASE HistoryRead(w, t) \/ HistoryNothing(w, t) \/ LateResultIgnored(w, t)
  BY <1>11 DEF HistoryRead, HistoryNothing, LateResultIgnored, queues
<1> QED BY <1>3, <1>4, <1>5, <1>6, <1>7, <1>9, <1>10, <1>11 DEF Handler

\* A handler tells a true story if it does so of its turn and of itself, and
\* the step is one the turn's other workers do not mind.
LEMMA HandlerStory ==
  ASSUME TypeOK, Fine, Story, \A u \in Turn, s \in Stage : RowStep(u, s),
         NEW t \in Turn, NEW w \in Worker, Handler(w, t),
         TurnStory(t)', Ends(t), WorkerStory(w)',
         AsrCalm(t) \/ (Live(w) /\ running[w].stage = "asr"),
         AnswerCalm(t) \/ (Live(w) /\ running[w].stage = "history")
                       \/ job[t]["history"].phase = "ABSENT"
  PROVE  \A u \in Turn : TurnStory(u)' /\ Ends(u)
         /\ \A x \in Worker : WorkerStory(x)'
<1>1. /\ running[w] \in Claimed /\ running[w].turn = t /\ running[w] # Idle
      /\ KeepsClaim(w) /\ \A x \in Worker \ {w} : running'[x] = running[x]
  BY HandlerMoves, HandlerKeeps, Nulls DEF Idle
<1>2. \A u \in Turn \ {t} : TurnStory(u)' /\ Ends(u) /\ AsrCalm(u) /\ AnswerCalm(u)
  BY HandlerElsewhere, UntouchedTurn DEF Story
<1>3. ASSUME NEW x \in Worker \ {w}, running[x] # Idle PROVE CalmFor(x)
  <2>1. CASE running[x].turn # t
    <3>1. running[x].turn \in Turn \ {t}
      BY <1>3, <2>1, MemoryType DEF Claimed
    <3> QED BY <1>2, <3>1 DEF CalmFor
  <2>2. CASE running[x].turn = t
    <3>1. Live(x)' => Live(x)
      BY <1>1, <1>3, LiveBefore DEF KeepsClaim
    <3>2. Live(w) /\ running[w].stage = running[x].stage => ~Live(x)
      BY <1>1, <1>3, <2>2, OneInCharge DEF Story
    <3>3. running[x].stage = "history" => job[t]["history"].phase # "ABSENT"
      BY <2>2, WorkIsAccepted DEF Stage
    <3> QED BY <2>2, <3>1, <3>2, <3>3 DEF CalmFor
  <2> QED BY <2>1, <2>2
<1>4. \A x \in Worker \ {w} : WorkerStory(x)'
  BY <1>1, <1>3, WorkerStoryKept
<1> QED BY <1>2, <1>4

\* No transcriber minds what happens to a turn that is routed.
LEMMA RoutedCalm ==
  ASSUME TypeOK, Fine, Story, NEW t \in Turn, job[t]["route"].phase # "ABSENT" \/ Routed(t), asr' = asr
  PROVE  /\ AsrCalm(t)
         /\ job[t]["route"].phase # "ABSENT"
         /\ asr[t].outcome = "NONE" /\ job[t]["asr"].phase = "OPEN" => job[t]["asr"].last = JobAttempts["asr"]
BY DEF Fine, TurnFine, JobsTell, Story, TurnStory, TranscriptTells, AsrCalm

\* A handler's step on a turn without a new event or outcome.
LEMMA QuietStory ==
  ASSUME TypeOK, Fine, Story, \A u \in Turn, s \in Stage : RowStep(u, s), \A u \in Turn : Grows(u),
         NEW t \in Turn, NEW w \in Worker, Handler(w, t), WorkerStory(w)',
         UNCHANGED <<events, acked, asr[t].outcome, job>>,
         \/ state'[t] = state[t]
         \/ {state[t], state'[t]} \subseteq {"RECEIVING", "ACCEPTED", "PREPROCESSING"},
         \/ ingress'[t].status = ingress[t].status
         \/ {ingress[t].status, ingress'[t].status} \subseteq {"QUEUED", "IN_PROGRESS", "LAPSED"}
  PROVE  \A u \in Turn : TurnStory(u)' /\ Ends(u)
         /\ \A x \in Worker : WorkerStory(x)'
<1>1. TurnStory(t)' /\ Ends(t)
  BY StoryKept DEF Story
<1>2. AsrCalm(t) /\ AnswerCalm(t)
  BY DEF AsrCalm, AnswerCalm, Concluded, Last
<1> QED BY <1>1, <1>2, HandlerStory

\* What a worker tells of itself when it takes a step of its handler.
LEMMA OwnStory ==
  ASSUME TypeOK, Fine, \A u \in Turn, s \in Stage : RowStep(u, s),
         NEW w \in Worker, running[w] \in Claimed, NEW t \in Turn, running[w].turn = t, NEW step \in Steps,
         GoTo(w, step) \/ \E n \in Nat : Remember(w, step, n),
         step = "giveup" => running[w].token >= JobAttempts["asr"],
         running[w].stage = "asr" /\ Live(w) /\ step \in {"start", "stage", "transcribe", "giveup"} =>
           asr'[t].outcome = "NONE" /\ ~Concluded(t)',
         running[w].stage = "history" /\ Live(w) /\ step = "query" => Last(t)' # "success"
  PROVE  WorkerStory(w)'
<1>1. /\ running'[w].turn = running[w].turn /\ running'[w].stage = running[w].stage
      /\ running'[w].token = running[w].token /\ running'[w].step = step
  BY Stepped
<1>2. Live(w)' => Live(w)
  <2>1. running[w] # Idle
    BY Nulls DEF Idle, Claimed
  <2> QED BY <1>1, <2>1, LiveBefore DEF KeepsClaim
<1> QED BY <1>1, <1>2 DEF WorkerStory

LEMMA LastKind == ASSUME TypeOK, NEW t \in Turn PROVE Last(t) \in {"NONE"} \cup Kind
<1>1. events[t] \in Seq(Kind)
  BY DEF TypeOK, Kind
<1>2. events[t] # <<>> => events[t][Len(events[t])] \in Kind
  <2> SUFFICES ASSUME events[t] # <<>> PROVE events[t][Len(events[t])] \in Kind
    OBVIOUS
  <2>1. Len(events[t]) \in 1 .. Len(events[t])
    BY <1>1, EmptySeq
  <2> QED BY <1>1, <2>1, ElementOfSeq
<1> QED BY <1>2 DEF Last

\* The newest event of a turn without a FINAL.
LEMMA LastOpen ==
  ASSUME TypeOK, NEW t \in Turn, TurnStory(t), ~Answered(t)
  PROVE  Last(t) \in {"NONE", "ROUTED"} /\ state[t] # "EXPIRED"
<1>1. Last(t) \notin Finals
  BY AnsweredMeans
<1> QED BY <1>1, LastKind DEF Kind, TurnStory, AcksTell, Answered, Final

\* The newest event of a turn none of whose stages has given a FINAL.
LEMMA LastUnconcluded ==
  ASSUME TypeOK, NEW t \in Turn, TurnStory(t), ~Concluded(t)
  PROVE  Last(t) \in {"NONE", "ROUTED"} \cup ScheduleFinals /\ state[t] # "EXPIRED"
<1>1. Last(t) \in {"NONE", "ROUTED"} \cup ScheduleFinals
  BY LastKind DEF Concluded, Kind
<1> QED BY <1>1 DEF TurnStory, AcksTell, Final, ScheduleFinals

LEMMA AsrStory ==
  ASSUME TypeOK, Fine, Story, \A u \in Turn, s \in Stage : RowStep(u, s), \A u \in Turn : Grows(u),
         NEW t \in Turn, NEW w \in Worker,
         \/ AsrRead(w, t) \/ SetAsrStage(w, t) \/ AsrUnavailable(w, t) \/ AsrGiveUp(w, t)
         \/ \E result \in AsrOutcomes \ {"NONE"} : CommitAsrResult(w, t, result)
  PROVE  \A u \in Turn : TurnStory(u)' /\ Ends(u)
         /\ \A x \in Worker : WorkerStory(x)'
<1>1. /\ Handler(w, t) /\ running[w].turn = t /\ running[w].stage = "asr"
      /\ running[w] \in Claimed /\ TurnStory(t) /\ TurnFine(t) /\ WorkerStory(w)
  <2>1. Handler(w, t) /\ running[w].stage = "asr"
    BY DEF Handler, AsrRead, SetAsrStage, AsrUnavailable, AsrGiveUp, CommitAsrResult, At
  <2> QED BY <2>1, HandlerMoves DEF Story, Fine
<1>2. /\ asr \in [Turn -> [generation: Nat, outcome: AsrOutcomes]]
      /\ running[w].seen \in Nat /\ running[w].token \in Nat /\ JobAttempts["asr"] \in Nat
  BY <1>1, Attempts DEF TypeOK, Claimed, Stage
<1>3. t \in Voice /\ job[t]["asr"].phase # "ABSENT" /\ "asr" \in Stage
  <2>1. "asr" \in Stage
    BY DEF Stage
  <2>2. job[t]["asr"].phase # "ABSENT"
    BY <1>1, <2>1, WorkIsAccepted
  <2> QED BY <1>1, <2>1, <2>2 DEF TurnStory, TranscriptTells
<1>4. CASE AsrRead(w, t)
  <2>1. UNCHANGED <<state, asr, ingress, events, acked, job>>
    BY <1>4 DEF AsrRead, queues
  <2>2. CASE asr[t].outcome = "NONE"
    <3>1. Remember(w, "stage", asr[t].generation) /\ asr[t].generation \in Nat /\ running[w].step = "start"
      BY <1>2, <1>4, <2>2 DEF AsrRead, At
    <3>2. Live(w) => ~Concluded(t)'
      BY <1>1, <2>1, <2>2, <3>1 DEF WorkerStory, Concluded, Last
    <3>3. WorkerStory(w)'
      BY <1>1, <2>1, <2>2, <3>1, <3>2, OwnStory DEF Steps
    <3> QED BY <1>1, <2>1, <3>3, QuietStory
  <2>3. CASE asr[t].outcome # "NONE"
    <3>1. GoTo(w, "done") /\ "done" \in Steps
      BY <1>4, <2>3 DEF AsrRead, Steps
    <3>2. WorkerStory(w)'
      BY <1>1, <3>1, OwnStory
    <3> QED BY <1>1, <2>1, <3>2, QuietStory
  <2> QED BY <2>2, <2>3
<1>5. CASE SetAsrStage(w, t)
  <2>1. /\ UNCHANGED <<ingress, events, acked, job>> /\ asr'[t].outcome = asr[t].outcome /\ asr[t].outcome = "NONE"
        /\ \/ state'[t] = state[t]
           \/ state[t] \in {"ACCEPTED", "RETRY_WAIT"} /\ state'[t] = "PREPROCESSING"
    BY <1>2, <1>5 DEF SetAsrStage, TypeOK, queues
  <2>2. state[t] # "RETRY_WAIT"
    <3>1. state[t] \in TurnStates
      BY DEF TypeOK
    <3> QED BY <3>1 DEF TurnStates
  <2>3. Remember(w, "transcribe", running[w].seen + 1) /\ running[w].seen + 1 \in Nat /\ running[w].step = "stage"
    BY <1>2, <1>5 DEF SetAsrStage, At
  <2>4. Live(w) => ~Concluded(t)'
    BY <1>1, <2>1, <2>3 DEF WorkerStory, Concluded, Last
  <2>5. WorkerStory(w)'
    BY <1>1, <2>1, <2>3, <2>4, OwnStory DEF Steps
  <2> QED BY <1>1, <2>1, <2>2, <2>5, QuietStory
<1>6. CASE AsrUnavailable(w, t)
  <2>1. UNCHANGED <<state, asr, ingress, events, acked, job>>
    BY <1>6 DEF AsrUnavailable, queues
  <2>2. running[w].step = "transcribe"
    BY <1>6 DEF AsrUnavailable, At
  <2>3. Live(w) => ~Concluded(t)' /\ asr'[t].outcome = "NONE"
    BY <1>1, <2>1, <2>2 DEF WorkerStory, Concluded, Last
  <2>4. GoTo(w, "raise") \/ (GoTo(w, "giveup") /\ running[w].token >= JobAttempts["asr"])
    BY <1>2, <1>6 DEF AsrUnavailable
  <2>5. WorkerStory(w)'
    <3>1. CASE GoTo(w, "raise")
      BY <1>1, <3>1, OwnStory DEF Steps
    <3>2. CASE GoTo(w, "giveup") /\ running[w].token >= JobAttempts["asr"]
      BY <1>1, <2>3, <3>2, OwnStory DEF Steps
    <3> QED BY <2>4, <3>1, <3>2
  <2> QED BY <1>1, <2>1, <2>5, QuietStory
<1>7. CASE AsrGiveUp(w, t)
  <2>1. /\ ProtocolFinal(t, "asr", FALSE) /\ UNCHANGED <<asr, ingress, job, acked>> /\ "asr" \in Finals
        /\ GoTo(w, "done") /\ Live(w) /\ ~Answered(t) /\ running[w].step = "giveup"
    BY <1>7 DEF AsrGiveUp, Finals, ScheduleFinals, Fence, queues, At
  <2>2. job[t]["asr"].last = JobAttempts["asr"]
    <3>1. running[w].token >= JobAttempts["asr"]
      BY <1>1, <2>1 DEF WorkerStory
    <3>2. running[w].token \in 1 .. job[t]["asr"].last /\ job[t]["asr"].last <= JobAttempts["asr"]
          /\ job[t]["asr"].last \in Nat
      <4>1. running[w] # Idle
        BY <1>1, Nulls DEF Idle
      <4> QED BY <1>1, <1>3, <4>1 DEF Fine, WorkerFine, ClaimIsReal, TypeOK
    <3> QED BY <1>2, <3>1, <3>2
  <2>3. TurnStory(t)' /\ Ends(t)
    <3>1. Last(t) \in {"NONE", "ROUTED"} /\ state[t] # "EXPIRED"
      BY <1>1, <2>1, LastOpen
    <3>2. Routed(t) => job[t]["route"].phase # "ABSENT"
      BY <1>1 DEF TurnStory, TranscriptTells
    <3> QED BY <1>1, <2>1, <2>2, <3>1, <3>2, StoryGrows DEF Replaces
  <2>4. AnswerCalm(t)
    BY <2>1, EventRead DEF ProtocolFinal, Kind, AnswerCalm
  <2>5. WorkerStory(w)'
    BY <1>1, <2>1, OwnStory DEF Steps
  <2> QED BY <1>1, <2>1, <2>3, <2>4, <2>5, HandlerStory
<1>8. ASSUME NEW result \in AsrOutcomes \ {"NONE"}, CommitAsrResult(w, t, result)
      PROVE  \A u \in Turn : TurnStory(u)' /\ Ends(u)
             /\ \A x \in Worker : WorkerStory(x)'
  <2>1. /\ asr'[t].outcome = result /\ result # "NONE" /\ UNCHANGED <<ingress, acked>>
        /\ GoTo(w, "done") /\ Live(w) /\ running[w].step = "transcribe"
    BY <1>2, <1>8 DEF CommitAsrResult, Fence, At
  <2>2. WorkerStory(w)'
    BY <1>1, <2>1, OwnStory DEF Steps
  <2>3. asr[t].outcome = "NONE" /\ ~Concluded(t)
    BY <1>1, <2>1 DEF WorkerStory
  <2>4. job[t]["route"].phase = "ABSENT" /\ ~Routed(t)
    BY <1>1, <1>3, <2>3 DEF TurnFine, JobsTell, TurnStory, TranscriptTells
  <2>5. CASE result = "VALID_TRANSCRIPT"
    <3>1. /\ events' = events /\ job'[t] = Opened(job[t], "route")
          /\ \/ state'[t] = state[t]
             \/ state[t] \in {"ACCEPTED", "PREPROCESSING", "RETRY_WAIT"} /\ state'[t] = "ACCEPTED"
      BY <1>8, <2>5 DEF CommitAsrResult, TypeOK
    <3>2. state[t] # "RETRY_WAIT" /\ job[t] \in [Stage -> [phase: Phases, current: Nat, last: Nat]]
      <4>1. state[t] \in TurnStates /\ job[t] \in [Stage -> [phase: Phases, current: Nat, last: Nat]]
        BY DEF TypeOK
      <4> QED BY <4>1 DEF TurnStates
    <3>3. job'[t]["history"] = job[t]["history"] /\ job'[t]["asr"] = job[t]["asr"]
      BY <3>1, <3>2, OpenedRead DEF Stage
    <3>4. TurnStory(t)' /\ Ends(t)
      BY <1>1, <2>1, <3>1, <3>2, <3>3, StoryKept
    <3>5. AnswerCalm(t)
      BY <3>1 DEF AnswerCalm, Last
    <3> QED BY <1>1, <2>1, <2>2, <3>4, <3>5, HandlerStory
  <2>6. CASE result # "VALID_TRANSCRIPT"
    <3>1. PICK kind \in {"no_speech", "asr"} : ProtocolFinal(t, kind, FALSE) /\ job' = job
      BY <1>8, <2>6 DEF CommitAsrResult, AsrOutcomes
    <3>2. kind \in Finals /\ kind \in Kind
      BY DEF Finals, ScheduleFinals, Kind
    <3>3. Last(t) \in {"NONE", "ROUTED"} \cup ScheduleFinals /\ state[t] # "EXPIRED"
      BY <1>1, <2>3, LastUnconcluded
    <3>4. Last(t) = "NONE" \/ Replaces(t, kind, Last(t))
      BY <3>3 DEF Replaces, ScheduleFinals
    <3>5. TurnStory(t)' /\ Ends(t)
      BY <1>1, <2>1, <2>4, <3>1, <3>2, <3>3, <3>4, StoryGrows
    <3>6. AnswerCalm(t)
      BY <3>1, <3>2, EventRead DEF ProtocolFinal, AnswerCalm
    <3> QED BY <1>1, <2>1, <2>2, <3>5, <3>6, HandlerStory
  <2> QED BY <2>5, <2>6
<1> QED BY <1>4, <1>5, <1>6, <1>7, <1>8

LEMMA RouteStory ==
  ASSUME TypeOK, Fine, Story, \A u \in Turn, s \in Stage : RowStep(u, s), \A u \in Turn : Grows(u),
         NEW t \in Turn, NEW w \in Worker,
         \/ ClaimRouter(w, t) \/ CommitRoute(w, t) \/ RouteAnswered(w, t)
         \/ CommitRoutingError(w, t) \/ RouteRefused(w, t)
  PROVE  \A u \in Turn : TurnStory(u)' /\ Ends(u)
         /\ \A x \in Worker : WorkerStory(x)'
<1>1. /\ Handler(w, t) /\ running[w].turn = t /\ running[w].stage = "route"
      /\ running[w] \in Claimed /\ TurnStory(t) /\ TurnFine(t)
  <2>1. Handler(w, t) /\ running[w].stage = "route"
    BY DEF Handler, ClaimRouter, CommitRoute, RouteAnswered, CommitRoutingError, RouteRefused, At
  <2> QED BY <2>1, HandlerMoves DEF Story, Fine
<1>2. WorkerStory(w)'
  <2>1. \E step \in {"decide", "raise", "fatal", "done"} : GoTo(w, step)
    BY DEF ClaimRouter, CommitRoute, RouteAnswered, CommitRoutingError, RouteRefused
  <2>2. {"decide", "raise", "fatal", "done"} \subseteq Steps
    BY DEF Steps
  <2> QED BY <1>1, <2>1, <2>2, OwnStory
<1>3. job[t]["route"].phase # "ABSENT"
  BY <1>1, WorkIsAccepted DEF Stage
<1>4. CASE ClaimRouter(w, t) \/ RouteAnswered(w, t) \/ RouteRefused(w, t)
  <2>1. UNCHANGED <<state, asr, ingress, events, acked, job>>
    BY <1>4 DEF ClaimRouter, RouteAnswered, RouteRefused, queues
  <2> QED BY <1>1, <1>2, <2>1, QuietStory
<1>5. CASE CommitRoutingError(w, t)
  <2>1. /\ ProtocolFinal(t, "routing", FALSE) /\ UNCHANGED <<asr, ingress, job, acked>> /\ "routing" \in Finals
        /\ ~Answered(t)
    BY <1>5 DEF CommitRoutingError, Finals, ScheduleFinals
  <2>2. AsrCalm(t) /\ (asr[t].outcome = "NONE" /\ job[t]["asr"].phase = "OPEN" => job[t]["asr"].last = JobAttempts["asr"])
    BY <1>3, <2>1, RoutedCalm
  <2>3. Last(t) \in {"NONE", "ROUTED"} /\ state[t] # "EXPIRED"
    BY <1>1, <2>1, LastOpen
  <2>4. TurnStory(t)' /\ Ends(t)
    BY <1>1, <1>3, <2>1, <2>2, <2>3, StoryGrows DEF Replaces
  <2>5. AnswerCalm(t)
    BY <2>1, EventRead DEF ProtocolFinal, Kind, AnswerCalm
  <2> QED BY <1>1, <1>2, <2>2, <2>4, <2>5, HandlerStory
<1>6. CASE CommitRoute(w, t)
  <2>1. /\ job'[t] = Opened(job[t], "hermes") /\ state'[t] = "HERMES_PENDING" /\ asr' = asr /\ acked' = acked
        /\ events' = Inserted(t, "ROUTED") /\ ingress'[t].status = "QUEUED" /\ "ROUTED" \in Kind
    BY <1>6 DEF CommitRoute, TypeOK, Kind
  <2>2. events[t] = <<>> /\ ~Answered(t) /\ state[t] = "ACCEPTED"
    <3>1. state[t] = "ACCEPTED"
      <4>1. state[t] \in TurnStates
        BY DEF TypeOK
      <4> QED BY <1>6, <4>1 DEF CommitRoute, TurnStates
    <3> QED BY <1>1, <3>1 DEF TurnFine, StateTells, Answered, Final, Last, Finals, ScheduleFinals
  <2>3. /\ events'[t] = <<"ROUTED">> /\ Last(t)' = "ROUTED" /\ Routed(t)'
    BY <2>1, <2>2, EventRead
  <2>4. ~Answered(t)' /\ ~Concluded(t)'
    BY <2>3 DEF Answered, Final, Finals, ScheduleFinals, Concluded
  <2>5. job[t] \in [Stage -> [phase: Phases, current: Nat, last: Nat]]
    BY DEF TypeOK
  <2>6. \A s \in {"asr", "route", "history"} : job'[t][s] = job[t][s]
    BY <2>1, <2>5, OpenedRead DEF Stage
  <2>7. IngressTells(t)'
    BY <1>1, <2>1, <2>2, <2>3, <2>6 DEF IngressTells, TurnFine, JobsTell
  <2>8. TranscriptTells(t)'
    BY <1>1, <1>3, <2>3, <2>4, <2>6 DEF TurnStory, TranscriptTells
  <2>9. VersionsTell(t)' /\ AcksTell(t)' /\ Ends(t)
    <3>1. Len(events'[t]) = 1
      BY <2>3
    <3>2. VersionsTell(t)'
      BY <3>1 DEF VersionsTell
    <3> QED BY <2>1, <2>2, <2>3, <2>4, <3>2 DEF AcksTell, Ends
  <2>10. AsrCalm(t) /\ AnswerCalm(t)
    BY <2>1, <2>3, <2>4 DEF AsrCalm, AnswerCalm
  <2> QED BY <1>1, <1>2, <2>7, <2>8, <2>9, <2>10, HandlerStory DEF TurnStory
<1> QED BY <1>4, <1>5, <1>6

LEMMA HermesStory ==
  ASSUME TypeOK, Fine, Story, \A u \in Turn, s \in Stage : RowStep(u, s), \A u \in Turn : Grows(u),
         NEW t \in Turn, NEW w \in Worker,
         \/ ClaimIngress(w, t) \/ BindRun(w, t) \/ CommitHermesResult(w, t)
         \/ \E withGrace \in BOOLEAN : CommitHermesError(w, t, withGrace)
         \/ ReleaseIngress(w, t) \/ HermesPending(w, t)
  PROVE  \A u \in Turn : TurnStory(u)' /\ Ends(u)
         /\ \A x \in Worker : WorkerStory(x)'
<1>1. /\ Handler(w, t) /\ running[w].turn = t /\ running[w].stage = "hermes"
      /\ running[w] \in Claimed /\ TurnStory(t) /\ TurnFine(t)
  <2>1. Handler(w, t) /\ running[w].stage = "hermes"
    BY DEF Handler, ClaimIngress, BindRun, CommitHermesResult, CommitHermesError, HermesFailed,
           ReleaseIngress, HermesPending, At
  <2> QED BY <2>1, HandlerMoves DEF Story, Fine
<1>2. WorkerStory(w)'
  <2>1. \/ \E step \in {"raise", "submitted", "check", "done"} : GoTo(w, step)
        \/ Remember(w, "submit", ingress[t].token + 1)
    BY DEF ClaimIngress, BindRun, CommitHermesResult, CommitHermesError, ReleaseIngress, HermesPending
  <2>2. {"raise", "submitted", "check", "done", "submit"} \subseteq Steps /\ ingress[t].token + 1 \in Nat
    BY DEF Steps, TypeOK
  <2> QED BY <1>1, <2>1, <2>2, OwnStory
<1>3. Routed(t) /\ "hermes" \in Stage
  BY <1>1, WorkIsAccepted DEF TurnFine, JobsTell, Stage
<1>4. ingress \in [Turn -> Rows]
  BY DEF TypeOK, Rows
<1>5. CASE ClaimIngress(w, t) \/ BindRun(w, t) \/ ReleaseIngress(w, t) \/ HermesPending(w, t)
  <2>1. UNCHANGED <<state, asr, events, acked, job>>
    BY <1>5 DEF ClaimIngress, BindRun, ReleaseIngress, HermesPending
  <2>2. \/ ingress'[t].status = ingress[t].status
        \/ {ingress[t].status, ingress'[t].status} \subseteq {"QUEUED", "IN_PROGRESS", "LAPSED"}
    <3>1. CASE ClaimIngress(w, t)
      BY <1>4, <3>1 DEF ClaimIngress, Rows
    <3>2. CASE BindRun(w, t)
      BY <1>4, <3>2 DEF BindRun, Rows
    <3>3. CASE ReleaseIngress(w, t)
      BY <1>4, <3>3 DEF ReleaseIngress, Rows
    <3>4. CASE HermesPending(w, t)
      BY <3>4 DEF HermesPending, queues
    <3> QED BY <1>5, <3>1, <3>2, <3>3, <3>4
  <2> QED BY <1>1, <1>2, <2>1, <2>2, QuietStory
<1>6. ASSUME HoldsIngress(w, t)
      PROVE  /\ Last(t) \in {"ROUTED", "routing", "asr"} \cup ScheduleFinals
             /\ state[t] # "EXPIRED" /\ job[t]["history"].phase = "ABSENT"
  <2>1. ingress[t].status = "IN_PROGRESS"
    BY <1>6 DEF HoldsIngress
  <2>2. Last(t) \notin {"hermes", "success", "no_speech"} /\ job[t]["history"].phase = "ABSENT"
    BY <1>1, <1>3, <2>1 DEF TurnStory, IngressTells, TranscriptTells
  <2>3. Last(t) # "NONE"
    <3>1. events[t] # <<>>
      BY <1>3 DEF Routed
    <3>2. events[t] \in Seq(Kind) /\ Len(events[t]) \in 1 .. Len(events[t])
      BY <3>1, EmptySeq DEF TypeOK, Kind
    <3>3. events[t][Len(events[t])] \in Kind
      BY <3>2, ElementOfSeq
    <3> QED BY <3>1, <3>3 DEF Last, Kind, Finals, ScheduleFinals
  <2> QED BY <1>1, <2>2, <2>3, LastKind DEF Kind, Finals, ScheduleFinals, TurnStory, AcksTell, Final
<1>7. CASE CommitHermesResult(w, t)
  <2>1. /\ ProtocolFinal(t, "success", FALSE) /\ "success" \in Finals /\ HoldsIngress(w, t)
        /\ UNCHANGED <<asr, job, acked>> /\ ingress'[t].status = "SUBMITTED"
    BY <1>4, <1>7, ResultIsFinal DEF CommitHermesResult, HermesResult, Rows
  <2>2. /\ AsrCalm(t) /\ job[t]["route"].phase # "ABSENT"
        /\ asr[t].outcome = "NONE" /\ job[t]["asr"].phase = "OPEN" => job[t]["asr"].last = JobAttempts["asr"]
    BY <1>3, <2>1, RoutedCalm
  <2>3. Replaces(t, "success", Last(t))
    BY <1>3, <1>6, <2>1 DEF Replaces, ScheduleFinals
  <2>4. TurnStory(t)' /\ Ends(t)
    BY <1>1, <1>3, <1>6, <2>1, <2>2, <2>3, StoryGrows
  <2> QED BY <1>1, <1>2, <1>6, <2>1, <2>2, <2>4, HandlerStory
<1>8. ASSUME NEW withGrace \in BOOLEAN, CommitHermesError(w, t, withGrace)
      PROVE  \A u \in Turn : TurnStory(u)' /\ Ends(u)
             /\ \A x \in Worker : WorkerStory(x)'
  <2>1. /\ ProtocolFinal(t, "hermes", withGrace) /\ "hermes" \in Finals /\ HoldsIngress(w, t)
        /\ UNCHANGED <<asr, acked>> /\ ingress'[t].status = "FAILED"
        /\ job'[t] = job[t] \/ job'[t] = Opened(job[t], "history")
    BY <1>4, <1>8 DEF CommitHermesError, HermesFailed, Finals, ScheduleFinals, Rows, TypeOK
  <2>2. /\ AsrCalm(t) /\ job[t]["route"].phase # "ABSENT"
        /\ asr[t].outcome = "NONE" /\ job[t]["asr"].phase = "OPEN" => job[t]["asr"].last = JobAttempts["asr"]
    BY <1>3, <2>1, RoutedCalm
  <2>3. job'[t]["asr"] = job[t]["asr"] /\ job'[t]["route"] = job[t]["route"]
    <3>1. job[t] \in [Stage -> [phase: Phases, current: Nat, last: Nat]]
      BY DEF TypeOK
    <3> QED BY <2>1, <3>1, OpenedRead DEF Stage
  <2>4. TurnStory(t)' /\ Ends(t)
    <3>1. Last(t) # "confirmed"
      BY <1>8 DEF CommitHermesError, Succeeded, Final, Finals, ScheduleFinals
    <3>2. Replaces(t, "hermes", Last(t))
      BY <1>3, <1>6, <2>1, <3>1 DEF Replaces, ScheduleFinals
    <3> QED BY <1>1, <1>3, <1>6, <2>1, <2>2, <2>3, <3>2, StoryGrows
  <2>5. AnswerCalm(t)
    BY <2>1, EventRead DEF ProtocolFinal, Kind, AnswerCalm
  <2> QED BY <1>1, <1>2, <2>2, <2>4, <2>5, HandlerStory
<1> QED BY <1>5, <1>7, <1>8

LEMMA HistoryStory ==
  ASSUME TypeOK, Fine, Story, \A u \in Turn, s \in Stage : RowStep(u, s), \A u \in Turn : Grows(u),
         NEW t \in Turn, NEW w \in Worker,
         HistoryRead(w, t) \/ HistoryNothing(w, t) \/ HistoryAnswer(w, t) \/ LateResultIgnored(w, t)
  PROVE  \A u \in Turn : TurnStory(u)' /\ Ends(u)
         /\ \A x \in Worker : WorkerStory(x)'
<1>1. /\ Handler(w, t) /\ running[w].turn = t /\ running[w].stage = "history"
      /\ running[w] \in Claimed /\ TurnStory(t) /\ TurnFine(t) /\ WorkerStory(w)
  <2>1. Handler(w, t) /\ running[w].stage = "history"
    BY DEF Handler, HistoryRead, HistoryNothing, HistoryAnswer, LateResultIgnored, At
  <2> QED BY <2>1, HandlerMoves DEF Story, Fine
<1>2. {"query", "fatal", "raise", "done"} \subseteq Steps
  BY DEF Steps
<1>3. CASE HistoryRead(w, t)
  <2>1. UNCHANGED <<state, asr, ingress, events, acked, job>>
    BY <1>3 DEF HistoryRead, queues
  <2>2. GoTo(w, "fatal") \/ (GoTo(w, "query") /\ Final(t) # "success")
    BY <1>3 DEF HistoryRead, Succeeded
  <2>3. Final(t) # "success" => Last(t)' # "success"
    BY <2>1 DEF Final, Last, Finals, ScheduleFinals
  <2>4. WorkerStory(w)'
    <3>1. CASE GoTo(w, "fatal")
      BY <1>1, <1>2, <3>1, OwnStory
    <3>2. CASE GoTo(w, "query") /\ Final(t) # "success"
      BY <1>1, <1>2, <2>3, <3>2, OwnStory
    <3> QED BY <2>2, <3>1, <3>2
  <2> QED BY <1>1, <2>1, <2>4, QuietStory
<1>4. CASE HistoryNothing(w, t) \/ LateResultIgnored(w, t)
  <2>1. UNCHANGED <<state, asr, ingress, events, acked, job>> /\ \E step \in {"raise", "fatal", "done"} : GoTo(w, step)
    BY <1>4 DEF HistoryNothing, LateResultIgnored, queues
  <2>2. WorkerStory(w)'
    BY <1>1, <1>2, <2>1, OwnStory
  <2> QED BY <1>1, <2>1, <2>2, QuietStory
<1>5. CASE HistoryAnswer(w, t)
  <2>1. /\ ProtocolFinal(t, "success", FALSE) /\ "success" \in Finals /\ ~TooLate(t)
        /\ UNCHANGED <<asr, job, acked>> /\ ingress'[t].status = "SUBMITTED"
        /\ GoTo(w, "done") /\ Live(w) /\ running[w].step = "query"
    BY <1>5, ResultIsFinal DEF HistoryAnswer, HermesResult, Fence, At, TypeOK
  <2>2. Routed(t) /\ Answered(t)
    BY <1>1, WorkIsAccepted DEF TurnFine, JobsTell, Stage
  <2>3. Replaces(t, "success", Last(t))
    <3>1. Last(t) # "success" /\ Last(t) # "no_speech" /\ Last(t) \in Finals
      BY <1>1, <2>1, <2>2, AnsweredMeans DEF WorkerStory, TurnStory, TranscriptTells
    <3> QED BY <2>2, <3>1 DEF Finals, ScheduleFinals, Replaces
  <2>4. state[t] # "EXPIRED"
    BY <1>1, <2>1 DEF TurnStory, AcksTell, TooLate
  <2>5. /\ AsrCalm(t) /\ job[t]["route"].phase # "ABSENT"
        /\ asr[t].outcome = "NONE" /\ job[t]["asr"].phase = "OPEN" => job[t]["asr"].last = JobAttempts["asr"]
    BY <2>1, <2>2, RoutedCalm
  <2>6. TurnStory(t)' /\ Ends(t)
    BY <1>1, <2>1, <2>2, <2>3, <2>4, <2>5, StoryGrows
  <2>7. WorkerStory(w)'
    BY <1>1, <1>2, <2>1, OwnStory
  <2> QED BY <1>1, <2>1, <2>5, <2>6, <2>7, HandlerStory
<1> QED BY <1>3, <1>4, <1>5

-----------------------------------------------------------------------------
(* The remaining steps.                                                    *)

LEMMA IgnoredStory ==
  ASSUME TypeOK, Fine, Story, \A u \in Turn, s \in Stage : RowStep(u, s), \A u \in Turn : Grows(u),
         NEW t \in Turn, NEW w \in Worker, ErrorIgnored(w, t)
  PROVE  \A u \in Turn : TurnStory(u)' /\ Ends(u)
         /\ \A x \in Worker : WorkerStory(x)'
<1>1. /\ Handler(w, t) /\ running[w].turn = t /\ running[w] \in Claimed
      /\ GoTo(w, "done") /\ "done" \in Steps /\ UNCHANGED <<state, asr, ingress, events, acked, job>>
  BY IgnoredClaimed DEF ErrorIgnored, Handler, Steps, queues
<1>2. WorkerStory(w)'
  BY <1>1, OwnStory
<1> QED BY <1>1, <1>2, QuietStory

\* A schedule answers a turn that has no FINAL, and no stage minds.
LEMMA ScheduleFinalStory ==
  ASSUME TypeOK, Fine, Story, NEW t \in Turn, NEW kind \in ScheduleFinals, ScheduleFinal(t, kind)
  PROVE  \A u \in Turn : TurnStory(u)' /\ Ends(u) /\ AsrCalm(u) /\ AnswerCalm(u)
<1>1. /\ ProtocolFinal(t, kind, FALSE) /\ UNCHANGED <<asr, ingress, job, acked>> /\ ~Answered(t)
      /\ kind \in Finals /\ kind \in Kind /\ kind \notin {"no_speech", "hermes", "success"}
  BY DEF ScheduleFinal, queues, Kind, Finals, ScheduleFinals
<1>2. ASSUME NEW u \in Turn \ {t} PROVE TurnStory(u)' /\ Ends(u) /\ AsrCalm(u) /\ AnswerCalm(u)
  <2>1. UNCHANGED <<state[u], events[u]>>
    BY <1>1, FinalElsewhere
  <2> QED BY <1>1, <2>1, UntouchedTurn DEF Story
<1>3. TurnFine(t) /\ TurnStory(t) /\ (Routed(t) => job[t]["route"].phase # "ABSENT")
  BY DEF Fine, Story, TurnStory, TranscriptTells
<1>4. Last(t) \in {"NONE", "ROUTED"} /\ state[t] # "EXPIRED"
  BY <1>1, <1>3, LastOpen
<1>5. TurnStory(t)' /\ Ends(t)
  BY <1>1, <1>3, <1>4, StoryGrows DEF Replaces
<1>6. Last(t)' = kind
  BY <1>1, EventRead DEF ProtocolFinal
<1>7. AsrCalm(t) /\ AnswerCalm(t)
  BY <1>1, <1>6 DEF AsrCalm, AnswerCalm, Concluded
<1> QED BY <1>2, <1>5, <1>7

LEMMA FailForStory ==
  ASSUME TypeOK, Fine, Story, \A u \in Turn, s \in Stage : RowStep(u, s), \A u \in Turn : Grows(u),
         NEW t \in Turn, NEW s \in Stage, FailFor(t, s), job[t][s].phase = "OPEN", acked' = acked
  PROVE  \A u \in Turn : /\ TurnStory(u)' /\ Ends(u) /\ AnswerCalm(u)
                         /\ AsrCalm(u) \/ (u = t /\ s = "asr" /\ job'[t]["asr"].phase = "FAILED")
<1> DEFINE jobs == [job[t] EXCEPT ![s].phase = "FAILED", ![s].current = 0]
<1>1. /\ jobs \in [Stage -> [phase: Phases, current: Nat, last: Nat]] /\ jobs[s].phase = "FAILED"
      /\ \A r \in Stage : r # s => jobs[r] = job[t][r]
  <2>1. job[t] \in [Stage -> [phase: Phases, current: Nat, last: Nat]]
    BY DEF TypeOK
  <2> QED BY <2>1 DEF Phases
<1>2. TurnFine(t) /\ TurnStory(t) /\ {"asr", "route", "hermes", "history"} = Stage
  BY DEF Fine, Story, Stage
<1>3. ASSUME NEW u \in Turn \ {t} PROVE TurnStory(u)' /\ Ends(u) /\ AnswerCalm(u) /\ AsrCalm(u)
  <2>1. asr'[u] = asr[u] /\ ingress'[u] = ingress[u] /\ acked'[u] = acked[u]
    <3>1. asr' = asr \/ asr' = [asr EXCEPT ![t].outcome = "PROVIDER_ERROR"]
      BY DEF FailFor, Project
    <3>2. ingress' = ingress \/ ingress' = [ingress EXCEPT ![t].status = "FAILED"]
      BY DEF FailFor, Project
    <3> QED BY <3>1, <3>2 DEF TypeOK
  <2>2. job'[u] = job[u]
    <3>1. job' = [job EXCEPT ![t] = jobs] \/ job' = [job EXCEPT ![t] = Opened(jobs, "history")]
      BY DEF FailFor, Project
    <3> HIDE DEF jobs
    <3> QED BY <3>1 DEF TypeOK
  <2>3. UNCHANGED <<state[u], events[u]>>
    <3>1. \/ UNCHANGED <<state, events>>
          \/ \E kind \in {"hermes", "asr", "routing"}, withGrace \in BOOLEAN : ProtocolFinal(t, kind, withGrace)
      BY DEF FailFor, Project
    <3>2. {"hermes", "asr", "routing"} \subseteq Finals
      BY DEF Finals, ScheduleFinals
    <3> QED BY <3>1, <3>2, FinalElsewhere
  <2> QED BY <2>1, <2>2, <2>3, UntouchedTurn DEF Story
<1>4. job'[t] = jobs \/ (s = "hermes" /\ ~Answered(t) /\ job'[t] = Opened(jobs, "history"))
  BY DEF FailFor, Project, TypeOK
<1>5. /\ \A r \in Stage \ {s, "history"} : job'[t][r] = job[t][r]
      /\ job'[t][s].phase = "FAILED"
      /\ s # "hermes" \/ Answered(t) => (job[t]["history"].phase = "ABSENT" => job'[t]["history"].phase = "ABSENT")
      /\ s \in {"asr", "route"} => job'[t]["history"] = job[t]["history"]
  <2> HIDE DEF jobs
  <2>1. CASE job'[t] = jobs
    BY <1>1, <1>2, <2>1
  <2>2. CASE s = "hermes" /\ ~Answered(t) /\ job'[t] = Opened(jobs, "history")
    BY <1>1, <1>2, <2>2, OpenedRead
  <2> QED BY <1>4, <2>1, <2>2
<1>6. CASE Answered(t) \/ s = "history"
  <2>1. UNCHANGED <<state, asr, ingress, events>>
    BY <1>6 DEF FailFor, Project
  <2>2. job'[t]["asr"].phase # "ABSENT" => job[t]["asr"].phase # "ABSENT"
    BY <1>2, <1>5
  <2>3. s = "history" => job[t]["history"].phase # "ABSENT"
    OBVIOUS
  <2>4. job'[t]["history"].phase # "ABSENT" => job[t]["history"].phase # "ABSENT"
    BY <1>2, <1>5, <1>6, <2>3
  <2>5. TurnStory(t)' /\ Ends(t)
    BY <1>2, <2>1, <2>2, <2>4, StoryKept
  <2>6. AsrCalm(t) /\ AnswerCalm(t)
    BY <2>1 DEF AsrCalm, AnswerCalm, Concluded, Last
  <2> QED BY <1>3, <2>5, <2>6
<1>7. CASE ~Answered(t) /\ s = "hermes"
  <2>1. /\ ProtocolFinal(t, "hermes", TRUE) /\ ingress'[t].status = "FAILED" /\ asr' = asr /\ "hermes" \in Finals
    <3>1. ingress \in [Turn -> Rows]
      BY DEF TypeOK, Rows
    <3>2. ProtocolFinal(t, "hermes", TRUE) /\ ingress' = [ingress EXCEPT ![t].status = "FAILED"] /\ asr' = asr
      BY <1>7 DEF FailFor, Project
    <3> QED BY <3>1, <3>2 DEF Rows, Finals, ScheduleFinals
  <2>2. Routed(t)
    BY <1>2, <1>7 DEF TurnFine, JobsTell
  <2>3. /\ AsrCalm(t) /\ job[t]["route"].phase # "ABSENT"
        /\ asr[t].outcome = "NONE" /\ job[t]["asr"].phase = "OPEN" => job[t]["asr"].last = JobAttempts["asr"]
    BY <2>1, <2>2, RoutedCalm
  <2>4. Last(t) \in {"NONE", "ROUTED"} /\ state[t] # "EXPIRED"
    BY <1>2, <1>7, LastOpen
  <2>5. job'[t]["asr"] = job[t]["asr"] /\ job'[t]["route"] = job[t]["route"]
    BY <1>2, <1>5, <1>7
  <2>6. TurnStory(t)' /\ Ends(t)
    BY <1>2, <2>1, <2>2, <2>3, <2>4, <2>5, StoryGrows DEF Replaces
  <2>7. AnswerCalm(t)
    BY <2>1, EventRead DEF ProtocolFinal, Kind, AnswerCalm
  <2> QED BY <1>3, <2>3, <2>6, <2>7
<1>8. CASE ~Answered(t) /\ s \in {"asr", "route"}
  <2>1. PICK kind \in {"asr", "routing"} : ProtocolFinal(t, kind, FALSE)
    BY <1>8 DEF FailFor, Project
  <2>2. /\ ingress' = ingress /\ kind \in Finals /\ kind \in Kind
        /\ s = "asr" => asr'[t].outcome = "PROVIDER_ERROR"
        /\ s = "route" => asr' = asr
    <3>1. asr \in [Turn -> [generation: Nat, outcome: AsrOutcomes]]
      BY DEF TypeOK
    <3>2. ingress' = ingress /\ asr' = IF s = "asr" THEN [asr EXCEPT ![t].outcome = "PROVIDER_ERROR"] ELSE asr
      BY <1>8 DEF FailFor, Project
    <3> QED BY <3>1, <3>2 DEF Finals, ScheduleFinals, Kind
  <2>3. s = "route" => /\ AsrCalm(t)
                       /\ asr[t].outcome = "NONE" /\ job[t]["asr"].phase = "OPEN" => job[t]["asr"].last = JobAttempts["asr"]
    BY <2>2, RoutedCalm
  <2>4. Last(t) \in {"NONE", "ROUTED"} /\ state[t] # "EXPIRED"
    BY <1>2, <1>8, LastOpen
  <2>5. asr'[t].outcome = "NONE" /\ job'[t]["asr"].phase = "OPEN" => job'[t]["asr"].last = JobAttempts["asr"]
    BY <1>2, <1>5, <1>8, <2>2, <2>3
  <2>6. Routed(t) => job'[t]["route"].phase # "ABSENT"
    BY <1>2, <1>5, <1>8 DEF TurnStory, TranscriptTells
  <2>7. job'[t]["asr"].phase # "ABSENT" => job[t]["asr"].phase # "ABSENT"
    BY <1>2, <1>5, <1>8
  <2>8. TurnStory(t)' /\ Ends(t)
    BY <1>2, <1>5, <1>8, <2>1, <2>2, <2>4, <2>5, <2>6, <2>7, StoryGrows DEF Replaces
  <2>9. AnswerCalm(t)
    BY <2>1, <2>2, EventRead DEF ProtocolFinal, AnswerCalm
  <2> QED BY <1>3, <1>5, <1>8, <2>3, <2>8, <2>9
<1> QED BY <1>2, <1>6, <1>7, <1>8

LEMMA AcceptTurnStory ==
  ASSUME TypeOK, Fine, Story, \A u \in Turn, s \in Stage : RowStep(u, s), \A u \in Turn : Grows(u),
         NEW t \in Turn, AcceptTurn(t)
  PROVE  \A u \in Turn : TurnStory(u)' /\ Ends(u) /\ AsrCalm(u) /\ AnswerCalm(u)
<1>1. /\ UNCHANGED <<asr, ingress, events, acked>> /\ state[t] = "RECEIVING" /\ state'[t] = "ACCEPTED"
      /\ job'[t] = Opened(job[t], FirstStage(t))
  BY DEF AcceptTurn, TypeOK
<1>2. ASSUME NEW u \in Turn \ {t} PROVE TurnStory(u)' /\ Ends(u) /\ AsrCalm(u) /\ AnswerCalm(u)
  <2>1. state'[u] = state[u] /\ job'[u] = job[u]
    BY DEF AcceptTurn, TypeOK
  <2> QED BY <1>1, <2>1, UntouchedTurn DEF Story
<1>3. FirstStage(t) \in {"asr", "route"} /\ (FirstStage(t) = "asr" => t \in Voice)
  BY DEF FirstStage
<1>4. job[t] \in [Stage -> [phase: Phases, current: Nat, last: Nat]]
  BY DEF TypeOK
<1>5. job'[t]["history"] = job[t]["history"] /\ (FirstStage(t) # "asr" => job'[t]["asr"] = job[t]["asr"])
  BY <1>1, <1>3, <1>4, OpenedRead DEF Stage
<1>6. ~Answered(t)
  BY <1>1 DEF Fine, TurnFine, StateTells, Answered, Final, Last, Finals, ScheduleFinals
<1>7. TurnStory(t)' /\ Ends(t)
  BY <1>1, <1>3, <1>5, <1>6, StoryKept DEF Story
<1>8. AsrCalm(t) /\ AnswerCalm(t)
  BY <1>1 DEF AsrCalm, AnswerCalm, Concluded, Last
<1> QED BY <1>2, <1>7, <1>8

\* A step of the queue that opens no job and ends none in failure.
LEMMA QueueStory ==
  ASSUME TypeOK, Fine, Story, \A u \in Turn, s \in Stage : RowStep(u, s), \A u \in Turn : Grows(u),
         UNCHANGED <<state, asr, ingress, events, acked>>,
         \A u \in Turn, s \in Stage : job[u][s].phase = "ABSENT" => job'[u][s].phase = "ABSENT"
  PROVE  \A u \in Turn : TurnStory(u)' /\ Ends(u) /\ AsrCalm(u) /\ AnswerCalm(u)
<1> TAKE u \in Turn
<1>1. /\ job'[u]["history"].phase # "ABSENT" => job[u]["history"].phase # "ABSENT"
      /\ job'[u]["asr"].phase # "ABSENT" => job[u]["asr"].phase # "ABSENT"
  BY DEF Stage
<1>2. TurnStory(u)' /\ Ends(u)
  BY <1>1, StoryKept DEF Story
<1>3. AsrCalm(u) /\ AnswerCalm(u)
  BY DEF AsrCalm, AnswerCalm, Concluded, Last
<1> QED BY <1>2, <1>3

LEMMA RecoverStory ==
  ASSUME TypeOK, Fine, Story, \A u \in Turn, s \in Stage : RowStep(u, s), \A u \in Turn : Grows(u), Recover
  PROVE  \A u \in Turn : TurnStory(u)' /\ Ends(u) /\ AsrCalm(u) /\ AnswerCalm(u)
<1> TAKE u \in Turn
<1>1. UNCHANGED <<asr, events, acked>> /\ job'[u] = job[u] /\ TurnStory(u)
  BY RecoverOpensNothing DEF Recover, Story
<1>2. \/ ingress'[u].status = ingress[u].status
      \/ {ingress[u].status, ingress'[u].status} \subseteq {"QUEUED", "IN_PROGRESS", "LAPSED"}
  <2>1. ingress[u] \in Rows
    BY DEF TypeOK, Rows
  <2>2. ingress'[u] = IF ingress[u].status = "LAPSED" THEN [ingress[u] EXCEPT !.status = "QUEUED"] ELSE ingress[u]
    BY DEF Recover
  <2> QED BY <2>1, <2>2 DEF Rows
<1>3. AsrCalm(u) /\ AnswerCalm(u)
  BY <1>1 DEF AsrCalm, AnswerCalm, Concluded, Last
<1>4. CASE state'[u] = state[u]
  BY <1>1, <1>2, <1>3, <1>4, StoryKept
<1>5. CASE state'[u] # state[u]
  <2>1. /\ state[u] = "LATE_RESULT_GRACE" /\ Final(u) = "hermes"
        /\ state'[u] = IF LastAcked(u) THEN "FAILED_PERMANENT" ELSE "EXPIRED"
    BY <1>5 DEF Recover
  <2>2. /\ Last(u)' = Last(u) /\ (Routed(u)' <=> Routed(u)) /\ (Answered(u)' <=> Answered(u))
        /\ Final(u)' = Final(u) /\ (LastAcked(u)' <=> LastAcked(u)) /\ (Concluded(u)' <=> Concluded(u))
    BY <1>1 DEF Last, Routed, Answered, Final, LastAcked, Concluded
  <2>3. IngressTells(u)' /\ TranscriptTells(u)'
    BY <1>1, <1>2, <2>2 DEF TurnStory, IngressTells, TranscriptTells
  <2>4. VersionsTell(u)'
    BY <1>1, <2>2 DEF TurnStory, VersionsTell, Replaces
  <2>5. AcksTell(u)' /\ Ends(u)
    BY <2>1, <2>2 DEF AcksTell, Ends
  <2> QED BY <1>3, <2>3, <2>4, <2>5 DEF TurnStory
<1> QED BY <1>4, <1>5

LEMMA AckStory ==
  ASSUME TypeOK, Story, NEW t \in Turn, NEW i \in DOMAIN events[t], AckEvent(t, i)
  PROVE  \A u \in Turn : TurnStory(u)' /\ Ends(u) /\ AsrCalm(u) /\ AnswerCalm(u)
<1>1. UNCHANGED <<asr, ingress, events, job>>
  BY DEF AckEvent, queues
<1>2. ASSUME NEW u \in Turn \ {t} PROVE TurnStory(u)' /\ Ends(u) /\ AsrCalm(u) /\ AnswerCalm(u)
  <2>1. acked'[u] = acked[u]
    BY DEF AckEvent
  <2>2. state'[u] = state[u]
    <3>1. state' = state \/ \E new \in {"DELIVERED", "FAILED_PERMANENT", "LATE_RESULT_GRACE"} :
                              state' = [state EXCEPT ![t] = new]
      BY DEF AckEvent
    <3> QED BY <3>1 DEF TypeOK
  <2> QED BY <1>1, <2>1, <2>2, UntouchedTurn DEF Story
<1>3. /\ Last(t)' = Last(t) /\ (Routed(t)' <=> Routed(t)) /\ (Answered(t)' <=> Answered(t))
      /\ Final(t)' = Final(t) /\ (Concluded(t)' <=> Concluded(t)) /\ (Succeeded(t)' <=> Succeeded(t))
  BY <1>1 DEF Last, Routed, Answered, Final, Concluded, Succeeded
<1>4. IngressTells(t)' /\ TranscriptTells(t)' /\ VersionsTell(t)'
  BY <1>1, <1>3 DEF Story, TurnStory, IngressTells, TranscriptTells, VersionsTell, Replaces
<1>5. AcksTell(t)' /\ Ends(t)
  <2>1. /\ events[t] # <<>> /\ events[t] \in Seq(Kind) /\ events[t][i] \in Finals /\ i \in 1 .. Len(events[t])
    <3>1. events[t] \in Seq(Kind)
      BY DEF TypeOK, Kind
    <3>2. events[t][i] \in Kind /\ i \in 1 .. Len(events[t])
      BY <3>1, ElementOfSeq
    <3>3. events[t] # <<>>
      BY <3>1, <3>2, EmptySeq
    <3> QED BY <3>1, <3>2, <3>3 DEF AckEvent, Kind
  <2>2. AcksTell(t) /\ state[t] \in TurnStates
    BY DEF Story, TurnStory, TypeOK
  <2>3. acked'[t] = acked[t] \cup {i}
    BY DEF AckEvent, TypeOK
  <2>4. CASE ~Newest(t, i)
    <3>1. state' = state /\ i # Len(events[t])
      BY <2>4 DEF AckEvent, Newest
    <3>2. LastAcked(t)' <=> LastAcked(t)
      BY <1>1, <2>3, <3>1 DEF LastAcked
    <3> QED BY <1>3, <2>2, <3>1, <3>2 DEF AcksTell, Ends
  <2>5. CASE Newest(t, i)
    <3>1. Final(t) = events[t][i] /\ Answered(t) /\ (Succeeded(t) <=> events[t][i] \in {"success", "confirmed"})
      BY <2>1, <2>5 DEF Newest, Final, Last, Answered, Finals, ScheduleFinals, Succeeded
    <3>2. LastAcked(t)'
      BY <1>1, <2>1, <2>5, <2>3 DEF LastAcked, Newest
    <3>3. \/ events[t][i] \in {"success", "confirmed"} /\ state'[t] = "DELIVERED"
          \/ events[t][i] \in {"routing", "asr"} /\ state'[t] = "FAILED_PERMANENT"
          \/ events[t][i] = "hermes" /\ state[t] \notin TERMINAL_TURN_STATES /\ state'[t] = "LATE_RESULT_GRACE"
          \/ events[t][i] = "hermes" /\ state[t] \in TERMINAL_TURN_STATES /\ state'[t] = state[t]
          \/ events[t][i] \in {"no_speech", "schedule"} /\ state'[t] = state[t]
      BY <2>1, <2>5 DEF AckEvent, TypeOK, Finals, ScheduleFinals
    <3>4. Ends(t)
      BY <2>2, <3>1, <3>3 DEF AcksTell, Ends, TERMINAL_TURN_STATES
    <3>5. AcksTell(t)'
      BY <1>3, <2>2, <3>1, <3>2, <3>3 DEF AcksTell, TERMINAL_TURN_STATES
    <3> QED BY <3>4, <3>5
  <2> QED BY <2>4, <2>5
<1>6. AsrCalm(t) /\ AnswerCalm(t)
  BY <1>1, <1>3 DEF AsrCalm, AnswerCalm
<1> QED BY <1>2, <1>4, <1>5, <1>6 DEF TurnStory

\* Workers that stay where they are, or stop, while turns stay calm.
LEMMA WorkersKept ==
  ASSUME TypeOK, Fine, Story, \A u \in Turn, s \in Stage : RowStep(u, s),
         \A u \in Turn : AnswerCalm(u) /\ (AsrCalm(u) \/ job'[u]["asr"].phase = "FAILED"),
         NEW x \in Worker, running'[x] = running[x] \/ running'[x] = Idle
  PROVE  WorkerStory(x)'
<1>1. CASE running'[x] = Idle
  BY <1>1 DEF WorkerStory, Idle
<1>2. CASE running'[x] = running[x] /\ running[x] # Idle
  <2>1. PICK t \in Turn : t = running[x].turn
    BY <1>2, MemoryType DEF Claimed
  <2>2. running[x].stage = "asr" => AsrCalm(t) \/ ~Live(x)'
    BY <1>2, <2>1 DEF Live
  <2>3. CalmFor(x)
    BY <2>1, <2>2 DEF CalmFor
  <2> QED BY <1>2, <2>3, WorkerStoryKept
<1>3. CASE running'[x] = running[x] /\ running[x] = Idle
  BY <1>1, <1>3
<1> QED BY <1>1, <1>2, <1>3

LEMMA InitStory == Init => Story
<1> SUFFICES ASSUME Init PROVE Story
  OBVIOUS
<1>1. ASSUME NEW t \in Turn PROVE TurnStory(t)
  <2>1. events[t] = <<>> /\ state[t] = "RECEIVING" /\ ingress[t].status = "NONE" /\ \A s \in Stage : job[t][s] = NoJob
    BY DEF Init
  <2>2. Last(t) = "NONE" /\ ~Routed(t) /\ ~Answered(t) /\ ~Concluded(t)
    BY <2>1 DEF Last, Routed, Answered, Final, Finals, ScheduleFinals, Concluded
  <2>3. Len(events[t]) = 0
    BY <2>1
  <2>4. VersionsTell(t)
    BY <2>3 DEF VersionsTell
  <2>5. IngressTells(t) /\ TranscriptTells(t) /\ AcksTell(t)
    BY <2>1, <2>2 DEF IngressTells, TranscriptTells, AcksTell, NoJob, Stage
  <2> QED BY <2>4, <2>5 DEF TurnStory
<1>2. \A w \in Worker : WorkerStory(w) /\ running[w] = Idle
  BY DEF Init, WorkerStory, Idle
<1> QED BY <1>1, <1>2 DEF Story, OneEach

\* Every step keeps every turn's story, and no ended turn is revived.
LEMMA NextStory ==
  ASSUME TypeOK, Fine, Story, \A u \in Turn, s \in Stage : RowStep(u, s), \A u \in Turn : Grows(u), [Next]_vars
  PROVE  Story' /\ \A u \in Turn : Ends(u)
<1>1. OneEach'
  BY OneEachNext DEF Story
<1>2. ASSUME \A u \in Turn : /\ TurnStory(u)' /\ Ends(u) /\ AnswerCalm(u)
                             /\ AsrCalm(u) \/ job'[u]["asr"].phase = "FAILED",
             \A x \in Worker : running'[x] = running[x] \/ running'[x] = Idle
      PROVE  Story' /\ \A u \in Turn : Ends(u)
  BY <1>1, <1>2, WorkersKept DEF Story
<1>3. CASE UNCHANGED vars
  <2>1. \A u \in Turn : TurnStory(u)' /\ Ends(u) /\ AsrCalm(u) /\ AnswerCalm(u)
    BY <1>3, UntouchedTurn DEF Story, vars, queues
  <2> QED BY <1>2, <1>3, <2>1 DEF vars
<1>4. ASSUME NEW t \in Turn, NEW w \in Worker, Handler(w, t) PROVE Story' /\ \A u \in Turn : Ends(u)
  <2>1. \A u \in Turn : TurnStory(u)' /\ Ends(u)
        /\ \A x \in Worker : WorkerStory(x)'
    BY <1>4, AsrStory, RouteStory, HermesStory, HistoryStory, IgnoredStory DEF Handler
  <2> QED BY <1>1, <2>1 DEF Story
<1>5. ASSUME NEW t \in Turn, AcceptTurn(t) PROVE Story' /\ \A u \in Turn : Ends(u)
  BY <1>2, <1>5, AcceptTurnStory DEF AcceptTurn
<1>6. ASSUME NEW t \in Turn, NEW s \in Stage, JobExpires(t, s) PROVE Story' /\ \A u \in Turn : Ends(u)
  BY <1>2, <1>6, FailForStory DEF JobExpires
<1>7. ASSUME NEW t \in Turn, NEW s \in Stage, NEW w \in Worker, ClaimJob(w, t, s)
      PROVE  Story' /\ \A u \in Turn : Ends(u)
  <2> DEFINE n == job[t][s].last + 1
  <2>1. n \in Nat /\ job[t][s].phase = "OPEN" /\ job[t][s].last < JobAttempts[s] /\ JobAttempts[s] \in Nat
        /\ job[t][s].last \in Nat
    BY <1>7, Attempts DEF TypeOK, ClaimJob
  <2>2. RowIs(t, s, "OPEN", n, n)
    <3> HIDE DEF n
    <3>1. job' = [job EXCEPT ![t][s].current = n, ![t][s].last = n]
      BY <1>7 DEF ClaimJob, n
    <3> QED BY <2>1, <3>1, RowStarts
  <2>3. UNCHANGED <<state, asr, ingress, events, acked>>
        /\ \A u \in Turn, r \in Stage : job[u][r].phase = "ABSENT" => job'[u][r].phase = "ABSENT"
    <3>1. UNCHANGED <<state, asr, ingress, events, acked>>
      BY <1>7 DEF ClaimJob, queues
    <3> HIDE DEF n
    <3> QED BY <2>1, <2>2, <3>1 DEF RowIs
  <2>4. \A u \in Turn : TurnStory(u)' /\ Ends(u) /\ AsrCalm(u) /\ AnswerCalm(u)
    BY <2>3, QueueStory
  <2>5. /\ running'[w] = [turn |-> t, stage |-> s, token |-> n, step |-> "start", seen |-> 0]
        /\ \A x \in Worker \ {w} : running'[x] = running[x]
    BY <1>7 DEF ClaimJob, TypeOK
  <2>6. s = "asr" => (asr[t].outcome = "NONE" => ~Concluded(t))
    BY <2>1 DEF Story, TurnStory, TranscriptTells
  <2>7. WorkerStory(w)'
    <3>1. Concluded(t)' <=> Concluded(t)
      BY <2>3 DEF Concluded, Last
    <3> QED BY <2>3, <2>5, <2>6, <3>1 DEF WorkerStory
  <2>8. \A x \in Worker \ {w} : WorkerStory(x)'
    BY <2>4, <2>5, WorkersKept
  <2> QED BY <1>1, <2>4, <2>7, <2>8 DEF Story
<1>8. ASSUME NEW w \in Worker, Complete(w) \/ Fail(w) \/ Vanish(w) PROVE Story' /\ \A u \in Turn : Ends(u)
  <2>1. running' = [running EXCEPT ![w] = Idle]
    BY <1>8 DEF Complete, Fail, Vanish
  <2>2. \A x \in Worker : running'[x] = running[x] \/ running'[x] = Idle
    BY <2>1 DEF TypeOK
  <2>3. CASE Vanish(w)
    <3>1. \A u \in Turn : TurnStory(u)' /\ Ends(u) /\ AsrCalm(u) /\ AnswerCalm(u)
      BY <2>3, UntouchedTurn DEF Story, Vanish, queues
    <3> QED BY <1>2, <2>2, <3>1
  <2>4. CASE Complete(w) \/ Fail(w)
    <3>1. PICK t \in Turn, s \in Stage : t = running[w].turn /\ s = running[w].stage
      BY <2>4, MemoryType DEF Complete, Fail, Claimed
    <3>2. CASE Live(w) /\ FailFor(t, s)
      <4>1. job[t][s].phase = "OPEN" /\ acked' = acked
        BY <2>4, <3>1, <3>2 DEF Live, Complete, Fail
      <4> QED BY <1>2, <2>2, <3>2, <4>1, FailForStory
    <3>3. CASE ~(Live(w) /\ FailFor(t, s))
      <4>1. /\ UNCHANGED <<state, asr, ingress, events, acked>>
            /\ \/ job' = job
               \/ Live(w) /\ job' = [job EXCEPT ![t][s].phase = "SUCCEEDED", ![t][s].current = 0]
               \/ Live(w) /\ job' = [job EXCEPT ![t][s].current = 0]
        BY <2>4, <3>1, <3>3 DEF Complete, Fail, queues
      <4>2. \A u \in Turn, r \in Stage : job[u][r].phase = "ABSENT" => job'[u][r].phase = "ABSENT"
        <5>1. Live(w) => job[t][s].phase = "OPEN"
          BY <3>1 DEF Live
        <5>2. CASE Live(w) /\ job' = [job EXCEPT ![t][s].phase = "SUCCEEDED", ![t][s].current = 0]
          <6>1. RowIs(t, s, "SUCCEEDED", 0, job[t][s].last)
            BY <5>2, RowEnds
          <6> QED BY <5>1, <5>2, <6>1 DEF RowIs
        <5>3. CASE Live(w) /\ job' = [job EXCEPT ![t][s].current = 0]
          <6>1. RowIs(t, s, job[t][s].phase, 0, job[t][s].last)
            BY <5>3, RowRests
          <6> QED BY <6>1 DEF RowIs
        <5> QED BY <4>1, <5>2, <5>3
      <4>3. \A u \in Turn : TurnStory(u)' /\ Ends(u) /\ AsrCalm(u) /\ AnswerCalm(u)
        BY <4>1, <4>2, QueueStory
      <4> QED BY <1>2, <2>2, <4>3
    <3> QED BY <3>2, <3>3
  <2> QED BY <1>8, <2>3, <2>4
<1>9. ASSUME NEW t \in Turn, LeaseRunsOut(t) \/ GraceRunsOut(t) PROVE Story' /\ \A u \in Turn : Ends(u)
  <2>1. /\ UNCHANGED <<state, asr, events, acked, job, running>>
        /\ \A u \in Turn : \/ ingress'[u].status = ingress[u].status
                           \/ {ingress[u].status, ingress'[u].status} \subseteq {"QUEUED", "IN_PROGRESS", "LAPSED"}
    <3>1. ingress \in [Turn -> Rows]
      BY DEF TypeOK, Rows
    <3>2. \/ ingress' = ingress
          \/ ingress[t].status = "IN_PROGRESS" /\ ingress' = [ingress EXCEPT ![t].status = "LAPSED"]
      BY <1>9 DEF LeaseRunsOut, GraceRunsOut, queues
    <3>3. UNCHANGED <<state, asr, events, acked, job, running>>
      BY <1>9 DEF LeaseRunsOut, GraceRunsOut
    <3> QED BY <3>1, <3>2, <3>3 DEF Rows
  <2>2. \A u \in Turn : TurnStory(u)' /\ Ends(u)
    BY <2>1, StoryKept DEF Story
  <2>3. \A u \in Turn : AsrCalm(u) /\ AnswerCalm(u)
    BY <2>1 DEF AsrCalm, AnswerCalm, Concluded, Last
  <2> QED BY <1>2, <2>1, <2>2, <2>3
<1>10. ASSUME NEW t \in Turn, NEW i \in DOMAIN events[t], AckEvent(t, i) PROVE Story' /\ \A u \in Turn : Ends(u)
  BY <1>2, <1>10, AckStory DEF AckEvent
<1>11. CASE Recover
  BY <1>2, <1>11, RecoverStory DEF Recover
<1>12. ASSUME NEW t \in Turn, NEW kind \in ScheduleFinals, ScheduleFinal(t, kind)
       PROVE  Story' /\ \A u \in Turn : Ends(u)
  BY <1>2, <1>12, ScheduleFinalStory DEF ScheduleFinal
<1> QED BY <1>3, <1>4, <1>5, <1>6, <1>7, <1>8, <1>9, <1>10, <1>11, <1>12 DEF Next

-----------------------------------------------------------------------------

\* The invariant all three theorems below rest on.
LEMMA StoryHolds == Spec => [](TypeOK /\ Fine /\ Story)
<1>1. Init => TypeOK /\ Fine /\ Story
  BY InitType, InitFine, InitStory
<1>2. TypeOK /\ Fine /\ Story /\ [Next]_vars => (TypeOK /\ Fine /\ Story)'
  BY NextType, NextFine, NextRows, NextStory
<1> QED BY <1>1, <1>2, PTL DEF Spec

\* Hermes' answer is the last version of a turn and there is one at most; what
\* a schedule answered comes only first and may be followed by what the later
\* stages bring, and of the errors only a Hermes error, or one a left-over job
\* put on a routed turn, is ever replaced (_commit_hermes_result_tx,
\* _commit_schedule_confirmation_tx, commit_asr_result, commit_protocol_error,
\* _project_terminal_job_tx).
THEOREM VersionsAreOneStory == Spec => []FinalVersions
<1>1. Story => FinalVersions
  BY DEF Story, TurnStory, VersionsTell, FinalVersions
<1> QED BY <1>1, StoryHolds, PTL

\* The state of a turn agrees with its newest FINAL and with what the device
\* acknowledged of it (ack_event, recover_scheduler).
THEOREM StatesAgree == Spec => []StateAgreesWithAcks
<1>1. Story => StateAgreesWithAcks
  BY DEF Story, TurnStory, AcksTell, StateAgreesWithAcks
<1> QED BY <1>1, StoryHolds, PTL

\* No late answer and no ACK revives a turn whose answer was delivered or that
\* expired; a turn delivered with a schedule's confirmation is taken up again
\* by a further version of its FINAL only (_commit_hermes_result_tx, ack_event).
THEOREM EndedStays == Spec => EndedTurnsStay
<1>1. TypeOK /\ Fine /\ Story /\ [Next]_vars =>
        [\A t \in Turn :
           state[t] \in {"DELIVERED", "EXPIRED"} /\ state'[t] # state[t]
             => Final(t) = "confirmed" /\ Len(events'[t]) > Len(events[t])]_vars
  BY NextType, NextFine, NextRows, NextStory DEF Ends
<1> QED BY <1>1, StoryHolds, PTL DEF Spec, EndedTurnsStay

\* The three together, as the runs check them.
THEOREM TurnsTellTheTruth == Spec => []TurnsAgree
BY TypeCorrect, VersionsAreOneStory, StatesAgree, PTL DEF TurnsAgree

-----------------------------------------------------------------------------
(* The order of a user's turns: through the router queue and, per Hermes    *)
(* session, through the ingress queue.                                     *)

Active == {"QUEUED", "IN_PROGRESS", "LAPSED"}
Settled == {"DONE", "FAILED"}
Held == {"IN_PROGRESS", "LAPSED"}

Accepted == {u \in Turn : seq[u] # 0}

\* Numbers are given out in order, to turns that are accepted.
Numbered ==
  /\ \A t \in Turn : seq[t] # 0 => state[t] # "RECEIVING"
  /\ \A t \in Turn : seq[t] <= Cardinality(Accepted)

\* A turn holds the router only if every earlier row is settled, a row is
\* settled only for a turn that is routed or answered, and the ingress row of
\* a turn has been claimed only after its route.
QueuesTell ==
  /\ \A t, u \in Turn : router[t] \in Held /\ seq[u] \in 1 .. seq[t] - 1 => router[u] \in Settled
  /\ \A t \in Turn : router[t] \in Settled => Routed(t) \/ Answered(t)
  /\ \A t \in Turn : ingress[t].token # 0 => Routed(t)

InOrder == Numbered /\ QueuesTell /\ RoutedInOrder /\ SubmittedInOrder

\* What a step may do to the rows of a turn without a look at other turns.
RowsMove(t) ==
  /\ state'[t] = "RECEIVING" => state[t] = "RECEIVING"
  /\ router'[t] \in Held => router[t] \in Held
  /\ router[t] \in Settled => router'[t] \in Settled
  /\ router'[t] \in Settled => router[t] \in Settled \/ Routed(t)' \/ Answered(t)'
  /\ Routed(t)' => Routed(t) \/ router[t] = "IN_PROGRESS"
  /\ ingress'[t].token = ingress[t].token
  /\ ingress'[t].status \in Active => ingress[t].status \in Active \/ (~Routed(t) /\ ~Answered(t))

LEMMA OrderKept ==
  ASSUME TypeOK, InOrder, seq' = seq, \A u \in Turn : Grows(u) /\ RowsMove(u)
  PROVE  InOrder'
<1>1. Numbered'
  BY DEF InOrder, Numbered, Accepted, RowsMove
<1>2. QueuesTell'
  BY DEF InOrder, QueuesTell, RowsMove, Grows
<1>3. RoutedInOrder'
  <2> SUFFICES ASSUME NEW t \in Turn, NEW u \in Turn, Routed(t)', seq[u] \in 1 .. seq[t] - 1
               PROVE  Routed(u)' \/ Answered(u)'
    BY DEF RoutedInOrder
  <2>1. Routed(t) \/ router[t] \in Held
    BY DEF RowsMove, Held
  <2>2. Routed(u) \/ Answered(u)
    BY <2>1 DEF InOrder, RoutedInOrder, QueuesTell
  <2> QED BY <2>2 DEF Grows
<1>4. SubmittedInOrder'
  <2> SUFFICES ASSUME NEW t \in Turn, NEW u \in Turn, ingress'[t].token # 0,
                      SessionOf[u] = SessionOf[t], seq[u] \in 1 .. seq[t] - 1
               PROVE  ingress'[u].status \notin Active
    BY DEF SubmittedInOrder, Active
  <2>1. ingress[t].token # 0 /\ Routed(t)
    BY DEF RowsMove, InOrder, QueuesTell
  <2>2. ingress[u].status \notin Active /\ (Routed(u) \/ Answered(u))
    BY <2>1 DEF InOrder, SubmittedInOrder, RoutedInOrder, Active
  <2> QED BY <2>2 DEF RowsMove
<1> QED BY <1>1, <1>2, <1>3, <1>4 DEF InOrder

LEMMA StillRows ==
  ASSUME NEW t \in Turn, UNCHANGED <<state[t], events[t], router[t], ingress[t].token, ingress[t].status>>
  PROVE  RowsMove(t)
BY DEF RowsMove, Routed, Answered, Final, Last

\* A FINAL, with what its transaction does to the queues.
LEMMA FinalRows ==
  ASSUME TypeOK, NEW t \in Turn, NEW kind \in Finals, NEW withGrace \in BOOLEAN, ProtocolFinal(t, kind, withGrace),
         router'[t] = router[t] \/ router'[t] \in Settled,
         ingress'[t].token = ingress[t].token,
         ingress'[t].status = ingress[t].status \/ ingress'[t].status \notin Active
  PROVE  RowsMove(t)
<1>1. kind \in Kind /\ events' = Inserted(t, kind) /\ kind # "ROUTED"
  BY DEF ProtocolFinal, Kind, Finals, ScheduleFinals
<1>2. Answered(t)' /\ (Routed(t)' => Routed(t))
  BY <1>1, EventRead
<1>3. state'[t] # "RECEIVING"
  BY DEF ProtocolFinal, TypeOK
<1> QED BY <1>2, <1>3 DEF RowsMove, Held, Settled

LEMMA AcceptTurnOrder ==
  ASSUME TypeOK, TypeOK', Fine, InOrder, NEW t \in Turn, AcceptTurn(t), \A u \in Turn : Grows(u)
  PROVE  InOrder'
<1> DEFINE n == Cardinality(Accepted)
<1>1. IsFiniteSet(Accepted) /\ n \in Nat
  BY TurnSets, FS_Subset, FS_CardinalityType DEF Accepted
<1>2. /\ seq[t] = 0 /\ events[t] = <<>> /\ state'[t] = "ACCEPTED" /\ router'[t] = "QUEUED" /\ seq'[t] = 1 + n
      /\ \A u \in Turn \ {t} : UNCHANGED <<state[u], router[u], seq[u]>>
      /\ UNCHANGED <<ingress, events>>
  <2>1. state[t] = "RECEIVING" /\ events[t] = <<>>
    BY DEF AcceptTurn, Fine, TurnFine, StateTells
  <2>2. seq[t] = 0
    BY <2>1 DEF InOrder, Numbered
  <2> QED BY <2>1, <2>2 DEF AcceptTurn, TypeOK, Accepted
<1>3. \A u \in Turn : seq[u] \in Nat /\ seq[u] <= n
  BY DEF InOrder, Numbered, TypeOK
<1>4. \A u \in Turn : (Routed(u)' <=> Routed(u)) /\ (Answered(u)' <=> Answered(u))
  BY <1>2 DEF Routed, Answered, Final, Last
<1>5. ~Routed(t) /\ ingress[t].token = 0
  BY <1>2 DEF Routed, InOrder, QueuesTell
<1>6. Numbered'
  <2>1. Accepted' = Accepted \cup {t} /\ t \notin Accepted
    BY <1>1, <1>2 DEF Accepted
  <2>2. Cardinality(Accepted') = n + 1
    BY <1>1, <2>1, FS_AddElement
  <2> HIDE DEF n
  <2> QED BY <1>1, <1>2, <1>3, <2>2 DEF InOrder, Numbered
<1> HIDE DEF n
<1>7. QueuesTell'
  BY <1>1, <1>2, <1>3, <1>4 DEF InOrder, QueuesTell, Held, Settled
<1>8. RoutedInOrder'
  BY <1>1, <1>2, <1>3, <1>4, <1>5 DEF InOrder, RoutedInOrder
<1>9. SubmittedInOrder'
  BY <1>1, <1>2, <1>3, <1>5 DEF InOrder, SubmittedInOrder
<1> QED BY <1>6, <1>7, <1>8, <1>9 DEF InOrder

LEMMA ClaimRouterOrder ==
  ASSUME TypeOK, InOrder, NEW t \in Turn, NEW w \in Worker, ClaimRouter(w, t)
  PROVE  InOrder'
<1> DEFINE rows == [u \in Turn |-> IF router[u] \in RouterBusy /\ Answered(u) THEN "DONE" ELSE router[u]]
<1>1. UNCHANGED <<state, seq, ingress, events>>
  BY DEF ClaimRouter
<1>2. \/ router' = rows
      \/ router' = [rows EXCEPT ![t] = "IN_PROGRESS"] /\ rows[t] \in {"QUEUED", "LAPSED"} /\ Earlier(t, rows) = {}
  BY DEF ClaimRouter
<1>3. \A u \in Turn : (Routed(u)' <=> Routed(u)) /\ (Answered(u)' <=> Answered(u))
  BY <1>1 DEF Routed, Answered, Final, Last
<1>4. \A u \in Turn : /\ rows[u] \in Held => router[u] \in Held
                      /\ router[u] \in Settled => rows[u] \in Settled
                      /\ rows[u] \in Settled => router[u] \in Settled \/ Answered(u)
  BY DEF Held, Settled, RouterBusy
<1>5. Earlier(t, rows) = {} => \A u \in Turn : seq[u] \in 1 .. seq[t] - 1 => rows[u] \in Settled
  BY DEF Earlier, Settled
<1>6. \A u \in Turn : router'[u] = rows[u] \/ (u = t /\ router'[u] = "IN_PROGRESS" /\ rows[t] \in {"QUEUED", "LAPSED"}
                                                /\ Earlier(t, rows) = {})
  BY <1>2
<1> HIDE DEF rows
<1>7. QueuesTell'
  <2>1. \A u \in Turn : router'[u] \in Settled => Routed(u)' \/ Answered(u)'
    BY <1>3, <1>4, <1>6 DEF InOrder, QueuesTell, Settled
  <2>2. ASSUME NEW v \in Turn, NEW u \in Turn, router'[v] \in Held, seq[u] \in 1 .. seq[v] - 1
        PROVE  router'[u] \in Settled
    <3>1. rows[u] \in Settled
      BY <1>4, <1>5, <1>6, <2>2 DEF InOrder, QueuesTell
    <3> QED BY <1>6, <3>1 DEF Settled
  <2> QED BY <1>1, <1>3, <2>1, <2>2 DEF InOrder, QueuesTell
<1>8. Numbered' /\ RoutedInOrder' /\ SubmittedInOrder'
  BY <1>1, <1>3 DEF InOrder, Numbered, Accepted, RoutedInOrder, SubmittedInOrder
<1> QED BY <1>7, <1>8 DEF InOrder

LEMMA ClaimIngressOrder ==
  ASSUME TypeOK, Story, InOrder, NEW t \in Turn, NEW w \in Worker, ClaimIngress(w, t)
  PROVE  InOrder'
<1>1. UNCHANGED <<state, seq, router, events>>
  BY DEF ClaimIngress
<1>2. \A u \in Turn : (Routed(u)' <=> Routed(u)) /\ (Answered(u)' <=> Answered(u))
  BY <1>1 DEF Routed, Answered, Final, Last
<1>3. ingress \in [Turn -> Rows]
  BY DEF TypeOK, Rows
<1>4. CASE ingress' = ingress
  BY <1>1, <1>2, <1>4 DEF InOrder, Numbered, Accepted, QueuesTell, RoutedInOrder, SubmittedInOrder
<1>5. CASE ingress' # ingress
  <2>1. /\ ingress[t].status \in {"QUEUED", "LAPSED"} /\ Before(t) = {}
        /\ ingress' = [ingress EXCEPT ![t].status = "IN_PROGRESS", ![t].token = @ + 1]
    BY <1>5 DEF ClaimIngress
  <2>2. ingress'[t].status = "IN_PROGRESS" /\ \A u \in Turn \ {t} : ingress'[u] = ingress[u]
    BY <1>3, <2>1 DEF Rows
  <2>3. Routed(t)
    BY <2>1 DEF Story, TurnStory, IngressTells
  <2>4. QueuesTell'
    BY <1>1, <1>2, <2>2, <2>3 DEF InOrder, QueuesTell
  <2>5. Numbered' /\ RoutedInOrder'
    BY <1>1, <1>2 DEF InOrder, Numbered, Accepted, RoutedInOrder
  <2>6. SubmittedInOrder'
    <3> SUFFICES ASSUME NEW v \in Turn, NEW u \in Turn, ingress'[v].token # 0,
                        SessionOf[u] = SessionOf[v], seq[u] \in 1 .. seq[v] - 1
                 PROVE  ingress'[u].status \notin Active
      BY <1>1 DEF SubmittedInOrder, Active
    <3>1. seq[u] \in Nat /\ seq[v] \in Nat /\ u # v
      BY DEF TypeOK
    <3>2. CASE v = t
      <4>1. ingress[u].status \notin Active
        BY <2>1, <3>1, <3>2 DEF Before, Active
      <4> QED BY <2>2, <3>1, <3>2, <4>1
    <3>3. CASE v # t
      <4>1. ingress[v].token # 0
        BY <2>2, <3>3
      <4>2. ingress[u].status \notin Active
        BY <4>1 DEF InOrder, SubmittedInOrder, Active
      <4> QED BY <2>1, <2>2, <4>2 DEF Active
    <3> QED BY <3>2, <3>3
  <2> QED BY <2>4, <2>5, <2>6 DEF InOrder
<1> QED BY <1>4, <1>5

-----------------------------------------------------------------------------
(* The steps that look at one turn only.                                    *)

LEMMA HandlerRowsElsewhere ==
  ASSUME TypeOK, NEW t \in Turn, NEW w \in Worker, Handler(w, t), ~ClaimRouter(w, t), ~ClaimIngress(w, t),
         NEW u \in Turn \ {t}
  PROVE  RowsMove(u)
<1>1. UNCHANGED <<state[u], events[u], ingress[u].status>>
  BY HandlerElsewhere
<1>2. router'[u] = router[u]
  <2>1. \/ router' = router
        \/ \E new \in {"DONE", "FAILED"} : router' = [router EXCEPT ![t] = new]
    BY DEF Handler, AsrRead, SetAsrStage, AsrUnavailable, AsrGiveUp, CommitAsrResult,
           CommitRoute, RouteAnswered, CommitRoutingError, RouteRefused, ErrorIgnored, BindRun,
           CommitHermesResult, CommitHermesError, ReleaseIngress, HermesPending, HistoryRead,
           HistoryNothing, HistoryAnswer, LateResultIgnored, queues
  <2> QED BY <2>1 DEF TypeOK
<1>3. ingress'[u] = ingress[u]
  <2>1. \/ ingress' = ingress
        \/ \E new \in {"QUEUED", "SUBMITTED", "FAILED"} : ingress' = [ingress EXCEPT ![t].status = new]
        \/ ingress' = [ingress EXCEPT ![t].bound = TRUE]
    BY DEF Handler, AsrRead, SetAsrStage, AsrUnavailable, AsrGiveUp, CommitAsrResult,
           CommitRoute, RouteAnswered, CommitRoutingError, RouteRefused, ErrorIgnored, BindRun, HermesResult,
           CommitHermesResult, CommitHermesError, ReleaseIngress, HermesPending, HistoryRead,
           HistoryNothing, HistoryAnswer, LateResultIgnored, queues
  <2> QED BY <2>1 DEF TypeOK
<1> QED BY <1>1, <1>2, <1>3, StillRows

LEMMA HandlerRows ==
  ASSUME TypeOK, Fine, Story, NEW t \in Turn, NEW w \in Worker, Handler(w, t), ~ClaimRouter(w, t), ~ClaimIngress(w, t)
  PROVE  RowsMove(t) /\ seq' = seq
<1>1. ingress \in [Turn -> Rows]
  BY DEF TypeOK, Rows
<1>2. {"asr", "routing", "hermes", "success", "no_speech"} \subseteq Finals
  BY DEF Finals, ScheduleFinals
<1>3. CASE AsrRead(w, t) \/ AsrUnavailable(w, t) \/ RouteRefused(w, t) \/ HermesPending(w, t)
           \/ HistoryRead(w, t) \/ HistoryNothing(w, t) \/ LateResultIgnored(w, t) \/ ErrorIgnored(w, t)
  <2>1. UNCHANGED <<state, seq, events, router, ingress>>
    BY <1>3 DEF AsrRead, AsrUnavailable, RouteRefused, HermesPending, HistoryRead, HistoryNothing,
                LateResultIgnored, ErrorIgnored, queues
  <2> QED BY <2>1, StillRows
<1>4. CASE SetAsrStage(w, t)
  <2>1. UNCHANGED <<seq, events, router, ingress>> /\ (state'[t] = state[t] \/ state'[t] = "PREPROCESSING")
    BY <1>4 DEF SetAsrStage, queues, TypeOK
  <2> QED BY <2>1 DEF RowsMove, Routed, Answered, Final, Last
<1>5. CASE AsrGiveUp(w, t)
  BY <1>2, <1>5, FinalRows DEF AsrGiveUp, queues
<1>6. ASSUME NEW result \in AsrOutcomes \ {"NONE"}, CommitAsrResult(w, t, result) PROVE RowsMove(t) /\ seq' = seq
  <2>1. UNCHANGED <<seq, ingress>>
    BY <1>6 DEF CommitAsrResult
  <2>2. CASE result = "VALID_TRANSCRIPT"
    <3>1. UNCHANGED <<events, router>> /\ (state'[t] = state[t] \/ state'[t] = "ACCEPTED")
      BY <1>6, <2>2 DEF CommitAsrResult, TypeOK
    <3> QED BY <2>1, <3>1 DEF RowsMove, Routed, Answered, Final, Last
  <2>3. CASE result # "VALID_TRANSCRIPT"
    <3>1. \E kind \in {"no_speech", "asr"} : ProtocolFinal(t, kind, FALSE)
      BY <1>6, <2>3 DEF CommitAsrResult
    <3>2. router'[t] \in Settled
      BY <1>6, <2>3 DEF CommitAsrResult, Settled, TypeOK
    <3> QED BY <1>2, <2>1, <3>1, <3>2, FinalRows
  <2> QED BY <2>2, <2>3
<1>7. CASE CommitRoute(w, t)
  <2>1. /\ seq' = seq /\ state'[t] = "HERMES_PENDING" /\ router[t] = "IN_PROGRESS" /\ router'[t] = "DONE"
        /\ events' = Inserted(t, "ROUTED") /\ "ROUTED" \in Kind /\ ~Routed(t)
        /\ state[t] \in {"ACCEPTED", "ROUTING", "RETRY_WAIT"} /\ state[t] \in TurnStates
    BY <1>7 DEF CommitRoute, TypeOK, Kind
  <2>2. events[t] = <<>> /\ ~Answered(t)
    BY <2>1 DEF TurnStates, Fine, TurnFine, StateTells, Answered, Final, Last, Finals, ScheduleFinals
  <2>3. Routed(t)'
    BY <2>1, <2>2, EventRead
  <2>4. ingress'[t].token = ingress[t].token
    BY <1>1, <1>7 DEF CommitRoute, Rows
  <2> QED BY <2>1, <2>2, <2>3, <2>4 DEF RowsMove, Held, Settled
<1>8. CASE CommitRoutingError(w, t)
  <2>1. ProtocolFinal(t, "routing", FALSE) /\ UNCHANGED <<seq, ingress>> /\ router'[t] \in Settled
    BY <1>8 DEF CommitRoutingError, Settled, TypeOK
  <2> QED BY <1>2, <2>1, FinalRows
<1>9. CASE BindRun(w, t) \/ ReleaseIngress(w, t)
  <2>1. UNCHANGED <<state, seq, events, router>>
    BY <1>9 DEF BindRun, ReleaseIngress
  <2>2. \/ ingress' = [ingress EXCEPT ![t].bound = TRUE]
        \/ ingress[t].status \in Active /\ ingress' = [ingress EXCEPT ![t].status = "QUEUED"]
        \/ ingress' = ingress
    BY <1>9 DEF BindRun, ReleaseIngress, Active
  <2>3. /\ ingress'[t].token = ingress[t].token
        /\ ingress'[t].status \in Active => ingress[t].status \in Active
    BY <1>1, <2>2 DEF Rows
  <2> QED BY <2>1, <2>3 DEF RowsMove, Routed, Answered, Final, Last
<1>10. CASE CommitHermesResult(w, t) \/ HistoryAnswer(w, t)
  <2>1. ProtocolFinal(t, "success", FALSE) /\ UNCHANGED <<seq, router>>
        /\ ingress' = [ingress EXCEPT ![t].status = "SUBMITTED"]
    BY <1>10, ResultIsFinal DEF CommitHermesResult, HistoryAnswer, HermesResult
  <2>2. ingress'[t].token = ingress[t].token /\ ingress'[t].status \notin Active
    BY <1>1, <2>1 DEF Rows, Active
  <2> QED BY <1>2, <2>1, <2>2, FinalRows
<1>11. ASSUME NEW withGrace \in BOOLEAN, CommitHermesError(w, t, withGrace) PROVE RowsMove(t) /\ seq' = seq
  <2>1. ProtocolFinal(t, "hermes", withGrace) /\ UNCHANGED <<seq, router>>
        /\ ingress' = [ingress EXCEPT ![t].status = "FAILED"]
    BY <1>11 DEF CommitHermesError
  <2>2. ingress'[t].token = ingress[t].token /\ ingress'[t].status \notin Active
    BY <1>1, <2>1 DEF Rows, Active
  <2> QED BY <1>2, <2>1, <2>2, FinalRows
<1>12. CASE RouteAnswered(w, t)
  <2>1. UNCHANGED <<state, seq, events, ingress>> /\ router'[t] = "DONE" /\ router[t] = "IN_PROGRESS"
    BY <1>12 DEF RouteAnswered, TypeOK
  <2>2. Answered(t)' /\ (Routed(t)' => Routed(t))
    BY <1>12, <2>1, RouteAnsweredMeans DEF Routed, Answered, Final, Last
  <2> QED BY <2>1, <2>2 DEF RowsMove, Held, Settled
<1> QED BY <1>3, <1>4, <1>5, <1>6, <1>7, <1>8, <1>9, <1>10, <1>11, <1>12 DEF Handler

LEMMA ScheduleFinalRows ==
  ASSUME TypeOK, NEW t \in Turn, NEW kind \in ScheduleFinals, ScheduleFinal(t, kind), NEW u \in Turn
  PROVE  RowsMove(u) /\ seq' = seq
<1>1. kind \in Finals /\ ProtocolFinal(t, kind, FALSE) /\ UNCHANGED <<seq, router, ingress>>
  BY DEF ScheduleFinal, Finals, queues
<1>2. CASE u = t
  BY <1>1, <1>2, FinalRows
<1>3. CASE u # t
  <2>1. UNCHANGED <<state[u], events[u]>>
    BY <1>1, <1>3, FinalElsewhere
  <2> QED BY <1>1, <2>1, StillRows
<1> QED BY <1>2, <1>3

LEMMA FailForRows ==
  ASSUME TypeOK, NEW t \in Turn, NEW s \in Stage, FailFor(t, s), NEW u \in Turn
  PROVE  RowsMove(u)
<1>1. ingress \in [Turn -> Rows] /\ {"asr", "routing", "hermes"} \subseteq Finals
  BY DEF TypeOK, Rows, Finals, ScheduleFinals
<1>2. /\ router' = router \/ router' = [router EXCEPT ![t] = "FAILED"]
      /\ ingress' = ingress \/ ingress' = [ingress EXCEPT ![t].status = "FAILED"]
      /\ \/ UNCHANGED <<state, events, router, ingress>>
         \/ \E kind \in {"asr", "routing", "hermes"}, withGrace \in BOOLEAN : ProtocolFinal(t, kind, withGrace)
  BY DEF FailFor, Project
<1>3. CASE u # t
  <2>1. router'[u] = router[u] /\ ingress'[u] = ingress[u]
    BY <1>2, <1>3 DEF TypeOK
  <2>2. UNCHANGED <<state[u], events[u]>>
    BY <1>1, <1>2, <1>3, FinalElsewhere
  <2> QED BY <2>1, <2>2, StillRows
<1>4. CASE u = t /\ UNCHANGED <<state, events, router, ingress>>
  BY <1>4, StillRows
<1>5. CASE u = t /\ \E kind \in {"asr", "routing", "hermes"}, withGrace \in BOOLEAN : ProtocolFinal(t, kind, withGrace)
  <2>1. router'[t] = router[t] \/ router'[t] \in Settled
    BY <1>2 DEF Settled, TypeOK
  <2>2. ingress'[t].token = ingress[t].token /\ (ingress'[t].status = ingress[t].status \/ ingress'[t].status \notin Active)
    BY <1>1, <1>2 DEF Rows, Active
  <2> QED BY <1>1, <1>5, <2>1, <2>2, FinalRows
<1> QED BY <1>2, <1>3, <1>4, <1>5

LEMMA RecoverRows == ASSUME TypeOK, Recover, NEW u \in Turn PROVE RowsMove(u) /\ seq' = seq
<1>1. UNCHANGED <<seq, events>>
  BY DEF Recover
<1>2. router'[u] = IF router[u] = "LAPSED" THEN "QUEUED" ELSE router[u]
  BY DEF Recover
<1>3. ingress'[u].token = ingress[u].token /\ (ingress'[u].status \in Active => ingress[u].status \in Active)
  <2>1. ingress[u] \in Rows
    BY DEF TypeOK, Rows
  <2>2. ingress'[u] = IF ingress[u].status = "LAPSED" THEN [ingress[u] EXCEPT !.status = "QUEUED"] ELSE ingress[u]
    BY DEF Recover
  <2> QED BY <2>1, <2>2 DEF Rows, Active
<1>4. state'[u] = state[u] \/ state'[u] \in {"FAILED_PERMANENT", "EXPIRED"}
  BY DEF Recover
<1> QED BY <1>1, <1>2, <1>3, <1>4 DEF RowsMove, Held, Settled, Routed, Answered, Final, Last

LEMMA TimeAndDeviceRows ==
  ASSUME TypeOK, NEW t \in Turn, NEW u \in Turn,
         LeaseRunsOut(t) \/ GraceRunsOut(t) \/ \E i \in DOMAIN events[t] : AckEvent(t, i)
  PROVE  RowsMove(u) /\ seq' = seq
<1>1. ingress \in [Turn -> Rows]
  BY DEF TypeOK, Rows
<1>2. CASE LeaseRunsOut(t)
  <2>1. UNCHANGED <<state, seq, events>>
    BY <1>2 DEF LeaseRunsOut
  <2>2. \/ router[t] = "IN_PROGRESS" /\ router' = [router EXCEPT ![t] = "LAPSED"] /\ ingress' = ingress
        \/ ingress[t].status = "IN_PROGRESS" /\ ingress' = [ingress EXCEPT ![t].status = "LAPSED"] /\ router' = router
    BY <1>2 DEF LeaseRunsOut
  <2>3. ingress'[u].token = ingress[u].token /\ (ingress'[u].status \in Active => ingress[u].status \in Active)
    BY <1>1, <2>2 DEF Rows, Active
  <2>4. router'[u] = router[u] \/ (router[u] = "IN_PROGRESS" /\ router'[u] = "LAPSED")
    BY <2>2 DEF TypeOK
  <2> QED BY <2>1, <2>3, <2>4 DEF RowsMove, Held, Settled, Routed, Answered, Final, Last
<1>3. CASE GraceRunsOut(t)
  BY <1>3, StillRows DEF GraceRunsOut, queues
<1>4. ASSUME NEW i \in DOMAIN events[t], AckEvent(t, i) PROVE RowsMove(u) /\ seq' = seq
  <2>1. UNCHANGED <<seq, router, ingress, events>>
    BY <1>4 DEF AckEvent, queues
  <2>2. state'[u] = state[u] \/ state'[u] # "RECEIVING"
    <3>1. state' = state \/ \E new \in {"DELIVERED", "FAILED_PERMANENT", "LATE_RESULT_GRACE"} :
                              state' = [state EXCEPT ![t] = new]
      BY <1>4 DEF AckEvent
    <3> QED BY <3>1 DEF TypeOK
  <2> QED BY <2>1, <2>2 DEF RowsMove, Held, Settled, Routed, Answered, Final, Last
<1> QED BY <1>2, <1>3, <1>4

LEMMA InitOrder == Init => InOrder
<1> SUFFICES ASSUME Init PROVE InOrder
  OBVIOUS
<1>1. \A t \in Turn : /\ seq[t] = 0 /\ events[t] = <<>> /\ router[t] = "NONE" /\ ingress[t].token = 0
                      /\ ~Routed(t)
  BY DEF Init, Routed
<1>2. Accepted = {} /\ Cardinality(Accepted) = 0
  BY <1>1, FS_EmptySet DEF Accepted
<1> QED BY <1>1, <1>2 DEF InOrder, Numbered, QueuesTell, RoutedInOrder, SubmittedInOrder, Held, Settled

LEMMA NextOrder ==
  ASSUME TypeOK, TypeOK', Fine, Story, InOrder, \A u \in Turn : Grows(u), [Next]_vars
  PROVE  InOrder'
<1>1. CASE UNCHANGED vars
  BY <1>1, StillRows, OrderKept DEF vars, queues
<1>2. ASSUME NEW t \in Turn, AcceptTurn(t) PROVE InOrder'
  BY <1>2, AcceptTurnOrder
<1>3. ASSUME NEW t \in Turn, NEW w \in Worker, Handler(w, t) PROVE InOrder'
  <2>1. CASE ClaimRouter(w, t)
    BY <2>1, ClaimRouterOrder
  <2>2. CASE ClaimIngress(w, t)
    BY <2>2, ClaimIngressOrder
  <2>3. CASE ~ClaimRouter(w, t) /\ ~ClaimIngress(w, t)
    <3>1. \A u \in Turn \ {t} : RowsMove(u)
      BY <1>3, <2>3, HandlerRowsElsewhere
    <3>2. RowsMove(t) /\ seq' = seq
      BY <1>3, <2>3, HandlerRows
    <3> QED BY <3>1, <3>2, OrderKept
  <2> QED BY <2>1, <2>2, <2>3
<1>4. ASSUME NEW t \in Turn, NEW s \in Stage, JobExpires(t, s) PROVE InOrder'
  BY <1>4, FailForRows, OrderKept DEF JobExpires
<1>5. ASSUME NEW w \in Worker, Complete(w) \/ Fail(w) \/ Vanish(w) PROVE InOrder'
  <2>1. seq' = seq /\ (UNCHANGED <<state, events, router, ingress>> \/ FailFor(running[w].turn, running[w].stage))
    BY <1>5 DEF Complete, Fail, Vanish, queues
  <2>2. CASE UNCHANGED <<state, events, router, ingress>>
    BY <2>1, <2>2, StillRows, OrderKept
  <2>3. CASE ~UNCHANGED <<state, events, router, ingress>>
    <3>1. Fail(w)
      BY <1>5, <2>3 DEF Complete, Vanish, queues
    <3>2. PICK t \in Turn, s \in Stage : t = running[w].turn /\ s = running[w].stage
      BY <3>1, MemoryType DEF Fail, Claimed
    <3> QED BY <2>1, <2>3, <3>2, FailForRows, OrderKept
  <2> QED BY <2>2, <2>3
<1>6. ASSUME NEW t \in Turn, NEW s \in Stage, NEW w \in Worker, ClaimJob(w, t, s) PROVE InOrder'
  BY <1>6, StillRows, OrderKept DEF ClaimJob, queues
<1>7. ASSUME NEW t \in Turn, LeaseRunsOut(t) \/ GraceRunsOut(t) \/ \E i \in DOMAIN events[t] : AckEvent(t, i)
      PROVE  InOrder'
  BY <1>7, TimeAndDeviceRows, OrderKept
<1>8. CASE Recover
  <2>1. seq' = seq
    BY <1>8 DEF Recover
  <2> QED BY <1>8, <2>1, RecoverRows, OrderKept
<1>9. ASSUME NEW t \in Turn, NEW kind \in ScheduleFinals, ScheduleFinal(t, kind) PROVE InOrder'
  BY <1>9, ScheduleFinalRows, OrderKept
<1> QED BY <1>1, <1>2, <1>3, <1>4, <1>5, <1>6, <1>7, <1>8, <1>9 DEF Next

-----------------------------------------------------------------------------

LEMMA OrderHolds == Spec => [](TypeOK /\ Fine /\ Story /\ InOrder)
<1>1. Init => TypeOK /\ Fine /\ Story /\ InOrder
  BY InitType, InitFine, InitStory, InitOrder
<1>2. TypeOK /\ Fine /\ Story /\ InOrder /\ [Next]_vars => (TypeOK /\ Fine /\ Story /\ InOrder)'
  BY NextType, NextFine, NextRows, NextStory, NextOrder
<1> QED BY <1>1, <1>2, PTL DEF Spec

\* Turns of a user are routed in the order they were accepted, whichever
\* route job is claimed first (claim_router, commit_route).
THEOREM RoutesInOrder == Spec => []RoutedInOrder
<1>1. InOrder => RoutedInOrder
  BY DEF InOrder
<1> QED BY <1>1, OrderHolds, PTL

\* A Hermes session works on one turn at a time and in order of acceptance
\* (claim_session_ingress, commit_route, release_session_ingress).
THEOREM SubmitsInOrder == Spec => []SubmittedInOrder
<1>1. InOrder => SubmittedInOrder
  BY DEF InOrder
<1> QED BY <1>1, OrderHolds, PTL

\* Both together, as the runs check them.
THEOREM OrderIsKept == Spec => []TurnsInOrder
BY RoutesInOrder, SubmitsInOrder, PTL DEF TurnsInOrder

=============================================================================
