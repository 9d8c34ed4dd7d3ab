--------------------------- MODULE EavesdropProofs ---------------------------
(***************************************************************************)
(* Theorems about Eavesdrop for any segments, workers, attempts, faults    *)
(* and troubles.                                                           *)
(***************************************************************************)
EXTENDS Submissions, FiniteSetTheorems, TLAPS

Sessions == [state: SessionStates, late: BOOLEAN, hermes: BOOLEAN, response: BOOLEAN,
             next: 0 .. MaxSegments]
Rows == {NoRow} \cup [id: Id, bytes: Bytes]
Runs == {None, "running", "completed", "failed"}
Phases == {"ABSENT", "OPEN", "SUCCEEDED", "FAILED"}
Jobs == [phase: Phases, current: Nat, last: Nat]
Busy == [seg: Seg, token: 1 .. JobAttempts, step: Steps]

JobsTyped ==
  /\ job \in [Seg -> Jobs]
  /\ \A s \in Seg : job[s].current <= job[s].last /\ job[s].last <= JobAttempts

Typed ==
  /\ session \in Sessions
  /\ row \in [Seg -> Rows]
  /\ file \in [Seg -> {None} \cup Bytes]
  /\ decision \in [Seg -> Decisions]
  /\ reply \subseteq Seg /\ bound \subseteq Seg
  /\ run \in [Seg -> Runs]
  /\ JobsTyped
  /\ running \in [Worker -> {Idle} \cup Busy]
  /\ faults \in 0 .. MaxFaults

Settled == {"STORED_SILENT", "DELIVERED", "NO_SPEECH", "FAILED"}

\* What the rows of a segment, its file, its job and its run say of each other.
\* Only a session that was started, and forwards, has jobs.
SegTrue(s) ==
  /\ row[s] = NoRow <=> decision[s] = None
  /\ row[s] # NoRow => file[s] = row[s].bytes
  /\ job[s].phase = "ABSENT" <=> decision[s] \in {None, "STORED_SILENT"}
  /\ job[s].phase = "ABSENT" => job[s] = NoJob /\ run[s] = None
  /\ job[s].phase # "ABSENT" => session.hermes
  /\ decision[s] = "QUEUED" => job[s].phase = "OPEN"
  /\ decision[s] = "DELIVERED" => run[s] = "completed" /\ s \in bound
  /\ s \in reply <=> decision[s] = "DELIVERED" /\ session.response
  /\ session.state = "NONE" => row[s] = NoRow

\* A worker in a job holds one of its attempts.  It is done when the decision
\* is taken, and it commits what it has seen completed.
WorkTrue(w) ==
  running[w] # Idle =>
    /\ running[w].token \in 1 .. job[SegOf(w)].last
    /\ At(w, "done") => decision[SegOf(w)] # "QUEUED"
    /\ At(w, "commit") => run[SegOf(w)] = "completed"

SegmentInv ==
  Typed /\ (\A s \in Seg : SegTrue(s)) /\ (\A w \in Worker : WorkTrue(w))

\* What a step may do to a job: JobStep of JobContract, row by row.
JobMoves(s) ==
  \/ job'[s] = job[s]
  \/ /\ job[s].phase = "ABSENT" /\ job'[s].phase = "OPEN"
     /\ job'[s].current = job[s].current /\ job'[s].last = job[s].last
  \/ /\ job[s].phase = "OPEN" /\ job[s].last < JobAttempts
     /\ job'[s].phase = "OPEN" /\ job'[s].last = job[s].last + 1
     /\ job'[s].current = job[s].last + 1
  \/ /\ job[s].phase = "OPEN" /\ job[s].current # 0 /\ job'[s].phase \in {"OPEN", "SUCCEEDED"}
     /\ job'[s].current = 0 /\ job'[s].last = job[s].last
  \/ /\ job[s].phase = "OPEN" /\ job'[s].phase = "FAILED"
     /\ job'[s].current = 0 /\ job'[s].last = job[s].last

\* What it may do to the outcome.
OutcomeMoves(s) ==
  /\ decision[s] \in Settled => decision'[s] = decision[s]
  /\ s \in reply => s \in reply'
  /\ decision[s] # "DELIVERED" /\ decision'[s] = "DELIVERED" =>
       session.state \in {"ACTIVE", "PAUSED", "STOPPING"} /\ ~session.late
  /\ run[s] = "completed" => run'[s] = "completed"

Moves(s) == JobMoves(s) /\ OutcomeMoves(s)

-----------------------------------------------------------------------------

LEMMA TypeCorrect == Typed => TypeOK
BY DEF Typed, TypeOK, Sessions, Rows, Runs, JobsTyped, Jobs, Phases, Busy

LEMMA Numbers == Seg \subseteq Int /\ MaxSegments \in Nat /\ JobAttempts \in Nat /\ -1 \notin Seg
BY Bounds DEF Seg

\* A worker at a step is in a job.
LEMMA InJob ==
  ASSUME SegmentInv, NEW w \in Worker, NEW step \in Steps, At(w, step)
  PROVE  /\ running[w] \in Busy /\ running[w] # Idle /\ SegOf(w) \in Seg
         /\ running[w].token \in 1 .. job[SegOf(w)].last
         /\ job[SegOf(w)].phase # "ABSENT"
         /\ decision[SegOf(w)] \notin {None, "STORED_SILENT"}
<1>1. running[w] \in {Idle} \cup Busy
  BY DEF SegmentInv, Typed
<1>2. running[w] # Idle
  BY DEF At, Idle, Steps
<1>3. SegOf(w) \in Seg
  BY <1>1, <1>2 DEF SegOf, Busy
<1>4. running[w].token \in 1 .. job[SegOf(w)].last
  BY <1>2 DEF SegmentInv, WorkTrue
<1>5. job[SegOf(w)] # NoJob
  BY <1>4 DEF NoJob
<1>6. SegTrue(SegOf(w))
  BY <1>3 DEF SegmentInv
<1>7. job[SegOf(w)].phase # "ABSENT"
  BY <1>5, <1>6 DEF SegTrue
<1> QED BY <1>1, <1>2, <1>3, <1>4, <1>6, <1>7 DEF SegTrue

\* The work of those who do not move stays what it is.
LEMMA Conclude ==
  ASSUME SegmentInv, Typed', \A s \in Seg : Moves(s) /\ SegTrue(s)',
         \A w \in Worker : running'[w] = running[w] \/ WorkTrue(w)'
  PROVE  SegmentInv'
<1>1. ASSUME NEW w \in Worker, running'[w] = running[w]
      PROVE  WorkTrue(w)'
  <2>1. CASE running[w] = Idle
    BY <1>1, <2>1 DEF WorkTrue
  <2>2. CASE running[w] # Idle
    <3>1. running[w] \in Busy
      BY <2>2 DEF SegmentInv, Typed
    <3>2. PICK s \in Seg : s = SegOf(w)
      BY <3>1 DEF Busy, SegOf
    <3>3. At(w, running[w].step) /\ running[w].step \in Steps
      BY <3>1 DEF At, Busy
    <3>4. decision[s] \notin {None, "STORED_SILENT"} /\ running[w].token \in 1 .. job[s].last
      BY <3>2, <3>3, InJob
    <3>5. job[s].last \in Nat /\ job'[s].last \in Nat /\ decision[s] \in Decisions
      BY DEF SegmentInv, Typed, JobsTyped, Jobs
    <3>6. job'[s].last >= job[s].last
      BY <3>5 DEF Moves, JobMoves
    <3>7. running[w].token \in 1 .. job'[s].last
      BY <3>4, <3>5, <3>6
    <3>8. decision[s] # "QUEUED" => decision'[s] # "QUEUED"
      BY <3>4, <3>5 DEF Moves, OutcomeMoves, Settled, Decisions
    <3>9. run[s] = "completed" => run'[s] = "completed"
      BY DEF Moves, OutcomeMoves
    <3>10. WorkTrue(w)
      BY DEF SegmentInv
    <3> QED BY <1>1, <2>2, <3>2, <3>7, <3>8, <3>9, <3>10 DEF WorkTrue, At, SegOf
  <2> QED BY <2>1, <2>2
<1> QED BY <1>1 DEF SegmentInv

-----------------------------------------------------------------------------
(* The session.                                                            *)

\* Rows and jobs that stand, in a session that goes on.
StandsAt(s) ==
  /\ row'[s] = row[s] /\ file'[s] = file[s] /\ decision'[s] = decision[s]
  /\ job'[s] = job[s] /\ run'[s] = run[s]
  /\ (s \in reply') = (s \in reply) /\ (s \in bound => s \in bound')

GoesOn ==
  /\ session'.hermes = session.hermes /\ session'.response = session.response
  /\ session'.state = "NONE" => session.state = "NONE"

LEMMA Stands ==
  ASSUME NEW s \in Seg, SegTrue(s), StandsAt(s), GoesOn
  PROVE  SegTrue(s)' /\ Moves(s)
<1>1. SegTrue(s)'
  BY DEF SegTrue, StandsAt, GoesOn
<1>2. Moves(s)
  BY DEF StandsAt, Moves, JobMoves, OutcomeMoves
<1> QED BY <1>1, <1>2

LEMMA SessionStep ==
  ASSUME SegmentInv, UNCHANGED <<row, file, decision, reply, bound, run, job, running, faults>>,
         session' \in Sessions, GoesOn
  PROVE  SegmentInv' /\ \A s \in Seg : Moves(s)
<1>1. \A s \in Seg : SegTrue(s)' /\ Moves(s)
  <2> TAKE s \in Seg
  <2>1. StandsAt(s)
    BY DEF StandsAt
  <2> QED BY <2>1, Stands DEF SegmentInv
<1>2. Typed'
  BY DEF SegmentInv, Typed, JobsTyped
<1> QED BY <1>1, <1>2, Conclude

LEMMA SessionGoes ==
  ASSUME SegmentInv, NEW target \in SessionStates \ {"NONE"},
         session' = [session EXCEPT !.state = target]
  PROVE  session' \in Sessions /\ GoesOn
<1>1. session \in Sessions
  BY DEF SegmentInv, Typed
<1> QED BY <1>1 DEF Sessions, GoesOn

LEMMA ExpiredIs ==
  ASSUME SegmentInv
  PROVE  /\ Expired \in Sessions
         /\ Expired.hermes = session.hermes /\ Expired.response = session.response
         /\ Expired.state = "NONE" => session.state = "NONE"
<1>1. session \in Sessions
  BY DEF SegmentInv, Typed
<1>2. CASE Expired = session
  BY <1>1, <1>2
<1>3. CASE Expired = [session EXCEPT !.state = "EXPIRED"]
  BY <1>1, <1>3 DEF Sessions, SessionStates
<1> QED BY <1>2, <1>3 DEF Expired

LEMMA SessionExpires ==
  ASSUME SegmentInv, session' = Expired
  PROVE  session' \in Sessions /\ GoesOn
BY ExpiredIs DEF GoesOn

\* The toggles of the owner are set while there is no segment yet.
LEMMA StartTrue ==
  ASSUME SegmentInv, NEW hermes \in BOOLEAN, NEW response \in BOOLEAN, Start(hermes, response)
  PROVE  SegmentInv' /\ \A s \in Seg : Moves(s)
<1>0. /\ UNCHANGED <<row, file, decision, reply, bound, run, job, running, faults>>
      /\ session.state = "NONE"
      /\ session' = [session EXCEPT !.state = "CREATED", !.hermes = hermes, !.response = response]
  BY DEF Start, store, outcome
<1>1. session \in Sessions
  BY DEF SegmentInv, Typed
<1>2. session' \in Sessions /\ session'.state = "CREATED"
  BY <1>0, <1>1 DEF Sessions, SessionStates
<1>3. Typed'
  BY <1>0, <1>2 DEF SegmentInv, Typed, JobsTyped
<1>4. ASSUME NEW s \in Seg
      PROVE  SegTrue(s)' /\ Moves(s)
  <2>1. SegTrue(s) /\ decision[s] = None
    BY <1>0 DEF SegmentInv, SegTrue
  <2>2. SegTrue(s)'
    BY <1>0, <1>2, <2>1 DEF SegTrue, None
  <2>3. Moves(s)
    BY <1>0 DEF Moves, JobMoves, OutcomeMoves
  <2> QED BY <2>2, <2>3
<1>5. \A w \in Worker : running'[w] = running[w]
  BY <1>0
<1> QED BY <1>3, <1>4, <1>5, Conclude

LEMMA TransitionTrue ==
  ASSUME SegmentInv, NEW allowed, NEW target \in SessionStates \ {"NONE"},
         Transition(allowed, target)
  PROVE  SegmentInv' /\ \A s \in Seg : Moves(s)
<1>0. /\ UNCHANGED <<row, file, decision, reply, bound, run, job, running, faults>>
      /\ session' = Expired \/ session' = [session EXCEPT !.state = target]
  BY DEF Transition, store, outcome
<1> QED BY <1>0, SessionExpires, SessionGoes, SessionStep

LEMMA OwnerOfSession ==
  ASSUME SegmentInv, Activate \/ Pause \/ Resume \/ BeginStop \/ Stop \/ Read \/ Recover \/ SessionLate
  PROVE  SegmentInv' /\ \A s \in Seg : Moves(s)
<1>1. CASE Activate \/ Pause \/ Resume \/ BeginStop
  BY <1>1, TransitionTrue DEF Activate, Pause, Resume, BeginStop, SessionStates
<1>2. CASE Stop \/ Recover
  <2>1. /\ UNCHANGED <<row, file, decision, reply, bound, run, job, running, faults>>
        /\ \/ session' = [session EXCEPT !.state = "STOPPED"]
           \/ session' = [session EXCEPT !.state = "EXPIRED"]
    BY <1>2 DEF Stop, Recover, store, outcome
  <2> QED BY <2>1, SessionGoes, SessionStep DEF SessionStates
<1>3. CASE Read
  <2>1. /\ UNCHANGED <<row, file, decision, reply, bound, run, job, running, faults>>
        /\ session' = Expired
    BY <1>3 DEF Read, store, outcome
  <2> QED BY <2>1, SessionExpires, SessionStep
<1>4. CASE SessionLate
  <2>1. /\ UNCHANGED <<row, file, decision, reply, bound, run, job, running, faults>>
        /\ session' = [session EXCEPT !.late = TRUE]
    BY <1>4 DEF SessionLate, store, outcome
  <2>2. session' \in Sessions /\ GoesOn
    BY <2>1 DEF SegmentInv, Typed, Sessions, GoesOn
  <2> QED BY <2>1, <2>2, SessionStep
<1> QED BY <1>1, <1>2, <1>3, <1>4

-----------------------------------------------------------------------------
(* Recording.                                                              *)

LEMMA AppendDiesTrue ==
  ASSUME SegmentInv, NEW s \in Seg, NEW id \in Id, NEW bytes \in Bytes, AppendDies(s, id, bytes)
  PROVE  SegmentInv' /\ \A u \in Seg : Moves(u)
<1>0. /\ UNCHANGED <<session, row, decision, reply, bound, run, job, running, faults>>
      /\ file' = [file EXCEPT ![s] = bytes] /\ row[s] = NoRow
  BY DEF AppendDies, Known, outcome
<1>1. file \in [Seg -> {None} \cup Bytes]
  BY DEF SegmentInv, Typed
<1>2. /\ file' \in [Seg -> {None} \cup Bytes]
      /\ \A u \in Seg : u # s => file'[u] = file[u]
  BY <1>0, <1>1
<1>3. Typed'
  BY <1>0, <1>2 DEF SegmentInv, Typed, JobsTyped
<1>4. ASSUME NEW u \in Seg
      PROVE  SegTrue(u)' /\ Moves(u)
  <2>1. SegTrue(u)
    BY DEF SegmentInv
  <2>2. SegTrue(u)'
    BY <1>0, <1>2, <2>1 DEF SegTrue
  <2>3. Moves(u)
    BY <1>0 DEF Moves, JobMoves, OutcomeMoves
  <2> QED BY <2>2, <2>3
<1>5. \A w \in Worker : running'[w] = running[w]
  BY <1>0
<1> QED BY <1>3, <1>4, <1>5, Conclude

\* Row, file, decision and job of a new segment come together.
LEMMA AppendTrue ==
  ASSUME SegmentInv, NEW s \in Seg, NEW id \in Id, NEW bytes \in Bytes,
         NEW agent \in {"FORWARD_DEFAULT", "STORE_SILENT"}, Append(s, id, bytes, agent)
  PROVE  SegmentInv' /\ \A u \in Seg : Moves(u)
<1> DEFINE new == [id |-> id, bytes |-> bytes]
<1>0. /\ UNCHANGED <<reply, bound, run, running, faults>>
      /\ session.state = "ACTIVE" /\ row[s] = NoRow
      /\ file' = [file EXCEPT ![s] = bytes] /\ row' = [row EXCEPT ![s] = new]
      /\ session' = [session EXCEPT !.next = s + 1]
      /\ decision' = [decision EXCEPT ![s] = RouteOf(agent)]
      /\ job' = Enqueued(s, agent)
  BY DEF Append, Recording, Known
<1>1. new \in [id: Id, bytes: Bytes] /\ new # NoRow /\ new.bytes = bytes
  BY Contents DEF NoRow, None
<1> HIDE DEF new
<1>2. /\ session' \in Sessions /\ GoesOn /\ session'.state = "ACTIVE"
  <2>1. session \in Sessions /\ s + 1 \in 0 .. MaxSegments
    BY Numbers DEF SegmentInv, Typed, Seg
  <2> QED BY <1>0, <2>1 DEF Sessions, GoesOn
<1>3. SegTrue(s) /\ decision[s] = None /\ job[s] = NoJob /\ run[s] = None /\ s \notin reply
  BY <1>0 DEF SegmentInv, SegTrue, None
<1>4. /\ RouteOf(agent) \in {"QUEUED", "STORED_SILENT"}
      /\ RouteOf(agent) = "QUEUED" => session.hermes
  BY DEF RouteOf
<1>5. /\ file' \in [Seg -> {None} \cup Bytes] /\ row' \in [Seg -> Rows]
      /\ decision' \in [Seg -> Decisions]
      /\ file'[s] = bytes /\ row'[s] = new /\ decision'[s] = RouteOf(agent)
      /\ \A u \in Seg : u # s =>
           file'[u] = file[u] /\ row'[u] = row[u] /\ decision'[u] = decision[u]
  BY <1>0, <1>1, <1>4 DEF SegmentInv, Typed, Rows, Decisions
<1>6. /\ JobsTyped' /\ \A u \in Seg : u # s => job'[u] = job[u]
      /\ IF RouteOf(agent) = "QUEUED"
         THEN job'[s].phase = "OPEN" /\ job'[s].current = 0 /\ job'[s].last = 0
         ELSE job'[s] = NoJob
  <2>1. job \in [Seg -> Jobs] /\ JobsTyped
    BY DEF SegmentInv, Typed, JobsTyped
  <2>2. CASE RouteOf(agent) = "QUEUED"
    <3>1. PICK some : some = [job[s] EXCEPT !.phase = "OPEN"]
      OBVIOUS
    <3>2. some \in Jobs /\ some.phase = "OPEN" /\ some.current = 0 /\ some.last = 0
      BY <1>3, <3>1 DEF NoJob, Jobs, Phases
    <3>3. job' = [job EXCEPT ![s] = some]
      BY <1>0, <2>2, <3>1 DEF Enqueued
    <3> QED BY <2>1, <2>2, <3>2, <3>3, Numbers DEF JobsTyped
  <2>3. CASE RouteOf(agent) # "QUEUED"
    BY <1>0, <1>3, <2>1, <2>3 DEF Enqueued, JobsTyped
  <2> QED BY <2>2, <2>3
<1>7. Typed'
  BY <1>0, <1>2, <1>5, <1>6 DEF SegmentInv, Typed
<1>8. SegTrue(s)' /\ Moves(s)
  <2>1. SegTrue(s)'
    BY <1>0, <1>1, <1>2, <1>3, <1>4, <1>5, <1>6 DEF SegTrue, GoesOn, NoJob, None
  <2>2. JobMoves(s)
    BY <1>3, <1>6 DEF JobMoves, NoJob
  <2>3. OutcomeMoves(s)
    BY <1>0, <1>3, <1>4, <1>5 DEF OutcomeMoves, Settled, None
  <2> QED BY <2>1, <2>2, <2>3 DEF Moves
<1>9. ASSUME NEW u \in Seg, u # s
      PROVE  SegTrue(u)' /\ Moves(u)
  <2>1. StandsAt(u)
    BY <1>0, <1>5, <1>6, <1>9 DEF StandsAt
  <2> QED BY <1>2, <2>1, Stands DEF SegmentInv
<1>10. \A w \in Worker : running'[w] = running[w]
  BY <1>0
<1> QED BY <1>7, <1>8, <1>9, <1>10, Conclude

-----------------------------------------------------------------------------
(* The job of a segment.                                                   *)

LEMMA Rested ==
  ASSUME SegmentInv, NEW w \in Worker, running' = [running EXCEPT ![w] = Idle]
  PROVE  /\ running' \in [Worker -> {Idle} \cup Busy]
         /\ \A v \in Worker : running'[v] = running[v] \/ WorkTrue(v)'
BY DEF SegmentInv, Typed, WorkTrue

LEMMA FaultCounted ==
  ASSUME SegmentInv, Fault \/ UNCHANGED faults
  PROVE  faults' \in 0 .. MaxFaults
BY Bounds DEF SegmentInv, Typed, Fault

\* The attempt in charge is one that was started.
LEMMA LiveIs ==
  ASSUME SegmentInv, NEW w \in Worker, NEW step \in Steps, At(w, step), Live(w)
  PROVE  job[SegOf(w)].phase = "OPEN" /\ job[SegOf(w)].current # 0
<1>1. running[w].token \in 1 .. job[SegOf(w)].last /\ job[SegOf(w)] \in Jobs
  BY InJob DEF SegmentInv, Typed, JobsTyped
<1> QED BY <1>1 DEF Live, Jobs

\* A worker that comes to rest, or dies, leaves everything as it is.
LEMMA RestTrue ==
  ASSUME SegmentInv, NEW w \in Worker, Dies(w) \/ GivesUp(w)
  PROVE  SegmentInv' /\ \A s \in Seg : Moves(s)
<1>0. /\ UNCHANGED <<session, row, file, decision, reply, bound, run, job>>
      /\ running' = [running EXCEPT ![w] = Idle]
      /\ Fault \/ UNCHANGED faults
  BY DEF Dies, GivesUp, store, outcome
<1>1. /\ running' \in [Worker -> {Idle} \cup Busy]
      /\ \A v \in Worker : running'[v] = running[v] \/ WorkTrue(v)'
  BY <1>0, Rested
<1>2. Typed'
  BY <1>0, <1>1, FaultCounted DEF SegmentInv, Typed, JobsTyped
<1>3. \A s \in Seg : SegTrue(s)' /\ Moves(s)
  <2> TAKE s \in Seg
  <2>1. StandsAt(s) /\ GoesOn
    BY <1>0 DEF StandsAt, GoesOn
  <2> QED BY <2>1, Stands DEF SegmentInv
<1> QED BY <1>1, <1>2, <1>3, Conclude

\* One job changes, and perhaps its decision with it.
JobOnly(s) ==
  /\ UNCHANGED <<session, row, file, reply, bound, run>>
  /\ \A u \in Seg : u # s => job'[u] = job[u] /\ decision'[u] = decision[u]

LEMMA JobOnlyTrue ==
  ASSUME SegmentInv, NEW s \in Seg, JobOnly(s), SegTrue(s)', Moves(s)
  PROVE  \A u \in Seg : SegTrue(u)' /\ Moves(u)
<1> TAKE u \in Seg
<1>1. CASE u = s
  BY <1>1
<1>2. CASE u # s
  <2>1. StandsAt(u) /\ GoesOn
    BY <1>2 DEF JobOnly, StandsAt, GoesOn
  <2> QED BY <2>1, Stands DEF SegmentInv
<1> QED BY <1>1, <1>2

\* A job of which the phase and the attempt in charge change.
LEMMA JobSet ==
  ASSUME SegmentInv, NEW s \in Seg, NEW some \in Jobs, job' = [job EXCEPT ![s] = some],
         some.current <= some.last, some.last <= JobAttempts
  PROVE  JobsTyped' /\ job'[s] = some /\ \A u \in Seg : u # s => job'[u] = job[u]
<1>1. job \in [Seg -> Jobs] /\ JobsTyped
  BY DEF SegmentInv, Typed, JobsTyped
<1> QED BY <1>1 DEF JobsTyped

LEMMA JobEnds ==
  ASSUME SegmentInv, NEW s \in Seg, NEW phase \in {"SUCCEEDED", "FAILED"}, job' = Ended(s, phase)
  PROVE  /\ JobsTyped' /\ \A u \in Seg : u # s => job'[u] = job[u]
         /\ job'[s].phase = phase /\ job'[s].current = 0 /\ job'[s].last = job[s].last
<1>1. PICK some : some = [job[s] EXCEPT !.phase = phase, !.current = 0]
  OBVIOUS
<1>2. job[s] \in Jobs /\ job[s].last <= JobAttempts /\ job[s].last \in Nat
  BY DEF SegmentInv, Typed, JobsTyped, Jobs
<1>3. /\ some \in Jobs /\ some.phase = phase /\ some.current = 0 /\ some.last = job[s].last
      /\ some.current <= some.last
  <2>1. phase \in Phases
    BY DEF Phases
  <2> HIDE DEF Phases
  <2>2. some \in Jobs /\ some.phase = phase /\ some.current = 0 /\ some.last = job[s].last
    BY <1>1, <1>2, <2>1 DEF Jobs
  <2> QED BY <1>2, <2>2
<1>4. job' = [job EXCEPT ![s] = some]
  BY <1>1 DEF Ended
<1> QED BY <1>2, <1>3, <1>4, JobSet

\* The failure of a job, with its decision.
LEMMA JobFails ==
  ASSUME SegmentInv, NEW s \in Seg, job[s].phase = "OPEN",
         job' = Ended(s, "FAILED"), decision' = Projected(s),
         UNCHANGED <<session, row, file, reply, bound, run>>
  PROVE  /\ JobsTyped' /\ decision' \in [Seg -> Decisions]
         /\ \A u \in Seg : SegTrue(u)' /\ Moves(u)
<1>1. /\ JobsTyped' /\ \A u \in Seg : u # s => job'[u] = job[u]
      /\ job'[s].phase = "FAILED" /\ job'[s].current = 0 /\ job'[s].last = job[s].last
  BY JobEnds
<1>2. /\ decision' \in [Seg -> Decisions] /\ \A u \in Seg : u # s => decision'[u] = decision[u]
      /\ decision'[s] = IF decision[s] = "QUEUED" THEN "FAILED" ELSE decision[s]
  BY DEF Projected, SegmentInv, Typed, Decisions
<1>3. SegTrue(s) /\ decision[s] \in Decisions
  BY DEF SegmentInv, Typed
<1>4. SegTrue(s)'
  BY <1>1, <1>2, <1>3 DEF SegTrue, None
<1>5. Moves(s)
  <2>1. JobMoves(s)
    BY <1>1 DEF JobMoves
  <2>2. OutcomeMoves(s)
    BY <1>2 DEF OutcomeMoves, Settled
  <2> QED BY <2>1, <2>2 DEF Moves
<1>6. JobOnly(s)
  BY <1>1, <1>2 DEF JobOnly
<1> QED BY <1>1, <1>2, <1>4, <1>5, <1>6, JobOnlyTrue

LEMMA JobExpiresTrue ==
  ASSUME SegmentInv, NEW s \in Seg, JobExpires(s)
  PROVE  SegmentInv' /\ \A u \in Seg : Moves(u)
<1>0. /\ UNCHANGED <<session, row, file, reply, bound, run, running, faults>>
      /\ job[s].phase = "OPEN" /\ job' = Ended(s, "FAILED") /\ decision' = Projected(s)
  BY DEF JobExpires, store
<1>1. /\ JobsTyped' /\ decision' \in [Seg -> Decisions]
      /\ \A u \in Seg : SegTrue(u)' /\ Moves(u)
  BY <1>0, JobFails
<1>2. Typed'
  BY <1>0, <1>1 DEF SegmentInv, Typed
<1>3. \A w \in Worker : running'[w] = running[w]
  BY <1>0
<1> QED BY <1>1, <1>2, <1>3, Conclude

\* Who completes a job has seen its decision taken.
LEMMA CompleteTrue ==
  ASSUME SegmentInv, NEW w \in Worker, Complete(w)
  PROVE  SegmentInv' /\ \A s \in Seg : Moves(s)
<1>0. /\ UNCHANGED <<session, row, file, decision, reply, bound, run, faults>> /\ At(w, "done")
      /\ running' = [running EXCEPT ![w] = Idle]
      /\ job' = IF Live(w) THEN Ended(SegOf(w), "SUCCEEDED") ELSE job
  BY DEF Complete, store, outcome
<1>1. PICK s \in Seg : s = SegOf(w)
  BY <1>0, InJob DEF Steps
<1>2. /\ running' \in [Worker -> {Idle} \cup Busy]
      /\ \A v \in Worker : running'[v] = running[v] \/ WorkTrue(v)'
  BY <1>0, Rested
<1>3. JobsTyped' /\ \A u \in Seg : SegTrue(u)' /\ Moves(u)
  <2>1. CASE Live(w)
    <3>1. /\ JobsTyped' /\ \A u \in Seg : u # s => job'[u] = job[u]
          /\ job'[s].phase = "SUCCEEDED" /\ job'[s].current = 0 /\ job'[s].last = job[s].last
      BY <1>0, <1>1, <2>1, JobEnds
    <3>2. job[s].phase = "OPEN" /\ job[s].current # 0 /\ SegTrue(s)
      BY <1>0, <1>1, <2>1, LiveIs DEF Steps, SegmentInv
    <3>3. decision[s] # "QUEUED"
      BY <1>0, <1>1, InJob DEF SegmentInv, WorkTrue, Steps
    <3>4. SegTrue(s)'
      BY <1>0, <3>1, <3>2, <3>3 DEF SegTrue
    <3>5. Moves(s)
      BY <1>0, <3>1, <3>2 DEF Moves, JobMoves, OutcomeMoves
    <3>6. JobOnly(s)
      BY <1>0, <3>1 DEF JobOnly
    <3> QED BY <3>1, <3>4, <3>5, <3>6, JobOnlyTrue
  <2>2. CASE ~Live(w)
    <3>1. ASSUME NEW u \in Seg
          PROVE  StandsAt(u) /\ GoesOn
      BY <1>0, <2>2 DEF StandsAt, GoesOn
    <3>2. JobsTyped'
      BY <1>0, <2>2 DEF SegmentInv, Typed, JobsTyped
    <3> QED BY <3>1, <3>2, Stands DEF SegmentInv
  <2> QED BY <2>1, <2>2
<1>4. Typed'
  BY <1>0, <1>2, <1>3 DEF SegmentInv, Typed
<1> QED BY <1>2, <1>3, <1>4, Conclude

LEMMA FailTrue ==
  ASSUME SegmentInv, NEW w \in Worker, Fail(w)
  PROVE  SegmentInv' /\ \A s \in Seg : Moves(s)
<1> DEFINE again == At(w, "raise") /\ running[w].token < JobAttempts
<1>0. /\ UNCHANGED <<session, row, file, reply, bound, run, faults>>
      /\ At(w, "raise") \/ At(w, "fatal")
      /\ running' = [running EXCEPT ![w] = Idle]
      /\ \/ ~Live(w) /\ job' = job /\ decision' = decision
         \/ Live(w) /\ job' = [job EXCEPT ![SegOf(w)].current = 0] /\ decision' = decision
         \/ Live(w) /\ job' = Ended(SegOf(w), "FAILED") /\ decision' = Projected(SegOf(w))
  BY DEF Fail, store
<1>1. PICK s \in Seg : s = SegOf(w)
  BY <1>0, InJob DEF Steps
<1>2. /\ running' \in [Worker -> {Idle} \cup Busy]
      /\ \A v \in Worker : running'[v] = running[v] \/ WorkTrue(v)'
  BY <1>0, Rested
<1>3. Live(w) => job[s].phase = "OPEN" /\ job[s].current # 0
  BY <1>0, <1>1, LiveIs DEF Steps
<1>4. JobsTyped' /\ decision' \in [Seg -> Decisions] /\ \A u \in Seg : SegTrue(u)' /\ Moves(u)
  <2>1. CASE ~Live(w) /\ job' = job /\ decision' = decision
    <3>1. ASSUME NEW u \in Seg
          PROVE  StandsAt(u) /\ GoesOn
      BY <1>0, <2>1 DEF StandsAt, GoesOn
    <3>2. JobsTyped' /\ decision' \in [Seg -> Decisions]
      BY <2>1 DEF SegmentInv, Typed, JobsTyped
    <3> QED BY <3>1, <3>2, Stands DEF SegmentInv
  <2>2. CASE Live(w) /\ job' = [job EXCEPT ![SegOf(w)].current = 0] /\ decision' = decision
    <3>1. PICK some : some = [job[s] EXCEPT !.current = 0]
      OBVIOUS
    <3>2. job[s] \in Jobs /\ job[s].last <= JobAttempts
      BY DEF SegmentInv, Typed, JobsTyped
    <3>3. /\ some \in Jobs /\ some.phase = job[s].phase /\ some.current = 0
          /\ some.last = job[s].last /\ some.current <= some.last
      BY <3>1, <3>2 DEF Jobs
    <3>4. job' = [job EXCEPT ![s] = some]
      BY <1>1, <2>2, <3>1
    <3>5. JobsTyped' /\ job'[s] = some /\ \A u \in Seg : u # s => job'[u] = job[u]
      BY <3>2, <3>3, <3>4, JobSet
    <3>6. SegTrue(s)'
      <4>1. SegTrue(s)
        BY DEF SegmentInv
      <4> QED BY <1>0, <1>3, <2>2, <3>3, <3>5, <4>1 DEF SegTrue
    <3>7. Moves(s)
      BY <1>0, <1>3, <2>2, <3>3, <3>5 DEF Moves, JobMoves, OutcomeMoves
    <3>8. JobOnly(s) /\ decision' \in [Seg -> Decisions]
      BY <1>0, <2>2, <3>5 DEF JobOnly, SegmentInv, Typed
    <3> QED BY <3>5, <3>6, <3>7, <3>8, JobOnlyTrue
  <2>3. CASE Live(w) /\ job' = Ended(SegOf(w), "FAILED") /\ decision' = Projected(SegOf(w))
    BY <1>0, <1>1, <1>3, <2>3, JobFails
  <2> QED BY <1>0, <2>1, <2>2, <2>3
<1>5. Typed'
  BY <1>0, <1>2, <1>4 DEF SegmentInv, Typed
<1> QED BY <1>2, <1>4, <1>5, Conclude

LEMMA ClaimJobTrue ==
  ASSUME SegmentInv, NEW w \in Worker, NEW s \in Seg, ClaimJob(w, s)
  PROVE  SegmentInv' /\ \A u \in Seg : Moves(u)
<1> DEFINE mine == [seg |-> s, token |-> job[s].last + 1, step |-> "read"]
<1>0. /\ UNCHANGED <<session, row, file, decision, reply, bound, run>>
      /\ job[s].phase = "OPEN" /\ job[s].last < JobAttempts
      /\ Fault \/ UNCHANGED faults
      /\ running' = [running EXCEPT ![w] = mine]
  BY DEF ClaimJob, store, outcome
<1>1. PICK some : some = [job[s] EXCEPT !.current = job[s].last + 1, !.last = job[s].last + 1]
  OBVIOUS
<1>2. job[s] \in Jobs /\ job[s].last \in Nat
  BY DEF SegmentInv, Typed, JobsTyped, Jobs
<1>3. /\ some \in Jobs /\ some.phase = "OPEN"
      /\ some.current = job[s].last + 1 /\ some.last = job[s].last + 1
      /\ some.current <= some.last /\ some.last <= JobAttempts
  <2>1. PICK n \in Nat : n = job[s].last + 1
    BY <1>2
  <2>2. some = [job[s] EXCEPT !.current = n, !.last = n]
    BY <1>1, <2>1
  <2>3. some \in Jobs /\ some.phase = job[s].phase /\ some.current = n /\ some.last = n
    BY <1>2, <2>2 DEF Jobs
  <2> QED BY <1>0, <1>2, <2>1, <2>3, Numbers
<1>4. job' = [job EXCEPT ![s] = some]
  BY <1>1 DEF ClaimJob
<1>5. JobsTyped' /\ job'[s] = some /\ \A u \in Seg : u # s => job'[u] = job[u]
  BY <1>3, <1>4, JobSet
<1>6. \A u \in Seg : SegTrue(u)' /\ Moves(u)
  <2>1. SegTrue(s)'
    <3>1. SegTrue(s)
      BY DEF SegmentInv
    <3> QED BY <1>0, <1>3, <1>5, <3>1 DEF SegTrue
  <2>2. Moves(s)
    BY <1>0, <1>3, <1>5 DEF Moves, JobMoves, OutcomeMoves
  <2>3. JobOnly(s)
    BY <1>0, <1>5 DEF JobOnly
  <2> QED BY <2>1, <2>2, <2>3, JobOnlyTrue
<1>7. /\ mine \in Busy /\ mine.seg = s /\ mine.token = job[s].last + 1 /\ mine.step = "read"
  BY <1>0, <1>2, Numbers DEF Busy, Steps
<1> HIDE DEF mine
<1>8. /\ running' \in [Worker -> {Idle} \cup Busy] /\ running'[w] = mine
      /\ \A v \in Worker : v # w => running'[v] = running[v]
  BY <1>0, <1>7 DEF SegmentInv, Typed
<1>9. WorkTrue(w)'
  BY <1>2, <1>3, <1>5, <1>7, <1>8 DEF WorkTrue, At, SegOf
<1>10. Typed'
  BY <1>0, <1>5, <1>8, FaultCounted DEF SegmentInv, Typed
<1> QED BY <1>6, <1>8, <1>9, <1>10, Conclude

-----------------------------------------------------------------------------
(* The handler.                                                            *)

LEMMA GoesTo ==
  ASSUME SegmentInv, NEW w \in Worker, NEW from \in Steps, At(w, from),
         NEW step \in Steps, GoTo(w, step)
  PROVE  /\ running' \in [Worker -> {Idle} \cup Busy]
         /\ running'[w].seg = SegOf(w) /\ running'[w].token = running[w].token
         /\ running'[w].step = step
         /\ \A v \in Worker : v # w => running'[v] = running[v]
<1>1. running[w] \in Busy /\ running \in [Worker -> {Idle} \cup Busy]
  BY InJob DEF SegmentInv, Typed
<1>2. PICK some : some = [running[w] EXCEPT !.step = step]
  OBVIOUS
<1>3. some \in Busy /\ some.seg = running[w].seg /\ some.token = running[w].token /\ some.step = step
  BY <1>1, <1>2 DEF Busy
<1>4. running' = [running EXCEPT ![w] = some]
  BY <1>2 DEF GoTo
<1> QED BY <1>1, <1>3, <1>4 DEF SegOf

\* A worker goes on in its job, which stands.
LEMMA HandlerStep ==
  ASSUME SegmentInv, NEW w \in Worker, NEW from \in Steps, At(w, from),
         NEW step \in Steps, GoTo(w, step),
         job' = job, Typed', \A s \in Seg : Moves(s) /\ SegTrue(s)',
         step = "done" => decision'[SegOf(w)] # "QUEUED",
         step = "commit" => run'[SegOf(w)] = "completed"
  PROVE  SegmentInv'
<1>1. /\ running'[w].seg = SegOf(w) /\ running'[w].token = running[w].token
      /\ running'[w].step = step /\ \A v \in Worker : v # w => running'[v] = running[v]
  BY GoesTo
<1>2. running[w].token \in 1 .. job[SegOf(w)].last
  BY InJob
<1>3. SegOf(w)' = SegOf(w) /\ (At(w, "done")' => step = "done") /\ (At(w, "commit")' => step = "commit")
  BY <1>1 DEF SegOf, At
<1>4. WorkTrue(w)'
  BY <1>1, <1>2, <1>3 DEF WorkTrue
<1> QED BY <1>1, <1>4, Conclude

\* A step of the worker alone, and perhaps of the clock.
LEMMA AloneStep ==
  ASSUME SegmentInv, NEW w \in Worker, NEW from \in Steps, At(w, from),
         NEW step \in Steps, GoTo(w, step),
         UNCHANGED <<row, file, decision, reply, run, job>>,
         session' \in Sessions, GoesOn, Fault \/ UNCHANGED faults,
         bound' \subseteq Seg, bound \subseteq bound',
         step = "done" => decision[SegOf(w)] # "QUEUED",
         step = "commit" => run[SegOf(w)] = "completed"
  PROVE  SegmentInv' /\ \A s \in Seg : Moves(s)
<1>1. Typed'
  BY GoesTo, FaultCounted DEF SegmentInv, Typed, JobsTyped
<1>2. \A s \in Seg : SegTrue(s)' /\ Moves(s)
  <2> TAKE s \in Seg
  <2>1. StandsAt(s)
    BY DEF StandsAt
  <2> QED BY <2>1, Stands DEF SegmentInv
<1> QED BY <1>1, <1>2, HandlerStep

LEMMA ReadSegmentTrue ==
  ASSUME SegmentInv, NEW w \in Worker, ReadSegment(w)
  PROVE  SegmentInv' /\ \A s \in Seg : Moves(s)
<1> DEFINE step == IF decision[SegOf(w)] # "QUEUED" THEN "done"
                   ELSE IF Expired.state # "ACTIVE" THEN "inactive"
                   ELSE IF row[SegOf(w)].bytes \notin Spoken THEN "unspoken"
                   ELSE "submit"
<1>0. /\ UNCHANGED <<row, file, decision, reply, bound, run, job, faults>>
      /\ At(w, "read") /\ session' = Expired /\ GoTo(w, step)
  BY DEF ReadSegment, store, outcome
<1>1. /\ step \in Steps /\ "read" \in Steps /\ step # "commit"
      /\ step = "done" => decision[SegOf(w)] # "QUEUED"
  BY DEF Steps
<1> HIDE DEF step
<1>2. session' \in Sessions /\ GoesOn /\ bound' \subseteq Seg
  BY <1>0, SessionExpires DEF SegmentInv, Typed
<1> QED BY <1>0, <1>1, <1>2, AloneStep

\* Steps that look at the gateway or the binding only.
LEMMA WorkStep ==
  ASSUME SegmentInv, NEW w \in Worker, Submit(w) \/ Bind(w) \/ Poll(w) \/ PollTimesOut(w) \/ PollBreaks(w)
  PROVE  SegmentInv' /\ \A s \in Seg : Moves(s)
<1>1. /\ UNCHANGED <<session, row, file, decision, reply, run, job>>
      /\ Fault \/ UNCHANGED faults
  BY DEF Submit, Bind, Poll, PollTimesOut, PollBreaks, store, outcome
<1>2. session' \in Sessions /\ GoesOn /\ bound \subseteq Seg
  BY <1>1 DEF SegmentInv, Typed, GoesOn
<1>3. PICK from \in {"submit", "bind", "poll"} :
        /\ At(w, from)
        /\ from = "bind" => bound' \in {bound, bound \cup {SegOf(w)}}
        /\ from # "bind" => bound' = bound
  BY DEF Submit, Bind, Poll, PollTimesOut, PollBreaks, outcome
<1>4. PICK step \in {"poll", "post", "fatal", "raise", "commit"} :
        GoTo(w, step) /\ (step = "commit" => run[SegOf(w)] = "completed")
  BY DEF Submit, Bind, Poll, PollTimesOut, PollBreaks, Received
<1>5. from \in Steps /\ step \in Steps /\ step # "done"
  BY DEF Steps
<1>6. bound' \subseteq Seg /\ bound \subseteq bound'
  BY <1>2, <1>3, <1>5, InJob
<1> QED BY <1>1, <1>2, <1>3, <1>4, <1>5, <1>6, AloneStep

\* The gateway: a run is started for a segment that waits for it, and ends.
LEMMA RunStep ==
  ASSUME SegmentInv, NEW s \in Seg, job[s].phase # "ABSENT", decision[s] # "DELIVERED" \/ run[s] = "completed",
         NEW state \in {"running", "completed", "failed"}, run' = [run EXCEPT ![s] = state],
         run[s] = "completed" => state = "completed",
         UNCHANGED <<session, row, file, decision, reply, bound, job>>
  PROVE  run' \in [Seg -> Runs] /\ \A u \in Seg : SegTrue(u)' /\ Moves(u)
<1>1. /\ run' \in [Seg -> Runs] /\ run'[s] = state
      /\ \A u \in Seg : u # s => run'[u] = run[u]
  BY DEF SegmentInv, Typed, Runs
<1>2. ASSUME NEW u \in Seg
      PROVE  SegTrue(u)' /\ Moves(u)
  <2>1. SegTrue(u)
    BY DEF SegmentInv
  <2>2. CASE u = s
    <3>1. SegTrue(u)'
      BY <1>1, <2>1, <2>2 DEF SegTrue
    <3>2. Moves(u)
      BY <1>1, <2>2 DEF Moves, JobMoves, OutcomeMoves
    <3> QED BY <3>1, <3>2
  <2>3. CASE u # s
    <3>1. StandsAt(u) /\ GoesOn
      BY <1>1, <2>3 DEF StandsAt, GoesOn
    <3> QED BY <2>1, <3>1, Stands
  <2> QED BY <2>2, <2>3
<1> QED BY <1>1, <1>2

LEMMA RunEndsTrue ==
  ASSUME SegmentInv, NEW s \in Seg, NEW how \in {"completed", "failed"}, RunEnds(s, how)
  PROVE  SegmentInv' /\ \A u \in Seg : Moves(u)
<1>0. /\ UNCHANGED <<session, row, file, decision, reply, bound, job, running, faults>>
      /\ run[s] = "running" /\ run' = [run EXCEPT ![s] = how]
  BY DEF RunEnds, store, outcome
<1>1. job[s].phase # "ABSENT" /\ decision[s] # "DELIVERED"
  BY <1>0 DEF SegmentInv, SegTrue, None
<1>2. run' \in [Seg -> Runs] /\ \A u \in Seg : SegTrue(u)' /\ Moves(u)
  BY <1>0, <1>1, RunStep
<1>3. Typed'
  BY <1>0, <1>2 DEF SegmentInv, Typed, JobsTyped
<1>4. \A w \in Worker : running'[w] = running[w]
  BY <1>0
<1> QED BY <1>2, <1>3, <1>4, Conclude

\* What the gateway keeps for a segment whose request it may have taken.
LEMMA AcceptedIs ==
  ASSUME SegmentInv, NEW s \in Seg, job[s].phase # "ABSENT", run' \in {run, Accepted(s)},
         UNCHANGED <<session, row, file, decision, reply, bound, job>>
  PROVE  run' \in [Seg -> Runs] /\ \A u \in Seg : SegTrue(u)' /\ Moves(u)
<1>1. CASE run' = run
  <2>1. run' \in [Seg -> Runs]
    BY <1>1 DEF SegmentInv, Typed
  <2>2. ASSUME NEW u \in Seg
        PROVE  StandsAt(u) /\ GoesOn
    BY <1>1 DEF StandsAt, GoesOn
  <2> QED BY <2>1, <2>2, Stands DEF SegmentInv
<1>2. CASE run' # run
  <2>1. run[s] = None /\ run' = [run EXCEPT ![s] = "running"]
    BY <1>2 DEF Accepted
  <2>2. decision[s] # "DELIVERED" /\ run[s] # "completed"
    BY <2>1 DEF SegmentInv, SegTrue, None
  <2> QED BY <2>1, <2>2, RunStep
<1> QED BY <1>1, <1>2

LEMMA PostTrue ==
  ASSUME SegmentInv, NEW w \in Worker, Post(w) \/ PostLost(w)
  PROVE  SegmentInv' /\ \A s \in Seg : Moves(s)
<1>1. /\ UNCHANGED <<session, row, file, decision, reply, bound, job>>
      /\ Fault \/ UNCHANGED faults
      /\ run' \in {run, Accepted(SegOf(w))}
  BY DEF Post, PostLost, store, outcome
<1>2. PICK from \in {"post", "repost"} : At(w, from)
  BY DEF Post, PostLost
<1>3. PICK step \in {"bind", "repost", "fatal"} : GoTo(w, step)
  BY DEF Post, PostLost
<1>4. from \in Steps /\ step \in Steps /\ step \notin {"done", "commit"}
  BY DEF Steps
<1>5. PICK s \in Seg : s = SegOf(w) /\ job[s].phase # "ABSENT"
  BY <1>2, <1>4, InJob
<1>6. run' \in [Seg -> Runs] /\ \A u \in Seg : SegTrue(u)' /\ Moves(u)
  BY <1>1, <1>5, AcceptedIs
<1>7. Typed'
  BY <1>1, <1>2, <1>3, <1>4, <1>6, GoesTo, FaultCounted DEF SegmentInv, Typed, JobsTyped
<1> QED BY <1>1, <1>2, <1>3, <1>4, <1>6, <1>7, HandlerStep

\* A decision that is taken: one that was waited for, or the same again.
LEMMA Decides ==
  ASSUME SegmentInv, NEW s \in Seg, job[s].phase # "ABSENT",
         NEW result \in {"FAILED", "NO_SPEECH", "DELIVERED"}, decision[s] \in {"QUEUED", result},
         decision' = [decision EXCEPT ![s] = result],
         result = "DELIVERED" =>
           /\ decision[s] = "QUEUED" /\ run[s] = "completed" /\ s \in bound
           /\ session.state \in {"ACTIVE", "PAUSED", "STOPPING"} /\ ~session.late,
         reply' = IF result = "DELIVERED" /\ session.response THEN reply \cup {s} ELSE reply,
         GoesOn, UNCHANGED <<row, file, bound, run, job>>
  PROVE  /\ decision' \in [Seg -> Decisions] /\ reply' \subseteq Seg
         /\ \A u \in Seg : SegTrue(u)' /\ Moves(u)
<1>1. /\ decision' \in [Seg -> Decisions] /\ decision'[s] = result /\ reply' \subseteq Seg
      /\ \A u \in Seg : u # s => decision'[u] = decision[u] /\ (u \in reply') = (u \in reply)
  BY DEF SegmentInv, Typed, Decisions
<1>2. ASSUME NEW u \in Seg
      PROVE  SegTrue(u)' /\ Moves(u)
  <2>1. SegTrue(u)
    BY DEF SegmentInv
  <2>2. CASE u = s
    <3>1. s \in reply' <=> result = "DELIVERED" /\ session.response
      BY <2>1, <2>2 DEF SegTrue
    <3>2. SegTrue(s)'
      BY <1>1, <2>1, <2>2, <3>1 DEF SegTrue, GoesOn, None
    <3>3. Moves(s)
      BY <1>1 DEF Moves, JobMoves, OutcomeMoves, Settled
    <3> QED BY <2>2, <3>2, <3>3
  <2>3. CASE u # s
    <3>1. StandsAt(u)
      BY <1>1, <2>3 DEF StandsAt
    <3> QED BY <2>1, <3>1, Stands
  <2> QED BY <2>2, <2>3
<1> QED BY <1>1, <1>2

LEMMA MarkTrue ==
  ASSUME SegmentInv, NEW w \in Worker, Mark(w)
  PROVE  SegmentInv' /\ \A s \in Seg : Moves(s)
<1>1. PICK s \in Seg, from \in {"inactive", "unspoken"} :
        s = SegOf(w) /\ At(w, from) /\ job[s].phase # "ABSENT"
  BY InJob DEF Mark, Steps
<1>2. PICK result \in {"FAILED", "NO_SPEECH"} :
        /\ decision[s] \in {"QUEUED", result} /\ decision' = [decision EXCEPT ![s] = result]
        /\ session' = Expired /\ GoTo(w, "done")
        /\ UNCHANGED <<row, file, reply, bound, run, job, faults>>
  BY <1>1 DEF Mark, store
<1>3. session' \in Sessions /\ GoesOn
  BY <1>2, SessionExpires
<1>4. decision' \in [Seg -> Decisions] /\ \A u \in Seg : SegTrue(u)' /\ Moves(u)
  BY <1>1, <1>2, <1>3, Decides
<1>5. from \in Steps /\ "done" \in Steps
  BY DEF Steps
<1>6. Typed'
  BY <1>1, <1>2, <1>3, <1>4, <1>5, GoesTo DEF SegmentInv, Typed, JobsTyped
<1>7. decision'[SegOf(w)] # "QUEUED"
  BY <1>1, <1>2 DEF SegmentInv, Typed
<1> QED BY <1>1, <1>2, <1>4, <1>5, <1>6, <1>7, HandlerStep

LEMMA CommitResultTrue ==
  ASSUME SegmentInv, NEW w \in Worker, CommitResult(w)
  PROVE  SegmentInv' /\ \A s \in Seg : Moves(s)
<1>0. UNCHANGED <<session, row, file, bound, run, job, faults>> /\ At(w, "commit")
  BY DEF CommitResult, store
<1>1. PICK s \in Seg : s = SegOf(w) /\ job[s].phase # "ABSENT" /\ run[s] = "completed"
  BY <1>0, InJob DEF SegmentInv, WorkTrue, Steps
<1>2. "commit" \in Steps /\ "done" \in Steps /\ "fatal" \in Steps
  BY DEF Steps
<1>3. session' \in Sessions /\ GoesOn /\ bound' \subseteq Seg
  BY <1>0 DEF SegmentInv, Typed, GoesOn
<1>4. CASE /\ s \in bound /\ decision[s] = "QUEUED"
           /\ session.state \in {"ACTIVE", "PAUSED", "STOPPING"} /\ ~session.late
           /\ decision' = [decision EXCEPT ![s] = "DELIVERED"]
           /\ reply' = IF session.response THEN reply \cup {s} ELSE reply
           /\ GoTo(w, "done")
  <2>1. /\ decision' \in [Seg -> Decisions] /\ reply' \subseteq Seg
        /\ \A u \in Seg : SegTrue(u)' /\ Moves(u)
    BY <1>0, <1>1, <1>3, <1>4, Decides
  <2>2. Typed'
    BY <1>0, <1>2, <1>3, <1>4, <2>1, GoesTo DEF SegmentInv, Typed, JobsTyped
  <2>3. decision'[SegOf(w)] # "QUEUED"
    BY <1>1, <1>4 DEF SegmentInv, Typed
  <2> QED BY <1>0, <1>2, <1>4, <2>1, <2>2, <2>3, HandlerStep
<1>5. CASE GoTo(w, "fatal") /\ UNCHANGED <<decision, reply>>
  BY <1>0, <1>2, <1>3, <1>5, AloneStep
<1> QED BY <1>1, <1>4, <1>5 DEF CommitResult

-----------------------------------------------------------------------------
(* The theorems.                                                           *)

LEMMA InitTrue == Init => SegmentInv
<1> SUFFICES ASSUME Init PROVE SegmentInv
  OBVIOUS
<1>1. session \in Sessions
  BY Bounds DEF Init, Sessions, SessionStates
<1>2. \A s \in Seg :
        /\ row[s] = NoRow /\ file[s] = None /\ decision[s] = None /\ run[s] = None
        /\ job[s] = NoJob /\ s \notin reply
  BY DEF Init
<1>3. \A w \in Worker : running[w] = Idle
  BY DEF Init
<1>4. JobsTyped
  <2>1. NoJob \in Jobs /\ NoJob.current = 0 /\ NoJob.last = 0
    BY DEF NoJob, Jobs, Phases
  <2> QED BY <1>2, <2>1, Numbers DEF Init, JobsTyped
<1>5. Typed
  BY <1>1, <1>4, Bounds DEF Init, Typed, Rows, Runs, Decisions
<1>6. ASSUME NEW s \in Seg
      PROVE  SegTrue(s)
  BY <1>2 DEF SegTrue, NoJob, None
<1>7. \A w \in Worker : WorkTrue(w)
  BY <1>3 DEF WorkTrue
<1> QED BY <1>5, <1>6, <1>7 DEF SegmentInv

LEMMA NextTrue ==
  ASSUME SegmentInv, [Next]_vars
  PROVE  SegmentInv' /\ \A s \in Seg : Moves(s)
<1>1. CASE UNCHANGED vars
  <2>1. /\ UNCHANGED <<row, file, decision, reply, bound, run, job, running, faults>>
        /\ session' = session
    BY <1>1 DEF vars, store, outcome
  <2>2. session' \in Sessions /\ GoesOn
    BY <2>1 DEF SegmentInv, Typed, GoesOn
  <2> QED BY <2>1, <2>2, SessionStep
<1>2. CASE Owner
  <2>1. ASSUME NEW hermes \in BOOLEAN, NEW response \in BOOLEAN, Start(hermes, response)
        PROVE  SegmentInv' /\ \A s \in Seg : Moves(s)
    BY <2>1, StartTrue
  <2>2. CASE Activate \/ Pause \/ Resume \/ BeginStop \/ Stop \/ Read \/ Recover
    BY <2>2, OwnerOfSession
  <2>3. ASSUME NEW s \in Seg, NEW id \in Id, NEW bytes \in Bytes, AppendDies(s, id, bytes)
        PROVE  SegmentInv' /\ \A u \in Seg : Moves(u)
    BY <2>3, AppendDiesTrue
  <2>4. ASSUME NEW s \in Seg, NEW id \in Id, NEW bytes \in Bytes,
               NEW agent \in {"FORWARD_DEFAULT", "STORE_SILENT"}, Append(s, id, bytes, agent)
        PROVE  SegmentInv' /\ \A u \in Seg : Moves(u)
    BY <2>4, AppendTrue
  <2> QED BY <1>2, <2>1, <2>2, <2>3, <2>4 DEF Owner
<1>3. CASE SessionLate
  BY <1>3, OwnerOfSession
<1>4. ASSUME NEW s \in Seg, JobExpires(s)
      PROVE  SegmentInv' /\ \A u \in Seg : Moves(u)
  BY <1>4, JobExpiresTrue
<1>5. ASSUME NEW s \in Seg, NEW how \in {"completed", "failed"}, RunEnds(s, how)
      PROVE  SegmentInv' /\ \A u \in Seg : Moves(u)
  BY <1>5, RunEndsTrue
<1>6. ASSUME NEW w \in Worker, Handler(w)
      PROVE  SegmentInv' /\ \A s \in Seg : Moves(s)
  BY <1>6, ReadSegmentTrue, MarkTrue, WorkStep, PostTrue, CommitResultTrue, CompleteTrue,
     FailTrue, RestTrue DEF Handler
<1>7. ASSUME NEW w \in Worker, PostLost(w) \/ PollTimesOut(w) \/ PollBreaks(w) \/ Dies(w)
      PROVE  SegmentInv' /\ \A s \in Seg : Moves(s)
  BY <1>7, PostTrue, WorkStep, RestTrue
<1>8. ASSUME NEW w \in Worker, NEW s \in Seg, ClaimJob(w, s)
      PROVE  SegmentInv' /\ \A u \in Seg : Moves(u)
  BY <1>8, ClaimJobTrue
<1> QED BY <1>1, <1>2, <1>3, <1>4, <1>5, <1>6, <1>7, <1>8 DEF Next

\* The rows of a segment, its file, its job, its run and its reply tell the
\* same story, and what is to stay silent stays on the server, for any number
\* of segments, workers, attempts and faults.
THEOREM SegmentsCorrect == Spec => []SegmentsAreTrue
<1>1. Init => SegmentInv
  BY InitTrue
<1>2. SegmentInv /\ [Next]_vars => SegmentInv'
  BY NextTrue
<1>3. SegmentInv => SegmentsAreTrue
  <2> SUFFICES ASSUME SegmentInv PROVE SegmentsAreTrue
    OBVIOUS
  <2>1. TypeOK
    BY TypeCorrect DEF SegmentInv
  <2>2. ASSUME NEW s \in Seg
        PROVE  SegTrue(s) /\ decision[s] \in Decisions
    BY DEF SegmentInv, Typed
  <2>3. SilentStaysLocal
    BY <2>2 DEF SilentStaysLocal, SegTrue
  <2>4. FilesAgree
    BY <2>2 DEF FilesAgree, SegTrue
  <2>5. DeliveredMeansAnswered
    BY <2>2 DEF DeliveredMeansAnswered, SegTrue
  <2>6. JobsAgree
    BY <2>2 DEF JobsAgree, SegTrue
  <2> QED BY <2>1, <2>3, <2>4, <2>5, <2>6 DEF SegmentsAreTrue
<1> QED BY <1>1, <1>2, <1>3, PTL DEF Spec

LEMMA MovesOfJob ==
  ASSUME NEW s \in Seg, JobMoves(s)
  PROVE  Contract!JobStep(s)
BY DEF JobMoves, Contract!JobStep, Contract!Stay, Contract!Open, Contract!Start,
       Contract!Release, Contract!Succeed, Contract!Fail, Contract!Same

\* A decision that was taken stands, nothing is delivered into a session that
\* has ended, and the forwarding jobs are the jobs of JobContract: a job that
\* a second worker takes over, or that fails late, changes no outcome.
THEOREM EndsHold == Spec => EndsAreFinal
<1>1. Init => SegmentInv /\ Contract!Init
  <2>1. Init => Contract!Init
    BY DEF Init, Contract!Init, NoJob
  <2> QED BY <2>1, InitTrue
<1>2. SegmentInv /\ [Next]_vars => SegmentInv'
  BY NextTrue
<1>3. SegmentInv /\ [Next]_vars => Contract!Next
  BY NextTrue, MovesOfJob DEF Contract!Next, Moves
<1>4. SegmentInv /\ [Next]_vars =>
        \A s \in Seg : /\ decision[s] \notin {None, "QUEUED"} => decision'[s] = decision[s]
                       /\ s \in reply => s \in reply'
  <2> SUFFICES ASSUME SegmentInv, [Next]_vars, NEW s \in Seg
               PROVE  /\ decision[s] \notin {None, "QUEUED"} => decision'[s] = decision[s]
                      /\ s \in reply => s \in reply'
    OBVIOUS
  <2>1. OutcomeMoves(s)
    BY NextTrue DEF Moves
  <2>2. decision[s] \in Decisions
    BY DEF SegmentInv, Typed
  <2> QED BY <2>1, <2>2 DEF OutcomeMoves, Settled, Decisions
<1>5. SegmentInv /\ [Next]_vars =>
        \A s \in Seg : decision[s] # "DELIVERED" /\ decision'[s] = "DELIVERED"
          => session.state \in {"ACTIVE", "PAUSED", "STOPPING"} /\ ~session.late
  BY NextTrue DEF Moves, OutcomeMoves
<1>6. Spec => OutcomesStay
  BY <1>1, <1>2, <1>4, PTL DEF Spec, OutcomesStay
<1>7. Spec => NothingAfterTheEnd
  BY <1>1, <1>2, <1>5, PTL DEF Spec, NothingAfterTheEnd
<1>8. Spec => JobsKeepContract
  BY <1>1, <1>2, <1>3, PTL DEF Spec, JobsKeepContract, Contract!Spec
<1> QED BY <1>6, <1>7, <1>8 DEF EndsAreFinal

-----------------------------------------------------------------------------
(* The submission of a turn.                                               *)

\* The rows of HermesWire.
TurnJobs == [phase: {"OPEN", "SUCCEEDED", "FAILED"}, attempts: 0 .. TurnAttempts,
             by: Worker \cup {Wire!NoWorker}, seeker: Worker \cup {Wire!NoWorker}]
IngressRows == [status: {"QUEUED", "IN_PROGRESS", "SUBMITTED", "FAILED"},
                attempts: 0 .. TurnAttempts, late: BOOLEAN, sound: BOOLEAN]
TurnAnswers == [outcome: {"none", "grace", "error", "success"}, of: SUBSET Wire!Runs]
Gateways == [runs: [Wire!Runs -> {"none", "running", "completed", "failed"}],
             kept: {Wire!NoRun} \cup Wire!Runs, travelling: 0 .. WireFaults, forgot: 0 .. WireFaults]
Submitters == [step: Wire!Steps, token: 0 .. TurnAttempts, run: 0 .. Wire!Foreign, posts: 0 .. Posts]

WireTyped ==
  /\ jobs \in TurnJobs /\ ingress \in IngressRows /\ binding \in {Wire!NoRun} \cup Wire!Runs
  /\ answer \in TurnAnswers /\ gateway \in Gateways
  /\ work \in [Worker -> Submitters] /\ mishaps \in 0 .. WireFaults

\* Every claim of the row follows a claim of the job.
Claiming == {w \in Worker : Wire!At(w, "claim")}
AttemptsSpent ==
  IsFiniteSet(Claiming) /\ Cardinality(Claiming) + ingress.attempts <= jobs.attempts

\* What is in a worker's memory.
SubmitterTrue(m) ==
  /\ m.step = "idle" => m = Wire!Resting
  /\ m.step \in {"claim", "context", "preflight", "history"} => m.posts = 0
  /\ m.step = "post" => m.posts < Posts
  /\ m.step = "bind" => m.run \in 1 .. Wire!Foreign
  /\ m.step \in {"poll", "result", "found"} => m.run \in Wire!Runs
  /\ m.step \in {"result", "found"} => gateway.runs[m.run] = "completed"

\* The gateway has started a run per key it kept.
RunsAsked ==
  /\ gateway.forgot + gateway.travelling <= mishaps
  /\ gateway.kept # Wire!NoRun => gateway.runs[gateway.kept] # "none"
  /\ IsFiniteSet(Wire!Asked)
  /\ gateway.kept = Wire!NoRun => Cardinality(Wire!Asked) <= gateway.forgot
  /\ Cardinality(Wire!Asked) <= gateway.forgot + 1

\* An answer is of a run.
AnswerTrue == Wire!AnswerOfTheBoundRun /\ (answer.outcome = "success" <=> answer.of # {})

\* The inductive invariant of a submission.
WireInv ==
  WireTyped /\ AttemptsSpent
  /\ (\A w \in Worker : SubmitterTrue(work[w])) /\ RunsAsked /\ AnswerTrue

\* A run that is completed stays so.
RunsKeep ==
  /\ gateway'.runs \in [Wire!Runs -> {"none", "running", "completed", "failed"}]
  /\ \A r \in Wire!Runs : gateway.runs[r] = "completed" => gateway'.runs[r] = "completed"

\* FiniteSets is the same in HermesWire as here.
LEMMA SameSizes == \A S : Wire!Cardinality(S) = Cardinality(S)
BY DEF Wire!Cardinality, Cardinality

LEMMA InitWire == Wire!WireInit => WireInv
<1> SUFFICES ASSUME Wire!WireInit PROVE WireInv
  OBVIOUS
<1>1. WireTyped
  <2>0. 0 \in 0 .. TurnAttempts
    BY WireConstants
  <2>1. jobs \in TurnJobs /\ binding = Wire!NoRun
    BY <2>0 DEF Wire!WireInit, TurnJobs
  <2>6. ingress \in IngressRows
    BY <2>0 DEF Wire!WireInit, IngressRows
  <2>2. answer \in TurnAnswers
    BY DEF Wire!WireInit, TurnAnswers
  <2>3. gateway \in Gateways
    BY WireConstants DEF Wire!WireInit, Gateways, Wire!NoRun
  <2>4. Wire!Resting \in Submitters
    BY WireConstants DEF Wire!Resting, Submitters, Wire!Steps, Wire!NoRun, Wire!Foreign
  <2>5. work \in [Worker -> Submitters]
    BY <2>4 DEF Wire!WireInit
  <2> QED BY <2>1, <2>2, <2>3, <2>5, <2>6, WireConstants DEF WireTyped, Wire!WireInit
<1>2. AttemptsSpent
  <2>1. Claiming = {}
    BY DEF Claiming, Wire!At, Wire!WireInit, Wire!Resting
  <2> QED BY <2>1, FS_EmptySet DEF AttemptsSpent, Wire!WireInit
<1>3. ASSUME NEW w \in Worker PROVE SubmitterTrue(work[w])
  BY DEF Wire!WireInit, SubmitterTrue, Wire!Resting
<1>4. RunsAsked
  <2>1. Wire!Asked = {}
    BY DEF Wire!Asked, Wire!WireInit
  <2> QED BY <2>1, FS_EmptySet DEF RunsAsked, Wire!WireInit, Wire!NoRun
<1>5. AnswerTrue
  BY DEF Wire!WireInit, AnswerTrue, Wire!AnswerOfTheBoundRun
<1> QED BY <1>1, <1>2, <1>3, <1>4, <1>5 DEF WireInv

\* The memory of one worker changes; it does not come to claim the row.
LEMMA SubmitterMoves ==
  ASSUME WireInv, RunsKeep, NEW w \in Worker, NEW m \in Submitters,
         work' = [work EXCEPT ![w] = m], m.step # "claim", SubmitterTrue(m)',
         ingress'.attempts = ingress.attempts, jobs'.attempts = jobs.attempts
  PROVE  /\ work' \in [Worker -> Submitters] /\ AttemptsSpent'
         /\ \A v \in Worker : SubmitterTrue(work[v])'
<1>1. work' \in [Worker -> Submitters]
  BY DEF WireInv, WireTyped
<1>2. ASSUME NEW v \in Worker PROVE SubmitterTrue(work[v])'
  <2>1. CASE v = w
    BY <2>1 DEF WireInv, WireTyped
  <2>2. CASE v # w
    <3>1. work'[v] = work[v] /\ SubmitterTrue(work[v])
      BY <2>2 DEF WireInv, WireTyped
    <3>2. work'[v].step \in {"result", "found"} => gateway'.runs[work'[v].run] = "completed"
      BY <3>1 DEF SubmitterTrue, RunsKeep
    <3> QED BY <3>1, <3>2 DEF SubmitterTrue
  <2> QED BY <2>1, <2>2
<1>3. AttemptsSpent'
  <2>1. Claiming' = Claiming \ {w}
    BY DEF Claiming, Wire!At, WireInv, WireTyped
  <2>2. IsFiniteSet(Claiming) /\ Cardinality(Claiming) + ingress.attempts <= jobs.attempts
    BY DEF WireInv, AttemptsSpent
  <2>3. IsFiniteSet(Claiming') /\ Cardinality(Claiming') <= Cardinality(Claiming)
    BY <2>1, <2>2, FS_Subset
  <2>4. Cardinality(Claiming) \in Nat /\ Cardinality(Claiming') \in Nat
        /\ ingress.attempts \in Nat /\ jobs.attempts \in Nat
    BY <2>2, <2>3, FS_CardinalityType, WireConstants DEF WireInv, WireTyped, IngressRows, TurnJobs
  <2> QED BY <2>2, <2>3, <2>4 DEF AttemptsSpent
<1> QED BY <1>1, <1>2, <1>3

LEMMA SubmittersRest ==
  ASSUME WireInv, RunsKeep, work' = work,
         ingress'.attempts = ingress.attempts, jobs'.attempts = jobs.attempts
  PROVE  /\ work' \in [Worker -> Submitters] /\ AttemptsSpent'
         /\ \A v \in Worker : SubmitterTrue(work[v])'
<1>1. ASSUME NEW v \in Worker PROVE SubmitterTrue(work[v])'
  <2>1. work'[v] = work[v] /\ SubmitterTrue(work[v])
    BY DEF WireInv, WireTyped
  <2>2. work'[v].step \in {"result", "found"} => gateway'.runs[work'[v].run] = "completed"
    BY <2>1 DEF SubmitterTrue, RunsKeep
  <2> QED BY <2>1, <2>2 DEF SubmitterTrue
<1>2. AttemptsSpent'
  BY DEF WireInv, AttemptsSpent, Claiming, Wire!At
<1> QED BY <1>1, <1>2 DEF WireInv, WireTyped

\* A worker goes to another step, or back to rest.
LEMMA StepTaken ==
  ASSUME WireInv, NEW w \in Worker, NEW step \in Wire!Steps, Wire!GoTo(w, step)
  PROVE  \E m \in Submitters :
           /\ work' = [work EXCEPT ![w] = m]
           /\ m.step = step /\ m.token = work[w].token /\ m.run = work[w].run
           /\ m.posts = work[w].posts
<1> DEFINE m == [work[w] EXCEPT !.step = step]
<1>1. work[w] \in Submitters
  BY DEF WireInv, WireTyped
<1>2. m \in Submitters /\ m.step = step /\ m.token = work[w].token /\ m.run = work[w].run
      /\ m.posts = work[w].posts
  BY <1>1 DEF Submitters
<1>3. work' = [work EXCEPT ![w] = m]
  BY DEF Wire!GoTo
<1> QED BY <1>2, <1>3

LEMMA RestingIs ==
  /\ Wire!Resting \in Submitters /\ Wire!Resting.step = "idle"
  /\ SubmitterTrue(Wire!Resting) /\ SubmitterTrue(Wire!Resting)'
BY WireConstants DEF Wire!Resting, Submitters, Wire!Steps, Wire!NoRun, Wire!Foreign, SubmitterTrue

LEMMA RunsRest == ASSUME WireInv, gateway' = gateway PROVE RunsKeep
BY DEF WireInv, WireTyped, Gateways, RunsKeep

LEMMA AskedRest ==
  ASSUME WireInv, gateway' = gateway, mishaps' \in {mishaps, mishaps + 1}
  PROVE  RunsAsked'
BY WireConstants DEF WireInv, WireTyped, Gateways, RunsAsked, Wire!Asked

LEMMA AnswerRests ==
  ASSUME WireInv, RunsKeep, answer' = answer, binding' = binding,
         \/ ingress'.status = ingress.status
         \/ {ingress.status, ingress'.status} \subseteq {"QUEUED", "IN_PROGRESS"}
  PROVE  AnswerTrue'
<1>1. answer.of \subseteq Wire!Runs
  BY DEF WireInv, WireTyped, TurnAnswers
<1> QED BY <1>1 DEF WireInv, AnswerTrue, Wire!AnswerOfTheBoundRun, RunsKeep

LEMMA IngressTyped ==
  WireInv => /\ ingress.status \in {"QUEUED", "IN_PROGRESS", "SUBMITTED", "FAILED"}
             /\ ingress.attempts \in 0 .. TurnAttempts /\ jobs.attempts \in 0 .. TurnAttempts
BY DEF WireInv, WireTyped, IngressRows, TurnJobs

\* An outcome that is not an answer.
LEMMA NotAnswered ==
  ASSUME WireInv, RunsKeep, binding' = binding, NEW o \in {"grace", "error"},
         answer' = IF answer.outcome = "none" THEN [answer EXCEPT !.outcome = o] ELSE answer,
         ingress' = IF answer.outcome = "none" THEN [ingress EXCEPT !.status = "FAILED"] ELSE ingress
  PROVE  answer' \in TurnAnswers /\ ingress' \in IngressRows
         /\ ingress'.attempts = ingress.attempts /\ AnswerTrue'
<1>1. answer \in TurnAnswers /\ ingress \in IngressRows
  BY DEF WireInv, WireTyped
<1>2. answer' \in TurnAnswers
  BY <1>1 DEF TurnAnswers
<1>3. ingress' \in IngressRows /\ ingress'.attempts = ingress.attempts
  BY <1>1 DEF IngressRows
<1>4. answer.of \subseteq Wire!Runs /\ answer'.of = answer.of
  BY <1>1 DEF TurnAnswers
<1>5. CASE answer.outcome = "none"
  <2>1. answer'.outcome = o /\ ingress'.status = "FAILED" /\ answer.of = {}
    BY <1>1, <1>5 DEF TurnAnswers, IngressRows, WireInv, AnswerTrue
  <2>2. answer'.of = {}
    BY <2>1, <1>4
  <2> QED BY <1>2, <1>3, <2>1, <2>2 DEF AnswerTrue, Wire!AnswerOfTheBoundRun
<1>6. CASE answer.outcome # "none"
  <2>1. answer' = answer /\ ingress' = ingress
    BY <1>6
  <2> QED BY <1>2, <1>3, <2>1, AnswerRests
<1> QED BY <1>2, <1>3, <1>5, <1>6

\* A failed attempt.
LEMMA AttemptFailed ==
  ASSUME WireInv, RunsKeep, binding' = binding, Wire!FailJob
  PROVE  /\ jobs' \in TurnJobs /\ ingress' \in IngressRows /\ answer' \in TurnAnswers
         /\ jobs'.attempts = jobs.attempts /\ ingress'.attempts = ingress.attempts
         /\ AnswerTrue'
<1>1. jobs \in TurnJobs /\ answer \in TurnAnswers /\ ingress \in IngressRows
  BY DEF WireInv, WireTyped
<1>2. jobs' \in TurnJobs /\ jobs'.attempts = jobs.attempts
  BY <1>1 DEF TurnJobs, Wire!FailJob
<1>3. CASE jobs.attempts < TurnAttempts
  BY <1>1, <1>2, <1>3, AnswerRests DEF Wire!FailJob
<1>4. CASE ~(jobs.attempts < TurnAttempts)
  BY <1>2, <1>4, NotAnswered DEF Wire!FailJob, Wire!Graceful
<1> QED BY <1>3, <1>4

\* The answer of the run the submission is bound to.
LEMMA AnswerSound ==
  ASSUME WireInv, RunsKeep, binding' = binding, binding \in Wire!Runs,
         gateway.runs[binding] = "completed",
         Wire!Answered(binding)
  PROVE  /\ ingress' \in IngressRows /\ answer' \in TurnAnswers
         /\ ingress'.attempts = ingress.attempts /\ AnswerTrue'
         /\ answer.outcome \in {"success", "error"} => answer' = answer
<1>1. answer \in TurnAnswers /\ ingress \in IngressRows
  BY DEF WireInv, WireTyped
<1>2. ingress' \in IngressRows /\ ingress'.attempts = ingress.attempts
  BY <1>1 DEF IngressRows, Wire!Answered
<1>3. answer' \in TurnAnswers
  BY <1>1 DEF TurnAnswers, Wire!Answered
<1>4. CASE answer.outcome = "error"
  BY <1>2, <1>3, <1>4, AnswerRests DEF Wire!Answered
<1>5. CASE answer.outcome = "success"
  <2>1. answer.of = {binding}
    BY <1>5 DEF WireInv, AnswerTrue, Wire!AnswerOfTheBoundRun
  <2>2. answer' = answer
    BY <1>1, <1>5, <2>1 DEF Wire!Answered, TurnAnswers
  <2>3. ingress' = ingress
    BY <1>5, <2>1 DEF Wire!Answered
  <2> QED BY <1>2, <1>3, <2>2, <2>3, AnswerRests
<1>6. CASE answer.outcome \in {"none", "grace"}
  <2>1. answer.of = {}
    BY <1>6 DEF WireInv, AnswerTrue
  <2>2. answer'.outcome = "success" /\ answer'.of = {binding} /\ ingress'.status = "SUBMITTED"
    BY <1>1, <1>6, <2>1 DEF Wire!Answered, IngressRows
  <2>3. \A r \in {binding} : gateway'.runs[r] = "completed"
    BY DEF RunsKeep
  <2>4. {binding} \subseteq {binding} \ {Wire!NoRun}
    BY WireConstants DEF Wire!Runs, Wire!NoRun
  <2> QED BY <1>2, <1>3, <1>6, <2>2, <2>3, <2>4 DEF AnswerTrue, Wire!AnswerOfTheBoundRun
<1> QED BY <1>1, <1>4, <1>5, <1>6 DEF TurnAnswers

\* What a step of AnswerStays does.
AnswerEnds == answer.outcome \in {"success", "error"} => answer' = answer

LEMMA AnswerLeft ==
  ASSUME WireInv, Wire!FailJob \/ answer' = answer PROVE AnswerEnds
BY DEF Wire!FailJob, Wire!Graceful, AnswerEnds

\* What a step of BoundIsBound does.
BoundStep ==
  binding # Wire!NoRun /\ gateway.travelling = 0
  /\ (\A w \in Worker : work[w].step \notin {"preflight", "post"})
    => /\ Wire!Asked' = Wire!Asked /\ binding' = binding
       /\ \A w \in Worker : work'[w].step \notin {"preflight", "post"}

\* A step of one worker that leaves the gateway and the binding alone.
LEMMA WorkerSteps ==
  ASSUME WireInv, NEW w \in Worker, NEW m \in Submitters,
         work' = [work EXCEPT ![w] = m], m.step # "claim", SubmitterTrue(m)',
         \/ m.step \notin {"preflight", "post"}
         \/ work[w].step \in {"preflight", "post"} \/ binding = Wire!NoRun,
         gateway' = gateway, binding' = binding,
         mishaps' \in 0 .. WireFaults, mishaps' \in {mishaps, mishaps + 1},
         jobs' \in TurnJobs, ingress' \in IngressRows, answer' \in TurnAnswers,
         ingress'.attempts = ingress.attempts, jobs'.attempts = jobs.attempts, AnswerTrue'
  PROVE  WireInv' /\ BoundStep
<1>1. WireTyped'
  BY SubmitterMoves, RunsRest DEF WireInv, WireTyped
<1>2. WireInv'
  BY <1>1, SubmitterMoves, RunsRest, AskedRest DEF WireInv
<1>3. work \in [Worker -> Submitters]
  BY DEF WireInv, WireTyped
<1>4. BoundStep
  BY <1>3 DEF BoundStep, Wire!Asked
<1> QED BY <1>2, <1>4

\* What every one of them knows.
LEMMA WireKnows ==
  ASSUME WireInv
  PROVE  /\ jobs \in TurnJobs /\ ingress \in IngressRows /\ answer \in TurnAnswers
         /\ gateway \in Gateways /\ mishaps \in 0 .. WireFaults
         /\ work \in [Worker -> Submitters]
         /\ \A w \in Worker : work[w] \in Submitters /\ SubmitterTrue(work[w])
BY DEF WireInv, WireTyped

LEMMA FaultCounts == ASSUME WireInv, Wire!Fault PROVE mishaps' \in 0 .. WireFaults
                     /\ mishaps' \in {mishaps, mishaps + 1}
BY WireConstants DEF WireInv, WireTyped, Wire!Fault

LEMMA NoFault == ASSUME WireInv, mishaps' = mishaps PROVE mishaps' \in 0 .. WireFaults
                 /\ mishaps' \in {mishaps, mishaps + 1}
BY WireConstants DEF WireInv, WireTyped

\* A worker only goes on.
LEMMA SubmitterGoesOn ==
  ASSUME WireInv, NEW w \in Worker, NEW step \in Wire!Steps, Wire!GoTo(w, step),
         step \notin {"idle", "claim", "context", "preflight", "history", "post", "bind"},
         step \in {"poll", "result", "found"} => work[w].run \in Wire!Runs,
         step \in {"result", "found"} => gateway.runs[work[w].run] = "completed",
         gateway' = gateway, binding' = binding,
         mishaps' \in 0 .. WireFaults, mishaps' \in {mishaps, mishaps + 1},
         jobs' \in TurnJobs, ingress' \in IngressRows, answer' \in TurnAnswers,
         ingress'.attempts = ingress.attempts, jobs'.attempts = jobs.attempts, AnswerTrue'
  PROVE  WireInv' /\ BoundStep
<1>1. PICK m \in Submitters :
           /\ work' = [work EXCEPT ![w] = m]
           /\ m.step = step /\ m.token = work[w].token /\ m.run = work[w].run
           /\ m.posts = work[w].posts
  BY StepTaken
<1>2. SubmitterTrue(m)'
  BY <1>1 DEF SubmitterTrue
<1> QED BY <1>1, <1>2, WorkerSteps

\* A worker comes to rest.
LEMMA ComesToRest ==
  ASSUME WireInv, NEW w \in Worker, Wire!Rests(w),
         gateway' = gateway, binding' = binding,
         mishaps' \in 0 .. WireFaults, mishaps' \in {mishaps, mishaps + 1},
         jobs' \in TurnJobs, ingress' \in IngressRows, answer' \in TurnAnswers,
         ingress'.attempts = ingress.attempts, jobs'.attempts = jobs.attempts, AnswerTrue'
  PROVE  WireInv' /\ BoundStep
<1>1. work' = [work EXCEPT ![w] = Wire!Resting]
  BY DEF Wire!Rests
<1> QED BY <1>1, RestingIs, WorkerSteps

LEMMA RowTakenWire ==
  ASSUME WireInv, NEW w \in Worker, Wire!RowTaken(w) PROVE WireInv' /\ AnswerEnds /\ BoundStep
<1>1. Wire!FailJob /\ Wire!Rests(w) /\ binding' = binding /\ gateway' = gateway
      /\ mishaps' = mishaps
  BY DEF Wire!RowTaken
<1> QED BY <1>1, RunsRest, AttemptFailed, NoFault, ComesToRest, AnswerLeft

LEMMA GivesWayWire ==
  ASSUME WireInv, NEW w \in Worker, Wire!GivesWay(w) PROVE WireInv' /\ AnswerEnds /\ BoundStep
<1>1. /\ Wire!Rests(w) /\ binding' = binding /\ gateway' = gateway /\ mishaps' = mishaps
      /\ jobs' = jobs
      /\ ingress' = ingress /\ answer' = answer
  BY DEF Wire!GivesWay
<1> QED BY <1>1, RunsRest, AnswerRests, WireKnows, NoFault, ComesToRest, AnswerLeft

LEMMA ContextWire ==
  ASSUME WireInv, NEW w \in Worker, Wire!Context(w) PROVE WireInv' /\ AnswerEnds /\ BoundStep
<1> DEFINE n == [work[w] EXCEPT !.run = binding,
                                !.step = IF binding = Wire!NoRun THEN "preflight" ELSE "poll"]
<1>1. /\ binding' = binding /\ gateway' = gateway /\ mishaps' = mishaps
      /\ jobs' = jobs
      /\ ingress' = ingress /\ answer' = answer
      /\ work' = [work EXCEPT ![w] = n]
  BY DEF Wire!Context
<1>2. work[w] \in Submitters /\ work[w].posts = 0 /\ binding \in {Wire!NoRun} \cup Wire!Runs
  BY DEF Wire!Context, Wire!At, WireInv, WireTyped, SubmitterTrue
<1>3. binding \in 0 .. Wire!Foreign
  BY <1>2, WireConstants DEF Wire!NoRun, Wire!Runs, Wire!Foreign
<1>4. n \in Submitters /\ n.posts = 0 /\ n.run = binding
      /\ n.step = IF binding = Wire!NoRun THEN "preflight" ELSE "poll"
  BY <1>2, <1>3 DEF Submitters, Wire!Steps
<1> HIDE DEF n
<1>5. PICK m \in Submitters :
        /\ work' = [work EXCEPT ![w] = m]
        /\ m.posts = 0 /\ m.run = binding
        /\ m.step = IF binding = Wire!NoRun THEN "preflight" ELSE "poll"
  BY <1>1, <1>4
<1>6. SubmitterTrue(m)'
  BY <1>2, <1>5 DEF SubmitterTrue
<1>7. m.step # "claim" /\ (m.step \notin {"preflight", "post"} \/ binding = Wire!NoRun)
  BY <1>5
<1> QED BY <1>1, <1>5, <1>6, <1>7, RunsRest, AnswerRests, WireKnows, NoFault, WorkerSteps,
           AnswerLeft

LEMMA RejectInputWire ==
  ASSUME WireInv, NEW w \in Worker, Wire!RejectInput(w) PROVE WireInv' /\ AnswerEnds /\ BoundStep
<1>1. /\ Wire!GoTo(w, "done") /\ binding' = binding /\ gateway' = gateway
      /\ mishaps' = mishaps /\ jobs' = jobs
      /\ answer' = IF answer.outcome = "none" THEN [answer EXCEPT !.outcome = "error"] ELSE answer
      /\ ingress' = IF answer.outcome = "none" THEN [ingress EXCEPT !.status = "FAILED"] ELSE ingress
  BY DEF Wire!RejectInput
<1>2. /\ answer' \in TurnAnswers /\ ingress' \in IngressRows
      /\ ingress'.attempts = ingress.attempts /\ AnswerTrue'
  BY <1>1, RunsRest, NotAnswered
<1>3. WireInv' /\ BoundStep
  <2>1. "done" \in Wire!Steps
    BY DEF Wire!Steps
  <2> QED BY <1>1, <1>2, <2>1, WireKnows, NoFault, SubmitterGoesOn
<1> QED BY <1>1, <1>3 DEF AnswerEnds

LEMMA PreflightWire ==
  ASSUME WireInv, NEW w \in Worker, Wire!Preflight(w) PROVE WireInv' /\ AnswerEnds /\ BoundStep
<1>1. /\ binding' = binding /\ gateway' = gateway
      /\ jobs' = jobs
      /\ ingress' = ingress /\ answer' = answer
      /\ work[w].step = "preflight"
  BY DEF Wire!Preflight, Wire!At
<1>2. CASE Wire!GoTo(w, "post") /\ mishaps' = mishaps
  <2>1. "post" \in Wire!Steps
    BY DEF Wire!Steps
  <2>2. PICK m \in Submitters :
           /\ work' = [work EXCEPT ![w] = m]
           /\ m.step = "post" /\ m.posts = work[w].posts
    BY <1>2, <2>1, StepTaken
  <2>3. SubmitterTrue(m)'
    BY <1>1, <2>2, WireConstants, WireKnows DEF SubmitterTrue
  <2> QED BY <1>1, <1>2, <2>2, <2>3, RunsRest, AnswerRests, WireKnows, NoFault, WorkerSteps,
             AnswerLeft
<1>3. CASE Wire!GoTo(w, "nothing") /\ Wire!Fault
  <2>1. "nothing" \in Wire!Steps
    BY DEF Wire!Steps
  <2> QED BY <1>1, <1>3, <2>1, RunsRest, AnswerRests, WireKnows, FaultCounts, SubmitterGoesOn,
             AnswerLeft
<1> QED BY <1>2, <1>3 DEF Wire!Preflight

LEMMA PollWire ==
  ASSUME WireInv, NEW w \in Worker, Wire!Poll(w) PROVE WireInv' /\ AnswerEnds /\ BoundStep
<1>1. /\ binding' = binding /\ gateway' = gateway /\ mishaps' = mishaps
      /\ jobs' = jobs
      /\ ingress' = ingress /\ answer' = answer
      /\ \/ gateway.runs[work[w].run] = "completed" /\ Wire!GoTo(w, "result")
         \/ Wire!GoTo(w, "nothing")
      /\ work[w].step = "poll"
  BY DEF Wire!Poll, Wire!At
<1>2. work[w].run \in Wire!Runs /\ "result" \in Wire!Steps /\ "nothing" \in Wire!Steps
  BY <1>1, WireKnows DEF SubmitterTrue, Wire!Steps
<1> QED BY <1>1, <1>2, RunsRest, AnswerRests, WireKnows, NoFault, SubmitterGoesOn, AnswerLeft

LEMMA LeaseLostWire ==
  ASSUME WireInv, NEW w \in Worker, Wire!LeaseLost(w) PROVE WireInv' /\ AnswerEnds /\ BoundStep
<1>1. /\ binding' = binding /\ gateway' = gateway /\ mishaps' = mishaps
      /\ jobs' = jobs /\ ingress' = ingress /\ answer' = answer /\ Wire!GoTo(w, "nothing")
  BY DEF Wire!LeaseLost
<1>2. "nothing" \in Wire!Steps
  BY DEF Wire!Steps
<1> QED BY <1>1, <1>2, RunsRest, AnswerRests, WireKnows, NoFault, SubmitterGoesOn, AnswerLeft

LEMMA PostMisansweredWire ==
  ASSUME WireInv, NEW w \in Worker, Wire!PostMisanswered(w) PROVE WireInv' /\ AnswerEnds
         /\ BoundStep
<1>1. /\ binding' = binding /\ gateway' = gateway /\ Wire!Fault
      /\ jobs' = jobs
      /\ ingress' = ingress /\ answer' = answer
  BY DEF Wire!PostMisanswered
<1>2. CASE Wire!GoTo(w, "nothing")
  <2>1. "nothing" \in Wire!Steps
    BY DEF Wire!Steps
  <2> QED BY <1>1, <1>2, <2>1, RunsRest, AnswerRests, WireKnows, FaultCounts, SubmitterGoesOn,
             AnswerLeft
<1>3. CASE work' = [work EXCEPT ![w].run = Wire!Foreign, ![w].step = "bind"]
  <2> DEFINE n == [work[w] EXCEPT !.run = Wire!Foreign, !.step = "bind"]
  <2>1. work' = [work EXCEPT ![w] = n]
    BY <1>3
  <2>2. Wire!Foreign \in 1 .. Wire!Foreign /\ Wire!Foreign \in 0 .. Wire!Foreign
    BY WireConstants DEF Wire!Foreign
  <2>3. n \in Submitters /\ n.run = Wire!Foreign /\ n.step = "bind"
    BY <2>2, WireKnows DEF Submitters, Wire!Steps
  <2> HIDE DEF n
  <2>4. PICK m \in Submitters : work' = [work EXCEPT ![w] = m] /\ m.run = Wire!Foreign
        /\ m.step = "bind"
    BY <2>1, <2>3
  <2>5. SubmitterTrue(m)'
    BY <2>2, <2>4 DEF SubmitterTrue
  <2> QED BY <1>1, <2>4, <2>5, RunsRest, AnswerRests, WireKnows, FaultCounts, WorkerSteps,
             AnswerLeft
<1> QED BY <1>2, <1>3 DEF Wire!PostMisanswered

LEMMA CommitWire ==
  ASSUME WireInv, NEW w \in Worker, Wire!Commit(w) PROVE WireInv' /\ AnswerEnds /\ BoundStep
<1>1. /\ binding' = binding /\ gateway' = gateway /\ mishaps' = mishaps
      /\ jobs' = jobs /\ Wire!GoTo(w, "done") /\ work[w].step = "result"
      /\ binding = work[w].run /\ Wire!Answered(binding)
  BY DEF Wire!Commit, Wire!Valid, Wire!At
<1>2. work[w].run \in Wire!Runs /\ gateway.runs[work[w].run] = "completed"
  BY <1>1, WireKnows DEF SubmitterTrue
<1>3. "done" \in Wire!Steps
  BY DEF Wire!Steps
<1>4. /\ ingress' \in IngressRows /\ answer' \in TurnAnswers
      /\ ingress'.attempts = ingress.attempts /\ AnswerTrue' /\ AnswerEnds
  BY <1>1, <1>2, RunsRest, AnswerSound DEF AnswerEnds
<1> QED BY <1>1, <1>3, <1>4, WireKnows, NoFault, SubmitterGoesOn

LEMMA CommitRefusedWire ==
  ASSUME WireInv, NEW w \in Worker, Wire!CommitRefused(w) PROVE WireInv' /\ AnswerEnds
         /\ BoundStep
<1>1. Wire!FailJob /\ Wire!Rests(w) /\ binding' = binding /\ gateway' = gateway
      /\ mishaps' = mishaps
  BY DEF Wire!CommitRefused
<1> QED BY <1>1, RunsRest, AttemptFailed, NoFault, ComesToRest, AnswerLeft

LEMMA CommitErrorWire ==
  ASSUME WireInv, NEW w \in Worker, Wire!CommitError(w) PROVE WireInv' /\ AnswerEnds /\ BoundStep
<1>1. /\ Wire!GoTo(w, "done") /\ binding' = binding /\ gateway' = gateway
      /\ mishaps' = mishaps /\ jobs' = jobs
      /\ answer' = IF answer.outcome = "none" THEN [answer EXCEPT !.outcome = "grace"] ELSE answer
      /\ ingress' = IF answer.outcome = "none" THEN [ingress EXCEPT !.status = "FAILED"] ELSE ingress
  BY DEF Wire!CommitError, Wire!Graceful
<1>2. /\ answer' \in TurnAnswers /\ ingress' \in IngressRows
      /\ ingress'.attempts = ingress.attempts /\ AnswerTrue'
  BY <1>1, RunsRest, NotAnswered
<1>3. "done" \in Wire!Steps
  BY DEF Wire!Steps
<1>4. WireInv' /\ BoundStep
  BY <1>1, <1>2, <1>3, WireKnows, NoFault, SubmitterGoesOn
<1> QED BY <1>1, <1>4 DEF AnswerEnds

LEMMA ReleaseWire ==
  ASSUME WireInv, NEW w \in Worker, Wire!Release(w) PROVE WireInv' /\ AnswerEnds /\ BoundStep
<1>1. /\ Wire!GoTo(w, "check") /\ binding' = binding /\ gateway' = gateway
      /\ mishaps' = mishaps /\ jobs' = jobs
      /\ answer' = answer
      /\ ingress' = IF Wire!Holds(w) THEN [ingress EXCEPT !.status = "QUEUED", !.late = FALSE]
                 ELSE ingress
  BY DEF Wire!Release
<1>2. ingress' \in IngressRows /\ ingress'.attempts = ingress.attempts
  BY <1>1, WireKnows DEF IngressRows
<1>3. \/ ingress'.status = ingress.status
      \/ {ingress.status, ingress'.status} \subseteq {"QUEUED", "IN_PROGRESS"}
  <2>1. ingress \in IngressRows
    BY WireKnows
  <2> QED BY <1>1, <2>1 DEF Wire!Holds, IngressRows
<1>4. "check" \in Wire!Steps
  BY DEF Wire!Steps
<1> QED BY <1>1, <1>2, <1>3, <1>4, RunsRest, AnswerRests, WireKnows, NoFault, SubmitterGoesOn,
           AnswerLeft

LEMMA CheckWire ==
  ASSUME WireInv, NEW w \in Worker, Wire!Check(w) PROVE WireInv' /\ AnswerEnds /\ BoundStep
<1>1. binding' = binding /\ gateway' = gateway /\ mishaps' = mishaps
  BY DEF Wire!Check
<1>2. CASE Wire!FailJob /\ Wire!Rests(w)
  BY <1>1, <1>2, RunsRest, AttemptFailed, NoFault, ComesToRest, AnswerLeft
<1>3. CASE Wire!GoTo(w, "done") /\ jobs' = jobs
      /\ ingress' = ingress /\ answer' = answer
  <2>1. "done" \in Wire!Steps
    BY DEF Wire!Steps
  <2> QED BY <1>1, <1>3, <2>1, RunsRest, AnswerRests, WireKnows, NoFault, SubmitterGoesOn,
             AnswerLeft
<1> QED BY <1>2, <1>3 DEF Wire!Check

LEMMA CompleteWire ==
  ASSUME WireInv, NEW w \in Worker, Wire!Complete(w) PROVE WireInv' /\ AnswerEnds /\ BoundStep
<1>1. /\ Wire!Rests(w) /\ binding' = binding /\ gateway' = gateway /\ mishaps' = mishaps
     
      /\ ingress' = ingress /\ answer' = answer
      /\ jobs' = [jobs EXCEPT !.by = Wire!NoWorker, !.phase = "SUCCEEDED"]
  BY DEF Wire!Complete
<1>2. jobs' \in TurnJobs /\ jobs'.attempts = jobs.attempts
  BY <1>1, WireKnows DEF TurnJobs
<1> QED BY <1>1, <1>2, RunsRest, AnswerRests, WireKnows, NoFault, ComesToRest, AnswerLeft

LEMMA DiesWire ==
  ASSUME WireInv, NEW w \in Worker, Wire!Dies(w) PROVE WireInv' /\ AnswerEnds /\ BoundStep
<1>1. /\ Wire!Rests(w) /\ Wire!Fault /\ binding' = binding /\ gateway' = gateway
      /\ jobs' = jobs
      /\ ingress' = ingress /\ answer' = answer
  BY DEF Wire!Dies
<1> QED BY <1>1, RunsRest, AnswerRests, WireKnows, FaultCounts, ComesToRest, AnswerLeft

LEMMA HistoryWire ==
  ASSUME WireInv, NEW w \in Worker, Wire!History(w) PROVE WireInv' /\ AnswerEnds /\ BoundStep
<1>1. /\ Wire!GoTo(w, "history") /\ binding' = binding /\ gateway' = gateway /\ mishaps' = mishaps
     
      /\ ingress' = ingress /\ answer' = answer
      /\ jobs' = [jobs EXCEPT !.seeker = w] /\ work[w].step = "idle"
  BY DEF Wire!History, Wire!At
<1>2. jobs' \in TurnJobs /\ jobs'.attempts = jobs.attempts
  BY <1>1, WireKnows DEF TurnJobs
<1>3. "history" \in Wire!Steps /\ work[w].posts = 0
  BY <1>1, WireKnows DEF Wire!Steps, SubmitterTrue, Wire!Resting
<1>4. PICK m \in Submitters : work' = [work EXCEPT ![w] = m] /\ m.step = "history" /\ m.posts = 0
  BY <1>1, <1>3, StepTaken
<1>5. SubmitterTrue(m)'
  BY <1>4 DEF SubmitterTrue
<1> QED BY <1>1, <1>2, <1>4, <1>5, RunsRest, AnswerRests, WireKnows, NoFault, WorkerSteps,
           AnswerLeft

LEMMA HistoryFindsWire ==
  ASSUME WireInv, NEW w \in Worker, Wire!HistoryFinds(w) PROVE WireInv' /\ AnswerEnds /\ BoundStep
<1>1. binding' = binding /\ gateway' = gateway /\ mishaps' = mishaps /\ ingress' = ingress
      /\ answer' = answer
  BY DEF Wire!HistoryFinds
<1> DEFINE found == CHOOSE r \in Wire!Asked : TRUE
<1>2. CASE /\ Cardinality(Wire!Asked) = 1 /\ \A r \in Wire!Asked : gateway.runs[r] = "completed"
           /\ work' = [work EXCEPT ![w].step = "found", ![w].run = found]
           /\ jobs' = jobs
  <2>1. Wire!Asked # {}
    BY <1>2, FS_EmptySet
  <2>2. found \in Wire!Asked
    BY <2>1
  <2> HIDE DEF found
  <2>3. found \in Wire!Runs /\ gateway.runs[found] = "completed"
    BY <1>2, <2>2 DEF Wire!Asked
  <2> DEFINE n == [work[w] EXCEPT !.step = "found", !.run = found]
  <2>4. work' = [work EXCEPT ![w] = n]
    BY <1>2
  <2>5. found \in 0 .. Wire!Foreign
    BY <2>3, WireConstants DEF Wire!Runs, Wire!Foreign
  <2>6. n \in Submitters /\ n.run = found /\ n.step = "found"
    BY <2>5, WireKnows DEF Submitters, Wire!Steps
  <2> HIDE DEF n
  <2>7. PICK m \in Submitters :
          /\ work' = [work EXCEPT ![w] = m] /\ m.step = "found"
          /\ m.run \in Wire!Runs /\ gateway.runs[m.run] = "completed"
    BY <2>3, <2>4, <2>6
  <2>8. SubmitterTrue(m)'
    BY <1>1, <2>7 DEF SubmitterTrue, Wire!Runs
  <2> QED BY <1>1, <1>2, <2>7, <2>8, RunsRest, AnswerRests, WireKnows, NoFault, WorkerSteps,
             AnswerLeft
<1>3. CASE /\ Wire!Rests(w)
           /\ jobs' = IF jobs.seeker = w THEN [jobs EXCEPT !.seeker = Wire!NoWorker] ELSE jobs
  <2>1. jobs' \in TurnJobs /\ jobs'.attempts = jobs.attempts
    BY <1>3, WireKnows DEF TurnJobs
  <2> QED BY <1>1, <1>3, <2>1, RunsRest, AnswerRests, WireKnows, NoFault, ComesToRest, AnswerLeft
<1> QED BY <1>2, <1>3, SameSizes DEF Wire!HistoryFinds

LEMMA HistoryCommitsWire ==
  ASSUME WireInv, NEW w \in Worker, Wire!HistoryCommits(w) PROVE WireInv' /\ AnswerEnds
         /\ BoundStep
<1>1. /\ Wire!Rests(w) /\ binding' = binding /\ gateway' = gateway /\ mishaps' = mishaps
      /\ jobs' = [jobs EXCEPT !.seeker = Wire!NoWorker]
      /\ work[w].step = "found"
      /\ IF work[w].run = binding THEN Wire!Answered(work[w].run) ELSE UNCHANGED <<answer, ingress>>
  BY DEF Wire!HistoryCommits, Wire!Valid, Wire!At
<1>2. jobs' \in TurnJobs /\ jobs'.attempts = jobs.attempts
  BY <1>1, WireKnows DEF TurnJobs
<1>3. CASE work[w].run = binding
  <2>1. binding \in Wire!Runs /\ gateway.runs[binding] = "completed" /\ Wire!Answered(binding)
    BY <1>1, <1>3, WireKnows DEF SubmitterTrue
  <2>2. /\ ingress' \in IngressRows /\ answer' \in TurnAnswers
        /\ ingress'.attempts = ingress.attempts /\ AnswerTrue' /\ AnswerEnds
    BY <1>1, <2>1, RunsRest, AnswerSound DEF AnswerEnds
  <2> QED BY <1>1, <1>2, <2>2, NoFault, ComesToRest
<1>4. CASE work[w].run # binding
  <2>1. answer' = answer /\ ingress' = ingress
    BY <1>1, <1>4
  <2> QED BY <1>1, <1>2, <2>1, RunsRest, AnswerRests, WireKnows, NoFault, ComesToRest, AnswerLeft
<1> QED BY <1>3, <1>4

\* The two claims, between which the number of claims of the row is open.
LEMMA ClaimJobWire ==
  ASSUME WireInv, NEW w \in Worker, Wire!ClaimJob(w) PROVE WireInv' /\ AnswerEnds /\ BoundStep
<1>1. /\ Wire!GoTo(w, "claim") /\ binding' = binding /\ gateway' = gateway /\ mishaps' = mishaps
     
      /\ ingress' = ingress /\ answer' = answer
      /\ jobs' = [jobs EXCEPT !.attempts = @ + 1, !.by = w]
      /\ work[w].step = "idle" /\ jobs.attempts < TurnAttempts
  BY DEF Wire!ClaimJob, Wire!At
<1>2. jobs' \in TurnJobs /\ jobs'.attempts = jobs.attempts + 1
  <2>1. jobs \in TurnJobs /\ jobs.attempts \in 0 .. TurnAttempts
    BY WireKnows DEF TurnJobs
  <2>2. jobs.attempts + 1 \in 0 .. TurnAttempts
    BY <1>1, <2>1, WireConstants
  <2> QED BY <1>1, <2>1, <2>2 DEF TurnJobs
<1>3. "claim" \in Wire!Steps /\ work[w].posts = 0
  BY <1>1, WireKnows DEF Wire!Steps, SubmitterTrue, Wire!Resting
<1>4. PICK m \in Submitters : work' = [work EXCEPT ![w] = m] /\ m.step = "claim" /\ m.posts = 0
  BY <1>1, <1>3, StepTaken
<1>5. ASSUME NEW v \in Worker PROVE SubmitterTrue(work[v])'
  <2>1. CASE v = w
    BY <1>4, <2>1, WireKnows DEF SubmitterTrue
  <2>2. CASE v # w
    BY <1>1, <1>4, <2>2, WireKnows DEF SubmitterTrue
  <2> QED BY <2>1, <2>2
<1>6. AttemptsSpent'
  <2>1. Claiming' = Claiming \cup {w} /\ w \notin Claiming
    BY <1>1, <1>4, WireKnows DEF Claiming, Wire!At
  <2>2. IsFiniteSet(Claiming) /\ Cardinality(Claiming) + ingress.attempts <= jobs.attempts
    BY DEF WireInv, AttemptsSpent
  <2>3. IsFiniteSet(Claiming') /\ Cardinality(Claiming') = Cardinality(Claiming) + 1
    BY <2>1, <2>2, FS_AddElement
  <2>4. Cardinality(Claiming) \in Nat /\ ingress.attempts \in Nat /\ jobs.attempts \in Nat
    BY <2>2, FS_CardinalityType, IngressTyped, WireConstants
  <2> QED BY <1>1, <1>2, <2>2, <2>3, <2>4 DEF AttemptsSpent
<1>7. RunsAsked' /\ AnswerTrue'
  BY <1>1, RunsRest, AnswerRests, AskedRest
<1>8. WireTyped'
  <2>1. work' \in [Worker -> Submitters]
    BY <1>4, WireKnows
  <2> QED BY <1>1, <1>2, <2>1 DEF WireInv, WireTyped
<1>9. BoundStep
  BY <1>1, <1>4, WireKnows DEF BoundStep, Wire!Asked
<1> QED BY <1>1, <1>5, <1>6, <1>7, <1>8, <1>9 DEF WireInv, AnswerEnds

LEMMA ClaimRowWire ==
  ASSUME WireInv, NEW w \in Worker, Wire!ClaimRow(w) PROVE WireInv' /\ AnswerEnds /\ BoundStep
<1>1. /\ binding' = binding /\ gateway' = gateway /\ mishaps' = mishaps
      /\ jobs' = jobs /\ answer' = answer
      /\ ingress' = [ingress EXCEPT !.status = "IN_PROGRESS", !.attempts = @ + 1, !.late = FALSE]
      /\ work' = [work EXCEPT ![w].token = ingress.attempts + 1, ![w].step = "context"]
      /\ work[w].step = "claim" /\ ingress.status \in {"QUEUED", "IN_PROGRESS"}
  BY DEF Wire!ClaimRow, Wire!At, Wire!RowFree
<1>2. w \in Claiming
  BY <1>1 DEF Claiming, Wire!At
<1>3. /\ IsFiniteSet(Claiming) /\ Cardinality(Claiming) + ingress.attempts <= jobs.attempts
      /\ ingress.attempts \in Nat /\ jobs.attempts \in 0 .. TurnAttempts
      /\ IsFiniteSet(Claiming \ {w}) /\ Cardinality(Claiming \ {w}) = Cardinality(Claiming) - 1
      /\ Cardinality(Claiming) \in Nat /\ Cardinality(Claiming \ {w}) \in Nat
  BY <1>2, IngressTyped, WireConstants, FS_RemoveElement, FS_CardinalityType DEF WireInv,
     AttemptsSpent
<1>4. ingress.attempts + 1 \in 0 .. TurnAttempts
  BY <1>3, WireConstants
<1>5. ingress' \in IngressRows /\ ingress'.attempts = ingress.attempts + 1
      /\ ingress'.status = "IN_PROGRESS"
  BY <1>1, <1>4, WireKnows DEF IngressRows
<1> DEFINE n == [work[w] EXCEPT !.token = ingress.attempts + 1, !.step = "context"]
<1>6. work' = [work EXCEPT ![w] = n]
  BY <1>1
<1>7. work[w].posts = 0
  BY <1>1, WireKnows DEF SubmitterTrue
<1>8. n \in Submitters /\ n.step = "context" /\ n.posts = 0
  BY <1>4, <1>7, WireKnows DEF Submitters, Wire!Steps
<1> HIDE DEF n
<1>9. ASSUME NEW v \in Worker PROVE SubmitterTrue(work[v])'
  <2>1. CASE v = w
    BY <1>6, <1>8, <2>1, WireKnows DEF SubmitterTrue
  <2>2. CASE v # w
    BY <1>1, <1>6, <2>2, WireKnows DEF SubmitterTrue
  <2> QED BY <2>1, <2>2
<1>10. AttemptsSpent'
  <2>1. Claiming' = Claiming \ {w}
    BY <1>6, <1>8, WireKnows DEF Claiming, Wire!At
  <2> QED BY <1>1, <1>3, <1>5, <2>1 DEF AttemptsSpent
<1>11. RunsAsked' /\ AnswerTrue'
  BY <1>1, <1>5, RunsRest, AnswerRests, AskedRest
<1>12. WireTyped'
  <2>1. work' \in [Worker -> Submitters]
    BY <1>6, <1>8, WireKnows
  <2> QED BY <1>1, <1>5, <2>1 DEF WireInv, WireTyped
<1>13. BoundStep
  BY <1>1, <1>6, <1>8, WireKnows DEF BoundStep, Wire!Asked
<1> QED BY <1>1, <1>9, <1>10, <1>11, <1>12, <1>13 DEF WireInv, AnswerEnds

\* The gateway that takes a request.
LEMMA RequestTaken ==
  ASSUME WireInv, Wire!CanTake, NEW g, g = Wire!Takes(gateway)
  PROVE  /\ g \in Gateways /\ g.kept \in Wire!Runs /\ g.runs[g.kept] # "none"
         /\ g.travelling = gateway.travelling /\ g.forgot = gateway.forgot
         /\ \A r \in Wire!Runs : gateway.runs[r] = "completed" => g.runs[r] = "completed"
         /\ IsFiniteSet({r \in Wire!Runs : g.runs[r] # "none"})
         /\ Cardinality({r \in Wire!Runs : g.runs[r] # "none"}) <= g.forgot + 1
<1>1. gateway \in Gateways /\ RunsAsked
  BY DEF WireInv, WireTyped
<1>2. CASE gateway.kept # Wire!NoRun
  <2>1. g = gateway
    BY <1>2 DEF Wire!Takes
  <2> QED BY <1>1, <1>2, <2>1 DEF Gateways, RunsAsked, Wire!Asked
<1>3. CASE gateway.kept = Wire!NoRun
  <2> DEFINE new == CHOOSE r \in Wire!Unused : TRUE
  <2>1. new \in Wire!Unused
    BY <1>3 DEF Wire!CanTake
  <2>2. g = [gateway EXCEPT !.kept = new, !.runs[new] = "running"]
    BY <1>3 DEF Wire!Takes
  <2> HIDE DEF new
  <2>3. new \in Wire!Runs /\ gateway.runs[new] = "none"
    BY <2>1 DEF Wire!Unused
  <2>4. gateway.runs \in [Wire!Runs -> {"none", "running", "completed", "failed"}]
    BY <1>1 DEF Gateways
  <2> DEFINE runs == [gateway.runs EXCEPT ![new] = "running"]
  <2>5. runs \in [Wire!Runs -> {"none", "running", "completed", "failed"}]
    BY <2>3, <2>4
  <2>6. g = [gateway EXCEPT !.kept = new, !.runs = runs]
    BY <2>2
  <2> HIDE DEF runs
  <2>7. g \in Gateways /\ g.kept = new /\ g.runs = runs
         /\ g.travelling = gateway.travelling /\ g.forgot = gateway.forgot
    BY <1>1, <2>3, <2>5, <2>6 DEF Gateways
  <2>8. g \in Gateways /\ g.kept = new /\ g.runs = [gateway.runs EXCEPT ![new] = "running"]
        /\ g.travelling = gateway.travelling /\ g.forgot = gateway.forgot
    BY <2>7 DEF runs
  <2>9. {r \in Wire!Runs : g.runs[r] # "none"} = Wire!Asked \cup {new} /\ new \notin Wire!Asked
    BY <2>3, <2>8, <2>4 DEF Wire!Asked
  <2>10. IsFiniteSet(Wire!Asked \cup {new})
         /\ Cardinality(Wire!Asked \cup {new}) = Cardinality(Wire!Asked) + 1
    BY <1>1, <2>9, FS_AddElement DEF RunsAsked
  <2>11. Cardinality(Wire!Asked) <= gateway.forgot /\ Cardinality(Wire!Asked) \in Nat
         /\ gateway.forgot \in Nat
    BY <1>1, <1>3, WireConstants, FS_CardinalityType DEF RunsAsked, Gateways
  <2> QED BY <2>3, <2>8, <2>4, <2>9, <2>10, <2>11
<1> QED BY <1>2, <1>3

\* A gateway with at most as many requests under way as faults allow.
LEMMA RequestIsTaken ==
  ASSUME WireInv, Wire!CanTake, gateway' = Wire!Takes(gateway),
         mishaps' \in 0 .. WireFaults, mishaps' \in {mishaps, mishaps + 1}
  PROVE  gateway' \in Gateways /\ RunsKeep /\ RunsAsked' /\ gateway'.kept \in Wire!Runs
<1>1. /\ gateway' \in Gateways /\ gateway'.kept \in Wire!Runs /\ gateway'.runs[gateway'.kept] # "none"
      /\ gateway'.travelling = gateway.travelling /\ gateway'.forgot = gateway.forgot
      /\ \A r \in Wire!Runs : gateway.runs[r] = "completed" => gateway'.runs[r] = "completed"
      /\ IsFiniteSet(Wire!Asked') /\ Cardinality(Wire!Asked') <= gateway'.forgot + 1
  BY RequestTaken DEF Wire!Asked
<1>2. gateway'.kept # Wire!NoRun
  BY <1>1, WireConstants DEF Wire!Runs, Wire!NoRun
<1>3. gateway.forgot + gateway.travelling <= mishaps /\ gateway.forgot \in Nat
      /\ gateway.travelling \in Nat
      /\ mishaps \in Nat
  BY WireKnows, WireConstants DEF WireInv, RunsAsked, Gateways
<1> QED BY <1>1, <1>2, <1>3 DEF RunsKeep, RunsAsked, Gateways

LEMMA PostWire ==
  ASSUME WireInv, NEW w \in Worker, Wire!Post(w) PROVE WireInv' /\ AnswerEnds /\ BoundStep
<1>1. /\ Wire!CanTake /\ gateway' = Wire!Takes(gateway) /\ binding' = binding /\ mishaps' = mishaps
      /\ jobs' = jobs
      /\ ingress' = ingress /\ answer' = answer
      /\ work' = [work EXCEPT ![w].run = gateway'.kept, ![w].step = "bind"]
      /\ work[w].step = "post"
  BY DEF Wire!Post, Wire!At
<1>2. gateway' \in Gateways /\ RunsKeep /\ RunsAsked' /\ gateway'.kept \in Wire!Runs
  BY <1>1, NoFault, RequestIsTaken
<1>3. gateway'.kept \in 1 .. Wire!Foreign /\ gateway'.kept \in 0 .. Wire!Foreign
  BY <1>2, WireConstants DEF Wire!Runs, Wire!Foreign
<1> DEFINE n == [work[w] EXCEPT !.run = gateway'.kept, !.step = "bind"]
<1>4. work' = [work EXCEPT ![w] = n]
  BY <1>1
<1>5. n \in Submitters /\ n.step = "bind" /\ n.run \in 1 .. Wire!Foreign
  BY <1>3, WireKnows DEF Submitters, Wire!Steps
<1> HIDE DEF n
<1>6. PICK m \in Submitters : work' = [work EXCEPT ![w] = m] /\ m.step = "bind"
      /\ m.run \in 1 .. Wire!Foreign
  BY <1>4, <1>5
<1>7. SubmitterTrue(m)'
  BY <1>6 DEF SubmitterTrue, Wire!Foreign
<1>8. /\ work' \in [Worker -> Submitters] /\ AttemptsSpent'
      /\ \A v \in Worker : SubmitterTrue(work[v])'
  BY <1>1, <1>2, <1>6, <1>7, SubmitterMoves
<1>9. AnswerTrue'
  BY <1>1, <1>2, AnswerRests
<1>10. BoundStep
  BY <1>1 DEF BoundStep
<1> QED BY <1>1, <1>2, <1>8, <1>9, <1>10 DEF WireInv, WireTyped, AnswerEnds

\* A request without an answer is one more fault, and may be one more under way.
LEMMA UnansweredIs ==
  ASSUME WireInv, Wire!Fault, gateway' \in Wire!Unanswered
  PROVE  gateway' \in Gateways /\ RunsKeep /\ RunsAsked'
<1>1. mishaps' \in 0 .. WireFaults /\ mishaps' \in {mishaps, mishaps + 1}
  BY FaultCounts
<1>2. CASE gateway' = gateway
  BY <1>1, <1>2, WireKnows, RunsRest, AskedRest
<1>3. CASE gateway' = [gateway EXCEPT !.travelling = @ + 1]
  <2>1. gateway \in Gateways /\ RunsAsked
    BY DEF WireInv, WireTyped
  <2>2. /\ gateway.forgot + gateway.travelling <= mishaps /\ gateway.forgot \in Nat
        /\ gateway.travelling \in Nat /\ mishaps' = mishaps + 1
        /\ mishaps \in Nat /\ mishaps < WireFaults
    BY <2>1, WireKnows, WireConstants DEF RunsAsked, Gateways, Wire!Fault
  <2>3. gateway.travelling + 1 \in 0 .. WireFaults
    BY <2>2, WireConstants
  <2>4. /\ gateway' \in Gateways /\ gateway'.runs = gateway.runs /\ gateway'.kept = gateway.kept
        /\ gateway'.forgot = gateway.forgot /\ gateway'.travelling = gateway.travelling + 1
    BY <1>3, <2>1, <2>3 DEF Gateways
  <2>5. Wire!Asked' = Wire!Asked
    BY <2>4 DEF Wire!Asked
  <2>6. RunsKeep
    BY <2>1, <2>4 DEF RunsKeep, Gateways
  <2> QED BY <2>1, <2>2, <2>4, <2>5, <2>6 DEF RunsAsked
<1>4. CASE Wire!CanTake /\ gateway' = Wire!Takes(gateway)
  BY <1>1, <1>4, RequestIsTaken
<1> QED BY <1>2, <1>3, <1>4 DEF Wire!Unanswered

LEMMA PostUnansweredWire ==
  ASSUME WireInv, NEW w \in Worker, Wire!PostUnanswered(w) PROVE WireInv' /\ AnswerEnds
         /\ BoundStep
<1>1. /\ Wire!Fault /\ gateway' \in Wire!Unanswered /\ binding' = binding
      /\ jobs' = jobs
      /\ ingress' = ingress /\ answer' = answer
      /\ work' = [work EXCEPT ![w].posts = @ + 1,
                   ![w].step = IF work[w].posts + 1 < Posts THEN "post" ELSE "nothing"]
      /\ work[w].step = "post"
  BY DEF Wire!PostUnanswered, Wire!At
<1>2. gateway' \in Gateways /\ RunsKeep /\ RunsAsked'
  BY <1>1, UnansweredIs
<1>3. work[w] \in Submitters /\ work[w].posts < Posts
  BY <1>1, WireKnows DEF SubmitterTrue
<1>4. work[w].posts + 1 \in 0 .. Posts
  BY <1>3, WireConstants DEF Submitters
<1> DEFINE n == [work[w] EXCEPT !.posts = @ + 1,
                                !.step = IF work[w].posts + 1 < Posts THEN "post" ELSE "nothing"]
<1>5. work' = [work EXCEPT ![w] = n]
  BY <1>1, <1>3
<1>6. n \in Submitters /\ n.posts = work[w].posts + 1
      /\ n.step = IF work[w].posts + 1 < Posts THEN "post" ELSE "nothing"
  BY <1>3, <1>4 DEF Submitters, Wire!Steps
<1> HIDE DEF n
<1>7. PICK m \in Submitters :
        work' = [work EXCEPT ![w] = m] /\ m.step = IF m.posts < Posts THEN "post" ELSE "nothing"
  BY <1>5, <1>6
<1>8. SubmitterTrue(m)'
  BY <1>7 DEF SubmitterTrue
<1>9. /\ work' \in [Worker -> Submitters] /\ AttemptsSpent'
      /\ \A v \in Worker : SubmitterTrue(work[v])'
  <2>1. m.step # "claim"
    BY <1>7
  <2> QED BY <1>1, <1>2, <1>7, <1>8, <2>1, SubmitterMoves
<1>10. AnswerTrue'
  BY <1>1, <1>2, AnswerRests
<1>11. BoundStep
  BY <1>1 DEF BoundStep
<1> QED BY <1>1, <1>2, <1>9, <1>10, <1>11, FaultCounts DEF WireInv, WireTyped, AnswerEnds

LEMMA BindWire ==
  ASSUME WireInv, NEW w \in Worker, Wire!Bind(w) PROVE WireInv' /\ AnswerEnds /\ BoundStep
<1>1. /\ gateway' = gateway /\ mishaps' = mishaps
      /\ jobs' = jobs /\ ingress' = ingress /\ answer' = answer /\ work[w].step = "bind"
  BY DEF Wire!Bind, Wire!At
<1>2. "poll" \in Wire!Steps /\ "nothing" \in Wire!Steps
  BY DEF Wire!Steps
<1>3. CASE Wire!GoTo(w, "nothing") /\ binding' = binding
  BY <1>1, <1>2, <1>3, RunsRest, AnswerRests, WireKnows, NoFault, SubmitterGoesOn, AnswerLeft
<1>4. CASE Wire!MayBind(w) /\ binding' = work[w].run /\ Wire!GoTo(w, "poll")
  <2>1. work[w].run \in 1 .. Wire!Foreign /\ work[w].run # Wire!Foreign
    BY <1>1, <1>4, WireKnows DEF SubmitterTrue, Wire!MayBind
  <2>2. work[w].run \in Wire!Runs
    BY <2>1, WireConstants DEF Wire!Runs, Wire!Foreign
  <2>3. binding = Wire!NoRun \/ binding' = binding
    BY <1>4 DEF Wire!MayBind
  <2>4. PICK m \in Submitters : work' = [work EXCEPT ![w] = m] /\ m.step = "poll"
        /\ m.run = work[w].run
    BY <1>2, <1>4, StepTaken
  <2>5. SubmitterTrue(m)'
    BY <2>2, <2>4 DEF SubmitterTrue, Wire!Runs
  <2>6. /\ work' \in [Worker -> Submitters] /\ AttemptsSpent'
        /\ \A v \in Worker : SubmitterTrue(work[v])'
    BY <1>1, <2>4, <2>5, RunsRest, SubmitterMoves
  <2>7. AnswerTrue'
    <3>1. CASE binding' = binding
      BY <1>1, <3>1, RunsRest, AnswerRests
    <3>2. CASE binding = Wire!NoRun
      <4>1. answer.of = {}
        BY <3>2 DEF WireInv, AnswerTrue, Wire!AnswerOfTheBoundRun
      <4> QED BY <1>1, <4>1 DEF WireInv, AnswerTrue, Wire!AnswerOfTheBoundRun
    <3> QED BY <2>3, <3>1, <3>2
  <2>8. BoundStep
    BY <1>1, <2>3, <2>4, WireKnows DEF BoundStep, Wire!Asked
  <2>9. RunsAsked'
    BY <1>1, AskedRest
  <2> QED BY <1>1, <1>4, <2>2, <2>6, <2>7, <2>8, <2>9 DEF WireInv, WireTyped, AnswerEnds
<1> QED BY <1>3, <1>4 DEF Wire!Bind

\* No worker takes part in what is left.
LEMMA NoWorkerSteps ==
  ASSUME WireInv, work' = work, RunsKeep, binding' = binding, RunsAsked',
         gateway' \in Gateways, mishaps' \in 0 .. WireFaults,
         jobs' \in TurnJobs, ingress' \in IngressRows, answer' \in TurnAnswers,
         ingress'.attempts = ingress.attempts, jobs'.attempts = jobs.attempts, AnswerTrue',
         Wire!Asked' = Wire!Asked \/ gateway.travelling # 0
  PROVE  WireInv' /\ BoundStep
<1>1. WireInv'
  BY SubmittersRest DEF WireInv, WireTyped
<1>2. BoundStep
  BY DEF BoundStep
<1> QED BY <1>1, <1>2

LEMMA ArrivesLateWire ==
  ASSUME WireInv, Wire!ArrivesLate PROVE WireInv' /\ AnswerEnds /\ BoundStep
<1>1. /\ gateway.travelling > 0 /\ Wire!CanTake
      /\ gateway' = [Wire!Takes(gateway) EXCEPT !.travelling = @ - 1]
      /\ binding' = binding /\ mishaps' = mishaps /\ work' = work
      /\ jobs' = jobs
      /\ ingress' = ingress /\ answer' = answer
  BY DEF Wire!ArrivesLate
<1> DEFINE g == Wire!Takes(gateway)
<1>2. /\ g \in Gateways /\ g.kept \in Wire!Runs /\ g.runs[g.kept] # "none"
      /\ g.travelling = gateway.travelling /\ g.forgot = gateway.forgot
      /\ \A r \in Wire!Runs : gateway.runs[r] = "completed" => g.runs[r] = "completed"
      /\ IsFiniteSet({r \in Wire!Runs : g.runs[r] # "none"})
      /\ Cardinality({r \in Wire!Runs : g.runs[r] # "none"}) <= g.forgot + 1
  BY <1>1, RequestTaken
<1> HIDE DEF g
<1>3. gateway' = [g EXCEPT !.travelling = @ - 1]
  BY <1>1 DEF g
<1>4. /\ gateway.travelling \in 1 .. WireFaults /\ gateway.forgot \in Nat /\ mishaps \in Nat
      /\ gateway.forgot + gateway.travelling <= mishaps
  BY <1>1, WireKnows, WireConstants DEF WireInv, RunsAsked, Gateways
<1>5. gateway.travelling - 1 \in 0 .. WireFaults
  BY <1>4, WireConstants
<1>6. /\ gateway' \in Gateways /\ gateway'.runs = g.runs /\ gateway'.kept = g.kept
      /\ gateway'.forgot = gateway.forgot /\ gateway'.travelling = gateway.travelling - 1
  BY <1>2, <1>3, <1>5 DEF Gateways
<1>7. Wire!Asked' = {r \in Wire!Runs : g.runs[r] # "none"}
  BY <1>6 DEF Wire!Asked
<1>8. RunsKeep
  BY <1>2, <1>6 DEF RunsKeep, Gateways
<1>9. gateway'.kept # Wire!NoRun
  BY <1>2, <1>6, WireConstants DEF Wire!Runs, Wire!NoRun
<1>10. RunsAsked'
  BY <1>1, <1>2, <1>4, <1>6, <1>7, <1>9 DEF RunsAsked
<1>11. AnswerTrue'
  BY <1>1, <1>8, AnswerRests
<1> QED BY <1>1, <1>4, <1>6, <1>8, <1>10, <1>11, WireKnows, NoWorkerSteps DEF AnswerEnds

LEMMA ForgetsWire ==
  ASSUME WireInv, Wire!Forgets PROVE WireInv' /\ AnswerEnds /\ BoundStep
<1>1. /\ gateway.kept # Wire!NoRun /\ Wire!Fault
      /\ gateway' = [gateway EXCEPT !.kept = Wire!NoRun, !.forgot = @ + 1]
      /\ binding' = binding /\ work' = work /\ jobs' = jobs
      /\ ingress' = ingress /\ answer' = answer
  BY DEF Wire!Forgets
<1>2. gateway \in Gateways /\ RunsAsked
  BY DEF WireInv, WireTyped
<1>3. /\ gateway.travelling \in Nat /\ gateway.forgot \in Nat /\ mishaps \in Nat /\ mishaps < WireFaults
      /\ gateway.forgot + gateway.travelling <= mishaps /\ mishaps' = mishaps + 1
  BY <1>1, <1>2, WireKnows, WireConstants DEF RunsAsked, Gateways, Wire!Fault
<1>4. gateway.forgot + 1 \in 0 .. WireFaults
  BY <1>3, WireConstants
<1>5. /\ gateway' \in Gateways /\ gateway'.runs = gateway.runs /\ gateway'.kept = Wire!NoRun
      /\ gateway'.forgot = gateway.forgot + 1 /\ gateway'.travelling = gateway.travelling
  BY <1>1, <1>2, <1>4 DEF Gateways
<1>6. Wire!Asked' = Wire!Asked
  BY <1>5 DEF Wire!Asked
<1>7. Cardinality(Wire!Asked) \in Nat /\ IsFiniteSet(Wire!Asked)
      /\ Cardinality(Wire!Asked) <= gateway.forgot + 1
  BY <1>2, FS_CardinalityType DEF RunsAsked
<1>8. RunsAsked'
  BY <1>3, <1>5, <1>6, <1>7 DEF RunsAsked
<1>9. RunsKeep
  BY <1>2, <1>5 DEF RunsKeep, Gateways
<1>10. AnswerTrue'
  BY <1>1, <1>9, AnswerRests
<1> QED BY <1>1, <1>5, <1>6, <1>8, <1>9, <1>10, WireKnows, FaultCounts, NoWorkerSteps
           DEF AnswerEnds

LEMMA RunEndsWire ==
  ASSUME WireInv, NEW r \in Wire!Runs, Wire!RunEnds(r) PROVE WireInv' /\ AnswerEnds /\ BoundStep
<1>1. PICK how \in {"completed", "failed"} : gateway' = [gateway EXCEPT !.runs[r] = how]
  BY DEF Wire!RunEnds
<1>2. /\ gateway.runs[r] = "running" /\ binding' = binding /\ work' = work /\ jobs' = jobs
      /\ ingress' = ingress /\ answer' = answer /\ mishaps' = mishaps
  BY DEF Wire!RunEnds
<1>3. gateway \in Gateways /\ RunsAsked
  BY DEF WireInv, WireTyped
<1>4. /\ gateway' \in Gateways /\ gateway'.runs = [gateway.runs EXCEPT ![r] = how]
      /\ gateway'.kept = gateway.kept
      /\ gateway'.forgot = gateway.forgot /\ gateway'.travelling = gateway.travelling
  BY <1>1, <1>3 DEF Gateways
<1>5. gateway.runs \in [Wire!Runs -> {"none", "running", "completed", "failed"}]
  BY <1>3 DEF Gateways
<1>6. Wire!Asked' = Wire!Asked
  BY <1>2, <1>4, <1>5 DEF Wire!Asked
<1>7. RunsAsked'
  <2>1. gateway'.kept # Wire!NoRun => gateway'.runs[gateway'.kept] # "none"
    BY <1>3, <1>4, <1>5, <1>2 DEF RunsAsked, Gateways
  <2> QED BY <1>2, <1>3, <1>4, <1>6, <2>1 DEF RunsAsked
<1>8. RunsKeep
  BY <1>2, <1>4, <1>5 DEF RunsKeep
<1>9. AnswerTrue'
  BY <1>2, <1>8, AnswerRests
<1> QED BY <1>2, <1>4, <1>6, <1>7, <1>8, <1>9, WireKnows, NoWorkerSteps DEF AnswerEnds

LEMMA JobLapsesWire ==
  ASSUME WireInv, Wire!JobLapses PROVE WireInv' /\ AnswerEnds /\ BoundStep
<1>1. /\ Wire!FailJob /\ binding' = binding /\ gateway' = gateway /\ work' = work
      /\ mishaps' = mishaps \/ Wire!Fault
  BY DEF Wire!JobLapses
<1>2. mishaps' \in 0 .. WireFaults /\ mishaps' \in {mishaps, mishaps + 1}
  BY <1>1, NoFault, FaultCounts
<1>3. RunsKeep /\ RunsAsked' /\ Wire!Asked' = Wire!Asked
  BY <1>1, <1>2, RunsRest, AskedRest DEF Wire!Asked
<1> QED BY <1>1, <1>2, <1>3, AttemptFailed, WireKnows, AnswerLeft, NoWorkerSteps

LEMMA SearchLapsesWire ==
  ASSUME WireInv, Wire!SearchLapses PROVE WireInv' /\ AnswerEnds /\ BoundStep
<1>1. /\ jobs' = [jobs EXCEPT !.seeker = Wire!NoWorker]
      /\ binding' = binding /\ gateway' = gateway /\ work' = work
      /\ ingress' = ingress /\ answer' = answer
      /\ mishaps' = mishaps \/ Wire!Fault
  BY DEF Wire!SearchLapses
<1>2. mishaps' \in 0 .. WireFaults /\ mishaps' \in {mishaps, mishaps + 1}
  BY <1>1, NoFault, FaultCounts
<1>3. RunsKeep /\ RunsAsked' /\ Wire!Asked' = Wire!Asked
  BY <1>1, <1>2, RunsRest, AskedRest DEF Wire!Asked
<1>4. jobs' \in TurnJobs /\ jobs'.attempts = jobs.attempts
  BY <1>1, WireKnows DEF TurnJobs
<1> QED BY <1>1, <1>2, <1>3, <1>4, AnswerRests, WireKnows, AnswerLeft, NoWorkerSteps

LEMMA RowLapsesWire ==
  ASSUME WireInv, Wire!RowLapses PROVE WireInv' /\ AnswerEnds /\ BoundStep
<1>1. /\ ingress' = [ingress EXCEPT !.late = TRUE]
      /\ binding' = binding /\ gateway' = gateway /\ work' = work /\ jobs' = jobs /\ answer' = answer
      /\ mishaps' = mishaps \/ Wire!Fault
  BY DEF Wire!RowLapses
<1>2. mishaps' \in 0 .. WireFaults /\ mishaps' \in {mishaps, mishaps + 1}
  BY <1>1, NoFault, FaultCounts
<1>3. RunsKeep /\ RunsAsked' /\ Wire!Asked' = Wire!Asked
  BY <1>1, <1>2, RunsRest, AskedRest DEF Wire!Asked
<1>4. ingress' \in IngressRows /\ ingress'.attempts = ingress.attempts
      /\ ingress'.status = ingress.status
  BY <1>1, WireKnows DEF IngressRows
<1> QED BY <1>1, <1>2, <1>3, <1>4, AnswerRests, WireKnows, AnswerLeft, NoWorkerSteps

LEMMA GraceEndsWire ==
  ASSUME WireInv, Wire!GraceEnds PROVE WireInv' /\ AnswerEnds /\ BoundStep
<1>1. /\ answer' = [answer EXCEPT !.outcome = "error"] /\ answer.outcome = "grace"
      /\ binding' = binding /\ gateway' = gateway /\ work' = work /\ jobs' = jobs /\ ingress' = ingress
      /\ mishaps' = mishaps
  BY DEF Wire!GraceEnds
<1>2. mishaps' \in 0 .. WireFaults /\ mishaps' \in {mishaps, mishaps + 1}
  BY <1>1, NoFault
<1>3. RunsKeep /\ RunsAsked' /\ Wire!Asked' = Wire!Asked
  BY <1>1, <1>2, RunsRest, AskedRest DEF Wire!Asked
<1>4. answer' \in TurnAnswers /\ answer'.of = answer.of /\ answer'.outcome = "error"
  BY <1>1, WireKnows DEF TurnAnswers
<1>5. AnswerTrue'
  BY <1>1, <1>4 DEF WireInv, AnswerTrue, Wire!AnswerOfTheBoundRun
<1>6. AnswerEnds
  BY <1>1 DEF AnswerEnds
<1> QED BY <1>1, <1>2, <1>3, <1>4, <1>5, <1>6, WireKnows, NoWorkerSteps

LEMMA RestWire ==
  ASSUME WireInv, UNCHANGED Wire!wire PROVE WireInv' /\ AnswerEnds /\ BoundStep
<1>1. /\ binding' = binding /\ gateway' = gateway /\ work' = work /\ jobs' = jobs /\ ingress' = ingress
      /\ mishaps' = mishaps /\ answer' = answer
  BY DEF Wire!wire
<1>2. RunsKeep /\ RunsAsked' /\ Wire!Asked' = Wire!Asked
  BY <1>1, NoFault, RunsRest, AskedRest DEF Wire!Asked
<1> QED BY <1>1, <1>2, AnswerRests, WireKnows, AnswerLeft, NoWorkerSteps

LEMMA NextWire ==
  WireInv /\ [Wire!WireNext]_Wire!wire => WireInv' /\ AnswerEnds /\ BoundStep
<1> SUFFICES ASSUME WireInv, [Wire!WireNext]_Wire!wire PROVE WireInv' /\ AnswerEnds /\ BoundStep
  OBVIOUS
<1>1. ASSUME NEW w \in Worker, Wire!Handler(w) PROVE WireInv' /\ AnswerEnds /\ BoundStep
  BY <1>1, ClaimRowWire, RowTakenWire, GivesWayWire, ContextWire, RejectInputWire, PreflightWire,
     PostWire, BindWire, PollWire, LeaseLostWire, CommitWire, CommitRefusedWire, CommitErrorWire,
     ReleaseWire, CheckWire, CompleteWire, HistoryFindsWire, HistoryCommitsWire DEF Wire!Handler
<1>2. ASSUME NEW w \in Worker,
             \/ Wire!ClaimJob(w) \/ Wire!History(w) \/ Wire!Dies(w)
             \/ Wire!PostUnanswered(w) \/ Wire!PostMisanswered(w)
      PROVE  WireInv' /\ AnswerEnds /\ BoundStep
  BY <1>2, ClaimJobWire, HistoryWire, DiesWire, PostUnansweredWire, PostMisansweredWire
<1>3. CASE \/ Wire!ArrivesLate \/ Wire!Forgets \/ Wire!JobLapses \/ Wire!SearchLapses
           \/ Wire!RowLapses \/ Wire!GraceEnds \/ UNCHANGED Wire!wire
  BY <1>3, ArrivesLateWire, ForgetsWire, JobLapsesWire, SearchLapsesWire, RowLapsesWire,
     GraceEndsWire, RestWire
<1>4. ASSUME NEW r \in Wire!Runs, Wire!RunEnds(r) PROVE WireInv' /\ AnswerEnds /\ BoundStep
  BY <1>4, RunEndsWire
<1> QED BY <1>1, <1>2, <1>3, <1>4 DEF Wire!WireNext

LEMMA WireHolds == Wire!WireSafety => []WireInv
BY InitWire, NextWire, PTL DEF Wire!WireSafety

LEMMA WireShows == WireInv => Wire!WireTypeOK /\ Wire!AnswerOfTheBoundRun /\ Wire!AskedOnce
<1> SUFFICES ASSUME WireInv PROVE Wire!WireTypeOK /\ Wire!AnswerOfTheBoundRun /\ Wire!AskedOnce
  OBVIOUS
<1>1. Wire!WireTypeOK
  BY DEF WireInv, WireTyped, Wire!WireTypeOK, TurnJobs, IngressRows, TurnAnswers, Gateways,
     Submitters
<1>2. Wire!AnswerOfTheBoundRun
  BY DEF WireInv, AnswerTrue
<1>3. Wire!AskedOnce
  <2>1. gateway.forgot \in Nat /\ Cardinality(Wire!Asked) \in Nat
    BY WireKnows, WireConstants, FS_CardinalityType DEF WireInv, RunsAsked, Gateways
  <2> QED BY <2>1, SameSizes DEF WireInv, RunsAsked, Wire!AskedOnce
<1> QED BY <1>1, <1>2, <1>3

\* Whatever was lost, repeated, forgotten or found late: the text of a FINAL is
\* the answer of the one run the submission is bound to, the gateway starts a
\* second run only for a key it has forgotten and none once a run is bound and no
\* request is under way, and an answer is never added to or taken back.
THEOREM OneRunAnswers == Wire!WireSafety => AnsweredByOneRun
<1>1. Wire!WireSafety => Wire!BoundIsBound
  <2>1. WireInv /\ [Wire!WireNext]_Wire!wire =>
          [binding # Wire!NoRun /\ gateway.travelling = 0
             /\ (\A w \in Worker : work[w].step \notin {"preflight", "post"})
           => Wire!Asked' = Wire!Asked /\ binding' = binding
              /\ \A w \in Worker : work'[w].step \notin {"preflight", "post"}]_Wire!wire
    BY NextWire DEF BoundStep
  <2> QED BY <2>1, WireHolds, PTL DEF Wire!WireSafety, Wire!BoundIsBound
<1>2. Wire!WireSafety => Wire!AnswerStays
  <2>1. WireInv /\ [Wire!WireNext]_Wire!wire =>
          [answer.outcome \in {"success", "error"} => answer' = answer]_Wire!wire
    BY NextWire DEF AnswerEnds
  <2> QED BY <2>1, WireHolds, PTL DEF Wire!WireSafety, Wire!AnswerStays
<1> QED BY <1>1, <1>2, WireHolds, WireShows, PTL DEF AnsweredByOneRun, Wire!AnsweredByOneRun

=============================================================================
