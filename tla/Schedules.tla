----------------------------- MODULE Schedules -----------------------------
(***************************************************************************)
(* Reminders: recorder_next/store.py from create_schedule to               *)
(* fire_due_schedules, archive_project and revoke_device where they meet a *)
(* schedule, recover for its part, and the scheduler of                    *)
(* recorder_next/service.py that drives them.                              *)
(*                                                                         *)
(* A request stands for one immutable definition (its request_sha256); a   *)
(* schedule has exactly one occurrence.  A scheduler is the loop of the    *)
(* process or a call of /v1/internal/scheduler/fire; each pass reads the   *)
(* time once and uses it to its end.  Clocks: time stops counting once     *)
(* everything is due, a lease is the time left (negative once it has run   *)
(* out), and age is how long ago a pass read the time.  The version        *)
(* columns are compared only inside the transaction that read them, so     *)
(* they are left out.                                                      *)
(***************************************************************************)
EXTENDS Integers, Sequences, FiniteSets, FiniteSetsExt

CONSTANTS
  Request,    \* schedule definitions, numbered in the order of (scheduled_for, schedule_id)
  IdOf, UserOf, ParentOf, ProjectOf, OriginOf, DevicesOf, FireAt,  \* what a definition says
  Anonymous,  \* requests whose caller names no principal
  Legacy,     \* requests an earlier version left SCHEDULED
  Loop, Http, \* the scheduler of the process; concurrent calls of the fire route
  Lease, Limit, Poll,  \* lease_seconds, limit, scheduler_poll_seconds
  MaxDelay,   \* the 30 s cap of the loop's back-off
  MaxAge,     \* bound: how long a pass may take
  MaxFaults,  \* bound: crashes and transient database errors
  MaxFinals,  \* bound: FINAL versions of a turn
  None

Scheduler == {Loop} \cup Http
Parents == {ParentOf[r] : r \in Request}
Users == {UserOf[r] : r \in Request}
Projects == {ProjectOf[r] : r \in Request}
Devices == UNION {DevicesOf[r] : r \in Request}
Horizon == Max({FireAt[r] : r \in Request} \cup {0}) + MaxAge

ASSUME SchedulesAssumption ==
  /\ Request \subseteq Nat /\ Legacy \subseteq Request /\ Anonymous \subseteq Request
  /\ FireAt \in [Request -> Nat]
  /\ \A r, s \in Request : r < s => FireAt[r] <= FireAt[s]
  /\ \A r, s \in Legacy : IdOf[r] = IdOf[s] \/ ParentOf[r] = ParentOf[s] => r = s
  /\ Projects \cap Devices = {}
  /\ {Lease, Limit, Poll, MaxDelay} \subseteq Nat \ {0} /\ {MaxAge, MaxFaults, MaxFinals} \subseteq Nat

VARIABLES
  finals,     \* final_versions of each parent turn: who wrote them
  schedule,   \* schedules
  occurrence, \* schedule_occurrences
  turns,      \* FINAL events and outbox rows written for each occurrence
  speech,     \* the artifact of each fired occurrence and its worker job
  active,     \* projects and devices whose status is active
  accepted,   \* users with an accepted turn of a client
  preclaimed, \* occurrences whose turn id a turn of a client already has
  refused,    \* create_schedule calls between their failure and its receipt
  pass,       \* where each scheduler is
  time, faults

rows == <<schedule, occurrence>>
outcome == <<turns, speech>>
clients == <<accepted, preclaimed>>
vars == <<finals, rows, outcome, active, clients, refused, pass, time, faults>>

\* A FINAL of a turn: what its own stages say (an answer or an error), a failure
\* receipt or the confirmation of a request.
Other == {"stages", "failure", "legacy"}
By(source) == [source |-> source, of |-> None]
Confirmed(r) == [source |-> "confirmation", of |-> r]
Written == {By(s) : s \in Other} \cup {Confirmed(r) : r \in Request}

Gone == [state |-> "NONE", owner |-> None, left |-> 0]
Row(state) == [Gone EXCEPT !.state = state]
Live(row) == row.state \in {"SCHEDULED", "PENDING", "CLAIMED"}
RunOut(row, now) == row.state = "CLAIMED" /\ row.left <= now

Asleep(delay, streak) == [step |-> "asleep", wake |-> delay, streak |-> streak,
                          age |-> 0, taken |-> 0, claim |-> None]
Down == [Asleep(0, 0) EXCEPT !.step = "down"]

TypeOK ==
  LET row(states) == [state: states, owner: Scheduler \cup {None}, left: -MaxAge .. Lease] IN
  /\ finals \in [Parents -> Seq(Written)]
  /\ schedule \in [Request -> row({"NONE", "SCHEDULED", "CLAIMED", "FIRED", "CANCELLED"})]
  /\ occurrence \in [Request -> row({"NONE", "PENDING", "CLAIMED", "FIRED", "FAILED"})]
  /\ turns \in [Request -> 0..2]
  /\ speech \in [Request -> {"none", "waiting", "queued"}]
  /\ active \subseteq Projects \cup Devices
  /\ accepted \subseteq Users /\ preclaimed \subseteq Request
  /\ refused \subseteq Request
  /\ pass \in [Scheduler -> [step: {"down", "asleep", "recover", "reconcile", "fire", "commit", "enqueue"},
                             wake: 0..MaxDelay, streak: 0..8, age: 0..MaxAge, taken: 0..Limit,
                             claim: Request \cup {None}]]
  /\ time \in Nat /\ faults \in 0..MaxFaults

\* An earlier version archived projects without cancelling their schedules.
Init ==
  /\ finals = [p \in Parents |-> IF \E r \in Legacy : ParentOf[r] = p THEN <<By("legacy")>> ELSE <<>>]
  /\ schedule = [r \in Request |-> IF r \in Legacy THEN Row("SCHEDULED") ELSE Gone]
  /\ occurrence = [r \in Request |-> IF r \in Legacy THEN Row("PENDING") ELSE Gone]
  /\ turns = [r \in Request |-> 0] /\ speech = [r \in Request |-> "none"]
  /\ \E old \in SUBSET {ProjectOf[r] : r \in Legacy} : active = (Projects \cup Devices) \ old
  /\ accepted \in SUBSET Users /\ preclaimed = {}
  /\ refused = {}
  /\ pass = [w \in Scheduler |-> Asleep(0, 0)]
  /\ time = 0 /\ faults = 0

-----------------------------------------------------------------------------
(* Making a schedule.                                                      *)

Known(r) == \E s \in Request : IdOf[s] = IdOf[r] /\ schedule[s] # Gone

\* The schedule, its occurrence and the confirmation FINAL are one transaction.
Create(r) ==
  /\ r \notin refused /\ ~Known(r)
  /\ finals[ParentOf[r]] = <<>>
  /\ DevicesOf[r] \cup {ProjectOf[r]} \subseteq active
  /\ schedule' = [schedule EXCEPT ![r] = Row("SCHEDULED")]
  /\ occurrence' = [occurrence EXCEPT ![r] = Row("PENDING")]
  /\ finals' = [finals EXCEPT ![ParentOf[r]] = <<Confirmed(r)>>]
  /\ UNCHANGED <<outcome, active, clients, refused, pass, time, faults>>

\* Any failure but an unauthorized one (a used id, a parent with a FINAL, an
\* archived project, an error of the database) rolls back and is to be told
\* to the user by a transaction of its own.  A repeated request is answered.
CreateFails(r) ==
  /\ r \notin refused /\ schedule[r] = Gone
  /\ refused' = refused \cup {r}
  /\ UNCHANGED <<finals, rows, outcome, active, clients, pass, time, faults>>

\* Mutant of RecordFailure: the FINAL that the parent already has is not looked at.
RecordFailureAnyway(r) ==
  /\ r \in refused /\ refused' = refused \ {r}
  /\ finals' = [finals EXCEPT ![ParentOf[r]] = IF Len(@) < 2 THEN Append(@, By("failure")) ELSE @]
  /\ UNCHANGED <<rows, outcome, active, clients, pass, time, faults>>

\* _record_schedule_failure: nothing when the parent has a FINAL by now, or when
\* the device of a principal was revoked meanwhile; its own error is swallowed.
RecordFailure(r) ==
  /\ r \in refused /\ refused' = refused \ {r}
  /\ \/ /\ finals[ParentOf[r]] = <<>> /\ (r \in Anonymous \/ OriginOf[r] \in active)
        /\ finals' = [finals EXCEPT ![ParentOf[r]] = <<By("failure")>>]
     \/ UNCHANGED finals
  /\ UNCHANGED <<rows, outcome, active, clients, pass, time, faults>>

\* A stage of the turn that asked for the schedule answers it, Hermes as a rule
\* after the confirmation or the failure receipt, which do not keep the answer
\* back.  (Errors of a stage do, but for some; TurnProtocol says which.)
TurnAnswered(p) ==
  /\ Len(finals[p]) < MaxFinals /\ finals' = [finals EXCEPT ![p] = Append(@, By("stages"))]
  /\ UNCHANGED <<rows, outcome, active, clients, refused, pass, time, faults>>

\* A turn of a client is accepted; nothing takes that back.
TurnAccepted(u) ==
  /\ u \notin accepted /\ accepted' = accepted \cup {u}
  /\ UNCHANGED <<finals, rows, outcome, active, preclaimed, refused, pass, time, faults>>

\* A client starts a turn under the id that the turn of this occurrence, a
\* uuid5 of the two ids a schedule is known by, would have.
IdPreclaimed(r) ==
  /\ turns[r] = 0 /\ r \notin preclaimed /\ preclaimed' = preclaimed \cup {r}
  /\ UNCHANGED <<finals, rows, outcome, active, accepted, refused, pass, time, faults>>

-----------------------------------------------------------------------------
(* Projects and devices.                                                   *)

\* _cancel_schedule_tx of every schedule of these projects.
Cancelled(projects) ==
  /\ schedule' = [r \in Request |-> IF Live(schedule[r]) /\ ProjectOf[r] \in projects
                                    THEN Row("CANCELLED") ELSE schedule[r]]
  /\ occurrence' = [r \in Request |-> IF Live(occurrence[r]) /\ Live(schedule[r]) /\ ProjectOf[r] \in projects
                                      THEN Row("FAILED") ELSE occurrence[r]]

ArchiveProject(p) ==
  /\ p \in active /\ active' = active \ {p}
  /\ Cancelled({p})
  /\ UNCHANGED <<finals, outcome, clients, refused, pass, time, faults>>

\* Revocation leaves the schedules of the device as they are.
RevokeDevice(d) ==
  /\ d \in active /\ active' = active \ {d}
  /\ UNCHANGED <<finals, rows, outcome, clients, refused, pass, time, faults>>

-----------------------------------------------------------------------------
(* A pass of a scheduler.                                                  *)

Capped(n) == IF n < MaxDelay THEN n ELSE MaxDelay

\* The loop sleeps Poll after a success and backs off after each error; a call
\* of the route answers.
Succeeds(w) == pass' = [pass EXCEPT ![w] = Asleep(IF w = Loop THEN Capped(Poll) ELSE 0, 0)]
Fails(w) ==
  LET streak == IF pass[w].streak < 8 THEN pass[w].streak + 1 ELSE 8
      delay == Capped(Poll * <<2, 4, 8, 16, 32, 64, 128, 256>>[streak])
  IN pass' = [pass EXCEPT ![w] = IF w = Loop THEN Asleep(delay, streak) ELSE Asleep(0, 0)]

GoesTo(w, step) == pass' = [pass EXCEPT ![w].step = step]
Fault == faults < MaxFaults /\ faults' = faults + 1

Wake(w) ==
  /\ pass[w].step = "asleep" /\ pass[w].wake = 0
  /\ GoesTo(w, IF w = Loop THEN "recover" ELSE "fire")
  /\ UNCHANGED <<finals, rows, outcome, active, clients, refused, time, faults>>

Released(row, state, now) == IF RunOut(row, now) THEN Row(state) ELSE row

\* Store.recover: archived projects first, then the leases that ran out.
Recover(w) ==
  /\ pass[w].step = "recover"
  /\ LET quiet == [r \in Request |-> Live(schedule[r]) /\ ProjectOf[r] \notin active] IN
     /\ schedule' = [r \in Request |-> IF quiet[r] THEN Row("CANCELLED") ELSE Released(schedule[r], "SCHEDULED", 0)]
     /\ occurrence' = [r \in Request |-> IF quiet[r] /\ Live(occurrence[r]) THEN Row("FAILED")
                                         ELSE Released(occurrence[r], "PENDING", 0)]
  /\ GoesTo(w, "reconcile")
  /\ UNCHANGED <<finals, outcome, active, clients, refused, time, faults>>

\* Mutant of EnqueueSpeech: only after a pass that fired something.
EnqueueSpeechOfPass(w, r) ==
  /\ pass[w].step = "enqueue" /\ pass[w].taken > 0 /\ speech[r] = "waiting"
  /\ speech' = [speech EXCEPT ![r] = "queued"]
  /\ UNCHANGED <<finals, rows, turns, active, clients, refused, pass, time, faults>>

\* _enqueue_pending_tts_jobs(scheduled_only=True): every scheduled artifact that
\* has no worker job yet, each in a transaction of its own.
EnqueueSpeech(w, r) ==
  /\ pass[w].step \in {"reconcile", "enqueue"} /\ speech[r] = "waiting"
  /\ speech' = [speech EXCEPT ![r] = "queued"]
  /\ UNCHANGED <<finals, rows, turns, active, clients, refused, pass, time, faults>>

Enqueued(w) ==
  /\ \A r \in Request : speech[r] # "waiting"
  /\ \/ pass[w].step = "reconcile" /\ GoesTo(w, "fire")
     \/ pass[w].step = "enqueue" /\ Succeeds(w)
  /\ UNCHANGED <<finals, rows, outcome, active, clients, refused, time, faults>>

\* A transient error of the database ends the pass where it is.
PassFails(w) ==
  /\ pass[w].step \in {"recover", "reconcile", "fire", "commit", "enqueue"}
  /\ Fault /\ Fails(w)
  /\ UNCHANGED <<finals, rows, outcome, active, clients, refused, time>>

\* The due occurrences, by the time the pass read.
Claimable(r, w) ==
  /\ FireAt[r] <= time - pass[w].age /\ ProjectOf[r] \in active
  /\ occurrence[r].state = "PENDING" \/ RunOut(occurrence[r], -pass[w].age)
  /\ Live(schedule[r])

\* claim_due_occurrence: archived projects are normalized first; the first due
\* occurrence and its schedule get the same lease.
Claim(w) ==
  /\ pass[w].step = "fire" /\ pass[w].taken < Limit
  /\ \E r \in Request :
       /\ Claimable(r, w) /\ \A s \in Request : Claimable(s, w) => r <= s
       /\ LET row == [state |-> "CLAIMED", owner |-> w, left |-> Lease - pass[w].age]
              quiet(s) == Live(schedule[s]) /\ ProjectOf[s] \notin active
          IN /\ occurrence' = [s \in Request |-> IF s = r THEN row
                                 ELSE IF quiet(s) /\ Live(occurrence[s]) THEN Row("FAILED") ELSE occurrence[s]]
             /\ schedule' = [s \in Request |-> IF s = r THEN row
                                 ELSE IF quiet(s) THEN Row("CANCELLED") ELSE schedule[s]]
       /\ pass' = [pass EXCEPT ![w].step = "commit", ![w].claim = r, ![w].taken = @ + 1]
  /\ UNCHANGED <<finals, outcome, active, clients, refused, time, faults>>

\* Nothing more is due, or the limit is reached.
Fired(w) ==
  /\ pass[w].step = "fire"
  /\ \/ /\ pass[w].taken < Limit /\ ~\E r \in Request : Claimable(r, w)
        /\ Cancelled(Projects \ active)
     \/ pass[w].taken = Limit /\ UNCHANGED rows
  /\ GoesTo(w, "enqueue")
  /\ UNCHANGED <<finals, outcome, active, clients, refused, time, faults>>

\* Mutant of Permitted: the devices are not looked at again.
PermittedByProject(r) == ProjectOf[r] \in active

\* _validate_scheduled_occurrence_ownership_tx with require_active.
Permitted(r) == DevicesOf[r] \cup {ProjectOf[r]} \subseteq active

\* There is a turn to follow, and the id of the new turn is free.
Followable(r) == UserOf[r] \in accepted /\ r \notin preclaimed

Held(r, w) == /\ occurrence[r].state = "CLAIMED" /\ occurrence[r].owner = w
              /\ occurrence[r].left > -pass[w].age

\* Mutant of Commit: the lease is not checked.
CommitUnheld(w) ==
  /\ pass[w].step = "commit"
  /\ LET r == pass[w].claim IN
     /\ Permitted(r) /\ Followable(r) /\ turns[r] < 2
     /\ turns' = [turns EXCEPT ![r] = @ + 1] /\ speech' = [speech EXCEPT ![r] = "waiting"]
     /\ occurrence' = [occurrence EXCEPT ![r] = Row("FIRED")]
     /\ schedule' = [schedule EXCEPT ![r] = Row("FIRED")]
  /\ pass' = [pass EXCEPT ![w].step = "fire", ![w].claim = None]
  /\ UNCHANGED <<finals, active, clients, refused, time, faults>>

\* commit_scheduled_occurrence: the scheduled turn, its FINAL, outbox row and
\* artifact, and both rows FIRED.
Commit(w) ==
  /\ pass[w].step = "commit"
  /\ LET r == pass[w].claim IN
     /\ Permitted(r) /\ Held(r, w) /\ Followable(r)
     /\ turns' = [turns EXCEPT ![r] = @ + 1] /\ speech' = [speech EXCEPT ![r] = "waiting"]
     /\ occurrence' = [occurrence EXCEPT ![r] = Row("FIRED")]
     /\ schedule' = [schedule EXCEPT ![r] = IF @.state = "CLAIMED" /\ @.owner = w THEN Row("FIRED") ELSE @]
  /\ pass' = [pass EXCEPT ![w].step = "fire", ![w].claim = None]
  /\ UNCHANGED <<finals, active, clients, refused, time, faults>>

\* An occurrence that another scheduler fired is answered with its delivery.
CommitReplays(w) ==
  /\ pass[w].step = "commit" /\ occurrence[pass[w].claim].state = "FIRED"
  /\ pass' = [pass EXCEPT ![w].step = "fire", ![w].claim = None]
  /\ UNCHANGED <<finals, rows, outcome, active, clients, refused, time, faults>>

\* The error goes through fire_due_schedules and run_scheduler to the loop: the
\* claim stays, and the rest of the due occurrences wait for the next pass.
CommitRefused(w) ==
  /\ pass[w].step = "commit"
  /\ LET r == pass[w].claim IN
     /\ occurrence[r].state # "FIRED" /\ ~(Permitted(r) /\ Held(r, w) /\ Followable(r))
  /\ Fails(w)
  /\ UNCHANGED <<finals, rows, outcome, active, clients, refused, time, faults>>

-----------------------------------------------------------------------------
(* Time, crashes and restarts.                                             *)

Crash ==
  /\ pass[Loop].step # "down" /\ Fault
  /\ pass' = [w \in Scheduler |-> Down] /\ refused' = {}
  /\ UNCHANGED <<finals, rows, outcome, active, clients, time>>

Restart ==
  /\ pass[Loop].step = "down"
  /\ pass' = [w \in Scheduler |-> Asleep(0, 0)]
  /\ UNCHANGED <<finals, rows, outcome, active, clients, refused, time, faults>>

Working(w) == pass[w].step \notin {"down", "asleep"}
Older(row) == IF row.state = "CLAIMED" /\ row.left > -MaxAge THEN [row EXCEPT !.left = @ - 1] ELSE row

\* The loop starts a pass as soon as its delay is over.
Tick ==
  /\ \A w \in Scheduler : Working(w) => pass[w].age < MaxAge
  /\ pass[Loop].step = "asleep" => pass[Loop].wake > 0
  /\ time' = IF time < Horizon THEN time + 1 ELSE time
  /\ schedule' = [r \in Request |-> Older(schedule[r])]
  /\ occurrence' = [r \in Request |-> Older(occurrence[r])]
  /\ pass' = [w \in Scheduler |->
                IF Working(w) THEN [pass[w] EXCEPT !.age = @ + 1]
                ELSE [pass[w] EXCEPT !.wake = IF @ > 0 THEN @ - 1 ELSE 0]]
  /\ UNCHANGED <<finals, outcome, active, clients, refused, faults>>

PassStep(w) ==
  \/ Wake(w) \/ Recover(w) \/ Enqueued(w) \/ Claim(w) \/ Fired(w)
  \/ Commit(w) \/ CommitReplays(w) \/ CommitRefused(w)
  \/ \E r \in Request : EnqueueSpeech(w, r)

Next ==
  \/ \E r \in Request : Create(r) \/ CreateFails(r) \/ RecordFailure(r)
  \/ \E p \in Parents : TurnAnswered(p)
  \/ \E u \in Users : TurnAccepted(u)
  \/ \E r \in Request : IdPreclaimed(r)
  \/ \E p \in Projects : ArchiveProject(p)
  \/ \E d \in Devices : RevokeDevice(d)
  \/ \E w \in Scheduler : PassStep(w) \/ PassFails(w)
  \/ Crash \/ Restart \/ Tick

Spec == Init /\ [][Next]_vars

\* The loop runs, the supervisor restarts the process, and time passes.  Nothing
\* is asked of the callers of the routes.
FairSpec == Spec /\ WF_vars(PassStep(Loop)) /\ WF_vars(Restart) /\ WF_vars(Tick)

-----------------------------------------------------------------------------
(* Properties.                                                             *)

\* The schedule of r was left by an earlier version, or its parent turn was
\* used by one.
BeginsWith(p, final) == finals[p] # <<>> /\ finals[p][1] = final
OfOldVersion(r) == BeginsWith(ParentOf[r], By("legacy"))

\* What the user was told is what was stored: a schedule exists exactly when
\* its confirmation is the first FINAL of its parent turn, and nothing follows a
\* FINAL but what the turn's own stages say, no second confirmation and no failure
\* receipt, whatever create_schedule calls for one turn or one id raced and
\* failed, and in whatever order their receipts were written.
PromiseKept ==
  /\ \A r \in Request :
       ~OfOldVersion(r) => ((schedule[r] # Gone) <=> BeginsWith(ParentOf[r], Confirmed(r)))
  /\ \A p \in Parents : \A i \in 2..Len(finals[p]) : finals[p][i] = By("stages")

Matching == [NONE |-> "NONE", SCHEDULED |-> "PENDING", CLAIMED |-> "CLAIMED", FIRED |-> "FIRED", CANCELLED |-> "FAILED"]

\* The schedule and its occurrence, which claim, commit, recovery and
\* cancellation update by separate statements with separate conditions, never
\* drift apart: same state, same owner, same lease.
RowsAgree ==
  \A r \in Request : occurrence[r] = [schedule[r] EXCEPT !.state = Matching[@]]

\* However many schedulers claim an occurrence around the ends of its leases,
\* its scheduled turn, FINAL and outbox row are written once, by the time both
\* rows say FIRED, and its speech is not forgotten.
DeliveredOnce ==
  \A r \in Request : /\ turns[r] = (IF schedule[r].state = "FIRED" THEN 1 ELSE 0)
                     /\ speech[r] = "none" <=> turns[r] = 0

\* Once archive_project has returned nothing of the project waits any more, not
\* even what a scheduler had claimed.
ArchivedIsQuiet ==
  \A r \in Request : ProjectOf[r] \notin active /\ ~OfOldVersion(r) => ~Live(schedule[r])

\* A schedule, its occurrence and what was delivered agree, once each.
RemindersAgree == TypeOK /\ RowsAgree /\ DeliveredOnce

\* The user is told the truth, and an archived project stays quiet.
PromisesKept == PromiseKept /\ ArchivedIsQuiet

\* A reminder is delivered only while its project and its devices are active,
\* whatever was true when it was claimed, and a settled one stays settled.
DeliveryIsPermitted ==
  [][\A r \in Request :
       /\ turns'[r] > turns[r] => DevicesOf[r] \cup {ProjectOf[r]} \subseteq active
       /\ schedule[r].state \in {"FIRED", "CANCELLED"} => schedule'[r] = schedule[r]]_vars

\* Every reminder whose devices stay active is in the end delivered or
\* cancelled, unless its user has no accepted turn or its id is another turn's:
\* an occurrence that can no longer be delivered fails its passes and holds
\* back the others, but only for a time.
RemindersGoOut ==
  \A r \in Request :
    Live(schedule[r]) ~> (~Live(schedule[r]) \/ ~(DevicesOf[r] \subseteq active) \/ ~Followable(r))

\* Every delivered reminder gets its speech job, even when the process dies or
\* the queue fails between the two.
RemindersAreSpoken == \A r \in Request : (turns[r] > 0) ~> (speech[r] = "queued")

=============================================================================
