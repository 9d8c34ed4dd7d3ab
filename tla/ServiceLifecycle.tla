--------------------------- MODULE ServiceLifecycle ---------------------------
(***************************************************************************)
(* The life of the process: operations and drain, the two background       *)
(* loops, and what /healthz says, in recorder_next/service.py; the main    *)
(* thread with its signal handler in __main__.py; the slots and admission  *)
(* of connections in http.py.                                              *)
(*                                                                         *)
(* Every block under the service's lock is one step.  Threads are the main *)
(* thread, which the signal handler interrupts anywhere, the two loops,    *)
(* and one per connection.  What an iteration or a request does is in the  *)
(* other modules; here it ends well or badly.                              *)
(***************************************************************************)
EXTENDS Integers, FiniteSets

CONSTANTS
  Loops,       \* the background threads: worker and scheduler
  Conns,       \* connections
  Slots,       \* max_concurrent_handlers
  Deps,        \* asr, tts, hermes
  Refreshers,  \* who calls refresh_production_readiness, if anybody: the
               \* service never does, nor does __main__.py
  MaxFaults    \* bound on failing iterations, late ones and failed jobs

ASSUME Sizes == IsFiniteSet(Loops) /\ IsFiniteSet(Conns) /\ {Slots, MaxFaults} \subseteq Nat

VARIABLES
  shutdown,   \* _shutdown_requested; set and left set
  life,       \* _lifecycle_state
  active,     \* _active_operations
  stop,       \* _background_stop: none, clear or set
  main,       \* where the main thread is
  stopped,    \* what stop_background_workers returned
  expired,    \* APPLICATION_MAX_SECONDS have passed since the request
  loop,       \* where each background thread is
  shown,      \* _background_state: started, alive, ok, late
  conn,       \* where the thread of each connection is
  slots,      \* free handler slots
  avail,      \* _production_readiness
  probed,     \* what each refresher observed, or Nothing
  faults

service == <<shutdown, life, active, stop>>
process == <<main, stopped, expired>>
health  == <<avail, probed>>
vars == <<service, process, loop, shown, conn, slots, health, faults>>

\* What a refresher holds that is not probing.
Nothing == [d \in {} |-> TRUE]

Alive    == {"new", "flagged", "top", "busy", "wait", "leaving", "refused", "ending", "gone"}
Admitted == {"top", "busy", "wait", "leaving", "ending"}
Serving  == {"preflight", "body"}

TypeOK ==
  /\ shutdown \in BOOLEAN /\ life \in {"RUNNING", "DRAINING", "STOPPED"}
  /\ active \in Nat
  /\ stop \in {"none", "clear", "set"}
  /\ main \in {"install", "spawn", "serve", "close", "join", "drain", "mark", "exit", "clean", "error"}
  /\ stopped \in BOOLEAN /\ expired \in BOOLEAN
  /\ loop \in [Loops -> {"none", "dead"} \cup Alive]
  /\ shown \in [Loops -> [started: BOOLEAN, alive: BOOLEAN, ok: {"never", "yes", "no"}, late: BOOLEAN]]
  /\ conn \in [Conns -> {"none", "header", "over"} \cup Serving]
  /\ slots \in 0 .. Slots
  /\ avail \in [Deps -> BOOLEAN]
  /\ probed \in [Refreshers -> {Nothing} \cup [Deps -> BOOLEAN]]
  /\ faults \in 0 .. MaxFaults

Init ==
  /\ shutdown = FALSE /\ life = "RUNNING" /\ active = 0 /\ stop = "none"
  /\ main = "install" /\ stopped = FALSE /\ expired = FALSE
  /\ loop = [t \in Loops |-> "none"]
  /\ shown = [t \in Loops |-> [started |-> FALSE, alive |-> FALSE, ok |-> "never", late |-> FALSE]]
  /\ conn = [c \in Conns |-> "none"] /\ slots = Slots
  /\ avail = [d \in Deps |-> TRUE] /\ probed = [r \in Refreshers |-> Nothing]
  /\ faults = 0

-----------------------------------------------------------------------------
(* Operations and drain.                                                   *)

AliveLoops == {t \in Loops : loop[t] \in Alive}

\* Mutant of Open: work is admitted until the service has stopped.
OpenWhileDraining == life # "STOPPED"

Open == ~shutdown

\* _begin_operation, when it does not raise ServiceStoppingError.
Begin == Open /\ active' = active + 1

\* _end_operation
End == active' = IF active > 0 THEN active - 1 ELSE 0

Idle == active = 0 /\ AliveLoops = {}

\* _mark_stopped_if_idle
Mark == life' = IF shutdown /\ Idle THEN "STOPPED" ELSE life

-----------------------------------------------------------------------------
(* The main thread.                                                        *)

\* start_background_workers looks at the flag once, under the lock, which does
\* not keep the signal handler of the same thread out.
StartCheck ==
  /\ main = "install"
  /\ main' = IF shutdown THEN "serve" ELSE "spawn"
  /\ UNCHANGED <<service, stopped, expired, loop, shown, conn, slots, health, faults>>

Spawn ==
  /\ main = "spawn" /\ main' = "serve"
  /\ stop' = "clear"
  /\ loop' = [t \in Loops |-> "new"]
  /\ UNCHANGED <<shutdown, life, active, stopped, expired, shown, conn, slots, health, faults>>

RequestShutdown ==
  /\ shutdown' = TRUE /\ life' = "DRAINING"
  /\ stop' = IF stop = "none" THEN "none" ELSE "set"

\* SIGTERM or SIGINT; a second one finds `requested` set.
Signal ==
  /\ main \notin {"clean", "error"} /\ ~shutdown
  /\ RequestShutdown
  /\ UNCHANGED <<active, process, loop, shown, conn, slots, health, faults>>

\* serve_forever ends because the shutdown thread ended it, or by an error,
\* and close() makes the request if no signal did.
ServeEnds ==
  /\ main = "serve" /\ main' = "close"
  /\ IF shutdown THEN UNCHANGED <<shutdown, life, stop>> ELSE RequestShutdown
  /\ UNCHANGED <<active, stopped, expired, loop, shown, conn, slots, health, faults>>

\* stop_background_workers
StopWorkers ==
  /\ main = "close"
  /\ IF stop = "none"
     THEN Mark /\ stopped' = TRUE /\ main' = "drain" /\ UNCHANGED stop
     ELSE stop' = "set" /\ main' = "join" /\ UNCHANGED <<life, stopped>>
  /\ UNCHANGED <<shutdown, active, expired, loop, shown, conn, slots, health, faults>>

Join ==
  /\ main = "join" /\ (AliveLoops = {} \/ expired)
  /\ stopped' = (AliveLoops = {})
  /\ stop' = IF AliveLoops = {} THEN "none" ELSE stop
  /\ Mark
  /\ main' = "drain"
  /\ UNCHANGED <<shutdown, active, expired, loop, shown, conn, slots, health, faults>>

\* wait_for_drain
Drained ==
  /\ main = "drain" /\ active = 0
  /\ main' = "mark"
  /\ UNCHANGED <<service, stopped, expired, loop, shown, conn, slots, health, faults>>

MarkDrained ==
  /\ main = "mark" /\ Mark
  /\ main' = IF stopped THEN "clean" ELSE "error"
  /\ UNCHANGED <<shutdown, active, stop, stopped, expired, loop, shown, conn, slots, health, faults>>

DrainExpires ==
  /\ main = "drain" /\ active > 0 /\ expired
  /\ main' = "error"
  /\ UNCHANGED <<service, stopped, expired, loop, shown, conn, slots, health, faults>>

\* The deadline of main passes.
Expire ==
  /\ shutdown /\ ~expired /\ main \notin {"clean", "error"}
  /\ expired' = TRUE
  /\ UNCHANGED <<service, main, stopped, loop, shown, conn, slots, health, faults>>

MainStep == StartCheck \/ Spawn \/ StopWorkers \/ Join \/ Drained \/ MarkDrained \/ DrainExpires

-----------------------------------------------------------------------------
(* A background loop.                                                      *)

Goes(t, from, to) == loop[t] = from /\ loop' = [loop EXCEPT ![t] = to]

Show(t, change) == shown' = [shown EXCEPT ![t] = change]

OnlyLoops == UNCHANGED <<shutdown, life, stop, process, conn, slots>>

LoopShows(t) ==
  /\ Goes(t, "new", "flagged")
  /\ Show(t, [shown[t] EXCEPT !.started = TRUE, !.alive = TRUE])
  /\ OnlyLoops /\ UNCHANGED <<active, health, faults>>

LoopAdmitted(t) ==
  /\ Goes(t, "flagged", "top") /\ Begin
  /\ OnlyLoops /\ UNCHANGED <<shown, health, faults>>

\* ServiceStoppingError leaves the thread through its finally.
LoopRefused(t) ==
  /\ Goes(t, "flagged", "refused") /\ ~Open
  /\ OnlyLoops /\ UNCHANGED <<active, shown, health, faults>>

\* An iteration begins, with a deadline of its own.
Iterate(t) ==
  /\ Goes(t, "top", "busy") /\ stop = "clear"
  /\ OnlyLoops /\ UNCHANGED <<active, shown, health, faults>>

\* It takes longer than its deadline.
GetsLate(t) ==
  /\ loop[t] = "busy" /\ ~shown[t].late /\ faults < MaxFaults
  /\ Show(t, [shown[t] EXCEPT !.late = TRUE])
  /\ faults' = faults + 1
  /\ OnlyLoops /\ UNCHANGED <<active, loop, health>>

\* A chain or Hermes fails a job of the iteration; for the ASR chain also with
\* a recording that no provider accepts.
JobFails(t, d) ==
  /\ loop[t] = "busy" /\ faults < MaxFaults
  /\ avail' = [avail EXCEPT ![d] = FALSE]
  /\ faults' = faults + 1
  /\ OnlyLoops /\ UNCHANGED <<active, loop, shown, probed>>

IterationDone(t) ==
  /\ Goes(t, "busy", "wait")
  /\ Show(t, [shown[t] EXCEPT !.ok = "yes", !.late = FALSE])
  /\ OnlyLoops /\ UNCHANGED <<active, health, faults>>

IterationRaises(t) ==
  /\ Goes(t, "busy", "wait") /\ faults < MaxFaults
  /\ Show(t, [shown[t] EXCEPT !.ok = "no", !.late = FALSE])
  /\ faults' = faults + 1
  /\ OnlyLoops /\ UNCHANGED <<active, health>>

\* The delay is over, or the event was set.
Wakes(t) ==
  /\ Goes(t, "wait", "top")
  /\ OnlyLoops /\ UNCHANGED <<active, shown, health, faults>>

LeavesLoop(t) ==
  /\ Goes(t, "top", "leaving") /\ stop # "clear"
  /\ OnlyLoops /\ UNCHANGED <<active, shown, health, faults>>

ShownDead(t) == Show(t, [shown[t] EXCEPT !.alive = FALSE, !.late = FALSE])

\* The two steps of the finally, and the end of the thread.
Unwinds(t) ==
  /\ Goes(t, "leaving", "ending") \/ Goes(t, "refused", "gone")
  /\ ShownDead(t)
  /\ OnlyLoops /\ UNCHANGED <<active, health, faults>>

\* Mutant of Released: the operation of the loop is left open.
ReleasedNever(t) == UNCHANGED active

\* _end_operation, if admitted.
Released(t) == End

LoopEnds(t) ==
  /\ Goes(t, "ending", "gone") /\ Released(t)
  /\ OnlyLoops /\ UNCHANGED <<shown, health, faults>>

ThreadEnds(t) ==
  /\ Goes(t, "gone", "dead")
  /\ OnlyLoops /\ UNCHANGED <<active, shown, health, faults>>

LoopStep(t) ==
  \/ LoopShows(t) \/ LoopAdmitted(t) \/ LoopRefused(t) \/ Iterate(t) \/ IterationDone(t)
  \/ Wakes(t) \/ LeavesLoop(t) \/ Unwinds(t) \/ LoopEnds(t) \/ ThreadEnds(t)

LoopFault(t) == GetsLate(t) \/ IterationRaises(t) \/ \E d \in Deps : JobFails(t, d)

-----------------------------------------------------------------------------
(* A connection.                                                           *)

Passes(c, from, to) == conn[c] = from /\ conn' = [conn EXCEPT ![c] = to]

OnlyConns == UNCHANGED <<shutdown, life, stop, process, loop, shown, health, faults>>

SlotTaken == slots' = slots - 1

\* process_request; without a free slot the connection is shut.
Accept(c) ==
  /\ main = "serve" /\ slots > 0
  /\ Passes(c, "none", "header")
  /\ SlotTaken
  /\ OnlyConns /\ UNCHANGED active

\* admit_http lets the request in, and then its preflight looks at it.
Admit(c) ==
  /\ Passes(c, "header", "preflight") /\ Begin
  /\ OnlyConns /\ UNCHANGED slots

\* The header is bad or late, or the service is stopping.
NotAdmitted(c) ==
  /\ Passes(c, "header", "over")
  /\ OnlyConns /\ UNCHANGED <<active, slots>>

\* Mutant of PreflightRaised: the operation is left open.
PreflightRaisedOpen == UNCHANGED active

\* except BaseException: self._end_operation()
PreflightRaised == End

PreflightFails(c) ==
  /\ Passes(c, "preflight", "over") /\ PreflightRaised
  /\ OnlyConns /\ UNCHANGED slots

PreflightPasses(c) ==
  /\ Passes(c, "preflight", "body")
  /\ OnlyConns /\ UNCHANGED <<active, slots>>

\* The request is handled, or its body or its answer cannot be sent: release_http.
Release(c) ==
  /\ Passes(c, "body", "over") /\ End
  /\ OnlyConns /\ UNCHANGED slots

\* process_request_thread gives the slot back.
ConnEnds(c) ==
  /\ Passes(c, "over", "none")
  /\ slots' = slots + 1
  /\ OnlyConns /\ UNCHANGED active

ConnStep(c) ==
  Admit(c) \/ NotAdmitted(c) \/ PreflightPasses(c) \/ PreflightFails(c) \/ Release(c) \/ ConnEnds(c)

-----------------------------------------------------------------------------
(* refresh_production_readiness: probes without the lock, then the result. *)

OnlyHealth == UNCHANGED <<service, process, loop, shown, conn, slots, faults>>

Probe(r) ==
  /\ probed[r] = Nothing
  /\ probed' = [probed EXCEPT ![r] = [d \in Deps |-> TRUE]]
  /\ OnlyHealth /\ UNCHANGED avail

\* A dependency does not answer its probe.
ProbeFails(r, d) ==
  /\ probed[r] # Nothing /\ probed[r][d] /\ faults < MaxFaults
  /\ probed' = [probed EXCEPT ![r][d] = FALSE]
  /\ faults' = faults + 1
  /\ UNCHANGED <<service, process, loop, shown, conn, slots, avail>>

Refresh(r) ==
  /\ probed[r] # Nothing
  /\ avail' = probed[r]
  /\ probed' = [probed EXCEPT ![r] = Nothing]
  /\ OnlyHealth

\* _voice_ready: what /healthz answers by.
VoiceReady ==
  /\ \A d \in Deps : avail[d]
  /\ \A t \in Loops : shown[t].started /\ shown[t].alive /\ shown[t].ok = "yes" /\ ~shown[t].late

-----------------------------------------------------------------------------

Next ==
  \/ MainStep \/ Signal \/ ServeEnds \/ Expire
  \/ \E t \in Loops : LoopStep(t) \/ LoopFault(t)
  \/ \E c \in Conns : Accept(c) \/ ConnStep(c)
  \/ \E r \in Refreshers : Probe(r) \/ Refresh(r) \/ \E d \in Deps : ProbeFails(r, d)

Spec == Init /\ [][Next]_vars

\* Threads that can go on do: an iteration and a request come to their end,
\* which their own deadlines see to.  Nobody has to refresh anything.
Running ==
  /\ Spec
  /\ WF_vars(MainStep) /\ WF_vars(ServeEnds /\ shutdown)
  /\ \A t \in Loops : WF_vars(LoopStep(t))
  /\ \A c \in Conns : WF_vars(ConnStep(c))

-----------------------------------------------------------------------------
(* Properties.                                                             *)

\* Whatever fails where, the count of operations is that of the threads whose
\* end the drain has to wait for; max(0, ...) would hide one counted off twice.
OperationsCounted ==
  active = Cardinality({t \in Loops : loop[t] \in Admitted})
           + Cardinality({c \in Conns : conn[c] \in Serving})

\* Once a shutdown is requested nothing more is admitted, not even by a loop
\* that start_background_workers was about to start when the signal came.
NothingMoreAdmitted == [][shutdown => active' <= active /\ shutdown']_vars

\* STOPPED is final, and said only when no thread works on anything.
StoppedIsQuiet ==
  life = "STOPPED" =>
    /\ \A t \in Loops : loop[t] \in {"none", "dead"}
    /\ \A c \in Conns : conn[c] \notin Serving

\* main returns without an error only from a stopped service, and with one
\* only when the deadline has passed.
ExitIsTrue ==
  /\ main = "clean" => life = "STOPPED"
  /\ main = "error" => expired

\* /healthz answers well only while both loops are there.
ReadyIsTrue == VoiceReady => \A t \in Loops : loop[t] \in Admitted \cup {"flagged"}

\* The count of operations, the loops, readiness and the exit agree: nothing
\* runs when the process calls itself stopped or exits cleanly.
ExitIsSafe == TypeOK /\ OperationsCounted /\ StoppedIsQuiet /\ ExitIsTrue /\ ReadyIsTrue

\* A signal ends the process, cleanly unless the deadline passes first.
ShutdownEnds == shutdown ~> (main = "clean" \/ (expired /\ main = "error"))

\* The loops recover by themselves: however they start, fail and are late, once
\* nothing fails any more /healthz is well again, unless a dependency is down.
\* (That may be for good: a job that fails takes its dependency down, and only
\* refresh_production_readiness, which the service never calls, brings one up.)
HealthRecovers == <>[](VoiceReady \/ shutdown \/ \E d \in Deps : ~avail[d])

=============================================================================
