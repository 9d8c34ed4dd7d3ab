-------------------------- MODULE MCServiceLifecycle --------------------------
(***************************************************************************)
(* ServiceLifecycle for TLC, with both loops.  A behaviour is one of three,*)
(* chosen at the start: two connections at a time (admission); two that    *)
(* wait for one slot, and a shutdown that must come to its end (drain); no *)
(* connection, but loops and jobs that fail twice, and somebody outside    *)
(* who may refresh the availability of the dependencies (health).          *)
(***************************************************************************)
EXTENDS ServiceLifecycle

CONSTANTS c1, c2

TwoConns == {c1, c2}

Admission == INSTANCE ServiceLifecycle WITH MaxFaults <- 1
Drain == INSTANCE ServiceLifecycle WITH Slots <- 1, MaxFaults <- 1

\* Which of the three it is.
VARIABLE about
all == <<about, vars>>

Lives ==
  /\ \/ about = "admission" /\ Admission!Init
     \/ about = "drain" /\ Drain!Init
     \/ about = "health" /\ Init
  /\ [][/\ UNCHANGED about
        /\ \/ about = "admission" /\ Admission!Next /\ UNCHANGED health
           \/ about = "drain" /\ Drain!Next /\ UNCHANGED health
           \/ about = "health" /\ Next /\ UNCHANGED conn]_all
  \* Running of ServiceLifecycle:
  /\ WF_vars(about = "drain" /\ Drain!MainStep)
  /\ WF_vars(about = "drain" /\ Drain!ServeEnds /\ shutdown)
  /\ \A t \in Loops : WF_vars(about = "drain" /\ Drain!LoopStep(t))
  /\ \A c \in Conns : WF_vars(about = "drain" /\ Drain!ConnStep(c))
  /\ WF_vars(about = "health" /\ MainStep)
  /\ WF_vars(about = "health" /\ ServeEnds /\ shutdown)
  /\ \A t \in Loops : WF_vars(about = "health" /\ LoopStep(t))

\* ShutdownEnds: a signal ends the process, cleanly unless the deadline passes.
DrainEnds ==
  about = "drain" /\ shutdown ~> main = "clean" \/ (expired /\ main = "error")

\* HealthRecovers: once nothing fails any more, /healthz is well again, unless
\* a dependency is down.
WellInTheEnd == <>[](about = "health" => VoiceReady \/ shutdown \/ \E d \in Deps : ~avail[d])

\* A shutdown ends, and the loops recover from what failed in them.
ServiceSettles == DrainEnds /\ WellInTheEnd

=============================================================================
