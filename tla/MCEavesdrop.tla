---------------------------- MODULE MCEavesdrop ----------------------------
(***************************************************************************)
(* Eavesdrop for TLC.  A behaviour is one of four: one segment and two     *)
(* workers (workers); two segments, whose identifiers and bytes may        *)
(* collide, and one worker (segments); the same while the session goes on  *)
(* and the gateway answers in time (untroubled); or not a session but the  *)
(* submission of a turn, HermesWire (wire).                                *)
(***************************************************************************)
EXTENDS Submissions, TLC

CONSTANTS w1, w2, i1, i2, speech, noise

OneWorker == {w1}
TwoWorkers == {w1, w2}
OneId == {i1}
Ids == {i1, i2}
Contained == {speech, noise}
SpeechOnly == {speech}

\* Steps of Eavesdrop with fewer segments, workers, faults or troubles.
OneSegment == INSTANCE Eavesdrop WITH MaxSegments <- 1, Id <- OneId
OneAtWork == INSTANCE Eavesdrop WITH Worker <- OneWorker, MaxFaults <- 1
Untroubled == INSTANCE Eavesdrop WITH Worker <- OneWorker, MaxFaults <- 1, Trouble <- {}

\* Which of the four it is; what belongs to the others rests.
VARIABLE about

SessionsInit ==
  /\ about \in {"workers", "segments", "untroubled", "wire"}
  /\ Init /\ Wire!WireInit
  /\ about = "wire" \/ ingress.sound

Sessions ==
  /\ SessionsInit
  /\ [][/\ UNCHANGED about
        /\ \/ about = "workers" /\ OneSegment!Next /\ UNCHANGED wire
           \/ about = "segments" /\ OneAtWork!Next /\ UNCHANGED wire
           \/ about = "untroubled" /\ Untroubled!Next /\ UNCHANGED wire
           \/ about = "wire" /\ Wire!WireNext /\ UNCHANGED vars]_<<about, vars, wire>>
  \* The workers claim what can be claimed and run its handlers; a run that
  \* was started ends.
  /\ \A s \in Seg :
       /\ WF_vars(about = "untroubled" /\ Untroubled!ClaimJob(w1, s))
       /\ WF_vars(about = "untroubled" /\ Untroubled!RunEnds(s, "completed"))
  /\ WF_vars(about = "untroubled" /\ Untroubled!Handler(w1))
  \* WireSpec:
  /\ WF_wire(about = "wire" /\ \E w \in Worker : Wire!ClaimJob(w))
  /\ \A w \in Worker : WF_wire(about = "wire" /\ Wire!Handler(w))
  /\ WF_wire(about = "wire" /\ Wire!JobLapses /\ Wire!At(jobs.by, "idle"))

\* Untroubled, every forwarded segment is answered in the end (AnswersArrive);
\* every submission of a turn ends, whatever the gateway does (SubmissionsEnd).
AnswersArriveUntroubled ==
  /\ \A s \in Seg :
       (about = "untroubled" /\ decision[s] = "QUEUED")
         ~> (about = "untroubled" => decision[s] \in {"DELIVERED", "NO_SPEECH"})
  /\ <>(about = "wire" => answer.outcome # "none")

=============================================================================
