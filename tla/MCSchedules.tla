---------------------------- MODULE MCSchedules ----------------------------
(***************************************************************************)
(* Schedules for TLC.  A behaviour is about one of five things: racing     *)
(* requests; racing schedulers; the loop alone without a failure, or with  *)
(* one, or for a user whose first turn is accepted late.  Hermes answers   *)
(* after another FINAL among racing requests; requests do not fail among   *)
(* racing schedulers; another turn takes the id of the first occurrence in *)
(* front of the loop that does not fail.                                   *)
(***************************************************************************)
EXTENDS Schedules, TLC

CONSTANTS h1, u1, p1, p2, j1, j2, d1, d2

Calls == {h1}
Three == 1..3
None_ == {}
First == {1}
\* Two turns ask for one id, then one of them for another, on a project and a
\* device of its own.
Ids == <<"s1", "s1", "s2">>
User2 == <<u1, u1, u1>>
Origin2 == <<d1, d1, d2>>
Turns2 == <<p1, p2, p2>>
Project2 == <<j1, j1, j2>>
Device2 == <<{d1}, {d1}, {d2}>>
Soon == <<0, 1, 1>>

Racing == INSTANCE Schedules WITH Lease <- 1, MaxDelay <- 2, Limit <- 1, MaxAge <- 0, MaxFinals <- 2
Rivals == INSTANCE Schedules WITH Lease <- 1, MaxDelay <- 2
Steady == INSTANCE Schedules WITH Legacy <- First, MaxAge <- 0, MaxFaults <- 0
Faulty == INSTANCE Schedules WITH Legacy <- First, MaxAge <- 0

VARIABLE about

\* Only the loop fires, and only one of the rival requests is ever made.
NoCalls == \A h \in Http : ~Working(h)
NoRival == schedule[2] = Gone /\ 2 \notin refused
\* The turn ids are free, and the user has an accepted turn.
Free == preclaimed = {}
Familiar == accepted = Users

Reminders ==
  /\ \/ about = "requests" /\ Racing!Init /\ Familiar
     \/ about = "schedulers" /\ Rivals!Init /\ Familiar
     \/ about = "steady" /\ Steady!Init /\ Familiar
     \/ about = "faulty" /\ Faulty!Init /\ Familiar
     \/ about = "newcomer" /\ Steady!Init
  /\ [][/\ UNCHANGED about
        /\ \/ about = "requests" /\ Racing!Next /\ NoCalls' /\ Free'
           \/ about = "schedulers" /\ Rivals!Next /\ schedule'[2] = Gone /\ refused' = {} /\ Free'
           \/ about = "steady" /\ Steady!Next /\ NoCalls' /\ NoRival' /\ preclaimed' \subseteq First
           \/ about = "faulty" /\ Faulty!Next /\ NoCalls' /\ NoRival' /\ Free'
           \/ about = "newcomer" /\ Steady!Next /\ NoCalls' /\ NoRival' /\ Free']_<<about, vars>>
  \* FairSpec:
  /\ WF_vars(about = "steady" /\ Steady!PassStep(Loop))
  /\ WF_vars(about = "steady" /\ Steady!Restart) /\ WF_vars(about = "steady" /\ Steady!Tick)
  /\ WF_vars(about = "faulty" /\ Faulty!PassStep(Loop))
  /\ WF_vars(about = "faulty" /\ Faulty!Restart) /\ WF_vars(about = "faulty" /\ Faulty!Tick)

\* Without a failure every reminder goes out (RemindersGoOut).
SteadyGoOut == about = "steady" => RemindersGoOut

\* With one failed pass every reminder still goes out (RemindersGoOut), as the
\* tests of the loops assert of a due schedule.  It does not hold: the back-off
\* of the loop can reach the length of the lease, and from then on a reminder
\* that can never be delivered is claimed first in every pass.
FaultyGoOut == about = "faulty" => RemindersGoOut

\* With a failure those that went out are spoken (RemindersAreSpoken).
FaultyAreSpoken == about = "faulty" => RemindersAreSpoken

\* Reminders go out, and with a failure those that went out are spoken.
RemindersArrive == SteadyGoOut /\ FaultyAreSpoken

=============================================================================
