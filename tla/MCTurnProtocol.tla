-------------------------- MODULE MCTurnProtocol --------------------------
(***************************************************************************)
(* TurnProtocol for TLC, with two workers.  A behaviour is one of three,   *)
(* chosen at the start: one text turn (text), one recording (voice), or    *)
(* two text turns that meet in one Hermes session (pair).                  *)
(***************************************************************************)
EXTENDS TurnProtocol, TLC

CONSTANTS t1, t2, spoken, w1, w2, defaultSession

AllTurns == {t1, t2, spoken}
Spoken == {spoken}
NoTurns == {}
TwoWorkers == {w1, w2}
Symmetry == Permutations(TwoWorkers) \cup Permutations({t1, t2})

OneSession == {defaultSession}
SameSession == [t \in AllTurns |-> defaultSession]

\* Two attempts bring in retries, reclaimed jobs and stale workers: of each
\* stage but the history for a text, of the transcription for a recording.
TextAttempts == [s \in Stage |-> IF s = "history" THEN 1 ELSE 2]
\* For the others no worker is free for the history jobs: they run into their
\* deadline (30 seconds), or with two texts wait for it to the end.
VoiceAttempts == [s \in Stage |-> CASE s = "asr" -> 2 [] s = "history" -> 0 [] OTHER -> 1]
PairAttempts == [s \in Stage |-> IF s = "history" THEN 0 ELSE 1]

Recording == INSTANCE TurnProtocol WITH JobAttempts <- VoiceAttempts, HermesAttempts <- 1
Pair == INSTANCE TurnProtocol WITH
  Online <- NoTurns, JobAttempts <- PairAttempts, HermesAttempts <- 1

\* Which of the three it is, and the turns that are sent then.
VARIABLE kind

Sent == {t \in Turn : state[t] # "RECEIVING"}
Alone == Cardinality(Sent) <= 1
\* The schedule's FINAL comes to a recording before it is routed, to a text
\* while Hermes works on it (its route job completed at the first attempt), and
\* of two texts the earlier one is confirmed.
ScheduledBy(t) == {i \in DOMAIN events[t] : events[t][i] \in ScheduleFinals}
AskedBefore == \A t \in Turn : ScheduledBy(t) \subseteq {1}
AskedOfHermes ==
  \A t \in Turn : ScheduledBy(t) # {} =>
    ScheduledBy(t) = {2} /\ job[t]["route"] = [phase |-> "SUCCEEDED", current |-> 0, last |-> 1]
EarlierConfirmed ==
  \A t \in Turn : \A i \in ScheduledBy(t) : events[t][i] = "confirmed" /\ seq[t] = 1
HistoryWaits == \A t \in Turn : job[t]["history"].phase # "FAILED"

Turns ==
  /\ \/ kind = "text" /\ Init
     \/ kind = "voice" /\ Recording!Init
     \/ kind = "pair" /\ Pair!Init
  /\ [][/\ UNCHANGED kind
        /\ \/ kind = "text" /\ Next /\ Alone' /\ AskedOfHermes'
           \/ kind = "voice" /\ Recording!Next /\ AskedBefore'
           \/ kind = "pair" /\ Pair!Next /\ HistoryWaits' /\ AskedOfHermes' /\ EarlierConfirmed'
        /\ Sent' \subseteq IF kind = "voice" THEN Voice ELSE Turn \ Voice]_<<kind, vars>>

=============================================================================
