---------------------------- MODULE JobContract ----------------------------
(***************************************************************************)
(* What recorder_next/features.py promises about durable jobs, without     *)
(* leases, clocks, owners or tables: a job is worked on by attempts, one   *)
(* at a time and numbered in order; an effect is committed in the name of  *)
(* the attempt in charge; the job ends once; and if it ends in failure,    *)
(* that failure is handed to the row that waits for the job in the same    *)
(* step.  One transaction may move several jobs (a claim sweeps all        *)
(* overdue ones), so a step is a conjunction over the jobs.                *)
(***************************************************************************)
EXTENDS Naturals

CONSTANTS Job, Max   \* Max[j]: attempts job j may use

VARIABLES
  phase,      \* "ABSENT", "OPEN", "SUCCEEDED" or "FAILED"
  current,    \* the attempt in charge, 0 when there is none
  last,       \* the number of attempts started
  committed,  \* attempts that committed an effect
  handed      \* how often the failure was handed over

vars == <<phase, current, last, committed, handed>>

Init ==
  /\ phase = [j \in Job |-> "ABSENT"]
  /\ current = [j \in Job |-> 0]
  /\ last = [j \in Job |-> 0]
  /\ committed = [j \in Job |-> {}]
  /\ handed = [j \in Job |-> 0]

Same(f, j) == f'[j] = f[j]

Open(j) ==
  /\ phase[j] = "ABSENT" /\ phase'[j] = "OPEN"
  /\ Same(current, j) /\ Same(last, j) /\ Same(committed, j) /\ Same(handed, j)

\* A new attempt takes charge, possibly from one that was not heard of again,
\* possibly of a job that this very step has opened.
Start(j) ==
  /\ phase[j] \in {"ABSENT", "OPEN"} /\ last[j] < Max[j]
  /\ phase'[j] = "OPEN"
  /\ last'[j] = last[j] + 1 /\ current'[j] = last[j] + 1
  /\ Same(committed, j) /\ Same(handed, j)

\* The attempt in charge gives up, or is given up.
Release(j) ==
  /\ phase[j] = "OPEN" /\ current[j] # 0
  /\ current'[j] = 0
  /\ Same(phase, j) /\ Same(last, j) /\ Same(committed, j) /\ Same(handed, j)

Commit(j) ==
  /\ current[j] # 0
  /\ committed'[j] = committed[j] \cup {current[j]}
  /\ Same(phase, j) /\ Same(current, j) /\ Same(last, j) /\ Same(handed, j)

Succeed(j) ==
  /\ current[j] # 0
  /\ phase'[j] = "SUCCEEDED" /\ current'[j] = 0
  /\ Same(last, j) /\ Same(committed, j) /\ Same(handed, j)

Fail(j) ==
  /\ phase[j] = "OPEN"
  /\ phase'[j] = "FAILED" /\ current'[j] = 0 /\ handed'[j] = handed[j] + 1
  /\ Same(last, j) /\ Same(committed, j)

Stay(j) ==
  /\ Same(phase, j) /\ Same(current, j) /\ Same(last, j)
  /\ Same(committed, j) /\ Same(handed, j)

JobStep(j) ==
  \/ Stay(j)
  \/ Open(j) \/ Start(j) \/ Release(j) \/ Commit(j) \/ Succeed(j) \/ Fail(j)

Next == \A j \in Job : JobStep(j)

Spec == Init /\ [][Next]_vars

=============================================================================
