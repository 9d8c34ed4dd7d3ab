--------------------------- MODULE MCWorkerJobs ---------------------------
(***************************************************************************)
(* WorkerJobs for TLC.  Two workers share an owner name, as two calls of   *)
(* the worker-control endpoint do that leave the name at its default.  The *)
(* hermes job may enqueue the history job when it fails.  A tts job is     *)
(* checked in MCSpeech.                                                    *)
(***************************************************************************)
EXTENDS WorkerJobs, TLC

CONSTANTS hermesJob, historyJob, w1, w2, recorderWorker

MCOwner == {recorderWorker}
MCWorker == {w1, w2}
MCOwnerOf == [w \in MCWorker |-> recorderWorker]
Symmetry == Permutations(MCWorker)

\* Two jobs: sweeps and claims of one touch the other.
HermesJobs == {hermesJob, historyJob}
HermesAttempts == [j \in HermesJobs |-> IF j = hermesJob THEN 2 ELSE 1]
HermesDeadline == [j \in HermesJobs |-> IF j = hermesJob THEN 3 ELSE 2]
HermesFollowUp == [j \in HermesJobs |-> IF j = hermesJob THEN historyJob ELSE NoJob]
NoTts == {}
NoDeadline == [j \in HermesJobs |-> NoTime]

=============================================================================
