----------------------------- MODULE PartStore -----------------------------
(***************************************************************************)
(* What the upload of a turn promises to the device that sends it, without *)
(* files, receipts, crashes or locks: a stored chunk stays readable and is *)
(* never replaced; a part is finished once, as the concatenation of all    *)
(* its chunks, and stays readable; the turn is accepted when every part is *)
(* finished; and only audio whose transcript is committed is ever let go.  *)
(***************************************************************************)
EXTENDS Naturals, Sequences

CONSTANTS Part, Audio, Payload, NumSeqs, None

VARIABLES
  stored,    \* [Part -> [chunk number -> the payload one can read, or None]]
  whole,     \* [Part -> the content it was finished with, or None]
  readable,  \* [Part -> the content one can read, or None]
  accepted,
  released   \* a transcript is committed

vars == <<stored, whole, readable, accepted, released>>

Seqs == 0 .. NumSeqs - 1

Init ==
  /\ stored = [p \in Part |-> [s \in Seqs |-> None]]
  /\ whole = [p \in Part |-> None]
  /\ readable = [p \in Part |-> None]
  /\ accepted = FALSE
  /\ released = FALSE

Store(p, s, x) ==
  /\ whole[p] = None /\ ~accepted
  /\ stored[p][s] = None
  /\ stored' = [stored EXCEPT ![p][s] = x]
  /\ UNCHANGED <<whole, readable, accepted, released>>

Finish(p) ==
  /\ whole[p] = None
  /\ \E n \in 0 .. NumSeqs :
       /\ \A s \in Seqs : (stored[p][s] # None) <=> (s < n)
       /\ whole' = [whole EXCEPT ![p] = [i \in 1 .. n |-> stored[p][i - 1]]]
  /\ readable' = [readable EXCEPT ![p] = whole'[p]]
  /\ UNCHANGED <<stored, accepted, released>>

Accept ==
  /\ ~accepted
  /\ \A p \in Part : whole[p] # None
  /\ accepted' = TRUE
  /\ UNCHANGED <<stored, whole, readable, released>>

Release ==
  /\ accepted /\ ~released
  /\ released' = TRUE
  /\ UNCHANGED <<stored, whole, readable, accepted>>

LetGo(p) ==
  /\ released /\ p \in Audio
  /\ \/ /\ readable' = [readable EXCEPT ![p] = None]
        /\ UNCHANGED stored
     \/ \E s \in Seqs :
          /\ stored' = [stored EXCEPT ![p][s] = None]
          /\ UNCHANGED readable
  /\ UNCHANGED <<whole, accepted, released>>

Next ==
  \/ \E p \in Part :
       \/ \E s \in Seqs, x \in Payload : Store(p, s, x)
       \/ Finish(p) \/ LetGo(p)
  \/ Accept \/ Release

Spec == Init /\ [][Next]_vars

=============================================================================
