---------------------------- MODULE MCUpdateFeed ----------------------------
(***************************************************************************)
(* What devices fetch, for TLC.  A behaviour is one of six, chosen at the  *)
(* start: two generations of two names, contents and version codes (feed); *)
(* two generations of one name while a device downloads (download); one    *)
(* publication that is repeated until it is there (publication); a         *)
(* history of up to five turns of several sizes read in pages (history),   *)
(* one of small turns that are transcribed, routed and answered meanwhile  *)
(* (changing), or one that must be read to its end (reading).              *)
(***************************************************************************)
EXTENDS Fetching

CONSTANTS apk, wear, a, b, beta, final

FirstTwo == {1, 2}
TwoNames == {apk, wear}
TwoContents == {a, b}
TwoCodes == {beta, final}

\* Two faults, where three of the publication that is repeated are too many.
Feed == INSTANCE UpdateFeed WITH MaxFaults <- 2

\* The publications of a behaviour that restricts them.
Asked(requests) == task'.request \in requests \cup {None}
Sequel == {req \in Request : req.name = apk /\ req.code = IF req.generation = 1 THEN beta ELSE final}
Repeated == {req \in Sequel : req.generation = 1 /\ req.content = a}

Settled(typed, parts, bytes) ==
  [typed |-> typed, spoken |-> typed = "audio", said |-> typed = "audio", placed |-> TRUE,
   parts |-> parts, bytes |-> bytes]
Small == {Settled("text", 1, 1), Settled("audio", 1, 1)}
Mixed == Small \cup {Settled("text", 1, 2), Settled("audio", 2, 1)}

\* A typed turn with audio that is neither transcribed nor routed; two at most of
\* the turns that change are of this kind.
Unsettled == [Settled("text", 1, 1) EXCEPT !.spoken = TRUE, !.placed = FALSE]

FourOf(set) == [1 .. 4 -> set]
UpToFour == UNION {[1 .. n -> Mixed] : n \in 0 .. 4}
TwoToSettle ==
  {table \in FourOf({Settled("text", 1, 1), Unsettled}) :
     \E i, k \in 1 .. 4 : \A j \in 1 .. 4 : table[j] = Unsettled => j \in {i, k}}
AllTables == UpToFour \cup TwoToSettle
InputTypes == {"text", "audio"}
OneOrTwo == {1, 2}
SomeFilters ==
  {[type |-> "text", project |-> FALSE], [type |-> "audio", project |-> FALSE],
   [type |-> "any", project |-> TRUE]}

pages == <<turns, archived, asked, cursor, got, reading, late>>

\* Which of the six it is; what belongs to the others rests.
VARIABLE about
all == <<about, vars, pages>>

FetchInit ==
  /\ about \in {"feed", "download", "publication", "history", "changing", "reading"}
  /\ History!Init
  /\ CASE about \in {"feed", "download", "publication"} -> turns = <<>> /\ asked.type = "text"
       [] about = "history"  -> turns \in Seq(Mixed) /\ asked.type = "text"
       [] about = "changing" -> turns \in TwoToSettle
       [] about = "reading"  -> turns \in FourOf(Small) /\ asked.type = "text"
  /\ Init

Fetch ==
  /\ FetchInit
  /\ [][/\ UNCHANGED about
        /\ \/ about = "feed" /\ Feed!Next /\ UNCHANGED <<download, pages>>
           \/ about = "download" /\ Feed!Next /\ Asked(Sequel) /\ UNCHANGED pages
           \/ about = "publication" /\ Next /\ Asked(Repeated) /\ UNCHANGED <<download, pages>>
           \/ /\ about \in {"history", "reading", "changing"} /\ History!Next /\ UNCHANGED vars
              /\ about # "changing" => \A i \in DOMAIN turns : turns'[i] = turns[i]
              /\ about = "changing" => UNCHANGED archived /\ Len(turns') = Len(turns)]_all
  \* Persistent of UpdateFeed:
  /\ WF_vars(about = "publication" /\ Goes)
  /\ WF_vars(about = "publication" /\ task.step = "down" /\ Recover)
  /\ \A req \in Repeated :
       SF_vars(about = "publication" /\ row[req.generation] = Unpublished /\ Look(req))
  \* Reading of HistoryPages:
  /\ WF_pages(about = "reading" /\ History!Ask)

\* PublicationResumes: an interrupted publication can be repeated with success.
PublicationEnds == <>(about = "publication" => row[1] # Unpublished)

\* ReadingEnds: a reader comes to an end although pages may be empty.
ReadersEnd == <>(about = "reading" => reading # "on")

\* A publication succeeds in the end, and a reader comes to the end.
FetchersEnd == PublicationEnds /\ ReadersEnd

=============================================================================
