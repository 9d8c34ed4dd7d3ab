---------------------------- MODULE MCPartUpload ----------------------------
(***************************************************************************)
(* The upload for TLC: an audio and a text part of up to two chunks, on a  *)
(* disk that fills.  A behaviour is one of four, chosen at the start, which *)
(* differ in what the device sends: two chunks of two sizes into the audio *)
(* part (chunks); one chunk into either part (parts); one chunk of one of  *)
(* two contents into the audio part, once the text is there, and a clean-up *)
(* that must come to its end (cleanup); or a part of five chunks whose     *)
(* missing ones are asked for page by page (paging).                       *)
(***************************************************************************)
EXTENDS TurnUpload

CONSTANTS voice, text, a, b

TwoParts == {voice, text}
OnlyVoice == {voice}
TwoPayloads == {a, b}
Sizes12 == [x \in Payload |-> IF x = a THEN 1 ELSE 2]
Wholes == {<<a>>, <<b>>, <<a, b>>}
TextDeclared == [p \in Part |-> IF p = text THEN 1 ELSE Undeclared]

PageSizes == 1 .. 3

pages == <<have, progress, asking, offset, reported, arrived, round>>

\* Which of the four it is; what belongs to the others rests.
VARIABLE about
all == <<about, vars, pages>>
PagesRest == Paging!Init /\ have = {} /\ asking = [encoding |-> "list", limit |-> 1, total |-> TRUE]

\* What the device sends, by the receipt its request takes: in parts and in
\* cleanup no put is refused, and in cleanup the text comes first, untroubled.
Sent(r) ==
  CASE about = "chunks"  -> /\ r.path[1] = voice
                            /\ r.path[2] = PartBin => r.content = <<a, b>>
                            /\ r.path[2] = 1 => r.content = <<b>>
    [] about = "parts"   -> r.path[2] # 1 /\ r.content = <<a>>
    [] about = "cleanup" -> /\ r.path[2] # 1 /\ Len(r.content) = 1
                            /\ r.path[1] = text <=> ~Complete(text)
                            /\ r.path[1] = text => r.content = <<a>>
    [] OTHER             -> FALSE
Troubled == ~Complete(text) /\ task'.step \in {"down", "recovering"}

UploadStep ==
  /\ Next
  /\ task'.step \in {"prepared", "assembling"} => Sent(task'.on)
  /\ about \in {"parts", "cleanup"} => ~RefusePut
  /\ about = "cleanup" => ~Troubled

UploadsInit ==
  /\ about \in {"chunks", "parts", "cleanup", "paging"}
  /\ Init /\ Paging!Init
  /\ about # "paging" => PagesRest

Uploads ==
  /\ UploadsInit
  /\ [][/\ UNCHANGED about
        /\ \/ about # "paging" /\ UploadStep /\ UNCHANGED pages
           \/ about = "paging" /\ Paging!Next /\ UNCHANGED vars]_all
  \* FairSpec of PartUpload, and Sending of MissingPages:
  /\ WF_all(\/ about = "cleanup" /\ Complete(text) /\ TaskGoesOn /\ UNCHANGED <<about, pages>>
            \/ about = "paging" /\ UNCHANGED <<about, vars>>
               /\ (Paging!AskOn \/ Paging!AskLast \/ Paging!AskEnd))
  /\ WF_vars(about = "cleanup" /\ \E r \in Receipt : LeaseRunsOut(r))
  /\ SF_vars(about = "cleanup" /\ Complete(text) /\ RecoverReceipts)
  /\ SF_vars(about = "cleanup" /\ RetryDeletion)
  /\ <>[][about = "cleanup" => ~Fault]_vars
  /\ \A n \in Paging!Chunks : WF_pages(about = "paging" /\ Paging!Send(n))

\* LeftoversGo: the file of a write that never got its row is in the end
\* removed, replaced, or committed after all.
LeftoversEnd ==
  \A r \in Receipt :
    LET left == disk[r.path] = r.content /\ RefersTo(r.path) = None IN
    about = "cleanup" /\ Complete(text) /\ left ~> ~left

\* SourceGoes: transcribed audio does not stay, however often its removal is
\* cut off, unless the failing asr job takes the transcript back.
SourceEnds ==
  turn.outcome = "VALID_TRANSCRIPT" /\ about = "cleanup"
    ~> turn.source_deleted \/ turn.outcome # "VALID_TRANSCRIPT"

\* EverythingSent of MissingPages.
AllSent == about = "paging" => Paging!EverythingSent

\* Leftovers and transcribed audio are removed, and the client learns of every
\* chunk it has to send.
UploadsEnd == LeftoversEnd /\ SourceEnds /\ AllSent

=============================================================================
