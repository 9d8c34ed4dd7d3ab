--------------------------- MODULE MCProviderChain ---------------------------
(***************************************************************************)
(* ProviderChain for TLC: chains of one and two targets, and one outcome   *)
(* for each way a call can end.                                            *)
(***************************************************************************)
EXTENDS ProviderChain

TwoChains == {<<1, 0>>, <<0>>}
OneChain  == {<<1, 0>>}
LongChain == {<<1, 0, 1>>, <<0, 1>>}
AnyAnswer == {Good, Timeout, Framing, TooLarge, Invalid, Raised, NoAudioRoute, Unreached}
             \cup {OfStatus(c) : c \in {400, 401, 404, 408, 409, 415, 425, 429, 500, 599}}
Few       == {Good, OfStatus(429), OfStatus(403)}

=============================================================================
