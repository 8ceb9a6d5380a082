---------------------------- MODULE MCTransport ------------------------------
(* An instance of Transport for TLC: bytes of two bits, words of eight. *)
EXTENDS TransportProperties

\* A bit, a range that does not use all of its bits, more than a word.
MCRanges == {[bits |-> 1, span |-> 1], [bits |-> 3, span |-> 4],
             [bits |-> 10, span |-> 600]}

MCValues == {ToBits(0, 1), ToBits(1, 1), ToBits(4, 3), ToBits(341, 10), ToBits(598, 10)}

MCData == <<0, 1, 1, 1, 0, 0, 1, 0>>

\* The theorems about the letters speak of this instance.
ASSUME TheoremsApply == NoWrap /\ PayloadsCovered
=============================================================================
