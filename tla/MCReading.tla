----------------------------- MODULE MCReading -------------------------------
(* The instance of BitStreamReader whose sums do not wrap. *)
EXTENDS MCBitStreamReader

\* The theorems about the reader speak of this instance.
ASSUME TheoremsApply == NoWrap
=============================================================================
