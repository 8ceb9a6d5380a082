-------------------------- MODULE MCMeasuredWriting --------------------------
(* An instance of the writer and the measurer for TLC. *)
EXTENDS MCBitStreamWriter, MeasuredWriting

\* The theorems about the writer and the measurer speak of this instance.
ASSUME TheoremsApply == NoWrap /\ StringsFit
=============================================================================
