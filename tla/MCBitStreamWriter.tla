-------------------------- MODULE MCBitStreamWriter --------------------------
(* Instances of BitStreamWriter for TLC. *)
EXTENDS BitStreamWriterProperties

\* With bytes of one bit a word has four bits: a single bit, most of a word, a
\* word, more than a word, two words.
MCValues == {<<1>>, <<0, 1, 1>>, <<0, 1, 0, 1>>, <<1, 0, 0, 1, 1>>,
             <<1, 1, 0, 1, 0, 1, 1, 1>>}
=============================================================================
