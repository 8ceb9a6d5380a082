-------------------------- MODULE MCBitStreamReader --------------------------
(* Instances of BitStreamReader for TLC. *)
EXTENDS BitStreamReaderProperties

\* With bytes of one bit a word has four bits: a single bit, two ranges that do
\* not use all of their bits, a word, more than a word, two words.
MCRanges == {[bits |-> 1, span |-> 1], [bits |-> 3, span |-> 4],
             [bits |-> 4, span |-> 15], [bits |-> 5, span |-> 20],
             [bits |-> 8, span |-> 255]}

\* Three words that begin with any two and end with the first again, or none.
ShortBuffers == {b \o SubSeq(b, 1, 4) : b \in [1 .. 8 -> Bit]} \cup {<<>>}

\* Nine words, that hold a logical length which wraps.
LongBuffer == [i \in 1 .. 36 |-> IF i % 3 = 0 THEN 1 ELSE 0]

MCBuffers == ShortBuffers \cup {LongBuffer}
=============================================================================
