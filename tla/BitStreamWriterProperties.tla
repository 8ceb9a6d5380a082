---------------------- MODULE BitStreamWriterProperties ----------------------
(***************************************************************************)
(* What makes bit_stream_writer correct.                                   *)
(***************************************************************************)
EXTENDS BitStreamWriter

\* The three cursors of the writer agree: while it is open the bits it counts
\* are those of the words it flushed and of its scratch, which is less than a
\* word; once flushed, the last word is the only one that may be partly used.
CursorsAgree ==
    LET flushed == out.wordsIndex * WordBits
    IN  IF finalFlushed
        THEN /\ out.scratchIndex = 0
             /\ out.usedBits <= flushed
             /\ flushed < out.usedBits + WordBits
        ELSE /\ out.usedBits = flushed + out.scratchIndex
             /\ out.scratchIndex \in 0 .. WordBits - 1

\* Words are stored within the buffer, and there is a word left for what the
\* scratch holds, whenever flush_final is called ("to avoid overrun writes").
NoOverrun ==
    /\ out.wordsIndex <= wordsSize
    /\ out.scratchIndex > 0 => out.wordsIndex < wordsSize

\* Above the bits it holds the scratch is zero: or-ing the next value in sets
\* exactly its bits, and the bits that pad the last word are zero.
ScratchIsClean ==
    \A i \in 0 .. ScratchBits - 1 : i >= out.scratchIndex => out.scratch[i] = 0

\* The loop of a write only runs when all of it fits what the user allowed,
\* so that bytes and strings are written whole or not at all.
LoopFits ==
    /\ out.usedBits + left * unit <= totalBits
    /\ left > 0 => ~fail /\ ~finalFlushed

\* Without a buffer that can hold the logical length the stream stays failed
\* and empty, and nothing but reset_with leaves that state: restart does not.
UnusableStaysFailed ==
    totalBits > wordsSize * WordBits => initFail /\ fail /\ out.usedBits = 0

\* The bits written, read back from the buffer and the scratch.
BitAt(i) == IF i < out.wordsIndex * WordBits
            THEN out.words[i] ELSE out.scratch[i - out.wordsIndex * WordBits]

Stream == [i \in 1 .. out.usedBits |-> BitAt(i - 1)]

\* What the stream holds is what the accepted writes were given, in order: no
\* bit is lost, moved, or changed by a later write or by what the buffer held
\* before, and the final flush brings all of it to the buffer.
StreamIsWritten == Stream = written

\* The writer implements a sequence of bits that a refused write, a failed
\* stream or a closed one leaves alone, and that is never cut in the middle of
\* a write.
Sink == INSTANCE BitSink WITH
    Values <- {v \in Seq(Bit) : Len(v) <= PrefixPrefixBits + ScratchBits},
    stream <- Stream,
    capacity <- totalBits,
    reserved <- left * unit,
    failed <- fail,
    closed <- finalFlushed

RefinesSink == Sink!Spec
=============================================================================
