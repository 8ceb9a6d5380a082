---------------------- MODULE BitStreamReaderProperties ----------------------
(***************************************************************************)
(* What makes bit_stream_reader correct.                                   *)
(***************************************************************************)
EXTENDS BitStreamReader

\* What _logical_total_bits may be: a logical length of 2^32 bits or more
\* comes out shorter.
Totals == {0} \cup {Wrap(ByteBits * l) : l \in LogicalBytes}

\* No sum that is compared with _logical_total_bits reaches 2^32 bits.  (The
\* code does not check that; the theorems about the reader rest on it.)
NoWrap ==
    \A total \in Totals :
      /\ total + ScratchBits < SizeMod
      /\ \A size \in ByteCounts : total + ByteBits * size < SizeMod

\* While the stream has not failed its cursors agree: the words that were
\* loaded are the bits that were used and those left in the scratch, less than
\* a word.  (A value rejected for its range leaves them apart until restart.)
CursorsAgree ==
    ~fail => /\ in.wordsIndex * WordBits = in.usedBits + in.scratchBits
             /\ in.scratchBits \in 0 .. WordBits - 1

\* No word is loaded from outside the buffer, whatever lengths and sizes the
\* stream claims, and none that only holds bits past the logical length.
NoOverread ==
    /\ in.wordsIndex * WordBits <= Len(words)
    /\ ~initFail => in.wordsIndex * WordBits < totalBits + WordBits

\* The scratch holds the bits of the buffer that come next, and zeros above
\* them, so that the next word can be or-ed in.
ScratchIsNext ==
    ~fail => \A i \in 0 .. ScratchBits - 1 :
               in.scratch[i] = IF i < in.scratchBits
                               THEN words[in.usedBits + i + 1] ELSE 0

\* The loop of a read only runs when all of it is there: data and strings are
\* read whole or not at all.
LoopFits ==
    /\ in.usedBits + left * unit <= totalBits
    /\ left > 0 => ~fail

\* The bits that reads have given, one after another, are those of the buffer:
\* none is skipped, repeated or made up, across words, halves and loops.
TakenIsPrefix == /\ Len(in.taken) = in.usedBits
                 /\ in.taken = SubSeq(words, 1, in.usedBits)

\* A peek that finds no length fails the stream ("this function will return a
\* negative value and set the fail flag").
PeekNegativeFails == peeked < 0 => fail

\* The length that is peeked is the one that is stored ("Length of CharT
\* stored in it"): a length prefix at the reader's position has that value.
StoredLength ==
    LET at(i, n) == Number(SubSeq(words, in.usedBits + i + 1, in.usedBits + i + n))
    IN  at(PrefixPrefixBits, PrefixBits(at(0, PrefixPrefixBits)))

PeekIsStored == peeked > 0 => peeked = StoredLength

-----------------------------------------------------------------------------
\* The reader implements a source of the bits of its buffer.
Source == INSTANCE BitSource WITH
    content <- words,
    limit <- totalBits,
    given <- in.taken,
    reserved <- left * unit,
    failed <- fail

RefinesSource == Source!Spec
=============================================================================
