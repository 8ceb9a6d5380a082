--------------------------- MODULE MeasuredWriting ---------------------------
(***************************************************************************)
(* bit_stream_measurer in lockstep with the writer: a program runs the     *)
(* same writes on both, to know how large a buffer to allocate.  The       *)
(* measurer has no limit and never fails; it is given the writes that the  *)
(* writer refuses too, up to the first one.                                *)
(***************************************************************************)
EXTENDS BitStreamWriter

VARIABLE measured  \* the measurer's _logical_used_bits

measuredVars == <<vars, measured>>

\* What a program allocates: the bits, rounded up to bytes.
UsedBytes == (measured + ByteBits - 1) \div ByteBits

\* write() of a value, and of data, by the bits it will take.
Measure(bits) == measured' = Wrap(measured + bits)

MeasureRestart == measured' = 0

\* Mutant: the largest length of each width is given the next.
MeasuredPrefixBitsShort(len) ==
    IF len < 2 ^ ByteBits - 1 THEN ByteBits
    ELSE IF len < 2 ^ (2 * ByteBits) - 1 THEN 2 * ByteBits
    ELSE IF len < 2 ^ (4 * ByteBits) - 1 THEN 4 * ByteBits
    ELSE 8 * ByteBits

\* The bits of the first width whose largest number is not below the length.
MeasuredPrefixBits(len) ==
    CHOOSE bits \in {ByteBits, 2 * ByteBits, 4 * ByteBits, 8 * ByteBits} :
      /\ bits = 8 * ByteBits \/ len < 2 ^ bits
      /\ \A fewer \in {ByteBits, 2 * ByteBits, 4 * ByteBits} :
           fewer < bits => ~(len < 2 ^ fewer)

\* write() of a string: its two prefixes and its characters.
MeasureString(len, charBytes) ==
    Measure(PrefixPrefixBits + MeasuredPrefixBits(len) + ByteBits * (len * charBytes))

-----------------------------------------------------------------------------
MeasuredInit == Init /\ measured = 0

StartOver == /\ \/ Restart
                \/ Reset
                \/ \E n \in WordCounts, isNull \in BOOLEAN, l \in LogicalBytes :
                     ResetWith(n, isNull, l)
             /\ MeasureRestart

MeasuredWrite == \/ \E v \in Values : Write(v) /\ Measure(Len(v))
                 \/ \E size \in ByteCounts :
                      WriteBytes(size) /\ Measure(ByteBits * size)
                 \/ \E len \in StringLens, c \in CharBytes :
                      WriteString(len, c) /\ MeasureString(len, c)

Unmeasured == (SetFail \/ PutNext \/ FlushFinal) /\ UNCHANGED measured

MeasuredNext == StartOver \/ MeasuredWrite \/ Unmeasured

MeasuredSpec == MeasuredInit /\ [][MeasuredNext]_measuredVars

-----------------------------------------------------------------------------
\* Nor does the measure of a string, one that will be refused included, reach
\* 2^32 bits.  (NoWrap leaves refused strings out: the writer itself is safe
\* from them.)
StringsFit ==
    \A total \in Totals, len \in StringLens, c \in CharBytes :
      total + PrefixPrefixBits + PrefixBits(LengthPrefix(len))
        + ByteBits * (len * c) < SizeMod

\* The measurer counts what the writer uses, the bits that a write in progress
\* will still use included: both choose the same prefix for every string.
MeasureIsExact == ~fail => measured = out.usedBits + left * unit

\* A buffer as large as the measure refuses no write: a writer that is open and
\* fails at a write has been measured to need more bytes than it was allowed.
MeasureSuffices ==
    [][~fail /\ fail' /\ ~finalFlushed /\ measured' > measured
         => ByteBits * UsedBytes' > totalBits]_measuredVars
=============================================================================
