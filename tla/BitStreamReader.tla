-------------------------- MODULE BitStreamReader ----------------------------
(***************************************************************************)
(* bit_stream_reader: takes values of any number of bits out of the words  *)
(* of a buffer, through a scratch register that is filled word by word.    *)
(* The reader belongs to one thread; a call that reads several values in a *)
(* loop (bytes, strings) is one action for its checks and its first reads  *)
(* and one action per iteration.                                           *)
(***************************************************************************)
EXTENDS BitWords

CONSTANTS SizeMod,      \* 2^32, for the sums of size_type
          LengthMod,    \* 2^32, for the cast of a length to ssize_type
          Ranges,       \* the integers read: their bits, and max - min
          ByteCounts,   \* sizes given to read(data, size)
          MaxLengths,   \* values of max_length
          CharBytes,    \* sizeof(CharT)
          Buffers,      \* contents of the buffers
          LogicalBytes  \* values of logical_bytes_length

ASSUME ModAssumption == SizeMod \in Nat \ {0} /\ LengthMod \in Nat \ {0}
ASSUME RangesAssumption ==
    /\ Ranges \subseteq [bits : 1 .. ScratchBits, span : Nat]
    /\ \A r \in Ranges : 2 ^ (r.bits - 1) <= r.span /\ r.span < 2 ^ r.bits
ASSUME CountsAssumption == /\ ByteCounts \subseteq Nat
                           /\ MaxLengths \subseteq Nat
                           /\ LogicalBytes \subseteq Nat
ASSUME CharBytesAssumption == CharBytes \subseteq 1 .. 4
\* A buffer is a number of whole words.
ASSUME BuffersAssumption ==
    \A b \in Buffers : b \in Seq(Bit) /\ \E n \in 0 .. Len(b) : Len(b) = n * WordBits

VARIABLES in,        \* _scratch, _scratch_bits, _words_index, _logical_used_bits,
                     \* and, as history, the bits that were taken
          words,     \* _words
          totalBits, \* _logical_total_bits
          initFail,  \* _init_fail
          fail,      \* _fail
          left,      \* iterations the loop of the current read has left
          unit,      \* bits that one of them reads
          peeked     \* the result of a peek_string_length that just returned

config == <<words, totalBits, initFail>>
vars == <<in, config, fail, left, unit, peeked>>

In == [scratch : Scratch,
       scratchBits : Int,
       wordsIndex : Nat,
       usedBits : Nat,
       taken : Seq(Bit)]

TypeOK == /\ in \in In
          /\ words \in Seq(Bit)
          /\ totalBits \in Nat
          /\ initFail \in BOOLEAN
          /\ fail \in BOOLEAN
          /\ left \in Nat
          /\ unit \in Nat
          /\ peeked \in Int

Wrap(n) == n % SizeMod

\* static_cast<ssize_type>.
ToSSize(n) == LET m == n % LengthMod
              IN  IF m < LengthMod \div 2 THEN m ELSE m - LengthMod

\* The number that a sequence of bits stands for: top[k] is that of its k
\* highest bits.
Number(v) ==
    LET top[k \in 0 .. Len(v)] ==
          IF k = 0 THEN 0 ELSE 2 * top[k - 1] + v[Len(v) - k + 1]
    IN  top[Len(v)]

-----------------------------------------------------------------------------
(* Pieces of do_read, as functions of the fields they change. *)

\* Past the buffer a word would be anything; NoOverread says that it is not
\* loaded.
Word(i) == [j \in 1 .. WordBits |->
               IF i * WordBits + j \in DOMAIN words THEN words[i * WordBits + j] ELSE 0]

FetchWord(c) ==
    [c EXCEPT !.scratch = OrShifted(@, Word(c.wordsIndex), c.scratchBits),
              !.scratchBits = @ + WordBits,
              !.wordsIndex = @ + 1]

\* Mutant: a scratch that holds just enough is filled again.
FetchEagerly(c, n) == IF n >= c.scratchBits THEN FetchWord(c) ELSE c

FetchIfNeeded(c, n) == IF n > c.scratchBits THEN FetchWord(c) ELSE c

Front(c, n) == [i \in 1 .. n |-> c.scratch[i - 1]]

Drop(c, n) == [c EXCEPT !.scratch = ShiftRight(@, n),
                        !.scratchBits = @ - n]

\* Takes at most a word: the reader that is left, and the bits.
TakeHalf(c, n) == LET full == FetchIfNeeded(c, n)
                  IN  [reader |-> Drop(full, n), value |-> Front(full, n)]

\* Mutant: the halves are put together the wrong way round.
TakeSwapped(c, n) ==
    IF n <= WordBits
    THEN TakeHalf(c, n)
    ELSE LET low == TakeHalf(c, WordBits)
             high == TakeHalf(low.reader, n - WordBits)
         IN  [reader |-> high.reader, value |-> high.value \o low.value]

\* A value of more than a word is taken in two halves, the low one first.
Take(c, n) ==
    IF n <= WordBits
    THEN TakeHalf(c, n)
    ELSE LET low == TakeHalf(c, WordBits)
             high == TakeHalf(low.reader, n - WordBits)
         IN  [reader |-> high.reader, value |-> low.value \o high.value]

\* The bits that a read loads into its result are counted as used.
Count(t) == [t.reader EXCEPT !.usedBits = Wrap(@ + Len(t.value)),
                             !.taken = @ \o t.value]

\* do_read<false>.
DoRead(c, n) == Count(Take(c, n))

\* Mutant: the room is checked without the bits to be read.
Overflowed(c, bits) == c.usedBits > totalBits

Overflows(c, bits) == Wrap(c.usedBits + bits) > totalBits

-----------------------------------------------------------------------------
(* The length prefix of a string. *)

PrefixPrefixBits == 2  \* STR_LEN_PREFIX_PREFIX_BITS

\* The length is a u8, a u16, a u32 or a u64.
PrefixBits(k) == ByteBits * <<1, 2, 4, 8>>[k + 1]

Result(c, failed, length) == [reader |-> c, failed |-> failed, length |-> length]

\* read_string_length of a stream that has not failed.
ReadLength(c) ==
    IF Overflows(c, PrefixPrefixBits) THEN Result(c, TRUE, -1)
    ELSE LET first == Take(c, PrefixPrefixBits)
             second == PrefixBits(Number(first.value))
             then == Count(first)
         IN  IF Overflows(then, second) THEN Result(then, TRUE, -1)
             ELSE LET length == Take(then, second)
                  IN  Result(Count(length), FALSE, ToSSize(Number(length.value)))

-----------------------------------------------------------------------------
(* The operations.  None starts before the one that runs has returned. *)

Idle == left = 0 /\ peeked = 0

\* Mutant: the scratch keeps its bits.
RestartedDirty(failed) ==
    /\ in' = [scratch |-> in.scratch, scratchBits |-> 0, wordsIndex |-> 0,
              usedBits |-> 0, taken |-> <<>>]
    /\ fail' = failed

\* Mutant: the index of the words is not reset.
RestartedInPlace(failed) ==
    /\ in' = [scratch |-> EmptyScratch, scratchBits |-> 0,
              wordsIndex |-> in.wordsIndex, usedBits |-> 0, taken |-> <<>>]
    /\ fail' = failed

Restarted(failed) ==
    /\ in' = [scratch |-> EmptyScratch, scratchBits |-> 0, wordsIndex |-> 0,
              usedBits |-> 0, taken |-> <<>>]
    /\ fail' = failed

Restart ==
    /\ Idle
    /\ Restarted(initFail)
    /\ UNCHANGED <<config, left, unit, peeked>>

Reset ==
    /\ Idle
    /\ Restarted(TRUE)
    /\ words' = <<>>
    /\ totalBits' = 0
    /\ initFail' = TRUE
    /\ UNCHANGED <<left, unit, peeked>>

\* The bytes a buffer holds.
SizeBytes(buffer) == Len(buffer) \div ByteBits

ResetWith(buffer, isNull, logicalBytes) ==
    /\ Idle
    /\ initFail' = (isNull \/ buffer = <<>> \/ logicalBytes > SizeBytes(buffer))
    /\ Restarted(initFail')
    /\ words' = buffer
    /\ totalBits' = Wrap(ByteBits * logicalBytes)
    /\ UNCHANGED <<left, unit, peeked>>

\* set_fail(), or a read of an integer of an empty range.
SetFail ==
    /\ Idle
    /\ fail' = TRUE
    /\ UNCHANGED <<in, config, left, unit, peeked>>

\* read() of an integer, a float or a double.  A value above its span is
\* rejected, unless the sum with min wraps (see RangeCodec): its bits were taken
\* from the scratch, but are not counted.
Read(r) ==
    /\ Idle
    /\ ~fail
    /\ IF Overflows(in, r.bits)
       THEN fail' = TRUE /\ UNCHANGED in
       ELSE LET t == Take(in, r.bits)
            IN  /\ \/ in' = Count(t) /\ fail' = FALSE
                   \/ in' = t.reader /\ fail' = TRUE /\ Number(t.value) > r.span
    /\ UNCHANGED <<config, left, unit, peeked>>

\* read(data, size), up to its loop over the bytes.
ReadBytes(size) ==
    /\ Idle
    /\ ~fail
    /\ IF Overflows(in, ByteBits * size)
       THEN fail' = TRUE /\ UNCHANGED <<left, unit>>
       ELSE left' = size /\ unit' = ByteBits /\ UNCHANGED fail
    /\ UNCHANGED <<in, config, peeked>>

StringBits(length, charBytes) == ByteBits * (length * charBytes)

\* Mutant: a length below zero passes.
StringFitsSigned(r, maxLength, charBytes) ==
    /\ ~r.failed /\ r.length <= maxLength
    /\ r.reader.usedBits + StringBits(r.length, charBytes) <= totalBits

\* Mutant: the length is only compared with max_length.
StringFitsResult(r, maxLength, charBytes) ==
    ~r.failed /\ r.length >= 0 /\ r.length <= maxLength

\* The check is done in size_t and does not wrap.
StringFits(r, maxLength, charBytes) ==
    /\ ~r.failed /\ r.length >= 0 /\ r.length <= maxLength
    /\ r.reader.usedBits + StringBits(r.length, charBytes) <= totalBits

\* read() of a string, up to its loop over the characters.  The prefix is read
\* even if the string then does not fit.
ReadString(maxLength, charBytes) ==
    /\ Idle
    /\ ~fail
    /\ LET r == ReadLength(in)
       IN  /\ in' = r.reader
           /\ IF StringFits(r, maxLength, charBytes)
              THEN left' = r.length /\ unit' = ByteBits * charBytes /\ UNCHANGED fail
              ELSE fail' = TRUE /\ UNCHANGED <<left, unit>>
    /\ UNCHANGED <<config, peeked>>

\* One iteration of the loop of ReadBytes or ReadString.
ReadNext ==
    /\ left > 0
    /\ in' = DoRead(in, unit)
    /\ left' = left - 1
    /\ UNCHANGED <<config, fail, unit, peeked>>

\* peek_string_length: the fields it saved are restored, a failure stays.
PeekStringLength ==
    /\ Idle
    /\ ~fail
    /\ LET r == ReadLength(in)
       IN  /\ fail' = r.failed
           /\ peeked' = r.length
    /\ UNCHANGED <<in, config, left, unit>>

\* The caller of peek_string_length goes on.
PeekReturned ==
    /\ peeked # 0
    /\ peeked' = 0
    /\ UNCHANGED <<in, config, fail, left, unit>>

-----------------------------------------------------------------------------
Init ==
    /\ in = [scratch |-> EmptyScratch, scratchBits |-> 0, wordsIndex |-> 0,
             usedBits |-> 0, taken |-> <<>>]
    /\ words = <<>>
    /\ totalBits = 0
    /\ initFail = TRUE
    /\ fail = TRUE
    /\ left = 0
    /\ unit = 0
    /\ peeked = 0

Next == \/ Restart
        \/ Reset
        \/ \E b \in Buffers, isNull \in BOOLEAN, l \in LogicalBytes :
             ResetWith(b, isNull, l)
        \/ SetFail
        \/ \E r \in Ranges : Read(r)
        \/ \E size \in ByteCounts : ReadBytes(size)
        \/ \E max \in MaxLengths, c \in CharBytes : ReadString(max, c)
        \/ ReadNext
        \/ PeekStringLength
        \/ PeekReturned

Spec == Init /\ [][Next]_vars
=============================================================================
