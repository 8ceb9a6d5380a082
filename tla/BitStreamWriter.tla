-------------------------- MODULE BitStreamWriter ----------------------------
(***************************************************************************)
(* bit_stream_writer: packs values of any number of bits into the words of *)
(* a buffer, through a scratch register that is flushed word by word.  The *)
(* writer belongs to one thread; a call that writes several values in a    *)
(* loop (bytes, strings) is one action for its checks and its first writes *)
(* and one action per iteration.                                           *)
(***************************************************************************)
EXTENDS BitWords

CONSTANTS SizeMod,     \* 2^32 of size_type
          Values,      \* what integers and floats are converted to
          ByteCounts,  \* sizes of the data write(data, size) is given
          StringLens,  \* lengths of the strings
          CharBytes,   \* sizeof(CharT)
          WordCounts,  \* lengths of the buffers, in words
          LogicalBytes \* values of logical_bytes_length

ASSUME SizeModAssumption == SizeMod \in Nat \ {0}
ASSUME ValuesAssumption == Values \subseteq {v \in Value : Len(v) > 0}
ASSUME CountsAssumption == /\ ByteCounts \subseteq Nat
                           /\ StringLens \subseteq Nat
                           /\ WordCounts \subseteq Nat
                           /\ LogicalBytes \subseteq Nat
ASSUME CharBytesAssumption == CharBytes \subseteq 1 .. 4

VARIABLES out,          \* _scratch, _scratch_index, _words, _words_index and
                        \* _logical_used_bits
          wordsSize,    \* _words.size()
          totalBits,    \* _logical_total_bits
          initFail,     \* _init_fail
          fail,         \* _fail
          finalFlushed, \* _final_flushed
          left,         \* iterations the loop of the current write has left
          unit,         \* bits that one of them writes
          written       \* history: the bits of the writes that were accepted

config == <<wordsSize, totalBits, initFail>>
vars == <<out, config, fail, finalFlushed, left, unit, written>>

Memory(size) == [0 .. size * WordBits - 1 -> Bit]

Out(size) == [scratch : Scratch,
              scratchIndex : Int,
              words : Memory(size),
              wordsIndex : Nat,
              usedBits : Nat]

TypeOK == /\ wordsSize \in Nat
          /\ out \in Out(wordsSize)
          /\ totalBits \in Nat
          /\ initFail \in BOOLEAN
          /\ fail \in BOOLEAN
          /\ finalFlushed \in BOOLEAN
          /\ left \in Nat
          /\ unit \in Nat
          /\ written \in Seq(Bit)

\* Arithmetic on size_type.
Wrap(n) == n % SizeMod

-----------------------------------------------------------------------------
(* Pieces of do_write, as functions of the fields they change. *)

\* The word that is flushed is added to the buffer; the scratch keeps the rest.
FlushWord(o) ==
    [o EXCEPT !.words = [i \in DOMAIN @ |->
                            IF i >= o.wordsIndex * WordBits
                               /\ i < o.wordsIndex * WordBits + WordBits
                            THEN o.scratch[i - o.wordsIndex * WordBits] ELSE @[i]],
              !.wordsIndex = @ + 1,
              !.scratch = ShiftRight(@, WordBits),
              !.scratchIndex = IF @ > WordBits THEN @ - WordBits ELSE 0]

\* Mutant: a scratch that is exactly full is not flushed.
FlushIfScratchPastWord(o) ==
    IF o.scratchIndex > WordBits THEN FlushWord(o) ELSE o

FlushIfScratchOverflow(o) ==
    IF o.scratchIndex >= WordBits THEN FlushWord(o) ELSE o

\* Adds at most a word to the scratch.
PutHalf(o, v) ==
    FlushIfScratchOverflow(
        [o EXCEPT !.scratch = OrShifted(@, v, o.scratchIndex),
                  !.scratchIndex = @ + Len(v)])

\* do_write<false>: a value of more than a word goes in two halves.
DoWrite(o, v) ==
    LET low == PutHalf(o, LowHalf(v))
        all == IF Len(v) > WordBits THEN PutHalf(low, HighHalf(v)) ELSE low
    IN  [all EXCEPT !.usedBits = Wrap(@ + Len(v))]

-----------------------------------------------------------------------------
(* The operations.  None starts before the one that runs has returned. *)

Idle == left = 0

\* Mutant: the room is checked without the bits to be written.
Overflowed(bits) == out.usedBits > totalBits

\* Mutant: a write that just fits is refused.
OverflowsWhenFull(bits) == Wrap(out.usedBits + bits) >= totalBits

\* A write after the final flush fails, so does one that does not fit.
Overflows(bits) == Wrap(out.usedBits + bits) > totalBits

\* Mutant: the scratch keeps its bits.
RestartedDirty(words, failed) ==
    /\ out' = [scratch |-> out.scratch, scratchIndex |-> 0, words |-> words,
               wordsIndex |-> 0, usedBits |-> 0]
    /\ fail' = failed
    /\ finalFlushed' = FALSE
    /\ written' = <<>>

Restarted(words, failed) ==
    /\ out' = [scratch |-> EmptyScratch, scratchIndex |-> 0, words |-> words,
               wordsIndex |-> 0, usedBits |-> 0]
    /\ fail' = failed
    /\ finalFlushed' = FALSE
    /\ written' = <<>>

\* Mutant: restart clears the failure of the initialization too.
RestartUnusable ==
    /\ Idle
    /\ Restarted(out.words, FALSE)
    /\ UNCHANGED <<config, left, unit>>

Restart ==
    /\ Idle
    /\ Restarted(out.words, initFail)
    /\ UNCHANGED <<config, left, unit>>

NoWords == [i \in 0 .. -1 |-> 0]

\* Mutant: reset forgets to clear the span of the words.
ResetKeepsWords ==
    /\ Idle
    /\ Restarted(out.words, TRUE)
    /\ wordsSize' = 0
    /\ totalBits' = 0
    /\ initFail' = TRUE
    /\ UNCHANGED <<left, unit>>

Reset ==
    /\ Idle
    /\ Restarted(NoWords, TRUE)
    /\ wordsSize' = 0
    /\ totalBits' = 0
    /\ initFail' = TRUE
    /\ UNCHANGED <<left, unit>>

\* reset_with() over a buffer of n words, that holds whatever it held before;
\* the buffer of a payload is as long as its size rounded up to words.
ResetWith(n, isNull, logicalBytes) ==
    /\ Idle
    /\ initFail' = (isNull \/ n = 0 \/ logicalBytes > n * WordBytes)
    /\ \E old \in Bit : Restarted([i \in 0 .. n * WordBits - 1 |-> old], initFail')
    /\ wordsSize' = n
    /\ totalBits' = Wrap(ByteBits * logicalBytes)
    /\ UNCHANGED <<left, unit>>

\* set_fail(), or a write of an integer out of its range or of an empty range.
SetFail ==
    /\ Idle
    /\ fail' = TRUE
    /\ UNCHANGED <<out, config, finalFlushed, left, unit, written>>

\* A write that is refused, for whatever reason, writes nothing of its data.
Refuse ==
    /\ fail' = TRUE
    /\ UNCHANGED <<out, left, unit, written>>

\* Mutant: a write after the final flush is accepted.
WriteAfterFinal(v) ==
    /\ Idle
    /\ ~fail
    /\ IF Overflows(Len(v))
       THEN Refuse
       ELSE /\ out' = DoWrite(out, v)
            /\ written' = written \o v
            /\ UNCHANGED <<fail, left, unit>>
    /\ UNCHANGED <<config, finalFlushed>>

\* write(SInt), write(BInt), write(float), write(double); on a failed stream
\* a no-op, as the others.
Write(v) ==
    /\ Idle
    /\ ~fail
    /\ IF finalFlushed \/ Overflows(Len(v))
       THEN Refuse
       ELSE /\ out' = DoWrite(out, v)
            /\ written' = written \o v
            /\ UNCHANGED <<fail, left, unit>>
    /\ UNCHANGED <<config, finalFlushed>>

\* write(data, size), up to its loop over the bytes.
WriteBytes(size) ==
    /\ Idle
    /\ ~fail
    /\ IF finalFlushed \/ Overflows(ByteBits * size)
       THEN Refuse
       ELSE /\ left' = size
            /\ unit' = ByteBits
            /\ UNCHANGED <<out, fail, written>>
    /\ UNCHANGED <<config, finalFlushed>>

PrefixPrefixBits == 2  \* STR_LEN_PREFIX_PREFIX_BITS

\* The length prefix is a u8, a u16, a u32 or a u64.
PrefixBits(k) == ByteBits * <<1, 2, 4, 8>>[k + 1]

FitsPrefix(len, k) == len < 2 ^ PrefixBits(k)

\* The shortest one the length fits.
LengthPrefix(len) == CHOOSE k \in 0 .. 3 : /\ k = 3 \/ FitsPrefix(len, k)
                                          /\ \A j \in 0 .. k - 1 : ~FitsPrefix(len, j)

\* Mutant: the room is checked for the characters only.
WriteStringCharacters(len, charBytes) ==
    LET k == LengthPrefix(len)
        first == ToBits(k, PrefixPrefixBits)
        second == ToBits(len, PrefixBits(k))
    IN  /\ Idle
        /\ ~fail
        /\ IF finalFlushed \/ out.usedBits + ByteBits * (len * charBytes) > totalBits
           THEN Refuse
           ELSE /\ out' = DoWrite(DoWrite(out, first), second)
                /\ written' = written \o first \o second
                /\ left' = len
                /\ unit' = ByteBits * charBytes
                /\ UNCHANGED fail
        /\ UNCHANGED <<config, finalFlushed>>

\* write(string_view), up to its loop over the characters.  The check is done
\* in size_t and does not wrap.
WriteString(len, charBytes) ==
    LET k == LengthPrefix(len)
        first == ToBits(k, PrefixPrefixBits)
        second == ToBits(len, PrefixBits(k))
        bits == PrefixPrefixBits + PrefixBits(k) + ByteBits * (len * charBytes)
    IN  /\ Idle
        /\ ~fail
        /\ IF finalFlushed \/ out.usedBits + bits > totalBits
           THEN Refuse
           ELSE /\ out' = DoWrite(DoWrite(out, first), second)
                /\ written' = written \o first \o second
                /\ left' = len
                /\ unit' = ByteBits * charBytes
                /\ UNCHANGED fail
        /\ UNCHANGED <<config, finalFlushed>>

\* One iteration of the loop of WriteBytes or WriteString.
PutNext ==
    /\ left > 0
    /\ \E v \in [1 .. unit -> Bit] : /\ out' = DoWrite(out, v)
                                      /\ written' = written \o v
    /\ left' = left - 1
    /\ UNCHANGED <<config, fail, finalFlushed, unit>>

FlushFinal ==
    /\ Idle
    /\ ~fail
    /\ ~finalFlushed
    /\ out' = IF out.scratchIndex > 0 THEN FlushWord(out) ELSE out
    /\ finalFlushed' = TRUE
    /\ UNCHANGED <<config, fail, left, unit, written>>

-----------------------------------------------------------------------------
\* A writer is constructed empty (bit_stream_writer()), or over a buffer,
\* which is the same followed by reset_with().
Init ==
    /\ out = [scratch |-> EmptyScratch, scratchIndex |-> 0, words |-> NoWords,
              wordsIndex |-> 0, usedBits |-> 0]
    /\ wordsSize = 0
    /\ totalBits = 0
    /\ initFail = TRUE
    /\ fail = TRUE
    /\ finalFlushed = FALSE
    /\ left = 0
    /\ unit = 0
    /\ written = <<>>

Next == \/ Restart
        \/ Reset
        \/ \E n \in WordCounts, isNull \in BOOLEAN, l \in LogicalBytes :
             ResetWith(n, isNull, l)
        \/ SetFail
        \/ \E v \in Values : Write(v)
        \/ \E size \in ByteCounts : WriteBytes(size)
        \/ \E len \in StringLens, c \in CharBytes : WriteString(len, c)
        \/ PutNext
        \/ FlushFinal

Spec == Init /\ [][Next]_vars

-----------------------------------------------------------------------------
\* What _logical_total_bits may be: a logical length of 2^32 bits or more
\* comes out shorter.
Totals == {0} \cup {Wrap(ByteBits * l) : l \in LogicalBytes}

\* No sum that is compared with _logical_total_bits reaches 2^32 bits.  (The
\* code does not check that; the theorems about the writer rest on it.)
NoWrap ==
    \A total \in Totals :
      /\ total + ScratchBits < SizeMod
      /\ \A size \in ByteCounts : total + ByteBits * size < SizeMod
=============================================================================
