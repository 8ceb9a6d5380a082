------------------------------ MODULE BitWords -------------------------------
(***************************************************************************)
(* The words and the two-word scratch register that the bit streams shift  *)
(* bits through (bit_stream.hpp), bit by bit.  A value of n bits is a      *)
(* sequence of n bits, the least significant first; the scratch register   *)
(* is a function from bit positions; the user's buffer is one function     *)
(* from bit positions too, word after word (on a big-endian host the code  *)
(* swaps the bytes of each word, so the order in memory is the same).      *)
(***************************************************************************)
EXTENDS Integers, Sequences

CONSTANT ByteBits  \* bits of a byte: 8, or fewer to keep an instance small

ASSUME ByteBitsAssumption == ByteBits \in Nat \ {0}

WordBytes == 4     \* word_type is uint32_t
WordBits == WordBytes * ByteBits
ScratchBits == 2 * WordBits

Bit == {0, 1}
Scratch == [0 .. ScratchBits - 1 -> Bit]
EmptyScratch == [i \in 0 .. ScratchBits - 1 |-> 0]

\* What one do_write or do_read takes: at most 64 bits of 8-bit bytes.
Value == {v \in Seq(Bit) : Len(v) <= ScratchBits}

\* n as a value of the given width.
ToBits(n, width) ==
    [i \in 1 .. width |-> IF (n \div 2 ^ (i - 1)) % 2 = 1 THEN 1 ELSE 0]

\* scratch | (v << shift); what is shifted past the register is lost.
OrShifted(scratch, v, shift) ==
    [i \in 0 .. ScratchBits - 1 |->
        IF i >= shift /\ i < shift + Len(v) /\ v[i - shift + 1] = 1
        THEN 1 ELSE scratch[i]]

\* scratch >> shift.
ShiftRight(scratch, shift) ==
    [i \in 0 .. ScratchBits - 1 |->
        IF i + shift < ScratchBits THEN scratch[i + shift] ELSE 0]

\* Mutant: the high half starts a bit early.
HighHalfEarly(v) == SubSeq(v, WordBits, Len(v) - 1)

\* The halves a value wider than a word is split into.
LowHalf(v) == IF Len(v) <= WordBits THEN v ELSE SubSeq(v, 1, WordBits)
HighHalf(v) == SubSeq(v, WordBits + 1, Len(v))
=============================================================================
