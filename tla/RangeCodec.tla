----------------------------- MODULE RangeCodec ------------------------------
(***************************************************************************)
(* How an integer travels: do_write turns a value of an integral type in a *)
(* range min .. max into as few bits as the range needs, do_read turns the *)
(* bits back.  Both compute in the unsigned type of the same width, or in  *)
(* int when the type is narrower.  What the two ends say of the range is   *)
(* the same; the bits may come from a stream that was written differently. *)
(***************************************************************************)
EXTENDS Integers

CONSTANT Types  \* the integral types

\* A type of w bits has 2 * half = 2^w values; a narrow one has fewer bits than
\* int, and is promoted to it.
Type == [half : Nat \ {0}, signed : BOOLEAN, narrow : BOOLEAN]

ASSUME TypesAssumption ==
    /\ Types \subseteq Type
    /\ \A t \in Types : \E k \in 0 .. t.half : t.half = 2 ^ k

VARIABLES type,    \* SInt or BInt
          min,     \* the range both ends are called with
          max,
          data,    \* what is written
          state,   \* where the value is
          honest,  \* whether the bits were written by do_write with this range
          wire,    \* the bits, as a number
          conv     \* what do_read makes of them

vars == <<type, min, max, data, state, honest, wire, conv>>

State == {"writing", "refused", "sent", "rejected", "read"}

Modulus(t) == 2 * t.half
Least(t) == IF t.signed THEN -t.half ELSE 0
Numbers(t) == Least(t) .. Least(t) + Modulus(t) - 1

TypeOK == /\ type \in Types
          /\ {min, max, data, conv} \subseteq Numbers(type)
          /\ state \in State
          /\ honest \in BOOLEAN
          /\ wire \in 0 .. Modulus(type) - 1

-----------------------------------------------------------------------------
\* static_cast to the type, and to its unsigned type.
ToType(t, n) == ((n - Least(t)) % Modulus(t)) + Least(t)
ToUnsigned(t, n) == n % Modulus(t)

\* std::bit_width(static_cast<UInt>((UInt)max - (UInt)min)).
Span == ToUnsigned(type, ToUnsigned(type, max) - ToUnsigned(type, min))
\* Mutant: a range of n + 1 values is given the bits of n.
BitsOfSize == CHOOSE b \in 0 .. type.half :
                Span <= 2 ^ b /\ (b > 0 => Span > 2 ^ (b - 1))

Bits == CHOOSE b \in 0 .. type.half : Span < 2 ^ b /\ (b > 0 => Span >= 2 ^ (b - 1))

\* NALCHI_BIT_STREAM_FAIL_IF_MIN_MAX_RANGE_INVALID.
RangeInvalid == min >= max

\* The number that do_write puts into the stream.
Encoded == ToUnsigned(type, ToUnsigned(type, data) - ToUnsigned(type, min))

\* (SInt)value + min, before it is cast to the type: in int for a narrow type.
Sum == ToType(type, wire) + min

\* Mutant: the sum is not cast back to the type.
NotReduced == Sum

\* Mutant: the sum is cast to the unsigned type.
ConvertedToUnsigned == ToUnsigned(type, Sum)

\* Mutant: what lies above the range is made its maximum.
Clamped == IF wire > Span THEN max ELSE ToType(type, Sum)

\* static_cast<SInt>(((SInt)value) + min).
Converted == ToType(type, Sum)

\* The sum of a type that is not narrower than int is computed in the type;
\* out of its numbers, and signed, it is undefined.  What the machine does is
\* to wrap, as Converted has it.
Undefined == type.signed /\ ~type.narrow /\ Sum \notin Numbers(type)

-----------------------------------------------------------------------------
Init == /\ type \in Types
        /\ min \in Numbers(type)
        /\ max \in Numbers(type)
        /\ data \in Numbers(type)
        /\ state = "writing"
        /\ honest = TRUE
        /\ wire = 0
        /\ conv = data

\* do_write<true>.
Write ==
    /\ state = "writing"
    /\ IF RangeInvalid \/ data < min \/ data > max
       THEN state' = "refused" /\ UNCHANGED wire
       ELSE state' = "sent" /\ wire' = Encoded
    /\ UNCHANGED <<type, min, max, data, honest, conv>>

\* The bits at the reader's position were not written for this range.
Garble ==
    /\ state = "writing"
    /\ wire' \in 0 .. 2 ^ Bits - 1
    /\ state' = "sent"
    /\ honest' = FALSE
    /\ UNCHANGED <<type, min, max, data, conv>>

\* do_read<true>: the range is checked, the bits are converted, and a result
\* above max is rejected.
Read ==
    /\ state = "sent"
    /\ IF RangeInvalid
       THEN state' = "rejected" /\ UNCHANGED conv
       ELSE /\ conv' = Converted
            /\ state' = IF conv' > max THEN "rejected" ELSE "read"
    /\ UNCHANGED <<type, min, max, data, honest, wire>>

Next == Write \/ Garble \/ Read

Spec == Init /\ [][Next]_vars

-----------------------------------------------------------------------------
\* A value that is written is read back, for every range of every type, also
\* when the range spans more than half of a signed type.
RoundTrip ==
    honest => /\ state # "rejected"
              /\ state = "read" => conv = data

\* No bit of a value is cut off, and no range takes more bits than its type.
FitsItsBits ==
    state = "sent" /\ honest => /\ wire = data - min
                                /\ wire < 2 ^ Bits

\* Whatever the bits are, a result within the range is the one they stand
\* for: no two of them are read as the same number.
ReadsWhatIsSent ==
    state = "read" /\ conv \in min .. max => conv = min + wire

\* What read() returns without failing is in the range it was given ("Minimum
\* value allowed for data", "Maximum value allowed for data").
ReadInRange == state = "read" => conv \in min .. max

\* The conversion of a value that was written is defined.
ConversionIsDefined == state = "sent" /\ honest => ~Undefined
=============================================================================
