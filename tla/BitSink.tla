------------------------------- MODULE BitSink -------------------------------
(***************************************************************************)
(* What a bit_stream_writer promises, without scratch register or words: a *)
(* sequence of bits that only grows by what is written, never past its     *)
(* capacity.  A write happens as a whole or not at all: one that goes on   *)
(* in pieces has its room reserved when it starts, and cannot fail midway. *)
(***************************************************************************)
EXTENDS Integers, Sequences

CONSTANT Values  \* what a step may append

VARIABLES stream,    \* the bits written so far
          capacity,  \* the bits it may hold
          reserved,  \* the bits the write in progress has still to append
          failed,
          closed

vars == <<stream, capacity, reserved, failed, closed>>

Init == /\ stream = <<>> /\ capacity = 0 /\ reserved = 0
        /\ failed = TRUE /\ closed = FALSE

\* The stream starts over, on the same buffer or on another.
Open == /\ reserved = 0
        /\ stream' = <<>>
        /\ closed' = FALSE
        /\ capacity' \in Nat
        /\ failed' \in BOOLEAN
        /\ UNCHANGED reserved

Fail == /\ reserved = 0
        /\ failed' = TRUE
        /\ UNCHANGED <<stream, capacity, reserved, closed>>

Appends == /\ Len(stream') >= Len(stream)
           /\ SubSeq(stream', 1, Len(stream)) = stream
           /\ SubSeq(stream', Len(stream) + 1, Len(stream')) \in Values

\* A write appends its first bits, and reserves room for the rest.
Begin == /\ reserved = 0 /\ ~failed /\ ~closed
         /\ Appends
         /\ reserved' \in 0 .. capacity - Len(stream')
         /\ UNCHANGED <<capacity, failed, closed>>

Continue == /\ Appends
            /\ reserved' \in Nat
            /\ Len(stream') + reserved' = Len(stream) + reserved
            /\ UNCHANGED <<capacity, failed, closed>>

Close == /\ reserved = 0 /\ ~failed
         /\ closed' = TRUE
         /\ UNCHANGED <<stream, capacity, reserved, failed>>

Next == Open \/ Fail \/ Begin \/ Continue \/ Close

Spec == Init /\ [][Next]_vars
=============================================================================
