------------------------------ MODULE BitSource ------------------------------
(***************************************************************************)
(* What a bit_stream_reader promises, without scratch register or words:   *)
(* it gives out the bits of a fixed content, in order, each once, and none *)
(* past its limit.  A read in pieces is sure of all of them when it starts.*)
(* A read that fails may have used up its first bits, and ends the stream. *)
(***************************************************************************)
EXTENDS Integers, Sequences

VARIABLES content,  \* the bits there are
          limit,    \* how many of them may be given out
          given,    \* the bits that were given out
          reserved, \* the bits the read in progress will still take
          failed

vars == <<content, limit, given, reserved, failed>>

Init == /\ content = <<>> /\ limit = 0 /\ given = <<>> /\ reserved = 0
        /\ failed = TRUE

\* The stream starts over.
Start == reserved = 0 /\ reserved' = 0 /\ given' = <<>>

\* Over the same content: a content too short for the limit cannot be used.
Rewind == /\ Start
          /\ failed' \in BOOLEAN
          /\ failed' \/ limit <= Len(content)
          /\ UNCHANGED <<content, limit>>

Open == /\ Start
        /\ limit' \in Nat
        /\ failed' \in BOOLEAN
        /\ failed' \/ limit' <= Len(content')

Gives == /\ Len(given') >= Len(given)
         /\ given' = SubSeq(content, 1, Len(given'))
         /\ Len(given') + reserved' <= limit
         /\ UNCHANGED <<content, limit>>

Begin == reserved = 0 /\ ~failed /\ reserved' \in Nat /\ ~failed' /\ Gives

Continue == /\ reserved > 0 /\ ~failed /\ ~failed'
            /\ reserved' \in Nat
            /\ Len(given') + reserved' = Len(given) + reserved
            /\ Gives

\* A refused read, or a failure the user asked for.
Fail == /\ reserved = 0 /\ reserved' = 0
        /\ failed'
        /\ \/ UNCHANGED given
           \/ ~failed /\ Gives
        /\ UNCHANGED <<content, limit>>

Next == Rewind \/ Open \/ Begin \/ Continue \/ Fail

Spec == Init /\ [][Next]_vars
=============================================================================
