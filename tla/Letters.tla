------------------------------- MODULE Letters -------------------------------
(***************************************************************************)
(* What the library promises end to end, without bits, words or messages:  *)
(* a sequence of items that is written, closed and sent arrives whole, and *)
(* the receiver reads its items in order, each as it was written.  A letter*)
(* that is sent without being closed may lose its last items, and any      *)
(* letter may be lost, or thrown away, altogether.                         *)
(***************************************************************************)
EXTENDS Sequences, Naturals

VARIABLES draft,   \* the items written so far
          closed,  \* whether flush_final was called
          arrived, \* whether the letter is with the receiver
          mail,    \* the items that arrived
          got      \* the items the receiver has read

vars == <<draft, closed, arrived, mail, got>>

Init == /\ draft = <<>> /\ mail = <<>> /\ got = <<>>
        /\ closed = FALSE /\ arrived = FALSE

Extends(longer, shorter) ==
    /\ Len(longer) = Len(shorter) + 1
    /\ SubSeq(longer, 1, Len(shorter)) = shorter

Compose == /\ ~closed /\ ~arrived
           /\ Extends(draft', draft)
           /\ UNCHANGED <<closed, arrived, mail, got>>

Close == /\ ~arrived
         /\ closed' = TRUE
         /\ UNCHANGED <<draft, arrived, mail, got>>

Arrive == /\ ~arrived /\ arrived'
          /\ \E n \in 0 .. Len(draft) : /\ closed => n = Len(draft)
                                        /\ mail' = SubSeq(draft, 1, n)
          /\ UNCHANGED <<draft, closed, got>>

Read == /\ Len(got) < Len(mail)
        /\ got' = Append(got, mail[Len(got) + 1])
        /\ UNCHANGED <<draft, closed, arrived, mail>>

\* The next letter; also the same one, written again before it is sent.
StartOver == /\ draft' = <<>> /\ mail' = <<>> /\ got' = <<>>
             /\ closed' = FALSE /\ arrived' = FALSE

Next == Compose \/ Close \/ Arrive \/ Read \/ StartOver

Spec == Init /\ [][Next]_vars
=============================================================================
