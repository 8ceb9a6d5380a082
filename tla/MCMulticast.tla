---------------------------- MODULE MCMulticast ------------------------------
(* Instances of Multicast for TLC. *)
EXTENDS MulticastProperties

\* A request of no bytes, one that is not whole words, and one above MaxSend.
MCRequestSizes == {0, MaxSend - 1, MaxSend + 1}

\* A length that is rounded up to as many words as are allocated.
MCLengths == {MaxSend - 1}
=============================================================================
