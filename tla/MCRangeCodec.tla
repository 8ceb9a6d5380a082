---------------------------- MODULE MCRangeCodec -----------------------------
(* Instances of RangeCodec for TLC. *)
EXTENDS RangeCodec

\* Signed and unsigned types of three bits and, narrow or not, of four.
MCTypes == [half : {4, 8}, signed : BOOLEAN, narrow : BOOLEAN]
=============================================================================
