---------------------------- MODULE SharedPayload ----------------------------
(***************************************************************************)
(* The heap of shared payloads (src/shared_payload.cpp).  A payload is one *)
(* malloc'ed block: a reference count, a 32-bit field that packs the       *)
(* requested size and the "bit stream used" flag, then the payload bytes.  *)
(* The operators below are the fragments of a step that read or change     *)
(* that block; the modules that EXTEND this one put them into actions.     *)
(***************************************************************************)
EXTENDS Integers

CONSTANTS Payloads,   \* the addresses malloc may return; a freed one is reused
          WordBytes,  \* sizeof(bit_stream_writer::word_type)
          MaxSend,    \* GNS_MAX_MSG_SEND_SIZE
          FlagMask    \* BIT_STREAM_USED_FLAG_MASK, the top bit of the size field

ASSUME WordBytesAssumption == WordBytes \in Nat \ {0}
\* 512 KiB: a whole number of words.
ASSUME MaxSendAssumption == MaxSend \in Nat /\ MaxSend % WordBytes = 0
\* The static_assert that the size field has room for the flag.
ASSUME FlagMaskAssumption == FlagMask \in Nat /\ MaxSend < FlagMask

VARIABLES live,       \* whether the block at an address is allocated
          bytes,      \* the payload bytes malloc gave the block
          sizeField,  \* the packed size and flag
          refCount    \* the atomic reference count

heapVars == <<live, bytes, sizeField, refCount>>

HeapTypeOK == /\ live \in [Payloads -> BOOLEAN]
              /\ bytes \in [Payloads -> Nat]
              /\ sizeField \in [Payloads -> Nat]
              /\ refCount \in [Payloads -> Int]

HeapInit == /\ live = [p \in Payloads |-> FALSE]
            /\ bytes = [p \in Payloads |-> 0]
            /\ sizeField = [p \in Payloads |-> 0]
            /\ refCount = [p \in Payloads |-> 0]

-----------------------------------------------------------------------------
\* Mutant: the padding is subtracted instead of added.
CeilToWordDown(n) == ((n - WordBytes - 1) \div WordBytes) * WordBytes

\* ceil_to_multiple_of<sizeof(word_type)>.
CeilToWord(n) == ((n + WordBytes - 1) \div WordBytes) * WordBytes

Size(p) == sizeField[p] % FlagMask

UsedBitStream(p) == sizeField[p] >= FlagMask

\* raw_field |= BIT_STREAM_USED_FLAG_MASK.
SetUsedBitStream(p) ==
    /\ sizeField' = [sizeField EXCEPT ![p] = Size(p) + FlagMask]
    /\ UNCHANGED <<live, bytes, refCount>>

\* The sizes allocate() accepts; for the others it returns a null payload.
CanAllocate(size) == 0 < size /\ size <= MaxSend

\* Mutant: the block is as long as was asked, not rounded up to words.
AllocateAtUnrounded(p, size) ==
    /\ CanAllocate(size)
    /\ ~live[p]
    /\ live' = [live EXCEPT ![p] = TRUE]
    /\ bytes' = [bytes EXCEPT ![p] = size]
    /\ sizeField' = [sizeField EXCEPT ![p] = size]
    /\ refCount' = [refCount EXCEPT ![p] = 0]

\* malloc returns an address that is free.  (When it returns null nothing
\* changes.)
AllocateAt(p, size) ==
    /\ CanAllocate(size)
    /\ ~live[p]
    /\ live' = [live EXCEPT ![p] = TRUE]
    /\ bytes' = [bytes EXCEPT ![p] = CeilToWord(size)]
    /\ sizeField' = [sizeField EXCEPT ![p] = size]
    /\ refCount' = [refCount EXCEPT ![p] = 0]

\* What the block held is left behind by free().
ForceDeallocate(p) ==
    /\ live' = [live EXCEPT ![p] = FALSE]
    /\ UNCHANGED <<bytes, sizeField, refCount>>

\* Mutant: the flag of the payload is not looked at.
SendSizeUnrounded(p, length) == length

\* Mutant: a size of whole words is given another word.
SendSizePast(p, length) == IF UsedBitStream(p)
                           THEN (length \div WordBytes + 1) * WordBytes ELSE length

\* The bytes a message sends of a payload it is added to.
SendSize(p, length) == IF UsedBitStream(p) THEN CeilToWord(length) ELSE length

\* Mutant: the count is stored, not incremented.
StoreRefCount(p) ==
    /\ refCount' = [refCount EXCEPT ![p] = 1]
    /\ UNCHANGED <<live, bytes, sizeField>>

IncreaseRefCount(p) ==
    /\ refCount' = [refCount EXCEPT ![p] = @ + 1]
    /\ UNCHANGED <<live, bytes, sizeField>>

\* fetch_sub returns the value before the subtraction.
DecreaseRefCount(p) ==
    /\ refCount' = [refCount EXCEPT ![p] = @ - 1]
    /\ UNCHANGED <<live, bytes, sizeField>>

\* Mutant: any release frees the payload.
WasAnyReference(p) == refCount[p] >= 1

\* Mutant: the value fetch_sub returns is taken for the one it leaves.
HadNoReference(p) == refCount[p] = 0

WasLastReference(p) == refCount[p] = 1
=============================================================================
