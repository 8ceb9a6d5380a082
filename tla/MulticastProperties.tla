------------------------ MODULE MulticastProperties --------------------------
(***************************************************************************)
(* What makes sending shared payloads correct, over the model of Multicast.*)
(***************************************************************************)
EXTENDS Multicast

\* The caller that may still touch a payload: it owns it, or is setting up
\* the messages that will.
Works(c, p) == pc[c] \in {"owner", "setup"} /\ payload[c] = p

\* The messages that hold a counted reference to a payload.
Holders(p) == {m \in Messages : /\ msgState[m] \in {"attached", "queued", "rejected"}
                                /\ msgPayload[m] = p}

Freeing(p) == {m \in Messages : msgState[m] = "freeing" /\ msgPayload[m] = p}

-----------------------------------------------------------------------------
\* The reference count of an allocated payload is the number of messages that
\* hold it, whichever threads add and drop references meanwhile
\* (increase_ref_count, decrease_ref_count_and_deallocate_if_zero).
RefCountIsHolders ==
    \A p \in Payloads : live[p] => refCount[p] = Cardinality(Holders(p))

\* Nobody is left with a payload whose memory was freed: not the caller that
\* allocated it or is still looping over its connections, not a message that
\* was attached, queued or rejected, and not the thread about to free it.
NoDanglingReference ==
    \A p \in Payloads :
      (\/ \E c \in Callers : Works(c, p)
       \/ Holders(p) \cup Freeing(p) # {}) => live[p]

\* Memory that is allocated can still be reached: by the caller it belongs to
\* or by a message that will free it, also after empty multicasts and rejected
\* sends.
NoLeak ==
    \A p \in Payloads :
      live[p] => \/ \E c \in Callers : Works(c, p)
                 \/ Holders(p) \cup Freeing(p) # {}

\* The memory is not freed while a thread still reads it through a message
\* ("if this was the last reference, deallocate self").
NoReadAfterFree == \A m \in Messages : reading[m] # NoPayload => live[reading[m]]

\* What GNS is told to send lies within the memory allocated for the payload,
\* within what GNS accepts, and in whole words when a bit_stream_writer filled
\* it: the reader of the other side loads whole words.
SentSizeFits ==
    \A m \in Messages :
      msgState[m] \in {"attached", "queued"} =>
        LET p == msgPayload[m]
        IN  /\ msgSize[m] <= bytes[p]
            /\ msgSize[m] <= MaxSend
            /\ UsedBitStream(p) => msgSize[m] % WordBytes = 0

\* A payload that is being sent has its memory freed in the end, exactly as
\* "nalchi takes the ownership of the payload and releases it automatically".
SentIsFreed ==
    \A c \in Callers, p \in Payloads :
      (pc[c] = "setup" /\ payload[c] = p) ~> ~live[p]

-----------------------------------------------------------------------------
\* Multicast implements PayloadOwnership: the count stands for the messages
\* that carry a payload, and the user owns what a caller works on.
Ownership == INSTANCE PayloadOwnership WITH
    owner <- [p \in Payloads |->
                IF ~live[p] THEN "nobody"
                ELSE IF \E c \in Callers : Works(c, p) THEN "user" ELSE "messages"],
    carriers <- [p \in Payloads |-> Holders(p) \cup Freeing(p)]

\* Only the steps PayloadOwnership allows, seen through the mapping.
RefinesOwnership == Ownership!Spec
=============================================================================
