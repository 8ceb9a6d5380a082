------------------------------ MODULE Multicast ------------------------------
(***************************************************************************)
(* The life of a shared payload from allocate() to free(): threads of the  *)
(* program allocate a payload, may fill it through a bit_stream_writer,    *)
(* and either force_deallocate it or send it with unicast() or             *)
(* multicast().  A send attaches the payload to one message per            *)
(* connection and hands the messages to SendMessages of                    *)
(* GameNetworkingSockets (GNS, external).  GNS and the receivers read each *)
(* queued message and release it on threads of their own; the callback of  *)
(* a message drops one reference, and the last one frees the payload.      *)
(***************************************************************************)
EXTENDS SharedPayload, FiniteSets

CONSTANTS Callers,       \* threads that send payloads
          MaxMessages,   \* bound: messages a caller may have in flight
          RequestSizes,  \* sizes callers ask allocate() for
          Lengths,       \* values of logical_bytes_length
          NoPayload,     \* the null pointer
          WeakMemory     \* TRUE: loads may complete after a relaxed fetch_sub

ASSUME CallersAssumption == IsFiniteSet(Callers)
ASSUME MaxMessagesAssumption == MaxMessages \in Nat
ASSUME RequestSizesAssumption == RequestSizes \subseteq Nat
ASSUME LengthsAssumption == Lengths \subseteq Nat
ASSUME NoPayloadAssumption == NoPayload \notin Payloads
ASSUME WeakMemoryAssumption == WeakMemory \in BOOLEAN

\* The messages AllocateMessage() may return to each caller.
Messages == Callers \X (1 .. MaxMessages)

VARIABLES pc,          \* where each caller is
          payload,     \* the payload each caller works on
          todo,        \* connections the loop of multicast has yet to set up
          length,      \* logical_bytes_length of the call
          msgState,    \* where each message is
          msgPayload,  \* m_pData
          msgSize,     \* m_cbSize
          reading      \* the address a thread is reading through the message

callVars == <<pc, payload, todo, length>>
msgVars == <<msgState, msgPayload, msgSize, reading>>
vars == <<heapVars, callVars, msgVars>>

PC == {"idle", "owner", "setup", "sending"}
MsgState == {"free", "attached", "queued", "rejected", "freeing"}

TypeOK ==
    /\ HeapTypeOK
    /\ pc \in [Callers -> PC]
    /\ payload \in [Callers -> Payloads \cup {NoPayload}]
    /\ todo \in [Callers -> Int]
    /\ length \in [Callers -> Nat]
    /\ msgState \in [Messages -> MsgState]
    /\ msgPayload \in [Messages -> Payloads \cup {NoPayload}]
    /\ msgSize \in [Messages -> Nat]
    /\ reading \in [Messages -> Payloads \cup {NoPayload}]

Init ==
    /\ HeapInit
    /\ pc = [c \in Callers |-> "idle"]
    /\ todo = [c \in Callers |-> 0]
    /\ length = [c \in Callers |-> 0]
    /\ payload = [c \in Callers |-> NoPayload]
    /\ msgPayload = [m \in Messages |-> NoPayload]
    /\ msgState = [m \in Messages |-> "free"]
    /\ msgSize = [m \in Messages |-> 0]
    /\ reading = [m \in Messages |-> NoPayload]

MessagesOf(c) == {m \in Messages : m[1] = c}

\* A message that was released may be handed out again.
FreeMessages(c) == {m \in MessagesOf(c) : msgState[m] = "free" /\ reading[m] = NoPayload}

-----------------------------------------------------------------------------
(* The program. *)

\* The caller has given its payload up and forgets it.
Done(c) ==
    /\ pc' = [pc EXCEPT ![c] = "idle"]
    /\ payload' = [payload EXCEPT ![c] = NoPayload]
    /\ todo' = [todo EXCEPT ![c] = 0]
    /\ length' = [length EXCEPT ![c] = 0]

Allocate(c) ==
    /\ pc[c] = "idle"
    /\ \E p \in Payloads, size \in RequestSizes :
         /\ AllocateAt(p, size)
         /\ payload' = [payload EXCEPT ![c] = p]
    /\ pc' = [pc EXCEPT ![c] = "owner"]
    /\ UNCHANGED <<todo, length, msgVars>>

\* bit_stream_writer is constructed over the payload.
UseBitStream(c) ==
    /\ pc[c] = "owner"
    /\ SetUsedBitStream(payload[c])
    /\ UNCHANGED <<callVars, msgVars>>

\* The program gives the payload up without sending it.
Discard(c) ==
    /\ pc[c] = "owner"
    /\ ForceDeallocate(payload[c])
    /\ Done(c)
    /\ UNCHANGED msgVars

\* A call to send at most what was allocated, on n connections.
StartSend(c, n) ==
    /\ n <= Cardinality(FreeMessages(c))    \* bound MaxMessages
    /\ \E l \in Lengths : /\ l <= Size(payload[c])
                          /\ length' = [length EXCEPT ![c] = l]
    /\ pc' = [pc EXCEPT ![c] = "setup"]
    /\ todo' = [todo EXCEPT ![c] = n]
    /\ UNCHANGED <<payload, heapVars, msgVars>>

Unicast(c) ==
    /\ pc[c] = "owner"
    /\ StartSend(c, 1)

\* Mutant: a payload that goes to nobody is forgotten.
MulticastToNobodyForgets(c) ==
    /\ Done(c)
    /\ UNCHANGED <<heapVars, msgVars>>

\* Mutant: a payload that went to nobody is still used.
MulticastToNobodyKeeps(c) ==
    /\ ForceDeallocate(payload[c])
    /\ UNCHANGED <<callVars, msgVars>>

MulticastToNobody(c) ==
    /\ ForceDeallocate(payload[c])
    /\ Done(c)
    /\ UNCHANGED msgVars

Multicast(c) ==
    /\ pc[c] = "owner"
    /\ \E n \in 0 .. MaxMessages : IF n = 0 THEN MulticastToNobody(c)
                                            ELSE StartSend(c, n)

\* shared_payload::add_to_message.
AddToMessage(p, m, l) ==
    /\ IncreaseRefCount(p)
    /\ msgPayload' = [msgPayload EXCEPT ![m] = p]
    /\ msgSize' = [msgSize EXCEPT ![m] = SendSize(p, l)]

\* Mutant: each iteration sends the message it has set up.
SetupAndSendMessage(c) ==
    /\ pc[c] = "setup"
    /\ \E m \in FreeMessages(c) :
         /\ AddToMessage(payload[c], m, length[c])
         /\ msgState' = [msgState EXCEPT ![m] = "queued"]
    /\ todo' = [todo EXCEPT ![c] = @ - 1]
    /\ pc' = [pc EXCEPT ![c] = IF todo[c] = 1 THEN "sending" ELSE "setup"]
    /\ UNCHANGED <<payload, length, reading>>

\* One iteration of the loop over the connections; the last one goes on to
\* SendMessages.
SetupMessage(c) ==
    /\ pc[c] = "setup"
    /\ \E m \in FreeMessages(c) :
         /\ AddToMessage(payload[c], m, length[c])
         /\ msgState' = [msgState EXCEPT ![m] = "attached"]
    /\ todo' = [todo EXCEPT ![c] = @ - 1]
    /\ pc' = [pc EXCEPT ![c] = IF todo[c] = 1 THEN "sending" ELSE "setup"]
    /\ UNCHANGED <<payload, length, reading>>

-----------------------------------------------------------------------------
(* GNS (external). *)

\* SendMessages queues a message on its connection, or rejects it: it takes
\* ownership of both.
Submit(m) ==
    /\ pc[m[1]] = "sending"
    /\ msgState[m] = "attached"
    /\ \E s \in {"queued", "rejected"} :
         msgState' = [msgState EXCEPT ![m] = s]
    /\ UNCHANGED <<heapVars, callVars, msgPayload, msgSize, reading>>

\* SendMessages returns when no message of the call is left to submit, and
\* those it rejected are released.
SendReturns(c) ==
    /\ pc[c] = "sending"
    /\ \A m \in MessagesOf(c) : msgState[m] \notin {"attached", "rejected"}
    /\ Done(c)
    /\ UNCHANGED <<heapVars, msgVars>>

\* The sender's and the receivers' threads read a queued message's data.
BeginRead(m) ==
    /\ msgState[m] = "queued"
    /\ reading[m] = NoPayload
    /\ reading' = [reading EXCEPT ![m] = msgPayload[m]]
    /\ UNCHANGED <<heapVars, callVars, msgState, msgPayload, msgSize>>

EndRead(m) ==
    /\ reading[m] # NoPayload
    /\ reading' = [reading EXCEPT ![m] = NoPayload]
    /\ UNCHANGED <<heapVars, callVars, msgState, msgPayload, msgSize>>

-----------------------------------------------------------------------------
(* m_pfnFreeData, called on whatever thread releases the message. *)

\* The callback has returned and GNS destroys the message.
Recycle(m) ==
    /\ msgState' = [msgState EXCEPT ![m] = "free"]
    /\ msgPayload' = [msgPayload EXCEPT ![m] = NoPayload]
    /\ msgSize' = [msgSize EXCEPT ![m] = 0]

\* The fetch_sub is relaxed: on weakly ordered hardware it may take effect
\* before the loads the thread issued earlier have completed.
DropReference(m) ==
    /\ msgState[m] \in {"queued", "rejected"}
    /\ reading[m] = NoPayload \/ WeakMemory
    /\ DecreaseRefCount(msgPayload[m])
    /\ IF WasLastReference(msgPayload[m])
       THEN /\ msgState' = [msgState EXCEPT ![m] = "freeing"]
            /\ UNCHANGED <<msgPayload, msgSize>>
       ELSE Recycle(m)
    /\ UNCHANGED <<callVars, reading>>

\* The thread that dropped the last reference frees the payload; its own loads
\* come before that in any memory model.
DeallocateLast(m) ==
    /\ msgState[m] = "freeing"
    /\ reading[m] = NoPayload
    /\ ForceDeallocate(msgPayload[m])
    /\ Recycle(m)
    /\ UNCHANGED <<callVars, reading>>

-----------------------------------------------------------------------------
CallerStep(c) == \/ Allocate(c)
                 \/ UseBitStream(c)
                 \/ Discard(c)
                 \/ Unicast(c)
                 \/ Multicast(c)
                 \/ SetupMessage(c)
                 \/ SendReturns(c)

MessageStep(m) == \/ Submit(m)
                  \/ BeginRead(m)
                  \/ EndRead(m)
                  \/ DropReference(m)
                  \/ DeallocateLast(m)

Next == \/ \E c \in Callers : CallerStep(c)
        \/ \E m \in Messages : MessageStep(m)

Spec == Init /\ [][Next]_vars

\* A thread inside unicast() or multicast() runs on, GNS submits what it was
\* given and releases in the end every message it took (sent, or its
\* connection closed), and a callback that started runs to its end.  Nothing
\* obliges the program to allocate, or to send what it allocated.
Fairness ==
    /\ \A c \in Callers : /\ WF_vars(SetupMessage(c))
                          /\ WF_vars(SendReturns(c))
    /\ \A m \in Messages : /\ WF_vars(Submit(m))
                           /\ WF_vars(EndRead(m))
                           /\ SF_vars(DropReference(m))
                           /\ WF_vars(DeallocateLast(m))

FairSpec == Spec /\ Fairness
=============================================================================
