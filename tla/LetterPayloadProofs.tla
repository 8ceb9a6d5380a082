------------------------- MODULE LetterPayloadProofs --------------------------
(***************************************************************************)
(* Theorems about the payloads of letters: what is proved about Multicast  *)
(* holds of them, so that each is there as long as its letter needs it and *)
(* no longer.                                                              *)
(***************************************************************************)
EXTENDS TransportProperties, TLAPS

\* Multicast, with its theorems.
SP == INSTANCE MulticastProofs WITH Callers <- {Sender}, RequestSizes <- 0 .. MaxSend,
                                    Lengths <- 0 .. MaxSend, WeakMemory <- FALSE

\* What Multicast assumes of its constants.
LEMMA MulticastAssumed ==
    /\ WordBytes \in Nat \ {0}
    /\ MaxSend \in Nat /\ (MaxSend % WordBytes) = 0
    /\ FlagMask \in Nat /\ MaxSend < FlagMask
    /\ SP!IsFiniteSet({Sender}) /\ MaxMessages \in Nat
    /\ 0 .. MaxSend \subseteq Nat
    /\ NoPayload \notin Payloads
    /\ FALSE \in BOOLEAN
  <1>1. SP!IsFiniteSet({Sender})
    <2>1. /\ <<Sender>> \in Seq({Sender}) /\ 1 \in 1 .. Len(<<Sender>>)
          /\ <<Sender>>[1] = Sender
      OBVIOUS
    <2>2. QED
      BY <2>1 DEF SP!IsFiniteSet
  <1>2. QED
    BY <1>1, SendAssumption DEF WordBytes

\* The definitions of the two instances agree.
LEMMA SameHeap ==
    /\ S!Messages = SP!Messages
    /\ S!heapVars = SP!heapVars /\ S!heapVars' = SP!heapVars'
    /\ S!callVars = SP!callVars /\ S!callVars' = SP!callVars'
    /\ S!msgVars = SP!msgVars /\ S!msgVars' = SP!msgVars'
    /\ \A p : S!Size(p) = SP!Size(p)
    /\ \A p, size : S!AllocateAt(p, size) = SP!AllocateAt(p, size)
    /\ \A p : S!ForceDeallocate(p) = SP!ForceDeallocate(p)
    /\ \A c : S!Done(c) = SP!Done(c)
    /\ \A c : S!FreeMessages(c) = SP!FreeMessages(c)
    /\ \A p, m, l : S!AddToMessage(p, m, l) = SP!AddToMessage(p, m, l)
  BY DEF S!Messages, SP!Messages, S!heapVars, SP!heapVars, S!callVars, SP!callVars,
         S!msgVars, SP!msgVars, S!Size, SP!Size, S!AllocateAt, SP!AllocateAt,
         S!CanAllocate, SP!CanAllocate, S!CeilToWord, SP!CeilToWord,
         S!ForceDeallocate, SP!ForceDeallocate, S!Done, SP!Done,
         S!FreeMessages, SP!FreeMessages, S!MessagesOf, SP!MessagesOf,
         S!AddToMessage, SP!AddToMessage, S!IncreaseRefCount, SP!IncreaseRefCount,
         S!SendSize, SP!SendSize, S!UsedBitStream, SP!UsedBitStream

LEMMA SameCalls ==
    /\ S!Init => SP!Init
    /\ \A c : S!Allocate(c) => SP!Allocate(c)
    /\ \A c : S!UseBitStream(c) => SP!UseBitStream(c)
    /\ \A c : S!Discard(c) => SP!Discard(c)
    /\ \A c : S!Unicast(c) => SP!Unicast(c)
    /\ \A c : S!Multicast(c) => SP!Multicast(c)
    /\ \A c : S!SetupMessage(c) => SP!SetupMessage(c)
    /\ \A c : S!SendReturns(c) => SP!SendReturns(c)
  <1>1. S!Init => SP!Init
    BY SameHeap DEF S!Init, SP!Init, S!HeapInit, SP!HeapInit
  <1>2. \A c : S!Allocate(c) => SP!Allocate(c)
    BY SameHeap DEF S!Allocate, SP!Allocate
  <1>3. \A c : S!UseBitStream(c) => SP!UseBitStream(c)
    BY SameHeap DEF S!UseBitStream, SP!UseBitStream, S!SetUsedBitStream,
                    SP!SetUsedBitStream
  <1>4. \A c : S!Discard(c) => SP!Discard(c)
    BY SameHeap DEF S!Discard, SP!Discard
  <1>5. \A c, n : S!StartSend(c, n) => SP!StartSend(c, n)
    <2>1. \A X : S!Cardinality(X) = SP!Cardinality(X)
      BY DEF S!Cardinality, SP!Cardinality, S!IsFiniteSet, SP!IsFiniteSet
    <2>2. QED
      BY <2>1, SameHeap DEF S!StartSend, SP!StartSend
  <1>6. \A c : S!Unicast(c) => SP!Unicast(c)
    BY <1>5 DEF S!Unicast, SP!Unicast
  <1>7. \A c : S!MulticastToNobody(c) => SP!MulticastToNobody(c)
    BY SameHeap DEF S!MulticastToNobody, SP!MulticastToNobody
  <1>8. \A c : S!Multicast(c) => SP!Multicast(c)
    BY <1>5, <1>7 DEF S!Multicast, SP!Multicast
  <1>9. \A c : S!SetupMessage(c) => SP!SetupMessage(c)
    BY SameHeap DEF S!SetupMessage, SP!SetupMessage
  <1>10. \A c : S!SendReturns(c) => SP!SendReturns(c)
    BY SameHeap DEF S!SendReturns, SP!SendReturns, S!MessagesOf, SP!MessagesOf,
                    S!Messages, SP!Messages
  <1>11. QED
    BY <1>1, <1>2, <1>3, <1>4, <1>6, <1>8, <1>9, <1>10

LEMMA SameMessages ==
    \A m : /\ S!Submit(m) => SP!Submit(m)
           /\ S!BeginRead(m) => SP!BeginRead(m)
           /\ S!EndRead(m) => SP!EndRead(m)
           /\ S!DropReference(m) => SP!DropReference(m)
           /\ S!DeallocateLast(m) => SP!DeallocateLast(m)
  <1> TAKE m
  <1>1. S!Recycle(m) = SP!Recycle(m)
    BY DEF S!Recycle, SP!Recycle
  <1>2. S!Submit(m) => SP!Submit(m)
    BY SameHeap DEF S!Submit, SP!Submit
  <1>3. S!BeginRead(m) => SP!BeginRead(m)
    BY SameHeap DEF S!BeginRead, SP!BeginRead
  <1>4. S!EndRead(m) => SP!EndRead(m)
    BY SameHeap DEF S!EndRead, SP!EndRead
  <1>5. S!DropReference(m) => SP!DropReference(m)
    BY <1>1, SameHeap DEF S!DropReference, SP!DropReference, S!DecreaseRefCount,
                          SP!DecreaseRefCount, S!WasLastReference, SP!WasLastReference
  <1>6. S!DeallocateLast(m) => SP!DeallocateLast(m)
    BY <1>1, SameHeap DEF S!DeallocateLast, SP!DeallocateLast
  <1>7. QED
    BY <1>2, <1>3, <1>4, <1>5, <1>6

\* Every step of a letter's journey is one of Multicast, or leaves it alone.
LEMMA MulticastSteps ==
    ASSUME [TransportNext]_transportVars
    PROVE  [SP!Next]_SP!vars
  <1>1. UNCHANGED netVars => UNCHANGED SP!vars
    BY DEF netVars, SP!vars, SP!heapVars, SP!callVars, SP!msgVars
  <1>2. \A c \in {Sender} : SP!CallerStep(c) => SP!Next
    BY DEF SP!Next
  <1>3. \A m \in S!Messages : SP!MessageStep(m) => SP!Next
    BY SameHeap DEF SP!Next
  <1>4. CASE Allocate \/ OpenWriter \/ Send \/ Discard
    <2>1. \/ S!Allocate(Sender) \/ S!UseBitStream(Sender) \/ S!Unicast(Sender)
          \/ S!Multicast(Sender) \/ S!Discard(Sender)
      BY <1>4 DEF Allocate, OpenWriter, Send, Discard
    <2>2. SP!CallerStep(Sender)
      BY <2>1, SameCalls DEF SP!CallerStep
    <2>3. QED
      BY <1>2, <2>2
  <1>5. CASE NetworkStep \/ \E m \in S!Messages : Deliver(m)
    <2>1. CASE S!SetupMessage(Sender) \/ S!SendReturns(Sender)
      <3>1. SP!CallerStep(Sender)
        BY <2>1, SameCalls DEF SP!CallerStep
      <3>2. QED
        BY <1>2, <3>1
    <2>2. CASE \E m \in S!Messages : \/ S!Submit(m) \/ S!BeginRead(m) \/ S!EndRead(m)
                                     \/ S!DropReference(m) \/ S!DeallocateLast(m)
      <3>1. PICK m \in S!Messages : \/ S!Submit(m) \/ S!BeginRead(m) \/ S!EndRead(m)
                                    \/ S!DropReference(m) \/ S!DeallocateLast(m)
        BY <2>2
      <3>2. SP!MessageStep(m)
        BY <3>1, SameMessages DEF SP!MessageStep
      <3>3. QED
        BY <1>3, <3>2
    <2>3. QED
      BY <1>5, <2>1, <2>2 DEF NetworkStep, Deliver
  <1>6. CASE \/ (\E call \in Call : PlanCall(call)) \/ GiveUp \/ Lost \/ Receive
             \/ WritePlanned \/ WriteUnmeasured \/ WriteLoop \/ Flush \/ Rewrite
             \/ ReadCall \/ Peek \/ ReadOn \/ NextLetter
    BY <1>1, <1>6 DEF PlanCall, GiveUp, Lost, Receive, WritePlanned, WriteUnmeasured,
                      WriteLoop, Flush, Rewrite, Writing, ReadCall, Peek, ReadOn,
                      Reading, NextLetter
  <1>7. CASE UNCHANGED transportVars
    BY <1>1, <1>7 DEF transportVars
  <1>8. QED
    BY <1>4, <1>5, <1>6, <1>7 DEF TransportNext

\* What a program that uses the whole library does with a payload is what Multicast
\* allows, for any number of connections, of messages and of addresses of
\* payloads: all that is proved about Multicast holds of the letters.
THEOREM ImplementsMulticast == TransportSpec => SP!Spec
  <1>1. TransportInit => SP!Init
    BY SameCalls DEF TransportInit
  <1>2. [TransportNext]_transportVars => [SP!Next]_SP!vars
    BY MulticastSteps
  <1>3. QED
    BY <1>1, <1>2, PTL DEF TransportSpec, SP!Spec

\* While letters are written, sent, lost and read, the count of a payload is that
\* of the messages that hold it, nobody holds memory that was freed, no memory
\* is out of reach, and no message sends more than its payload.
THEOREM LetterPayloadsSafe ==
    TransportSpec => /\ []SP!RefCountIsHolders
                     /\ []SP!NoDanglingReference
                     /\ []SP!NoLeak
                     /\ []SP!SentSizeFits
  <1>1. SP!Spec => []SP!RefCountIsHolders
    BY MulticastAssumed, SP!RefCountCorrect
  <1>2. SP!Spec => []SP!NoDanglingReference
    BY MulticastAssumed, SP!NeverDangling
  <1>3. SP!Spec => []SP!NoLeak
    BY MulticastAssumed, SP!NeverLeaks
  <1>4. SP!Spec => []SP!SentSizeFits
    BY MulticastAssumed, SP!SentSizesFit
  <1>5. QED
    BY <1>1, <1>2, <1>3, <1>4, ImplementsMulticast, PTL

-----------------------------------------------------------------------------
(* The payload of the letter that is being written.                          *)

\* What the sender holds at each stage of the letter.
StageInv ==
    /\ phase \in Phases
    /\ phase # "sent" => \A m \in S!Messages : msgState[m] = "free"
    /\ phase \in {"open", "write"} => pc[Sender] = "owner"
    /\ phase \in {"plan", "read", "over"} => pc[Sender] = "idle"

LEMMA StageStep ==
    ASSUME SP!TypeOK, StageInv, [TransportNext]_transportVars
    PROVE  StageInv'
  <1>1. pc \in [{Sender} -> SP!PC] /\ phase \in Phases
    BY DEF SP!TypeOK, StageInv
  <1>2. CASE Allocate
    <2>1. /\ phase = "plan" /\ phase' = "open" /\ UNCHANGED msgState
          /\ pc' = [pc EXCEPT ![Sender] = "owner"]
      BY <1>2 DEF Allocate, S!Allocate, S!msgVars
    <2>2. QED
      BY <1>1, <2>1 DEF StageInv, Phases
  <1>3. CASE OpenWriter
    <2>1. /\ phase = "open" /\ phase' = "write" /\ UNCHANGED <<msgState, pc>>
      BY <1>3 DEF OpenWriter, S!UseBitStream, S!msgVars, S!callVars
    <2>2. QED
      BY <2>1 DEF StageInv, Phases
  <1>4. CASE Discard
    <2>1. /\ phase \in {"open", "write"} /\ phase' = "over" /\ UNCHANGED msgState
          /\ pc' = [pc EXCEPT ![Sender] = "idle"]
      BY <1>4 DEF Discard, S!Discard, S!Done, S!msgVars
    <2>2. QED
      BY <1>1, <2>1 DEF StageInv, Phases
  <1>5. CASE Send \/ NetworkStep \/ \E m \in S!Messages : Deliver(m)
    <2>1. phase' = "sent"
      BY <1>5 DEF Send, NetworkStep, Deliver, letterVars
    <2>2. QED
      BY <2>1 DEF StageInv, Phases
  <1>6. CASE Lost \/ Receive
    <2>1. /\ Settled /\ phase' \in {"over", "read"} /\ UNCHANGED <<msgState, pc>>
      BY <1>6 DEF Lost, Receive, netVars
    <2>2. QED
      BY <2>1 DEF StageInv, Phases, Settled
  <1>7. CASE \/ (\E call \in Call : PlanCall(call)) \/ GiveUp \/ NextLetter
    <2>1. /\ phase \in {"plan", "over", "read"} /\ phase' \in {"plan", "over"}
          /\ UNCHANGED <<msgState, pc>>
      BY <1>7 DEF PlanCall, GiveUp, NextLetter, netVars
    <2>2. QED
      BY <2>1 DEF StageInv, Phases
  <1>8. CASE \/ WritePlanned \/ WriteUnmeasured \/ WriteLoop \/ Flush \/ Rewrite
             \/ ReadCall \/ Peek \/ ReadOn \/ UNCHANGED transportVars
    <2>1. UNCHANGED <<phase, msgState, pc>>
      BY <1>8 DEF WritePlanned, WriteUnmeasured, WriteLoop, Flush, Rewrite, Writing,
                  ReadCall, Peek, ReadOn, Reading, transportVars, netVars, letterVars
    <2>2. QED
      BY <2>1 DEF StageInv
  <1>9. QED
    BY <1>2, <1>3, <1>4, <1>5, <1>6, <1>7, <1>8 DEF TransportNext

LEMMA StageInductive == TransportSpec => [](SP!IInv /\ StageInv)
  <1>1. TransportInit => SP!IInv /\ StageInv
    <2> SUFFICES ASSUME TransportInit PROVE SP!IInv /\ StageInv
      OBVIOUS
    <2>1. SP!IInv
      BY MulticastAssumed, SameCalls, SP!InvInit DEF TransportInit
    <2>2. StageInv
      BY DEF TransportInit, S!Init, StageInv, Phases
    <2>3. QED
      BY <2>1, <2>2
  <1>2. SP!IInv /\ StageInv /\ [TransportNext]_transportVars => (SP!IInv /\ StageInv)'
    <2> SUFFICES ASSUME SP!IInv, StageInv, [TransportNext]_transportVars
                 PROVE  SP!IInv' /\ StageInv'
      OBVIOUS
    <2>1. [SP!Next]_SP!vars
      BY MulticastSteps
    <2>2. SP!IInv'
      BY <2>1, MulticastAssumed, SP!InvStep
    <2>3. StageInv'
      BY StageStep DEF SP!IInv
    <2>4. QED
      BY <2>2, <2>3
  <1>3. QED
    BY <1>1, <1>2, PTL DEF TransportSpec

\* While a letter is written its payload, and no other, is allocated; none is once
\* it was discarded, or all of its messages were released.
PayloadIsTheLetters ==
    /\ phase \in {"open", "write"} =>
         \A p \in Payloads : live[p] <=> p = payload[Sender]
    /\ phase \in {"plan", "read", "over"} => \A p \in Payloads : ~live[p]

\* A letter leaves no payload behind, whether it was discarded, multicast to
\* nobody, rejected, lost or received, and to however many connections it went.
THEOREM PayloadIsTheLettersCorrect == TransportSpec => []PayloadIsTheLetters
  <1>1. SP!IInv /\ StageInv => PayloadIsTheLetters
    <2> SUFFICES ASSUME SP!IInv, StageInv PROVE PayloadIsTheLetters
      OBVIOUS
    <2>1. ASSUME phase # "sent", NEW p \in Payloads, live[p]
          PROVE  pc[Sender] \in {"owner", "setup"} /\ payload[Sender] = p
      <3>1. \A m \in SP!Messages : msgState[m] = "free"
        BY <2>1, SameHeap DEF StageInv
      <3>2. \E c \in {Sender} : SP!Works(c, p)
        BY <2>1, <3>1 DEF SP!IInv, SP!ReachableInv
      <3>3. QED
        BY <3>2 DEF SP!Works
    <2>2. CASE phase \in {"open", "write"}
      <3>1. pc[Sender] = "owner"
        BY <2>2 DEF StageInv
      <3>2. live[payload[Sender]]
        BY <3>1 DEF SP!IInv, SP!CallersInv
      <3>3. \A p \in Payloads : live[p] <=> p = payload[Sender]
        BY <2>1, <2>2, <3>2
      <3>4. QED
        BY <2>2, <3>3 DEF PayloadIsTheLetters
    <2>3. CASE phase \in {"plan", "read", "over"}
      <3>1. pc[Sender] = "idle"
        BY <2>3 DEF StageInv
      <3>2. \A p \in Payloads : ~live[p]
        BY <2>1, <2>3, <3>1
      <3>3. QED
        BY <2>3, <3>2 DEF PayloadIsTheLetters
    <2>4. QED
      BY <2>2, <2>3 DEF PayloadIsTheLetters
  <1>2. QED
    BY <1>1, StageInductive, PTL
===============================================================================
