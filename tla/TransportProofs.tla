--------------------------- MODULE TransportProofs ---------------------------
(***************************************************************************)
(* Theorems about the sizes of a letter, for any number of bits of a byte, *)
(* any measured writes and payloads of any size: the roundings of the      *)
(* measurer, of allocate(), of the writer's span of words and of           *)
(* add_to_message() fit together.                                          *)
(***************************************************************************)
EXTENDS TransportProperties, BitStreamWriterProofs

NetTypeOK ==
    /\ bytes \in [Payloads -> Nat]
    /\ sizeField \in [Payloads -> Nat]
    /\ pc \in [{Sender} -> S!PC]
    /\ payload \in [{Sender} -> Payloads \cup {NoPayload}]
    /\ length \in [{Sender} -> Nat]
    /\ msgState \in [S!Messages -> S!MsgState]
    /\ msgSize \in [S!Messages -> Nat]

\* The payload the sender works on, as allocate() made it.
PayloadHeld ==
    LET p == payload[Sender]
    IN  /\ p \in Payloads
        /\ S!Size(p) \in 1 .. MaxSend
        /\ bytes[p] = S!CeilToWord(S!Size(p))

OpenInv == phase = "open" => PayloadHeld /\ S!Size(payload[Sender]) = UsedBytes

\* The writer spans the words of the payload, and may write no more bits than
\* the bytes that were asked for.
WriteInv ==
    phase = "write" =>
      /\ PayloadHeld
      /\ S!UsedBitStream(payload[Sender])
      /\ WordBytes * wordsSize = bytes[payload[Sender]]
      /\ totalBits <= ByteBits * S!Size(payload[Sender])

AllFree == \A m \in S!Messages : msgState[m] = "free"

Fits(size) == size <= WordBytes * wordsSize /\ size % WordBytes = 0

\* What is sent, and what the loop of multicast() has yet to send.
SentInv ==
    IF phase # "sent" THEN AllFree
    ELSE /\ \A m \in S!Messages : msgState[m] # "free" => Fits(msgSize[m])
         /\ pc[Sender] = "setup" => /\ S!UsedBitStream(payload[Sender])
                                    /\ Fits(S!CeilToWord(length[Sender]))

LetterInv == NetTypeOK /\ OpenInv /\ WriteInv /\ SentInv

TransportInv == WriterInv /\ plan \in Seq(Call) /\ LetterInv

-----------------------------------------------------------------------------
LEMMA CeilFacts ==
    \A n \in Nat : /\ S!CeilToWord(n) \in Nat
                   /\ n <= S!CeilToWord(n)
                   /\ S!CeilToWord(n) % WordBytes = 0
                   /\ S!CeilToWord(n) \div WordBytes \in Nat
                   /\ WordBytes * (S!CeilToWord(n) \div WordBytes) = S!CeilToWord(n)
  BY DEF S!CeilToWord, WordBytes

LEMMA CeilMonotone ==
    \A m, n \in Nat : m <= n => S!CeilToWord(m) <= S!CeilToWord(n)
  BY DEF S!CeilToWord, WordBytes

\* The size field gives back the size it packs, with or without the flag.
LEMMA SizeOfField ==
    ASSUME NEW n \in 1 .. MaxSend
    PROVE  n % FlagMask = n /\ (n + FlagMask) % FlagMask = n
  BY SendAssumption

LEMMA SizeNat == NetTypeOK => \A p \in Payloads : S!Size(p) \in Nat
  BY SendAssumption DEF NetTypeOK, S!Size

-----------------------------------------------------------------------------
(* The program and the receiver. *)

\* What the steps that leave the payload and the messages alone keep.
LEMMA QuietKeepsInv ==
    ASSUME LetterInv, UNCHANGED netVars,
           \/ /\ phase' = phase /\ phase # "open"
              /\ UNCHANGED <<wordsSize, totalBits>>
           \/ AllFree /\ phase' \notin {"open", "write", "sent"}
    PROVE  LetterInv'
  <1>1. /\ UNCHANGED <<bytes, sizeField, pc, payload, length, msgState, msgSize>>
    BY DEF netVars
  <1>2. NetTypeOK'
    BY <1>1 DEF LetterInv, NetTypeOK
  <1>3. CASE /\ phase' = phase /\ phase # "open"
             /\ UNCHANGED <<wordsSize, totalBits>>
    BY <1>1, <1>2, <1>3
       DEF LetterInv, OpenInv, WriteInv, SentInv, AllFree, Fits, PayloadHeld,
           S!Size, S!UsedBitStream
  <1>4. CASE AllFree /\ phase' \notin {"open", "write", "sent"}
    BY <1>1, <1>2, <1>4 DEF LetterInv, OpenInv, WriteInv, SentInv, AllFree
  <1>5. QED
    BY <1>3, <1>4

LEMMA WriteCallIsWrite ==
    ASSUME NEW call \in Call, WriteCall(call)
    PROVE  /\ Next
           /\ UNCHANGED config
  <1>1. CASE \E v \in Values : Write(v)
    BY <1>1 DEF Next, Write
  <1>2. CASE call.kind = "bytes" /\ WriteBytes(call.size)
    <2>1. call.size \in ByteCounts
      BY <1>2 DEF Call
    <2>2. QED
      BY <1>2, <2>1 DEF Next, WriteBytes
  <1>3. CASE call.kind = "string" /\ WriteString(call.len, call.charBytes)
    <2>1. call.len \in StringLens /\ call.charBytes \in CharBytes
      BY <1>3 DEF Call
    <2>2. QED
      BY <1>3, <2>1 DEF Next, WriteString
  <1>4. QED
    BY <1>1, <1>2, <1>3 DEF WriteCall

\* A step of the program that writes is a step of the writer, over the words
\* that it has.
LEMMA WritingStep ==
    ASSUME plan \in Seq(Call),
           WritePlanned \/ WriteUnmeasured \/ WriteLoop \/ Flush \/ Rewrite
    PROVE  Next /\ UNCHANGED config /\ Writing
  <1>1. CASE WritePlanned
    <2>1. Len(log) + 1 \in DOMAIN plan
      BY <1>1 DEF WritePlanned
    <2>2. plan[Len(log) + 1] \in Call
      BY <2>1
    <2>3. QED
      BY <1>1, <2>2, WriteCallIsWrite DEF WritePlanned
  <1>2. CASE WriteUnmeasured
    BY <1>2, WriteCallIsWrite DEF WriteUnmeasured
  <1>3. CASE WriteLoop
    BY <1>3 DEF WriteLoop, PutNext, Next
  <1>4. CASE Flush
    BY <1>4 DEF Flush, FlushFinal, Next
  <1>5. CASE Rewrite
    BY <1>5 DEF Rewrite, Restart, Next
  <1>6. QED
    BY <1>1, <1>2, <1>3, <1>4, <1>5

LEMMA AllocateKeepsInv ==
    ASSUME LetterInv, Allocate
    PROVE  LetterInv'
  <1>1. PICK p \in Payloads, size \in 0 .. MaxSend :
          /\ S!AllocateAt(p, size)
          /\ payload' = [payload EXCEPT ![Sender] = p]
    BY DEF Allocate, S!Allocate
  <1>2. /\ pc' = [pc EXCEPT ![Sender] = "owner"]
        /\ UNCHANGED <<length, msgState, msgSize>>
        /\ sizeField'[payload'[Sender]] = UsedBytes
        /\ phase = "plan" /\ phase' = "open" /\ UNCHANGED measured
    BY DEF Allocate, S!Allocate, S!msgVars, writerVars
  <1>3. size \in 1 .. MaxSend
    BY <1>1, SendAssumption DEF S!AllocateAt, S!CanAllocate
  <1>4. /\ bytes' = [bytes EXCEPT ![p] = S!CeilToWord(size)]
        /\ sizeField' = [sizeField EXCEPT ![p] = size]
    BY <1>1 DEF S!AllocateAt
  <1>5. payload'[Sender] = p /\ bytes'[p] = S!CeilToWord(size) /\ sizeField'[p] = size
    BY <1>1, <1>4 DEF LetterInv, NetTypeOK
  <1>6. NetTypeOK'
    <2>1. size \in Nat /\ S!CeilToWord(size) \in Nat
      BY <1>3, SendAssumption, CeilFacts
    <2>2. bytes' \in [Payloads -> Nat] /\ sizeField' \in [Payloads -> Nat]
      BY <1>4, <2>1 DEF LetterInv, NetTypeOK
    <2>3. QED
      BY <1>1, <1>2, <2>2 DEF LetterInv, NetTypeOK, S!PC
  <1>7. S!Size(p)' = size
    BY <1>3, <1>5, SizeOfField DEF S!Size
  <1>8. PayloadHeld'
    BY <1>3, <1>5, <1>7 DEF PayloadHeld
  <1>9. UsedBytes' = UsedBytes
    BY <1>2 DEF UsedBytes
  <1>10. AllFree'
    BY <1>2 DEF LetterInv, SentInv, AllFree
  <1>11. QED
    BY <1>2, <1>5, <1>6, <1>7, <1>8, <1>9, <1>10
       DEF LetterInv, OpenInv, WriteInv, SentInv

\* The writer is opened over the whole payload, and allowed what was measured.
LEMMA OpenWriterOK ==
    ASSUME NoWrap, PayloadsCovered, LetterInv, OpenWriter
    PROVE  Next /\ LetterInv'
  <1>1. /\ phase = "open" /\ phase' = "write"
        /\ S!SetUsedBitStream(payload[Sender])
        /\ UNCHANGED <<pc, payload, length, msgState, msgSize, measured>>
    BY DEF OpenWriter, S!UseBitStream, S!callVars, S!msgVars
  <1>2. PICK p : p = payload[Sender]
    OBVIOUS
  <1>3. PICK size : size = S!Size(p)
    OBVIOUS
  <1>4. /\ p \in Payloads /\ size \in 1 .. MaxSend
        /\ bytes[p] = S!CeilToWord(size) /\ size = UsedBytes
    BY <1>1, <1>2, <1>3 DEF LetterInv, OpenInv, PayloadHeld
  <1>5. /\ sizeField' = [sizeField EXCEPT ![p] = size + FlagMask]
        /\ bytes' = bytes /\ payload'[Sender] = p
    BY <1>1, <1>2, <1>3 DEF S!SetUsedBitStream
  <1>6. sizeField'[p] = size + FlagMask
    BY <1>4, <1>5 DEF LetterInv, NetTypeOK
  <1>7. S!Size(p)' = size /\ S!UsedBitStream(p)'
    <2>1. S!Size(p)' = size
      BY <1>4, <1>6, SizeOfField DEF S!Size
    <2>2. size + FlagMask >= FlagMask
      BY <1>4, SendAssumption
    <2>3. QED
      BY <1>6, <2>1, <2>2 DEF S!UsedBitStream
  <1>8. PICK n : n = S!CeilToWord(size) \div WordBytes
    OBVIOUS
  <1>9. PayloadWords(payload[Sender])' = n
    BY <1>5, <1>7, <1>8 DEF PayloadWords, S!CeilToWord
  <1>10. ResetWith(n, FALSE, size)
    BY <1>4, <1>9 DEF OpenWriter
  <1>11. n \in WordCounts /\ size \in LogicalBytes
    BY <1>4, <1>8 DEF PayloadsCovered
  <1>12. Next
    BY <1>10, <1>11 DEF Next
  <1>13. size \in Nat
    BY <1>4, SendAssumption
  <1>14. wordsSize' = n /\ totalBits' <= ByteBits * size
    <2>1. ByteBits * size \in Nat
      BY <1>13, ByteBitsAssumption
    <2>2. wordsSize' = n /\ totalBits' = Wrap(ByteBits * size)
      BY <1>10 DEF ResetWith
    <2>3. QED
      BY <2>1, <2>2, WrapShorter
  <1>15. WriteInv'
    <2>1. PayloadHeld'
      BY <1>4, <1>5, <1>7 DEF PayloadHeld
    <2>2. (WordBytes * wordsSize = bytes[payload[Sender]])'
      BY <1>4, <1>5, <1>8, <1>13, <1>14, CeilFacts DEF WordBytes
    <2>3. (totalBits <= ByteBits * S!Size(payload[Sender]))'
      BY <1>5, <1>7, <1>13, <1>14, ByteBitsAssumption
    <2>4. QED
      BY <1>5, <1>7, <2>1, <2>2, <2>3 DEF WriteInv
  <1>16. NetTypeOK'
    <2>1. size + FlagMask \in Nat
      BY <1>13, SendAssumption
    <2>2. QED
      BY <1>1, <1>5, <2>1 DEF LetterInv, NetTypeOK
  <1>17. AllFree'
    BY <1>1 DEF LetterInv, SentInv, AllFree
  <1>18. QED
    BY <1>1, <1>12, <1>15, <1>16, <1>17 DEF LetterInv, OpenInv, SentInv

\* The caller of unicast() or multicast(), or of force_deallocate(), leaves
\* the block, the messages and their number as they are.
LEMMA CallKeepsTypes ==
    ASSUME NetTypeOK, S!Unicast(Sender) \/ S!Multicast(Sender) \/ S!Discard(Sender)
    PROVE  /\ NetTypeOK'
           /\ UNCHANGED <<bytes, sizeField, msgState, msgSize>>
           /\ pc'[Sender] = "setup" =>
                UNCHANGED payload /\ length'[Sender] <= S!Size(payload[Sender])
  <1>1. ASSUME NEW n, S!StartSend(Sender, n)
        PROVE  /\ NetTypeOK'
               /\ UNCHANGED <<bytes, sizeField, msgState, msgSize>>
               /\ UNCHANGED payload /\ length'[Sender] <= S!Size(payload[Sender])
    <2>1. PICK l \in 0 .. MaxSend : /\ l <= S!Size(payload[Sender])
                                    /\ length' = [length EXCEPT ![Sender] = l]
      BY <1>1 DEF S!StartSend
    <2>2. l \in Nat
      BY <2>1, SendAssumption
    <2>3. /\ pc' = [pc EXCEPT ![Sender] = "setup"]
          /\ UNCHANGED <<bytes, sizeField, msgState, msgSize, payload>>
      BY <1>1 DEF S!StartSend, S!heapVars, S!msgVars
    <2>4. QED
      BY <2>1, <2>2, <2>3 DEF NetTypeOK, S!PC
  <1>2. ASSUME S!Done(Sender), S!ForceDeallocate(payload[Sender]),
               UNCHANGED <<msgState, msgSize>>
        PROVE  /\ NetTypeOK'
               /\ UNCHANGED <<bytes, sizeField, msgState, msgSize>>
               /\ pc'[Sender] # "setup"
    <2>1. /\ pc' = [pc EXCEPT ![Sender] = "idle"]
          /\ payload' = [payload EXCEPT ![Sender] = NoPayload]
          /\ length' = [length EXCEPT ![Sender] = 0]
      BY <1>2 DEF S!Done
    <2>2. UNCHANGED <<bytes, sizeField, msgState, msgSize>>
      BY <1>2 DEF S!ForceDeallocate
    <2>3. QED
      BY <2>1, <2>2 DEF NetTypeOK, S!PC
  <1>3. CASE S!Unicast(Sender)
    BY <1>1, <1>3 DEF S!Unicast
  <1>4. CASE S!Multicast(Sender)
    <2>1. PICK n \in 0 .. MaxMessages : IF n = 0 THEN S!MulticastToNobody(Sender)
                                                 ELSE S!StartSend(Sender, n)
      BY <1>4 DEF S!Multicast
    <2>2. CASE n = 0
      BY <1>2, <2>1, <2>2 DEF S!MulticastToNobody, S!msgVars
    <2>3. CASE n # 0
      BY <1>1, <2>1, <2>3
    <2>4. QED
      BY <2>2, <2>3
  <1>5. CASE S!Discard(Sender)
    BY <1>2, <1>5 DEF S!Discard, S!msgVars
  <1>6. QED
    BY <1>3, <1>4, <1>5

LEMMA SendKeepsInv ==
    ASSUME LetterInv, Send
    PROVE  LetterInv'
  <1>1. /\ phase = "write" /\ phase' = "sent"
        /\ S!Unicast(Sender) \/ S!Multicast(Sender)
        /\ UNCHANGED wordsSize
    BY DEF Send, writerVars, vars, config
  <1>2. /\ NetTypeOK'
        /\ UNCHANGED <<bytes, sizeField, msgState, msgSize>>
        /\ pc'[Sender] = "setup" =>
             UNCHANGED payload /\ length'[Sender] <= S!Size(payload[Sender])
    BY <1>1, CallKeepsTypes DEF LetterInv
  <1>3. AllFree'
    BY <1>1, <1>2 DEF LetterInv, SentInv, AllFree
  <1>4. ASSUME pc'[Sender] = "setup"
        PROVE  (S!UsedBitStream(payload[Sender]) /\ Fits(S!CeilToWord(length[Sender])))'
    <2>1. PICK p \in Payloads : p = payload[Sender]
      BY <1>1 DEF LetterInv, WriteInv, PayloadHeld
    <2>2. PICK size \in Nat : size = S!Size(p)
      BY SizeNat DEF LetterInv
    <2>3. PICK l \in Nat : l = length'[Sender]
      BY <1>2 DEF NetTypeOK
    <2>4. /\ S!UsedBitStream(p) /\ bytes[p] = S!CeilToWord(size)
          /\ WordBytes * wordsSize = bytes[p]
      BY <1>1, <2>1, <2>2 DEF LetterInv, WriteInv, PayloadHeld
    <2>5. S!CeilToWord(l) <= WordBytes * wordsSize /\ S!CeilToWord(l) % WordBytes = 0
      BY <1>2, <1>4, <2>1, <2>2, <2>3, <2>4, CeilFacts, CeilMonotone
    <2>6. S!CeilToWord(length[Sender])' = S!CeilToWord(l)
      BY <2>3 DEF S!CeilToWord
    <2>7. S!UsedBitStream(payload[Sender])'
      BY <1>2, <1>4, <2>1, <2>4 DEF S!UsedBitStream
    <2>8. QED
      BY <1>1, <2>5, <2>6, <2>7 DEF Fits
  <1>5. QED
    BY <1>1, <1>2, <1>3, <1>4 DEF LetterInv, OpenInv, WriteInv, SentInv, AllFree

LEMMA DiscardKeepsInv ==
    ASSUME LetterInv, Discard
    PROVE  LetterInv'
  <1>1. /\ phase \in {"open", "write"} /\ phase' = "over" /\ S!Discard(Sender)
    BY DEF Discard
  <1>2. NetTypeOK' /\ UNCHANGED msgState
    BY <1>1, CallKeepsTypes DEF LetterInv
  <1>3. AllFree'
    BY <1>1, <1>2 DEF LetterInv, SentInv, AllFree
  <1>4. QED
    BY <1>1, <1>2, <1>3 DEF LetterInv, OpenInv, WriteInv, SentInv

-----------------------------------------------------------------------------
(* The network. *)

\* No step of the network changes what the payload or the writer know of
\* sizes; a message is given words of the writer, and keeps them until it is
\* recycled.
LEMMA SetupMessageKeepsInv ==
    ASSUME LetterInv, phase = "sent", UNCHANGED <<phase, wordsSize>>,
           S!SetupMessage(Sender)
    PROVE  LetterInv'
  <1>1. PICK m \in S!Messages :
          /\ S!IncreaseRefCount(payload[Sender])
          /\ msgSize' = [msgSize EXCEPT ![m] = S!SendSize(payload[Sender], length[Sender])]
          /\ msgState' = [msgState EXCEPT ![m] = "attached"]
    BY DEF S!SetupMessage, S!AddToMessage, S!FreeMessages, S!MessagesOf
  <1>2. /\ pc[Sender] = "setup"
        /\ pc' = [pc EXCEPT ![Sender] = IF todo[Sender] = 1 THEN "sending" ELSE "setup"]
        /\ UNCHANGED <<bytes, sizeField, payload, length>>
    BY <1>1 DEF S!SetupMessage, S!IncreaseRefCount
  <1>3. PICK size : size = S!CeilToWord(length[Sender])
    OBVIOUS
  <1>4. S!UsedBitStream(payload[Sender]) /\ Fits(size)
    BY <1>2, <1>3 DEF LetterInv, SentInv
  <1>5. msgSize' = [msgSize EXCEPT ![m] = size]
    BY <1>1, <1>3, <1>4 DEF S!SendSize
  <1>6. size \in Nat
    BY <1>3, CeilFacts DEF LetterInv, NetTypeOK
  <1>7. NetTypeOK'
    BY <1>1, <1>2, <1>5, <1>6 DEF LetterInv, NetTypeOK, S!PC, S!MsgState
  <1>8. ASSUME NEW k \in S!Messages, msgState'[k] # "free"
        PROVE  Fits(msgSize'[k])
    <2>1. CASE k = m
      BY <1>4, <1>5, <2>1 DEF LetterInv, NetTypeOK
    <2>2. CASE k # m
      BY <1>1, <1>5, <1>8, <2>2 DEF LetterInv, NetTypeOK, SentInv
    <2>3. QED
      BY <2>1, <2>2
  <1>9. /\ S!UsedBitStream(payload[Sender])'
        /\ S!CeilToWord(length[Sender])' = size
    BY <1>2, <1>3, <1>4 DEF S!UsedBitStream, S!CeilToWord
  <1>10. SentInv'
    BY <1>4, <1>8, <1>9 DEF SentInv, Fits
  <1>11. QED
    BY <1>7, <1>10 DEF LetterInv, OpenInv, WriteInv

\* A step that gives no message a size, and adds none.
LEMMA MessageStepKeepsInv ==
    ASSUME LetterInv, phase = "sent", UNCHANGED <<phase, wordsSize>>,
           UNCHANGED <<bytes, sizeField, pc, payload, length>>,
           msgState' \in [S!Messages -> S!MsgState], msgSize' \in [S!Messages -> Nat],
           \A m \in S!Messages : msgState'[m] # "free" =>
             msgState[m] # "free" /\ msgSize'[m] = msgSize[m]
    PROVE  LetterInv'
  <1>1. NetTypeOK'
    BY DEF LetterInv, NetTypeOK
  <1>2. UNCHANGED <<S!UsedBitStream(payload[Sender]), S!CeilToWord(length[Sender])>>
    BY DEF S!UsedBitStream, S!CeilToWord
  <1>3. SentInv'
    BY <1>2 DEF LetterInv, SentInv, Fits
  <1>4. QED
    BY <1>1, <1>3 DEF LetterInv, OpenInv, WriteInv

LEMMA RecycleKeepsInv ==
    ASSUME LetterInv, phase = "sent", UNCHANGED <<phase, wordsSize>>,
           UNCHANGED <<bytes, sizeField, pc, payload, length>>,
           NEW m \in S!Messages, S!Recycle(m)
    PROVE  LetterInv'
  <1>1. /\ msgState' = [msgState EXCEPT ![m] = "free"]
        /\ msgSize' = [msgSize EXCEPT ![m] = 0]
    BY DEF S!Recycle
  <1>2. msgState' \in [S!Messages -> S!MsgState] /\ msgSize' \in [S!Messages -> Nat]
    BY <1>1 DEF LetterInv, NetTypeOK, S!MsgState
  <1>3. \A k \in S!Messages : msgState'[k] # "free" =>
          msgState[k] # "free" /\ msgSize'[k] = msgSize[k]
    BY <1>1 DEF LetterInv, NetTypeOK
  <1>4. QED
    BY <1>2, <1>3, MessageStepKeepsInv

LEMMA MessageKeepsInv ==
    ASSUME LetterInv, phase = "sent", UNCHANGED <<phase, wordsSize>>,
           NEW m \in S!Messages,
           \/ S!Submit(m) \/ S!BeginRead(m) \/ S!EndRead(m)
           \/ S!DropReference(m) \/ S!DeallocateLast(m)
    PROVE  LetterInv'
  <1>1. ASSUME NEW s \in S!MsgState, msgState[m] # "free",
               msgState' = [msgState EXCEPT ![m] = s],
               UNCHANGED <<bytes, sizeField, pc, payload, length, msgSize>>
        PROVE  LetterInv'
    <2>1. msgState' \in [S!Messages -> S!MsgState] /\ msgSize' \in [S!Messages -> Nat]
      BY <1>1 DEF LetterInv, NetTypeOK
    <2>2. \A k \in S!Messages : msgState'[k] # "free" =>
            msgState[k] # "free" /\ msgSize'[k] = msgSize[k]
      BY <1>1 DEF LetterInv, NetTypeOK
    <2>3. QED
      BY <1>1, <2>1, <2>2, MessageStepKeepsInv
  <1>2. CASE S!Submit(m)
    <2>1. /\ msgState[m] = "attached"
          /\ \E s \in {"queued", "rejected"} : msgState' = [msgState EXCEPT ![m] = s]
          /\ UNCHANGED <<bytes, sizeField, pc, payload, length, msgSize>>
      BY <1>2 DEF S!Submit, S!heapVars, S!callVars
    <2>2. QED
      BY <1>1, <2>1 DEF S!MsgState
  <1>3. CASE S!BeginRead(m) \/ S!EndRead(m)
    <2>1. UNCHANGED <<bytes, sizeField, pc, payload, length, msgState, msgSize>>
      BY <1>3 DEF S!BeginRead, S!EndRead, S!heapVars, S!callVars
    <2>2. QED
      BY <2>1, MessageStepKeepsInv DEF LetterInv, NetTypeOK
  <1>4. CASE S!DropReference(m)
    <2>1. /\ msgState[m] \in {"queued", "rejected"}
          /\ UNCHANGED <<bytes, sizeField, pc, payload, length>>
          /\ \/ /\ msgState' = [msgState EXCEPT ![m] = "freeing"]
                /\ UNCHANGED msgSize
             \/ S!Recycle(m)
      BY <1>4 DEF S!DropReference, S!DecreaseRefCount, S!callVars
    <2>2. QED
      BY <1>1, <2>1, RecycleKeepsInv DEF S!MsgState
  <1>5. CASE S!DeallocateLast(m)
    BY <1>5, RecycleKeepsInv DEF S!DeallocateLast, S!ForceDeallocate, S!callVars
  <1>6. QED
    BY <1>2, <1>3, <1>4, <1>5

LEMMA NetworkKeepsInv ==
    ASSUME LetterInv, NetworkStep \/ \E m \in S!Messages : Deliver(m)
    PROVE  LetterInv'
  <1>1. CASE NetworkStep
    <2>1. phase = "sent" /\ UNCHANGED <<phase, wordsSize>>
      BY <1>1 DEF NetworkStep, letterVars, writerVars, vars, config
    <2>2. CASE S!SetupMessage(Sender)
      BY <2>1, <2>2, SetupMessageKeepsInv
    <2>3. CASE S!SendReturns(Sender)
      <3>1. /\ pc' = [pc EXCEPT ![Sender] = "idle"]
            /\ payload' = [payload EXCEPT ![Sender] = NoPayload]
            /\ length' = [length EXCEPT ![Sender] = 0]
            /\ UNCHANGED <<bytes, sizeField, msgState, msgSize>>
        BY <2>3 DEF S!SendReturns, S!Done, S!heapVars, S!msgVars
      <3>2. NetTypeOK' /\ pc'[Sender] # "setup"
        BY <3>1 DEF LetterInv, NetTypeOK, S!PC
      <3>3. QED
        BY <2>1, <3>1, <3>2 DEF LetterInv, OpenInv, WriteInv, SentInv, Fits
    <2>4. CASE \E m \in S!Messages : \/ S!Submit(m) \/ S!BeginRead(m)
                                     \/ S!EndRead(m) \/ S!DropReference(m)
                                     \/ S!DeallocateLast(m)
      BY <2>1, <2>4, MessageKeepsInv
    <2>5. QED
      BY <1>1, <2>2, <2>3, <2>4 DEF NetworkStep
  <1>2. ASSUME NEW m \in S!Messages, Deliver(m)
        PROVE  LetterInv'
    BY <1>2, MessageKeepsInv DEF Deliver, writerVars, vars, config
  <1>3. QED
    BY <1>1, <1>2

-----------------------------------------------------------------------------
\* Every step is one of the writer, or leaves it alone.
LEMMA WriterSteps ==
    ASSUME NoWrap, PayloadsCovered, TransportInv, [TransportNext]_transportVars
    PROVE  [Next]_vars /\ (plan \in Seq(Call))' /\ LetterInv'
  <1>1. plan \in Seq(Call) /\ LetterInv /\ WriterInv
    BY DEF TransportInv
  <1>2. ASSUME NEW call \in Call, PlanCall(call)
        PROVE  [Next]_vars /\ (plan \in Seq(Call))' /\ LetterInv'
    <2>1. /\ UNCHANGED vars /\ UNCHANGED <<wordsSize, totalBits>>
          /\ UNCHANGED netVars /\ phase' = phase /\ phase # "open"
          /\ plan' = Append(plan, call)
      BY <1>2 DEF PlanCall, vars, config
    <2>2. QED
      BY <1>1, <2>1, QuietKeepsInv
  <1>3. CASE Allocate
    BY <1>1, <1>3, AllocateKeepsInv DEF Allocate, writerVars
  <1>4. CASE GiveUp \/ Lost \/ Receive
    <2>1. /\ UNCHANGED vars /\ UNCHANGED plan /\ UNCHANGED netVars
          /\ phase' \notin {"open", "write", "sent"}
          /\ phase # "sent" \/ Settled
      BY <1>4 DEF GiveUp, Lost, Receive, writerVars
    <2>2. AllFree
      BY <1>1, <2>1 DEF LetterInv, SentInv, AllFree, Settled
    <2>3. QED
      BY <1>1, <2>1, <2>2, QuietKeepsInv
  <1>5. CASE OpenWriter
    BY <1>1, <1>5, OpenWriterOK DEF OpenWriter
  <1>6. CASE WritePlanned \/ WriteUnmeasured \/ WriteLoop \/ Flush \/ Rewrite
    <2>1. Next /\ UNCHANGED config /\ Writing
      BY <1>1, <1>6, WritingStep
    <2>2. /\ UNCHANGED plan /\ UNCHANGED netVars /\ phase' = phase
          /\ phase # "open" /\ UNCHANGED <<wordsSize, totalBits>>
      BY <2>1 DEF Writing, config
    <2>3. QED
      BY <1>1, <2>1, <2>2, QuietKeepsInv
  <1>7. CASE Send
    BY <1>1, <1>7, SendKeepsInv DEF Send, writerVars
  <1>8. CASE Discard
    BY <1>1, <1>8, DiscardKeepsInv DEF Discard, writerVars
  <1>9. CASE NetworkStep \/ \E m \in S!Messages : Deliver(m)
    BY <1>1, <1>9, NetworkKeepsInv DEF NetworkStep, Deliver, writerVars, letterVars
  <1>10. CASE ReadCall \/ Peek \/ ReadOn
    <2>1. /\ UNCHANGED vars /\ UNCHANGED plan /\ UNCHANGED netVars
          /\ phase' = phase /\ phase = "read"
      BY <1>10 DEF ReadCall, Peek, ReadOn, Reading, writerVars
    <2>2. QED
      BY <1>1, <2>1, QuietKeepsInv DEF vars, config
  <1>11. CASE NextLetter
    <2>1. /\ Reset /\ plan' = <<>> /\ UNCHANGED netVars
          /\ phase \in {"over", "read"} /\ phase' = "plan"
      BY <1>11 DEF NextLetter
    <2>2. AllFree
      BY <1>1, <2>1 DEF LetterInv, SentInv
    <2>3. QED
      BY <1>1, <2>1, <2>2, QuietKeepsInv DEF Next
  <1>12. CASE UNCHANGED transportVars
    <2>1. /\ UNCHANGED vars /\ UNCHANGED measured /\ UNCHANGED plan
          /\ UNCHANGED <<bytes, sizeField, pc, payload, length, msgState, msgSize>>
          /\ UNCHANGED phase
      BY <1>12 DEF transportVars, writerVars, netVars, letterVars
    <2>2. LetterInv'
      BY <1>1, <2>1
         DEF LetterInv, NetTypeOK, OpenInv, WriteInv, SentInv, AllFree, Fits,
             PayloadHeld, UsedBytes, S!Size, S!UsedBitStream, vars, config
    <2>3. QED
      BY <1>1, <2>1, <2>2
  <1>13. QED
    BY <1>2, <1>3, <1>4, <1>5, <1>6, <1>7, <1>8, <1>9, <1>10, <1>11, <1>12
       DEF TransportNext

LEMMA TransportStep ==
    ASSUME NoWrap, PayloadsCovered, TransportInv, [TransportNext]_transportVars
    PROVE  TransportInv'
  BY WriterSteps, InvStep DEF TransportInv

LEMMA TransportStart == TransportInit => TransportInv
  <1> SUFFICES ASSUME TransportInit PROVE TransportInv
    OBVIOUS
  <1>1. WriterInv
    BY InvInit DEF TransportInit, MeasuredInit
  <1>2. phase = "plan" /\ plan = <<>> /\ S!Init
    BY DEF TransportInit
  <1>3. NetTypeOK /\ AllFree
    BY <1>2 DEF S!Init, S!HeapInit, NetTypeOK, AllFree, S!PC, S!MsgState
  <1>4. QED
    BY <1>1, <1>2, <1>3 DEF TransportInv, LetterInv, OpenInv, WriteInv, SentInv

LEMMA TransportInductive ==
    NoWrap /\ PayloadsCovered => (TransportSpec => []TransportInv)
  <1>1. SUFFICES ASSUME NoWrap, PayloadsCovered PROVE TransportSpec => []TransportInv
    OBVIOUS
  <1>2. TransportInv /\ [TransportNext]_transportVars => TransportInv'
    BY <1>1, TransportStep
  <1>3. QED
    BY <1>2, TransportStart, PTL DEF TransportSpec

-----------------------------------------------------------------------------
LEMMA UsedWithin == TransportInv => UsedIsWithinPayload
  <1> SUFFICES ASSUME TransportInv, phase = "write"
               PROVE  WriterUsedBytes <= S!Size(payload[Sender])
    BY DEF UsedIsWithinPayload
  <1>1. PICK size \in Nat : size = S!Size(payload[Sender])
    BY SizeNat DEF TransportInv, LetterInv, WriteInv, PayloadHeld
  <1>2. PICK used \in Nat : used = out.usedBits
    BY DEF TransportInv, WriterInv, TypeOK, Out
  <1>3. totalBits \in Nat /\ totalBits <= ByteBits * size
    BY <1>1 DEF TransportInv, WriterInv, TypeOK, LetterInv, WriteInv
  <1>4. used <= totalBits
    <2>1. CASE initFail
      BY <1>2, <1>3, <2>1 DEF TransportInv, WriterInv, ConfigInv
    <2>2. CASE ~initFail
      <3>1. left * unit \in Nat
        BY LoopProduct DEF TransportInv, WriterInv, TypeOK
      <3>2. used + left * unit <= totalBits
        BY <1>2, <2>2 DEF TransportInv, WriterInv, LoopFits
      <3>3. QED
        BY <1>2, <1>3, <3>1, <3>2
    <2>3. QED
      BY <2>1, <2>2
  <1>5. used <= ByteBits * size
    BY <1>2, <1>3, <1>4, ByteBitsAssumption
  <1>6. (used + ByteBits - 1) \div ByteBits <= size
    BY <1>1, <1>2, <1>5, ByteBitsAssumption
  <1>7. QED
    BY <1>1, <1>2, <1>6 DEF WriterUsedBytes

\* The bytes a writer says it used are never more than the payload that was
\* allocated for the measure of the letter, whatever is written, refused or
\* written again: used_bytes() may always be passed to the send.
THEOREM UsedIsWithinPayloadCorrect ==
    ASSUME NoWrap, PayloadsCovered
    PROVE  TransportSpec => []UsedIsWithinPayload
  <1>1. QED
    BY UsedWithin, TransportInductive, PTL

\* The words of the writer lie in the block of the payload, and every message
\* sends whole words of the writer: three roundings, done in three places from
\* two values, that agree for payloads of every size.
THEOREM RoundingsCorrect ==
    ASSUME NoWrap, PayloadsCovered
    PROVE  TransportSpec => []RoundingsAgree
  <1>1. TransportInv => RoundingsAgree
    <2> SUFFICES ASSUME TransportInv PROVE RoundingsAgree
      OBVIOUS
    <2>1. phase = "write" => WordBytes * wordsSize <= bytes[payload[Sender]]
      BY DEF TransportInv, LetterInv, WriteInv, PayloadHeld, NetTypeOK
    <2>2. ASSUME NEW m \in S!Messages, msgState[m] # "free"
          PROVE  msgSize[m] <= WordBytes * wordsSize /\ msgSize[m] % WordBytes = 0
      BY <2>2 DEF TransportInv, LetterInv, SentInv, AllFree, Fits
    <2>3. QED
      BY <2>1, <2>2 DEF RoundingsAgree
  <1>2. QED
    BY <1>1, TransportInductive, PTL
=============================================================================
