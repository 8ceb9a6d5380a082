--------------------------- MODULE MulticastProofs ---------------------------
(***************************************************************************)
(* Theorems about Multicast for any number of callers, payloads, messages  *)
(* and sizes.                                                              *)
(***************************************************************************)
EXTENDS MulticastProperties, FiniteSetTheorems, TLAPS

\* A caller that works on a payload is the only one, the payload is
\* allocated, and no message but those the caller is setting up holds it.
CallersInv ==
    \A c \in Callers :
      /\ pc[c] \in {"owner", "setup"} =>
           /\ payload[c] \in Payloads
           /\ live[payload[c]]
           /\ \A d \in Callers :
                pc[d] \in {"owner", "setup"} /\ payload[d] = payload[c] => d = c
           /\ \A m \in Messages :
                msgPayload[m] = payload[c] /\ msgState[m] # "free" =>
                  m[1] = c /\ msgState[m] = "attached" /\ pc[c] = "setup"
      /\ pc[c] = "setup" => todo[c] >= 1

\* A message in use carries an allocated payload; it is only attached while
\* its caller sets up or sends, and the one that frees a payload is alone.
MessagesInv ==
    \A m \in Messages :
      /\ msgState[m] # "free" =>
           /\ msgPayload[m] \in Payloads
           /\ live[msgPayload[m]]
      /\ msgState[m] = "attached" =>
           /\ pc[m[1]] \in {"setup", "sending"}
           /\ pc[m[1]] = "setup" => msgPayload[m] = payload[m[1]]
      /\ msgState[m] = "freeing" =>
           \A n \in Messages :
             msgState[n] # "free" /\ msgPayload[n] = msgPayload[m] => n = m

\* An allocated payload is worked on or carried.
ReachableInv ==
    \A p \in Payloads :
      live[p] =>
        \/ \E c \in Callers : Works(c, p)
        \/ \E m \in Messages : msgState[m] # "free" /\ msgPayload[m] = p

\* Reads end before the reference they rely on is dropped.
ReadsInv ==
    ~WeakMemory => \A m \in Messages :
                     reading[m] # NoPayload =>
                       msgState[m] = "queued" /\ reading[m] = msgPayload[m]

IInv == /\ TypeOK
        /\ RefCountIsHolders
        /\ CallersInv
        /\ MessagesInv
        /\ ReachableInv
        /\ ReadsInv
-----------------------------------------------------------------------------
LEMMA MessageCaller == \A m \in Messages : m[1] \in Callers
  BY DEF Messages

LEMMA MessagesOfCaller == \A c \in Callers : FreeMessages(c) \subseteq Messages
  BY DEF FreeMessages, MessagesOf

LEMMA MessagesFinite == IsFiniteSet(Messages)
  <1>1. IsFiniteSet(1 .. MaxMessages)
    BY MaxMessagesAssumption, FS_Interval
  <1>2. QED
    BY <1>1, CallersAssumption, FS_Product DEF Messages

\* Rounding up to whole words yields a whole number of words, no less than
\* what was rounded (ceil_to_multiple_of).
LEMMA CeilToWordNat == \A n \in Nat : CeilToWord(n) \in Nat
  <1> TAKE n \in Nat
  <1>1. (n + WordBytes - 1) \div WordBytes \in Nat
    BY WordBytesAssumption
  <1>2. QED
    BY <1>1, WordBytesAssumption DEF CeilToWord

\* size() masks the flag away.
LEMMA SizeNat == TypeOK => \A p \in Payloads : Size(p) \in Nat
  BY FlagMaskAssumption, MaxSendAssumption DEF TypeOK, HeapTypeOK, Size

\* A function stays well-typed under an update that is well-typed where it
\* applies.
LEMMA UpdateTyped ==
    ASSUME NEW S, NEW T, NEW f \in [S -> T], NEW x, NEW e, x \in S => e \in T
    PROVE  [f EXCEPT ![x] = e] \in [S -> T]
  OBVIOUS

LEMMA CountTyped ==
    ASSUME NEW S, NEW f \in [S -> Int], NEW x
    PROVE  /\ [f EXCEPT ![x] = @ + 1] \in [S -> Int]
           /\ [f EXCEPT ![x] = @ - 1] \in [S -> Int]
  <1>1. x \in S => f[x] + 1 \in Int /\ f[x] - 1 \in Int
    OBVIOUS
  <1>2. QED
    BY <1>1, UpdateTyped

\* The fragments of steps keep the types of the heap, of the callers and of
\* the messages.
LEMMA HeapTyped ==
    ASSUME TypeOK, NEW p
    PROVE  /\ ForceDeallocate(p) => HeapTypeOK'
           /\ SetUsedBitStream(p) => HeapTypeOK'
           /\ IncreaseRefCount(p) => HeapTypeOK'
           /\ DecreaseRefCount(p) => HeapTypeOK'
  <1>1. ASSUME ForceDeallocate(p) PROVE HeapTypeOK'
    BY <1>1, UpdateTyped DEF TypeOK, HeapTypeOK, ForceDeallocate
  <1>2. ASSUME SetUsedBitStream(p) PROVE HeapTypeOK'
    <2>1. p \in Payloads => Size(p) + FlagMask \in Nat
      BY SizeNat, FlagMaskAssumption
    <2>2. QED
      BY <1>2, <2>1, UpdateTyped DEF TypeOK, HeapTypeOK, SetUsedBitStream
  <1>3. ASSUME IncreaseRefCount(p) PROVE HeapTypeOK'
    BY <1>3, CountTyped DEF TypeOK, HeapTypeOK, IncreaseRefCount
  <1>4. ASSUME DecreaseRefCount(p) PROVE HeapTypeOK'
    BY <1>4, CountTyped DEF TypeOK, HeapTypeOK, DecreaseRefCount
  <1>5. QED
    BY <1>1, <1>2, <1>3, <1>4

CallTypeOK == /\ pc \in [Callers -> PC]
              /\ payload \in [Callers -> Payloads \cup {NoPayload}]
              /\ todo \in [Callers -> Int]
              /\ length \in [Callers -> Nat]

MsgTypeOK == /\ msgState \in [Messages -> MsgState]
             /\ msgPayload \in [Messages -> Payloads \cup {NoPayload}]
             /\ msgSize \in [Messages -> Nat]
             /\ reading \in [Messages -> Payloads \cup {NoPayload}]

LEMMA TypeParts == TypeOK <=> HeapTypeOK /\ CallTypeOK /\ MsgTypeOK
  BY DEF TypeOK, CallTypeOK, MsgTypeOK

LEMMA CallTyped ==
    ASSUME TypeOK, NEW c \in Callers
    PROVE  /\ Done(c) => CallTypeOK'
           /\ \A n \in Nat : StartSend(c, n) => CallTypeOK'
  <1>1. ASSUME Done(c) PROVE CallTypeOK'
    BY <1>1 DEF TypeOK, CallTypeOK, PC, Done
  <1>2. ASSUME NEW n \in Nat, StartSend(c, n) PROVE CallTypeOK'
    BY <1>2, LengthsAssumption DEF TypeOK, CallTypeOK, PC, StartSend
  <1>3. QED
    BY <1>1, <1>2

-----------------------------------------------------------------------------
\* Every step keeps the types.
LEMMA TypeStep == TypeOK /\ [Next]_vars => TypeOK'
  <1> SUFFICES ASSUME TypeOK, [Next]_vars
               PROVE  HeapTypeOK' /\ CallTypeOK' /\ MsgTypeOK'
    BY DEF TypeOK, CallTypeOK, MsgTypeOK
  <1> DEFINE Goal == HeapTypeOK' /\ CallTypeOK' /\ MsgTypeOK'
  <1>0. HeapTypeOK /\ CallTypeOK /\ MsgTypeOK
    BY TypeParts
  <1>a. UNCHANGED heapVars => HeapTypeOK'
    BY <1>0 DEF HeapTypeOK, heapVars
  <1>b. UNCHANGED callVars => CallTypeOK'
    BY <1>0 DEF CallTypeOK, callVars
  <1>c. UNCHANGED msgVars => MsgTypeOK'
    BY <1>0 DEF MsgTypeOK, msgVars
  <1>1. ASSUME NEW c \in Callers, Allocate(c) PROVE Goal
    <2>1. PICK p \in Payloads, size \in RequestSizes :
            AllocateAt(p, size) /\ payload' = [payload EXCEPT ![c] = p]
      BY <1>1 DEF Allocate
    <2>2. HeapTypeOK'
      BY <1>0, <2>1, CeilToWordNat, RequestSizesAssumption
         DEF HeapTypeOK, AllocateAt
    <2>3. CallTypeOK'
      BY <1>0, <1>1, <2>1 DEF CallTypeOK, PC, Allocate
    <2>4. QED
      BY <1>1, <1>c, <2>2, <2>3 DEF Allocate
  <1>2. ASSUME NEW c \in Callers, UseBitStream(c) PROVE Goal
    BY <1>2, <1>b, <1>c, HeapTyped DEF UseBitStream
  <1>3. ASSUME NEW c \in Callers, Discard(c) PROVE Goal
    BY <1>3, <1>c, HeapTyped, CallTyped DEF Discard
  <1>4. ASSUME NEW c \in Callers, NEW n \in Nat, StartSend(c, n) PROVE Goal
    BY <1>4, <1>a, <1>c, CallTyped DEF StartSend
  <1>5. ASSUME NEW c \in Callers, MulticastToNobody(c) PROVE Goal
    BY <1>5, <1>c, HeapTyped, CallTyped DEF MulticastToNobody
  <1>6. ASSUME NEW c \in Callers, SetupMessage(c) PROVE Goal
    <2>1. PICK m \in Messages :
            /\ AddToMessage(payload[c], m, length[c])
            /\ msgState' = [msgState EXCEPT ![m] = "attached"]
      BY <1>6, MessagesOfCaller DEF SetupMessage
    <2>2. SendSize(payload[c], length[c]) \in Nat
      BY <1>0, CeilToWordNat DEF SendSize, CallTypeOK
    <2>3. HeapTypeOK'
      BY <2>1, HeapTyped DEF AddToMessage
    <2>4. MsgTypeOK'
      BY <1>0, <1>6, <2>1, <2>2
         DEF MsgTypeOK, CallTypeOK, MsgState, AddToMessage, SetupMessage
    <2>5. CallTypeOK'
      BY <1>0, <1>6 DEF CallTypeOK, PC, SetupMessage
    <2>6. QED
      BY <2>3, <2>4, <2>5
  <1>7. ASSUME NEW c \in Callers, SendReturns(c) PROVE Goal
    BY <1>7, <1>a, <1>c, CallTyped DEF SendReturns, heapVars, msgVars
  <1>8. ASSUME NEW m \in Messages, Submit(m) PROVE Goal
    BY <1>0, <1>8, <1>a, <1>b
       DEF Submit, MsgTypeOK, MsgState, heapVars, callVars
  <1>9. ASSUME NEW m \in Messages, BeginRead(m) \/ EndRead(m) PROVE Goal
    BY <1>0, <1>9, <1>a, <1>b
       DEF BeginRead, EndRead, MsgTypeOK, heapVars, callVars
  <1>10. ASSUME NEW m \in Messages, DropReference(m) PROVE Goal
    <2>1. HeapTypeOK'
      BY <1>10, HeapTyped DEF DropReference
    <2>2. MsgTypeOK'
      BY <1>0, <1>10 DEF MsgTypeOK, MsgState, DropReference, Recycle
    <2>3. QED
      BY <1>10, <1>b, <2>1, <2>2 DEF DropReference, callVars
  <1>11. ASSUME NEW m \in Messages, DeallocateLast(m) PROVE Goal
    <2>1. HeapTypeOK'
      BY <1>11, HeapTyped DEF DeallocateLast
    <2>2. MsgTypeOK'
      BY <1>0, <1>11 DEF MsgTypeOK, MsgState, DeallocateLast, Recycle
    <2>3. QED
      BY <1>11, <1>b, <2>1, <2>2 DEF DeallocateLast, callVars
  <1>12. CASE UNCHANGED vars
    BY <1>12, <1>a, <1>b, <1>c DEF vars
  <1>13. QED
    <2>1. ASSUME NEW c \in Callers, CallerStep(c) PROVE Goal
      BY <2>1, <1>1, <1>2, <1>3, <1>4, <1>5, <1>6, <1>7, MaxMessagesAssumption
         DEF CallerStep, Unicast, Multicast
    <2>2. ASSUME NEW m \in Messages, MessageStep(m) PROVE Goal
      BY <2>2, <1>8, <1>9, <1>10, <1>11 DEF MessageStep
    <2>3. QED
      BY <1>12, <2>1, <2>2 DEF Next
\* Multicast is well-typed: every variable of the heap, the callers and the
\* messages stays in its type whatever the callers and GNS do.
THEOREM TypeCorrect == Spec => []TypeOK
  <1>1. Init => TypeOK
    BY DEF Init, HeapInit, TypeOK, HeapTypeOK, PC, MsgState
  <1>2. QED
    BY <1>1, TypeStep, PTL DEF Spec
-----------------------------------------------------------------------------
LEMMA HoldersFinite == \A p \in Payloads : IsFiniteSet(Holders(p))
  BY MessagesFinite, FS_Subset DEF Holders

\* Steps that leave the counts and the holders alone keep them equal.
LEMMA RefCountFrame ==
    ASSUME RefCountIsHolders,
           \A p \in Payloads : live'[p] => live[p] /\ refCount'[p] = refCount[p],
           \A p \in Payloads : live'[p] => Holders(p)' = Holders(p)
    PROVE  RefCountIsHolders'
  BY DEF RefCountIsHolders

LEMMA AllocateKeepsInv ==
    ASSUME IInv, NEW c \in Callers, Allocate(c), TypeOK'
    PROVE  IInv'
  <1> USE DEF IInv, TypeOK, HeapTypeOK
  <1>1. PICK p \in Payloads, size \in RequestSizes :
          AllocateAt(p, size) /\ payload' = [payload EXCEPT ![c] = p]
    BY DEF Allocate
  <1>2. /\ ~live[p]
        /\ live' = [live EXCEPT ![p] = TRUE]
        /\ refCount' = [refCount EXCEPT ![p] = 0]
        /\ pc[c] = "idle"
        /\ pc' = [pc EXCEPT ![c] = "owner"]
        /\ UNCHANGED <<todo, msgState, msgPayload, msgSize, reading>>
    BY <1>1 DEF Allocate, AllocateAt, msgVars
  <1>3. \A m \in Messages : msgState[m] # "free" => msgPayload[m] # p
    BY <1>2 DEF MessagesInv
  <1>4. \A d \in Callers : pc[d] \in {"owner", "setup"} => payload[d] # p
    BY <1>2 DEF CallersInv
  <1>5. RefCountIsHolders'
    <2>1. Holders(p)' = {}
      BY <1>2, <1>3 DEF Holders
    <2>2. \A q \in Payloads : Holders(q)' = Holders(q)
      BY <1>2 DEF Holders
    <2>3. QED
      BY <1>2, <2>1, <2>2, FS_EmptySet DEF RefCountIsHolders
  <1>6. CallersInv'
    BY <1>1, <1>2, <1>3, <1>4 DEF CallersInv
  <1>7. MessagesInv'
    BY <1>1, <1>2, MessageCaller DEF MessagesInv
  <1>8. ReachableInv'
    BY <1>1, <1>2 DEF ReachableInv, Works
  <1>9. ReadsInv'
    BY <1>2 DEF ReadsInv
  <1>10. QED
    BY <1>5, <1>6, <1>7, <1>8, <1>9
\* Discard, and a multicast on no connection.
LEMMA GiveUpKeepsInv ==
    ASSUME IInv, NEW c \in Callers, pc[c] = "owner",
           ForceDeallocate(payload[c]), Done(c), UNCHANGED msgVars, TypeOK'
    PROVE  IInv'
  <1> USE DEF IInv, TypeOK, HeapTypeOK
  <1>1. /\ payload[c] \in Payloads
        /\ \A d \in Callers : 
             pc[d] \in {"owner", "setup"} /\ payload[d] = payload[c] => d = c
        /\ \A m \in Messages : msgState[m] # "free" => msgPayload[m] # payload[c]
    BY DEF CallersInv
  <1>2. /\ live' = [live EXCEPT ![payload[c]] = FALSE]
        /\ pc' = [pc EXCEPT ![c] = "idle"]
        /\ payload' = [payload EXCEPT ![c] = NoPayload]
        /\ todo' = [todo EXCEPT ![c] = 0]
        /\ UNCHANGED <<bytes, sizeField, refCount, msgState, msgPayload, reading>>
    BY DEF ForceDeallocate, Done, msgVars
  <1>3. RefCountIsHolders'
    <2>1. \A q \in Payloads : Holders(q)' = Holders(q)
      BY <1>2 DEF Holders
    <2>2. \A q \in Payloads : live'[q] => live[q]
      BY <1>2
    <2>3. QED
      BY <1>2, <2>1, <2>2, RefCountFrame
  <1>4. CallersInv'
    BY <1>1, <1>2 DEF CallersInv
  <1>5. MessagesInv'
    BY <1>1, <1>2, MessageCaller DEF MessagesInv
  <1>6. ReachableInv'
    BY <1>1, <1>2 DEF ReachableInv, Works
  <1>7. ReadsInv'
    BY <1>2 DEF ReadsInv
  <1>8. QED
    BY <1>3, <1>4, <1>5, <1>6, <1>7

LEMMA StartSendKeepsInv ==
    ASSUME IInv, NEW c \in Callers, pc[c] = "owner",
           NEW n \in Nat, n >= 1, StartSend(c, n), TypeOK'
    PROVE  IInv'
  <1> USE DEF IInv, TypeOK, HeapTypeOK
  <1>1. /\ pc' = [pc EXCEPT ![c] = "setup"]
        /\ todo' = [todo EXCEPT ![c] = n]
        /\ UNCHANGED <<payload, live, bytes, sizeField, refCount>>
        /\ UNCHANGED <<msgState, msgPayload, reading>>
    BY DEF StartSend, heapVars, msgVars
  <1>2. \A m \in Messages : msgState[m] # "free" => msgPayload[m] # payload[c]
    BY DEF CallersInv
  <1>3. RefCountIsHolders'
    BY <1>1, RefCountFrame DEF Holders
  <1>4. CallersInv'
    BY <1>1, <1>2 DEF CallersInv
  <1>5. MessagesInv'
    BY <1>1, <1>2, MessageCaller DEF MessagesInv
  <1>6. ReachableInv'
    BY <1>1 DEF ReachableInv, Works
  <1>7. ReadsInv'
    BY <1>1 DEF ReadsInv
  <1>8. QED
    BY <1>3, <1>4, <1>5, <1>6, <1>7

LEMMA SetupMessageKeepsInv ==
    ASSUME IInv, NEW c \in Callers, SetupMessage(c), TypeOK'
    PROVE  IInv'
  <1> USE DEF IInv, TypeOK, HeapTypeOK
  <1>0. PICK p \in Payloads : p = payload[c]
    BY DEF SetupMessage, CallersInv
  <1>1. PICK m \in Messages :
          /\ m[1] = c /\ msgState[m] = "free" /\ reading[m] = NoPayload
          /\ AddToMessage(p, m, length[c])
          /\ msgState' = [msgState EXCEPT ![m] = "attached"]
    BY <1>0 DEF SetupMessage, FreeMessages, MessagesOf
  <1>2. /\ pc[c] = "setup"
        /\ p = payload[c] /\ live[p] /\ todo[c] >= 1
        /\ \A d \in Callers :
             pc[d] \in {"owner", "setup"} /\ payload[d] = p => d = c
        /\ \A k \in Messages : msgPayload[k] = p /\ msgState[k] # "free" =>
                                 k[1] = c /\ msgState[k] = "attached"
    BY <1>0 DEF SetupMessage, CallersInv
  <1>3. /\ refCount' = [refCount EXCEPT ![p] = @ + 1]
        /\ msgPayload' = [msgPayload EXCEPT ![m] = p]
        /\ todo' = [todo EXCEPT ![c] = @ - 1]
        /\ pc' = [pc EXCEPT ![c] = IF todo[c] = 1 THEN "sending" ELSE "setup"]
        /\ UNCHANGED <<live, bytes, sizeField, payload, reading>>
    BY <1>1 DEF SetupMessage, AddToMessage, IncreaseRefCount
  <1>4. RefCountIsHolders'
    <2>1. Holders(p)' = Holders(p) \cup {m} /\ m \notin Holders(p)
      BY <1>1, <1>2, <1>3 DEF Holders
    <2>2. \A q \in Payloads : q # p => Holders(q)' = Holders(q)
      BY <1>1, <1>2, <1>3 DEF Holders
    <2>3. Cardinality(Holders(p)') = Cardinality(Holders(p)) + 1
      <3>1. Cardinality(Holders(p) \cup {m}) = Cardinality(Holders(p)) + 1
        BY <2>1, HoldersFinite, FS_AddElement
      <3>2. QED
        BY <2>1, <3>1, Zenon
    <2>4. refCount[p] = Cardinality(Holders(p))
      BY <1>2 DEF RefCountIsHolders
    <2>5. refCount'[p] = Cardinality(Holders(p)')
      BY <1>2, <1>3, <2>3, <2>4
    <2>6. \A q \in Payloads : q # p => refCount'[q] = refCount[q]
      BY <1>3
    <2>7. QED
      BY <1>3, <2>2, <2>5, <2>6 DEF RefCountIsHolders
  <1>5. CallersInv'
    BY <1>1, <1>2, <1>3, MessageCaller DEF CallersInv
  <1>6. MessagesInv'
    BY <1>1, <1>2, <1>3, MessageCaller DEF MessagesInv
  <1>7. ReachableInv'
    <2>1. msgState'[m] # "free" /\ msgPayload'[m] = p
      BY <1>1, <1>3
    <2>2. QED
      BY <1>1, <1>2, <1>3, <2>1 DEF ReachableInv, Works
  <1>8. ReadsInv'
    BY <1>1, <1>3 DEF ReadsInv
  <1>9. QED
    BY <1>4, <1>5, <1>6, <1>7, <1>8

LEMMA SubmitKeepsInv ==
    ASSUME IInv, NEW m \in Messages, Submit(m), TypeOK'
    PROVE  IInv'
  <1> USE DEF IInv, TypeOK, HeapTypeOK
  <1>1. /\ pc[m[1]] = "sending" /\ msgState[m] = "attached"
        /\ \/ msgState' = [msgState EXCEPT ![m] = "queued"]
           \/ msgState' = [msgState EXCEPT ![m] = "rejected"]
        /\ UNCHANGED <<live, bytes, sizeField, refCount, pc, payload, todo>>
        /\ UNCHANGED <<msgPayload, reading>>
    BY DEF Submit, heapVars, callVars
  <1>2. RefCountIsHolders'
    <2>1. \A q \in Payloads : Holders(q)' = Holders(q)
      BY <1>1 DEF Holders
    <2>2. QED
      BY <1>1, <2>1, RefCountFrame
  <1>3. CallersInv'
    BY <1>1 DEF CallersInv
  <1>4. MessagesInv'
    BY <1>1 DEF MessagesInv
  <1>5. ReachableInv'
    BY <1>1 DEF ReachableInv, Works
  <1>6. ReadsInv'
    BY <1>1 DEF ReadsInv
  <1>7. QED
    BY <1>2, <1>3, <1>4, <1>5, <1>6

LEMMA SendReturnsKeepsInv ==
    ASSUME IInv, NEW c \in Callers, SendReturns(c), TypeOK'
    PROVE  IInv'
  <1> USE DEF IInv, TypeOK, HeapTypeOK
  <1>1. /\ pc[c] = "sending"
        /\ \A m \in Messages : m[1] = c => msgState[m] # "attached"
        /\ pc' = [pc EXCEPT ![c] = "idle"]
        /\ payload' = [payload EXCEPT ![c] = NoPayload]
        /\ todo' = [todo EXCEPT ![c] = 0]
        /\ UNCHANGED <<live, bytes, sizeField, refCount>>
        /\ UNCHANGED <<msgState, msgPayload, reading>>
    BY DEF SendReturns, Done, MessagesOf, heapVars, msgVars
  <1>2. RefCountIsHolders'
    BY <1>1, RefCountFrame DEF Holders
  <1>3. CallersInv'
    BY <1>1 DEF CallersInv
  <1>4. MessagesInv'
    BY <1>1, MessageCaller DEF MessagesInv
  <1>5. ReachableInv'
    BY <1>1 DEF ReachableInv, Works
  <1>6. ReadsInv'
    BY <1>1 DEF ReadsInv
  <1>7. QED
    BY <1>2, <1>3, <1>4, <1>5, <1>6

LEMMA DropReferenceKeepsInv ==
    ASSUME IInv, NEW m \in Messages, DropReference(m), TypeOK'
    PROVE  IInv'
  <1> USE DEF IInv, TypeOK, HeapTypeOK
  <1>0. PICK p \in Payloads : p = msgPayload[m]
    BY DEF DropReference, MessagesInv
  <1>1. /\ msgState[m] \in {"queued", "rejected"}
        /\ p = msgPayload[m] /\ live[p]
    BY <1>0 DEF DropReference, MessagesInv
  <1>2. /\ reading[m] = NoPayload \/ WeakMemory
        /\ refCount' = [refCount EXCEPT ![p] = @ - 1]
        /\ UNCHANGED <<live, bytes, sizeField, pc, payload, todo, reading>>
    BY <1>0 DEF DropReference, DecreaseRefCount, callVars
  <1>3. /\ refCount[p] = 1 => 
             /\ msgState' = [msgState EXCEPT ![m] = "freeing"]
             /\ msgPayload' = msgPayload
        /\ refCount[p] # 1 =>
             /\ msgState' = [msgState EXCEPT ![m] = "free"]
             /\ msgPayload' = [msgPayload EXCEPT ![m] = NoPayload]
    BY <1>0 DEF DropReference, WasLastReference, Recycle
  <1>4. /\ m \in Holders(p)
        /\ IsFiniteSet(Holders(p))
        /\ refCount[p] = Cardinality(Holders(p))
    BY <1>1, HoldersFinite DEF Holders, RefCountIsHolders
  <1>5. \A n \in Messages : msgState[n] = "freeing" => msgPayload[n] # p
    BY <1>1 DEF MessagesInv
  <1>6. \A c \in Callers : pc[c] \in {"owner", "setup"} => payload[c] # p
    BY <1>1 DEF CallersInv
  <1>7. refCount[p] = 1 => Holders(p) = {m}
    <2> SUFFICES ASSUME Cardinality(Holders(p)) = 1 PROVE Holders(p) = {m}
      BY <1>4
    <2>1. Cardinality(Holders(p) \ {m}) = Cardinality(Holders(p)) - 1
      BY <1>4, FS_RemoveElement
    <2>2. Holders(p) \ {m} = {}
      <3>1. Cardinality(Holders(p) \ {m}) = 0
        BY <2>1
      <3>2. IsFiniteSet(Holders(p) \ {m})
        BY <1>4, FS_RemoveElement
      <3>3. QED
        BY <3>1, <3>2, FS_EmptySet, Zenon
    <2>3. QED
      BY <1>4, <2>2
  <1>8. refCount[p] # 1 => \E n \in Messages : n \in Holders(p) /\ n # m
    <2> SUFFICES ASSUME Cardinality(Holders(p)) # 1,
                        ~ \E n \in Messages : n \in Holders(p) /\ n # m
                 PROVE  FALSE
      BY <1>4
    <2>1. Holders(p) = {m}
      BY <1>4 DEF Holders
    <2>2. QED
      BY <2>1, FS_Singleton
  <1>9. RefCountIsHolders'
    <2>1. Holders(p)' = Holders(p) \ {m}
      BY <1>1, <1>3 DEF Holders
    <2>2. \A q \in Payloads : q # p => Holders(q)' = Holders(q)
      BY <1>1, <1>3, NoPayloadAssumption DEF Holders
    <2>3. Cardinality(Holders(p)') = Cardinality(Holders(p)) - 1
      <3>1. Cardinality(Holders(p) \ {m}) = Cardinality(Holders(p)) - 1
        BY <1>4, FS_RemoveElement
      <3>2. QED
        BY <2>1, <3>1, Zenon
    <2>4. refCount'[p] = Cardinality(Holders(p)')
      BY <1>1, <1>2, <1>4, <2>3
    <2>5. \A q \in Payloads : q # p => refCount'[q] = refCount[q]
      BY <1>2
    <2>6. QED
      BY <1>2, <2>2, <2>4, <2>5 DEF RefCountIsHolders
  <1>10. CallersInv'
    BY <1>1, <1>2, <1>3, <1>6 DEF CallersInv
  <1>11. MessagesInv'
    <2>1. \A n \in Messages : n # m => /\ msgState'[n] = msgState[n]
                                       /\ msgPayload'[n] = msgPayload[n]
      BY <1>3
    <2>2. CASE refCount[p] = 1
      <3>1. \A n \in Messages : msgState[n] # "free" /\ msgPayload[n] = p => n = m
        BY <1>5, <1>7, <2>2 DEF Holders, MsgState
      <3>2. QED
        BY <1>1, <1>2, <1>3, <2>1, <2>2, <3>1, MessageCaller DEF MessagesInv
    <2>3. CASE refCount[p] # 1
      BY <1>1, <1>2, <1>3, <2>1, <2>3, MessageCaller DEF MessagesInv
    <2>4. QED
      BY <2>2, <2>3
  <1>12. ReachableInv'
    <2>1. CASE refCount[p] = 1
      BY <1>2, <1>3, <2>1 DEF ReachableInv, Works
    <2>2. CASE refCount[p] # 1
      <3>1. PICK n \in Messages : n \in Holders(p) /\ n # m
        BY <1>8, <2>2
      <3>2. msgState'[n] # "free" /\ msgPayload'[n] = p
        BY <1>3, <2>2, <3>1 DEF Holders
      <3>3. ASSUME NEW q \in Payloads, q # p, NEW k \in Messages,
                   msgState[k] # "free", msgPayload[k] = q
            PROVE  msgState'[k] # "free" /\ msgPayload'[k] = q
        BY <1>1, <1>3, <2>2, <3>3
      <3>4. QED
        BY <1>2, <3>2, <3>3 DEF ReachableInv, Works
    <2>3. QED
      BY <2>1, <2>2
  <1>13. ReadsInv'
    BY <1>2, <1>3 DEF ReadsInv
  <1>14. QED
    BY <1>9, <1>10, <1>11, <1>12, <1>13

LEMMA DeallocateLastKeepsInv ==
    ASSUME IInv, NEW m \in Messages, DeallocateLast(m), TypeOK'
    PROVE  IInv'
  <1> USE DEF IInv, TypeOK, HeapTypeOK
  <1> DEFINE p == msgPayload[m]
  <1>1. /\ msgState[m] = "freeing"
        /\ p \in Payloads
        /\ \A n \in Messages : msgState[n] # "free" /\ msgPayload[n] = p => n = m
    BY DEF DeallocateLast, MessagesInv
  <1>2. /\ live' = [live EXCEPT ![p] = FALSE]
        /\ msgState' = [msgState EXCEPT ![m] = "free"]
        /\ msgPayload' = [msgPayload EXCEPT ![m] = NoPayload]
        /\ UNCHANGED <<bytes, sizeField, refCount, pc, payload, todo, reading>>
        /\ reading[m] = NoPayload
    BY DEF DeallocateLast, ForceDeallocate, Recycle, callVars
  <1>3. \A c \in Callers : pc[c] \in {"owner", "setup"} => payload[c] # p
    BY <1>1 DEF CallersInv
  <1>4. RefCountIsHolders'
    <2>1. \A q \in Payloads : Holders(q)' = Holders(q)
      BY <1>1, <1>2, NoPayloadAssumption DEF Holders
    <2>2. \A q \in Payloads : live'[q] => live[q]
      BY <1>2
    <2>3. QED
      BY <1>2, <2>1, <2>2, RefCountFrame
  <1>5. CallersInv'
    BY <1>1, <1>2, <1>3 DEF CallersInv
  <1>6. MessagesInv'
    BY <1>1, <1>2, MessageCaller DEF MessagesInv
  <1>7. ReachableInv'
    BY <1>1, <1>2 DEF ReachableInv, Works
  <1>8. ReadsInv'
    BY <1>2 DEF ReadsInv
  <1>9. QED
    BY <1>4, <1>5, <1>6, <1>7, <1>8

\* Steps that touch nothing the invariant reads, or only where a read is.
LEMMA FrameKeepsInv ==
    ASSUME IInv, TypeOK', ReadsInv',
           UNCHANGED <<live, refCount, pc, payload, todo, msgState, msgPayload>>
    PROVE  IInv'
  <1>1. RefCountIsHolders'
    BY RefCountFrame DEF IInv, Holders
  <1>2. CallersInv'
    BY DEF IInv, CallersInv
  <1>3. MessagesInv'
    BY DEF IInv, MessagesInv
  <1>4. ReachableInv'
    BY DEF IInv, ReachableInv, Works
  <1>5. QED
    BY <1>1, <1>2, <1>3, <1>4 DEF IInv

LEMMA InvStep == IInv /\ [Next]_vars => IInv'
  <1> SUFFICES ASSUME IInv, [Next]_vars PROVE IInv'
    OBVIOUS
  <1>0. TypeOK'
    BY TypeStep DEF IInv
  <1>1. ASSUME NEW c \in Callers, UseBitStream(c) PROVE IInv'
    BY <1>0, <1>1, FrameKeepsInv
       DEF IInv, ReadsInv, UseBitStream, SetUsedBitStream, callVars, msgVars
  <1>2. ASSUME NEW c \in Callers, Discard(c) PROVE IInv'
    BY <1>0, <1>2, GiveUpKeepsInv DEF Discard
  <1>3. ASSUME NEW c \in Callers, Unicast(c) PROVE IInv'
    BY <1>0, <1>3, StartSendKeepsInv DEF Unicast
  <1>4. ASSUME NEW c \in Callers, Multicast(c) PROVE IInv'
    <2>1. pc[c] = "owner"
      BY <1>4 DEF Multicast
    <2>2. CASE MulticastToNobody(c)
      BY <1>0, <2>1, <2>2, GiveUpKeepsInv DEF MulticastToNobody
    <2>3. ASSUME NEW n \in 1 .. MaxMessages, StartSend(c, n) PROVE IInv'
      BY <1>0, <2>1, <2>3, StartSendKeepsInv, MaxMessagesAssumption
    <2>4. QED
      BY <1>4, <2>2, <2>3, MaxMessagesAssumption DEF Multicast
  <1>5. ASSUME NEW m \in Messages, BeginRead(m) PROVE IInv'
    <2>1. ReadsInv'
      BY <1>5 DEF IInv, TypeOK, ReadsInv, BeginRead
    <2>2. QED
      BY <1>0, <1>5, <2>1, FrameKeepsInv DEF BeginRead, heapVars, callVars
  <1>6. ASSUME NEW m \in Messages, EndRead(m) PROVE IInv'
    <2>1. ReadsInv'
      BY <1>6 DEF IInv, TypeOK, ReadsInv, EndRead
    <2>2. QED
      BY <1>0, <1>6, <2>1, FrameKeepsInv DEF EndRead, heapVars, callVars
  <1>7. CASE UNCHANGED vars
    BY <1>0, <1>7, FrameKeepsInv
       DEF IInv, ReadsInv, vars, heapVars, callVars, msgVars
  <1>8. ASSUME NEW c \in Callers, CallerStep(c) PROVE IInv'
    BY <1>0, <1>1, <1>2, <1>3, <1>4, <1>8, AllocateKeepsInv,
       SetupMessageKeepsInv, SendReturnsKeepsInv DEF CallerStep
  <1>9. ASSUME NEW m \in Messages, MessageStep(m) PROVE IInv'
    BY <1>0, <1>5, <1>6, <1>9, SubmitKeepsInv, DropReferenceKeepsInv,
       DeallocateLastKeepsInv DEF MessageStep
  <1>10. QED
    BY <1>7, <1>8, <1>9 DEF Next

LEMMA InvInit == Init => IInv
  <1> SUFFICES ASSUME Init PROVE IInv
    OBVIOUS
  <1>1. TypeOK
    BY DEF Init, HeapInit, TypeOK, HeapTypeOK, PC, MsgState
  <1>2. QED
    BY <1>1, MessageCaller
       DEF Init, HeapInit, IInv, RefCountIsHolders, CallersInv, MessagesInv,
           ReachableInv, ReadsInv

LEMMA InductiveInvariant == Spec => []IInv
  BY InvInit, InvStep, PTL DEF Spec

-----------------------------------------------------------------------------
\* Whichever callers and GNS threads run, in whatever order, the count of an
\* allocated payload is the number of messages that hold it.
THEOREM RefCountCorrect == Spec => []RefCountIsHolders
  BY InductiveInvariant, PTL DEF IInv

\* No caller in the middle of a send and no message is left with a payload
\* that was freed.
THEOREM NeverDangling == Spec => []NoDanglingReference
  <1>1. IInv => NoDanglingReference
    BY DEF IInv, CallersInv, MessagesInv, NoDanglingReference, Works, Holders,
           Freeing
  <1>2. QED
    BY <1>1, InductiveInvariant, PTL

\* No payload is lost: memory that is allocated can be reached.
THEOREM NeverLeaks == Spec => []NoLeak
  <1>1. IInv => NoLeak
    BY DEF IInv, TypeOK, MsgState, ReachableInv, NoLeak, Holders, Freeing
  <1>2. QED
    BY <1>1, InductiveInvariant, PTL

\* Where loads do not move past the fetch_sub, no payload is freed while it
\* is read.
THEOREM NeverReadAfterFree == ASSUME ~WeakMemory
                              PROVE  Spec => []NoReadAfterFree
  <1>1. IInv => NoReadAfterFree
    BY DEF IInv, MessagesInv, ReadsInv, NoReadAfterFree
  <1>2. QED
    BY <1>1, InductiveInvariant, PTL

-----------------------------------------------------------------------------
\* A block is as long as its rounded size, a call sends at most that size, and
\* what a message was told to send lies in its block, in whole words if a
\* bit_stream_writer filled it.
BlocksInv ==
    \A p \in Payloads : live[p] => /\ Size(p) <= MaxSend
                                  /\ bytes[p] = CeilToWord(Size(p))

CallLengthsInv ==
    \A c \in Callers : pc[c] = "setup" => length[c] <= Size(payload[c])

SizesInv == BlocksInv /\ CallLengthsInv /\ SentSizeFits

LEMMA CeilUp == \A n \in Nat : n <= CeilToWord(n)
  BY WordBytesAssumption DEF CeilToWord

LEMMA CeilMonotone == \A m, n \in Nat : m <= n => CeilToWord(m) <= CeilToWord(n)
  <1> TAKE m, n \in Nat
  <1> HAVE m <= n
  <1>1. (m + WordBytes - 1) \div WordBytes <= (n + WordBytes - 1) \div WordBytes
    BY WordBytesAssumption
  <1>2. \A a, b \in Nat : a <= b => a * WordBytes <= b * WordBytes
    BY WordBytesAssumption
  <1>3. /\ (m + WordBytes - 1) \div WordBytes \in Nat
        /\ (n + WordBytes - 1) \div WordBytes \in Nat
    BY WordBytesAssumption
  <1>4. QED
    BY <1>1, <1>2, <1>3 DEF CeilToWord

LEMMA CeilIsWords == \A n \in Nat : CeilToWord(n) % WordBytes = 0
  <1>1. \A a \in Nat : (a * WordBytes) % WordBytes = 0
    BY WordBytesAssumption
  <1>2. \A n \in Nat : (n + WordBytes - 1) \div WordBytes \in Nat
    BY WordBytesAssumption
  <1>3. QED
    BY <1>1, <1>2 DEF CeilToWord

LEMMA CeilOfWords == \A n \in Nat : n % WordBytes = 0 => CeilToWord(n) = n
  <1> TAKE n \in Nat
  <1> HAVE n % WordBytes = 0
  <1>1. \A k \in Nat : k \div WordBytes \in Nat
                     /\ k = (k \div WordBytes) * WordBytes + (k % WordBytes)
                     /\ k % WordBytes \in 0 .. WordBytes - 1
    BY WordBytesAssumption
  <1>2. n + WordBytes - 1 \in Nat
    BY WordBytesAssumption
  <1>3. PICK q \in Nat : n = q * WordBytes
    <2>1. n \div WordBytes \in Nat /\ n = (n \div WordBytes) * WordBytes + 0
      BY <1>1
    <2>2. PICK q \in Nat : n = q * WordBytes + 0
      BY <2>1
    <2>3. q * WordBytes \in Nat
      BY WordBytesAssumption
    <2>4. QED
      BY <2>2, <2>3
  <1>4. PICK j \in Nat : /\ j = (n + WordBytes - 1) \div WordBytes
                         /\ n + WordBytes - 1 - j * WordBytes \in 0 .. WordBytes - 1
    BY <1>1, <1>2, WordBytesAssumption
  <1>5. (j - q) * WordBytes \in 0 .. WordBytes - 1
    <2>1. (j - q) * WordBytes = j * WordBytes - q * WordBytes
      BY WordBytesAssumption
    <2>2. QED
      BY <1>3, <1>4, <2>1, WordBytesAssumption
  <1>6. j = q
    <2>1. \A d \in Int : d >= 1 => d * WordBytes >= WordBytes
      BY WordBytesAssumption
    <2>2. \A d \in Int : d <= -1 => d * WordBytes < 0
      BY WordBytesAssumption
    <2>3. j - q \in Int
      OBVIOUS
    <2>4. QED
      BY <1>5, <2>1, <2>2, <2>3, WordBytesAssumption
  <1>7. QED
    BY <1>3, <1>4, <1>6 DEF CeilToWord

\* The flag does not touch the size.
LEMMA SizeOfField ==
    ASSUME NEW n \in Nat, n < FlagMask
    PROVE  n % FlagMask = n /\ (n + FlagMask) % FlagMask = n
  BY FlagMaskAssumption, MaxSendAssumption

\* What add_to_message sends of a block lies in the block.
LEMMA SendSizeOK ==
    ASSUME TypeOK, NEW p \in Payloads, NEW l \in Nat, l <= Size(p),
           Size(p) <= MaxSend, bytes[p] = CeilToWord(Size(p))
    PROVE  /\ SendSize(p, l) <= bytes[p]
           /\ SendSize(p, l) <= MaxSend
           /\ UsedBitStream(p) => SendSize(p, l) % WordBytes = 0
  <1>1. Size(p) \in Nat /\ MaxSend \in Nat
    BY SizeNat, MaxSendAssumption
  <1>2. /\ Size(p) <= CeilToWord(Size(p))
        /\ CeilToWord(l) <= CeilToWord(Size(p))
        /\ CeilToWord(l) <= CeilToWord(MaxSend)
    BY <1>1, CeilUp, CeilMonotone
  <1>3. CeilToWord(MaxSend) = MaxSend
    BY MaxSendAssumption, CeilOfWords
  <1>4. CeilToWord(l) % WordBytes = 0
    BY CeilIsWords
  <1>5. CeilToWord(Size(p)) \in Nat
    BY <1>1, CeilToWordNat
  <1>6. CASE UsedBitStream(p)
    BY <1>2, <1>3, <1>4, <1>6 DEF SendSize
  <1>7. CASE ~UsedBitStream(p)
    BY <1>1, <1>2, <1>5, <1>7 DEF SendSize
  <1>8. QED
    BY <1>6, <1>7

\* Steps that leave the blocks, the calls that set up and the messages in use
\* as they were.
LEMMA SizesFrame ==
    ASSUME SizesInv, UNCHANGED <<bytes, sizeField>>,
           \A p \in Payloads : live'[p] => live[p],
           \A c \in Callers : pc'[c] = "setup" =>
               /\ pc[c] = "setup"
               /\ length'[c] = length[c] /\ payload'[c] = payload[c],
           \A m \in Messages : msgState'[m] \in {"attached", "queued"} =>
               /\ msgState[m] \in {"attached", "queued"}
               /\ msgPayload'[m] = msgPayload[m] /\ msgSize'[m] = msgSize[m]
    PROVE  SizesInv'
  <1>1. BlocksInv'
    BY DEF SizesInv, BlocksInv, Size
  <1>2. CallLengthsInv'
    BY DEF SizesInv, CallLengthsInv, Size
  <1>3. SentSizeFits'
    BY DEF SizesInv, SentSizeFits, UsedBitStream
  <1>4. QED
    BY <1>1, <1>2, <1>3 DEF SizesInv

LEMMA AllocateKeepsSizes ==
    ASSUME IInv, SizesInv, NEW c \in Callers, Allocate(c)
    PROVE  SizesInv'
  <1>0. TypeOK /\ HeapTypeOK
    BY DEF IInv, TypeOK
  <1>1. PICK p \in Payloads, size \in RequestSizes :
          AllocateAt(p, size) /\ payload' = [payload EXCEPT ![c] = p]
    BY DEF Allocate
  <1>2. /\ ~live[p] /\ size \in Nat /\ size <= MaxSend
        /\ live' = [live EXCEPT ![p] = TRUE]
        /\ bytes' = [bytes EXCEPT ![p] = CeilToWord(size)]
        /\ sizeField' = [sizeField EXCEPT ![p] = size]
        /\ pc' = [pc EXCEPT ![c] = "owner"]
        /\ UNCHANGED <<length, msgState, msgPayload, msgSize>>
    BY <1>1, RequestSizesAssumption DEF Allocate, AllocateAt, CanAllocate, msgVars
  <1>3. /\ \A q \in Payloads : q # p => /\ bytes'[q] = bytes[q]
                                         /\ sizeField'[q] = sizeField[q]
        /\ bytes'[p] = CeilToWord(size) /\ sizeField'[p] = size
    BY <1>0, <1>2 DEF HeapTypeOK
  <1>4. sizeField'[p] % FlagMask = size
    BY <1>2, <1>3, SizeOfField, FlagMaskAssumption, MaxSendAssumption
  <1>5. BlocksInv'
    BY <1>0, <1>2, <1>3, <1>4 DEF SizesInv, BlocksInv, Size, CeilToWord, HeapTypeOK
  <1>6. CallLengthsInv'
    <2>1. \A d \in Callers : pc[d] = "setup" => payload[d] \in Payloads /\ payload[d] # p
      BY <1>2 DEF IInv, CallersInv
    <2>2. \A d \in Callers : pc'[d] = "setup" =>
             pc[d] = "setup" /\ payload'[d] = payload[d]
      BY <1>0, <1>1, <1>2 DEF TypeOK
    <2>3. QED
      BY <1>2, <1>3, <2>1, <2>2 DEF SizesInv, CallLengthsInv, Size
  <1>7. SentSizeFits'
    <2>1. \A m \in Messages : msgState[m] # "free" =>
             msgPayload[m] \in Payloads /\ msgPayload[m] # p
      BY <1>2 DEF IInv, MessagesInv
    <2>2. QED
      BY <1>2, <1>3, <2>1 DEF SizesInv, SentSizeFits, UsedBitStream
  <1>8. QED
    BY <1>5, <1>6, <1>7 DEF SizesInv

LEMMA UseBitStreamKeepsSizes ==
    ASSUME IInv, SizesInv, NEW c \in Callers, UseBitStream(c)
    PROVE  SizesInv'
  <1>0. TypeOK /\ HeapTypeOK
    BY DEF IInv, TypeOK
  <1>1. PICK p \in Payloads : p = payload[c]
    BY DEF IInv, CallersInv, UseBitStream
  <1>2. /\ live[p]
        /\ sizeField' = [sizeField EXCEPT ![p] = Size(p) + FlagMask]
        /\ UNCHANGED <<live, bytes, pc, payload, length, msgState, msgPayload, msgSize>>
    BY <1>1 DEF IInv, CallersInv, UseBitStream, SetUsedBitStream, callVars, msgVars
  <1>3. Size(p) \in Nat /\ Size(p) < FlagMask
    BY <1>0, SizeNat, FlagMaskAssumption, MaxSendAssumption, <1>2 DEF SizesInv, BlocksInv
  <1>4. \A q \in Payloads : Size(q)' = Size(q)
    <2>1. sizeField'[p] % FlagMask = Size(p)
      BY <1>0, <1>2, <1>3, SizeOfField DEF HeapTypeOK
    <2>2. \A q \in Payloads : q # p => sizeField'[q] = sizeField[q]
      BY <1>0, <1>2 DEF HeapTypeOK
    <2>3. QED
      BY <2>1, <2>2 DEF Size
  <1>5. BlocksInv'
    BY <1>2, <1>4 DEF SizesInv, BlocksInv, CeilToWord
  <1>6. CallLengthsInv'
    <2>1. \A d \in Callers : pc[d] = "setup" => payload[d] \in Payloads
      BY DEF IInv, CallersInv
    <2>2. QED
      BY <1>2, <1>4, <2>1 DEF SizesInv, CallLengthsInv
  <1>7. SentSizeFits'
    <2>1. \A m \in Messages : msgState[m] # "free" =>
             msgPayload[m] \in Payloads /\ msgPayload[m] # p
      BY <1>1 DEF IInv, CallersInv, MessagesInv, UseBitStream
    <2>2. QED
      BY <1>0, <1>2, <2>1 DEF SizesInv, SentSizeFits, UsedBitStream, HeapTypeOK
  <1>8. QED
    BY <1>5, <1>6, <1>7 DEF SizesInv

LEMMA StartSendKeepsSizes ==
    ASSUME IInv, SizesInv, NEW c \in Callers, NEW n \in Nat, StartSend(c, n)
    PROVE  SizesInv'
  <1>1. PICK l \in Nat : l <= Size(payload[c]) /\ length' = [length EXCEPT ![c] = l]
    BY LengthsAssumption DEF StartSend
  <1>2. /\ pc' = [pc EXCEPT ![c] = "setup"]
        /\ UNCHANGED <<payload, live, bytes, sizeField, msgState, msgPayload, msgSize>>
    BY DEF StartSend, heapVars, msgVars
  <1>3. CallLengthsInv'
    BY <1>1, <1>2 DEF SizesInv, CallLengthsInv, Size, IInv, TypeOK
  <1>4. QED
    BY <1>2, <1>3 DEF SizesInv, BlocksInv, SentSizeFits, Size, UsedBitStream

LEMMA SetupMessageKeepsSizes ==
    ASSUME IInv, SizesInv, NEW c \in Callers, SetupMessage(c)
    PROVE  SizesInv'
  <1>0. TypeOK
    BY DEF IInv
  <1>1. PICK p \in Payloads : p = payload[c] /\ live[p]
    BY DEF IInv, CallersInv, SetupMessage
  <1>2. PICK m \in Messages :
          /\ AddToMessage(p, m, length[c])
          /\ msgState' = [msgState EXCEPT ![m] = "attached"]
    BY <1>1, MessagesOfCaller DEF SetupMessage
  <1>3. /\ msgPayload' = [msgPayload EXCEPT ![m] = p]
        /\ msgSize' = [msgSize EXCEPT ![m] = SendSize(p, length[c])]
        /\ pc[c] = "setup"
        /\ pc' = [pc EXCEPT ![c] = IF todo[c] = 1 THEN "sending" ELSE "setup"]
        /\ UNCHANGED <<live, bytes, sizeField, payload, length>>
    BY <1>2 DEF SetupMessage, AddToMessage, IncreaseRefCount
  <1>4. /\ SendSize(p, length[c]) <= bytes[p]
        /\ SendSize(p, length[c]) <= MaxSend
        /\ UsedBitStream(p) => SendSize(p, length[c]) % WordBytes = 0
    BY <1>0, <1>1, <1>3, SendSizeOK DEF SizesInv, BlocksInv, CallLengthsInv, TypeOK
  <1>5. SentSizeFits'
    <2>1. ASSUME NEW k \in Messages, k # m, msgState'[k] \in {"attached", "queued"}
          PROVE  /\ msgState[k] \in {"attached", "queued"}
                 /\ msgPayload'[k] = msgPayload[k] /\ msgSize'[k] = msgSize[k]
      BY <1>0, <1>2, <1>3, <2>1 DEF TypeOK
    <2>2. msgPayload'[m] = p /\ msgSize'[m] = SendSize(p, length[c])
      BY <1>0, <1>3 DEF TypeOK
    <2>3. QED
      BY <1>3, <1>4, <2>1, <2>2 DEF SizesInv, SentSizeFits, UsedBitStream
  <1>6. CallLengthsInv'
    BY <1>0, <1>3 DEF SizesInv, CallLengthsInv, Size, TypeOK
  <1>7. QED
    BY <1>3, <1>5, <1>6 DEF SizesInv, BlocksInv, Size

LEMMA SizesStep == IInv /\ SizesInv /\ [Next]_vars => SizesInv'
  <1> SUFFICES ASSUME IInv, SizesInv, [Next]_vars PROVE SizesInv'
    OBVIOUS
  <1>0. /\ live \in [Payloads -> BOOLEAN] /\ pc \in [Callers -> PC]
        /\ msgState \in [Messages -> MsgState]
    BY DEF IInv, TypeOK, HeapTypeOK
  <1>1. ASSUME NEW c \in Callers, Discard(c) \/ MulticastToNobody(c) PROVE SizesInv'
    <2>1. PICK p : ForceDeallocate(p)
      BY <1>1 DEF Discard, MulticastToNobody
    <2>2. /\ live' = [live EXCEPT ![p] = FALSE]
          /\ pc' = [pc EXCEPT ![c] = "idle"]
          /\ payload' = [payload EXCEPT ![c] = NoPayload]
          /\ length' = [length EXCEPT ![c] = 0]
          /\ UNCHANGED <<bytes, sizeField, msgState, msgPayload, msgSize>>
      BY <1>1, <2>1 DEF Discard, MulticastToNobody, ForceDeallocate, Done, msgVars
    <2>3. QED
      BY <1>0, <2>2, SizesFrame
  <1>2. ASSUME NEW c \in Callers, NEW n \in Nat, StartSend(c, n) PROVE SizesInv'
    BY <1>2, StartSendKeepsSizes
  <1>3. ASSUME NEW c \in Callers, SendReturns(c) PROVE SizesInv'
    <2>1. /\ pc' = [pc EXCEPT ![c] = "idle"]
          /\ payload' = [payload EXCEPT ![c] = NoPayload]
          /\ length' = [length EXCEPT ![c] = 0]
          /\ UNCHANGED <<live, bytes, sizeField, msgState, msgPayload, msgSize>>
      BY <1>3 DEF SendReturns, Done, heapVars, msgVars
    <2>2. QED
      BY <1>0, <2>1, SizesFrame
  <1>4. ASSUME NEW m \in Messages, Submit(m) PROVE SizesInv'
    <2>1. /\ msgState[m] = "attached"
          /\ \/ msgState' = [msgState EXCEPT ![m] = "queued"]
             \/ msgState' = [msgState EXCEPT ![m] = "rejected"]
          /\ UNCHANGED <<live, bytes, sizeField, pc, payload, length>>
          /\ UNCHANGED <<msgPayload, msgSize>>
      BY <1>4 DEF Submit, heapVars, callVars
    <2>2. QED
      BY <1>0, <2>1, SizesFrame
  <1>5. ASSUME NEW m \in Messages, BeginRead(m) \/ EndRead(m) PROVE SizesInv'
    BY <1>5, SizesFrame DEF BeginRead, EndRead, heapVars, callVars
  <1>6. ASSUME NEW m \in Messages, DropReference(m) \/ DeallocateLast(m)
        PROVE  SizesInv'
    <2>1. PICK p : live' = live \/ live' = [live EXCEPT ![p] = FALSE]
      BY <1>6 DEF DropReference, DeallocateLast, ForceDeallocate, DecreaseRefCount
    <2>2. /\ \/ /\ msgState' = [msgState EXCEPT ![m] = "freeing"]
                /\ UNCHANGED <<msgPayload, msgSize>>
             \/ /\ msgState' = [msgState EXCEPT ![m] = "free"]
                /\ msgPayload' = [msgPayload EXCEPT ![m] = NoPayload]
                /\ msgSize' = [msgSize EXCEPT ![m] = 0]
          /\ UNCHANGED <<bytes, sizeField, pc, payload, length>>
      BY <1>6 DEF DropReference, DeallocateLast, ForceDeallocate, DecreaseRefCount,
                  Recycle, callVars
    <2>3. \A k \in Messages : msgState'[k] \in {"attached", "queued"} => k # m
      BY <1>0, <2>2
    <2>4. msgPayload \in [Messages -> Payloads \cup {NoPayload}]
          /\ msgSize \in [Messages -> Nat]
      BY DEF IInv, TypeOK
    <2>5. \A k \in Messages : k # m => /\ msgState'[k] = msgState[k]
                                       /\ msgPayload'[k] = msgPayload[k]
                                       /\ msgSize'[k] = msgSize[k]
      BY <1>0, <2>2, <2>4
    <2>6. \A q \in Payloads : live'[q] => live[q]
      BY <1>0, <2>1
    <2>7. QED
      BY <2>2, <2>3, <2>5, <2>6, SizesFrame
  <1>7. CASE UNCHANGED vars
    BY <1>7, SizesFrame DEF vars, heapVars, callVars, msgVars
  <1>8. ASSUME NEW c \in Callers, CallerStep(c) PROVE SizesInv'
    BY <1>1, <1>2, <1>3, <1>8, AllocateKeepsSizes, UseBitStreamKeepsSizes,
       SetupMessageKeepsSizes, MaxMessagesAssumption DEF CallerStep, Unicast, Multicast
  <1>9. ASSUME NEW m \in Messages, MessageStep(m) PROVE SizesInv'
    BY <1>4, <1>5, <1>6, <1>9 DEF MessageStep
  <1>10. QED
    BY <1>7, <1>8, <1>9 DEF Next

\* Whatever sizes are asked for and lengths are sent, what GNS is told to send
\* lies in the block, in whole words if a bit_stream_writer filled it: the
\* roundings of allocate() and of add_to_message() agree for any word.
THEOREM SentSizesFit == Spec => []SentSizeFits
  <1>1. Init => SizesInv
    BY MessageCaller DEF Init, HeapInit, SizesInv, BlocksInv, CallLengthsInv, SentSizeFits
  <1>2. SizesInv => SentSizeFits
    BY DEF SizesInv
  <1>3. QED
    BY <1>1, <1>2, SizesStep, InductiveInvariant, PTL DEF Spec

-----------------------------------------------------------------------------
\* The refinement mapping of Ownership, by name.
Owner == [p \in Payloads |->
            IF ~live[p] THEN "nobody"
            ELSE IF \E c \in Callers : Works(c, p) THEN "user" ELSE "messages"]

Carriers == [p \in Payloads |-> Holders(p) \cup Freeing(p)]

OwnershipStutters == Owner' = Owner /\ Carriers' = Carriers

OwnershipStep == Ownership!Next \/ OwnershipStutters

LEMMA MappedSteps ==
    ASSUME NEW p \in Payloads
    PROVE  /\ /\ Owner[p] = "nobody"
              /\ Owner' = [Owner EXCEPT ![p] = "user"]
              /\ Carriers' = Carriers
              => Ownership!Create(p)
           /\ /\ Owner[p] = "user" /\ Carriers[p] = {}
              /\ Owner' = [Owner EXCEPT ![p] = "nobody"]
              /\ Carriers' = Carriers
              => Ownership!Discard(p)
           /\ \A m \in Messages :
                /\ Owner[p] = "user"
                /\ \A q \in Payloads : m \notin Carriers[q]
                /\ Carriers' = [Carriers EXCEPT ![p] = @ \cup {m}]
                /\ \E o \in {"user", "messages"} : Owner' = [Owner EXCEPT ![p] = o]
                => Ownership!Attach(p, m)
           /\ \A m \in Messages :
                /\ Owner[p] = "messages" /\ m \in Carriers[p]
                /\ Carriers' = [Carriers EXCEPT ![p] = @ \ {m}]
                /\ Owner' = [Owner EXCEPT ![p] = IF Carriers'[p] = {} THEN "nobody" ELSE @]
                => Ownership!Release(p, m)
  BY Zenon DEF Owner, Carriers, Ownership!Create, Ownership!Discard, Ownership!Attach,
               Ownership!Release

\* What a payload's carriers and owner are, from the messages and the callers.
LEMMA CarriersAre ==
    TypeOK => \A p \in Payloads :
                Carriers[p] = {m \in Messages : msgState[m] # "free" /\ msgPayload[m] = p}
  BY DEF TypeOK, MsgState, Carriers, Holders, Freeing

\* Steps that change neither the live blocks, nor who works on them, nor the
\* messages in use.
LEMMA OwnershipFrame ==
    ASSUME TypeOK, TypeOK', UNCHANGED live,
           \A c \in Callers, p \in Payloads : Works(c, p)' = Works(c, p),
           \A m \in Messages : msgState'[m] = "free" <=> msgState[m] = "free",
           \A m \in Messages : msgState[m] # "free" => msgPayload'[m] = msgPayload[m]
    PROVE  OwnershipStutters
  <1>1. Owner' = Owner
    BY DEF Owner
  <1>2. \A p \in Payloads :
          Carriers'[p] = {m \in Messages : msgState'[m] # "free" /\ msgPayload'[m] = p}
    BY DEF TypeOK, MsgState, Carriers, Holders, Freeing
  <1>3. ASSUME NEW p \in Payloads PROVE Carriers'[p] = Carriers[p]
    <2>1. Carriers[p] = {m \in Messages : msgState[m] # "free" /\ msgPayload[m] = p}
      BY CarriersAre
    <2>2. {m \in Messages : msgState'[m] # "free" /\ msgPayload'[m] = p}
            = {m \in Messages : msgState[m] # "free" /\ msgPayload[m] = p}
      OBVIOUS
    <2>3. QED
      BY <1>2, <2>1, <2>2
  <1>4. QED
    BY <1>1, <1>3 DEF Carriers, OwnershipStutters

\* Two functions of payloads that agree but at one.
LEMMA OwnerUpdated ==
    ASSUME NEW p \in Payloads, NEW o,
           \A q \in Payloads : Owner'[q] = IF q = p THEN o ELSE Owner[q]
    PROVE  Owner' = [Owner EXCEPT ![p] = o]
  BY DEF Owner

LEMMA CarriersUpdated ==
    ASSUME NEW p \in Payloads, NEW s,
           \A q \in Payloads : Carriers'[q] = IF q = p THEN s ELSE Carriers[q]
    PROVE  Carriers' = [Carriers EXCEPT ![p] = s]
  BY DEF Carriers

LEMMA OwnerIs ==
    \A p \in Payloads :
      Owner[p] = IF ~live[p] THEN "nobody"
                 ELSE IF \E c \in Callers : Works(c, p) THEN "user" ELSE "messages"
  BY DEF Owner

LEMMA AllocateIsCreate ==
    ASSUME IInv, TypeOK', NEW c \in Callers, Allocate(c)
    PROVE  OwnershipStep
  <1>0. TypeOK /\ HeapTypeOK
    BY DEF IInv, TypeOK
  <1>1. PICK p \in Payloads, size \in RequestSizes :
          AllocateAt(p, size) /\ payload' = [payload EXCEPT ![c] = p]
    BY DEF Allocate
  <1>2. /\ ~live[p]
        /\ live' = [live EXCEPT ![p] = TRUE]
        /\ pc[c] = "idle"
        /\ pc' = [pc EXCEPT ![c] = "owner"]
        /\ UNCHANGED <<msgState, msgPayload>>
    BY <1>1 DEF Allocate, AllocateAt, msgVars
  <1>3. Owner[p] = "nobody"
    BY <1>2 DEF Owner
  <1>4. Owner' = [Owner EXCEPT ![p] = "user"]
    <2>1. Works(c, p)' /\ live'[p]
      BY <1>0, <1>1, <1>2 DEF Works, TypeOK, HeapTypeOK
    <2>2. ASSUME NEW q \in Payloads, q # p, NEW d \in Callers
          PROVE  Works(d, q)' = Works(d, q) /\ live'[q] = live[q]
      BY <1>0, <1>1, <1>2, <2>2 DEF Works, TypeOK, HeapTypeOK
    <2>3. QED
      BY <2>1, <2>2, OwnerUpdated DEF Owner
  <1>5. Carriers' = Carriers
    BY <1>2 DEF Carriers, Holders, Freeing
  <1>6. QED
    BY <1>3, <1>4, <1>5, MappedSteps DEF OwnershipStep, Ownership!Next

LEMMA GiveUpIsDiscard ==
    ASSUME IInv, TypeOK', NEW c \in Callers, pc[c] = "owner",
           ForceDeallocate(payload[c]), Done(c), UNCHANGED msgVars
    PROVE  OwnershipStep
  <1>0. TypeOK /\ HeapTypeOK
    BY DEF IInv, TypeOK
  <1>1. PICK p \in Payloads : p = payload[c]
    BY DEF IInv, CallersInv
  <1>2. /\ live[p]
        /\ \A d \in Callers :
             pc[d] \in {"owner", "setup"} /\ payload[d] = p => d = c
        /\ \A m \in Messages : msgState[m] # "free" => msgPayload[m] # p
    BY <1>1 DEF IInv, CallersInv
  <1>3. /\ live' = [live EXCEPT ![p] = FALSE]
        /\ pc' = [pc EXCEPT ![c] = "idle"]
        /\ payload' = [payload EXCEPT ![c] = NoPayload]
        /\ UNCHANGED <<msgState, msgPayload>>
    BY <1>1 DEF ForceDeallocate, Done, msgVars
  <1>4. Owner[p] = "user"
    BY <1>1, <1>2 DEF Owner, Works
  <1>5. Carriers[p] = {}
    BY <1>0, <1>2, CarriersAre
  <1>6. Owner' = [Owner EXCEPT ![p] = "nobody"]
    <2>1. ~live'[p]
      BY <1>0, <1>3 DEF HeapTypeOK
    <2>2. ASSUME NEW q \in Payloads, q # p, NEW d \in Callers
          PROVE  Works(d, q)' = Works(d, q) /\ live'[q] = live[q]
      BY <1>0, <1>1, <1>3, <2>2 DEF Works, TypeOK, HeapTypeOK
    <2>3. QED
      BY <2>1, <2>2, OwnerUpdated DEF Owner
  <1>7. Carriers' = Carriers
    BY <1>3 DEF Carriers, Holders, Freeing
  <1>8. QED
    BY <1>4, <1>5, <1>6, <1>7, MappedSteps DEF OwnershipStep, Ownership!Next

LEMMA SetupMessageIsAttach ==
    ASSUME IInv, TypeOK', NEW c \in Callers, SetupMessage(c)
    PROVE  OwnershipStep
  <1>0. TypeOK /\ HeapTypeOK
    BY DEF IInv, TypeOK
  <1>1. PICK p \in Payloads : p = payload[c]
    BY DEF SetupMessage, IInv, CallersInv
  <1>2. /\ live[p] /\ pc[c] = "setup"
        /\ \A d \in Callers :
             pc[d] \in {"owner", "setup"} /\ payload[d] = p => d = c
    BY <1>1 DEF SetupMessage, IInv, CallersInv
  <1>3. PICK m \in Messages :
          /\ msgState[m] = "free"
          /\ AddToMessage(p, m, length[c])
          /\ msgState' = [msgState EXCEPT ![m] = "attached"]
    BY <1>1 DEF SetupMessage, FreeMessages, MessagesOf
  <1>4. /\ msgPayload' = [msgPayload EXCEPT ![m] = p]
        /\ pc' = [pc EXCEPT ![c] = IF todo[c] = 1 THEN "sending" ELSE "setup"]
        /\ UNCHANGED <<live, payload>>
    BY <1>3 DEF SetupMessage, AddToMessage, IncreaseRefCount
  <1>5. Owner[p] = "user"
    BY <1>1, <1>2 DEF Owner, Works
  <1>6. \A q \in Payloads : m \notin Carriers[q]
    BY <1>0, <1>3, CarriersAre
  <1>7. Carriers' = [Carriers EXCEPT ![p] = @ \cup {m}]
    <2>1. ASSUME NEW q \in Payloads
          PROVE  /\ Carriers[q] =
                      {k \in Messages : msgState[k] # "free" /\ msgPayload[k] = q}
                 /\ Carriers'[q] =
                      {k \in Messages : msgState'[k] # "free" /\ msgPayload'[k] = q}
      BY <1>0 DEF TypeOK, MsgState, Carriers, Holders, Freeing
    <2>2. \A k \in Messages : k # m => /\ msgState'[k] = msgState[k]
                                       /\ msgPayload'[k] = msgPayload[k]
      BY <1>3, <1>4
    <2>3. msgState'[m] = "attached" /\ msgPayload'[m] = p
      BY <1>0, <1>3, <1>4 DEF TypeOK
    <2>4. Carriers'[p] = Carriers[p] \cup {m}
      BY <2>1, <2>2, <2>3
    <2>5. ASSUME NEW q \in Payloads, q # p PROVE Carriers'[q] = Carriers[q]
      <3>1. \A k \in Messages : msgState'[k] # "free" /\ msgPayload'[k] = q
                              <=> msgState[k] # "free" /\ msgPayload[k] = q
        <4>1. ASSUME NEW k \in Messages, k = m
              PROVE  msgState[k] = "free" /\ msgPayload'[k] # q
          BY <1>3, <2>3, <2>5, <4>1
        <4>2. ASSUME NEW k \in Messages, k # m
              PROVE  msgState'[k] # "free" /\ msgPayload'[k] = q
                       <=> msgState[k] # "free" /\ msgPayload[k] = q
          <5>1. msgState'[k] = msgState[k] /\ msgPayload'[k] = msgPayload[k]
            BY <2>2, <4>2, Zenon
          <5>2. QED
            BY <5>1, Zenon
        <4>3. QED
          BY <4>1, <4>2
      <3>2. {k \in Messages : msgState'[k] # "free" /\ msgPayload'[k] = q}
              = {k \in Messages : msgState[k] # "free" /\ msgPayload[k] = q}
        BY <3>1
      <3>3. QED
        BY <2>1, <3>2, Zenon
    <2>6. QED
      BY <2>4, <2>5, CarriersUpdated
  <1>8. \E o \in {"user", "messages"} : Owner' = [Owner EXCEPT ![p] = o]
    <2>1. \A q \in Payloads, d \in Callers : q # p => Works(d, q)' = Works(d, q)
      BY <1>0, <1>1, <1>4 DEF Works, TypeOK
    <2>2. \A q \in Payloads : q # p => Owner'[q] = Owner[q]
      BY <1>4, <2>1 DEF Owner
    <2>3. PICK o : o = Owner'[p]
      OBVIOUS
    <2>4. o \in {"user", "messages"}
      BY <1>2, <1>4, <2>3 DEF Owner
    <2>5. Owner' = [Owner EXCEPT ![p] = o]
      BY <2>2, <2>3, OwnerUpdated
    <2>6. QED
      BY <2>4, <2>5
  <1>9. QED
    BY <1>5, <1>6, <1>7, <1>8, MappedSteps DEF OwnershipStep, Ownership!Next

\* A message that carried a payload carries it no longer.
LEMMA LetGo ==
    ASSUME TypeOK, TypeOK', NEW m \in Messages, NEW p \in Payloads,
           msgState[m] # "free", msgPayload[m] = p,
           msgState' = [msgState EXCEPT ![m] = "free"],
           msgPayload' = [msgPayload EXCEPT ![m] = NoPayload]
    PROVE  m \in Carriers[p] /\ Carriers' = [Carriers EXCEPT ![p] = @ \ {m}]
  <1>1. ASSUME NEW q \in Payloads
        PROVE  /\ Carriers[q] =
                    {k \in Messages : msgState[k] # "free" /\ msgPayload[k] = q}
               /\ Carriers'[q] =
                    {k \in Messages : msgState'[k] # "free" /\ msgPayload'[k] = q}
    BY DEF TypeOK, MsgState, Carriers, Holders, Freeing
  <1>2. \A k \in Messages : k # m => /\ msgState'[k] = msgState[k]
                                     /\ msgPayload'[k] = msgPayload[k]
    OBVIOUS
  <1>3. msgState'[m] = "free"
    BY DEF TypeOK
  <1>4. Carriers'[p] = Carriers[p] \ {m}
    BY <1>1, <1>2, <1>3
  <1>5. ASSUME NEW q \in Payloads, q # p PROVE Carriers'[q] = Carriers[q]
    <2>1. \A k \in Messages : msgState'[k] # "free" /\ msgPayload'[k] = q
                            <=> msgState[k] # "free" /\ msgPayload[k] = q
      BY <1>2, <1>3, <1>5
    <2>2. {k \in Messages : msgState'[k] # "free" /\ msgPayload'[k] = q}
            = {k \in Messages : msgState[k] # "free" /\ msgPayload[k] = q}
      BY <2>1
    <2>3. QED
      BY <1>1, <2>2, Zenon
  <1>6. m \in Carriers[p]
    BY <1>1
  <1>7. QED
    BY <1>4, <1>5, <1>6, CarriersUpdated

LEMMA DropReferenceIsRelease ==
    ASSUME IInv, TypeOK', NEW m \in Messages, DropReference(m)
    PROVE  OwnershipStep
  <1>0. TypeOK /\ HeapTypeOK
    BY DEF IInv, TypeOK
  <1>1. PICK p \in Payloads : p = msgPayload[m]
    BY DEF DropReference, IInv, MessagesInv
  <1>2. /\ msgState[m] \in {"queued", "rejected"} /\ live[p]
        /\ UNCHANGED <<live, pc, payload>>
    BY <1>1 DEF DropReference, DecreaseRefCount, callVars, IInv, MessagesInv
  <1>3. \A c \in Callers : ~Works(c, p)
    BY <1>1, <1>2 DEF IInv, CallersInv, Works
  <1>4. Owner[p] = "messages" /\ Owner' = Owner
    BY <1>2, <1>3 DEF Owner, Works
  <1>5. CASE refCount[p] = 1
    <2>1. msgState' = [msgState EXCEPT ![m] = "freeing"] /\ msgPayload' = msgPayload
      BY <1>1, <1>5 DEF DropReference, WasLastReference
    <2>2. \A k \in Messages : msgState'[k] = "free" <=> msgState[k] = "free"
      BY <1>0, <1>2, <2>1 DEF TypeOK
    <2>3. QED
      BY <1>0, <1>2, <2>1, <2>2, OwnershipFrame DEF Works, OwnershipStep
  <1>6. CASE refCount[p] # 1
    <2>1. /\ msgState' = [msgState EXCEPT ![m] = "free"]
          /\ msgPayload' = [msgPayload EXCEPT ![m] = NoPayload]
      BY <1>1, <1>6 DEF DropReference, WasLastReference, Recycle
    <2>2. m \in Carriers[p] /\ Carriers' = [Carriers EXCEPT ![p] = @ \ {m}]
      BY <1>0, <1>1, <1>2, <2>1, LetGo
    <2>3. Carriers'[p] # {}
      <3>1. m \in Holders(p) /\ refCount[p] = Cardinality(Holders(p))
        BY <1>1, <1>2 DEF Holders, IInv, RefCountIsHolders
      <3>2. Holders(p) # {m}
        BY <1>6, <3>1, FS_Singleton
      <3>3. PICK k \in Messages : k \in Holders(p) /\ k # m
        BY <3>1, <3>2 DEF Holders
      <3>4. k \in Carriers[p]
        BY <3>3 DEF Carriers
      <3>5. Carriers'[p] = Carriers[p] \ {m}
        BY <2>2 DEF Carriers
      <3>6. QED
        BY <3>3, <3>4, <3>5
    <2>4. Owner' = [Owner EXCEPT ![p] = IF Carriers'[p] = {} THEN "nobody" ELSE @]
      BY <1>4, <2>3 DEF Owner
    <2>5. QED
      BY <1>4, <2>2, <2>4, MappedSteps DEF OwnershipStep, Ownership!Next
  <1>7. QED
    BY <1>5, <1>6

LEMMA DeallocateLastIsRelease ==
    ASSUME IInv, TypeOK', NEW m \in Messages, DeallocateLast(m)
    PROVE  OwnershipStep
  <1>0. TypeOK /\ HeapTypeOK
    BY DEF IInv, TypeOK
  <1>1. PICK p \in Payloads : p = msgPayload[m]
    BY DEF DeallocateLast, IInv, MessagesInv
  <1>2. /\ msgState[m] = "freeing" /\ live[p]
        /\ \A k \in Messages : msgState[k] # "free" /\ msgPayload[k] = p => k = m
        /\ live' = [live EXCEPT ![p] = FALSE]
        /\ msgState' = [msgState EXCEPT ![m] = "free"]
        /\ msgPayload' = [msgPayload EXCEPT ![m] = NoPayload]
        /\ UNCHANGED <<pc, payload>>
    BY <1>1 DEF DeallocateLast, ForceDeallocate, Recycle, callVars, IInv, MessagesInv
  <1>3. \A c \in Callers : ~Works(c, p)
    BY <1>1, <1>2 DEF IInv, CallersInv, Works
  <1>4. Owner[p] = "messages"
    BY <1>2, <1>3 DEF Owner
  <1>5. m \in Carriers[p] /\ Carriers' = [Carriers EXCEPT ![p] = @ \ {m}]
    BY <1>0, <1>1, <1>2, LetGo
  <1>6. Carriers'[p] = {}
    <2>1. Carriers'[p] = Carriers[p] \ {m}
      BY <1>5 DEF Carriers
    <2>2. Carriers[p] \subseteq {m}
      BY <1>0, <1>2, CarriersAre
    <2>3. QED
      BY <2>1, <2>2
  <1>7. Owner' = [Owner EXCEPT ![p] = "nobody"]
    <2>1. \A q \in Payloads : q # p => live'[q] = live[q]
      BY <1>2
    <2>2. ~live'[p]
      BY <1>0, <1>2 DEF HeapTypeOK
    <2>3. \A q \in Payloads, c \in Callers : Works(c, q)' = Works(c, q)
      BY <1>2 DEF Works
    <2>4. QED
      BY <2>1, <2>2, <2>3, OwnerUpdated DEF Owner
  <1>8. QED
    BY <1>4, <1>5, <1>6, <1>7, MappedSteps DEF OwnershipStep, Ownership!Next

LEMMA OwnershipSimulation == IInv /\ [Next]_vars => OwnershipStep
  <1> SUFFICES ASSUME IInv, [Next]_vars PROVE OwnershipStep
    OBVIOUS
  <1>0. TypeOK /\ TypeOK' /\ HeapTypeOK
    BY TypeStep DEF IInv, TypeOK
  <1>1. ASSUME NEW c \in Callers, UseBitStream(c) PROVE OwnershipStep
    BY <1>0, <1>1, OwnershipFrame
       DEF UseBitStream, SetUsedBitStream, callVars, msgVars, Works, OwnershipStep
  <1>2. ASSUME NEW c \in Callers, NEW n \in Nat, pc[c] = "owner", StartSend(c, n)
        PROVE  OwnershipStep
    <2>1. /\ pc' = [pc EXCEPT ![c] = "setup"]
          /\ UNCHANGED <<live, payload, msgState, msgPayload>>
      BY <1>2 DEF StartSend, heapVars, msgVars
    <2>2. \A d \in Callers, p \in Payloads : Works(d, p)' = Works(d, p)
      BY <1>0, <1>2, <2>1 DEF Works, TypeOK
    <2>3. QED
      BY <1>0, <2>1, <2>2, OwnershipFrame DEF OwnershipStep
  <1>3. ASSUME NEW c \in Callers, Discard(c) PROVE OwnershipStep
    BY <1>0, <1>3, GiveUpIsDiscard DEF Discard
  <1>4. ASSUME NEW c \in Callers, Multicast(c) PROVE OwnershipStep
    <2>1. pc[c] = "owner"
      BY <1>4 DEF Multicast
    <2>2. CASE MulticastToNobody(c)
      BY <1>0, <2>1, <2>2, GiveUpIsDiscard DEF MulticastToNobody
    <2>3. ASSUME NEW n \in 1 .. MaxMessages, StartSend(c, n) PROVE OwnershipStep
      BY <1>2, <2>1, <2>3, MaxMessagesAssumption
    <2>4. QED
      BY <1>4, <2>2, <2>3, MaxMessagesAssumption DEF Multicast
  <1>5. ASSUME NEW c \in Callers, SendReturns(c) PROVE OwnershipStep
    <2>1. /\ pc[c] = "sending" /\ pc' = [pc EXCEPT ![c] = "idle"]
          /\ payload' = [payload EXCEPT ![c] = NoPayload]
          /\ UNCHANGED <<live, msgState, msgPayload>>
      BY <1>5 DEF SendReturns, Done, heapVars, msgVars
    <2>2. \A d \in Callers, p \in Payloads : Works(d, p)' = Works(d, p)
      BY <1>0, <2>1 DEF Works, TypeOK
    <2>3. QED
      BY <1>0, <2>1, <2>2, OwnershipFrame DEF OwnershipStep
  <1>6. ASSUME NEW m \in Messages, Submit(m) PROVE OwnershipStep
    <2>1. /\ msgState[m] = "attached"
          /\ \/ msgState' = [msgState EXCEPT ![m] = "queued"]
             \/ msgState' = [msgState EXCEPT ![m] = "rejected"]
          /\ UNCHANGED <<live, pc, payload, msgPayload>>
      BY <1>6 DEF Submit, heapVars, callVars
    <2>2. \A k \in Messages : msgState'[k] = "free" <=> msgState[k] = "free"
      BY <1>0, <2>1 DEF TypeOK
    <2>3. QED
      BY <1>0, <2>1, <2>2, OwnershipFrame DEF Works, OwnershipStep
  <1>7. ASSUME NEW m \in Messages, BeginRead(m) \/ EndRead(m) PROVE OwnershipStep
    BY <1>0, <1>7, OwnershipFrame
       DEF BeginRead, EndRead, heapVars, callVars, Works, OwnershipStep
  <1>8. CASE UNCHANGED vars
    BY <1>0, <1>8, OwnershipFrame
       DEF vars, heapVars, callVars, msgVars, Works, OwnershipStep
  <1>9. ASSUME NEW c \in Callers, CallerStep(c) PROVE OwnershipStep
    BY <1>0, <1>1, <1>2, <1>3, <1>4, <1>5, <1>9, AllocateIsCreate, SetupMessageIsAttach
       DEF CallerStep, Unicast
  <1>10. ASSUME NEW m \in Messages, MessageStep(m) PROVE OwnershipStep
    BY <1>0, <1>6, <1>7, <1>10, DropReferenceIsRelease, DeallocateLastIsRelease
       DEF MessageStep
  <1>11. QED
    BY <1>8, <1>9, <1>10 DEF Next

\* Multicast implements PayloadOwnership for any number of callers, payloads
\* and messages: whatever the threads and GNS do, a payload is the user's, then
\* its messages', and its memory goes back with the last of them.
THEOREM ImplementsOwnership == Spec => RefinesOwnership
  <1>1. Init => Ownership!Init
    BY DEF Init, HeapInit, Ownership!Init, Holders, Freeing
  <1>2. IInv /\ [Next]_vars => [Ownership!Next]_(Ownership!vars)
    BY OwnershipSimulation, Zenon
       DEF OwnershipStep, OwnershipStutters, Owner, Carriers, Ownership!vars
  <1>3. QED
    BY <1>1, <1>2, InductiveInvariant, PTL DEF Spec, RefinesOwnership, Ownership!Spec

=============================================================================
