----------------------------- MODULE LetterProofs -----------------------------
(***************************************************************************)
(* Theorems about what a letter says, for any number of bits of a byte, any *)
(* writes, any payload and any order of the bytes on either host: what the *)
(* program wrote is what the receiver reads.                               *)
(***************************************************************************)
EXTENDS TransportProofs, NatLemmas

\* Every message holds the words of one of the writer's spans, and is as long
\* as one of them, or empty.
MessageWords == {b \in Seq(Bit) : \E n \in WordCounts \cup {0} : Len(b) = n * WordBits}
MessageBytes == LogicalBytes \cup {0}

\* The reader, with its theorems.
RP == INSTANCE BitStreamReaderProofs WITH
        words <- rWords, totalBits <- rTotalBits, initFail <- rInitFail,
        fail <- rFail, left <- rLeft, unit <- rUnit,
        Buffers <- MessageWords, LogicalBytes <- MessageBytes

-----------------------------------------------------------------------------
(* The receiver's reader is the one the theorems of the reader are about.    *)

\* What the reader assumes of its constants.
LEMMA ReaderAssumed ==
    /\ LengthMod \in Nat \ {0} /\ SizeMod \in Nat \ {0}
    /\ /\ Ranges \subseteq [bits : 1 .. RP!ScratchBits, span : Nat]
       /\ \A r \in Ranges : 2 ^ (r.bits - 1) <= r.span /\ r.span < 2 ^ r.bits
    /\ /\ ByteCounts \subseteq Nat
       /\ MaxLengths \subseteq Nat
       /\ MessageBytes \subseteq Nat
    /\ CharBytes \subseteq 1 .. 4
    /\ \A b \in MessageWords :
         b \in Seq(RP!Bit) /\ \E n \in 0 .. Len(b) : Len(b) = n * RP!WordBits
    /\ ByteBits \in Nat \ {0}
  <1>1. RP!ScratchBits = ScratchBits /\ RP!WordBits = WordBits /\ RP!Bit = Bit
    BY DEF RP!ScratchBits, RP!WordBits, RP!WordBytes, RP!Bit,
           ScratchBits, WordBits, WordBytes, Bit
  <1>2. MessageBytes \subseteq Nat
    BY CountsAssumption DEF MessageBytes
  <1>3. ASSUME NEW b \in MessageWords
        PROVE  b \in Seq(Bit) /\ \E n \in 0 .. Len(b) : Len(b) = n * WordBits
    <2>1. PICK n \in WordCounts \cup {0} : b \in Seq(Bit) /\ Len(b) = n * WordBits
      BY DEF MessageWords
    <2>2. n \in Nat
      BY CountsAssumption
    <2>3. n <= n * WordBits
      BY <2>2, WordBitsPos
    <2>4. QED
      BY <2>1, <2>2, <2>3
  <1>4. QED
    BY <1>1, <1>2, <1>3, ReadAssumption, SizeModAssumption, CountsAssumption,
       CharBytesAssumption, ByteBitsAssumption

LEMMA ReaderNoWrap == NoWrap => RP!NoWrap
  <1> SUFFICES ASSUME NoWrap PROVE RP!NoWrap
    OBVIOUS
  <1>1. RP!ScratchBits = ScratchBits
    BY DEF RP!ScratchBits, RP!WordBits, RP!WordBytes, ScratchBits, WordBits, WordBytes
  <1>2. ASSUME NEW total \in RP!Totals PROVE total \in Totals
    <2>1. \A n : RP!Wrap(n) = Wrap(n)
      BY DEF RP!Wrap, Wrap
    <2>2. CASE total = 0
      BY <2>2 DEF Totals
    <2>3. ASSUME NEW l \in MessageBytes, total = RP!Wrap(ByteBits * l)
          PROVE  total \in Totals
      <3>1. CASE l = 0
        BY <2>1, <2>3, <3>1, WrapSmall, ByteBitsAssumption, SizeModAssumption DEF Totals
      <3>2. CASE l \in LogicalBytes
        BY <2>1, <2>3, <3>2 DEF Totals
      <3>3. QED
        BY <3>1, <3>2 DEF MessageBytes
    <2>4. QED
      BY <2>2, <2>3 DEF RP!Totals
  <1>3. QED
    BY <1>1, <1>2 DEF NoWrap, RP!NoWrap

\* The definitions of the two instances agree, one by one.
LEMMA SameBasics ==
    /\ \A n : R!Wrap(n) = RP!Wrap(n)
    /\ \A n : R!ToSSize(n) = RP!ToSSize(n)
    /\ \A v : R!Number(v) = RP!Number(v)
    /\ \A k : R!PrefixBits(k) = RP!PrefixBits(k)
    /\ R!PrefixPrefixBits = RP!PrefixPrefixBits
    /\ \A c, failed, len : R!Result(c, failed, len) = RP!Result(c, failed, len)
    /\ \A len, c : R!StringBits(len, c) = RP!StringBits(len, c)
    /\ \A b : R!SizeBytes(b) = RP!SizeBytes(b)
    /\ R!WordBits = RP!WordBits
    /\ R!Idle = RP!Idle
    /\ R!EmptyScratch = RP!EmptyScratch
  BY DEF R!Wrap, RP!Wrap, R!ToSSize, RP!ToSSize, R!Number, RP!Number,
         R!PrefixBits, RP!PrefixBits, R!PrefixPrefixBits, RP!PrefixPrefixBits,
         R!Result, RP!Result, R!StringBits, RP!StringBits, R!SizeBytes, RP!SizeBytes,
         R!WordBits, RP!WordBits, R!WordBytes, RP!WordBytes, R!Idle, RP!Idle,
         R!EmptyScratch, RP!EmptyScratch, R!ScratchBits, RP!ScratchBits

LEMMA SameTake ==
    /\ \A c, n : R!Take(c, n) = RP!Take(c, n)
    /\ \A t : R!Count(t) = RP!Count(t)
  <1>1. /\ R!WordBits = RP!WordBits /\ R!ScratchBits = RP!ScratchBits
        /\ \A s, n : R!ShiftRight(s, n) = RP!ShiftRight(s, n)
        /\ \A s, v, n : R!OrShifted(s, v, n) = RP!OrShifted(s, v, n)
        /\ \A n : R!Wrap(n) = RP!Wrap(n)
    BY DEF R!WordBits, RP!WordBits, R!WordBytes, RP!WordBytes, R!ScratchBits,
           RP!ScratchBits, R!ShiftRight, RP!ShiftRight, R!OrShifted, RP!OrShifted,
           R!Wrap, RP!Wrap
  <1>2. \A i : R!Word(i) = RP!Word(i)
    BY <1>1 DEF R!Word, RP!Word
  <1>3. \A c : R!FetchWord(c) = RP!FetchWord(c)
    BY <1>1, <1>2 DEF R!FetchWord, RP!FetchWord
  <1>4. \A c, n : R!FetchIfNeeded(c, n) = RP!FetchIfNeeded(c, n)
    BY <1>3 DEF R!FetchIfNeeded, RP!FetchIfNeeded
  <1>5. /\ \A c, n : R!Drop(c, n) = RP!Drop(c, n)
        /\ \A c, n : R!Front(c, n) = RP!Front(c, n)
    BY <1>1 DEF R!Drop, RP!Drop, R!Front, RP!Front
  <1>6. \A c, n : R!TakeHalf(c, n) = RP!TakeHalf(c, n)
    BY <1>4, <1>5 DEF R!TakeHalf, RP!TakeHalf
  <1>7. \A c, n : R!Take(c, n) = RP!Take(c, n)
    BY <1>1, <1>6 DEF R!Take, RP!Take
  <1>8. \A t : R!Count(t) = RP!Count(t)
    BY <1>1 DEF R!Count, RP!Count
  <1>9. QED
    BY <1>7, <1>8

LEMMA SameChecks ==
    /\ \A c, n : R!Overflows(c, n) = RP!Overflows(c, n)
    /\ \A c : R!ReadLength(c) = RP!ReadLength(c)
    /\ \A r, max, c : R!StringFits(r, max, c) = RP!StringFits(r, max, c)
  <1>1. \A c, n : R!Overflows(c, n) = RP!Overflows(c, n)
    BY SameBasics DEF R!Overflows, RP!Overflows
  <1>2. \A c : R!ReadLength(c) = RP!ReadLength(c)
    BY <1>1, SameBasics, SameTake DEF R!ReadLength, RP!ReadLength
  <1>3. \A r, max, c : R!StringFits(r, max, c) = RP!StringFits(r, max, c)
    BY SameBasics DEF R!StringFits, RP!StringFits
  <1>4. QED
    BY <1>1, <1>2, <1>3

\* So do the operations.
LEMMA SameReader ==
    /\ R!Init => RP!Init
    /\ R!Reset => RP!Reset
    /\ \A b, isNull, l : R!ResetWith(b, isNull, l) => RP!ResetWith(b, isNull, l)
    /\ \A r : R!Read(r) => RP!Read(r)
    /\ \A size : R!ReadBytes(size) => RP!ReadBytes(size)
    /\ \A max, c : R!ReadString(max, c) => RP!ReadString(max, c)
    /\ R!ReadNext => RP!ReadNext
    /\ R!PeekStringLength => RP!PeekStringLength
    /\ R!PeekReturned => RP!PeekReturned
  <1>0. R!config = RP!config /\ R!config' = RP!config'
    BY DEF R!config, RP!config
  <1>1. R!Init => RP!Init
    BY SameBasics DEF R!Init, RP!Init
  <1>2. R!Reset => RP!Reset
    BY SameBasics DEF R!Reset, RP!Reset, R!Restarted, RP!Restarted
  <1>3. \A b, isNull, l : R!ResetWith(b, isNull, l) => RP!ResetWith(b, isNull, l)
    BY SameBasics DEF R!ResetWith, RP!ResetWith, R!Restarted, RP!Restarted
  <1>4. \A r : R!Read(r) => RP!Read(r)
    BY <1>0, SameBasics, SameTake, SameChecks DEF R!Read, RP!Read
  <1>5. \A size : R!ReadBytes(size) => RP!ReadBytes(size)
    BY <1>0, SameBasics, SameChecks DEF R!ReadBytes, RP!ReadBytes
  <1>6. \A max, c : R!ReadString(max, c) => RP!ReadString(max, c)
    BY <1>0, SameBasics, SameChecks DEF R!ReadString, RP!ReadString
  <1>7. R!ReadNext => RP!ReadNext
    BY <1>0, SameBasics, SameTake DEF R!ReadNext, RP!ReadNext, R!DoRead, RP!DoRead
  <1>8. R!PeekStringLength => RP!PeekStringLength
    BY <1>0, SameBasics, SameChecks DEF R!PeekStringLength, RP!PeekStringLength
  <1>9. R!PeekReturned => RP!PeekReturned
    BY <1>0 DEF R!PeekReturned, RP!PeekReturned
  <1>10. QED
    BY <1>1, <1>2, <1>3, <1>4, <1>5, <1>6, <1>7, <1>8, <1>9

\* The reader keeps its invariant.
LEMMA ReaderStep == NoWrap /\ RP!ReaderInv /\ [RP!Next]_RP!vars => RP!ReaderInv'
  BY ReaderNoWrap, ReaderAssumed, RP!InvStep

-----------------------------------------------------------------------------
(* What the sender writes. *)

\* The number of a write's first bit, and that of all writes, in a log.
StartOf(writes, i) == IF i = 1 THEN 0 ELSE writes[i - 1].end
EndOf(writes) == IF writes = <<>> THEN 0 ELSE writes[Len(writes)].end

\* Between two positions of w lie the bits of a call that was accepted, or its
\* first bits, if they are still being written.
WriteHolds(w, call, start, end) ==
    \/ /\ call.kind = "integer"
       /\ end = start + call.range.bits
       /\ end <= Len(w)
       /\ RP!Number(RP!Slice(w, start, call.range.bits)) <= call.range.span
    \/ /\ call.kind = "bytes"
       /\ start <= Len(w)
       /\ end = start + ByteBits * call.size
    \/ /\ call.kind = "string"
       /\ call.len < LengthMod \div 2
       /\ \E k \in 0 .. 3 :
            /\ RP!HoldsLength(w, start, k, call.len)
            /\ start + RP!PrefixPrefixBits + RP!PrefixBits(k) <= Len(w)
            /\ end = start + RP!PrefixPrefixBits + RP!PrefixBits(k)
                       + call.len * (ByteBits * call.charBytes)

\* The log tells where every write of the letter lies in the stream.
LogInv ==
    /\ log \in Seq([call : Call, end : Nat])
    /\ \A i \in 1 .. Len(log) :
         WriteHolds(written, log[i].call, StartOf(log, i), log[i].end)
    /\ Len(written) + left * unit = EndOf(log)
    /\ phase \in {"plan", "open"} => log = <<>>

LEMMA CallFields ==
    ASSUME NEW call \in Call
    PROVE  /\ call.kind = "integer" =>
                /\ call.range \in Ranges /\ call.range.bits \in 1 .. ScratchBits
                /\ call.range.span \in Nat
           /\ call.kind = "bytes" => call.size \in ByteCounts /\ call.size \in Nat
           /\ call.kind = "string" =>
                /\ call.len \in StringLens /\ call.len \in Nat
                /\ call.charBytes \in CharBytes /\ call.charBytes \in 1 .. 4
           /\ call.kind \in {"integer", "bytes", "string"}
  BY ReadAssumption, CountsAssumption, CharBytesAssumption DEF Call

LEMMA PrefixWidths ==
    /\ RP!PrefixPrefixBits = PrefixPrefixBits
    /\ \A k : RP!PrefixBits(k) = PrefixBits(k)
    /\ \A k \in 0 .. 3 : PrefixBits(k) \in Nat /\ PrefixBits(k) <= ScratchBits
    /\ \A n, width : RP!ToBits(n, width) = ToBits(n, width)
  <1>1. ASSUME NEW k \in 0 .. 3
        PROVE  PrefixBits(k) \in Nat /\ PrefixBits(k) <= ScratchBits
    <2>1. k = 0 \/ k = 1 \/ k = 2 \/ k = 3
      OBVIOUS
    <2>2. QED
      BY <2>1, ByteBitsAssumption DEF PrefixBits, ScratchBits, WordBits, WordBytes
  <1>2. QED
    BY <1>1 DEF RP!PrefixPrefixBits, PrefixPrefixBits, RP!PrefixBits, PrefixBits,
                RP!ToBits, ToBits

\* What follows in a stream does not change what it held.
LEMMA SliceKept ==
    ASSUME NEW a \in Seq(Bit), NEW b \in Seq(Bit), NEW p \in Nat, NEW n \in Nat,
           p + n <= Len(a)
    PROVE  RP!Slice(a \o b, p, n) = RP!Slice(a, p, n)
  <1>1. \A i \in 1 .. n : (a \o b)[p + i] = a[p + i]
    <2>1. \A j \in 1 .. Len(a) : (a \o b)[j] = a[j]
      BY ConcatProperties
    <2>2. \A i \in 1 .. n : p + i \in 1 .. Len(a)
      OBVIOUS
    <2>3. QED
      BY <2>1, <2>2
  <1>2. QED
    BY <1>1 DEF RP!Slice

LEMMA SliceAppended ==
    ASSUME NEW a \in Seq(Bit), NEW b \in Seq(Bit)
    PROVE  RP!Slice(a \o b, Len(a), Len(b)) = b
  <1>1. \A i \in 1 .. Len(b) : (a \o b)[Len(a) + i] = b[i]
    BY ConcatProperties
  <1>2. b = [i \in 1 .. Len(b) |-> b[i]]
    OBVIOUS
  <1>3. QED
    BY <1>1, <1>2 DEF RP!Slice

LEMMA TwoAppended ==
    ASSUME NEW a \in Seq(Bit), NEW b \in Seq(Bit), NEW c \in Seq(Bit)
    PROVE  /\ Len(a \o b \o c) = Len(a) + Len(b) + Len(c)
           /\ RP!Slice(a \o b \o c, Len(a), Len(b)) = b
           /\ RP!Slice(a \o b \o c, Len(a) + Len(b), Len(c)) = c
  <1>1. PICK ab \in Seq(Bit) : ab = a \o b
    BY ConcatProperties
  <1>2. /\ Len(a) \in Nat /\ Len(b) \in Nat /\ Len(c) \in Nat
        /\ Len(ab) = Len(a) + Len(b)
    BY <1>1, ConcatProperties, LenProperties
  <1>3. Len(ab \o c) = Len(ab) + Len(c)
    BY ConcatProperties
  <1>4. RP!Slice(ab \o c, Len(a), Len(b)) = RP!Slice(ab, Len(a), Len(b))
    BY <1>2, SliceKept
  <1>5. RP!Slice(ab, Len(a), Len(b)) = b
    BY <1>1, SliceAppended
  <1>6. RP!Slice(ab \o c, Len(ab), Len(c)) = c
    BY SliceAppended
  <1>7. QED
    BY <1>1, <1>2, <1>3, <1>4, <1>5, <1>6

LEMMA HoldsKept ==
    ASSUME NEW a \in Seq(Bit), NEW b \in Seq(Bit), NEW call \in Call,
           NEW start \in Nat, NEW end, WriteHolds(a, call, start, end)
    PROVE  WriteHolds(a \o b, call, start, end)
  <1>1. Len(a) \in Nat /\ Len(b) \in Nat /\ Len(a \o b) = Len(a) + Len(b)
    BY ConcatProperties
  <1>2. CASE call.kind = "integer"
    <2>1. /\ end = start + call.range.bits /\ end <= Len(a) /\ call.range.bits \in Nat
          /\ RP!Number(RP!Slice(a, start, call.range.bits)) <= call.range.span
      BY <1>2, CallFields, WordBitsPos DEF WriteHolds
    <2>2. RP!Slice(a \o b, start, call.range.bits) = RP!Slice(a, start, call.range.bits)
      BY <2>1, SliceKept
    <2>3. end <= Len(a \o b)
      BY <1>1, <2>1
    <2>4. QED
      BY <1>2, <2>1, <2>2, <2>3 DEF WriteHolds
  <1>3. CASE call.kind = "bytes"
    <2>1. start <= Len(a) /\ end = start + ByteBits * call.size
      BY <1>3 DEF WriteHolds
    <2>2. start <= Len(a \o b)
      BY <1>1, <2>1
    <2>3. QED
      BY <1>3, <2>1, <2>2 DEF WriteHolds
  <1>4. CASE call.kind = "string"
    <2>1. call.len < LengthMod \div 2
      BY <1>4 DEF WriteHolds
    <2>2. PICK k \in 0 .. 3 :
            /\ RP!HoldsLength(a, start, k, call.len)
            /\ start + RP!PrefixPrefixBits + RP!PrefixBits(k) <= Len(a)
            /\ end = start + RP!PrefixPrefixBits + RP!PrefixBits(k)
                       + call.len * (ByteBits * call.charBytes)
      BY <1>4 DEF WriteHolds
    <2>3. PICK m \in Nat, n \in Nat : m = RP!PrefixPrefixBits /\ n = RP!PrefixBits(k)
      BY PrefixWidths DEF PrefixPrefixBits
    <2>4. start + m + n <= Len(a)
      BY <2>2, <2>3
    <2>5. /\ RP!Slice(a \o b, start, m) = RP!Slice(a, start, m)
          /\ RP!Slice(a \o b, start + m, n) = RP!Slice(a, start + m, n)
      BY <1>1, <2>4, SliceKept
    <2>6. RP!HoldsLength(a \o b, start, k, call.len)
      BY <2>2, <2>3, <2>5 DEF RP!HoldsLength
    <2>7. start + RP!PrefixPrefixBits + RP!PrefixBits(k) <= Len(a \o b)
      BY <1>1, <2>3, <2>4
    <2>8. QED
      BY <1>4, <2>1, <2>2, <2>6, <2>7 DEF WriteHolds
  <1>5. QED
    BY <1>2, <1>3, <1>4, CallFields

\* An entry of a log.
LEMMA Entries ==
    ASSUME NEW writes \in Seq([call : Call, end : Nat])
    PROVE  /\ Len(writes) \in Nat
           /\ \A i \in 1 .. Len(writes) : /\ writes[i].call \in Call
                                          /\ writes[i].end \in Nat
                                          /\ StartOf(writes, i) \in Nat
           /\ EndOf(writes) \in Nat
  <1>1. Len(writes) \in Nat /\ (writes # <<>> => Len(writes) \in 1 .. Len(writes))
    BY LenProperties, EmptySeq
  <1>2. \A i \in 1 .. Len(writes) : writes[i] \in [call : Call, end : Nat]
    BY ElementOfSeq
  <1>3. \A i \in 1 .. Len(writes) : writes[i].call \in Call /\ writes[i].end \in Nat
    BY <1>2
  <1>4. \A i \in 1 .. Len(writes) : i = 1 \/ i - 1 \in 1 .. Len(writes)
    BY <1>1
  <1>5. QED
    BY <1>1, <1>3, <1>4 DEF StartOf, EndOf

\* Nothing of what the log speaks of has changed.
LEMMA LogUnchanged ==
    ASSUME LogInv, UNCHANGED <<log, written, left, unit>>,
           phase' = phase \/ phase' \notin {"plan", "open"} \/ log = <<>>
    PROVE  LogInv'
  BY DEF LogInv

\* A letter that is begun, or begun again.
LEMMA LogStartsOver ==
    ASSUME log' = <<>>, written' = <<>>, left' * unit' = 0
    PROVE  LogInv'
  <1>1. log' \in Seq([call : Call, end : Nat]) /\ Len(log') = 0 /\ Len(written') = 0
    BY EmptySeq
  <1>2. ~\E i \in 1 .. Len(log') : TRUE
    BY <1>1
  <1>3. Len(written') + left' * unit' = EndOf(log')
    BY <1>1 DEF EndOf
  <1>4. QED
    BY <1>1, <1>2, <1>3 DEF LogInv

\* The bits of the write that is in progress are appended.
LEMMA LogContinues ==
    ASSUME LogInv, written \in Seq(Bit), NEW v \in Seq(Bit), written' = written \o v,
           UNCHANGED <<log, phase>>,
           Len(v) + left' * unit' = left * unit, left' * unit' \in Nat
    PROVE  LogInv'
  <1>1. Len(written') = Len(written) + Len(v) /\ Len(written) \in Nat /\ Len(v) \in Nat
    BY ConcatProperties
  <1>2. Len(written') + left' * unit' = EndOf(log')
    BY <1>1 DEF LogInv
  <1>3. ASSUME NEW i \in 1 .. Len(log)
        PROVE  WriteHolds(written', log[i].call, StartOf(log, i), log[i].end)
    <2>1. /\ log[i].call \in Call /\ StartOf(log, i) \in Nat
          /\ WriteHolds(written, log[i].call, StartOf(log, i), log[i].end)
      BY Entries DEF LogInv
    <2>2. QED
      BY <2>1, HoldsKept
  <1>4. QED
    BY <1>2, <1>3 DEF LogInv

\* A write is accepted: it starts where the last one ended.
LEMMA LogAppends ==
    ASSUME LogInv, written \in Seq(Bit), NEW v \in Seq(Bit), written' = written \o v,
           left * unit = 0, left' * unit' \in Nat, phase' = phase,
           phase \notin {"plan", "open"}, NEW call \in Call, NEW end \in Nat,
           end = Len(written') + left' * unit',
           log' = Append(log, [call |-> call, end |-> end]),
           WriteHolds(written', call, Len(written), end)
    PROVE  LogInv'
  <1>1. PICK n \in Nat : n = Len(log)
    BY DEF LogInv
  <1>2. /\ log \in Seq([call : Call, end : Nat])
        /\ log' \in Seq([call : Call, end : Nat])
        /\ Len(log') = n + 1 /\ log'[n + 1] = [call |-> call, end |-> end]
        /\ \A i \in 1 .. n : log'[i] = log[i]
    BY <1>1, AppendProperties DEF LogInv
  <1>3. Len(written) \in Nat /\ Len(written) = EndOf(log)
    BY DEF LogInv
  <1>4. StartOf(log', n + 1) = Len(written)
    <2>1. CASE n = 0
      <3>1. log = <<>>
        BY <1>1, <1>2, <2>1
      <3>2. QED
        BY <1>3, <2>1, <3>1 DEF StartOf, EndOf
    <2>2. CASE n # 0
      <3>1. log # <<>> /\ n + 1 # 1 /\ (n + 1) - 1 = n /\ log'[n] = log[n]
        BY <1>1, <1>2, <2>2
      <3>2. QED
        BY <1>1, <1>3, <3>1 DEF StartOf, EndOf
    <2>3. QED
      BY <2>1, <2>2
  <1>5. EndOf(log') = end
    <2>1. Len(log') # 0
      BY <1>1, <1>2
    <2>2. log' # <<>>
      BY <2>1, EmptySeq
    <2>3. log'[Len(log')].end = end
      BY <1>2
    <2>4. QED
      BY <2>2, <2>3 DEF EndOf
  <1>6. ASSUME NEW i \in 1 .. n
        PROVE  WriteHolds(written', log'[i].call, StartOf(log', i), log'[i].end)
    <2>1. /\ log[i].call \in Call /\ StartOf(log, i) \in Nat /\ log'[i] = log[i]
          /\ WriteHolds(written, log[i].call, StartOf(log, i), log[i].end)
      BY <1>1, <1>2, Entries DEF LogInv
    <2>2. StartOf(log', i) = StartOf(log, i)
      <3>1. i = 1 \/ i - 1 \in 1 .. n
        BY <1>1
      <3>2. QED
        BY <1>2, <3>1 DEF StartOf
    <2>3. QED
      BY <2>1, <2>2, HoldsKept
  <1>7. WriteHolds(written', log'[n + 1].call, StartOf(log', n + 1), log'[n + 1].end)
    BY <1>2, <1>4
  <1>8. \A i \in 1 .. Len(log') :
          WriteHolds(written', log'[i].call, StartOf(log', i), log'[i].end)
    <2>1. Len(log') = n + 1
      BY <1>2
    <2>2. \A i \in 1 .. n + 1 : i \in 1 .. n \/ i = n + 1
      BY <1>1
    <2>3. QED
      BY <1>6, <1>7, <2>1, <2>2
  <1>9. QED
    BY <1>2, <1>5, <1>8 DEF LogInv

-----------------------------------------------------------------------------
LEMMA IntegerLogged ==
    ASSUME WriterInv, LogInv, phase = "write", phase' = phase,
           NEW call \in Call, call.kind = "integer", NEW v \in Values,
           InRange(v, call.range), Write(v),
           log' = IF fail' THEN log
                  ELSE Append(log, [call |-> call, end |-> Len(written') + left' * unit'])
    PROVE  LogInv'
  <1>1. Idle /\ ~fail
    BY DEF Write
  <1>2. CASE finalFlushed \/ Overflows(Len(v))
    BY <1>2, LogUnchanged DEF Write, Refuse
  <1>3. CASE ~(finalFlushed \/ Overflows(Len(v)))
    <2>1. written' = written \o v /\ UNCHANGED <<fail, left, unit>>
      BY <1>3 DEF Write
    <2>2. written \in Seq(Bit) /\ left' * unit' = 0 /\ left * unit = 0
      BY <1>1, <2>1 DEF Idle, WriterInv, TypeOK
    <2>3. v \in Seq(Bit) /\ Len(v) = call.range.bits /\ R!Number(v) <= call.range.span
      BY ValuesAssumption DEF Value, InRange
    <2>4. PICK a \in Nat, n \in Nat : a = Len(written) /\ n = Len(v)
      BY <2>2, <2>3, LenProperties
    <2>5. Len(written') = a + n /\ RP!Slice(written', a, n) = v
      BY <2>1, <2>2, <2>3, <2>4, ConcatProperties, SliceAppended
    <2>6. PICK end \in Nat : end = Len(written') + left' * unit' /\ end = a + n
      BY <2>2, <2>4, <2>5
    <2>7. WriteHolds(written', call, Len(written), end)
      <3>1. RP!Number(RP!Slice(written', a, call.range.bits)) <= call.range.span
        BY <2>3, <2>4, <2>5, SameBasics
      <3>2. end = a + call.range.bits /\ end <= Len(written')
        BY <2>3, <2>4, <2>5, <2>6
      <3>3. QED
        BY <2>4, <3>1, <3>2 DEF WriteHolds
    <2>8. log' = Append(log, [call |-> call, end |-> end])
      BY <1>1, <2>1, <2>6
    <2>9. left' * unit' \in Nat /\ phase \notin {"plan", "open"}
      BY <2>2
    <2>10. QED
      BY <2>1, <2>2, <2>3, <2>6, <2>7, <2>8, <2>9, LogAppends
  <1>4. QED
    BY <1>2, <1>3

LEMMA BytesLogged ==
    ASSUME WriterInv, LogInv, phase = "write", phase' = phase,
           NEW call \in Call, call.kind = "bytes", WriteBytes(call.size),
           log' = IF fail' THEN log
                  ELSE Append(log, [call |-> call, end |-> Len(written') + left' * unit'])
    PROVE  LogInv'
  <1>1. Idle /\ ~fail
    BY DEF WriteBytes
  <1>2. CASE finalFlushed \/ Overflows(ByteBits * call.size)
    BY <1>2, LogUnchanged DEF WriteBytes, Refuse
  <1>3. CASE ~(finalFlushed \/ Overflows(ByteBits * call.size))
    <2>1. left' = call.size /\ unit' = ByteBits /\ UNCHANGED <<fail, written>>
      BY <1>3 DEF WriteBytes
    <2>2. written \in Seq(Bit) /\ left * unit = 0
      BY <1>1 DEF Idle, WriterInv, TypeOK
    <2>3. PICK n \in Nat : n = call.size
      BY CallFields
    <2>4. n * ByteBits \in Nat /\ n * ByteBits = ByteBits * n
      BY ByteBitsAssumption
    <2>5. left' * unit' = ByteBits * n /\ left' * unit' \in Nat
      BY <2>1, <2>3, <2>4
    <2>6. written' = written \o <<>> /\ <<>> \in Seq(Bit)
      BY <2>1, <2>2, EmptySeq
    <2>7. PICK end \in Nat : end = Len(written') + left' * unit'
      BY <2>1, <2>2, <2>5, LenProperties
    <2>8. WriteHolds(written', call, Len(written), end)
      <3>1. Len(written) <= Len(written')
        BY <2>1, <2>2, LenProperties
      <3>2. QED
        BY <2>1, <2>3, <2>5, <2>7, <3>1 DEF WriteHolds
    <2>9. log' = Append(log, [call |-> call, end |-> end])
      BY <1>1, <2>1, <2>7
    <2>10. phase \notin {"plan", "open"}
      OBVIOUS
    <2>11. QED
      BY <2>2, <2>5, <2>6, <2>7, <2>8, <2>9, <2>10, LogAppends
  <1>4. QED
    BY <1>2, <1>3

\* A length that is written fits the width of its prefix, and the cast that
\* read_string_length does: what the string takes is below 2^32 bits.
LEMMA AcceptedLength ==
    ASSUME WriterInv, NoWrap, Idle, ~fail, ~finalFlushed, NEW len \in Nat,
           NEW c \in 1 .. 4, NEW n \in Nat,
           out.usedBits + (PrefixPrefixBits + n + ByteBits * (len * c)) <= totalBits
    PROVE  len < SizeMod /\ len < LengthMod \div 2
  <1>1. PICK used \in Nat, total \in Nat :
          used = out.usedBits /\ total = totalBits /\ total + ScratchBits < SizeMod
    BY AcceptedFits
  <1>2. PICK b \in Nat : b = ByteBits * (len * c)
    BY ByteBitsAssumption
  <1>3. 2 * len <= b
    <2>1. c = 1 \/ c = 2 \/ c = 3 \/ c = 4
      OBVIOUS
    <2>2. 2 * len <= ByteBits * len
      BY WidthsAssumption, ByteBitsAssumption
    <2>3. ByteBits * len \in Nat
      BY ByteBitsAssumption
    <2>4. \/ b = ByteBits * len \/ b = 2 * (ByteBits * len)
          \/ b = 3 * (ByteBits * len) \/ b = 4 * (ByteBits * len)
      BY <1>2, <2>1, ByteBitsAssumption
    <2>5. QED
      BY <2>2, <2>3, <2>4
  <1>4. b <= total
    BY <1>1, <1>2 DEF PrefixPrefixBits
  <1>5. 2 * len + 2 <= SizeMod
    BY <1>1, <1>3, <1>4, WordBitsPos, SizeModAssumption
  <1>6. 2 * len + 2 <= LengthMod
    BY <1>5, WidthsAssumption, SizeModAssumption, ReadAssumption
  <1>7. QED
    BY <1>5, <1>6, SizeModAssumption, ReadAssumption

LEMMA PrefixFits ==
    ASSUME NEW len \in Nat, len < SizeMod
    PROVE  LengthPrefix(len) \in 0 .. 3 /\ len < 2 ^ PrefixBits(LengthPrefix(len))
  <1>1. PICK k : k = LengthPrefix(len)
    OBVIOUS
  <1>2. k \in 0 .. 3 /\ (k = 3 \/ FitsPrefix(len, k))
    BY <1>1, PrefixExists DEF LengthPrefix
  <1>3. CASE k = 3
    <2>1. PrefixBits(3) = 8 * ByteBits
      BY ByteBitsAssumption DEF PrefixBits
    <2>2. 8 * ByteBits \in Nat
      BY ByteBitsAssumption
    <2>3. 2 ^ (8 * ByteBits) \in Nat
      BY <2>2, PowersGrow
    <2>4. len < 2 ^ (8 * ByteBits)
      BY <2>3, WidthsAssumption, SizeModAssumption
    <2>5. QED
      BY <1>1, <1>3, <2>1, <2>4
  <1>4. CASE FitsPrefix(len, k)
    BY <1>1, <1>2, <1>4 DEF FitsPrefix
  <1>5. QED
    BY <1>2, <1>3, <1>4

LEMMA StringLogged ==
    ASSUME NoWrap, WriterInv, LogInv, phase = "write", phase' = phase,
           NEW call \in Call, call.kind = "string",
           WriteString(call.len, call.charBytes),
           log' = IF fail' THEN log
                  ELSE Append(log, [call |-> call, end |-> Len(written') + left' * unit'])
    PROVE  LogInv'
  <1>1. Idle /\ ~fail
    BY DEF WriteString
  <1>2. PICK len \in Nat, c \in 1 .. 4 : len = call.len /\ c = call.charBytes
    BY CallFields
  <1>3. PICK k : k = LengthPrefix(len)
    OBVIOUS
  <1>4. k \in 0 .. 3
    BY <1>3, PrefixOK
  <1>5. PICK n \in Nat : n = PrefixBits(k) /\ n <= ScratchBits
    BY <1>4, PrefixWidths
  <1>6. PICK first \in Seq(Bit), second \in Seq(Bit) :
          /\ first = ToBits(k, PrefixPrefixBits) /\ Len(first) = PrefixPrefixBits
          /\ second = ToBits(len, n) /\ Len(second) = n
    <2>1. k \in Nat /\ PrefixPrefixBits \in Nat /\ PrefixPrefixBits <= ScratchBits
      BY <1>4, WordBitsPos, ByteBitsAssumption
         DEF PrefixPrefixBits, WordBits, WordBytes
    <2>2. QED
      BY <1>5, <2>1, ToBitsOK DEF Value
  <1>7. PICK bits : bits = PrefixPrefixBits + n + ByteBits * (len * c)
    OBVIOUS
  <1>8. CASE finalFlushed \/ out.usedBits + bits > totalBits
    <2>1. Refuse
      BY <1>2, <1>3, <1>5, <1>7, <1>8 DEF WriteString
    <2>2. QED
      BY <2>1, LogUnchanged DEF Refuse
  <1>9. CASE ~(finalFlushed \/ out.usedBits + bits > totalBits)
    <2>1. /\ written' = written \o first \o second
          /\ left' = len /\ unit' = ByteBits * c /\ UNCHANGED fail
      BY <1>2, <1>3, <1>5, <1>6, <1>7, <1>9 DEF WriteString
    <2>2. written \in Seq(Bit) /\ left * unit = 0
      BY <1>1 DEF Idle, WriterInv, TypeOK
    <2>3. PICK p \in Nat : p = PrefixPrefixBits
      BY DEF PrefixPrefixBits
    <2>4. PICK a \in Nat : a = Len(written)
      BY <2>2, LenProperties
    <2>5. PICK b \in Nat : b = left' * unit' /\ b = len * (ByteBits * c)
      BY <2>1, ByteBitsAssumption
    <2>6. /\ written' = written \o (first \o second) /\ first \o second \in Seq(Bit)
          /\ Len(written') = a + p + n
          /\ RP!Slice(written', a, p) = first
          /\ RP!Slice(written', a + p, n) = second
      <3>1. PICK w \in Seq(Bit) : w = written
        BY <2>2
      <3>2. /\ Len(w \o first \o second) = Len(w) + Len(first) + Len(second)
            /\ RP!Slice(w \o first \o second, Len(w), Len(first)) = first
            /\ RP!Slice(w \o first \o second, Len(w) + Len(first), Len(second)) = second
        <4>1. Len(w \o first \o second) = Len(w) + Len(first) + Len(second)
          BY TwoAppended
        <4>2. RP!Slice(w \o first \o second, Len(w), Len(first)) = first
          BY TwoAppended
        <4>3. RP!Slice(w \o first \o second, Len(w) + Len(first), Len(second)) = second
          BY TwoAppended
        <4>4. QED
          BY <4>1, <4>2, <4>3
      <3>3. Len(w) = a /\ Len(first) = p /\ Len(second) = n
        BY <1>6, <2>3, <2>4, <3>1
      <3>4. written' = w \o first \o second /\ w = written
        BY <2>1, <3>1
      <3>5. w \o first \o second = w \o (first \o second) /\ first \o second \in Seq(Bit)
        <4>1. w \in Seq(Bit) /\ first \in Seq(Bit) /\ second \in Seq(Bit)
          BY <1>6, <3>1
        <4>2. w \o first \o second = w \o (first \o second)
          BY <4>1, ConcatBits
        <4>3. first \o second \in Seq(Bit)
          BY <4>1, ConcatProperties
        <4>4. QED
          BY <4>2, <4>3
      <3>6. QED
        BY <3>2, <3>3, <3>4, <3>5, Zenon
    <2>7. len < SizeMod /\ len < LengthMod \div 2
      <3>1. out.usedBits + bits <= totalBits
        <4>1. PICK d \in Nat : d = ByteBits * (len * c)
          BY ByteBitsAssumption
        <4>2. bits \in Nat
          BY <1>7, <4>1 DEF PrefixPrefixBits
        <4>3. out.usedBits \in Nat /\ totalBits \in Nat
          BY DEF WriterInv, TypeOK, Out
        <4>4. QED
          BY <1>9, <4>2, <4>3
      <3>2. QED
        BY <1>1, <1>7, <1>9, <3>1, AcceptedLength
    <2>8. PICK end \in Nat : end = Len(written') + left' * unit' /\ end = a + p + n + b
      BY <2>5, <2>6
    <2>9. p = RP!PrefixPrefixBits /\ n = RP!PrefixBits(k)
      BY <1>5, <2>3, PrefixWidths
    <2>10. RP!HoldsLength(written', a, k, len)
      <3>1. len < 2 ^ PrefixBits(k)
        BY <1>3, <2>7, PrefixFits
      <3>2. QED
        BY <1>4, <1>5, <1>6, <2>3, <2>6, <2>9, <3>1, PrefixWidths DEF RP!HoldsLength
    <2>11. WriteHolds(written', call, Len(written), end)
      <3>1. a + RP!PrefixPrefixBits + RP!PrefixBits(k) <= Len(written')
        BY <2>6, <2>9
      <3>2. end = a + RP!PrefixPrefixBits + RP!PrefixBits(k)
                    + call.len * (ByteBits * call.charBytes)
        BY <1>2, <2>5, <2>8, <2>9
      <3>3. QED
        BY <1>2, <1>4, <2>4, <2>7, <2>10, <3>1, <3>2 DEF WriteHolds
    <2>12. log' = Append(log, [call |-> call, end |-> end])
      BY <1>1, <2>1, <2>8
    <2>13. left' * unit' \in Nat /\ phase \notin {"plan", "open"}
      BY <2>5
    <2>14. QED
      BY <2>2, <2>6, <2>8, <2>11, <2>12, <2>13, LogAppends
  <1>10. QED
    BY <1>8, <1>9

LEMMA WriteCallLogged ==
    ASSUME NoWrap, WriterInv, LogInv, phase = "write", phase' = phase,
           NEW call \in Call, WriteCall(call)
    PROVE  LogInv'
  BY IntegerLogged, BytesLogged, StringLogged DEF WriteCall

\* A step of the loop appends one of the units that the log counts already.
LEMMA LoopLogged ==
    ASSUME WriterInv, LogInv, UNCHANGED <<log, phase>>, PutNext
    PROVE  LogInv'
  <1>1. PICK v \in [1 .. unit -> Bit] : written' = written \o v
    BY DEF PutNext
  <1>2. /\ left > 0 /\ left' = left - 1 /\ unit' = unit
        /\ left \in Nat /\ unit \in Nat /\ written \in Seq(Bit)
    BY DEF PutNext, WriterInv, TypeOK
  <1>3. PICK u \in Nat, n \in Nat : u = unit /\ n = left
    BY <1>2
  <1>4. v \in Seq(Bit) /\ Len(v) = u
    BY <1>1, <1>3
  <1>5. /\ left' * unit' \in Nat
        /\ Len(v) + left' * unit' = left * unit
    BY <1>2, <1>3, <1>4, LoopProduct
  <1>6. QED
    BY <1>1, <1>2, <1>4, <1>5, LogContinues

LEMMA LogStep ==
    ASSUME NoWrap, TransportInv, LogInv, [TransportNext]_transportVars
    PROVE  LogInv'
  <1>1. WriterInv /\ plan \in Seq(Call) /\ left \in Nat /\ unit \in Nat
    BY DEF TransportInv, WriterInv, TypeOK
  <1>2. ASSUME NEW call \in Call, PlanCall(call) PROVE LogInv'
    BY <1>2, LogUnchanged DEF PlanCall, vars
  <1>3. CASE Allocate
    <2>1. log = <<>>
      BY <1>3 DEF Allocate, LogInv
    <2>2. QED
      BY <1>3, <2>1, LogUnchanged DEF Allocate, writerVars, vars
  <1>4. CASE GiveUp \/ Lost \/ Receive
    BY <1>4, LogUnchanged DEF GiveUp, Lost, Receive, writerVars, vars
  <1>5. CASE OpenWriter
    <2>1. /\ phase = "open" /\ phase' = "write" /\ UNCHANGED <<log, left, unit>>
          /\ written' = <<>> /\ Idle
      BY <1>5 DEF OpenWriter, ResetWith, Restarted
    <2>2. log' = <<>>
      BY <2>1 DEF LogInv
    <2>3. left' * unit' = 0
      BY <1>1, <2>1 DEF Idle
    <2>4. QED
      BY <2>1, <2>2, <2>3, LogStartsOver
  <1>6. CASE WritePlanned
    <2>1. /\ phase = "write" /\ phase' = phase /\ WriteCall(plan[Len(log) + 1])
          /\ Len(log) + 1 \in 1 .. Len(plan)
      <3>1. Len(log) \in Nat /\ Len(plan) \in Nat
        BY <1>1, LenProperties DEF LogInv
      <3>2. QED
        BY <1>6, <3>1 DEF WritePlanned, Writing
    <2>2. plan[Len(log) + 1] \in Call
      BY <1>1, <2>1, ElementOfSeq
    <2>3. QED
      BY <1>1, <2>1, <2>2, WriteCallLogged
  <1>7. CASE WriteUnmeasured
    BY <1>1, <1>7, WriteCallLogged DEF WriteUnmeasured, Writing
  <1>8. CASE WriteLoop
    BY <1>1, <1>8, LoopLogged DEF WriteLoop, Writing
  <1>9. CASE Flush
    BY <1>9, LogUnchanged DEF Flush, Writing, FlushFinal
  <1>10. CASE Rewrite
    <2>1. /\ log' = <<>> /\ written' = <<>> /\ UNCHANGED <<left, unit>> /\ Idle
      BY <1>10 DEF Rewrite, Restart, Restarted
    <2>2. left' * unit' = 0
      BY <1>1, <2>1 DEF Idle
    <2>3. QED
      BY <2>1, <2>2, LogStartsOver
  <1>11. CASE Send \/ Discard
    BY <1>11, LogUnchanged DEF Send, Discard, writerVars, vars
  <1>12. CASE NetworkStep \/ \E m \in S!Messages : Deliver(m)
    BY <1>12, LogUnchanged DEF NetworkStep, Deliver, writerVars, letterVars, vars
  <1>13. CASE ReadCall \/ Peek \/ ReadOn
    BY <1>13, LogUnchanged DEF ReadCall, Peek, ReadOn, Reading, writerVars, vars
  <1>14. CASE NextLetter
    <2>1. /\ log' = <<>> /\ written' = <<>> /\ UNCHANGED <<left, unit>> /\ Idle
      BY <1>14 DEF NextLetter, Reset, Restarted
    <2>2. left' * unit' = 0
      BY <1>1, <2>1 DEF Idle
    <2>3. QED
      BY <2>1, <2>2, LogStartsOver
  <1>15. CASE UNCHANGED transportVars
    BY <1>15, LogUnchanged DEF transportVars, writerVars, letterVars, vars
  <1>16. QED
    BY <1>2, <1>3, <1>4, <1>5, <1>6, <1>7, <1>8, <1>9, <1>10, <1>11, <1>12, <1>13,
       <1>14, <1>15 DEF TransportNext

-----------------------------------------------------------------------------
(* What the words of the payload hold.                                       *)

\* Once the stream is closed, its last word holds zeros after its last bit.
PaddedInv ==
    finalFlushed =>
      \A i \in out.usedBits .. out.wordsIndex * WordBits - 1 : out.words[i] = 0

LEMMA FlushPads ==
    ASSUME WriterInv, FlushFinal
    PROVE  PaddedInv'
  <1>1. PICK a : a = out.wordsIndex * WordBits
    OBVIOUS
  <1>2. PICK k : k = out.scratchIndex
    OBVIOUS
  <1>3. PICK m : m = wordsSize * WordBits
    OBVIOUS
  <1>4. /\ ~finalFlushed /\ out' = IF k > 0 THEN FlushWord(out) ELSE out
    BY <1>2 DEF FlushFinal
  <1>5. /\ out \in Out(wordsSize) /\ wordsSize \in Nat
        /\ a \in Nat /\ m \in Nat /\ k \in 0 .. WordBits - 1
        /\ out.wordsIndex \in Nat
        /\ \A i \in 0 .. ScratchBits - 1 : i >= k => out.scratch[i] = 0
        /\ out.usedBits = a + k
    BY <1>1, <1>2, <1>3, <1>4, WordBitsPos
       DEF WriterInv, TypeOK, OutOK, Out, CursorsAgree
  <1>6. CASE k = 0
    BY <1>1, <1>4, <1>5, <1>6 DEF PaddedInv
  <1>7. CASE k > 0
    <2>1. PICK r : r = FlushWord(out)
      OBVIOUS
    <2>2. /\ r.words = [i \in DOMAIN out.words |->
                          IF i >= a /\ i < a + WordBits
                          THEN out.scratch[i - a] ELSE out.words[i]]
          /\ r.wordsIndex = out.wordsIndex + 1 /\ r.usedBits = out.usedBits
      <3>1. out \in Out(wordsSize) /\ wordsSize \in Nat
        BY <1>5
      <3>2. QED
        BY <1>1, <2>1, <3>1, FlushWordFields, Zenon
    <2>3. r.wordsIndex * WordBits = a + WordBits
      BY <1>1, <1>5, <2>2, NextWord
    <2>4. a + WordBits <= m
      <3>1. out.wordsIndex + 1 <= wordsSize
        BY <1>2, <1>5, <1>7, WordsInside DEF NoOverrun
      <3>2. (out.wordsIndex + 1) * WordBits <= wordsSize * WordBits
        BY <1>5, <3>1, WordBitsPos
      <3>3. QED
        BY <1>1, <1>3, <1>5, <3>2, NextWord
    <2>5. DOMAIN out.words = 0 .. m - 1
      BY <1>3, <1>5 DEF Out, Memory
    <2>6. ASSUME NEW i \in a + k .. a + WordBits - 1
          PROVE  r.words[i] = 0
      <3>1. i \in 0 .. m - 1 /\ i >= a /\ i < a + WordBits
        BY <1>5, <2>4, WordBitsPos
      <3>2. r.words[i] = out.scratch[i - a]
        BY <2>2, <2>5, <3>1
      <3>3. i - a \in 0 .. ScratchBits - 1 /\ i - a >= k
        BY <1>5, <3>1, WordBitsPos
      <3>4. QED
        BY <1>5, <3>2, <3>3
    <2>7. out' = r
      BY <1>4, <1>7, <2>1
    <2>8. QED
      <3>1. PICK low, high : /\ low = out'.usedBits
                             /\ high = out'.wordsIndex * WordBits - 1
        OBVIOUS
      <3>2. low = a + k /\ high = a + WordBits - 1
        BY <1>5, <2>2, <2>3, <2>7, <3>1, WordBitsPos
      <3>3. \A i \in low .. high : r.words[i] = 0
        BY <2>6, <3>2
      <3>4. \A i \in low .. high : out'.words[i] = 0
        BY <2>7, <3>3, Zenon
      <3>5. QED
        BY <3>1, <3>4 DEF PaddedInv
  <1>8. QED
    BY <1>5, <1>6, <1>7, WordBitsPos

\* No other step closes a stream, or changes a closed one.
LEMMA ClosedStays ==
    ASSUME WriterInv, [Next]_vars, ~FlushFinal, finalFlushed'
    PROVE  UNCHANGED <<out, finalFlushed>>
  <1>1. ASSUME NEW v \in Values, Write(v) PROVE UNCHANGED <<out, finalFlushed>>
    BY <1>1 DEF Write, Refuse
  <1>2. ASSUME NEW size, WriteBytes(size) PROVE UNCHANGED <<out, finalFlushed>>
    BY <1>2 DEF WriteBytes, Refuse
  <1>3. ASSUME NEW len, NEW c, WriteString(len, c)
        PROVE  UNCHANGED <<out, finalFlushed>>
    BY <1>3 DEF WriteString, Refuse
  <1>4. ~PutNext
    <2>1. left > 0 => ~finalFlushed
      <3>1. left > 0 => ~initFail
        BY DEF WriterInv
      <3>2. QED
        BY <3>1 DEF WriterInv, LoopFits
    <2>2. QED
      BY <2>1 DEF PutNext
  <1>5. ~Restart /\ ~Reset /\ ~\E n, isNull, l : ResetWith(n, isNull, l)
    BY DEF Restart, Reset, ResetWith, Restarted
  <1>6. QED
    BY <1>1, <1>2, <1>3, <1>4, <1>5 DEF Next, SetFail, vars

LEMMA PaddedStep ==
    ASSUME WriterInv, PaddedInv, [Next]_vars
    PROVE  PaddedInv'
  <1>1. CASE FlushFinal
    BY <1>1, FlushPads
  <1>2. CASE ~FlushFinal
    BY <1>2, ClosedStays DEF PaddedInv
  <1>3. QED
    BY <1>1, <1>2

\* What is stored are the first bits that were written.
LEMMA StoredFacts ==
    ASSUME WriterInv, ContentInv
    PROVE  /\ Stored \in Nat /\ Stored <= Len(written) /\ Len(written) = out.usedBits
           /\ Stored <= out.wordsIndex * WordBits
           /\ \A p \in 1 .. Stored : out.words[p - 1] = written[p]
  <1>1. PICK a \in Nat : a = out.wordsIndex * WordBits
    BY WordBitsPos DEF WriterInv, TypeOK, Out
  <1>2. PICK n \in Nat : n = Len(written)
    BY LenProperties DEF WriterInv, TypeOK
  <1>3. /\ n = out.usedBits
        /\ \A i \in 0 .. n - 1 : BitOf(out, i) = written[i + 1]
    BY <1>2 DEF ContentInv, Content
  <1>4. Stored \in Nat /\ Stored <= n /\ Stored <= a
    <2>1. CASE finalFlushed
      BY <1>1, <1>2, <1>3, <2>1 DEF Stored, WriterInv, CursorsAgree
    <2>2. CASE ~finalFlushed
      <3>1. out.wordsIndex \in Nat /\ WordBits \in Nat \ {0}
        BY WordBitsPos DEF WriterInv, TypeOK, Out
      <3>2. /\ n = out.wordsIndex * WordBits + out.scratchIndex
            /\ out.scratchIndex \in 0 .. WordBits - 1
        BY <1>1, <1>3, <2>2 DEF WriterInv, CursorsAgree
      <3>3. n \div WordBits = out.wordsIndex
        BY <3>1, <3>2, QuotientRemainder
      <3>4. Stored = a
        BY <1>1, <1>2, <2>2, <3>3 DEF Stored
      <3>5. QED
        BY <1>1, <3>1, <3>2, <3>4
    <2>3. QED
      BY <2>1, <2>2
  <1>5. ASSUME NEW p \in 1 .. Stored PROVE out.words[p - 1] = written[p]
    <2>1. PICK i : i = p - 1
      OBVIOUS
    <2>2. i \in 0 .. n - 1 /\ i < a /\ i + 1 = p
      BY <1>1, <1>4, <2>1
    <2>3. BitOf(out, i) = out.words[i]
      BY <1>1, <2>2 DEF BitOf
    <2>4. QED
      BY <1>3, <2>1, <2>2, <2>3
  <1>6. QED
    BY <1>1, <1>2, <1>3, <1>4, <1>5

-----------------------------------------------------------------------------
(* The words on their way: every host gives the bytes of a word their order, *)
(* and takes it back.                                                        *)

\* Where byteswap puts a bit of a word.
OtherPlace(i) == (WordBytes - 1 - (i - 1) \div ByteBits) * ByteBits
                   + ((i - 1) % ByteBits) + 1

LEMMA OtherPlaceIs ==
    ASSUME NEW q \in 0 .. 3, NEW r \in 0 .. ByteBits - 1
    PROVE  /\ OtherPlace(q * ByteBits + r + 1) = (3 - q) * ByteBits + r + 1
           /\ q * ByteBits + r + 1 \in 1 .. WordBits
  <1>1. PICK j \in Nat : j = q * ByteBits + r
    BY ByteBitsAssumption
  <1>2. q \in Nat /\ j \div ByteBits = q /\ (j % ByteBits) = r
    BY <1>1, ByteBitsAssumption, QuotientRemainder
  <1>3. (j + 1) - 1 = j /\ WordBytes - 1 = 3
    BY DEF WordBytes
  <1>4. OtherPlace(j + 1) = (3 - q) * ByteBits + r + 1
    BY <1>2, <1>3, Zenon DEF OtherPlace
  <1>5. j + 1 \in 1 .. WordBits
    <2>1. PICK b \in Nat \ {0} : b = ByteBits /\ WordBits = 4 * b
      BY ByteBitsAssumption DEF WordBits, WordBytes
    <2>2. j = 0 * b + r \/ j = 1 * b + r \/ j = 2 * b + r \/ j = 3 * b + r
      <3>1. q = 0 \/ q = 1 \/ q = 2 \/ q = 3
        OBVIOUS
      <3>2. QED
        BY <1>1, <2>1, <3>1
    <2>3. QED
      BY <2>1, <2>2
  <1>6. QED
    BY <1>1, <1>4, <1>5

LEMMA OtherPlaceTwice ==
    ASSUME NEW i \in 1 .. WordBits
    PROVE  OtherPlace(i) \in 1 .. WordBits /\ OtherPlace(OtherPlace(i)) = i
  <1>1. PICK b \in Nat \ {0} : b = ByteBits /\ WordBits = 4 * b
    BY ByteBitsAssumption DEF WordBits, WordBytes
  <1>2. PICK j \in Nat : i = j + 1 /\ j < 4 * b
    <2>1. i - 1 \in Nat /\ i = (i - 1) + 1 /\ i - 1 < 4 * b
      BY <1>1
    <2>2. QED
      BY <2>1
  <1>3. PICK q \in Nat, r \in 0 .. b - 1 : j = q * b + r
    BY DivisionOf
  <1>4. q \in 0 .. 3
    <2>1. SUFFICES ASSUME q > 3 PROVE FALSE
      BY <1>3
    <2>2. PICK d \in Nat : q = 4 + d
      <3>1. q - 4 \in Nat /\ q = 4 + (q - 4)
        BY <2>1
      <3>2. QED
        BY <3>1
    <2>3. q * b = 4 * b + d * b /\ d * b \in Nat
      BY <2>2
    <2>4. QED
      BY <1>2, <1>3, <2>3
  <1>5. i = q * ByteBits + r + 1
    BY <1>1, <1>2, <1>3
  <1>6. OtherPlace(i) = (3 - q) * ByteBits + r + 1
    BY <1>1, <1>4, <1>5, OtherPlaceIs
  <1>7. PICK p \in 0 .. 3 : p = 3 - q /\ q = 3 - p
    <2>1. 3 - q \in 0 .. 3 /\ q = 3 - (3 - q)
      BY <1>4
    <2>2. QED
      BY <2>1
  <1>8. /\ OtherPlace(p * ByteBits + r + 1) = (3 - p) * ByteBits + r + 1
        /\ p * ByteBits + r + 1 \in 1 .. WordBits
    BY <1>1, OtherPlaceIs
  <1>9. QED
    BY <1>5, <1>6, <1>7, <1>8, Zenon

LEMMA SwapTwice ==
    ASSUME NEW w, w = [i \in 1 .. WordBits |-> w[i]]
    PROVE  ByteSwap(ByteSwap(w)) = w
  <1>1. \A v : ByteSwap(v) = [i \in 1 .. WordBits |-> v[OtherPlace(i)]]
    BY DEF ByteSwap, OtherPlace
  <1>2. ByteSwap(ByteSwap(w)) = [i \in 1 .. WordBits |-> w[i]]
    BY <1>1, OtherPlaceTwice
  <1>3. QED
    BY <1>2

LEMMA CarriedUnchanged ==
    ASSUME NEW w, w = [i \in 1 .. WordBits |-> w[i]], NEW from \in Endian, NEW to \in Endian
    PROVE  Carried(from, to, w) = w
  <1>1. \A host : Bytes(host, Swapped(host, w)) = w
    BY SwapTwice DEF Bytes, Swapped
  <1>2. \A host : Swapped(host, Bytes(host, w)) = w
    BY SwapTwice DEF Bytes, Swapped
  <1>3. QED
    BY <1>1, <1>2 DEF Carried

\* A message of whole words of the writer holds those words.
LEMMA WordsArrive ==
    ASSUME out \in Out(wordsSize), wordsSize \in Nat, NEW n \in 0 .. wordsSize,
           NEW from \in Endian, NEW to \in Endian
    PROVE  WordsOf(n * WordBytes, from, to) = [i \in 1 .. n * WordBits |-> out.words[i - 1]]
  <1>1. (n * WordBytes) \div WordBytes = n
    BY DEF WordBytes
  <1>2. DOMAIN out.words = 0 .. wordsSize * WordBits - 1
    BY DEF Out, Memory
  <1>3. n * WordBits <= wordsSize * WordBits /\ n * WordBits \in Nat
        /\ wordsSize * WordBits \in Nat
    BY WordBitsPos
  <1>4. ASSUME NEW i \in 1 .. n * WordBits
        PROVE  Carried(from, to, PayloadWord((i - 1) \div WordBits))[((i - 1) % WordBits) + 1]
                 = out.words[i - 1]
    <2>1. PICK q \in Nat, r \in 0 .. WordBits - 1 :
            /\ i - 1 = q * WordBits + r /\ q = (i - 1) \div WordBits
            /\ r = ((i - 1) % WordBits)
      BY <1>3, WordBitsPos
    <2>2. PICK w : w = PayloadWord(q)
      OBVIOUS
    <2>3. w = [j \in 1 .. WordBits |-> w[j]]
      BY <2>2 DEF PayloadWord
    <2>4. Carried(from, to, w) = w
      BY <2>3, CarriedUnchanged
    <2>5. r + 1 \in 1 .. WordBits /\ q * WordBits + (r + 1) - 1 = i - 1
      BY <2>1, WordBitsPos
    <2>6. i - 1 \in DOMAIN out.words
      BY <1>2, <1>3
    <2>7. w[r + 1] = out.words[i - 1]
      BY <2>2, <2>5, <2>6 DEF PayloadWord
    <2>8. QED
      BY <2>1, <2>2, <2>4, <2>7
  <1>5. QED
    BY <1>1, <1>4 DEF WordsOf

-----------------------------------------------------------------------------
(* The message: what was sent, and what the receiver was given.              *)

Message == [size |-> S!CeilToWord(sentLength),
            words |-> [i \in 1 .. ByteBits * S!CeilToWord(sentLength) |-> out.words[i - 1]]]

\* What is sent is all that the writer used, and lies in its words.
LengthInv ==
    /\ phase \in Phases
    /\ sentLength \in 0 .. MaxSend
    /\ phase \in {"sent", "read"} =>
         /\ left = 0
         /\ WriterUsedBytes <= sentLength
         /\ S!CeilToWord(sentLength) <= WordBytes * wordsSize

\* A message is only read while it is queued, and all have the same size.
ReadingInv ==
    /\ reading = [m \in S!Messages |-> reading[m]]
    /\ \A m \in S!Messages :
         reading[m] # NoPayload => phase = "sent" /\ msgState[m] = "queued"

SizesInv ==
    phase = "sent" =>
      /\ \A m \in S!Messages : msgState[m] # "free" => msgSize[m] = S!CeilToWord(sentLength)
      /\ pc[Sender] = "setup" => length[Sender] = sentLength

InboxInv ==
    /\ inbox \in {NoMessage, Message}
    /\ phase \notin {"sent", "read"} => inbox = NoMessage

\* The reader is opened over the words of the message.
OpenedInv ==
    phase = "read" =>
      /\ inbox = Message
      /\ rWords = Message.words
      /\ rTotalBits = ByteBits * Message.size
      /\ rInitFail = (Message.size = 0)

CarriedInv == LengthInv /\ ReadingInv /\ SizesInv /\ InboxInv /\ OpenedInv

LEMMA MessageFacts ==
    ASSUME WriterInv, PayloadsCovered, LengthInv, phase \in {"sent", "read"}
    PROVE  \E n \in WordCounts \cup {0} :
             /\ n \in 0 .. wordsSize
             /\ S!CeilToWord(sentLength) = n * WordBytes
             /\ Message.size = n * WordBytes
             /\ ByteBits * Message.size = n * WordBits
             /\ Message.words = [i \in 1 .. n * WordBits |-> out.words[i - 1]]
             /\ Message.words \in Seq(Bit) /\ Len(Message.words) = n * WordBits
             /\ Message.words \in MessageWords /\ Message.size \in MessageBytes
             /\ n * WordBits < SizeMod
             /\ out.usedBits <= n * WordBits
  <1>1. PICK l \in Nat : l = sentLength /\ l <= MaxSend
    BY SendAssumption DEF LengthInv
  <1>2. PICK n \in Nat : S!CeilToWord(l) = n * WordBytes /\ n = S!CeilToWord(l) \div WordBytes
    BY CeilFacts DEF WordBytes
  <1>3. n \in WordCounts \cup {0}
    <2>1. CASE l = 0
      BY <1>2, <2>1 DEF S!CeilToWord, WordBytes
    <2>2. CASE l # 0
      <3>1. l \in 1 .. MaxSend
        BY <1>1, <2>2, SendAssumption
      <3>2. QED
        BY <1>2, <3>1 DEF PayloadsCovered
    <2>3. QED
      BY <2>1, <2>2
  <1>4. wordsSize \in Nat /\ out \in Out(wordsSize)
    BY DEF WriterInv, TypeOK
  <1>5. n \in 0 .. wordsSize
    BY <1>1, <1>2, <1>4 DEF LengthInv, WordBytes
  <1>6. ByteBits * (n * WordBytes) = n * WordBits /\ n * WordBits \in Nat
    BY ByteBitsAssumption DEF WordBits, WordBytes
  <1>7. /\ Message.size = n * WordBytes
        /\ Message.words = [i \in 1 .. n * WordBits |-> out.words[i - 1]]
    BY <1>1, <1>2, <1>6 DEF Message
  <1>8. Message.words \in Seq(Bit) /\ Len(Message.words) = n * WordBits
    <2>1. n * WordBits <= wordsSize * WordBits /\ wordsSize * WordBits \in Nat
      BY <1>4, <1>5, WordBitsPos
    <2>2. out.words \in [0 .. wordsSize * WordBits - 1 -> Bit]
      BY <1>4 DEF Out, Memory
    <2>3. \A i \in 1 .. n * WordBits : out.words[i - 1] \in Bit
      BY <1>6, <2>1, <2>2
    <2>4. QED
      BY <1>6, <1>7, <2>3
  <1>9. /\ Message.words \in MessageWords /\ Message.size \in MessageBytes
        /\ n * WordBits < SizeMod
    <2>1. Message.words \in MessageWords
      BY <1>3, <1>8 DEF MessageWords
    <2>2. CASE n = 0
      BY <1>7, <2>1, <2>2, SizeModAssumption, WordBitsPos DEF MessageBytes, WordBytes
    <2>3. CASE n \in WordCounts
      BY <1>7, <2>1, <2>3 DEF MessageBytes, PayloadsCovered
    <2>4. QED
      BY <1>3, <2>2, <2>3
  <1>10. out.usedBits <= n * WordBits
    <2>1. PICK used \in Nat, b \in Nat \ {0} : used = out.usedBits /\ b = ByteBits
      BY <1>4, ByteBitsAssumption DEF Out
    <2>2. used + b - 1 \in Nat
      BY <2>1
    <2>3. PICK k \in Nat, r \in 0 .. b - 1 :
            /\ used + b - 1 = k * b + r /\ k = (used + b - 1) \div b
            /\ r = ((used + b - 1) % b)
      BY <2>2, DivisionOf
    <2>4. used <= k * b
      BY <2>3
    <2>5. k <= n * WordBytes
      <3>1. k <= l
        BY <1>1, <2>1, <2>3 DEF LengthInv, WriterUsedBytes
      <3>2. QED
        BY <1>1, <1>2, <3>1, CeilFacts DEF WordBytes
    <2>6. PICK m \in Nat : m = n * WordBytes
      BY DEF WordBytes
    <2>7. k * b <= m * b /\ m * b = ByteBits * (n * WordBytes)
      BY <2>1, <2>4, <2>5, <2>6
    <2>8. QED
      BY <1>6, <2>1, <2>4, <2>6, <2>7
  <1>11. QED
    BY <1>1, <1>2, <1>3, <1>5, <1>6, <1>7, <1>8, <1>9, <1>10

\* A step that leaves the letter with the sender, or lets it go.
LEMMA QuietCarried ==
    ASSUME CarriedInv, phase' \in Phases \ {"sent", "read"}, UNCHANGED <<msgState, reading>>,
           sentLength' \in {sentLength, 0}, inbox' = NoMessage, phase = "sent" => AllFree
    PROVE  CarriedInv'
  <1>1. LengthInv'
    BY SendAssumption DEF CarriedInv, LengthInv
  <1>2. ReadingInv'
    <2>1. \A m \in S!Messages : reading[m] = NoPayload
      BY DEF CarriedInv, ReadingInv, AllFree
    <2>2. QED
      BY <2>1 DEF CarriedInv, ReadingInv
  <1>3. SizesInv' /\ InboxInv' /\ OpenedInv'
    BY DEF SizesInv, InboxInv, OpenedInv
  <1>4. QED
    BY <1>1, <1>2, <1>3 DEF CarriedInv

\* A step that changes nothing of what was sent, or opened.
LEMMA StillCarried ==
    ASSUME CarriedInv, UNCHANGED <<phase, out, left, wordsSize, sentLength, inbox>>,
           UNCHANGED <<pc, length, msgState, msgSize, reading>>,
           UNCHANGED <<rWords, rTotalBits, rInitFail>>
    PROVE  CarriedInv'
  <1>1. /\ S!CeilToWord(sentLength)' = S!CeilToWord(sentLength)
        /\ WriterUsedBytes' = WriterUsedBytes
    BY DEF S!CeilToWord, WriterUsedBytes
  <1>2. Message' = Message
    BY <1>1 DEF Message
  <1>3. LengthInv'
    BY <1>1 DEF CarriedInv, LengthInv
  <1>4. ReadingInv'
    BY DEF CarriedInv, ReadingInv
  <1>5. SizesInv'
    BY <1>1 DEF CarriedInv, SizesInv
  <1>6. InboxInv' /\ OpenedInv'
    BY <1>2 DEF CarriedInv, InboxInv, OpenedInv
  <1>7. QED
    BY <1>3, <1>4, <1>5, <1>6 DEF CarriedInv

LEMMA SendCarried ==
    ASSUME TransportInv, CarriedInv, Send
    PROVE  CarriedInv'
  <1>1. /\ phase = "write" /\ phase' = "sent" /\ left = 0
        /\ UNCHANGED <<out, left, wordsSize, inbox>>
    BY DEF Send, Idle, writerVars, vars, config
  <1>2. PICK l \in {WriterUsedBytes, S!Size(payload[Sender])} :
          /\ S!Unicast(Sender) \/ S!Multicast(Sender)
          /\ pc'[Sender] = "setup" => length'[Sender] = l
          /\ sentLength' = l
    BY DEF Send
  <1>3. UNCHANGED <<msgState, msgSize, reading>>
    BY <1>2 DEF S!Unicast, S!Multicast, S!StartSend, S!MulticastToNobody, S!msgVars
  <1>4. PICK size \in 1 .. MaxSend : size = S!Size(payload[Sender])
    BY <1>1 DEF TransportInv, LetterInv, WriteInv, PayloadHeld
  <1>5. S!CeilToWord(size) = WordBytes * wordsSize
    BY <1>1, <1>4 DEF TransportInv, LetterInv, WriteInv, PayloadHeld
  <1>6. WriterUsedBytes \in Nat /\ WriterUsedBytes <= size
    <2>1. out.usedBits \in Nat
      BY DEF TransportInv, WriterInv, TypeOK, Out
    <2>2. WriterUsedBytes \in Nat
      BY <2>1, ByteBitsAssumption DEF WriterUsedBytes
    <2>3. QED
      BY <1>1, <1>4, <2>2, UsedWithin DEF UsedIsWithinPayload
  <1>7. l \in Nat /\ l <= size /\ WriterUsedBytes <= l
    BY <1>2, <1>4, <1>6, SendAssumption
  <1>8. LengthInv'
    <2>1. WriterUsedBytes' = WriterUsedBytes
      BY <1>1 DEF WriterUsedBytes
    <2>2. S!CeilToWord(sentLength)' = S!CeilToWord(l)
      BY <1>2 DEF S!CeilToWord
    <2>3. S!CeilToWord(l) <= S!CeilToWord(size)
      BY <1>4, <1>7, SendAssumption, CeilMonotone
    <2>4. l \in 0 .. MaxSend
      BY <1>4, <1>7, SendAssumption
    <2>5. QED
      BY <1>1, <1>2, <1>5, <1>7, <2>1, <2>2, <2>3, <2>4 DEF LengthInv, Phases
  <1>9. ReadingInv'
    BY <1>1, <1>3 DEF CarriedInv, ReadingInv
  <1>10. SizesInv'
    <2>1. \A m \in S!Messages : msgState'[m] = "free"
      BY <1>1, <1>3 DEF TransportInv, LetterInv, SentInv, AllFree
    <2>2. QED
      BY <1>2, <2>1 DEF SizesInv
  <1>11. InboxInv' /\ OpenedInv'
    BY <1>1 DEF CarriedInv, InboxInv, OpenedInv
  <1>12. QED
    BY <1>8, <1>9, <1>10, <1>11 DEF CarriedInv

-----------------------------------------------------------------------------
\* What the network changes of the messages.
LEMMA MessagesKept ==
    ASSUME CarriedInv, phase = "sent",
           UNCHANGED <<phase, out, left, wordsSize, sentLength, inbox>>,
           ReadingInv', SizesInv'
    PROVE  CarriedInv'
  <1>1. /\ S!CeilToWord(sentLength)' = S!CeilToWord(sentLength)
        /\ WriterUsedBytes' = WriterUsedBytes
    BY DEF S!CeilToWord, WriterUsedBytes
  <1>2. Message' = Message
    BY <1>1 DEF Message
  <1>3. LengthInv'
    BY <1>1 DEF CarriedInv, LengthInv
  <1>4. InboxInv' /\ OpenedInv'
    BY <1>2 DEF CarriedInv, InboxInv, OpenedInv
  <1>5. QED
    BY <1>3, <1>4 DEF CarriedInv

\* A step of one message that is not being read.
LEMMA MessageKept ==
    ASSUME NetTypeOK, ReadingInv, SizesInv, phase = "sent",
           UNCHANGED <<phase, sentLength, pc, length, reading>>, NEW m \in S!Messages,
           reading[m] = NoPayload, NEW s,
           msgState' = [msgState EXCEPT ![m] = s],
           s = "free" \/ (msgState[m] # "free" /\ UNCHANGED msgSize),
           \E n \in Nat : msgSize' = [msgSize EXCEPT ![m] = n]
    PROVE  ReadingInv' /\ SizesInv'
  <1>1. ReadingInv'
    BY DEF ReadingInv, NetTypeOK
  <1>2. S!CeilToWord(sentLength)' = S!CeilToWord(sentLength)
    BY DEF S!CeilToWord
  <1>3. ASSUME NEW k \in S!Messages, msgState'[k] # "free"
        PROVE  msgSize'[k] = S!CeilToWord(sentLength)
    <2>1. CASE k = m
      BY <1>3, <2>1 DEF NetTypeOK, SizesInv
    <2>2. CASE k # m
      BY <1>3, <2>2 DEF NetTypeOK, SizesInv
    <2>3. QED
      BY <2>1, <2>2
  <1>4. QED
    BY <1>1, <1>2, <1>3 DEF SizesInv

LEMMA SetupKept ==
    ASSUME LetterInv, ReadingInv, SizesInv, phase = "sent", UNCHANGED <<phase, sentLength>>,
           S!SetupMessage(Sender)
    PROVE  ReadingInv' /\ SizesInv'
  <1>1. PICK m \in S!Messages :
          /\ reading[m] = NoPayload
          /\ msgSize' = [msgSize EXCEPT ![m] = S!SendSize(payload[Sender], length[Sender])]
          /\ msgState' = [msgState EXCEPT ![m] = "attached"]
    BY DEF S!SetupMessage, S!AddToMessage, S!FreeMessages, S!MessagesOf
  <1>2. pc[Sender] = "setup" /\ UNCHANGED <<length, reading>>
    BY DEF S!SetupMessage
  <1>3. S!UsedBitStream(payload[Sender])
    BY <1>2 DEF LetterInv, SentInv
  <1>4. msgSize' = [msgSize EXCEPT ![m] = S!CeilToWord(sentLength)]
    BY <1>1, <1>2, <1>3 DEF S!SendSize, SizesInv
  <1>5. ReadingInv'
    BY <1>1, <1>2 DEF ReadingInv, LetterInv, NetTypeOK
  <1>6. S!CeilToWord(sentLength)' = S!CeilToWord(sentLength)
    BY DEF S!CeilToWord
  <1>7. \A k \in S!Messages : msgState'[k] # "free" => msgSize'[k] = S!CeilToWord(sentLength)
    BY <1>1, <1>4 DEF LetterInv, NetTypeOK, SizesInv
  <1>8. QED
    BY <1>2, <1>5, <1>6, <1>7 DEF SizesInv

LEMMA ReadStepKept ==
    ASSUME ReadingInv, SizesInv, phase = "sent", UNCHANGED <<phase, sentLength>>,
           NEW m \in S!Messages, S!BeginRead(m) \/ S!EndRead(m)
    PROVE  ReadingInv' /\ SizesInv'
  <1>1. UNCHANGED <<pc, length, msgState, msgSize>>
    BY DEF S!BeginRead, S!EndRead, S!callVars
  <1>2. ReadingInv'
    <2>1. PICK p : reading' = [reading EXCEPT ![m] = p]
      BY DEF S!BeginRead, S!EndRead
    <2>2. p = NoPayload \/ msgState[m] = "queued"
      BY <2>1 DEF S!BeginRead, S!EndRead, ReadingInv
    <2>3. QED
      BY <1>1, <2>1, <2>2 DEF ReadingInv
  <1>3. S!CeilToWord(sentLength)' = S!CeilToWord(sentLength)
    BY DEF S!CeilToWord
  <1>4. QED
    BY <1>1, <1>2, <1>3 DEF SizesInv

LEMMA RecycleKept ==
    ASSUME NetTypeOK, ReadingInv, SizesInv, phase = "sent",
           UNCHANGED <<phase, sentLength, pc, length, reading>>, NEW m \in S!Messages,
           reading[m] = NoPayload, S!Recycle(m)
    PROVE  ReadingInv' /\ SizesInv'
  <1>1. /\ msgState' = [msgState EXCEPT ![m] = "free"]
        /\ msgSize' = [msgSize EXCEPT ![m] = 0]
    BY DEF S!Recycle
  <1>2. 0 \in Nat
    OBVIOUS
  <1>3. QED
    BY <1>1, <1>2, MessageKept

LEMMA MessageStepKept ==
    ASSUME NetTypeOK, ReadingInv, SizesInv, phase = "sent", UNCHANGED <<phase, sentLength>>,
           NEW m \in S!Messages,
           \/ S!Submit(m) \/ S!BeginRead(m) \/ S!EndRead(m)
           \/ S!DropReference(m) \/ S!DeallocateLast(m)
    PROVE  ReadingInv' /\ SizesInv'
  <1>1. ASSUME NEW s, msgState' = [msgState EXCEPT ![m] = s], msgState[m] # "free",
               reading[m] = NoPayload, UNCHANGED <<pc, length, reading, msgSize>>
        PROVE  ReadingInv' /\ SizesInv'
    <2>1. \E n \in Nat : msgSize' = [msgSize EXCEPT ![m] = n]
      <3>1. msgSize[m] \in Nat /\ msgSize' = [msgSize EXCEPT ![m] = msgSize[m]]
        BY <1>1 DEF NetTypeOK
      <3>2. QED
        BY <3>1
    <2>2. QED
      BY <1>1, <2>1, MessageKept
  <1>2. CASE S!Submit(m)
    <2>1. /\ msgState[m] = "attached" /\ UNCHANGED <<pc, length, reading, msgSize>>
          /\ \E s \in {"queued", "rejected"} : msgState' = [msgState EXCEPT ![m] = s]
      BY <1>2 DEF S!Submit, S!callVars
    <2>2. reading[m] = NoPayload
      BY <2>1 DEF ReadingInv
    <2>3. QED
      BY <1>1, <2>1, <2>2
  <1>3. CASE S!BeginRead(m) \/ S!EndRead(m)
    BY <1>3, ReadStepKept
  <1>4. CASE S!DropReference(m)
    <2>1. /\ msgState[m] \in {"queued", "rejected"} /\ reading[m] = NoPayload
          /\ UNCHANGED <<pc, length, reading>>
          /\ \/ /\ msgState' = [msgState EXCEPT ![m] = "freeing"]
                /\ UNCHANGED msgSize
             \/ S!Recycle(m)
      BY <1>4 DEF S!DropReference, S!callVars
    <2>2. QED
      BY <1>1, <2>1, RecycleKept
  <1>5. CASE S!DeallocateLast(m)
    <2>1. /\ reading[m] = NoPayload /\ S!Recycle(m)
          /\ UNCHANGED <<pc, length, reading>>
      BY <1>5 DEF S!DeallocateLast, S!callVars
    <2>2. QED
      BY <2>1, RecycleKept
  <1>6. QED
    BY <1>2, <1>3, <1>4, <1>5

LEMMA NetworkCarried ==
    ASSUME LetterInv, CarriedInv, NetworkStep
    PROVE  CarriedInv'
  <1>1. /\ phase = "sent" /\ UNCHANGED <<phase, out, left, wordsSize, sentLength, inbox>>
    BY DEF NetworkStep, letterVars, writerVars, vars, config
  <1>2. ReadingInv /\ SizesInv /\ NetTypeOK
    BY DEF CarriedInv, LetterInv
  <1>3. CASE S!SetupMessage(Sender)
    BY <1>1, <1>2, <1>3, SetupKept, MessagesKept
  <1>4. CASE S!SendReturns(Sender)
    <2>1. /\ pc' = [pc EXCEPT ![Sender] = "idle"] /\ UNCHANGED <<msgState, msgSize, reading>>
      BY <1>4 DEF S!SendReturns, S!Done, S!msgVars
    <2>2. S!CeilToWord(sentLength)' = S!CeilToWord(sentLength)
      BY <1>1 DEF S!CeilToWord
    <2>3. ReadingInv' /\ SizesInv'
      BY <1>1, <1>2, <2>1, <2>2 DEF ReadingInv, SizesInv, NetTypeOK
    <2>4. QED
      BY <1>1, <2>3, MessagesKept
  <1>5. CASE \E m \in S!Messages : \/ S!Submit(m) \/ S!BeginRead(m)
                                   \/ S!EndRead(m) \/ S!DropReference(m)
                                   \/ S!DeallocateLast(m)
    <2>1. ReadingInv' /\ SizesInv'
      BY <1>1, <1>2, <1>5, MessageStepKept
    <2>2. QED
      BY <1>1, <2>1, MessagesKept
  <1>6. QED
    BY <1>3, <1>4, <1>5 DEF NetworkStep

LEMMA DeliverCarried ==
    ASSUME PayloadsCovered, WriterInv, CarriedInv, NEW m \in S!Messages, Deliver(m)
    PROVE  CarriedInv'
  <1>1. /\ phase = "sent" /\ UNCHANGED <<phase, out, left, wordsSize, sentLength>>
        /\ S!EndRead(m)
    BY DEF Deliver, writerVars, vars, config
  <1>2. PICK from \in Endian, to \in Endian :
          inbox' = [size |-> msgSize[m], words |-> WordsOf(msgSize[m], from, to)]
    BY DEF Deliver
  <1>3. msgSize[m] = S!CeilToWord(sentLength)
    BY <1>1 DEF S!EndRead, CarriedInv, ReadingInv, SizesInv
  <1>4. PICK n \in 0 .. wordsSize :
          /\ S!CeilToWord(sentLength) = n * WordBytes /\ Message.size = n * WordBytes
          /\ Message.words = [i \in 1 .. n * WordBits |-> out.words[i - 1]]
    BY <1>1, MessageFacts DEF CarriedInv
  <1>5. WordsOf(n * WordBytes, from, to) = [i \in 1 .. n * WordBits |-> out.words[i - 1]]
    BY WordsArrive DEF WriterInv, TypeOK
  <1>6. inbox' = [size |-> Message.size, words |-> Message.words]
    BY <1>2, <1>3, <1>4, <1>5
  <1>7. inbox' = Message
    BY <1>6 DEF Message
  <1>8. /\ S!CeilToWord(sentLength)' = S!CeilToWord(sentLength)
        /\ WriterUsedBytes' = WriterUsedBytes
    BY <1>1 DEF S!CeilToWord, WriterUsedBytes
  <1>9. Message' = Message
    BY <1>1, <1>8 DEF Message
  <1>10. LengthInv'
    BY <1>1, <1>8 DEF CarriedInv, LengthInv
  <1>11. ReadingInv' /\ SizesInv'
    BY <1>1, ReadStepKept DEF CarriedInv
  <1>12. InboxInv' /\ OpenedInv'
    BY <1>1, <1>7, <1>9 DEF InboxInv, OpenedInv
  <1>13. QED
    BY <1>10, <1>11, <1>12 DEF CarriedInv

\* The receiver's reader is opened over a buffer of the theorems of the reader.
LEMMA ReceiveCarried ==
    ASSUME NoWrap, PayloadsCovered, WriterInv, CarriedInv, Receive, SentInv
    PROVE  CarriedInv' /\ RP!Next
  <1>1. /\ phase = "sent" /\ phase' = "read" /\ inbox = Message /\ Settled
        /\ R!ResetWith(Message.words, FALSE, Message.size)
        /\ UNCHANGED <<out, left, wordsSize, sentLength, inbox>>
        /\ UNCHANGED <<pc, length, msgState, msgSize, reading>>
    BY DEF Receive, CarriedInv, InboxInv, writerVars, netVars, vars, config
  <1>2. PICK n \in Nat :
          /\ Message.size = n * WordBytes /\ ByteBits * Message.size = n * WordBits
          /\ Len(Message.words) = n * WordBits /\ Message.words \in Seq(Bit)
          /\ Message.words \in MessageWords /\ Message.size \in MessageBytes
          /\ n * WordBits < SizeMod
    <2>1. PICK n \in 0 .. wordsSize :
            /\ Message.size = n * WordBytes /\ ByteBits * Message.size = n * WordBits
            /\ Len(Message.words) = n * WordBits /\ Message.words \in Seq(Bit)
            /\ Message.words \in MessageWords /\ Message.size \in MessageBytes
            /\ n * WordBits < SizeMod
      BY <1>1, MessageFacts DEF CarriedInv
    <2>2. n \in Nat
      BY DEF WriterInv, TypeOK
    <2>3. QED
      BY <2>1, <2>2
  <1>3. RP!ResetWith(Message.words, FALSE, Message.size)
    BY <1>1, SameReader
  <1>4. RP!Next
    BY <1>2, <1>3 DEF RP!Next
  <1>5. rWords' = Message.words /\ rTotalBits' = n * WordBits
    <2>1. n * WordBits < SizeMod /\ n * WordBits \in Nat
      BY <1>2, WordBitsPos
    <2>2. rTotalBits' = RP!Wrap(n * WordBits)
      BY <1>2, <1>3 DEF RP!ResetWith
    <2>3. RP!Wrap(n * WordBits) = n * WordBits
      BY <2>1, SizeModAssumption DEF RP!Wrap
    <2>4. QED
      BY <1>3, <2>2, <2>3 DEF RP!ResetWith
  <1>6. rInitFail' = (Message.size = 0)
    <2>1. rInitFail' = \/ Message.words = <<>>
                       \/ Message.size > Len(Message.words) \div ByteBits
      BY <1>3 DEF RP!ResetWith, RP!SizeBytes
    <2>2. Len(Message.words) \div ByteBits = Message.size
      BY <1>2, ByteBitsAssumption DEF WordBytes
    <2>3. Message.words = <<>> <=> Message.size = 0
      <3>1. Message.words = <<>> <=> n * WordBits = 0
        BY <1>2, EmptySeq
      <3>2. n * WordBits = 0 <=> n * WordBytes = 0
        BY WordBitsPos DEF WordBytes
      <3>3. QED
        BY <1>2, <3>1, <3>2
    <2>4. Message.size \in Nat
      BY <1>2 DEF WordBytes
    <2>5. ~(Message.size > Len(Message.words) \div ByteBits)
      BY <2>2, <2>4
    <2>6. QED
      BY <2>1, <2>3, <2>5
  <1>7. /\ S!CeilToWord(sentLength)' = S!CeilToWord(sentLength)
        /\ WriterUsedBytes' = WriterUsedBytes
    BY <1>1 DEF S!CeilToWord, WriterUsedBytes
  <1>8. Message' = Message
    BY <1>1, <1>7 DEF Message
  <1>9. LengthInv'
    BY <1>1, <1>7 DEF CarriedInv, LengthInv, Phases
  <1>10. ReadingInv' /\ SizesInv'
    BY <1>1 DEF CarriedInv, ReadingInv, SizesInv, Settled
  <1>11. InboxInv' /\ OpenedInv'
    BY <1>1, <1>2, <1>5, <1>6, <1>8 DEF InboxInv, OpenedInv
  <1>12. QED
    BY <1>4, <1>9, <1>10, <1>11 DEF CarriedInv

\* A read leaves the words and the size of the message as they are.
LEMMA ReadsKeepConfig ==
    ASSUME ReadCall \/ Peek \/ ReadOn
    PROVE  /\ UNCHANGED <<rWords, rTotalBits, rInitFail>> /\ Reading
  <1>1. UNCHANGED R!config /\ Reading
    BY DEF ReadCall, Peek, ReadOn, R!Read, R!ReadBytes, R!ReadString, R!ReadNext,
           R!PeekStringLength, R!PeekReturned
  <1>2. QED
    BY <1>1 DEF R!config

LEMMA CarriedStep ==
    ASSUME NoWrap, PayloadsCovered, TransportInv, CarriedInv, [TransportNext]_transportVars
    PROVE  CarriedInv'
  <1>1. WriterInv /\ LetterInv /\ NetTypeOK /\ SentInv /\ plan \in Seq(Call)
    BY DEF TransportInv, LetterInv
  <1>2. phase \notin {"sent", "read"} => inbox = NoMessage
    BY DEF CarriedInv, InboxInv
  <1>3. CASE \E call \in Call : PlanCall(call)
    <2>1. /\ phase = "plan" /\ phase' = "plan"
          /\ UNCHANGED <<msgState, reading, sentLength, inbox>>
      BY <1>3 DEF PlanCall, netVars
    <2>2. QED
      BY <1>2, <2>1, QuietCarried DEF Phases
  <1>4. CASE Allocate
    <2>1. /\ phase = "plan" /\ phase' = "open"
          /\ UNCHANGED <<msgState, reading, sentLength, inbox>>
      BY <1>4 DEF Allocate, S!Allocate, S!msgVars
    <2>2. QED
      BY <1>2, <2>1, QuietCarried DEF Phases
  <1>5. CASE GiveUp \/ Lost
    <2>1. /\ phase \in {"plan", "sent"} /\ phase' = "over" /\ inbox' = inbox
          /\ UNCHANGED <<msgState, reading, sentLength>>
          /\ phase = "sent" => Settled /\ inbox = NoMessage
      BY <1>5 DEF GiveUp, Lost, netVars
    <2>2. phase = "sent" => AllFree
      BY <2>1 DEF Settled, AllFree
    <2>3. QED
      BY <1>2, <2>1, <2>2, QuietCarried DEF Phases
  <1>6. CASE OpenWriter
    <2>1. /\ phase = "open" /\ phase' = "write"
          /\ UNCHANGED <<msgState, reading, sentLength, inbox>>
      BY <1>6 DEF OpenWriter, S!UseBitStream, S!msgVars
    <2>2. QED
      BY <1>2, <2>1, QuietCarried DEF Phases
  <1>7. CASE WritePlanned \/ WriteUnmeasured \/ WriteLoop \/ Flush \/ Rewrite
    <2>1. Writing
      BY <1>1, <1>7, WritingStep
    <2>2. /\ phase = "write" /\ phase' = "write"
          /\ UNCHANGED <<msgState, reading, sentLength, inbox>>
      BY <2>1 DEF Writing, netVars
    <2>3. QED
      BY <1>2, <2>2, QuietCarried DEF Phases
  <1>8. CASE Send
    BY <1>8, SendCarried
  <1>9. CASE Discard
    <2>1. /\ phase \in {"open", "write"} /\ phase' = "over"
          /\ UNCHANGED <<msgState, reading, sentLength, inbox>>
      BY <1>9 DEF Discard, S!Discard, S!msgVars
    <2>2. QED
      BY <1>2, <2>1, QuietCarried DEF Phases
  <1>10. CASE NetworkStep
    BY <1>1, <1>10, NetworkCarried
  <1>11. CASE \E m \in S!Messages : Deliver(m)
    BY <1>1, <1>11, DeliverCarried
  <1>12. CASE Receive
    BY <1>1, <1>12, ReceiveCarried
  <1>13. CASE ReadCall \/ Peek \/ ReadOn
    <2>1. /\ UNCHANGED <<rWords, rTotalBits, rInitFail>> /\ Reading
      BY <1>13, ReadsKeepConfig
    <2>2. /\ UNCHANGED <<phase, out, left, wordsSize, sentLength, inbox>>
          /\ UNCHANGED <<pc, length, msgState, msgSize, reading>>
      BY <2>1 DEF Reading, writerVars, netVars, vars, config
    <2>3. QED
      BY <2>1, <2>2, StillCarried
  <1>14. CASE NextLetter
    <2>1. /\ phase \in {"over", "read"} /\ phase' = "plan" /\ inbox' = NoMessage
          /\ sentLength' = 0 /\ UNCHANGED <<msgState, reading>>
      BY <1>14 DEF NextLetter, netVars
    <2>2. QED
      BY <2>1, QuietCarried DEF Phases
  <1>15. CASE UNCHANGED transportVars
    <2>1. /\ UNCHANGED <<phase, out, left, wordsSize, sentLength, inbox>>
          /\ UNCHANGED <<pc, length, msgState, msgSize, reading>>
          /\ UNCHANGED <<rWords, rTotalBits, rInitFail>>
      BY <1>15 DEF transportVars, writerVars, netVars, readerVars, letterVars, vars, config
    <2>2. QED
      BY <2>1, StillCarried
  <1>16. QED
    BY <1>3, <1>4, <1>5, <1>6, <1>7, <1>8, <1>9, <1>10, <1>11, <1>12, <1>13, <1>14,
       <1>15 DEF TransportNext

-----------------------------------------------------------------------------
(* What the receiver reads.                                                  *)

LEMMA ProductIsNat == \A a \in Nat, b \in Nat : a * b \in Nat
  OBVIOUS

\* The writes of the letter end one after the other.
LEMMA EndsGrow ==
    ASSUME LogInv, NEW i \in 1 .. Len(log), NEW j \in 1 .. Len(log), i <= j
    PROVE  log[i].end <= log[j].end
  <1>1. PICK n \in Nat : n = Len(log)
    BY LenProperties DEF LogInv
  <1>2. \A k \in 1 .. n : log[k].end \in Nat /\ log[k].call \in Call
    BY <1>1, Entries DEF LogInv
  <1>3. ASSUME NEW k \in Nat, k \in 1 .. n, k + 1 \in 1 .. n
        PROVE  log[k].end <= log[k + 1].end
    <2>1. StartOf(log, k + 1) = log[k].end
      <3>1. k + 1 # 1 /\ (k + 1) - 1 = k
        BY <1>3
      <3>2. QED
        BY <3>1 DEF StartOf
    <2>2. WriteHolds(written, log[k + 1].call, log[k].end, log[k + 1].end)
      BY <1>1, <1>3, <2>1 DEF LogInv
    <2>3. PICK call \in Call, start \in Nat, end \in Nat :
            /\ call = log[k + 1].call /\ start = log[k].end /\ end = log[k + 1].end
            /\ WriteHolds(written, call, start, end)
      BY <1>2, <1>3, <2>2
    <2>4. start <= end
      <3>1. CASE call.kind = "integer"
        <4>1. end = start + call.range.bits
          BY <2>3, <3>1 DEF WriteHolds
        <4>2. call.range.bits \in 1 .. ScratchBits /\ ScratchBits \in Nat
          BY <3>1, CallFields, WordBitsPos
        <4>3. QED
          BY <4>1, <4>2
      <3>2. CASE call.kind = "bytes"
        <4>1. end = start + ByteBits * call.size
          BY <2>3, <3>2 DEF WriteHolds
        <4>2. ByteBits * call.size \in Nat
          BY <3>2, CallFields, ByteBitsAssumption, ProductIsNat
        <4>3. QED
          BY <4>1, <4>2
      <3>3. CASE call.kind = "string"
        <4>1. PICK m \in 0 .. 3 :
                end = start + RP!PrefixPrefixBits + RP!PrefixBits(m)
                        + call.len * (ByteBits * call.charBytes)
          BY <2>3, <3>3 DEF WriteHolds
        <4>2. RP!PrefixPrefixBits \in Nat /\ RP!PrefixBits(m) \in Nat
          BY PrefixWidths DEF PrefixPrefixBits
        <4>3. call.len \in Nat /\ ByteBits \in Nat /\ call.charBytes \in Nat
          BY <3>3, CallFields, ByteBitsAssumption
        <4>4. call.len * (ByteBits * call.charBytes) \in Nat
          BY <4>3, ProductIsNat
        <4>5. QED
          BY <4>1, <4>2, <4>4
      <3>4. QED
        BY <3>1, <3>2, <3>3, CallFields
    <2>5. QED
      BY <2>3, <2>4
  <1> DEFINE Later == {d \in Nat : i + d \in 1 .. n => log[i].end <= log[i + d].end}
  <1>4. 0 \in Later
    <2>1. i + 0 = i /\ log[i].end \in Nat
      BY <1>1, <1>2
    <2>2. QED
      BY <2>1
  <1>5. ASSUME NEW d \in Nat, d \in Later PROVE d + 1 \in Later
    <2>1. SUFFICES ASSUME i + (d + 1) \in 1 .. n
                   PROVE  log[i].end <= log[i + (d + 1)].end
      OBVIOUS
    <2>2. PICK k \in Nat : k = i + d /\ i + (d + 1) = k + 1
      BY <1>1
    <2>3. k \in 1 .. n /\ k + 1 \in 1 .. n
      BY <1>1, <2>1, <2>2
    <2>4. log[i].end <= log[k].end
      BY <1>5, <2>2, <2>3
    <2>5. log[k].end <= log[k + 1].end
      BY <1>3, <2>3
    <2>6. log[i].end \in Nat /\ log[k].end \in Nat /\ log[k + 1].end \in Nat
      BY <1>1, <1>2, <2>3
    <2>7. log[i].end <= log[k + 1].end
      BY <2>4, <2>5, <2>6
    <2>8. QED
      BY <2>2, <2>7
  <1> HIDE DEF Later
  <1>6. \A d \in Nat : d \in Later
    BY <1>4, <1>5, SetInduction
  <1>7. PICK d \in Nat : j = i + d
    <2>1. j - i \in Nat /\ j = i + (j - i)
      BY <1>1
    <2>2. QED
      BY <2>1
  <1>8. QED
    BY <1>1, <1>6, <1>7 DEF Later

\* The writes that end within the first bits are the first ones.
LEMMA FirstWrites ==
    ASSUME LogInv, NEW most \in Nat
    PROVE  /\ WritesWithin(most) \in 0 .. Len(log)
           /\ \A i \in 1 .. Len(log) : i <= WritesWithin(most) <=> log[i].end <= most
  <1>1. PICK n \in Nat : n = Len(log) /\ DOMAIN log = 1 .. n
    BY LenProperties DEF LogInv
  <1>2. PICK A : A = {i \in 1 .. n : log[i].end <= most}
    OBVIOUS
  <1>3. WritesWithin(most) = Cardinality(A)
    BY <1>1, <1>2 DEF WritesWithin
  <1>4. A \subseteq 1 .. n
    BY <1>2
  <1>5. ASSUME NEW j \in A, NEW i \in 1 .. j PROVE i \in A
    <2>1. j \in 1 .. n /\ i \in 1 .. n /\ i <= j
      BY <1>4
    <2>2. log[i].end <= log[j].end
      BY <1>1, <2>1, EndsGrow
    <2>3. log[i].end \in Nat /\ log[j].end \in Nat
      BY <1>1, <2>1, Entries DEF LogInv
    <2>4. log[j].end <= most
      BY <1>2
    <2>5. QED
      BY <1>2, <2>1, <2>2, <2>3, <2>4
  <1>6. Cardinality(A) \in 0 .. n /\ A = 1 .. Cardinality(A)
    BY <1>4, <1>5, InitialPart
  <1>7. PICK c \in 0 .. n : c = Cardinality(A) /\ A = 1 .. c
    BY <1>6
  <1>8. \A i \in 1 .. n : i <= c <=> i \in A
    <2>1. c \in Nat /\ A = 1 .. c
      BY <1>7
    <2>2. QED
      BY <2>1
  <1>9. \A i \in 1 .. n : i \in A <=> log[i].end <= most
    BY <1>2
  <1>10. QED
    BY <1>1, <1>3, <1>7, <1>8, <1>9

LEMMA StoredWrites ==
    ASSUME WriterInv, ContentInv, LogInv
    PROVE  /\ WritesWithin(Stored) \in 0 .. Len(log)
           /\ \A i \in 1 .. Len(log) : i <= WritesWithin(Stored) <=> log[i].end <= Stored
  BY StoredFacts, FirstWrites

\* What was stored lies in the words of the message.
StoredArrives ==
    /\ Stored \in Nat /\ rTotalBits \in Nat /\ Stored <= rTotalBits
    /\ \A i \in 1 .. Stored : rWords[i] = written[i]
    /\ \A p \in Nat, n \in Nat :
         p + n <= Stored => RP!Slice(rWords, p, n) = RP!Slice(written, p, n)

LEMMA StoredInMessage ==
    ASSUME WriterInv, ContentInv, PayloadsCovered, CarriedInv, phase = "read"
    PROVE  StoredArrives
  <1>1. PICK n \in WordCounts \cup {0} :
          /\ ByteBits * Message.size = n * WordBits
          /\ Message.words = [i \in 1 .. n * WordBits |-> out.words[i - 1]]
          /\ out.usedBits <= n * WordBits
    BY MessageFacts DEF CarriedInv
  <1>2. PICK b \in Nat : b = n * WordBits
    BY CountsAssumption, WordBitsPos
  <1>3. rTotalBits = b /\ rWords = [i \in 1 .. b |-> out.words[i - 1]]
    BY <1>1, <1>2 DEF CarriedInv, OpenedInv
  <1>4. PICK stored \in Nat : stored = Stored
    BY StoredFacts
  <1>5. out.usedBits \in Nat
    BY DEF WriterInv, TypeOK, Out
  <1>6. stored <= b
    BY <1>1, <1>2, <1>4, <1>5, StoredFacts
  <1>7. \A i \in 1 .. stored : rWords[i] = written[i]
    <2>1. \A i \in 1 .. stored : i \in 1 .. b
      BY <1>6
    <2>2. \A i \in 1 .. stored : rWords[i] = out.words[i - 1]
      BY <1>3, <2>1
    <2>3. QED
      BY <1>4, <2>2, StoredFacts
  <1>8. ASSUME NEW p \in Nat, NEW k \in Nat, p + k <= stored
        PROVE  RP!Slice(rWords, p, k) = RP!Slice(written, p, k)
    <2>1. \A i \in 1 .. k : p + i \in 1 .. stored
      BY <1>8
    <2>2. \A i \in 1 .. k : rWords[p + i] = written[p + i]
      BY <1>7, <2>1
    <2>3. QED
      BY <2>2 DEF RP!Slice
  <1>9. QED
    BY <1>2, <1>3, <1>4, <1>6, <1>7, <1>8 DEF StoredArrives

\* The read that mirrors a write of which all was stored finds it, takes what
\* it took, and succeeds.
LEMMA IntegerRead ==
    ASSUME NoWrap, RP!ReaderInv, StoredArrives, NEW call \in Call,
           NEW end \in Nat, end <= Stored, call.kind = "integer",
           WriteHolds(written, call, Len(in.taken), end), R!Read(call.range)
    PROVE  ~rFail' /\ Len(in'.taken) + rLeft' * rUnit' = end
  <1>1. PICK start \in Nat : start = Len(in.taken)
    BY LenProperties DEF RP!ReaderInv, RP!TypeOK, RP!In
  <1>2. PICK n \in Nat : n = call.range.bits
    BY CallFields, WordBitsPos DEF ScratchBits
  <1>3. /\ end = start + n
        /\ RP!Number(RP!Slice(written, start, n)) <= call.range.span
    BY <1>1, <1>2 DEF WriteHolds
  <1>4. start + n <= Stored /\ start + n <= rTotalBits
    BY <1>3 DEF StoredArrives
  <1>5. RP!Slice(rWords, start, n) = RP!Slice(written, start, n)
    BY <1>4 DEF StoredArrives
  <1>6. RP!Read(call.range) /\ call.range \in Ranges
    BY SameReader, CallFields
  <1>7. QED
    BY <1>1, <1>2, <1>3, <1>4, <1>5, <1>6, RP!ReadGives, ReaderAssumed, ReaderNoWrap

LEMMA BytesRead ==
    ASSUME NoWrap, RP!ReaderInv, StoredArrives, NEW call \in Call,
           NEW end \in Nat, end <= Stored, call.kind = "bytes",
           WriteHolds(written, call, Len(in.taken), end), R!ReadBytes(call.size)
    PROVE  ~rFail' /\ Len(in'.taken) + rLeft' * rUnit' = end
  <1>1. end = Len(in.taken) + ByteBits * call.size
    BY DEF WriteHolds
  <1>2. end <= rTotalBits
    BY DEF StoredArrives
  <1>3. RP!ReadBytes(call.size) /\ call.size \in ByteCounts
    BY SameReader, CallFields
  <1>4. QED
    BY <1>1, <1>2, <1>3, RP!ReadBytesGives, ReaderAssumed, ReaderNoWrap

\* The prefix of a string of which all was stored is found too.
LEMMA PrefixFound ==
    ASSUME RP!ReaderInv, StoredArrives, NEW call \in Call,
           NEW end \in Nat, end <= Stored, call.kind = "string",
           WriteHolds(written, call, Len(in.taken), end)
    PROVE  /\ call.len < LengthMod \div 2
           /\ \E k \in 0 .. 3 :
                /\ RP!HoldsLength(rWords, Len(in.taken), k, call.len)
                /\ end = Len(in.taken) + RP!PrefixPrefixBits + RP!PrefixBits(k)
                           + call.len * (ByteBits * call.charBytes)
                /\ end <= rTotalBits
                /\ Len(in.taken) + RP!PrefixPrefixBits + RP!PrefixBits(k) <= rTotalBits
  <1>1. PICK start \in Nat : start = Len(in.taken)
    BY LenProperties DEF RP!ReaderInv, RP!TypeOK, RP!In
  <1>2. PICK k \in 0 .. 3 :
          /\ RP!HoldsLength(written, start, k, call.len)
          /\ end = start + RP!PrefixPrefixBits + RP!PrefixBits(k)
                     + call.len * (ByteBits * call.charBytes)
    BY <1>1 DEF WriteHolds
  <1>3. PICK m \in Nat, n \in Nat : m = RP!PrefixPrefixBits /\ n = RP!PrefixBits(k)
    BY PrefixWidths DEF PrefixPrefixBits
  <1>4. PICK d \in Nat : d = call.len * (ByteBits * call.charBytes)
    <2>1. call.len \in Nat /\ ByteBits \in Nat /\ call.charBytes \in Nat
      BY CallFields, ByteBitsAssumption
    <2>2. QED
      BY <2>1, ProductIsNat
  <1>5. end = start + m + n + d
    BY <1>2, <1>3, <1>4
  <1>6. start + m + n <= Stored /\ start + m <= Stored /\ end <= rTotalBits
    BY <1>5 DEF StoredArrives
  <1>7. /\ RP!Slice(rWords, start, m) = RP!Slice(written, start, m)
        /\ RP!Slice(rWords, start + m, n) = RP!Slice(written, start + m, n)
    BY <1>6 DEF StoredArrives
  <1>8. RP!HoldsLength(rWords, start, k, call.len)
    BY <1>2, <1>3, <1>7 DEF RP!HoldsLength
  <1>9. start + m + n <= rTotalBits
    BY <1>5, <1>6 DEF StoredArrives
  <1>10. call.len < LengthMod \div 2
    BY DEF WriteHolds
  <1>11. QED
    BY <1>1, <1>2, <1>3, <1>6, <1>8, <1>9, <1>10

LEMMA StringRead ==
    ASSUME NoWrap, RP!ReaderInv, StoredArrives, NEW call \in Call,
           NEW end \in Nat, end <= Stored, call.kind = "string",
           WriteHolds(written, call, Len(in.taken), end),
           NEW max \in MaxLengths, R!ReadString(max, call.charBytes)
    PROVE  ~rFail' /\ Len(in'.taken) + rLeft' * rUnit' = end
  <1>1. PICK k \in 0 .. 3 :
          /\ RP!HoldsLength(rWords, Len(in.taken), k, call.len)
          /\ end = Len(in.taken) + RP!PrefixPrefixBits + RP!PrefixBits(k)
                     + call.len * (ByteBits * call.charBytes)
          /\ end <= rTotalBits
    BY PrefixFound
  <1>2. call.len < LengthMod \div 2
    BY PrefixFound
  <1>3. /\ RP!ReadString(max, call.charBytes)
        /\ call.len \in Nat /\ call.charBytes \in CharBytes /\ call.len <= max
    BY SameReader, CallFields, AgreedAssumption
  <1>4. QED
    BY <1>1, <1>2, <1>3, RP!ReadStringGives, ReaderAssumed, ReaderNoWrap

\* So does a peek, that tells the length which was written.
LEMMA PeekFinds ==
    ASSUME NoWrap, RP!ReaderInv, StoredArrives, NEW call \in Call,
           NEW end \in Nat, end <= Stored, call.kind = "string",
           WriteHolds(written, call, Len(in.taken), end), R!PeekStringLength
    PROVE  ~rFail' /\ peeked' = call.len
  <1>1. PICK k \in 0 .. 3 :
          /\ RP!HoldsLength(rWords, Len(in.taken), k, call.len)
          /\ Len(in.taken) + RP!PrefixPrefixBits + RP!PrefixBits(k) <= rTotalBits
    BY PrefixFound
  <1>2. call.len < LengthMod \div 2
    BY PrefixFound
  <1>3. RP!PeekStringLength /\ call.len \in Nat
    BY SameReader, CallFields
  <1>4. QED
    BY <1>1, <1>2, <1>3, RP!PeekGives, ReaderAssumed, ReaderNoWrap

-----------------------------------------------------------------------------
(* The receiver keeps pace with the sender's log.                            *)

\* Where the last successful read ends.
LastMark == IF marks = <<>> THEN 0 ELSE marks[Len(marks)]

\* The reads of what was stored end where its writes end, and none fails.
MarksInv ==
    /\ marks \in Seq(Nat)
    /\ phase # "read" => marks = <<>> /\ peeked = 0
    /\ phase = "read" =>
         /\ Len(marks) <= Len(log)
         /\ \A i \in 1 .. Len(marks) :
              i <= WritesWithin(Stored) => marks[i] = log[i].end
         /\ ~rFail => Len(in.taken) + rLeft * rUnit = LastMark
         /\ rFail /\ ~rInitFail => Len(marks) >= WritesWithin(Stored)
         /\ peeked # 0 /\ Len(marks) < WritesWithin(Stored) => peeked = NextRead.len

LEMMA StoredUnchanged ==
    ASSUME UNCHANGED <<log, written, finalFlushed>>
    PROVE  Stored' = Stored /\ WritesWithin(Stored)' = WritesWithin(Stored)
  BY DEF Stored, WritesWithin

\* The receiver has no letter.
LEMMA MarksRest ==
    ASSUME MarksInv, phase' # "read",
           \/ phase # "read" /\ UNCHANGED <<marks, peeked>>
           \/ marks' = <<>> /\ peeked' = 0
    PROVE  MarksInv'
  <1>1. marks' = <<>> /\ peeked' = 0
    BY DEF MarksInv
  <1>2. marks' \in Seq(Nat)
    BY <1>1, EmptySeq
  <1>3. QED
    BY <1>1, <1>2 DEF MarksInv

LEMMA MarksUnchanged ==
    ASSUME MarksInv, UNCHANGED <<phase, log, written, finalFlushed, marks>>,
           UNCHANGED <<in, rLeft, rUnit, rFail, rInitFail, peeked>>
    PROVE  MarksInv'
  <1>1. WritesWithin(Stored)' = WritesWithin(Stored)
    BY StoredUnchanged
  <1>2. NextRead' = NextRead /\ LastMark' = LastMark
    BY DEF NextRead, LastMark
  <1>3. QED
    BY <1>1, <1>2 DEF MarksInv

\* A letter arrives, and nothing of it was read.
LEMMA MarksReceive ==
    ASSUME MarksInv, LogInv, RP!ReaderInv, Receive
    PROVE  MarksInv'
  <1>1. /\ phase = "sent" /\ phase' = "read" /\ UNCHANGED <<marks, log>>
        /\ R!ResetWith(inbox.words, FALSE, inbox.size)
    BY DEF Receive
  <1>2. /\ in'.taken = <<>> /\ rFail' = rInitFail' /\ rLeft' = 0 /\ peeked' = 0
        /\ rUnit' = rUnit
    BY <1>1 DEF R!ResetWith, R!Restarted, R!Idle
  <1>3. marks' = <<>>
    BY <1>1 DEF MarksInv
  <1>4. Len(marks') = 0 /\ marks' \in Seq(Nat) /\ Len(in'.taken) = 0
    BY <1>2, <1>3, EmptySeq
  <1>5. Len(log') \in Nat
    BY <1>1, LenProperties DEF LogInv
  <1>6. rInitFail' \/ ~rFail'
    BY <1>2
  <1>7. \A i \in 1 .. Len(marks') : FALSE
    BY <1>4
  <1>8. ~rFail' => Len(in'.taken) + rLeft' * rUnit' = LastMark'
    <2>1. rUnit' \in Nat
      BY <1>2 DEF RP!ReaderInv, RP!TypeOK
    <2>2. rLeft' * rUnit' = 0
      BY <1>2, <2>1
    <2>3. LastMark' = 0
      BY <1>3 DEF LastMark
    <2>4. QED
      BY <1>4, <2>2, <2>3
  <1>9. QED
    BY <1>1, <1>2, <1>4, <1>5, <1>6, <1>7, <1>8 DEF MarksInv

\* The writes and the marks that the next read is about.
LEMMA NextWrite ==
    ASSUME WriterInv, ContentInv, LogInv, MarksInv, phase = "read", Len(marks) < Len(log)
    PROVE  /\ NextRead \in Call
           /\ log[Len(marks) + 1].end \in Nat
           /\ ~rFail /\ rLeft = 0 /\ rUnit \in Nat /\ in.taken \in Seq(Bit)
                /\ Len(marks) < WritesWithin(Stored) =>
                /\ log[Len(marks) + 1].end <= Stored
                /\ WriteHolds(written, NextRead, Len(in.taken), log[Len(marks) + 1].end)
  <1>1. PICK m \in Nat : m = Len(marks)
    BY LenProperties DEF MarksInv
  <1>2. Len(log) \in Nat
    BY LenProperties DEF LogInv
  <1>3. m + 1 \in 1 .. Len(log)
    BY <1>1, <1>2
  <1>4. NextRead = log[m + 1].call
    BY <1>1 DEF NextRead
  <1>5. NextRead \in Call /\ log[m + 1].end \in Nat
    BY <1>3, <1>4, Entries DEF LogInv
  <1>6. ASSUME ~rFail, rLeft = 0, rUnit \in Nat, in.taken \in Seq(Bit),
               m < WritesWithin(Stored)
        PROVE  /\ log[m + 1].end <= Stored
               /\ WriteHolds(written, NextRead, Len(in.taken), log[m + 1].end)
    <2>1. WritesWithin(Stored) \in Nat
      BY StoredWrites, <1>2
    <2>2. m + 1 <= WritesWithin(Stored)
      BY <1>6, <2>1
    <2>3. log[m + 1].end <= Stored
      BY <1>3, <2>2, StoredWrites
    <2>4. Len(in.taken) = LastMark
      <3>1. rLeft * rUnit = 0 /\ Len(in.taken) \in Nat
        BY <1>6, LenProperties
      <3>2. Len(in.taken) + rLeft * rUnit = LastMark
        BY <1>6 DEF MarksInv
      <3>3. QED
        BY <3>1, <3>2
    <2>5. LastMark = StartOf(log, m + 1)
      <3>1. CASE m = 0
        <4>1. marks = <<>>
          BY <1>1, <3>1, EmptySeq DEF MarksInv
        <4>2. m + 1 = 1
          BY <3>1
        <4>3. QED
          BY <4>1, <4>2 DEF LastMark, StartOf
      <3>2. CASE m # 0
        <4>1. marks # <<>>
          BY <1>1, <3>2, EmptySeq
        <4>2. m + 1 # 1 /\ (m + 1) - 1 = m /\ m \in 1 .. m /\ m <= WritesWithin(Stored)
          BY <1>6, <2>1, <3>2
        <4>3. marks[m] = log[m].end
          BY <1>1, <4>2 DEF MarksInv
        <4>4. QED
          BY <1>1, <4>1, <4>2, <4>3 DEF LastMark, StartOf
      <3>3. QED
        BY <3>1, <3>2
    <2>6. WriteHolds(written, log[m + 1].call, StartOf(log, m + 1), log[m + 1].end)
      BY <1>3 DEF LogInv
    <2>7. QED
      BY <1>4, <2>3, <2>4, <2>5, <2>6
  <1>7. QED
    BY <1>1, <1>5, <1>6

\* The reads are those of the theorems of the reader.
LEMMA ReadsAreReads ==
    ASSUME LogInv, MarksInv, ReadCall \/ Peek \/ ReadOn
    PROVE  RP!Next
  <1>1. CASE ReadCall
    <2>1. Len(marks) < Len(log) /\ Len(marks) \in Nat /\ Len(log) \in Nat
      BY <1>1, LenProperties DEF ReadCall, MarksInv, LogInv
    <2>2. Len(marks) + 1 \in 1 .. Len(log)
      BY <2>1
    <2>3. NextRead \in Call
      BY <2>2, Entries DEF NextRead, LogInv
    <2>4. CASE NextRead.kind = "integer" /\ R!Read(NextRead.range)
      BY <2>3, <2>4, CallFields, SameReader DEF RP!Next
    <2>5. CASE NextRead.kind = "bytes" /\ R!ReadBytes(NextRead.size)
      BY <2>3, <2>5, CallFields, SameReader DEF RP!Next
    <2>6. CASE /\ NextRead.kind = "string"
               /\ \E max \in MaxLengths : R!ReadString(max, NextRead.charBytes)
      BY <2>3, <2>6, CallFields, SameReader DEF RP!Next
    <2>7. QED
      BY <1>1, <2>4, <2>5, <2>6 DEF ReadCall
  <1>2. CASE Peek
    BY <1>2, SameReader DEF Peek, RP!Next
  <1>3. CASE ReadOn
    BY <1>3, SameReader DEF ReadOn, RP!Next
  <1>4. QED
    BY <1>1, <1>2, <1>3

\* A read while the letter is being read changes nothing of the writer.
LEMMA ReadingKeeps ==
    ASSUME Reading
    PROVE  /\ phase = "read" /\ phase' = "read"
           /\ UNCHANGED <<log, written, finalFlushed, out>>
  BY DEF Reading, writerVars, vars

LEMMA MarksReadCall ==
    ASSUME NoWrap, WriterInv, ContentInv, LogInv, StoredArrives, RP!ReaderInv,
           RP!ReaderInv', MarksInv, ReadCall
    PROVE  MarksInv'
  <1>1. /\ phase = "read" /\ phase' = "read" /\ log' = log
        /\ WritesWithin(Stored)' = WritesWithin(Stored)
    BY ReadingKeeps, StoredUnchanged DEF ReadCall
  <1>2. PICK m \in Nat : m = Len(marks)
    BY LenProperties DEF MarksInv
  <1>3. m < Len(log) /\ Len(log) \in Nat
    BY <1>2, LenProperties DEF ReadCall, LogInv
  <1>4. PICK n \in Nat : n = WritesWithin(Stored)
    BY <1>3, StoredWrites
  <1>5. /\ ~rFail /\ rLeft = 0 /\ peeked = 0 /\ peeked' = 0 /\ UNCHANGED rInitFail
    BY DEF ReadCall, R!Read, R!ReadBytes, R!ReadString, R!Idle, R!config
  <1>6. rUnit \in Nat /\ in.taken \in Seq(Bit)
    BY DEF RP!ReaderInv, RP!TypeOK, RP!In, RP!Bit, Bit
  <1>7. PICK to \in Nat : to = Len(in'.taken) + rLeft' * rUnit'
    <2>1. in'.taken \in Seq(RP!Bit) /\ rLeft' \in Nat /\ rUnit' \in Nat
      BY DEF RP!ReaderInv, RP!TypeOK, RP!In
    <2>2. Len(in'.taken) \in Nat /\ rLeft' * rUnit' \in Nat
      BY <2>1, LenProperties, ProductIsNat
    <2>3. QED
      BY <2>2
  <1>8. ASSUME m < n
        PROVE  ~rFail' /\ to = log[m + 1].end
    <2>1. PICK end \in Nat, call \in Call : end = log[m + 1].end /\ call = NextRead
      BY <1>1, <1>2, <1>3, NextWrite
    <2>2. end <= Stored /\ WriteHolds(written, call, Len(in.taken), end)
      BY <1>1, <1>2, <1>3, <1>4, <1>5, <1>6, <1>8, <2>1, NextWrite
    <2>3. CASE call.kind = "integer" /\ R!Read(call.range)
      BY <1>7, <2>1, <2>2, <2>3, IntegerRead
    <2>4. CASE call.kind = "bytes" /\ R!ReadBytes(call.size)
      BY <1>7, <2>1, <2>2, <2>4, BytesRead
    <2>5. CASE /\ call.kind = "string"
               /\ \E max \in MaxLengths : R!ReadString(max, call.charBytes)
      BY <1>7, <2>1, <2>2, <2>5, StringRead
    <2>6. QED
      BY <2>1, <2>3, <2>4, <2>5 DEF ReadCall
  <1>9. marks' = IF rFail' THEN marks ELSE Append(marks, to)
    BY <1>7 DEF ReadCall
  <1>10. CASE rFail'
    <2>1. marks' = marks
      BY <1>9, <1>10
    <2>2. m >= n
      BY <1>8, <1>10
    <2>3. QED
      BY <1>1, <1>2, <1>3, <1>4, <1>5, <1>10, <2>1, <2>2 DEF MarksInv
  <1>11. CASE ~rFail'
    <2>1. marks' = Append(marks, to) /\ marks \in Seq(Nat)
      BY <1>9, <1>11 DEF MarksInv
    <2>2. /\ marks' \in Seq(Nat) /\ Len(marks') = m + 1 /\ marks'[m + 1] = to
          /\ \A i \in 1 .. m : marks'[i] = marks[i]
      BY <1>2, <2>1, AppendProperties
    <2>3. LastMark' = to
      <3>1. marks' # <<>>
        BY <2>2, EmptySeq
      <3>2. QED
        BY <2>2, <3>1 DEF LastMark
    <2>4. ASSUME NEW i \in 1 .. m + 1, i <= n
          PROVE  marks'[i] = log[i].end
      <3>1. CASE i \in 1 .. m
        BY <1>1, <1>2, <1>4, <2>2, <2>4, <3>1 DEF MarksInv
      <3>2. CASE i = m + 1
        <4>1. m < n
          BY <2>4, <3>2
        <4>2. QED
          BY <1>8, <2>2, <3>2, <4>1
      <3>3. i \in 1 .. m \/ i = m + 1
        OBVIOUS
      <3>4. QED
        BY <3>1, <3>2, <3>3
    <2>5. m + 1 <= Len(log)
      BY <1>3
    <2>6. ~rFail' => Len(in'.taken) + rLeft' * rUnit' = LastMark'
      BY <1>7, <2>3
    <2>7. QED
      BY <1>1, <1>4, <1>5, <1>11, <2>2, <2>4, <2>5, <2>6 DEF MarksInv
  <1>12. QED
    BY <1>10, <1>11

LEMMA MarksPeek ==
    ASSUME NoWrap, WriterInv, ContentInv, LogInv, StoredArrives, RP!ReaderInv,
           MarksInv, Peek
    PROVE  MarksInv'
  <1>1. /\ phase = "read" /\ phase' = "read" /\ UNCHANGED <<log, marks>>
        /\ WritesWithin(Stored)' = WritesWithin(Stored)
    BY ReadingKeeps, StoredUnchanged DEF Peek
  <1>2. PICK m \in Nat : m = Len(marks)
    BY LenProperties DEF MarksInv
  <1>3. m < Len(log) /\ Len(log) \in Nat
    BY <1>2, LenProperties DEF Peek, LogInv
  <1>4. PICK n \in Nat : n = WritesWithin(Stored)
    BY <1>3, StoredWrites
  <1>5. /\ NextRead.kind = "string" /\ R!PeekStringLength
        /\ ~rFail /\ rLeft = 0 /\ UNCHANGED <<in, rLeft, rUnit, rInitFail>>
    BY DEF Peek, R!PeekStringLength, R!Idle, R!config
  <1>6. rUnit \in Nat /\ in.taken \in Seq(Bit)
    BY DEF RP!ReaderInv, RP!TypeOK, RP!In, RP!Bit, Bit
  <1>7. ASSUME m < n
        PROVE  ~rFail' /\ peeked' = NextRead.len
    <2>1. PICK end \in Nat, call \in Call : end = log[m + 1].end /\ call = NextRead
      BY <1>1, <1>2, <1>3, NextWrite
    <2>2. end <= Stored /\ WriteHolds(written, call, Len(in.taken), end)
      BY <1>1, <1>2, <1>3, <1>4, <1>5, <1>6, <1>7, <2>1, NextWrite
    <2>3. QED
      BY <1>5, <2>1, <2>2, PeekFinds
  <1>8. NextRead' = NextRead /\ LastMark' = LastMark
    BY <1>1 DEF NextRead, LastMark
  <1>9. marks' \in Seq(Nat) /\ Len(marks') = m
    BY <1>1, <1>2 DEF MarksInv
  <1>10. rFail' => m >= n
    BY <1>7
  <1>11. ~rFail' => Len(in'.taken) + rLeft' * rUnit' = LastMark'
    BY <1>1, <1>5, <1>8 DEF MarksInv
  <1>12. \A i \in 1 .. m : i <= n => marks'[i] = log'[i].end
    BY <1>1, <1>2, <1>4 DEF MarksInv
  <1>13. QED
    BY <1>1, <1>3, <1>4, <1>7, <1>8, <1>9, <1>10, <1>11, <1>12 DEF MarksInv

LEMMA MarksReadOn ==
    ASSUME NoWrap, RP!ReaderInv, MarksInv, ReadOn
    PROVE  MarksInv'
  <1>1. /\ phase = "read" /\ phase' = "read" /\ UNCHANGED <<log, marks>>
        /\ WritesWithin(Stored)' = WritesWithin(Stored)
    BY ReadingKeeps, StoredUnchanged DEF ReadOn
  <1>2. NextRead' = NextRead /\ LastMark' = LastMark
    BY <1>1 DEF NextRead, LastMark
  <1>3. CASE R!ReadNext
    <2>1. RP!ReadNext /\ UNCHANGED <<rFail, rInitFail, peeked>>
      BY <1>3, SameReader DEF R!ReadNext, R!config
    <2>2. ~rFail' /\ Len(in'.taken) + rLeft' * rUnit' = Len(in.taken) + rLeft * rUnit
      BY <2>1, RP!ReadNextGives, ReaderAssumed, ReaderNoWrap
    <2>3. QED
      BY <1>1, <1>2, <2>1, <2>2 DEF MarksInv
  <1>4. CASE R!PeekReturned
    <2>1. peeked' = 0 /\ UNCHANGED <<in, rLeft, rUnit, rFail, rInitFail>>
      BY <1>4 DEF R!PeekReturned, R!config
    <2>2. QED
      BY <1>1, <1>2, <2>1 DEF MarksInv
  <1>5. QED
    BY <1>3, <1>4 DEF ReadOn

-----------------------------------------------------------------------------
(* All that the theorems need.                                               *)

LetterOK == /\ TransportInv /\ ContentInv /\ LogInv /\ PaddedInv
            /\ CarriedInv /\ RP!ReaderInv /\ MarksInv

\* A step that the receiver has no part in.
LEMMA ReceiverRests ==
    ASSUME WriterInv, plan \in Seq(Call), TransportNext,
           ~(Receive \/ ReadCall \/ Peek \/ ReadOn \/ NextLetter)
    PROVE  /\ UNCHANGED readerVars /\ UNCHANGED marks
           /\ phase # "read" /\ phase' # "read"
  <1>1. CASE (\E call \in Call : PlanCall(call)) \/ Allocate \/ GiveUp \/ OpenWriter
    BY <1>1 DEF PlanCall, Allocate, GiveUp, OpenWriter
  <1>2. CASE WritePlanned \/ WriteUnmeasured \/ WriteLoop \/ Flush \/ Rewrite
    BY <1>2, WritingStep DEF Writing
  <1>3. CASE Send \/ Discard \/ Lost
    BY <1>3 DEF Send, Discard, Lost
  <1>4. CASE NetworkStep \/ \E m \in S!Messages : Deliver(m)
    BY <1>4 DEF NetworkStep, Deliver, letterVars
  <1>5. QED
    BY <1>1, <1>2, <1>3, <1>4 DEF TransportNext

LEMMA ReaderMoves ==
    ASSUME NoWrap, PayloadsCovered, LetterOK, [TransportNext]_transportVars
    PROVE  [RP!Next]_(RP!vars)
  <1>1. /\ WriterInv /\ plan \in Seq(Call) /\ SentInv /\ CarriedInv
        /\ LogInv /\ MarksInv
    BY DEF LetterOK, TransportInv, LetterInv
  <1>2. CASE UNCHANGED readerVars
    BY <1>2 DEF readerVars, RP!vars, RP!config
  <1>3. CASE Receive
    BY <1>1, <1>3, ReceiveCarried
  <1>4. CASE ReadCall \/ Peek \/ ReadOn
    BY <1>1, <1>4, ReadsAreReads
  <1>5. CASE NextLetter
    BY <1>5, SameReader DEF NextLetter, RP!Next
  <1>6. CASE UNCHANGED transportVars
    BY <1>2, <1>6 DEF transportVars
  <1>7. QED
    BY <1>1, <1>2, <1>3, <1>4, <1>5, <1>6, ReceiverRests

LEMMA MarksStep ==
    ASSUME NoWrap, PayloadsCovered, LetterOK, RP!ReaderInv', [TransportNext]_transportVars
    PROVE  MarksInv'
  <1>1. /\ WriterInv /\ plan \in Seq(Call) /\ ContentInv /\ LogInv
        /\ CarriedInv /\ RP!ReaderInv /\ MarksInv
    BY DEF LetterOK, TransportInv
  <1>2. CASE Receive
    BY <1>1, <1>2, MarksReceive
  <1>3. CASE ReadCall \/ Peek \/ ReadOn
    <2>1. phase = "read"
      BY <1>3, ReadsKeepConfig DEF Reading
    <2>2. StoredArrives
      BY <1>1, <2>1, StoredInMessage
    <2>3. QED
      BY <1>1, <1>3, <2>2, MarksReadCall, MarksPeek, MarksReadOn
  <1>4. CASE NextLetter
    <2>1. phase' = "plan" /\ marks' = <<>> /\ peeked' = 0
      BY <1>4 DEF NextLetter, R!Reset, R!Idle
    <2>2. QED
      BY <1>1, <2>1, MarksRest
  <1>5. CASE UNCHANGED transportVars
    <2>1. /\ UNCHANGED <<phase, log, written, finalFlushed, marks>>
          /\ UNCHANGED <<in, rLeft, rUnit, rFail, rInitFail, peeked>>
      BY <1>5 DEF transportVars, writerVars, readerVars, letterVars, vars
    <2>2. QED
      BY <1>1, <2>1, MarksUnchanged
  <1>6. CASE TransportNext /\ ~(Receive \/ ReadCall \/ Peek \/ ReadOn \/ NextLetter)
    <2>1. phase # "read" /\ phase' # "read" /\ UNCHANGED <<marks, peeked>>
      BY <1>1, <1>6, ReceiverRests DEF readerVars
    <2>2. QED
      BY <1>1, <2>1, MarksRest
  <1>7. QED
    BY <1>2, <1>3, <1>4, <1>5, <1>6

LEMMA LetterStep ==
    ASSUME NoWrap, PayloadsCovered, LetterOK, [TransportNext]_transportVars
    PROVE  LetterOK'
  <1>1. /\ TransportInv /\ ContentInv /\ LogInv /\ PaddedInv /\ CarriedInv
        /\ RP!ReaderInv /\ WriterInv
    BY DEF LetterOK, TransportInv
  <1>2. TransportInv' /\ WriterInv' /\ [Next]_vars
    BY <1>1, TransportStep, WriterSteps DEF TransportInv
  <1>3. ContentInv'
    BY <1>1, <1>2, ContentStep
  <1>4. LogInv' /\ CarriedInv'
    BY <1>1, LogStep, CarriedStep
  <1>5. PaddedInv'
    BY <1>1, <1>2, PaddedStep
  <1>6. RP!ReaderInv'
    BY <1>1, ReaderMoves, ReaderStep
  <1>7. MarksInv'
    BY <1>6, MarksStep
  <1>8. QED
    BY <1>2, <1>3, <1>4, <1>5, <1>6, <1>7 DEF LetterOK

LEMMA LetterStart == TransportInit => LetterOK
  <1> SUFFICES ASSUME TransportInit PROVE LetterOK
    OBVIOUS
  <1>1. /\ Init /\ R!Init /\ phase = "plan" /\ log = <<>> /\ marks = <<>>
        /\ sentLength = 0 /\ inbox = NoMessage
        /\ reading = [m \in S!Messages |-> NoPayload]
    BY DEF TransportInit, MeasuredInit, S!Init
  <1>2. TransportInv
    BY TransportStart
  <1>3. ContentInv
    BY <1>1 DEF Init, ContentInv, Content
  <1>4. LogInv
    <2>1. /\ Len(log) = 0 /\ log \in Seq([call : Call, end : Nat])
          /\ Len(written) = 0 /\ left * unit = 0 /\ EndOf(log) = 0
      BY <1>1, EmptySeq DEF Init, EndOf
    <2>2. \A i \in 1 .. Len(log) : FALSE
      BY <2>1
    <2>3. QED
      BY <1>1, <2>1, <2>2 DEF LogInv
  <1>5. PaddedInv
    BY <1>1 DEF Init, PaddedInv
  <1>6. CarriedInv
    <2>1. LengthInv
      BY <1>1, SendAssumption DEF LengthInv, Phases
    <2>2. ReadingInv /\ SizesInv
      BY <1>1 DEF ReadingInv, SizesInv
    <2>3. InboxInv /\ OpenedInv
      BY <1>1 DEF InboxInv, OpenedInv
    <2>4. QED
      BY <2>1, <2>2, <2>3 DEF CarriedInv
  <1>7. RP!ReaderInv
    BY <1>1, SameReader, RP!InvInit, ReaderAssumed
  <1>8. MarksInv
    <2>1. marks \in Seq(Nat)
      BY <1>1, EmptySeq
    <2>2. peeked = 0
      BY <1>1 DEF R!Init
    <2>3. QED
      BY <1>1, <2>1, <2>2 DEF MarksInv
  <1>9. QED
    BY <1>2, <1>3, <1>4, <1>5, <1>6, <1>7, <1>8 DEF LetterOK

LEMMA LetterInductive ==
    ASSUME NoWrap, PayloadsCovered
    PROVE  TransportSpec => []LetterOK
  <1>1. LetterOK /\ [TransportNext]_transportVars => LetterOK'
    BY LetterStep
  <1>2. QED
    BY <1>1, LetterStart, PTL DEF TransportSpec

-----------------------------------------------------------------------------
(* The theorems. *)

\* Of a letter, what was planned, written, sent, received and read has its type
\* at every moment: no message is larger than what a send can carry.
THEOREM TransportTypeCorrect ==
    ASSUME NoWrap, PayloadsCovered
    PROVE  TransportSpec => []TransportTypeOK
  <1>1. LetterOK => TransportTypeOK
    <2> SUFFICES ASSUME LetterOK PROVE TransportTypeOK
      OBVIOUS
    <2>1. /\ phase \in Phases /\ sentLength \in 0 .. MaxSend
          /\ plan \in Seq(Call) /\ log \in Seq([call : Call, end : Nat])
          /\ marks \in Seq(Nat) /\ inbox \in {NoMessage, Message}
          /\ phase \notin {"sent", "read"} => inbox = NoMessage
      BY DEF LetterOK, TransportInv, LogInv, MarksInv, CarriedInv, LengthInv, InboxInv
    <2>2. MaxSend \in Nat /\ (MaxSend % WordBytes) = 0
      BY SendAssumption
    <2>3. CASE inbox = NoMessage
      <3>1. inbox.size = -1 /\ inbox.words = <<>>
        BY <2>3 DEF NoMessage
      <3>2. QED
        BY <2>1, <2>2, <3>1, EmptySeq DEF TransportTypeOK
    <2>4. CASE inbox = Message /\ phase \in {"sent", "read"}
      <3>0. sentLength \in Nat
        BY <2>1, <2>2
      <3>1. Message.words \in Seq(Bit) /\ Message.size = S!CeilToWord(sentLength)
        BY <2>4, MessageFacts DEF LetterOK, TransportInv, CarriedInv, Message
      <3>2. S!CeilToWord(sentLength) <= S!CeilToWord(MaxSend)
        BY <2>1, <2>2, <3>0, CeilMonotone
      <3>3. S!CeilToWord(MaxSend) = MaxSend
        BY <2>2 DEF S!CeilToWord, WordBytes
      <3>4. S!CeilToWord(sentLength) \in Nat
        BY <3>0, CeilFacts
      <3>5. inbox.size \in -1 .. MaxSend
        BY <2>2, <2>4, <3>1, <3>2, <3>3, <3>4
      <3>6. QED
        BY <2>1, <2>4, <3>1, <3>5 DEF TransportTypeOK
    <2>5. QED
      BY <2>1, <2>3, <2>4
  <1>2. QED
    BY <1>1, LetterInductive, PTL

\* A word less than its end is not needed for what was used.
LEMMA WordsUsed ==
    ASSUME NEW used \in Nat, NEW index \in Nat, used <= index * WordBits,
           NEW n \in Nat,
           S!CeilToWord((used + ByteBits - 1) \div ByteBits) = n * WordBytes
    PROVE  n * WordBits <= index * WordBits
  <1>1. PICK b \in Nat : b = ByteBits /\ b >= 1
    BY ByteBitsAssumption
  <1>2. PICK k \in Nat : k = 4 * index
    OBVIOUS
  <1>3. used <= k * b
    <2>1. index * WordBits = k * b
      BY <1>1, <1>2 DEF WordBits, WordBytes
    <2>2. QED
      BY <2>1
  <1>4. PICK bytesUsed \in Nat : bytesUsed = (used + ByteBits - 1) \div ByteBits
    BY <1>1
  <1>5. bytesUsed <= k
    <2>1. used + b - 1 \in Nat
      BY <1>1
    <2>2. PICK q \in Nat, r \in 0 .. b - 1 :
            used + b - 1 = q * b + r /\ q = (used + b - 1) \div b
      BY <1>1, <2>1, DivisionOf
    <2>3. q * b < (k + 1) * b
      <3>1. (k + 1) * b = k * b + b /\ k * b \in Nat /\ q * b \in Nat
        BY <1>1
      <3>2. QED
        BY <1>1, <1>3, <2>2, <3>1
    <2>4. q <= k
      <3>1. ASSUME q >= k + 1 PROVE FALSE
        <4>1. PICK d \in Nat : q = (k + 1) + d
          BY <3>1
        <4>2. q * b = (k + 1) * b + d * b /\ d * b \in Nat /\ (k + 1) * b \in Nat
          BY <1>1, <4>1
        <4>3. QED
          BY <2>3, <4>2
      <3>2. QED
        BY <3>1
    <2>5. QED
      BY <1>1, <1>4, <2>2, <2>4
  <1>6. n <= index
    <2>1. S!CeilToWord(bytesUsed) <= S!CeilToWord(k)
      BY <1>5, CeilMonotone
    <2>2. S!CeilToWord(k) = k
      BY <1>2 DEF S!CeilToWord, WordBytes
    <2>3. 4 * n <= 4 * index
      BY <1>2, <1>4, <2>1, <2>2 DEF WordBytes
    <2>4. QED
      BY <2>3
  <1>7. PICK d \in Nat : index = n + d
    BY <1>6
  <1>8. index * WordBits = n * WordBits + d * WordBits /\ d * WordBits \in Nat
        /\ n * WordBits \in Nat
    BY <1>7, WordBitsPos
  <1>9. QED
    BY <1>8

LEMMA Joined ==
    ASSUME NEW a \in Seq(Bit), NEW z \in Seq(Bit)
    PROVE  \E w \in Seq(Bit) :
             /\ w = a \o z /\ Len(w) = Len(a) + Len(z)
             /\ w = [i \in 1 .. Len(w) |-> w[i]]
             /\ \A i \in 1 .. Len(a) : w[i] = a[i]
             /\ \A i \in 1 .. Len(z) : w[Len(a) + i] = z[i]
  <1>1. PICK w \in Seq(Bit) : w = a \o z
    BY ConcatProperties
  <1>2. Len(a) \in Nat /\ Len(z) \in Nat
    BY LenProperties
  <1>3. Len(w) = Len(a) + Len(z)
    BY <1>1, ConcatProperties
  <1>4. w = [i \in 1 .. Len(w) |-> w[i]]
    OBVIOUS
  <1>5. \A i \in 1 .. Len(a) : w[i] = a[i]
    BY <1>1, ConcatProperties
  <1>6. \A i \in 1 .. Len(z) : w[Len(a) + i] = z[i]
    BY <1>1, ConcatProperties
  <1>7. QED
    BY <1>1, <1>3, <1>4, <1>5, <1>6

\* A letter that is closed, and sent with used_bytes(), holds what was written
\* and then zeros to its end, on every host: what the heap, an earlier letter or
\* an earlier attempt left in the payload never leaves the process.
THEOREM PaddingIsZeroCorrect ==
    ASSUME NoWrap, PayloadsCovered
    PROVE  TransportSpec => []PaddingIsZero
  <1>1. LetterOK => PaddingIsZero
    <2> SUFFICES ASSUME LetterOK, phase = "read", finalFlushed,
                        sentLength = WriterUsedBytes
                 PROVE  rWords = written \o [i \in 1 .. Len(rWords) - Len(written) |-> 0]
      BY DEF PaddingIsZero
    <2>1. WriterInv /\ ContentInv /\ PaddedInv /\ CarriedInv /\ written \in Seq(Bit)
      BY DEF LetterOK, TransportInv, WriterInv, TypeOK
    <2>2. PICK n \in WordCounts \cup {0} :
            /\ S!CeilToWord(sentLength) = n * WordBytes
            /\ Message.words = [i \in 1 .. n * WordBits |-> out.words[i - 1]]
            /\ Message.words \in Seq(Bit) /\ Len(Message.words) = n * WordBits
            /\ out.usedBits <= n * WordBits
      BY <2>1, MessageFacts DEF CarriedInv
    <2>3. PICK used \in Nat, index \in Nat :
            used = out.usedBits /\ index = out.wordsIndex /\ used = Len(written)
      BY <2>1, StoredFacts DEF WriterInv, TypeOK, Out
    <2>4. Stored = used /\ used <= index * WordBits
      BY <2>1, <2>3, StoredFacts DEF Stored
    <2>5. n \in Nat /\ n * WordBits \in Nat /\ index * WordBits \in Nat
      BY CountsAssumption, WordBitsPos
    <2>6. n * WordBits <= index * WordBits
      BY <2>2, <2>3, <2>4, <2>5, WordsUsed DEF WriterUsedBytes
    <2>7. PICK b \in Nat : b = n * WordBits
      BY <2>5
    <2>8. /\ rWords = [i \in 1 .. b |-> out.words[i - 1]] /\ Len(rWords) = b
          /\ used <= b
      BY <2>1, <2>2, <2>3, <2>7 DEF CarriedInv, OpenedInv
    <2>9. PICK z : z = [i \in 1 .. b - used |-> 0]
      OBVIOUS
    <2>10. z \in Seq(Bit) /\ Len(z) = b - used /\ \A i \in 1 .. b - used : z[i] = 0
      BY <2>8, <2>9 DEF Bit
    <2>11. PICK w \in Seq(Bit) :
             /\ w = written \o z /\ Len(w) = Len(written) + Len(z)
             /\ w = [i \in 1 .. Len(w) |-> w[i]]
             /\ \A i \in 1 .. Len(written) : w[i] = written[i]
             /\ \A i \in 1 .. Len(z) : w[Len(written) + i] = z[i]
      BY <2>1, <2>10, Joined
    <2>12. ASSUME NEW i \in 1 .. b PROVE w[i] = out.words[i - 1]
      <3>1. CASE i <= used
        <4>1. i \in 1 .. used
          BY <3>1
        <4>2. out.words[i - 1] = written[i]
          BY <2>1, <2>4, <4>1, StoredFacts
        <4>3. QED
          BY <2>3, <2>11, <4>1, <4>2
      <3>2. CASE i > used
        <4>1. PICK j \in 1 .. b - used : i = used + j
          <5>1. i - used \in 1 .. b - used /\ i = used + (i - used)
            BY <2>8, <3>2
          <5>2. QED
            BY <5>1
        <4>2. w[i] = 0
          BY <2>3, <2>10, <2>11, <4>1
        <4>3. i - 1 \in used .. index * WordBits - 1
          BY <2>5, <2>6, <2>7, <3>2
        <4>4. out.words[i - 1] = 0
          BY <2>1, <2>3, <4>3 DEF PaddedInv
        <4>5. QED
          BY <4>2, <4>4
      <3>3. i <= used \/ i > used
        OBVIOUS
      <3>4. QED
        BY <3>1, <3>2, <3>3
    <2>13. w = [i \in 1 .. b |-> w[i]]
      <3>1. Len(w) = b
        BY <2>3, <2>8, <2>10, <2>11
      <3>2. QED
        BY <2>11, <3>1
    <2>14. rWords = w
      BY <2>8, <2>12, <2>13
    <2>15. QED
      BY <2>3, <2>8, <2>9, <2>11, <2>14
  <1>2. QED
    BY <1>1, LetterInductive, PTL

\* Reads that mirror the writes succeed for every write that was stored before
\* the letter was sent, and end where it ends: whatever was measured, written
\* again or refused, however many bits the letter has, and whatever the order of
\* the bytes on the two hosts.
THEOREM StoredIsReadCorrect ==
    ASSUME NoWrap, PayloadsCovered
    PROVE  TransportSpec => []StoredIsRead
  <1>1. LetterOK => StoredIsRead
    <2> SUFFICES ASSUME LetterOK, phase = "read", written # <<>>
                 PROVE  /\ rFail => Len(marks) >= WritesWithin(Stored)
                        /\ \A i \in DOMAIN marks :
                             i <= WritesWithin(Stored) => marks[i] = log[i].end
      BY DEF StoredIsRead
    <2>1. WriterInv /\ ContentInv /\ CarriedInv /\ MarksInv /\ written \in Seq(Bit)
      BY DEF LetterOK, TransportInv, WriterInv, TypeOK
    <2>2. ~rInitFail
      <3>1. SUFFICES ASSUME rInitFail PROVE FALSE
        OBVIOUS
      <3>2. PICK n \in WordCounts \cup {0} :
              Message.size = n * WordBytes /\ out.usedBits <= n * WordBits
        BY <2>1, MessageFacts DEF CarriedInv
      <3>3. n = 0
        <4>1. Message.size = 0
          BY <2>1, <3>1 DEF CarriedInv, OpenedInv
        <4>2. n \in Nat
          BY CountsAssumption
        <4>3. n * 4 = 0
          BY <3>2, <4>1 DEF WordBytes
        <4>4. QED
          BY <4>2, <4>3
      <3>4. Len(written) = out.usedBits /\ Len(written) \in Nat
        BY <2>1, StoredFacts, LenProperties
      <3>5. Len(written) = 0
        BY <3>2, <3>3, <3>4, WordBitsPos
      <3>6. QED
        BY <2>1, <3>5, EmptySeq
    <2>3. DOMAIN marks = 1 .. Len(marks)
      BY <2>1, LenProperties DEF MarksInv
    <2>4. QED
      BY <2>1, <2>2, <2>3 DEF MarksInv
  <1>2. QED
    BY <1>1, LetterInductive, PTL

\* A peek at a string of which all was stored tells the length that the sender
\* wrote, wherever in the words its prefix lies.
THEOREM PeekIsSentCorrect ==
    ASSUME NoWrap, PayloadsCovered
    PROVE  TransportSpec => []PeekIsSent
  <1>1. LetterOK => PeekIsSent
    BY DEF LetterOK, MarksInv, PeekIsSent
  <1>2. QED
    BY <1>1, LetterInductive, PTL

-----------------------------------------------------------------------------
(* The letters that the program sees: the transport implements Letters.      *)

\* The pieces of a stream, cut at some ends, are a sequence of that many, and
\* those at its front are a part of it.
LEMMA CutFacts ==
    ASSUME NEW w, NEW e, NEW n \in Nat
    PROVE  /\ Len(Cut(w, e, n)) = n
           /\ Cut(w, e, 0) = <<>>
           /\ \A k \in 0 .. n : SubSeq(Cut(w, e, n), 1, k) = Cut(w, e, k)
           /\ Append(Cut(w, e, n), Cut(w, e, n + 1)[n + 1]) = Cut(w, e, n + 1)
  <1> DEFINE Item(i) == SubSeq(w, IF i = 1 THEN 1 ELSE e[i - 1] + 1, e[i])
  <1>1. PICK P : \A i \in 1 .. n + 1 : Item(i) \in P
    <2> HIDE DEF Item
    <2>1. \A i \in 1 .. n + 1 : Item(i) \in {Item(j) : j \in 1 .. n + 1}
      OBVIOUS
    <2>2. QED
      BY <2>1
  <1>2. ASSUME NEW k \in 0 .. n + 1
        PROVE  /\ Cut(w, e, k) \in Seq(P) /\ Len(Cut(w, e, k)) = k
               /\ \A i \in 1 .. k : Cut(w, e, k)[i] = Item(i) /\ Item(i) \in P
               /\ Cut(w, e, k) = [i \in 1 .. k |-> Item(i)]
    <2>1. \A i \in 1 .. k : Item(i) \in P
      BY <1>1
    <2>2. Cut(w, e, k) = [i \in 1 .. k |-> Item(i)]
      BY DEF Cut
    <2> HIDE DEF Item
    <2>3. Cut(w, e, k) \in Seq(P) /\ Len(Cut(w, e, k)) = k
      BY <2>1, <2>2
    <2>4. \A i \in 1 .. k : Cut(w, e, k)[i] = Item(i)
      BY <2>2
    <2>5. QED
      BY <2>1, <2>2, <2>3, <2>4
  <1> HIDE DEF Item
  <1>3. Cut(w, e, 0) = <<>>
    <2>1. Cut(w, e, 0) \in Seq(P) /\ Len(Cut(w, e, 0)) = 0
      BY <1>2
    <2>2. QED
      BY <2>1, EmptySeq
  <1>4. ASSUME NEW k \in 0 .. n
        PROVE  SubSeq(Cut(w, e, n), 1, k) = Cut(w, e, k)
    <2>1. PICK c : c = Cut(w, e, n)
      OBVIOUS
    <2>2. \A i \in 1 .. k : c[i] = Item(i) /\ c[i] \in P
      BY <1>2, <2>1
    <2>3. PICK r : r = SubSeq(c, 1, k)
      OBVIOUS
    <2>4. /\ r \in Seq(P) /\ Len(r) = (IF 1 <= k THEN k - 1 + 1 ELSE 0)
          /\ \A i \in 1 .. k - 1 + 1 : r[i] = c[1 + i - 1]
      BY <2>2, <2>3, SubSeqProperties
    <2>5. Len(r) = k /\ \A i \in 1 .. k : r[i] = Item(i)
      BY <2>2, <2>4
    <2>6. r = [i \in 1 .. k |-> r[i]]
      BY <2>4, <2>5
    <2>7. r = [i \in 1 .. k |-> Item(i)]
      BY <2>5, <2>6
    <2>8. k \in 0 .. n + 1
      OBVIOUS
    <2>9. Cut(w, e, k) = [i \in 1 .. k |-> Item(i)]
      BY <1>2, <2>8
    <2>10. QED
      BY <2>1, <2>3, <2>7, <2>9
  <1>5. Append(Cut(w, e, n), Cut(w, e, n + 1)[n + 1]) = Cut(w, e, n + 1)
    <2>0. n \in 0 .. n + 1 /\ n + 1 \in 0 .. n + 1 /\ n + 1 \in 1 .. n + 1
      OBVIOUS
    <2>1. PICK c \in Seq(P), d \in Seq(P) : c = Cut(w, e, n) /\ d = Cut(w, e, n + 1)
      BY <1>2, <2>0
    <2>2. /\ Len(c) = n /\ Len(d) = n + 1 /\ d[n + 1] = Item(n + 1) /\ Item(n + 1) \in P
          /\ d = [i \in 1 .. n + 1 |-> Item(i)]
          /\ \A i \in 1 .. n : c[i] = Item(i)
      BY <1>2, <2>0, <2>1
    <2>3. PICK a \in Seq(P) : a = Append(c, Item(n + 1))
      BY <2>2, AppendProperties
    <2>4. /\ Len(a) = n + 1 /\ a[n + 1] = Item(n + 1)
          /\ \A i \in 1 .. n : a[i] = Item(i)
      BY <2>2, <2>3, AppendProperties
    <2>5. \A i \in 1 .. n + 1 : a[i] = Item(i)
      <3>1. \A i \in 1 .. n + 1 : i \in 1 .. n \/ i = n + 1
        OBVIOUS
      <3>2. QED
        BY <2>4, <3>1
    <2>6. a = [i \in 1 .. n + 1 |-> a[i]]
      BY <2>4
    <2>7. a = d
      BY <2>2, <2>5, <2>6
    <2>8. QED
      BY <2>1, <2>2, <2>3, <2>7
  <1>6. Len(Cut(w, e, n)) = n
    BY <1>2
  <1>7. QED
    BY <1>3, <1>4, <1>5, <1>6

\* Streams agree up to the last of the ends, which lies within their first bits.
Agree(a, e, b, f, n, most) ==
    /\ \A i \in 1 .. most : a[i] = b[i] /\ b[i] \in Bit
    /\ \A i \in 1 .. n : e[i] = f[i] /\ f[i] \in Nat /\ f[i] <= most

\* Such streams are cut into the same pieces.
LEMMA CutSame ==
    ASSUME NEW a, NEW b, NEW most \in Nat, NEW e, NEW f, NEW n \in Nat,
           Agree(a, e, b, f, n, most)
    PROVE  Cut(a, e, n) = Cut(b, f, n)
  <1>0. /\ \A i \in 1 .. most : a[i] = b[i] /\ b[i] \in Bit
        /\ \A i \in 1 .. n : e[i] = f[i] /\ f[i] \in Nat /\ f[i] <= most
    BY DEF Agree
  <1>1. ASSUME NEW i \in 1 .. n
        PROVE  SubSeq(a, IF i = 1 THEN 1 ELSE e[i - 1] + 1, e[i])
                 = SubSeq(b, IF i = 1 THEN 1 ELSE f[i - 1] + 1, f[i])
    <2>1. PICK p \in Nat : /\ p = IF i = 1 THEN 1 ELSE e[i - 1] + 1
                           /\ p = IF i = 1 THEN 1 ELSE f[i - 1] + 1
                           /\ p >= 1
      <3>1. i = 1 \/ i - 1 \in 1 .. n
        OBVIOUS
      <3>2. QED
        BY <1>0, <3>1
    <2>2. PICK q \in Nat : q = e[i] /\ q = f[i] /\ q <= most
      BY <1>0
    <2>3. \A j \in p .. q : a[j] = b[j] /\ a[j] \in Bit /\ b[j] \in Bit
      BY <1>0, <2>1, <2>2
    <2>4. PICK r, s : r = SubSeq(a, p, q) /\ s = SubSeq(b, p, q)
      OBVIOUS
    <2>5. /\ r \in Seq(Bit) /\ Len(r) = (IF p <= q THEN q - p + 1 ELSE 0)
          /\ \A j \in 1 .. q - p + 1 : r[j] = a[p + j - 1]
      BY <2>3, <2>4, SubSeqProperties
    <2>6. /\ s \in Seq(Bit) /\ Len(s) = (IF p <= q THEN q - p + 1 ELSE 0)
          /\ \A j \in 1 .. q - p + 1 : s[j] = b[p + j - 1]
      BY <2>3, <2>4, SubSeqProperties
    <2>7. PICK m \in Nat : m = (IF p <= q THEN q - p + 1 ELSE 0) /\ m <= q
      BY <2>1
    <2>8. \A j \in 1 .. m : j \in 1 .. q - p + 1 /\ p + j - 1 \in p .. q
      BY <2>7
    <2>9. \A j \in 1 .. m : r[j] = s[j]
      BY <2>3, <2>5, <2>6, <2>8
    <2>10. r = [j \in 1 .. m |-> r[j]] /\ s = [j \in 1 .. m |-> s[j]]
      BY <2>5, <2>6, <2>7
    <2>11. r = s
      BY <2>9, <2>10
    <2>12. QED
      BY <2>1, <2>2, <2>4, <2>11
  <1>2. QED
    BY <1>1 DEF Cut

-----------------------------------------------------------------------------
(* What is over of the writes and of the reads.                              *)

\* A write starts within what was written.
LEMMA StartsWithin ==
    ASSUME NEW w \in Seq(Bit), NEW call \in Call, NEW start \in Nat, NEW end \in Nat,
           WriteHolds(w, call, start, end)
    PROVE  start <= Len(w)
  <1>1. Len(w) \in Nat
    BY LenProperties
  <1>2. CASE call.kind = "integer" /\ end = start + call.range.bits /\ end <= Len(w)
    <2>1. call.range.bits \in 1 .. ScratchBits /\ ScratchBits \in Nat
      BY <1>2, CallFields, WordBitsPos
    <2>2. QED
      BY <1>1, <1>2, <2>1
  <1>3. CASE \E k \in 0 .. 3 : start + RP!PrefixPrefixBits + RP!PrefixBits(k) <= Len(w)
    <2>1. PICK k \in 0 .. 3 : start + RP!PrefixPrefixBits + RP!PrefixBits(k) <= Len(w)
      BY <1>3
    <2>2. PICK a \in Nat, b \in Nat : a = RP!PrefixPrefixBits /\ b = RP!PrefixBits(k)
      BY <2>1, PrefixWidths DEF PrefixPrefixBits
    <2>3. start + a + b <= Len(w)
      BY <2>1, <2>2
    <2>4. QED
      BY <1>1, <2>2, <2>3
  <1>4. QED
    BY <1>2, <1>3 DEF WriteHolds

\* All writes are finished, but the last one while its units are written.
LEMMA FinishedIs ==
    ASSUME WriterInv, LogInv
    PROVE  /\ Finished \in 0 .. Len(log)
           /\ left * unit = 0 => Finished = Len(log)
           /\ left * unit # 0 => log # <<>> /\ Finished = Len(log) - 1
           /\ \A i \in 1 .. Finished : log[i].end \in Nat /\ log[i].end <= Len(written)
  <1>1. written \in Seq(Bit) /\ left \in Nat /\ unit \in Nat
    BY DEF WriterInv, TypeOK
  <1>2. PICK s \in Nat, rest \in Nat : s = Len(written) /\ rest = left * unit
    BY <1>1, LenProperties, ProductIsNat
  <1>3. PICK n \in Nat : n = Len(log)
    BY LenProperties DEF LogInv
  <1>4. PICK c \in Nat : c = Finished /\ c <= n
                         /\ \A i \in 1 .. n : i <= c <=> log[i].end <= s
    <2>1. Finished = WritesWithin(s)
      BY <1>2 DEF Finished
    <2>2. /\ Finished \in 0 .. n
          /\ \A i \in 1 .. n : i <= Finished <=> log[i].end <= s
      BY <1>3, <2>1, FirstWrites
    <2>3. QED
      BY <2>2
  <1>5. \A i \in 1 .. n : log[i].call \in Call /\ log[i].end \in Nat
                          /\ StartOf(log, i) \in Nat
    BY <1>3, Entries DEF LogInv
  <1>6. s + rest = EndOf(log)
    BY <1>2 DEF LogInv
  <1>7. n # 0 => log # <<>> /\ EndOf(log) = log[n].end /\ n \in 1 .. n
    BY <1>3, EmptySeq DEF EndOf
  <1>8. n = 0 => log = <<>> /\ EndOf(log) = 0
    BY <1>3, EmptySeq DEF EndOf, LogInv
  <1>9. CASE rest = 0
    <2>1. n # 0 => n <= c
      BY <1>2, <1>4, <1>5, <1>6, <1>7, <1>9
    <2>2. c = n
      BY <1>4, <2>1
    <2>3. QED
      BY <1>2, <1>3, <1>4, <1>5, <1>9, <2>2
  <1>10. CASE rest # 0
    <2>1. n # 0
      BY <1>2, <1>6, <1>8, <1>10
    <2>2. ~(n <= c)
      BY <1>2, <1>4, <1>5, <1>6, <1>7, <1>10, <2>1
    <2>3. n - 1 <= c
      <3>1. CASE n = 1
        BY <1>4, <3>1
      <3>2. CASE n # 1
        <4>1. n - 1 \in 1 .. n /\ n \in 1 .. n
          BY <1>3, <2>1, <3>2
        <4>2. StartOf(log, n) = log[n - 1].end
          BY <3>2 DEF StartOf
        <4>3. WriteHolds(written, log[n].call, StartOf(log, n), log[n].end)
          BY <1>3, <4>1 DEF LogInv
        <4>4. StartOf(log, n) <= Len(written)
          BY <1>1, <1>5, <4>1, <4>3, StartsWithin
        <4>5. QED
          BY <1>2, <1>4, <4>1, <4>2, <4>4
      <3>3. QED
        BY <3>1, <3>2
    <2>4. c = n - 1
      BY <1>3, <1>4, <2>1, <2>2, <2>3
    <2>5. Finished = n - 1 /\ n - 1 \in 0 .. n
      BY <1>4, <2>1, <2>4
    <2>6. \A i \in 1 .. n - 1 : log[i].end \in Nat /\ log[i].end <= s
      <3>1. \A i \in 1 .. n - 1 : i \in 1 .. n /\ i <= c
        BY <2>4
      <3>2. QED
        BY <1>4, <1>5, <3>1
    <2>7. log # <<>> /\ left * unit # 0
      BY <1>2, <1>7, <1>10, <2>1
    <2>8. QED
      BY <1>2, <1>3, <2>5, <2>6, <2>7
  <1>11. QED
    BY <1>9, <1>10

\* What was stored are writes that are finished, and all of them once the
\* letter is closed.
LEMMA StoredAreFinished ==
    ASSUME WriterInv, ContentInv, LogInv
    PROVE  /\ WritesWithin(Stored) \in 0 .. Finished
           /\ finalFlushed => WritesWithin(Stored) = Finished
  <1>1. PICK s \in Nat, t \in Nat : s = Stored /\ t = Len(written) /\ s <= t
    BY StoredFacts
  <1>2. PICK n \in Nat : n = Len(log)
    BY LenProperties DEF LogInv
  <1>3. PICK c \in Nat : c = WritesWithin(Stored) /\ c <= n
                         /\ \A i \in 1 .. n : i <= c <=> log[i].end <= s
    <2>1. /\ WritesWithin(Stored) \in 0 .. n
          /\ \A i \in 1 .. n : i <= WritesWithin(Stored) <=> log[i].end <= s
      BY <1>1, <1>2, StoredWrites
    <2>2. QED
      BY <2>1
  <1>4. PICK d \in Nat : d = Finished /\ d <= n
                         /\ \A i \in 1 .. n : i <= d <=> log[i].end <= t
    <2>1. Finished = WritesWithin(t)
      BY <1>1 DEF Finished
    <2>2. /\ Finished \in 0 .. n
          /\ \A i \in 1 .. n : i <= Finished <=> log[i].end <= t
      BY <1>2, <2>1, FirstWrites
    <2>3. QED
      BY <2>2
  <1>5. c <= d
    <2>1. CASE c = 0
      BY <1>4, <2>1
    <2>2. CASE c # 0
      <3>1. c \in 1 .. n
        BY <1>2, <1>3, <2>2
      <3>2. log[c].end \in Nat
        BY <1>2, <3>1, Entries DEF LogInv
      <3>3. log[c].end <= t
        <4>1. log[c].end <= s
          BY <1>3, <3>1
        <4>2. QED
          BY <1>1, <3>2, <4>1
      <3>4. QED
        BY <1>4, <3>1, <3>3
    <2>3. QED
      BY <2>1, <2>2
  <1>6. finalFlushed => Stored = Len(written)
    BY DEF Stored
  <1>7. QED
    BY <1>3, <1>4, <1>5, <1>6 DEF Finished

\* The reads end one after the other; only the last one may still be going on.
DoneInv ==
    phase = "read" =>
      /\ \A i \in 1 .. Len(marks) : i < Len(marks) => marks[i] <= Len(in.taken)
      /\ LastMark <= Len(in.taken) + rLeft * rUnit

LEMMA ReceivedIs ==
    ASSUME RP!ReaderInv, MarksInv
    PROVE  /\ in.taken \in Seq(Bit) /\ Len(in.taken) \in Nat
           /\ rLeft \in Nat /\ rUnit \in Nat /\ rLeft * rUnit \in Nat
           /\ rLeft > 0 => ~rFail
           /\ marks \in Seq(Nat) /\ Len(marks) \in Nat
           /\ \A i \in 1 .. Len(marks) : marks[i] \in Nat
           /\ Len(marks) # 0 => LastMark = marks[Len(marks)]
           /\ Len(marks) = 0 => LastMark = 0 /\ marks = <<>>
  <1>1. in.taken \in Seq(Bit) /\ (rLeft > 0 => ~rFail)
    BY RP!TakenIs, ReaderAssumed DEF RP!Bit, Bit
  <1>2. rLeft \in Nat /\ rUnit \in Nat
    BY DEF RP!ReaderInv, RP!TypeOK
  <1>3. Len(in.taken) \in Nat /\ rLeft * rUnit \in Nat
    BY <1>1, <1>2, LenProperties, ProductIsNat
  <1>4. marks \in Seq(Nat)
    BY DEF MarksInv
  <1>5. Len(marks) \in Nat /\ \A i \in 1 .. Len(marks) : marks[i] \in Nat
    BY <1>4, LenProperties, ElementOfSeq
  <1>6. Len(marks) = 0 <=> marks = <<>>
    BY <1>4, EmptySeq
  <1>7. QED
    BY <1>1, <1>2, <1>3, <1>4, <1>5, <1>6 DEF LastMark

LEMMA ReceivedNext ==
    ASSUME RP!ReaderInv'
    PROVE  Len(in'.taken) \in Nat /\ rLeft' * rUnit' \in Nat
  <1>1. in'.taken \in Seq(RP!Bit) /\ rLeft' \in Nat /\ rUnit' \in Nat
    BY DEF RP!ReaderInv, RP!TypeOK, RP!In
  <1>2. QED
    BY <1>1, LenProperties, ProductIsNat

\* A call of the reader puts no read but the last behind what it took.
LEMMA DoneReadCall ==
    ASSUME NoWrap, LogInv, RP!ReaderInv, RP!ReaderInv', MarksInv, MarksInv', DoneInv,
           ReadCall
    PROVE  DoneInv'
  <1>1. phase = "read" /\ phase' = "read" /\ rLeft = 0
    BY DEF ReadCall, Reading, R!Read, R!ReadBytes, R!ReadString, R!Idle
  <1>2. /\ NextRead \in Call
    <2>1. Len(marks) < Len(log) /\ Len(marks) \in Nat /\ Len(log) \in Nat
      BY LenProperties DEF ReadCall, MarksInv, LogInv
    <2>2. Len(marks) + 1 \in 1 .. Len(log)
      BY <2>1
    <2>3. QED
      BY <2>2, Entries DEF NextRead, LogInv
  <1>3. \/ \E r \in Ranges : RP!Read(r)
        \/ \E size \in ByteCounts : RP!ReadBytes(size)
        \/ \E max \in MaxLengths, c \in CharBytes : RP!ReadString(max, c)
    BY <1>2, CallFields, SameReader DEF ReadCall
  <1>4. Len(in'.taken) >= Len(in.taken)
    BY <1>3, RP!TakenGrows, ReaderAssumed, ReaderNoWrap
  <1>5. PICK t \in Nat, u \in Nat, rest \in Nat :
          t = Len(in.taken) /\ u = Len(in'.taken) /\ rest = rLeft' * rUnit' /\ t <= u
    BY <1>4, ReceivedIs, ReceivedNext
  <1>6. PICK m \in Nat : m = Len(marks)
    BY ReceivedIs
  <1>7. rLeft * rUnit = 0
    BY <1>1, ReceivedIs
  <1>8. /\ LastMark <= t
        /\ \A i \in 1 .. m : marks[i] \in Nat /\ marks[i] <= t
    <2>1. LastMark <= t /\ \A i \in 1 .. m : i < m => marks[i] <= t
      BY <1>1, <1>5, <1>6, <1>7 DEF DoneInv
    <2>2. m # 0 => LastMark = marks[m]
      BY <1>6, ReceivedIs
    <2>3. \A i \in 1 .. m : (i < m \/ i = m) /\ marks[i] \in Nat
      BY <1>6, ReceivedIs
    <2>4. QED
      BY <2>1, <2>2, <2>3
  <1>9. CASE marks' = marks
    <2>1. LastMark' = LastMark /\ LastMark \in Nat
      BY <1>9, ReceivedIs DEF LastMark
    <2>2. LastMark <= u + rest
      BY <1>5, <1>8, <2>1
    <2>3. \A i \in 1 .. m : marks[i] <= u
      BY <1>5, <1>8
    <2>4. QED
      BY <1>5, <1>6, <1>9, <2>1, <2>2, <2>3 DEF DoneInv
  <1>10. CASE marks' = Append(marks, u + rest)
    <2>1. /\ Len(marks') = m + 1 /\ marks'[m + 1] = u + rest
          /\ \A i \in 1 .. m : marks'[i] = marks[i]
      BY <1>6, <1>10, AppendProperties DEF MarksInv
    <2>2. marks' # <<>>
      BY <2>1, EmptySeq
    <2>3. LastMark' = u + rest
      BY <2>1, <2>2 DEF LastMark
    <2>4. \A i \in 1 .. Len(marks') : i < Len(marks') => i \in 1 .. m
      BY <2>1
    <2>5. \A i \in 1 .. m : marks'[i] <= u
      BY <1>5, <1>8, <2>1
    <2>6. LastMark' <= u + rest
      BY <2>3
    <2>7. QED
      BY <1>5, <2>4, <2>5, <2>6 DEF DoneInv
  <1>11. QED
    BY <1>5, <1>9, <1>10 DEF ReadCall

LEMMA DoneReadOn ==
    ASSUME NoWrap, RP!ReaderInv, RP!ReaderInv', MarksInv, MarksInv', DoneInv,
           Peek \/ ReadOn
    PROVE  DoneInv'
  <1>1. phase = "read" /\ phase' = "read" /\ marks' = marks
    BY DEF Peek, ReadOn, Reading
  <1>2. /\ Len(in'.taken) >= Len(in.taken)
        /\ Len(in'.taken) + rLeft' * rUnit' = Len(in.taken) + rLeft * rUnit
    <2>1. CASE R!ReadNext
      BY <2>1, SameReader, RP!TakenGrows, RP!ReadNextGives, ReaderAssumed, ReaderNoWrap
    <2>2. CASE R!PeekReturned \/ R!PeekStringLength
      <3>1. UNCHANGED <<in, rLeft, rUnit>>
        BY <2>2 DEF R!PeekReturned, R!PeekStringLength
      <3>2. Len(in.taken) \in Nat
        BY ReceivedIs
      <3>3. QED
        BY <3>1, <3>2
    <2>3. QED
      BY <2>1, <2>2 DEF Peek, ReadOn
  <1>3. LastMark' = LastMark
    BY <1>1 DEF LastMark
  <1>4. PICK t \in Nat, u \in Nat : t = Len(in.taken) /\ u = Len(in'.taken) /\ t <= u
    BY <1>2, ReceivedIs
  <1>5. LastMark' <= u + rLeft' * rUnit'
    BY <1>1, <1>2, <1>3, <1>4 DEF DoneInv
  <1>6. \A i \in 1 .. Len(marks) : i < Len(marks) => marks[i] <= u
    <2>1. \A i \in 1 .. Len(marks) :
            marks[i] \in Nat /\ (i < Len(marks) => marks[i] <= t)
      BY <1>1, <1>4, ReceivedIs DEF DoneInv
    <2>2. QED
      BY <1>4, <2>1
  <1>7. QED
    BY <1>1, <1>4, <1>5, <1>6 DEF DoneInv

LEMMA DoneStep ==
    ASSUME NoWrap, PayloadsCovered, LetterOK, LetterOK', DoneInv,
           [TransportNext]_transportVars
    PROVE  DoneInv'
  <1>1. /\ WriterInv /\ plan \in Seq(Call) /\ LogInv /\ RP!ReaderInv /\ RP!ReaderInv'
        /\ MarksInv /\ MarksInv'
    BY DEF LetterOK, TransportInv
  <1>2. CASE Receive
    <2>1. phase # "read" /\ marks' = marks
      BY <1>2 DEF Receive
    <2>2. marks' = <<>>
      BY <1>1, <2>1 DEF MarksInv
    <2>3. PICK t \in Nat, rest \in Nat : t = Len(in'.taken) /\ rest = rLeft' * rUnit'
      BY <1>1, ReceivedNext
    <2>4. LastMark' = 0 /\ Len(marks') = 0
      BY <2>2, EmptySeq DEF LastMark
    <2>5. \A i \in 1 .. Len(marks') : FALSE
      BY <2>4
    <2>6. LastMark' <= Len(in'.taken) + rLeft' * rUnit'
      BY <2>3, <2>4
    <2>7. QED
      BY <2>5, <2>6 DEF DoneInv
  <1>3. CASE ReadCall
    BY <1>1, <1>3, DoneReadCall
  <1>4. CASE Peek \/ ReadOn
    BY <1>1, <1>4, DoneReadOn
  <1>5. CASE NextLetter
    BY <1>5 DEF NextLetter, DoneInv
  <1>6. CASE UNCHANGED transportVars
    BY <1>6 DEF transportVars, readerVars, letterVars, DoneInv, LastMark
  <1>7. CASE TransportNext /\ ~(Receive \/ ReadCall \/ Peek \/ ReadOn \/ NextLetter)
    BY <1>1, <1>7, ReceiverRests DEF DoneInv
  <1>8. QED
    BY <1>2, <1>3, <1>4, <1>5, <1>6, <1>7

LEMMA DoneInductive ==
    ASSUME NoWrap, PayloadsCovered
    PROVE  TransportSpec => []DoneInv
  <1>1. TransportInit => DoneInv
    BY DEF TransportInit, DoneInv
  <1>2. LetterOK /\ LetterOK' /\ DoneInv /\ [TransportNext]_transportVars => DoneInv'
    BY DoneStep
  <1>3. QED
    BY <1>1, <1>2, LetterInductive, PTL DEF TransportSpec

\* All reads are over, but the last one while its units are read.
LEMMA ReadsDoneIs ==
    ASSUME RP!ReaderInv, MarksInv, DoneInv, phase = "read"
    PROVE  /\ ReadsDone \in 0 .. Len(marks)
           /\ rLeft * rUnit = 0 => ReadsDone = Len(marks)
           /\ rLeft * rUnit # 0 => Len(marks) # 0 /\ ReadsDone = Len(marks) - 1
           /\ \A i \in 1 .. ReadsDone : marks[i] <= Len(in.taken)
  <1>1. PICK m \in Nat, t \in Nat, rest \in Nat :
          m = Len(marks) /\ t = Len(in.taken) /\ rest = rLeft * rUnit
    BY ReceivedIs
  <1>2. PICK A : A = {i \in 1 .. m : marks[i] <= t}
    OBVIOUS
  <1>3. ReadsDone = Cardinality(A)
    <2>1. DOMAIN marks = 1 .. m
      BY <1>1, ReceivedIs, LenProperties
    <2>2. QED
      BY <1>1, <1>2, <2>1 DEF ReadsDone
  <1>4. \A i \in 1 .. m : marks[i] \in Nat /\ (i < m => marks[i] <= t)
    BY <1>1, ReceivedIs DEF DoneInv
  <1>5. LastMark <= t + rest /\ (m # 0 => LastMark = marks[m])
        /\ (m = 0 => LastMark = 0)
    BY <1>1, ReceivedIs DEF DoneInv
  <1>6. CASE rest = 0
    <2>1. \A i \in 1 .. m : i < m \/ i = m
      OBVIOUS
    <2>2. \A i \in 1 .. m : marks[i] <= t
      BY <1>4, <1>5, <1>6, <2>1
    <2>3. A = 1 .. m
      BY <1>2, <2>2
    <2>4. Cardinality(1 .. m) = m
      BY FS_Interval
    <2>5. QED
      BY <1>1, <1>3, <1>6, <2>2, <2>3, <2>4
  <1>7. CASE rest # 0
    <2>1. ~rFail
      <3>1. rLeft # 0
        BY <1>1, <1>7, ReceivedIs
      <3>2. QED
        BY <3>1, ReceivedIs
    <2>2. LastMark = t + rest
      BY <1>1, <2>1 DEF MarksInv
    <2>3. m # 0
      BY <1>5, <1>7, <2>2
    <2>4. marks[m] = t + rest
      BY <1>5, <2>2, <2>3
    <2>5. m \in 1 .. m /\ m \notin A
      BY <1>2, <1>7, <2>3, <2>4
    <2>6. \A i \in 1 .. m : i < m \/ i = m
      OBVIOUS
    <2>7. \A i \in 1 .. m - 1 : i \in 1 .. m /\ i < m
      OBVIOUS
    <2>8. A = 1 .. m - 1
      BY <1>2, <1>4, <2>5, <2>6, <2>7
    <2>9. Cardinality(1 .. m - 1) = m - 1
      BY <2>3, FS_Interval
    <2>10. \A i \in 1 .. m - 1 : marks[i] <= t
      BY <1>4, <2>7
    <2>11. QED
      BY <1>1, <1>3, <1>7, <2>3, <2>8, <2>9, <2>10
  <1>8. QED
    BY <1>6, <1>7

\* What the receiver has read are the first items of what was stored.
LEMMA GotIs ==
    ASSUME WriterInv, ContentInv, LogInv, PayloadsCovered, CarriedInv, RP!ReaderInv,
           MarksInv, DoneInv, phase = "read"
    PROVE  Over \in 0 .. WritesWithin(Stored) /\ Got = Cut(written, Ends, Over)
  <1>1. PICK t \in Nat, s \in Nat : t = Len(in.taken) /\ s = Stored
    BY ReceivedIs, StoredFacts
  <1>2. PICK done \in Nat, c \in Nat, n \in Nat :
          /\ done = ReadsDone /\ c = WritesWithin(Stored) /\ n = Len(log)
          /\ done <= Len(marks) /\ c <= n
    <2>1. Len(log) \in Nat /\ Len(marks) \in Nat
      BY ReceivedIs, LenProperties DEF LogInv
    <2>2. ReadsDone \in 0 .. Len(marks)
      BY ReadsDoneIs
    <2>3. WritesWithin(Stored) \in 0 .. Len(log)
      BY StoredWrites
    <2>4. QED
      BY <2>1, <2>2, <2>3
  <1>3. PICK k \in Nat : k = Over /\ k <= done /\ k <= c
    BY <1>2 DEF Over
  <1>4. PICK most \in Nat : most = (IF t < s THEN t ELSE s) /\ most <= t /\ most <= s
    OBVIOUS
  <1>5. \A i \in 1 .. most : in.taken[i] = written[i] /\ written[i] \in Bit
    <2>1. \A i \in 1 .. most : i \in 1 .. t /\ i \in 1 .. s
      BY <1>4
    <2>2. \A i \in 1 .. t : in.taken[i] = rWords[i]
      BY <1>1, RP!TakenIs, ReaderAssumed
    <2>3. \A i \in 1 .. s : rWords[i] = written[i]
      BY <1>1, StoredInMessage DEF StoredArrives
    <2>4. \A i \in 1 .. s : written[i] \in Bit
      <3>1. written \in Seq(Bit) /\ Len(written) \in Nat /\ s <= Len(written)
        BY <1>1, StoredFacts, LenProperties DEF WriterInv, TypeOK
      <3>2. \A i \in 1 .. s : i \in 1 .. Len(written)
        BY <3>1
      <3>3. QED
        BY <3>1, <3>2, ElementOfSeq
    <2>5. QED
      BY <2>1, <2>2, <2>3, <2>4
  <1>6. ASSUME NEW i \in 1 .. k
        PROVE  marks[i] = Ends[i] /\ Ends[i] \in Nat /\ Ends[i] <= most
    <2>1. i \in 1 .. n /\ i \in 1 .. Len(marks) /\ i <= c /\ i \in 1 .. done
      <3>1. Len(marks) \in Nat
        BY ReceivedIs
      <3>2. QED
        BY <1>2, <1>3, <3>1
    <2>2. Ends[i] = log[i].end
      <3>1. DOMAIN log = 1 .. n
        BY <1>2, LenProperties DEF LogInv
      <3>2. QED
        BY <2>1, <3>1 DEF Ends
    <2>3. log[i].end \in Nat
      BY <1>2, <2>1, Entries DEF LogInv
    <2>4. log[i].end <= s
      BY <1>1, <1>2, <2>1, StoredWrites
    <2>5. marks[i] = log[i].end
      BY <1>2, <2>1 DEF MarksInv
    <2>6. marks[i] <= t
      BY <1>1, <1>2, <2>1, ReadsDoneIs
    <2>7. QED
      BY <1>4, <2>2, <2>3, <2>4, <2>5, <2>6
  <1>7. Cut(in.taken, marks, k) = Cut(written, Ends, k)
    <2>1. Agree(in.taken, marks, written, Ends, k, most)
      BY <1>5, <1>6 DEF Agree
    <2>2. QED
      BY <2>1, CutSame
  <1>8. QED
    BY <1>2, <1>3, <1>7 DEF Got

\* The receiver that has no letter has read nothing.
LEMMA NothingGot ==
    ASSUME WriterInv, ContentInv, LogInv, MarksInv, phase # "read"
    PROVE  Got = <<>> /\ Over = 0 /\ Mail = <<>>
  <1>1. marks = <<>>
    BY DEF MarksInv
  <1>2. ReadsDone = 0
    <2>1. DOMAIN marks = {}
      BY <1>1
    <2>2. {i \in DOMAIN marks : marks[i] <= Len(in.taken)} = {}
      BY <2>1
    <2>3. QED
      BY <2>2, FS_EmptySet DEF ReadsDone
  <1>3. WritesWithin(Stored) \in 0 .. Len(log) /\ Len(log) \in Nat
    BY StoredWrites, LenProperties DEF LogInv
  <1>4. Over = 0
    BY <1>2, <1>3 DEF Over
  <1>5. Cut(in.taken, marks, 0) = <<>>
    BY CutFacts
  <1>6. QED
    BY <1>4, <1>5 DEF Got, Mail

-----------------------------------------------------------------------------
(* What the steps of the transport are for the one who sees only letters.    *)

\* The letter that is seen, in terms of what is written and read.
SeenInv ==
    /\ Len(log) \in Nat /\ Finished \in 0 .. Len(log)
    /\ left * unit = 0 => Finished = Len(log)
    /\ left * unit # 0 => Finished = Len(log) - 1
    /\ \A i \in 1 .. Finished : log[i].end \in Nat /\ log[i].end <= Len(written)
    /\ WritesWithin(Stored) \in 0 .. Finished
    /\ finalFlushed => WritesWithin(Stored) = Finished
    /\ phase # "read" => Got = <<>> /\ Mail = <<>>
    /\ phase = "read" =>
         /\ Len(marks) \in Nat /\ ReadsDone \in 0 .. Len(marks)
         /\ rLeft * rUnit = 0 => ReadsDone = Len(marks)
         /\ rLeft * rUnit # 0 => ReadsDone = Len(marks) - 1
         /\ rFail => ReadsDone = Len(marks)
         /\ Got = Cut(written, Ends, Over)

LEMMA Seen ==
    ASSUME PayloadsCovered, LetterOK, DoneInv
    PROVE  SeenInv
  <1>1. /\ WriterInv /\ ContentInv /\ LogInv /\ CarriedInv /\ RP!ReaderInv /\ MarksInv
    BY DEF LetterOK, TransportInv
  <1>2. Len(log) \in Nat
    BY <1>1, LenProperties DEF LogInv
  <1>3. phase # "read" => Got = <<>> /\ Mail = <<>>
    BY <1>1, NothingGot
  <1>4. ASSUME phase = "read"
        PROVE  /\ Len(marks) \in Nat /\ ReadsDone \in 0 .. Len(marks)
               /\ rLeft * rUnit = 0 => ReadsDone = Len(marks)
               /\ rLeft * rUnit # 0 => ReadsDone = Len(marks) - 1
               /\ rFail => ReadsDone = Len(marks)
               /\ Got = Cut(written, Ends, Over)
    <2>1. rFail => rLeft * rUnit = 0
      BY <1>1, ReceivedIs
    <2>2. QED
      BY <1>1, <1>4, <2>1, ReceivedIs, ReadsDoneIs, GotIs
  <1>5. /\ Finished \in 0 .. Len(log)
        /\ left * unit = 0 => Finished = Len(log)
        /\ left * unit # 0 => Finished = Len(log) - 1
        /\ \A i \in 1 .. Finished : log[i].end \in Nat /\ log[i].end <= Len(written)
    BY <1>1, FinishedIs
  <1>6. /\ WritesWithin(Stored) \in 0 .. Finished
        /\ finalFlushed => WritesWithin(Stored) = Finished
    BY <1>1, StoredAreFinished
  <1>7. QED
    BY <1>2, <1>3, <1>4, <1>5, <1>6 DEF SeenInv

\* Neither side of the letter moves.
LEMMA NothingSeen ==
    ASSUME SeenInv, SeenInv', phase # "read", phase' # "read",
           UNCHANGED <<log, written, finalFlushed>>
    PROVE  UNCHANGED Letter!vars
  <1>1. Finished' = Finished /\ Ends' = Ends
    BY DEF Finished, WritesWithin, Ends
  <1>2. Draft' = Draft
    BY <1>1 DEF Draft, Cut
  <1>3. Got' = Got /\ Mail' = Mail
    BY DEF SeenInv
  <1>4. QED
    BY <1>2, <1>3 DEF Letter!vars

\* A letter is begun, or begun again.
LEMMA NewLetterSeen ==
    ASSUME SeenInv', phase' # "read", log' = <<>>, finalFlushed' = FALSE
    PROVE  Letter!StartOver
  <1>1. Finished' = 0
    <2>1. Len(log') = 0
      BY EmptySeq
    <2>2. QED
      BY <2>1 DEF SeenInv
  <1>2. Draft' = <<>>
    BY <1>1, CutFacts DEF Draft
  <1>3. Got' = <<>> /\ Mail' = <<>>
    BY DEF SeenInv
  <1>4. QED
    BY <1>2, <1>3 DEF Letter!StartOver

\* Bits are appended to what was written, and they end one write or none.
LEMMA WriteSeen ==
    ASSUME SeenInv, SeenInv', phase # "read", phase' # "read",
           finalFlushed' = finalFlushed, written \in Seq(Bit),
           NEW v \in Seq(Bit), written' = written \o v,
           log \in Seq([call : Call, end : Nat]),
           \/ log' = log
           \/ \E entry \in [call : Call, end : Nat] : log' = Append(log, entry),
           Finished' = Finished \/ (Finished' = Finished + 1 /\ ~finalFlushed)
    PROVE  Letter!Compose \/ UNCHANGED Letter!vars
  <1>1. PICK s \in Nat, n \in Nat, c \in Nat :
          s = Len(written) /\ n = Len(log) /\ c = Finished /\ c <= n
    BY LenProperties DEF SeenInv
  <1>2. \A i \in 1 .. s : written'[i] = written[i] /\ written[i] \in Bit
    BY <1>1, ConcatProperties, ElementOfSeq
  <1>3. \A i \in 1 .. n : log'[i] = log[i] /\ i \in DOMAIN log' /\ i \in DOMAIN log
    <2>1. CASE log' = log
      BY <1>1, <2>1
    <2>2. CASE \E entry \in [call : Call, end : Nat] : log' = Append(log, entry)
      <3>1. PICK entry \in [call : Call, end : Nat] : log' = Append(log, entry)
        BY <2>2
      <3>2. /\ log' \in Seq([call : Call, end : Nat]) /\ Len(log') = n + 1
            /\ \A i \in 1 .. n : log'[i] = log[i]
        BY <1>1, <3>1, AppendProperties
      <3>3. DOMAIN log' = 1 .. n + 1 /\ DOMAIN log = 1 .. n
        BY <1>1, <3>2, LenProperties
      <3>4. QED
        BY <3>2, <3>3
    <2>3. QED
      BY <2>1, <2>2
  <1>4. \A i \in 1 .. c : Ends'[i] = Ends[i] /\ Ends[i] \in Nat /\ Ends[i] <= s
    <2>1. \A i \in 1 .. c : i \in 1 .. n
      BY <1>1
    <2>2. \A i \in 1 .. c : Ends'[i] = log[i].end /\ Ends[i] = log[i].end
      BY <1>3, <2>1 DEF Ends
    <2>3. QED
      BY <1>1, <2>2 DEF SeenInv
  <1>5. Cut(written', Ends', c) = Cut(written, Ends, c)
    <2>1. Agree(written', Ends', written, Ends, c, s)
      BY <1>2, <1>4 DEF Agree
    <2>2. QED
      BY <2>1, CutSame
  <1>6. Got' = Got /\ Mail' = Mail
    BY DEF SeenInv
  <1>7. Draft = Cut(written, Ends, c)
    BY <1>1 DEF Draft
  <1>8. CASE Finished' = Finished
    <2>1. Draft' = Cut(written', Ends', c)
      BY <1>1, <1>8 DEF Draft, Cut
    <2>2. Draft' = Draft
      BY <1>5, <1>7, <2>1
    <2>3. QED
      BY <1>6, <2>2 DEF Letter!vars
  <1>9. CASE Finished' = Finished + 1 /\ ~finalFlushed
    <2>1. Draft' = Cut(written', Ends', c + 1)
      BY <1>1, <1>9 DEF Draft, Cut
    <2>2. /\ Len(Draft) = c /\ Len(Draft') = c + 1
      BY <1>7, <2>1, CutFacts
    <2>3. SubSeq(Draft', 1, c) = Draft
      <3>1. c \in 0 .. c + 1
        OBVIOUS
      <3>2. SubSeq(Cut(written', Ends', c + 1), 1, c) = Cut(written', Ends', c)
        BY <3>1, CutFacts
      <3>3. QED
        BY <1>5, <1>7, <2>1, <3>2
    <2>4. Letter!Extends(Draft', Draft)
      BY <2>2, <2>3 DEF Letter!Extends
    <2>5. QED
      BY <1>6, <1>9, <2>4 DEF Letter!Compose
  <1>10. QED
    BY <1>8, <1>9

LEMMA FlushSeen ==
    ASSUME SeenInv, SeenInv', Flush
    PROVE  Letter!Close
  <1>1. /\ phase = "write" /\ phase' = "write" /\ UNCHANGED <<log, written>>
        /\ finalFlushed' = TRUE
    BY DEF Flush, Writing, FlushFinal
  <1>2. Finished' = Finished /\ Ends' = Ends
    BY <1>1 DEF Finished, WritesWithin, Ends
  <1>3. Draft' = Draft
    BY <1>1, <1>2 DEF Draft, Cut
  <1>4. Got' = Got /\ Mail' = Mail
    BY <1>1 DEF SeenInv
  <1>5. QED
    BY <1>1, <1>3, <1>4 DEF Letter!Close

LEMMA ReceiveSeen ==
    ASSUME SeenInv, SeenInv', MarksInv, Receive
    PROVE  Letter!Arrive
  <1>1. /\ phase = "sent" /\ phase' = "read" /\ UNCHANGED <<log, written, finalFlushed>>
        /\ marks' = marks /\ marks = <<>>
    BY DEF Receive, MarksInv, writerVars, vars
  <1>2. Finished' = Finished /\ Ends' = Ends /\ WritesWithin(Stored)' = WritesWithin(Stored)
    BY <1>1 DEF Finished, WritesWithin, Ends, Stored
  <1>3. Draft' = Draft
    BY <1>1, <1>2 DEF Draft, Cut
  <1>4. PICK c \in Nat, d \in Nat :
          c = WritesWithin(Stored) /\ d = Finished /\ c <= d /\ (finalFlushed => c = d)
    BY DEF SeenInv
  <1>5. Len(Draft) = d
    BY <1>4, CutFacts DEF Draft
  <1>6. Mail' = SubSeq(Draft, 1, c)
    <2>1. Mail' = Cut(written, Ends, c)
      BY <1>1, <1>2, <1>4 DEF Mail, Cut
    <2>2. c \in 0 .. d /\ Draft = Cut(written, Ends, d)
      BY <1>4 DEF Draft
    <2>3. SubSeq(Cut(written, Ends, d), 1, c) = Cut(written, Ends, c)
      BY <2>2, CutFacts
    <2>4. QED
      BY <2>1, <2>2, <2>3
  <1>7. Got' = Got
    <2>1. Got = <<>>
      BY <1>1 DEF SeenInv
    <2>2. Len(marks') = 0
      BY <1>1, EmptySeq
    <2>3. ReadsDone' = 0 /\ WritesWithin(Stored)' \in Nat
      BY <1>1, <1>2, <1>4, <2>2 DEF SeenInv
    <2>4. Over' = 0
      BY <2>3 DEF Over
    <2>5. Got' = Cut(in'.taken, marks', 0)
      BY <2>4 DEF Got, Cut
    <2>6. QED
      BY <2>1, <2>5, CutFacts
  <1>8. QED
    BY <1>1, <1>3, <1>4, <1>5, <1>6, <1>7 DEF Letter!Arrive

\* The receiver reads on: it has read one item more, or none.
LEMMA ReadingSeen ==
    ASSUME SeenInv, SeenInv', phase = "read", phase' = "read",
           UNCHANGED <<log, written, finalFlushed>>,
           ReadsDone' = ReadsDone \/ ReadsDone' = ReadsDone + 1
    PROVE  Letter!Read \/ UNCHANGED Letter!vars
  <1>1. Finished' = Finished /\ Ends' = Ends /\ WritesWithin(Stored)' = WritesWithin(Stored)
    BY DEF Finished, WritesWithin, Ends, Stored
  <1>2. Draft' = Draft /\ Mail' = Mail
    BY <1>1 DEF Draft, Mail, Cut
  <1>3. PICK c \in Nat, done \in Nat : c = WritesWithin(Stored) /\ done = ReadsDone
    BY DEF SeenInv
  <1>4. PICK k \in Nat : k = Over /\ k <= c /\ k = (IF done < c THEN done ELSE c)
    BY <1>3 DEF Over
  <1>5. Over' = k \/ (Over' = k + 1 /\ k < c)
    <2>1. CASE ReadsDone' = done
      BY <1>1, <1>3, <1>4, <2>1 DEF Over
    <2>2. CASE ReadsDone' = done + 1
      <3>1. Over' = IF done + 1 < c THEN done + 1 ELSE c
        BY <1>1, <1>3, <2>2 DEF Over
      <3>2. QED
        BY <1>4, <3>1
    <2>3. QED
      BY <1>3, <2>1, <2>2
  <1>6. Got = Cut(written, Ends, k)
    BY <1>4 DEF SeenInv
  <1>7. CASE Over' = k
    <2>1. Got' = Cut(written, Ends, k)
      BY <1>1, <1>7 DEF SeenInv, Cut
    <2>2. QED
      BY <1>2, <1>6, <2>1 DEF Letter!vars
  <1>8. CASE Over' = k + 1 /\ k < c
    <2>1. Got' = Cut(written, Ends, k + 1)
      BY <1>1, <1>8 DEF SeenInv, Cut
    <2>2. Mail = Cut(written, Ends, c)
      BY <1>3 DEF Mail
    <2>3. Len(Got) = k /\ Len(Mail) = c
      BY <1>6, <2>2, CutFacts
    <2>4. Mail[k + 1] = Cut(written, Ends, k + 1)[k + 1]
      <3>1. k + 1 \in 1 .. c /\ k + 1 \in 1 .. k + 1
        BY <1>8
      <3>2. QED
        BY <2>2, <3>1 DEF Cut
    <2>5. Append(Cut(written, Ends, k), Cut(written, Ends, k + 1)[k + 1])
            = Cut(written, Ends, k + 1)
      BY CutFacts
    <2>6. Got' = Append(Got, Mail[Len(Got) + 1])
      BY <1>6, <2>1, <2>3, <2>4, <2>5
    <2>7. QED
      BY <1>2, <1>8, <2>3, <2>6 DEF Letter!Read
  <1>9. QED
    BY <1>5, <1>7, <1>8

\* A call of the reader ends at most one read, and none that was over.
LEMMA ReadCallSeen ==
    ASSUME SeenInv, SeenInv', RP!ReaderInv, MarksInv, ReadCall
    PROVE  Letter!Read \/ UNCHANGED Letter!vars
  <1>1. /\ phase = "read" /\ phase' = "read" /\ UNCHANGED <<log, written, finalFlushed>>
    BY ReadingKeeps DEF ReadCall
  <1>2. rLeft * rUnit = 0
    <2>1. rLeft = 0
      BY DEF ReadCall, R!Read, R!ReadBytes, R!ReadString, R!Idle
    <2>2. QED
      BY <2>1, ReceivedIs
  <1>3. PICK m \in Nat : m = Len(marks)
    BY <1>1 DEF SeenInv
  <1>4. ReadsDone = m
    BY <1>1, <1>2, <1>3 DEF SeenInv
  <1>5. CASE rFail'
    <2>1. marks' = marks
      BY <1>5 DEF ReadCall
    <2>2. ReadsDone' = m
      BY <1>1, <1>3, <1>5, <2>1 DEF SeenInv
    <2>3. QED
      BY <1>1, <1>4, <2>2, ReadingSeen
  <1>6. CASE ~rFail'
    <2>1. Len(marks') = m + 1
      BY <1>3, <1>6, AppendProperties DEF ReadCall, MarksInv
    <2>2. ReadsDone' = m \/ ReadsDone' = m + 1
      BY <1>1, <1>3, <2>1 DEF SeenInv
    <2>3. QED
      BY <1>1, <1>4, <2>2, ReadingSeen
  <1>7. QED
    BY <1>5, <1>6

LEMMA ReadOnSeen ==
    ASSUME SeenInv, SeenInv', RP!ReaderInv, MarksInv, Peek \/ ReadOn
    PROVE  Letter!Read \/ UNCHANGED Letter!vars
  <1>1. /\ phase = "read" /\ phase' = "read" /\ marks' = marks
        /\ UNCHANGED <<log, written, finalFlushed>>
    BY ReadingKeeps DEF Peek, ReadOn
  <1>2. PICK m \in Nat : m = Len(marks)
    BY <1>1 DEF SeenInv
  <1>3. CASE rLeft * rUnit = 0
    <2>1. rLeft' * rUnit' = 0
      <3>1. CASE R!ReadNext
        <4>1. /\ rLeft > 0 /\ rLeft \in Nat /\ rUnit \in Nat /\ rLeft' = rLeft - 1
              /\ rUnit' = rUnit
          BY <3>1, ReceivedIs DEF R!ReadNext
        <4>2. rUnit = 0
          BY <1>3, <4>1
        <4>3. QED
          BY <4>1, <4>2
      <3>2. CASE R!PeekReturned \/ R!PeekStringLength
        BY <1>3, <3>2 DEF R!PeekReturned, R!PeekStringLength
      <3>3. QED
        BY <3>1, <3>2 DEF Peek, ReadOn
    <2>2. ReadsDone = m /\ ReadsDone' = m
      BY <1>1, <1>2, <1>3, <2>1 DEF SeenInv
    <2>3. QED
      BY <1>1, <2>2, ReadingSeen
  <1>4. CASE rLeft * rUnit # 0
    <2>1. ReadsDone = m - 1
      BY <1>1, <1>2, <1>4 DEF SeenInv
    <2>2. ReadsDone' = m - 1 \/ ReadsDone' = m
      BY <1>1, <1>2 DEF SeenInv
    <2>3. ReadsDone' = ReadsDone \/ ReadsDone' = ReadsDone + 1
      BY <2>1, <2>2
    <2>4. QED
      BY <1>1, <2>3, ReadingSeen
  <1>5. QED
    BY <1>3, <1>4

-----------------------------------------------------------------------------
\* A call of the writer: refused, it leaves the letter as it is; accepted, it
\* appends bits, and the write to the log.
LEMMA WriteCallIs ==
    ASSUME NoWrap, WriterInv, NEW call \in Call, WriteCall(call)
    PROVE  /\ left = 0 /\ finalFlushed' = finalFlushed
           /\ \/ UNCHANGED <<log, written, left, unit>>
              \/ /\ ~finalFlushed
                 /\ \E v \in Seq(Bit) : written' = written \o v
                 /\ log' = Append(log, [call |-> call,
                                        end |-> Len(written') + left' * unit'])
  <1>1. written \in Seq(Bit)
    BY DEF WriterInv, TypeOK
  <1>2. log' = IF fail' THEN log
               ELSE Append(log, [call |-> call, end |-> Len(written') + left' * unit'])
    BY DEF WriteCall
  <1>3. ASSUME NEW v \in Values, Write(v)
        PROVE  /\ left = 0 /\ finalFlushed' = finalFlushed
               /\ \/ fail' /\ UNCHANGED <<written, left, unit>>
                  \/ /\ ~fail' /\ ~finalFlushed
                     /\ \E w \in Seq(Bit) : written' = written \o w
    <2>1. v \in Seq(Bit)
      BY ValuesAssumption DEF Value
    <2>2. QED
      BY <1>3, <2>1 DEF Write, Refuse, Idle
  <1>4. ASSUME NEW size \in Nat, WriteBytes(size)
        PROVE  /\ left = 0 /\ finalFlushed' = finalFlushed
               /\ \/ fail' /\ UNCHANGED <<written, left, unit>>
                  \/ /\ ~fail' /\ ~finalFlushed
                     /\ \E w \in Seq(Bit) : written' = written \o w
    <2>1. written = written \o <<>> /\ <<>> \in Seq(Bit)
      BY <1>1, EmptySeq
    <2>2. QED
      BY <1>4, <2>1 DEF WriteBytes, Refuse, Idle
  <1>5. ASSUME NEW len \in StringLens, NEW c \in CharBytes, WriteString(len, c)
        PROVE  /\ left = 0 /\ finalFlushed' = finalFlushed
               /\ \/ fail' /\ UNCHANGED <<written, left, unit>>
                  \/ /\ ~fail' /\ ~finalFlushed
                     /\ \E w \in Seq(Bit) : written' = written \o w
    <2>1. PICK k : k = LengthPrefix(len)
      OBVIOUS
    <2>2. PICK first, second :
            first = ToBits(k, PrefixPrefixBits) /\ second = ToBits(len, PrefixBits(k))
      OBVIOUS
    <2>3. first \in Seq(Bit) /\ second \in Seq(Bit)
      <3>1. len \in Nat /\ k \in 0 .. 3
        BY <2>1, PrefixOK, CountsAssumption
      <3>2. PICK n \in Nat : n = PrefixBits(k) /\ n <= ScratchBits
        BY <3>1, PrefixWidths
      <3>3. k \in Nat /\ PrefixPrefixBits \in Nat /\ PrefixPrefixBits <= ScratchBits
        BY <3>1, WordBitsPos, ByteBitsAssumption DEF PrefixPrefixBits, WordBits, WordBytes
      <3>4. QED
        BY <2>2, <3>1, <3>2, <3>3, ToBitsOK DEF Value
    <2>4. PICK w \in Seq(Bit) : w = first \o second
      BY <2>3, ConcatProperties
    <2>5. written \o first \o second = written \o w
      BY <1>1, <2>3, <2>4, ConcatBits
    <2>6. \/ Refuse
          \/ /\ written' = written \o first \o second /\ fail' = fail /\ ~finalFlushed
      BY <1>5, <2>1, <2>2 DEF WriteString
    <2>7. left = 0 /\ ~fail /\ finalFlushed' = finalFlushed
      BY <1>5 DEF WriteString, Idle
    <2>8. CASE Refuse
      BY <2>7, <2>8 DEF Refuse
    <2>9. CASE /\ written' = written \o first \o second /\ fail' = fail /\ ~finalFlushed
      <3>1. written' = written \o w
        BY <2>5, <2>9
      <3>2. \E v \in Seq(Bit) : written' = written \o v
        BY <3>1
      <3>3. ~fail'
        BY <2>7, <2>9
      <3>4. QED
        BY <2>7, <2>9, <3>2, <3>3
    <2>10. QED
      BY <2>6, <2>8, <2>9
  <1>6. /\ left = 0 /\ finalFlushed' = finalFlushed
        /\ \/ fail' /\ UNCHANGED <<written, left, unit>>
           \/ /\ ~fail' /\ ~finalFlushed
              /\ \E w \in Seq(Bit) : written' = written \o w
    BY <1>3, <1>4, <1>5, CallFields DEF WriteCall
  <1>7. QED
    BY <1>2, <1>6

LEMMA WriteCallSeen ==
    ASSUME NoWrap, WriterInv, WriterInv', LogInv, LogInv', SeenInv, SeenInv', Writing,
           NEW call \in Call, WriteCall(call)
    PROVE  Letter!Compose \/ UNCHANGED Letter!vars
  <1>1. phase # "read" /\ phase' # "read"
    BY DEF Writing
  <1>2. written \in Seq(Bit) /\ unit \in Nat /\ log \in Seq([call : Call, end : Nat])
    BY DEF WriterInv, TypeOK, LogInv
  <1>3. left = 0 /\ finalFlushed' = finalFlushed
    BY WriteCallIs
  <1>4. PICK n \in Nat : n = Len(log)
    BY DEF SeenInv
  <1>5. Finished = n
    BY <1>2, <1>3, <1>4 DEF SeenInv
  <1>6. CASE UNCHANGED <<log, written, left, unit>>
    BY <1>1, <1>3, <1>6, NothingSeen
  <1>7. CASE /\ ~finalFlushed
             /\ \E v \in Seq(Bit) : written' = written \o v
             /\ log' = Append(log, [call |-> call,
                                    end |-> Len(written') + left' * unit'])
    <2>1. PICK v \in Seq(Bit) : written' = written \o v
      BY <1>7
    <2>2. Len(written') + left' * unit' \in Nat
      <3>1. written' \in Seq(Bit) /\ left' \in Nat /\ unit' \in Nat
        BY DEF WriterInv, TypeOK
      <3>2. QED
        BY <3>1, LenProperties, ProductIsNat
    <2>3. PICK entry \in [call : Call, end : Nat] : log' = Append(log, entry)
      BY <1>7, <2>2
    <2>4. Len(log') = n + 1
      BY <1>2, <1>4, <2>3, AppendProperties
    <2>5. Finished' = n \/ Finished' = n + 1
      BY <2>4 DEF SeenInv
    <2>6. QED
      BY <1>1, <1>2, <1>3, <1>5, <1>7, <2>1, <2>3, <2>5, WriteSeen
  <1>8. QED
    BY <1>6, <1>7, WriteCallIs

LEMMA WriteLoopSeen ==
    ASSUME WriterInv, LogInv, SeenInv, SeenInv', WriteLoop
    PROVE  Letter!Compose \/ UNCHANGED Letter!vars
  <1>1. /\ phase # "read" /\ phase' # "read" /\ log' = log /\ PutNext
    BY DEF WriteLoop, Writing
  <1>2. /\ left > 0 /\ left' = left - 1 /\ unit' = unit /\ finalFlushed' = finalFlushed
        /\ left \in Nat /\ unit \in Nat /\ written \in Seq(Bit)
        /\ log \in Seq([call : Call, end : Nat])
    BY <1>1 DEF PutNext, WriterInv, TypeOK, LogInv
  <1>3. ~finalFlushed
    <2>1. left > 0 => ~initFail
      BY DEF WriterInv
    <2>2. QED
      BY <1>2, <2>1 DEF WriterInv, LoopFits
  <1>4. PICK v \in [1 .. unit -> Bit] : written' = written \o v
    BY <1>1 DEF PutNext
  <1>5. v \in Seq(Bit)
    BY <1>2
  <1>6. PICK n \in Nat : n = Len(log)
    BY DEF SeenInv
  <1>7. CASE left * unit = 0
    <2>1. unit = 0
      BY <1>2, <1>7
    <2>2. left' * unit' = 0
      BY <1>2, <2>1
    <2>3. Finished' = Finished
      BY <1>1, <1>6, <1>7, <2>2 DEF SeenInv
    <2>4. QED
      BY <1>1, <1>2, <1>4, <1>5, <2>3, WriteSeen
  <1>8. CASE left * unit # 0
    <2>1. Finished = n - 1
      BY <1>6, <1>8 DEF SeenInv
    <2>2. Finished' = n - 1 \/ Finished' = n
      BY <1>1, <1>6 DEF SeenInv
    <2>3. Finished' = Finished \/ Finished' = Finished + 1
      BY <2>1, <2>2
    <2>4. QED
      BY <1>1, <1>2, <1>3, <1>4, <1>5, <2>3, WriteSeen
  <1>9. QED
    BY <1>7, <1>8

\* Every step of the transport is one of the letters, or is not seen.
LEMMA StepSeen ==
    ASSUME NoWrap, PayloadsCovered, LetterOK, LetterOK', SeenInv, SeenInv',
           [TransportNext]_transportVars
    PROVE  [Letter!Next]_(Letter!vars)
  <1>1. /\ WriterInv /\ WriterInv' /\ plan \in Seq(Call) /\ LogInv /\ LogInv'
        /\ RP!ReaderInv /\ MarksInv
    BY DEF LetterOK, TransportInv
  <1>2. CASE (\E call \in Call : PlanCall(call)) \/ Allocate \/ GiveUp \/ Send
             \/ Discard \/ NetworkStep \/ (\E m \in S!Messages : Deliver(m)) \/ Lost
    <2>1. /\ UNCHANGED <<log, written, finalFlushed>>
          /\ phase # "read" /\ phase' # "read"
      BY <1>2 DEF PlanCall, Allocate, GiveUp, Send, Discard, NetworkStep, Deliver, Lost,
                  writerVars, letterVars, vars
    <2>2. QED
      BY <2>1, NothingSeen
  <1>3. CASE OpenWriter
    <2>1. /\ phase = "open" /\ phase' = "write" /\ log' = log /\ finalFlushed' = FALSE
      BY <1>3 DEF OpenWriter, ResetWith, Restarted
    <2>2. log' = <<>>
      BY <1>1, <2>1 DEF LogInv
    <2>3. QED
      BY <2>1, <2>2, NewLetterSeen DEF Letter!Next
  <1>4. CASE WritePlanned
    <2>1. Len(log) + 1 \in 1 .. Len(plan)
      <3>1. Len(log) \in Nat /\ Len(plan) \in Nat
        BY <1>1, LenProperties DEF LogInv
      <3>2. QED
        BY <1>4, <3>1 DEF WritePlanned
    <2>2. plan[Len(log) + 1] \in Call
      BY <1>1, <2>1, ElementOfSeq
    <2>3. QED
      BY <1>1, <1>4, <2>2, WriteCallSeen DEF WritePlanned, Letter!Next
  <1>5. CASE WriteUnmeasured
    BY <1>1, <1>5, WriteCallSeen DEF WriteUnmeasured, Letter!Next
  <1>6. CASE WriteLoop
    BY <1>1, <1>6, WriteLoopSeen DEF Letter!Next
  <1>7. CASE Flush
    BY <1>7, FlushSeen DEF Letter!Next
  <1>8. CASE Rewrite
    <2>1. phase' # "read" /\ log' = <<>> /\ finalFlushed' = FALSE
      BY <1>8 DEF Rewrite, Writing, Restart, Restarted
    <2>2. QED
      BY <2>1, NewLetterSeen DEF Letter!Next
  <1>9. CASE Receive
    BY <1>1, <1>9, ReceiveSeen DEF Letter!Next
  <1>10. CASE ReadCall
    BY <1>1, <1>10, ReadCallSeen DEF Letter!Next
  <1>11. CASE Peek \/ ReadOn
    BY <1>1, <1>11, ReadOnSeen DEF Letter!Next
  <1>12. CASE NextLetter
    <2>1. phase' # "read" /\ log' = <<>> /\ finalFlushed' = FALSE
      BY <1>12 DEF NextLetter, Reset, Restarted
    <2>2. QED
      BY <2>1, NewLetterSeen DEF Letter!Next
  <1>13. CASE UNCHANGED transportVars
    <2>1. /\ UNCHANGED <<phase, log, written, finalFlushed, marks, in>>
      BY <1>13 DEF transportVars, writerVars, readerVars, letterVars, vars
    <2>2. Draft' = Draft /\ Mail' = Mail /\ Got' = Got
      BY <2>1 DEF Draft, Mail, Got, Cut, Ends, Finished, Over, ReadsDone, WritesWithin,
                  Stored
    <2>3. QED
      BY <2>1, <2>2 DEF Letter!vars
  <1>14. QED
    BY <1>2, <1>3, <1>4, <1>5, <1>6, <1>7, <1>8, <1>9, <1>10, <1>11, <1>12, <1>13
       DEF TransportNext

LEMMA StartSeen ==
    ASSUME TransportInit, SeenInv
    PROVE  Letter!Init
  <1>1. phase = "plan" /\ log = <<>> /\ finalFlushed = FALSE
    BY DEF TransportInit, MeasuredInit, Init
  <1>2. Finished = 0
    BY <1>1, EmptySeq DEF SeenInv
  <1>3. Draft = <<>>
    BY <1>2, CutFacts DEF Draft
  <1>4. QED
    BY <1>1, <1>3 DEF SeenInv, Letter!Init

\* The library keeps its promise: whoever only sees the letters, what is written,
\* closed, sent and read of them, sees what Letters allows.  What arrives of a
\* letter is the beginning of what was written, all of it when it was closed, and
\* its items are read in order, each as it was written.
THEOREM ImplementsLetters ==
    ASSUME NoWrap, PayloadsCovered
    PROVE  TransportSpec => RefinesLetters
  <1>1. LetterOK /\ DoneInv => SeenInv
    BY Seen
  <1>2. TransportInit /\ SeenInv => Letter!Init
    BY StartSeen
  <1>3. LetterOK /\ LetterOK' /\ SeenInv /\ SeenInv' /\ [TransportNext]_transportVars
        => [Letter!Next]_(Letter!vars)
    BY StepSeen
  <1>4. QED
    BY <1>1, <1>2, <1>3, LetterInductive, DoneInductive, PTL
       DEF TransportSpec, RefinesLetters, Letter!Spec
=============================================================================
