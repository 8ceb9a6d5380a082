------------------------ MODULE BitStreamWriterProofs ------------------------
(***************************************************************************)
(* Theorems about BitStreamWriter, and the measurer beside it, for any     *)
(* number of bits of a byte, any buffers, values and strings, as long as   *)
(* size_type does not wrap.                                                *)
(***************************************************************************)
EXTENDS BitStreamWriterProperties, MeasuredWriting, SequenceTheorems, TLAPS

\* What do_write relies on and keeps: the scratch holds less than a word, and
\* nothing above it.
OutOK(o, size) ==
    /\ o \in Out(size)
    /\ o.scratchIndex \in 0 .. WordBits - 1
    /\ \A i \in 0 .. ScratchBits - 1 : i >= o.scratchIndex => o.scratch[i] = 0

Position(o) == o.wordsIndex * WordBits + o.scratchIndex

-----------------------------------------------------------------------------
LEMMA WordBitsPos == WordBits \in Nat \ {0} /\ ScratchBits = 2 * WordBits
  BY ByteBitsAssumption DEF WordBits, WordBytes, ScratchBits

LEMMA NextWord == \A n \in Nat : (n + 1) * WordBits = n * WordBits + WordBits
  BY WordBitsPos

LEMMA WordsMonotone == \A m, n \in Nat : m * WordBits < n * WordBits => m < n
  BY WordBitsPos

LEMMA OrShiftedTyped ==
    ASSUME NEW s \in Scratch, NEW v \in Seq(Bit), NEW k \in Nat
    PROVE  OrShifted(s, v, k) \in Scratch
  BY WordBitsPos DEF OrShifted, Scratch, Bit

LEMMA ShiftRightTyped ==
    ASSUME NEW s \in Scratch
    PROVE  ShiftRight(s, WordBits) \in Scratch
  BY WordBitsPos DEF ShiftRight, Scratch, Bit

LEMMA FlushWordTyped ==
    ASSUME NEW size \in Nat, NEW o \in Out(size)
    PROVE  FlushWord(o) \in Out(size)
  <1>1. /\ o.words \in Memory(size) /\ o.scratch \in Scratch
        /\ o.wordsIndex \in Nat /\ o.scratchIndex \in Int
    BY DEF Out
  <1>2. PICK s : s = ShiftRight(o.scratch, WordBits)
    OBVIOUS
  <1>3. PICK k : k = IF o.scratchIndex > WordBits THEN o.scratchIndex - WordBits
                                                  ELSE 0
    OBVIOUS
  <1>4. PICK w : w = [i \in DOMAIN o.words |->
                        IF i >= o.wordsIndex * WordBits
                           /\ i < o.wordsIndex * WordBits + WordBits
                        THEN o.scratch[i - o.wordsIndex * WordBits]
                        ELSE o.words[i]]
    OBVIOUS
  <1>5. w \in Memory(size)
    <2>1. o.wordsIndex * WordBits \in Nat
      BY <1>1, WordBitsPos
    <2>2. DOMAIN o.words = 0 .. size * WordBits - 1
      BY <1>1 DEF Memory
    <2>3. ASSUME NEW i \in Int, i >= o.wordsIndex * WordBits,
                 i < o.wordsIndex * WordBits + WordBits
          PROVE  o.scratch[i - o.wordsIndex * WordBits] \in Bit
      <3>1. i - o.wordsIndex * WordBits \in 0 .. ScratchBits - 1
        BY <2>1, <2>3, WordBitsPos
      <3>2. QED
        BY <1>1, <3>1 DEF Scratch
    <2>4. \A i \in 0 .. size * WordBits - 1 : o.words[i] \in Bit
      BY <1>1 DEF Memory
    <2>5. size * WordBits \in Nat
      BY WordBitsPos
    <2>6. ASSUME NEW i \in 0 .. size * WordBits - 1
          PROVE  w[i] \in Bit
      <3>1. i \in Int
        BY <2>5
      <3>2. QED
        BY <1>4, <2>2, <2>3, <2>4, <3>1
    <2>7. QED
      BY <1>4, <2>2, <2>6 DEF Memory
  <1>6. s \in Scratch /\ k \in Int /\ o.wordsIndex + 1 \in Nat
    BY <1>1, <1>2, <1>3, ShiftRightTyped, WordBitsPos
  <1>7. FlushWord(o) = [o EXCEPT !.words = w, !.wordsIndex = o.wordsIndex + 1,
                                 !.scratch = s, !.scratchIndex = k]
    BY <1>2, <1>3, <1>4, Zenon DEF FlushWord
  <1>8. QED
    <2>1. PICK j : j = o.wordsIndex + 1
      OBVIOUS
    <2>2. [o EXCEPT !.words = w, !.wordsIndex = j, !.scratch = s,
                    !.scratchIndex = k] \in Out(size)
      BY <1>5, <1>6, <2>1 DEF Out
    <2>3. QED
      BY <1>7, <2>1, <2>2, Zenon

LEMMA FlushWordFields ==
    ASSUME NEW size \in Nat, NEW o \in Out(size)
    PROVE  /\ FlushWord(o).scratch = ShiftRight(o.scratch, WordBits)
           /\ FlushWord(o).scratchIndex =
                IF o.scratchIndex > WordBits THEN o.scratchIndex - WordBits ELSE 0
           /\ FlushWord(o).wordsIndex = o.wordsIndex + 1
           /\ FlushWord(o).usedBits = o.usedBits
           /\ FlushWord(o).words =
                [i \in DOMAIN o.words |->
                   IF i >= o.wordsIndex * WordBits
                      /\ i < o.wordsIndex * WordBits + WordBits
                   THEN o.scratch[i - o.wordsIndex * WordBits] ELSE o.words[i]]
  BY DEF FlushWord, Out

\* A half of a value advances the position by its bits.
LEMMA PutHalfOK ==
    ASSUME NEW size \in Nat, NEW o, OutOK(o, size),
           NEW v \in Seq(Bit), Len(v) <= WordBits
    PROVE  /\ OutOK(PutHalf(o, v), size)
           /\ Position(PutHalf(o, v)) = Position(o) + Len(v)
           /\ PutHalf(o, v).usedBits = o.usedBits
  <1>a. PICK s : s = OrShifted(o.scratch, v, o.scratchIndex)
    OBVIOUS
  <1>b. PICK k : k = o.scratchIndex + Len(v)
    OBVIOUS
  <1>c. PICK p : p = [o EXCEPT !.scratch = s, !.scratchIndex = k]
    OBVIOUS
  <1>1. /\ o \in Out(size) /\ o.scratch \in Scratch /\ o.wordsIndex \in Nat
        /\ o.scratchIndex \in 0 .. WordBits - 1
        /\ \A i \in 0 .. ScratchBits - 1 : i >= o.scratchIndex => o.scratch[i] = 0
    BY DEF OutOK, Out
  <1>2. Len(v) \in Nat /\ k \in Nat /\ k < ScratchBits
    BY <1>1, <1>b, WordBitsPos
  <1>3. s \in Scratch
    BY <1>1, <1>a, OrShiftedTyped
  <1>4. \A i \in 0 .. ScratchBits - 1 : i >= k => s[i] = 0
    BY <1>1, <1>2, <1>a, <1>b, WordBitsPos DEF OrShifted
  <1>5. p \in Out(size)
    <2>1. k \in Int
      BY <1>2
    <2>2. [o EXCEPT !.scratch = s, !.scratchIndex = k] \in Out(size)
      BY <1>1, <1>3, <2>1 DEF Out
    <2>3. QED
      BY <1>c, <2>2, Zenon
  <1>6. /\ p.scratch = s /\ p.scratchIndex = k
        /\ p.wordsIndex = o.wordsIndex /\ p.usedBits = o.usedBits
    BY <1>1, <1>c DEF Out
  <1>7. PutHalf(o, v) = IF k >= WordBits THEN FlushWord(p) ELSE p
    BY <1>6, <1>a, <1>b, <1>c, Zenon DEF PutHalf, FlushIfScratchOverflow
  <1>9. CASE k < WordBits
    <2>1. OutOK(p, size)
      BY <1>2, <1>4, <1>5, <1>6, <1>9, WordBitsPos DEF OutOK
    <2>2. Position(p) = Position(o) + Len(v)
      BY <1>1, <1>2, <1>6, <1>b, WordBitsPos DEF Position
    <2>3. PutHalf(o, v) = p
      BY <1>2, <1>7, <1>9, WordBitsPos
    <2>4. QED
      BY <1>6, <2>1, <2>2, <2>3
  <1>10. CASE k >= WordBits
    <2>1. PICK r : r = FlushWord(p)
      OBVIOUS
    <2>2. r \in Out(size)
      BY <1>5, <2>1, FlushWordTyped
    <2>3. /\ r.scratch = ShiftRight(s, WordBits)
          /\ r.scratchIndex = IF k > WordBits THEN k - WordBits ELSE 0
          /\ r.wordsIndex = o.wordsIndex + 1
          /\ r.usedBits = o.usedBits
      BY <1>5, <1>6, <2>1, FlushWordFields
    <2>4. r.scratchIndex = k - WordBits
      BY <1>2, <1>10, <2>3, WordBitsPos
    <2>5. r.scratchIndex \in 0 .. WordBits - 1
      BY <1>2, <1>10, <2>4, WordBitsPos
    <2>6. ASSUME NEW i \in 0 .. ScratchBits - 1, i >= r.scratchIndex
          PROVE  r.scratch[i] = 0
      <3>1. r.scratch[i] = IF i + WordBits < ScratchBits
                           THEN s[i + WordBits] ELSE 0
        BY <2>3 DEF ShiftRight
      <3>2. i + WordBits < ScratchBits => s[i + WordBits] = 0
        BY <1>2, <1>4, <2>4, <2>6, WordBitsPos
      <3>3. QED
        BY <3>1, <3>2
    <2>7. Position(r) = Position(o) + Len(v)
      <3>1. r.wordsIndex * WordBits = o.wordsIndex * WordBits + WordBits
        BY <1>1, <2>3, NextWord
      <3>2. o.wordsIndex * WordBits \in Nat
        BY <1>1, WordBitsPos
      <3>3. QED
        <4> DEFINE a == o.wordsIndex * WordBits
        <4>1. /\ a \in Nat /\ r.wordsIndex * WordBits = a + WordBits
              /\ o.scratchIndex \in Nat
          BY <1>1, <3>1, <3>2
        <4> HIDE DEF a
        <4>2. PICK b \in Nat : b = WordBits
          BY WordBitsPos
        <4>3. PICK x \in Nat, y \in Nat : x = o.scratchIndex /\ y = Len(v)
          BY <1>2, <4>1
        <4>4. a + b + (k - b) = a + x + y
          BY <1>b, <4>1, <4>3
        <4>5. QED
          BY <2>4, <4>1, <4>2, <4>3, <4>4 DEF Position, a
    <2>8. PutHalf(o, v) = r
      BY <1>7, <1>10, <2>1
    <2>9. QED
      BY <2>2, <2>3, <2>5, <2>6, <2>7, <2>8 DEF OutOK
  <1>11. QED
    BY <1>2, <1>9, <1>10, WordBitsPos
LEMMA WrapSmall == \A n \in Nat : n < SizeMod => Wrap(n) = n
  BY SizeModAssumption DEF Wrap

LEMMA WrapShorter == \A n \in Nat : Wrap(n) \in Nat /\ Wrap(n) <= n
  <1>1. \A n \in Nat : Wrap(n) \in Nat /\ Wrap(n) < SizeMod
    BY SizeModAssumption DEF Wrap
  <1>2. QED
    BY <1>1, WrapSmall, SizeModAssumption

LEMMA TotalsOK == Totals \subseteq Nat
  <1>1. \A l \in LogicalBytes : ByteBits * l \in Nat
    BY CountsAssumption, ByteBitsAssumption
  <1>2. QED
    BY <1>1, WrapShorter DEF Totals

\* The two halves of a value are sequences of at most a word.
LEMMA HalvesOK ==
    ASSUME NEW v \in Value
    PROVE  /\ v \in Seq(Bit) /\ Len(v) \in Nat /\ Len(v) <= ScratchBits
           /\ LowHalf(v) \in Seq(Bit) /\ Len(LowHalf(v)) <= WordBits
           /\ Len(v) <= WordBits => LowHalf(v) = v
           /\ Len(v) > WordBits =>
                /\ Len(LowHalf(v)) = WordBits
                /\ HighHalf(v) \in Seq(Bit)
                /\ Len(HighHalf(v)) = Len(v) - WordBits
                /\ Len(HighHalf(v)) <= WordBits
  <1>1. v \in Seq(Bit) /\ Len(v) \in Nat /\ Len(v) <= ScratchBits
    BY DEF Value
  <1>2. CASE Len(v) <= WordBits
    BY <1>1, <1>2, WordBitsPos DEF LowHalf
  <1>3. CASE Len(v) > WordBits
    <2>1. /\ SubSeq(v, 1, WordBits) \in Seq(Bit)
          /\ Len(SubSeq(v, 1, WordBits)) = WordBits
      BY <1>1, <1>3, WordBitsPos, SubSeqProperties
    <2>2. /\ SubSeq(v, WordBits + 1, Len(v)) \in Seq(Bit)
          /\ Len(SubSeq(v, WordBits + 1, Len(v))) = Len(v) - WordBits
      BY <1>1, <1>3, WordBitsPos, SubSeqProperties
    <2>3. QED
      BY <1>1, <1>3, <2>1, <2>2, WordBitsPos DEF LowHalf, HighHalf
  <1>4. QED
    BY <1>1, <1>2, <1>3, WordBitsPos

\* do_write advances the cursors by the bits of the value, whichever half
\* crosses a word boundary.
LEMMA DoWriteOK ==
    ASSUME NEW size \in Nat, NEW o, OutOK(o, size), NEW v \in Value,
           o.usedBits + Len(v) < SizeMod
    PROVE  /\ OutOK(DoWrite(o, v), size)
           /\ Position(DoWrite(o, v)) = Position(o) + Len(v)
           /\ DoWrite(o, v).usedBits = o.usedBits + Len(v)
  <1>1. PICK low : low = PutHalf(o, LowHalf(v))
    OBVIOUS
  <1>2. PICK all : all = IF Len(v) > WordBits THEN PutHalf(low, HighHalf(v))
                                              ELSE low
    OBVIOUS
  <1>3. /\ OutOK(low, size)
        /\ Position(low) = Position(o) + Len(LowHalf(v))
        /\ low.usedBits = o.usedBits
    BY <1>1, HalvesOK, PutHalfOK
  <1>4. Position(o) \in Int /\ o.usedBits \in Nat
    BY WordBitsPos DEF Position, OutOK, Out
  <1>5. /\ OutOK(all, size)
        /\ Position(all) = Position(o) + Len(v)
        /\ all.usedBits = o.usedBits
    <2>1. CASE Len(v) <= WordBits
      BY <1>2, <1>3, <2>1, HalvesOK, WordBitsPos
    <2>2. CASE Len(v) > WordBits
      <3>1. /\ OutOK(all, size)
            /\ Position(all) = Position(low) + Len(HighHalf(v))
            /\ all.usedBits = low.usedBits
        BY <1>2, <1>3, <2>2, HalvesOK, PutHalfOK
      <3>2. QED
        <4>1. /\ Len(LowHalf(v)) = WordBits
              /\ Len(HighHalf(v)) = Len(v) - WordBits
              /\ Len(v) \in Nat
          BY <2>2, HalvesOK
        <4>2. Position(all) = Position(o) + WordBits + (Len(v) - WordBits)
          BY <1>3, <3>1, <4>1
        <4>3. QED
          BY <1>3, <1>4, <3>1, <4>1, <4>2, WordBitsPos
    <2>3. QED
      BY <2>1, <2>2, HalvesOK, WordBitsPos
  <1>6. PICK n : n = o.usedBits + Len(v)
    OBVIOUS
  <1>7. n \in Nat /\ Wrap(n) = n
    <2>1. Len(v) \in Nat
      BY HalvesOK
    <2>2. n \in Nat /\ n < SizeMod
      BY <1>4, <1>6, <2>1
    <2>3. QED
      BY <2>2, WrapSmall
  <1>8. DoWrite(o, v) = [all EXCEPT !.usedBits = n]
    BY <1>1, <1>2, <1>5, <1>6, <1>7 DEF DoWrite
  <1>9. PICK r : r = [all EXCEPT !.usedBits = n]
    OBVIOUS
  <1>10. /\ r \in Out(size) /\ r.usedBits = n
         /\ r.scratch = all.scratch /\ r.scratchIndex = all.scratchIndex
         /\ r.wordsIndex = all.wordsIndex
    BY <1>5, <1>7, <1>9 DEF OutOK, Out
  <1>11. OutOK(r, size) /\ Position(r) = Position(all)
    BY <1>5, <1>10 DEF OutOK, Position
  <1>12. QED
    BY <1>5, <1>6, <1>8, <1>9, <1>10, <1>11
-----------------------------------------------------------------------------
(* The inductive invariant. *)

\* The logical length is one of those the writer was given, shortened if it
\* wrapped; it lies within the buffer, or the stream is unusable, failed and
\* empty.
ConfigInv ==
    /\ totalBits \in Totals
    /\ IF initFail
       THEN fail /\ ~finalFlushed /\ out.usedBits = 0 /\ out.wordsIndex = 0
       ELSE totalBits <= wordsSize * WordBits

WriterInv ==
    /\ TypeOK
    /\ OutOK(out, wordsSize)
    /\ CursorsAgree
    /\ ConfigInv
    /\ ~initFail => LoopFits
    /\ initFail => left = 0
    /\ left > 0 => unit <= WordBits

LEMMA LoopProduct ==
    \A n, u \in Nat : /\ n * u \in Nat
                      /\ n > 0 => (n - 1) * u = n * u - u
                      /\ n > 0 => n * u >= u
  OBVIOUS

\* A fresh writer over any memory.
LEMMA RestartedOK ==
    ASSUME NEW size \in Nat, NEW words \in Memory(size), NEW f \in BOOLEAN,
           Restarted(words, f)
    PROVE  /\ out' \in Out(size) /\ OutOK(out', size)
           /\ out'.usedBits = 0 /\ out'.wordsIndex = 0 /\ out'.scratchIndex = 0
           /\ fail' = f /\ finalFlushed' = FALSE /\ written' = <<>>
  <1>1. EmptyScratch \in Scratch
    BY DEF EmptyScratch, Scratch, Bit
  <1>2. out' \in Out(size)
    BY <1>1 DEF Restarted, Out
  <1>3. out'.scratch = EmptyScratch /\ out'.scratchIndex = 0
    BY DEF Restarted
  <1>4. OutOK(out', size)
    BY <1>2, <1>3, WordBitsPos DEF OutOK, EmptyScratch
  <1>5. QED
    BY <1>2, <1>4 DEF Restarted

\* Starting over, on the same buffer or on another one, from an idle writer.
LEMMA StartOverKeepsInv ==
    ASSUME WriterInv, Idle, UNCHANGED <<left, unit>>,
           NEW words \in Memory(wordsSize'), NEW f \in BOOLEAN, Restarted(words, f),
           wordsSize' \in Nat, totalBits' \in Totals, initFail' \in BOOLEAN,
           IF initFail' THEN f ELSE totalBits' <= wordsSize' * WordBits
    PROVE  WriterInv'
  <1>1. /\ out' \in Out(wordsSize') /\ OutOK(out', wordsSize')
        /\ out'.usedBits = 0 /\ out'.wordsIndex = 0 /\ out'.scratchIndex = 0
        /\ fail' = f /\ finalFlushed' = FALSE /\ written' = <<>>
    BY RestartedOK
  <1>2. /\ left' = 0 /\ left' * unit' = 0 /\ unit' \in Nat
        /\ totalBits' \in Nat
    BY TotalsOK DEF WriterInv, TypeOK, Idle
  <1>3. TypeOK'
    <2>1. written' \in Seq(Bit) /\ left' \in Nat
      BY <1>1, <1>2
    <2>2. fail' \in BOOLEAN /\ finalFlushed' \in BOOLEAN
      BY <1>1, Zenon
    <2>3. QED
      BY <1>1, <1>2, <2>1, <2>2, Zenon DEF TypeOK
  <1>4. CursorsAgree'
    BY <1>1, WordBitsPos DEF CursorsAgree
  <1>5. ConfigInv'
    BY <1>1 DEF ConfigInv
  <1>6. LoopFits'
    BY <1>1, <1>2 DEF LoopFits
  <1>7. QED
    BY <1>1, <1>2, <1>3, <1>4, <1>5, <1>6 DEF WriterInv

\* Accepting bits: do_write in an open stream, once or twice.
LEMMA AcceptKeepsInv ==
    ASSUME WriterInv, ~fail, ~finalFlushed, NEW o, OutOK(o, wordsSize), NEW n \in Nat,
           Position(o) = Position(out) + n, o.usedBits = out.usedBits + n,
           out' = o, written' \in Seq(Bit),
           left' \in Nat, unit' \in Nat, left' > 0 => unit' <= WordBits,
           out.usedBits + n + left' * unit' <= totalBits,
           UNCHANGED <<config, fail, finalFlushed>>
    PROVE  WriterInv'
  <1>1. /\ out.usedBits = Position(out) /\ out.usedBits \in Nat
        /\ ~initFail /\ wordsSize \in Nat
    BY DEF WriterInv, TypeOK, Out, CursorsAgree, ConfigInv, Position
  <1>2. UNCHANGED <<wordsSize, totalBits, initFail>>
    BY DEF config
  <1>3. TypeOK'
    BY <1>2 DEF WriterInv, TypeOK, OutOK
  <1>4. OutOK(out', wordsSize')
    BY <1>2
  <1>5. CursorsAgree'
    BY <1>1, <1>4 DEF CursorsAgree, Position, OutOK
  <1>6. ConfigInv'
    BY <1>1, <1>2 DEF WriterInv, ConfigInv
  <1>7. LoopFits'
    BY <1>1, <1>2 DEF LoopFits
  <1>8. QED
    BY <1>1, <1>2, <1>3, <1>4, <1>5, <1>6, <1>7 DEF WriterInv

\* A call that only sets the fail flag.
LEMMA RefuseKeepsInv ==
    ASSUME WriterInv, Idle, fail' = TRUE,
           UNCHANGED <<out, config, finalFlushed, left, unit, written>>
    PROVE  WriterInv'
  <1>1. TypeOK'
    BY DEF WriterInv, TypeOK, config
  <1>2. OutOK(out, wordsSize)' /\ CursorsAgree' /\ ConfigInv'
    BY DEF WriterInv, CursorsAgree, ConfigInv, config, OutOK
  <1>3. QED
    BY <1>1, <1>2 DEF WriterInv, LoopFits, Idle, config

\* There is a width the length fits, or the last one.
LEMMA PrefixExists ==
    ASSUME NEW len \in Nat
    PROVE  \E k \in 0 .. 3 : /\ k = 3 \/ FitsPrefix(len, k)
                             /\ \A j \in 0 .. k - 1 : ~FitsPrefix(len, j)
  <1>1. CASE FitsPrefix(len, 0)
    <2>1. \A j \in 0 .. 0 - 1 : ~FitsPrefix(len, j)
      OBVIOUS
    <2>2. QED
      BY <1>1, <2>1
  <1>2. CASE ~FitsPrefix(len, 0) /\ FitsPrefix(len, 1)
    <2>1. \A j \in 0 .. 1 - 1 : j = 0
      OBVIOUS
    <2>2. QED
      BY <1>2, <2>1
  <1>3. CASE ~FitsPrefix(len, 0) /\ ~FitsPrefix(len, 1) /\ FitsPrefix(len, 2)
    <2>1. \A j \in 0 .. 2 - 1 : j = 0 \/ j = 1
      OBVIOUS
    <2>2. QED
      BY <1>3, <2>1
  <1>4. CASE ~FitsPrefix(len, 0) /\ ~FitsPrefix(len, 1) /\ ~FitsPrefix(len, 2)
    <2>1. \A j \in 0 .. 3 - 1 : j = 0 \/ j = 1 \/ j = 2
      OBVIOUS
    <2>2. QED
      BY <1>4, <2>1
  <1>5. QED
    BY <1>1, <1>2, <1>3, <1>4

LEMMA PrefixOK ==
    ASSUME NEW len \in Nat
    PROVE  /\ LengthPrefix(len) \in 0 .. 3
           /\ PrefixBits(LengthPrefix(len)) \in Nat
           /\ PrefixBits(LengthPrefix(len)) <= ScratchBits
  <1>1. \E k \in 0 .. 3 : /\ k = 3 \/ FitsPrefix(len, k)
                          /\ \A j \in 0 .. k - 1 : ~FitsPrefix(len, j)
    BY PrefixExists
  <1>2. LengthPrefix(len) \in 0 .. 3
    BY <1>1 DEF LengthPrefix
  <1>3. \A k \in 0 .. 3 : PrefixBits(k) \in Nat /\ PrefixBits(k) <= ScratchBits
    <2>1. \A k \in 0 .. 3 : k = 0 \/ k = 1 \/ k = 2 \/ k = 3
      OBVIOUS
    <2>2. QED
      BY <2>1, ByteBitsAssumption DEF PrefixBits, ScratchBits, WordBits, WordBytes
  <1>4. QED
    BY <1>2, <1>3

LEMMA ToBitsOK ==
    ASSUME NEW n \in Nat, NEW width \in Nat, width <= ScratchBits
    PROVE  ToBits(n, width) \in Value /\ Len(ToBits(n, width)) = width
  BY DEF ToBits, Value, Bit

\* In an open stream what fits the logical length does not wrap.
LEMMA AcceptedFits ==
    ASSUME WriterInv, NoWrap, Idle, ~fail, ~finalFlushed
    PROVE  /\ ~initFail
           /\ out.usedBits \in Nat /\ wordsSize \in Nat /\ totalBits \in Nat
           /\ out.usedBits <= totalBits
           /\ totalBits \in Totals
           /\ totalBits <= wordsSize * WordBits /\ wordsSize * WordBits \in Nat
           /\ totalBits + ScratchBits < SizeMod
  <1>1. /\ ~initFail /\ LoopFits /\ left = 0 /\ unit \in Nat
        /\ out.usedBits \in Nat /\ wordsSize \in Nat /\ totalBits \in Nat
        /\ totalBits <= wordsSize * WordBits /\ totalBits \in Totals
    BY DEF WriterInv, ConfigInv, TypeOK, Out, Idle
  <1>2. out.usedBits <= totalBits
    BY <1>1 DEF LoopFits
  <1>3. wordsSize * WordBits \in Nat /\ totalBits + ScratchBits < SizeMod
    BY <1>1, WordBitsPos DEF NoWrap
  <1>4. QED
    BY <1>1, <1>2, <1>3

LEMMA WriteKeepsInv ==
    ASSUME WriterInv, NoWrap, NEW v \in Values, Write(v)
    PROVE  WriterInv'
  <1>1. v \in Value /\ v \in Seq(Bit) /\ Len(v) \in Nat /\ Len(v) <= ScratchBits
    BY ValuesAssumption, HalvesOK
  <1>2. Idle /\ ~fail
    BY DEF Write
  <1>3. CASE finalFlushed \/ Overflows(Len(v))
    BY <1>2, <1>3, RefuseKeepsInv DEF Write, Refuse
  <1>4. CASE ~finalFlushed /\ ~Overflows(Len(v))
    <2>1. out.usedBits + Len(v) < SizeMod
      BY <1>1, <1>2, <1>4, AcceptedFits, SizeModAssumption, WordBitsPos
    <2>2. out.usedBits + Len(v) <= totalBits
      BY <1>1, <1>2, <1>4, <2>1, AcceptedFits, WrapSmall DEF Overflows
    <2>3. PICK o : o = DoWrite(out, v)
      OBVIOUS
    <2>4. OutOK(out, wordsSize) /\ wordsSize \in Nat
      BY DEF WriterInv, TypeOK
    <2>5. /\ OutOK(o, wordsSize) /\ Position(o) = Position(out) + Len(v)
          /\ o.usedBits = out.usedBits + Len(v)
      BY <1>1, <2>1, <2>3, <2>4, DoWriteOK
    <2>6. /\ out' = o /\ written' = written \o v
          /\ UNCHANGED <<config, fail, finalFlushed, left, unit>>
      BY <1>4, <2>3 DEF Write
    <2>7. written' \in Seq(Bit)
      BY <1>1, <2>6 DEF WriterInv, TypeOK
    <2>8. left' = 0 /\ unit' \in Nat /\ left' * unit' = 0
      BY <1>2, <2>6 DEF Idle, WriterInv, TypeOK
    <2>9. out.usedBits + Len(v) + left' * unit' <= totalBits
      BY <1>1, <1>2, <1>4, <2>2, <2>8, AcceptedFits
    <2>10. QED
      BY <1>1, <1>2, <1>4, <2>5, <2>6, <2>7, <2>8, <2>9, AcceptKeepsInv
  <1>5. QED
    BY <1>3, <1>4

LEMMA WriteBytesKeepsInv ==
    ASSUME WriterInv, NoWrap, NEW size \in ByteCounts, WriteBytes(size)
    PROVE  WriterInv'
  <1>1. size \in Nat /\ ByteBits * size \in Nat
    BY CountsAssumption, ByteBitsAssumption
  <1>2. Idle /\ ~fail
    BY DEF WriteBytes
  <1>3. CASE finalFlushed \/ Overflows(ByteBits * size)
    BY <1>2, <1>3, RefuseKeepsInv DEF WriteBytes, Refuse
  <1>4. CASE ~finalFlushed /\ ~Overflows(ByteBits * size)
    <2>1. totalBits + ByteBits * size < SizeMod
      BY <1>2, <1>4, AcceptedFits DEF NoWrap
    <2>2. out.usedBits + ByteBits * size < SizeMod
      BY <1>1, <1>2, <1>4, <2>1, AcceptedFits, SizeModAssumption
    <2>3. out.usedBits + ByteBits * size <= totalBits
      BY <1>1, <1>2, <1>4, <2>2, AcceptedFits, WrapSmall DEF Overflows
    <2>4. /\ left' = size /\ unit' = ByteBits
          /\ UNCHANGED <<out, config, fail, finalFlushed, written>>
      BY <1>4 DEF WriteBytes
    <2>5. OutOK(out, wordsSize) /\ written' \in Seq(Bit)
      BY <2>4 DEF WriterInv, TypeOK
    <2>6. /\ Position(out) = Position(out) + 0
          /\ out.usedBits = out.usedBits + 0
      BY <2>5, WordBitsPos DEF OutOK, Out, Position
    <2>7. left' * unit' = ByteBits * size
      BY <1>1, <2>4, ByteBitsAssumption
    <2>8. out.usedBits + 0 + left' * unit' <= totalBits
      BY <2>3, <2>6, <2>7
    <2>9. left' \in Nat /\ unit' \in Nat /\ unit' <= WordBits
      BY <1>1, <2>4, ByteBitsAssumption DEF WordBits, WordBytes
    <2>10. QED
      BY <1>2, <1>4, <2>4, <2>5, <2>6, <2>8, <2>9, AcceptKeepsInv
  <1>5. QED
    BY <1>3, <1>4

LEMMA PutNextKeepsInv ==
    ASSUME WriterInv, NoWrap, PutNext
    PROVE  WriterInv'
  <1>1. PICK v \in [1 .. unit -> Bit] :
          out' = DoWrite(out, v) /\ written' = written \o v
    BY DEF PutNext
  <1>2. /\ left \in Nat /\ left > 0 /\ unit \in Nat /\ unit <= WordBits
        /\ left' = left - 1
        /\ UNCHANGED <<config, fail, finalFlushed, unit>>
    BY DEF PutNext, WriterInv, TypeOK
  <1>3. /\ ~initFail /\ LoopFits /\ ~fail /\ ~finalFlushed
        /\ OutOK(out, wordsSize) /\ wordsSize \in Nat /\ totalBits \in Nat
        /\ out.usedBits \in Nat /\ totalBits \in Totals
    BY <1>2 DEF WriterInv, ConfigInv, LoopFits, TypeOK, Out
  <1>4. v \in Value /\ v \in Seq(Bit) /\ Len(v) = unit
    BY <1>1, <1>2, WordBitsPos DEF Value
  <1>5. /\ left * unit \in Nat /\ left' * unit = left * unit - unit
        /\ left * unit >= unit
    BY <1>2, LoopProduct
  <1>6. out.usedBits + left * unit <= totalBits
    BY <1>3 DEF LoopFits
  <1>7. totalBits + ScratchBits < SizeMod
    BY <1>3 DEF NoWrap
  <1>8. out.usedBits + Len(v) < SizeMod
    BY <1>2, <1>3, <1>4, <1>5, <1>6, <1>7, WordBitsPos, SizeModAssumption
  <1>9. PICK o : o = DoWrite(out, v)
    OBVIOUS
  <1>10. /\ OutOK(o, wordsSize) /\ Position(o) = Position(out) + unit
         /\ o.usedBits = out.usedBits + unit
    BY <1>3, <1>4, <1>8, <1>9, DoWriteOK
  <1>11. written' \in Seq(Bit)
    BY <1>1, <1>4 DEF WriterInv, TypeOK
  <1>12. out.usedBits + unit + left' * unit' <= totalBits
    BY <1>2, <1>3, <1>5, <1>6
  <1>13. left' \in Nat
    BY <1>2
  <1>14. QED
    BY <1>1, <1>2, <1>3, <1>9, <1>10, <1>11, <1>12, <1>13, AcceptKeepsInv

LEMMA WriteStringKeepsInv ==
    ASSUME WriterInv, NoWrap, NEW len \in StringLens, NEW c \in CharBytes,
           WriteString(len, c)
    PROVE  WriterInv'
  <1>1. len \in Nat /\ c \in Nat /\ c <= 4
    BY CountsAssumption, CharBytesAssumption
  <1>2. Idle /\ ~fail
    BY DEF WriteString
  <1>3. PICK k : k = LengthPrefix(len)
    OBVIOUS
  <1>4. k \in Nat /\ PrefixBits(k) \in Nat /\ PrefixBits(k) <= ScratchBits
    BY <1>1, <1>3, PrefixOK
  <1>5. PICK first : first = ToBits(k, PrefixPrefixBits)
    OBVIOUS
  <1>6. PICK second : second = ToBits(len, PrefixBits(k))
    OBVIOUS
  <1>7. /\ first \in Value /\ first \in Seq(Bit) /\ Len(first) = 2
        /\ second \in Value /\ second \in Seq(Bit) /\ Len(second) = PrefixBits(k)
    <2>1. 2 <= ScratchBits
      BY ByteBitsAssumption DEF ScratchBits, WordBits, WordBytes
    <2>2. first \in Value /\ Len(first) = 2
      BY <1>4, <1>5, <2>1, ToBitsOK DEF PrefixPrefixBits
    <2>3. second \in Value /\ Len(second) = PrefixBits(k)
      BY <1>1, <1>4, <1>6, ToBitsOK
    <2>4. QED
      BY <2>2, <2>3 DEF Value
  <1>8. PICK chars : chars = ByteBits * (len * c)
    OBVIOUS
  <1>9. chars \in Nat
    BY <1>1, <1>8, ByteBitsAssumption
  <1>10. PICK bits : bits = PrefixPrefixBits + PrefixBits(k) + chars
    OBVIOUS
  <1>11. CASE finalFlushed \/ out.usedBits + bits > totalBits
    BY <1>2, <1>3, <1>8, <1>10, <1>11, RefuseKeepsInv DEF WriteString, Refuse
  <1>12. CASE ~(finalFlushed \/ out.usedBits + bits > totalBits)
    <2>1. /\ out.usedBits + bits <= totalBits
          /\ bits = 2 + PrefixBits(k) + chars
      BY <1>2, <1>4, <1>9, <1>10, <1>12, AcceptedFits DEF PrefixPrefixBits
    <2>2. PICK o : o = DoWrite(out, first)
      OBVIOUS
    <2>3. PICK p : p = DoWrite(o, second)
      OBVIOUS
    <2>4. OutOK(out, wordsSize) /\ wordsSize \in Nat
      BY DEF WriterInv, TypeOK
    <2>5. /\ out.usedBits + 2 < SizeMod
          /\ out.usedBits + 2 + PrefixBits(k) < SizeMod
      BY <1>2, <1>4, <1>9, <1>12, <2>1, AcceptedFits, SizeModAssumption, WordBitsPos
    <2>6. /\ OutOK(o, wordsSize) /\ Position(o) = Position(out) + 2
          /\ o.usedBits = out.usedBits + 2
      BY <1>7, <2>2, <2>4, <2>5, DoWriteOK
    <2>7. o.usedBits + Len(second) < SizeMod
      BY <1>7, <2>5, <2>6
    <2>8. /\ OutOK(p, wordsSize) /\ Position(p) = Position(o) + PrefixBits(k)
          /\ p.usedBits = o.usedBits + PrefixBits(k)
      BY <1>7, <2>3, <2>4, <2>6, <2>7, DoWriteOK
    <2>9. PICK n : n = 2 + PrefixBits(k)
      OBVIOUS
    <2>10. Position(out) \in Int /\ out.usedBits \in Nat /\ n \in Nat
      BY <1>4, <2>4, <2>9, WordBitsPos DEF OutOK, Out, Position
    <2>11. /\ Position(p) = Position(out) + n
           /\ p.usedBits = out.usedBits + n
      BY <1>4, <2>6, <2>8, <2>9, <2>10
    <2>12. /\ out' = p /\ written' = written \o first \o second
           /\ left' = len /\ unit' = ByteBits * c
           /\ UNCHANGED <<config, fail, finalFlushed>>
      BY <1>3, <1>5, <1>6, <1>8, <1>10, <1>12, <2>2, <2>3 DEF WriteString
    <2>13. written' \in Seq(Bit)
      BY <1>7, <2>12 DEF WriterInv, TypeOK
    <2>14. left' * unit' = chars
      BY <1>1, <1>8, <2>12, ByteBitsAssumption
    <2>15. out.usedBits + n + left' * unit' <= totalBits
      BY <1>4, <1>9, <2>1, <2>9, <2>10, <2>14
    <2>16. left' \in Nat /\ unit' \in Nat /\ unit' <= WordBits
      <3>1. c = 0 \/ c = 1 \/ c = 2 \/ c = 3 \/ c = 4
        BY <1>1
      <3>2. QED
        BY <1>1, <2>12, <3>1, ByteBitsAssumption DEF WordBits, WordBytes
    <2>17. QED
      BY <1>2, <1>12, <2>8, <2>10, <2>11, <2>12, <2>13, <2>15, <2>16,
         AcceptKeepsInv
  <1>13. QED
    BY <1>11, <1>12

LEMMA FlushFinalKeepsInv ==
    ASSUME WriterInv, FlushFinal
    PROVE  WriterInv'
  <1>1. /\ Idle /\ ~fail /\ ~finalFlushed /\ finalFlushed' = TRUE
        /\ out' = IF out.scratchIndex > 0 THEN FlushWord(out) ELSE out
        /\ UNCHANGED <<wordsSize, totalBits, initFail, fail, left, unit, written>>
    BY DEF FlushFinal, config
  <1>2. /\ out \in Out(wordsSize) /\ wordsSize \in Nat
        /\ out.scratch \in Scratch
        /\ out.scratchIndex \in 0 .. WordBits - 1
        /\ \A i \in 0 .. ScratchBits - 1 :
             i >= out.scratchIndex => out.scratch[i] = 0
        /\ out.wordsIndex \in Nat /\ out.wordsIndex * WordBits \in Nat
        /\ out.usedBits = out.wordsIndex * WordBits + out.scratchIndex
        /\ ~initFail
    BY <1>1, WordBitsPos DEF WriterInv, TypeOK, OutOK, Out, CursorsAgree, ConfigInv
  <1>3. CASE out.scratchIndex = 0
    <2>1. out' = out
      BY <1>1, <1>3
    <2>2. TypeOK'
      BY <1>1, <2>1 DEF WriterInv, TypeOK
    <2>3. CursorsAgree'
      BY <1>1, <1>2, <1>3, <2>1, WordBitsPos DEF CursorsAgree
    <2>4. QED
      BY <1>1, <1>2, <2>1, <2>2, <2>3 DEF WriterInv, ConfigInv, LoopFits, OutOK, Idle
  <1>4. CASE out.scratchIndex > 0
    <2>1. PICK r : r = FlushWord(out)
      OBVIOUS
    <2>2. r \in Out(wordsSize) /\ out' = r
      BY <1>1, <1>2, <1>4, <2>1, FlushWordTyped
    <2>3. /\ r.scratch = ShiftRight(out.scratch, WordBits)
          /\ r.scratchIndex = 0
          /\ r.wordsIndex = out.wordsIndex + 1
          /\ r.usedBits = out.usedBits
      <3>1. ~(out.scratchIndex > WordBits)
        BY <1>2, WordBitsPos
      <3>2. QED
        BY <1>2, <2>1, <3>1, FlushWordFields
    <2>4. \A i \in 0 .. ScratchBits - 1 : r.scratch[i] = 0
      <3>1. PICK b \in Nat, k \in Nat : b = WordBits /\ k = out.scratchIndex /\ k <= b
        BY <1>2, WordBitsPos
      <3>2. ASSUME NEW i \in 0 .. ScratchBits - 1
            PROVE  r.scratch[i] = 0
        <4>1. i \in Nat
          BY WordBitsPos
        <4>2. r.scratch[i] = IF i + b < ScratchBits THEN out.scratch[i + b] ELSE 0
          BY <2>3, <3>1 DEF ShiftRight
        <4>3. i + b < ScratchBits => i + b \in 0 .. ScratchBits - 1 /\ i + b >= k
          BY <3>1, <4>1, WordBitsPos
        <4>4. QED
          BY <1>2, <3>1, <4>2, <4>3
      <3>3. QED
        BY <3>2
    <2>5. OutOK(r, wordsSize)
      BY <2>2, <2>3, <2>4, WordBitsPos DEF OutOK
    <2>6. r.wordsIndex * WordBits = out.wordsIndex * WordBits + WordBits
      BY <1>2, <2>3, NextWord
    <2>7. CursorsAgree'
      <3>1. /\ r.usedBits <= r.wordsIndex * WordBits
            /\ r.wordsIndex * WordBits < r.usedBits + WordBits
        BY <1>2, <1>4, <2>3, <2>6, WordBitsPos
      <3>2. QED
        BY <1>1, <2>2, <2>3, <3>1 DEF CursorsAgree
    <2>8. TypeOK'
      BY <1>1, <2>2 DEF WriterInv, TypeOK
    <2>9. QED
      BY <1>1, <1>2, <2>2, <2>3, <2>5, <2>7, <2>8
         DEF WriterInv, ConfigInv, LoopFits, Idle
  <1>5. QED
    BY <1>2, <1>3, <1>4, WordBitsPos

LEMMA InvStep == NoWrap /\ WriterInv /\ [Next]_vars => WriterInv'
  <1> SUFFICES ASSUME NoWrap, WriterInv, [Next]_vars PROVE WriterInv'
    OBVIOUS
  <1>0. TypeOK
    BY DEF WriterInv
  <1>1. CASE Restart
    <2>1. /\ Idle /\ Restarted(out.words, initFail)
          /\ UNCHANGED <<wordsSize, totalBits, initFail, left, unit>>
      BY <1>1 DEF Restart, config
    <2>2. out.words \in Memory(wordsSize') /\ initFail \in BOOLEAN
      BY <1>0, <2>1 DEF TypeOK, Out
    <2>3. /\ wordsSize' \in Nat /\ totalBits' \in Totals
          /\ initFail' \in BOOLEAN
          /\ IF initFail' THEN initFail ELSE totalBits' <= wordsSize' * WordBits
      BY <1>0, <2>1 DEF WriterInv, ConfigInv, TypeOK
    <2>4. UNCHANGED <<left, unit>>
      BY <2>1
    <2>5. QED
      BY <2>1, <2>2, <2>3, <2>4, StartOverKeepsInv
  <1>2. CASE Reset
    <2>1. /\ Idle /\ Restarted(NoWords, TRUE) /\ wordsSize' = 0
          /\ totalBits' = 0 /\ initFail' = TRUE /\ UNCHANGED <<left, unit>>
      BY <1>2 DEF Reset
    <2>2. NoWords \in Memory(wordsSize')
      BY <2>1, WordBitsPos DEF NoWords, Memory
    <2>3. totalBits' \in Totals
      BY <2>1 DEF Totals
    <2>4. QED
      BY <2>1, <2>2, <2>3, StartOverKeepsInv
  <1>3. ASSUME NEW n \in WordCounts, NEW isNull \in BOOLEAN,
               NEW l \in LogicalBytes, ResetWith(n, isNull, l)
        PROVE  WriterInv'
    <2>1. n \in Nat /\ l \in Nat /\ n * WordBits \in Nat
      BY CountsAssumption, WordBitsPos
    <2>2. PICK old \in Bit :
            Restarted([i \in 0 .. n * WordBits - 1 |-> old], initFail')
      BY <1>3 DEF ResetWith
    <2>3. /\ Idle /\ wordsSize' = n /\ UNCHANGED <<left, unit>>
          /\ initFail' = (isNull \/ n = 0 \/ l > n * WordBytes)
          /\ totalBits' = Wrap(ByteBits * l)
      BY <1>3 DEF ResetWith
    <2>4. [i \in 0 .. n * WordBits - 1 |-> old] \in Memory(wordsSize')
      BY <2>2, <2>3 DEF Memory
    <2>5. /\ ByteBits * l \in Nat /\ totalBits' <= ByteBits * l
          /\ totalBits' \in Totals /\ totalBits' \in Nat
      <3>1. ByteBits * l \in Nat
        BY <2>1, ByteBitsAssumption
      <3>2. totalBits' \in Totals
        BY <2>3 DEF Totals
      <3>3. QED
        BY <2>3, <3>1, <3>2, WrapShorter
    <2>6. ~initFail' => totalBits' <= wordsSize' * WordBits
      <3>1. l <= n * WordBytes => ByteBits * l <= n * WordBits
        BY <2>1, ByteBitsAssumption DEF WordBits, WordBytes
      <3>2. ~initFail' => ~(l > n * WordBytes)
        BY <2>3, Zenon
      <3>3. ~(l > n * WordBytes) => l <= n * WordBytes
        BY <2>1 DEF WordBytes
      <3>4. SUFFICES ASSUME ~initFail' PROVE totalBits' <= wordsSize' * WordBits
        OBVIOUS
      <3>5. ByteBits * l <= n * WordBits
        BY <3>1, <3>2, <3>3, <3>4
      <3>6. PICK room \in Nat, asked \in Nat, total \in Nat :
              room = n * WordBits /\ asked = ByteBits * l /\ total = totalBits'
        BY <2>1, <2>5
      <3>7. total <= room
        BY <2>5, <3>5, <3>6
      <3>8. wordsSize' * WordBits = room
        BY <2>3, <3>6
      <3>9. QED
        BY <3>6, <3>7, <3>8
    <2>7. initFail' \in BOOLEAN
      BY <2>3, Zenon
    <2>8. IF initFail' THEN initFail' ELSE totalBits' <= wordsSize' * WordBits
      BY <2>6, Zenon
    <2>9. wordsSize' \in Nat /\ totalBits' \in Totals
      BY <2>1, <2>3, <2>5
    <2>10. QED
      BY <2>2, <2>3, <2>4, <2>7, <2>8, <2>9, StartOverKeepsInv
  <1>4. CASE SetFail
    BY <1>4, RefuseKeepsInv DEF SetFail
  <1>5. CASE UNCHANGED vars
    <2>1. /\ UNCHANGED <<out, wordsSize, totalBits, initFail, fail>>
          /\ UNCHANGED <<finalFlushed, left, unit, written>>
      BY <1>5 DEF vars, config
    <2>2. QED
      BY <2>1 DEF WriterInv, TypeOK, OutOK, CursorsAgree, ConfigInv, LoopFits
  <1>6. QED
    BY <1>1, <1>2, <1>3, <1>4, <1>5, WriteKeepsInv, WriteBytesKeepsInv,
       WriteStringKeepsInv, PutNextKeepsInv, FlushFinalKeepsInv DEF Next

LEMMA InvInit == Init => WriterInv
  <1> SUFFICES ASSUME Init PROVE WriterInv
    OBVIOUS
  <1>1. EmptyScratch \in Scratch /\ NoWords \in Memory(0)
    BY WordBitsPos DEF EmptyScratch, Scratch, Bit, NoWords, Memory
  <1>2. out \in Out(0) /\ wordsSize = 0
    BY <1>1 DEF Init, Out
  <1>3. TypeOK
    <2>1. /\ initFail \in BOOLEAN /\ fail \in BOOLEAN
          /\ finalFlushed \in BOOLEAN
      BY Zenon DEF Init
    <2>2. /\ totalBits \in Nat /\ left \in Nat /\ unit \in Nat
          /\ written \in Seq(Bit) /\ wordsSize \in Nat
      BY DEF Init
    <2>3. QED
      BY <1>2, <2>1, <2>2, Zenon DEF TypeOK
  <1>4. OutOK(out, 0)
    BY <1>2, WordBitsPos DEF Init, OutOK, EmptyScratch
  <1>5. QED
    BY <1>2, <1>3, <1>4, WordBitsPos
       DEF Init, WriterInv, CursorsAgree, ConfigInv, Totals

LEMMA InductiveInvariant == NoWrap => (Spec => []WriterInv)
  <1>1. SUFFICES ASSUME NoWrap PROVE Spec => []WriterInv
    OBVIOUS
  <1>2. WriterInv /\ [Next]_vars => WriterInv'
    BY <1>1, InvStep
  <1>3. QED
    BY <1>2, InvInit, PTL DEF Spec

-----------------------------------------------------------------------------
\* The writer is well-typed: in particular the scratch and the words stay the
\* functions they are whatever is written.
THEOREM TypeCorrect == ASSUME NoWrap PROVE Spec => []TypeOK
  <1>1. WriterInv => TypeOK
    BY DEF WriterInv
  <1>2. QED
    BY <1>1, InductiveInvariant, PTL

\* The bits counted are those flushed and those in the scratch, and the
\* scratch holds less than a word between calls and between iterations.
THEOREM CursorsCorrect == ASSUME NoWrap PROVE Spec => []CursorsAgree
  <1>1. WriterInv => CursorsAgree
    BY DEF WriterInv
  <1>2. QED
    BY <1>1, InductiveInvariant, PTL

\* Nothing is ever in the scratch above the bits it holds.
THEOREM ScratchCorrect == ASSUME NoWrap PROVE Spec => []ScratchIsClean
  <1>1. WriterInv => ScratchIsClean
    BY DEF WriterInv, OutOK, ScratchIsClean
  <1>2. QED
    BY <1>1, InductiveInvariant, PTL

\* A write in pieces never finds the stream full: it was checked as a whole.
THEOREM LoopsFit == ASSUME NoWrap PROVE Spec => []LoopFits
  <1>1. WriterInv => LoopFits
    <2> SUFFICES ASSUME WriterInv PROVE LoopFits
      OBVIOUS
    <2>1. CASE initFail
      BY <2>1 DEF WriterInv, TypeOK, ConfigInv, LoopFits
    <2>2. CASE ~initFail
      BY <2>2 DEF WriterInv
    <2>3. QED
      BY <2>1, <2>2
  <1>2. QED
    BY <1>1, InductiveInvariant, PTL

LEMMA WordsInside == WriterInv => NoOverrun
  <1> SUFFICES ASSUME WriterInv PROVE NoOverrun
    OBVIOUS
  <1>1. /\ out.wordsIndex \in Nat /\ out.scratchIndex \in Nat
        /\ out.usedBits \in Nat /\ wordsSize \in Nat /\ totalBits \in Nat
        /\ left \in Nat /\ unit \in Nat
    BY WordBitsPos DEF WriterInv, TypeOK, OutOK, Out
  <1>2. CASE initFail
    BY <1>1, <1>2, WordBitsPos DEF WriterInv, ConfigInv, CursorsAgree, NoOverrun
  <1>3. CASE ~initFail
    <2>1. out.usedBits <= wordsSize * WordBits
      <3>1. /\ out.usedBits + left * unit <= totalBits
            /\ totalBits <= wordsSize * WordBits
        BY <1>3 DEF WriterInv, LoopFits, ConfigInv
      <3>2. left * unit \in Nat /\ wordsSize * WordBits \in Nat
        BY <1>1, LoopProduct, WordBitsPos
      <3>3. QED
        BY <1>1, <3>1, <3>2
    <2>2. CASE finalFlushed
      <3>1. /\ out.scratchIndex = 0
            /\ out.wordsIndex * WordBits < wordsSize * WordBits + WordBits
        BY <1>1, <2>1, <2>2, WordBitsPos DEF WriterInv, CursorsAgree
      <3>2. out.wordsIndex * WordBits < (wordsSize + 1) * WordBits
        BY <1>1, <3>1, NextWord
      <3>3. out.wordsIndex < wordsSize + 1
        BY <1>1, <3>2, WordsMonotone
      <3>4. QED
        BY <1>1, <3>1, <3>3 DEF NoOverrun
    <2>3. CASE ~finalFlushed
      <3>1. out.wordsIndex * WordBits + out.scratchIndex <= wordsSize * WordBits
        BY <2>1, <2>3 DEF WriterInv, CursorsAgree
      <3>2. out.wordsIndex * WordBits < (wordsSize + 1) * WordBits
        BY <1>1, <3>1, NextWord, WordBitsPos
      <3>3. out.wordsIndex < wordsSize + 1
        BY <1>1, <3>2, WordsMonotone
      <3>4. out.scratchIndex > 0 =>
              out.wordsIndex * WordBits < wordsSize * WordBits
        BY <1>1, <3>1, WordBitsPos
      <3>5. QED
        BY <1>1, <3>3, <3>4, WordsMonotone DEF NoOverrun
    <2>4. QED
      BY <2>2, <2>3
  <1>4. QED
    BY <1>2, <1>3

\* No word is stored outside of the buffer, the one of the final flush
\* included.
THEOREM NeverOverruns == ASSUME NoWrap PROVE Spec => []NoOverrun
  <1>1. QED
    BY WordsInside, InductiveInvariant, PTL

\* A stream whose words cannot hold its logical length is failed and empty,
\* after any number of restarts and writes.
THEOREM UnusableFails == ASSUME NoWrap PROVE Spec => []UnusableStaysFailed
  <1>1. WriterInv => UnusableStaysFailed
    <2> SUFFICES ASSUME WriterInv PROVE UnusableStaysFailed
      OBVIOUS
    <2>1. totalBits \in Nat /\ wordsSize * WordBits \in Nat
      BY WordBitsPos DEF WriterInv, TypeOK
    <2>2. QED
      BY <2>1 DEF WriterInv, ConfigInv, UnusableStaysFailed
  <1>2. QED
    BY <1>1, InductiveInvariant, PTL

-----------------------------------------------------------------------------
(* What the buffer and the scratch hold: the bits of the accepted writes, in *)
(* order.                                                                    *)

\* A bit of the stream, in the words or still in the scratch.
BitOf(o, i) == IF i < o.wordsIndex * WordBits
               THEN o.words[i] ELSE o.scratch[i - o.wordsIndex * WordBits]

\* From o to p the bits of v were appended, and those before were left alone.
Appended(o, p, v) ==
    /\ \A i \in 0 .. Position(o) - 1 : BitOf(p, i) = BitOf(o, i)
    /\ \A i \in 0 .. Len(v) - 1 : BitOf(p, Position(o) + i) = v[i + 1]

-----------------------------------------------------------------------------
LEMMA ConcatBits ==
    ASSUME NEW a \in Seq(Bit), NEW b \in Seq(Bit), NEW c \in Seq(Bit)
    PROVE  a \o b \o c = a \o (b \o c)
  BY ConcatAssociative

\* Or-ing a value into a scratch that is clean above its bits puts the value
\* there.
LEMMA OrShiftedBits ==
    ASSUME NEW s \in Scratch, NEW k \in 0 .. WordBits - 1, NEW v \in Seq(Bit),
           Len(v) <= WordBits, \A i \in 0 .. ScratchBits - 1 : i >= k => s[i] = 0
    PROVE  /\ \A i \in 0 .. k - 1 : OrShifted(s, v, k)[i] = s[i]
           /\ \A i \in 0 .. Len(v) - 1 : OrShifted(s, v, k)[k + i] = v[i + 1]
  <1>1. \A i \in 0 .. k - 1 : OrShifted(s, v, k)[i] = s[i]
    BY WordBitsPos DEF OrShifted
  <1>2. ASSUME NEW i \in 0 .. Len(v) - 1
        PROVE  OrShifted(s, v, k)[k + i] = v[i + 1]
    <2>1. k + i \in 0 .. ScratchBits - 1 /\ i + 1 \in 1 .. Len(v)
      BY WordBitsPos
    <2>2. v[i + 1] = 0 \/ v[i + 1] = 1
      BY <2>1 DEF Bit
    <2>3. s[k + i] = 0
      BY <2>1
    <2>4. OrShifted(s, v, k)[k + i] = IF v[i + 1] = 1 THEN 1 ELSE s[k + i]
      <3>1. k + i >= k /\ k + i < k + Len(v) /\ k + i - k + 1 = i + 1
        BY <2>1
      <3>2. QED
        BY <2>1, <3>1 DEF OrShifted
    <2>5. QED
      BY <2>2, <2>3, <2>4
  <1>3. QED
    BY <1>1, <1>2

\* A half of a value is appended, also when its word is flushed.
LEMMA PutHalfContent ==
    ASSUME NEW size \in Nat, NEW o, OutOK(o, size),
           NEW v \in Seq(Bit), Len(v) <= WordBits,
           Position(o) + Len(v) <= size * WordBits
    PROVE  Appended(o, PutHalf(o, v), v)
  <1>a. PICK s : s = OrShifted(o.scratch, v, o.scratchIndex)
    OBVIOUS
  <1>b. PICK k : k = o.scratchIndex
    OBVIOUS
  <1>c. PICK a : a = o.wordsIndex * WordBits
    OBVIOUS
  <1>d. PICK p : p = [o EXCEPT !.scratch = s, !.scratchIndex = k + Len(v)]
    OBVIOUS
  <1>e. PICK m : m = size * WordBits
    OBVIOUS
  <1>1. /\ o \in Out(size) /\ o.scratch \in Scratch /\ o.wordsIndex \in Nat
        /\ k \in 0 .. WordBits - 1 /\ a \in Nat /\ Len(v) \in Nat /\ m \in Nat
        /\ \A i \in 0 .. ScratchBits - 1 : i >= k => o.scratch[i] = 0
        /\ o.words \in [0 .. m - 1 -> Bit]
        /\ Position(o) = a + k /\ a + k + Len(v) <= m
    <2>1. /\ o \in Out(size) /\ o.scratch \in Scratch /\ o.wordsIndex \in Nat
          /\ o.words \in Memory(size)
          /\ k \in 0 .. WordBits - 1
          /\ \A i \in 0 .. ScratchBits - 1 : i >= k => o.scratch[i] = 0
      BY <1>b DEF OutOK, Out
    <2>2. a \in Nat /\ m \in Nat /\ Len(v) \in Nat
      BY <1>c, <1>e, <2>1, WordBitsPos
    <2>3. o.words \in [0 .. m - 1 -> Bit]
      BY <1>e, <2>1 DEF Memory
    <2>4. Position(o) = a + k
      BY <1>b, <1>c DEF Position
    <2>5. QED
      BY <1>e, <2>1, <2>2, <2>3, <2>4
  <1>2. /\ \A i \in 0 .. k - 1 : s[i] = o.scratch[i]
        /\ \A i \in 0 .. Len(v) - 1 : s[k + i] = v[i + 1]
    BY <1>1, <1>a, <1>b, OrShiftedBits
  <1>3. s \in Scratch
    BY <1>1, <1>a, <1>b, OrShiftedTyped
  <1>w. /\ WordBits \in Nat /\ WordBits > 0 /\ ScratchBits = 2 * WordBits
        /\ k \in Nat /\ k < WordBits /\ Len(v) \in Nat /\ Len(v) <= WordBits
        /\ a \in Nat /\ m \in Nat /\ a + k + Len(v) <= m
    BY <1>1, WordBitsPos
  <1>4. /\ p.scratch = s /\ p.scratchIndex = k + Len(v)
        /\ p.wordsIndex = o.wordsIndex /\ p.words = o.words
    BY <1>1, <1>d DEF Out
  <1>5. PutHalf(o, v) = IF k + Len(v) >= WordBits THEN FlushWord(p) ELSE p
    BY <1>4, <1>a, <1>b, <1>d, Zenon DEF PutHalf, FlushIfScratchOverflow
  <1>q. PICK q : q = PutHalf(o, v)
    OBVIOUS
  <1>6. \A i \in 0 .. a + k + Len(v) - 1 :
          BitOf(q, i) = IF i < a THEN o.words[i] ELSE s[i - a]
    <2>1. CASE k + Len(v) < WordBits
      <3>1. q = p
        BY <1>q, <1>w, <1>5, <2>1
      <3>2. QED
        BY <1>4, <1>c, <3>1 DEF BitOf
    <2>2. CASE k + Len(v) >= WordBits
      <3>1. PICK r : r = FlushWord(p)
        OBVIOUS
      <3>2. /\ r.words = [i \in DOMAIN o.words |->
                            IF i >= a /\ i < a + WordBits THEN s[i - a] ELSE o.words[i]]
            /\ r.wordsIndex = o.wordsIndex + 1
            /\ r.scratch = ShiftRight(s, WordBits)
        <4>1. p \in [scratch : Scratch, scratchIndex : Int, words : Memory(size),
                     wordsIndex : Nat, usedBits : Nat]
          <5>1. k + Len(v) \in Int
            BY <1>1
          <5>2. [o EXCEPT !.scratch = s, !.scratchIndex = k + Len(v)] \in Out(size)
            BY <1>1, <1>3, <5>1 DEF Out
          <5>3. QED
            BY <1>d, <5>2, Zenon DEF Out
        <4>2. p \in Out(size) /\ size \in Nat
          BY <4>1, Zenon DEF Out
        <4>3. QED
          BY <1>4, <1>c, <3>1, <4>2, FlushWordFields
      <3>3. r.wordsIndex * WordBits = a + WordBits
        BY <1>1, <1>c, <3>2, NextWord
      <3>4. ASSUME NEW i \in 0 .. a + k + Len(v) - 1
            PROVE  BitOf(r, i) = IF i < a THEN o.words[i] ELSE s[i - a]
        <4>1. i \in 0 .. m - 1 /\ i \in DOMAIN o.words /\ i \in Int
          <5>1. i \in 0 .. m - 1 /\ i \in Int
            BY <1>w
          <5>2. DOMAIN o.words = 0 .. m - 1
            BY <1>1
          <5>3. QED
            BY <5>1, <5>2
        <4>2. CASE i < a + WordBits
          <5>1. BitOf(r, i) = r.words[i]
            BY <3>3, <4>2 DEF BitOf
          <5>2. r.words[i] = IF i >= a /\ i < a + WordBits THEN s[i - a] ELSE o.words[i]
            BY <3>2, <4>1
          <5>3. QED
            BY <1>1, <4>1, <4>2, <5>1, <5>2
        <4>3. CASE i >= a + WordBits
          <5>1. BitOf(r, i) = r.scratch[i - (a + WordBits)]
            <6>1. PICK x \in Int : x = a + WordBits
              BY <1>w
            <6>2. ~(i < x)
              BY <4>1, <4>3, <6>1
            <6>3. BitOf(r, i) = r.scratch[i - x]
              BY <3>3, <6>1, <6>2, Zenon DEF BitOf
            <6>4. QED
              BY <6>1, <6>3
          <5>2. /\ i - (a + WordBits) \in 0 .. ScratchBits - 1
                /\ i - (a + WordBits) + WordBits = i - a
                /\ i - a < ScratchBits
            BY <1>w, <3>4, <4>3
          <5>3. r.scratch[i - (a + WordBits)] = s[i - a]
            BY <3>2, <5>2 DEF ShiftRight
          <5>4. QED
            BY <1>w, <4>1, <4>3, <5>1, <5>3
        <4>4. QED
          BY <1>w, <4>1, <4>2, <4>3
      <3>5. QED
        BY <1>q, <1>5, <2>2, <3>1, <3>4
    <2>3. QED
      BY <1>w, <2>1, <2>2
  <1>7. ASSUME NEW i \in 0 .. Position(o) - 1
        PROVE  BitOf(q, i) = BitOf(o, i)
    <2>1. i \in 0 .. a + k + Len(v) - 1 /\ i < a + k
      BY <1>1, <1>w
    <2>2. BitOf(o, i) = IF i < a THEN o.words[i] ELSE o.scratch[i - a]
      BY <1>c DEF BitOf
    <2>3. ~(i < a) => i - a \in 0 .. k - 1
      BY <1>w, <2>1
    <2>4. ~(i < a) => s[i - a] = o.scratch[i - a]
      BY <1>2, <2>3
    <2>5. BitOf(q, i) = IF i < a THEN o.words[i] ELSE s[i - a]
      BY <1>6, <2>1
    <2>6. QED
      BY <2>2, <2>4, <2>5
  <1>8. ASSUME NEW i \in 0 .. Len(v) - 1
        PROVE  BitOf(q, Position(o) + i) = v[i + 1]
    <2>1. PICK j : j = a + k + i
      OBVIOUS
    <2>2. j \in 0 .. a + k + Len(v) - 1 /\ ~(j < a) /\ j - a = k + i
      BY <1>w, <2>1
    <2>3. BitOf(q, j) = s[k + i]
      BY <1>6, <2>2
    <2>4. Position(o) + i = j
      BY <1>1, <2>1
    <2>5. QED
      BY <1>2, <2>3, <2>4
  <1>9. QED
    BY <1>q, <1>7, <1>8 DEF Appended

\* do_write appends the value, in one half or in two.
LEMMA DoWriteContent ==
    ASSUME NEW size \in Nat, NEW o, OutOK(o, size), NEW v \in Value,
           o.usedBits + Len(v) < SizeMod,
           Position(o) + Len(v) <= size * WordBits
    PROVE  Appended(o, DoWrite(o, v), v)
  <1>1. PICK low : low = PutHalf(o, LowHalf(v))
    OBVIOUS
  <1>2. PICK all : all = IF Len(v) > WordBits THEN PutHalf(low, HighHalf(v)) ELSE low
    OBVIOUS
  <1>3. /\ v \in Seq(Bit) /\ Len(v) \in Nat /\ Position(o) \in Int
        /\ size * WordBits \in Nat /\ WordBits \in Nat
    BY HalvesOK, WordBitsPos DEF OutOK, Out, Position
  <1>4. /\ LowHalf(v) \in Seq(Bit) /\ Len(LowHalf(v)) <= WordBits
        /\ Len(LowHalf(v)) \in Nat /\ Len(LowHalf(v)) <= Len(v)
    BY <1>3, HalvesOK
  <1>5. Appended(o, low, LowHalf(v))
    BY <1>1, <1>3, <1>4, PutHalfContent
  <1>6. /\ OutOK(low, size) /\ Position(low) = Position(o) + Len(LowHalf(v))
    BY <1>1, <1>4, PutHalfOK
  <1>7. Appended(o, all, v)
    <2>1. CASE Len(v) <= WordBits
      BY <1>2, <1>3, <1>5, <2>1, HalvesOK
    <2>2. CASE Len(v) > WordBits
      <3>1. /\ Len(LowHalf(v)) = WordBits
            /\ HighHalf(v) \in Seq(Bit) /\ Len(HighHalf(v)) = Len(v) - WordBits
            /\ Len(HighHalf(v)) <= WordBits
        BY <2>2, HalvesOK
      <3>2. Position(low) + Len(HighHalf(v)) <= size * WordBits
        BY <1>3, <1>6, <3>1
      <3>3. Appended(low, all, HighHalf(v))
        BY <1>2, <1>6, <2>2, <3>1, <3>2, PutHalfContent
      <3>4. /\ \A i \in 1 .. WordBits : LowHalf(v)[i] = v[i]
            /\ \A i \in 1 .. Len(v) - WordBits : HighHalf(v)[i] = v[WordBits + i]
        BY <1>3, <2>2, SubSeqProperties DEF LowHalf, HighHalf
      <3>5. PICK b : b = Position(o)
        OBVIOUS
      <3>6. /\ \A i \in 0 .. b - 1 : BitOf(low, i) = BitOf(o, i)
            /\ \A i \in 0 .. WordBits - 1 : BitOf(low, b + i) = v[i + 1]
        BY <1>3, <1>5, <3>1, <3>4, <3>5 DEF Appended
      <3>7. /\ \A i \in 0 .. b + WordBits - 1 : BitOf(all, i) = BitOf(low, i)
            /\ \A i \in 0 .. Len(v) - WordBits - 1 :
                 BitOf(all, b + WordBits + i) = v[WordBits + i + 1]
        <4>1. Position(low) = b + WordBits
          BY <1>6, <3>1, <3>5
        <4>2. /\ \A i \in 0 .. b + WordBits - 1 : BitOf(all, i) = BitOf(low, i)
              /\ \A i \in 0 .. Len(v) - WordBits - 1 :
                   BitOf(all, b + WordBits + i) = HighHalf(v)[i + 1]
          <5>1. /\ \A i \in 0 .. Position(low) - 1 : BitOf(all, i) = BitOf(low, i)
                /\ \A i \in 0 .. Len(HighHalf(v)) - 1 :
                     BitOf(all, Position(low) + i) = HighHalf(v)[i + 1]
            BY <3>3, Zenon DEF Appended
          <5>2. QED
            BY <1>3, <3>1, <3>5, <4>1, <5>1
        <4>3. ASSUME NEW i \in 0 .. Len(v) - WordBits - 1
              PROVE  HighHalf(v)[i + 1] = v[WordBits + i + 1]
          <5>1. PICK j : j = i + 1
            OBVIOUS
          <5>2. j \in 1 .. Len(v) - WordBits /\ WordBits + i + 1 = WordBits + j
            BY <1>3, <5>1
          <5>3. QED
            BY <3>4, <5>1, <5>2
        <4>4. QED
          BY <4>2, <4>3
      <3>8. b \in Nat
        BY <1>3, <3>5, WordBitsPos DEF OutOK, Out, Position
      <3>9. ASSUME NEW i \in 0 .. Len(v) - 1
            PROVE  BitOf(all, b + i) = v[i + 1]
        <4>1. CASE i < WordBits
          <5>1. b + i \in 0 .. b + WordBits - 1 /\ i \in 0 .. WordBits - 1
            BY <1>3, <3>8, <4>1
          <5>2. QED
            BY <3>6, <3>7, <5>1
        <4>2. CASE ~(i < WordBits)
          <5>1. PICK j : j = i - WordBits
            OBVIOUS
          <5>2. /\ j \in 0 .. Len(v) - WordBits - 1
                /\ b + i = b + WordBits + j /\ WordBits + j + 1 = i + 1
            BY <1>3, <3>8, <4>2, <5>1
          <5>3. QED
            BY <3>7, <5>2
        <4>3. QED
          BY <4>1, <4>2
      <3>10. \A i \in 0 .. b - 1 : BitOf(all, i) = BitOf(o, i)
        BY <1>3, <3>6, <3>7, <3>8
      <3>11. QED
        BY <3>5, <3>9, <3>10 DEF Appended
    <2>3. QED
      BY <1>3, <2>1, <2>2
  <1>8. OutOK(all, size)
    <2>1. CASE Len(v) <= WordBits
      BY <1>2, <1>3, <1>6, <2>1
    <2>2. CASE Len(v) > WordBits
      BY <1>2, <1>6, <2>2, HalvesOK, PutHalfOK
    <2>3. QED
      BY <1>3, <2>1, <2>2
  <1>9. PICK n : n = Wrap(all.usedBits + Len(v))
    OBVIOUS
  <1>10. PICK r : r = [all EXCEPT !.usedBits = n]
    OBVIOUS
  <1>11. DoWrite(o, v) = r
    BY <1>1, <1>2, <1>9, <1>10 DEF DoWrite
  <1>12. /\ r.words = all.words /\ r.wordsIndex = all.wordsIndex
         /\ r.scratch = all.scratch
    BY <1>8, <1>10 DEF OutOK, Out
  <1>13. \A i : BitOf(r, i) = BitOf(all, i)
    BY <1>12 DEF BitOf
  <1>14. QED
    BY <1>7, <1>11, <1>13 DEF Appended

-----------------------------------------------------------------------------
\* The bits of o are those of w.
Content(o, w) == /\ Len(w) = o.usedBits
                 /\ \A i \in 0 .. Len(w) - 1 : BitOf(o, i) = w[i + 1]

ContentInv == Content(out, written)

LEMMA AppendContent ==
    ASSUME NEW w \in Seq(Bit), NEW v \in Seq(Bit), NEW o, NEW p, Content(o, w),
           Position(o) = o.usedBits, Appended(o, p, v), p.usedBits = o.usedBits + Len(v)
    PROVE  Content(p, w \o v)
  <1>1. /\ Len(w) \in Nat /\ Len(v) \in Nat /\ Len(w \o v) = Len(w) + Len(v)
        /\ \A i \in 1 .. Len(w) : (w \o v)[i] = w[i]
        /\ \A i \in 1 .. Len(v) : (w \o v)[Len(w) + i] = v[i]
    BY ConcatProperties
  <1>2. PICK n : n = Len(w)
    OBVIOUS
  <1>3. /\ \A i \in 0 .. n - 1 : BitOf(o, i) = w[i + 1]
        /\ \A i \in 0 .. n - 1 : BitOf(p, i) = BitOf(o, i)
        /\ \A i \in 0 .. Len(v) - 1 : BitOf(p, n + i) = v[i + 1]
        /\ p.usedBits = n + Len(v) /\ n \in Nat
    BY <1>1, <1>2 DEF Content, Appended
  <1>4. ASSUME NEW i \in 0 .. n + Len(v) - 1
        PROVE  BitOf(p, i) = (w \o v)[i + 1]
    <2>1. CASE i < n
      <3>1. i \in 0 .. n - 1 /\ i + 1 \in 1 .. Len(w)
        BY <1>2, <1>3, <2>1
      <3>2. QED
        BY <1>1, <1>3, <3>1
    <2>2. CASE ~(i < n)
      <3>1. PICK j : j = i - n
        OBVIOUS
      <3>2. /\ j \in 0 .. Len(v) - 1 /\ i = n + j
            /\ i + 1 = Len(w) + (j + 1) /\ j + 1 \in 1 .. Len(v)
        BY <1>1, <1>2, <1>3, <2>2, <3>1
      <3>3. QED
        BY <1>1, <1>3, <3>2
    <2>3. QED
      BY <2>1, <2>2
  <1>5. QED
    BY <1>1, <1>2, <1>3, <1>4 DEF Content

\* A value that was accepted is appended to what the stream holds.
LEMMA AcceptContent ==
    ASSUME NEW size \in Nat, NEW o, OutOK(o, size), NEW w \in Seq(Bit), Content(o, w),
           Position(o) = o.usedBits, NEW v \in Value,
           o.usedBits + Len(v) < SizeMod, o.usedBits + Len(v) <= size * WordBits
    PROVE  Content(DoWrite(o, v), w \o v)
  BY DoWriteOK, DoWriteContent, AppendContent, HalvesOK

LEMMA FlushFinalContent ==
    ASSUME WriterInv, ContentInv, FlushFinal
    PROVE  ContentInv'
  <1>1. PICK a : a = out.wordsIndex * WordBits
    OBVIOUS
  <1>2. PICK k : k = out.scratchIndex
    OBVIOUS
  <1>3. PICK m : m = wordsSize * WordBits
    OBVIOUS
  <1>4. /\ ~finalFlushed /\ ~fail /\ UNCHANGED written
        /\ out' = IF k > 0 THEN FlushWord(out) ELSE out
    BY <1>2 DEF FlushFinal
  <1>5. /\ out \in Out(wordsSize) /\ a \in Nat /\ m \in Nat
        /\ k \in 0 .. WordBits - 1 /\ WordBits \in Nat
        /\ out.wordsIndex \in Nat
        /\ out.usedBits = a + k
    BY <1>1, <1>2, <1>3, <1>4, WordBitsPos
       DEF WriterInv, TypeOK, OutOK, Out, CursorsAgree
  <1>6. out.words \in [0 .. m - 1 -> Bit]
    BY <1>3, <1>5 DEF Out, Memory
  <1>7. out.usedBits <= m
    <2>1. /\ out.usedBits + left * unit <= totalBits /\ totalBits <= m
      BY <1>3, <1>4 DEF WriterInv, LoopFits, ConfigInv
    <2>2. left * unit \in Nat /\ totalBits \in Nat
      BY LoopProduct DEF WriterInv, TypeOK
    <2>3. QED
      BY <1>5, <2>1, <2>2
  <1>8. \A i \in 0 .. a + k - 1 : BitOf(out', i) = BitOf(out, i)
    <2>1. CASE k = 0
      BY <1>4, <2>1
    <2>2. CASE k > 0
      <3>1. PICK r : r = FlushWord(out)
        OBVIOUS
      <3>2. /\ r.words = [i \in DOMAIN out.words |->
                            IF i >= a /\ i < a + WordBits
                            THEN out.scratch[i - a] ELSE out.words[i]]
            /\ r.wordsIndex = out.wordsIndex + 1
        <4>1. out \in Out(wordsSize) /\ wordsSize \in Nat
          BY <1>5 DEF WriterInv, TypeOK
        <4>2. QED
          BY <1>1, <3>1, <4>1, FlushWordFields, Zenon
      <3>3. r.wordsIndex * WordBits = a + WordBits
        BY <1>1, <1>5, <3>2, NextWord
      <3>4. ASSUME NEW i \in 0 .. a + k - 1
            PROVE  BitOf(r, i) = BitOf(out, i)
        <4>1. i \in Nat /\ i < a + WordBits /\ i \in 0 .. m - 1
          BY <1>5, <1>7
        <4>2. BitOf(r, i) = r.words[i]
          BY <3>3, <4>1 DEF BitOf
        <4>3. r.words[i] = IF i >= a THEN out.scratch[i - a] ELSE out.words[i]
          BY <1>6, <3>2, <4>1
        <4>4. BitOf(out, i) = IF i < a THEN out.words[i] ELSE out.scratch[i - a]
          BY <1>1 DEF BitOf
        <4>5. QED
          BY <1>5, <4>1, <4>2, <4>3, <4>4
      <3>5. QED
        BY <1>4, <2>2, <3>1, <3>4
    <2>3. QED
      BY <1>5, <2>1, <2>2
  <1>9. out'.usedBits = out.usedBits
    <2>1. wordsSize \in Nat
      BY DEF WriterInv, TypeOK
    <2>2. FlushWord(out).usedBits = out.usedBits
      BY <1>5, <2>1, FlushWordFields
    <2>3. QED
      BY <1>4, <2>2, Zenon
  <1>10. QED
    BY <1>4, <1>5, <1>8, <1>9 DEF ContentInv, Content

\* Every step of the writer keeps the content.
LEMMA ContentStep ==
    NoWrap /\ WriterInv /\ WriterInv' /\ ContentInv /\ [Next]_vars => ContentInv'
  <1> SUFFICES ASSUME NoWrap, WriterInv, WriterInv', ContentInv, [Next]_vars
               PROVE  ContentInv'
    OBVIOUS
  <1>0. /\ written \in Seq(Bit) /\ OutOK(out, wordsSize) /\ wordsSize \in Nat
        /\ out.usedBits \in Nat /\ wordsSize * WordBits \in Nat
        /\ SizeMod \in Nat
    BY WordBitsPos, SizeModAssumption DEF WriterInv, TypeOK, Out
  <1>1. ASSUME NEW words, NEW f, Restarted(words, f) PROVE ContentInv'
    BY <1>1 DEF Restarted, ContentInv, Content
  <1>2. ASSUME UNCHANGED <<out, written>> PROVE ContentInv'
    BY <1>2 DEF ContentInv
  <1>3. ~fail /\ ~finalFlushed => Position(out) = out.usedBits
    BY DEF WriterInv, CursorsAgree, Position
  <1>4. ASSUME NEW v \in Values, Write(v) PROVE ContentInv'
    <2>1. CASE finalFlushed \/ Overflows(Len(v))
      BY <1>2, <1>4, <2>1 DEF Write, Refuse
    <2>2. CASE ~finalFlushed /\ ~Overflows(Len(v))
      <3>1. /\ Idle /\ ~fail /\ out' = DoWrite(out, v) /\ written' = written \o v
        BY <1>4, <2>2 DEF Write
      <3>2. v \in Value /\ Len(v) \in Nat /\ Len(v) <= ScratchBits
        BY ValuesAssumption, HalvesOK
      <3>3. out.usedBits + Len(v) < SizeMod
        BY <1>0, <2>2, <3>1, <3>2, AcceptedFits, WordBitsPos
      <3>4. out.usedBits + Len(v) <= totalBits
        <4>1. PICK n \in Nat : n = out.usedBits + Len(v)
          BY <1>0, <3>2
        <4>2. Wrap(n) = n
          BY <1>0, <3>3, <4>1, WrapSmall
        <4>3. totalBits \in Nat
          BY DEF WriterInv, TypeOK
        <4>4. ~(Wrap(n) > totalBits)
          BY <2>2, <4>1 DEF Overflows
        <4>5. QED
          BY <4>1, <4>2, <4>3, <4>4
      <3>5. out.usedBits + Len(v) <= wordsSize * WordBits
        BY <1>0, <2>2, <3>1, <3>2, <3>4, AcceptedFits
      <3>6. QED
        BY <1>0, <1>3, <2>2, <3>1, <3>2, <3>3, <3>5, AcceptContent DEF ContentInv
    <2>3. QED
      BY <2>1, <2>2
  <1>5. ASSUME NEW size \in ByteCounts, WriteBytes(size) PROVE ContentInv'
    BY <1>2, <1>5 DEF WriteBytes, Refuse
  <1>6. ASSUME PutNext PROVE ContentInv'
    <2>1. PICK v \in [1 .. unit -> Bit] :
            out' = DoWrite(out, v) /\ written' = written \o v
      BY <1>6 DEF PutNext
    <2>2. /\ left \in Nat /\ left > 0 /\ unit \in Nat /\ unit <= WordBits
          /\ ~initFail /\ ~fail /\ ~finalFlushed /\ totalBits \in Nat
          /\ out.usedBits + left * unit <= totalBits
          /\ totalBits <= wordsSize * WordBits
      BY <1>6 DEF PutNext, WriterInv, TypeOK, ConfigInv, LoopFits
    <2>3. v \in Value /\ Len(v) = unit
      BY <2>2, WordBitsPos DEF Value
    <2>4. left * unit \in Nat /\ left * unit >= unit
      BY <2>2, LoopProduct
    <2>5. totalBits + ScratchBits < SizeMod
      BY DEF NoWrap, WriterInv, ConfigInv
    <2>6. /\ out.usedBits + Len(v) <= wordsSize * WordBits
          /\ out.usedBits + Len(v) < SizeMod
      <3>1. PICK room \in Nat, rest \in Nat, used \in Nat :
              /\ room = wordsSize * WordBits /\ rest = left * unit
              /\ used = out.usedBits
        BY <1>0, <2>4, WordBitsPos
      <3>2. PICK scratch \in Nat : scratch = ScratchBits
        BY WordBitsPos
      <3>3. used + unit <= room
        BY <2>2, <2>4, <3>1
      <3>4. used + unit < SizeMod
        BY <2>2, <2>5, <3>1, <3>2, <3>3, SizeModAssumption
      <3>5. QED
        BY <2>3, <3>1, <3>3, <3>4
    <2>7. QED
      BY <1>0, <1>3, <2>1, <2>2, <2>3, <2>6, AcceptContent DEF ContentInv
  <1>7. ASSUME NEW len \in StringLens, NEW c \in CharBytes, WriteString(len, c)
        PROVE  ContentInv'
    <2>1. len \in Nat /\ c \in Nat
      BY CountsAssumption, CharBytesAssumption
    <2>2. PICK k : k = LengthPrefix(len)
      OBVIOUS
    <2>3. k \in Nat /\ PrefixBits(k) \in Nat /\ PrefixBits(k) <= ScratchBits
      BY <2>1, <2>2, PrefixOK
    <2>4. PICK first : first = ToBits(k, PrefixPrefixBits)
      OBVIOUS
    <2>5. PICK second : second = ToBits(len, PrefixBits(k))
      OBVIOUS
    <2>6. /\ first \in Value /\ first \in Seq(Bit) /\ Len(first) = 2
          /\ second \in Value /\ second \in Seq(Bit) /\ Len(second) = PrefixBits(k)
      <3>1. 2 <= ScratchBits
        BY ByteBitsAssumption DEF ScratchBits, WordBits, WordBytes
      <3>2. first \in Value /\ Len(first) = 2
        BY <2>3, <2>4, <3>1, ToBitsOK DEF PrefixPrefixBits
      <3>3. second \in Value /\ Len(second) = PrefixBits(k)
        BY <2>1, <2>3, <2>5, ToBitsOK
      <3>4. QED
        BY <3>2, <3>3 DEF Value
    <2>7. PICK chars : chars = ByteBits * (len * c)
      OBVIOUS
    <2>8. chars \in Nat
      BY <2>1, <2>7, ByteBitsAssumption
    <2>9. PICK bits : bits = PrefixPrefixBits + PrefixBits(k) + chars
      OBVIOUS
    <2>10. CASE finalFlushed \/ out.usedBits + bits > totalBits
      BY <1>2, <1>7, <2>2, <2>7, <2>9, <2>10 DEF WriteString, Refuse
    <2>11. CASE ~(finalFlushed \/ out.usedBits + bits > totalBits)
      <3>1. /\ Idle /\ ~fail
            /\ out' = DoWrite(DoWrite(out, first), second)
            /\ written' = written \o first \o second
        BY <1>7, <2>2, <2>4, <2>5, <2>7, <2>9, <2>11 DEF WriteString
      <3>2. /\ totalBits + ScratchBits < SizeMod /\ totalBits \in Nat
            /\ totalBits <= wordsSize * WordBits
        BY <2>11, <3>1, AcceptedFits
      <3>3. /\ out.usedBits + 2 + PrefixBits(k) <= wordsSize * WordBits
            /\ out.usedBits + 2 + PrefixBits(k) < SizeMod
        <4>1. PICK prefix \in Nat : prefix = PrefixBits(k)
          BY <2>3
        <4>2. PICK used \in Nat : used = out.usedBits
          BY <2>11, <3>1, AcceptedFits
        <4>3. PICK room \in Nat : room = wordsSize * WordBits
          BY <2>11, <3>1, AcceptedFits
        <4>4. PICK scratch \in Nat : scratch = ScratchBits
          BY WordBitsPos
        <4>5. used + bits <= totalBits /\ bits = 2 + prefix + chars
          BY <2>8, <2>9, <2>11, <3>2, <4>1, <4>2 DEF PrefixPrefixBits
        <4>6. used + 2 + prefix <= totalBits
          BY <2>8, <3>2, <4>5
        <4>7. used + 2 + prefix <= room /\ used + 2 + prefix < SizeMod
          BY <3>2, <4>3, <4>4, <4>6, SizeModAssumption
        <4>8. QED
          BY <4>1, <4>2, <4>3, <4>7
      <3>4. PICK o : o = DoWrite(out, first)
        OBVIOUS
      <3>5. /\ out.usedBits + Len(first) < SizeMod
            /\ out.usedBits + Len(first) <= wordsSize * WordBits
        <4>1. PICK used \in Nat, prefix \in Nat : used = out.usedBits /\ prefix = PrefixBits(k)
          BY <2>3, <2>11, <3>1, AcceptedFits
        <4>2. PICK room \in Nat : room = wordsSize * WordBits
          BY <2>11, <3>1, AcceptedFits
        <4>3. used + 2 + prefix <= room /\ used + 2 + prefix < SizeMod
          BY <3>3, <4>1, <4>2
        <4>4. used + 2 <= room /\ used + 2 < SizeMod
          BY <4>3, SizeModAssumption
        <4>5. QED
          BY <2>6, <4>1, <4>2, <4>4
      <3>6. /\ OutOK(o, wordsSize) /\ Content(o, written \o first)
            /\ Position(o) = Position(out) + 2
            /\ o.usedBits = out.usedBits + 2
        <4>1. /\ OutOK(out, wordsSize) /\ wordsSize \in Nat /\ written \in Seq(Bit)
              /\ Position(out) = out.usedBits /\ first \in Value
          BY <1>0, <1>3, <2>6, <2>11, <3>1
        <4>2. OutOK(o, wordsSize) /\ Position(o) = Position(out) + 2
              /\ o.usedBits = out.usedBits + 2
          BY <2>6, <3>4, <3>5, <4>1, DoWriteOK
        <4>3. Content(DoWrite(out, first), written \o first)
          BY <3>5, <4>1, AcceptContent DEF ContentInv
        <4>4. QED
          BY <3>4, <4>2, <4>3
      <3>7. Position(o) = o.usedBits
        BY <1>3, <2>11, <3>1, <3>6
      <3>8. written \o first \in Seq(Bit)
        BY <1>0, <2>6
      <3>9. /\ o.usedBits + Len(second) < SizeMod
            /\ o.usedBits + Len(second) <= wordsSize * WordBits
        BY <2>6, <3>3, <3>6
      <3>10. QED
        BY <1>0, <2>6, <3>1, <3>4, <3>6, <3>7, <3>8, <3>9, AcceptContent DEF ContentInv
    <2>12. QED
      BY <2>10, <2>11
  <1>8. CASE Restart \/ Reset
    BY <1>1, <1>8 DEF Restart, Reset
  <1>9. ASSUME NEW n, NEW isNull, NEW l, ResetWith(n, isNull, l) PROVE ContentInv'
    BY <1>1, <1>9 DEF ResetWith
  <1>10. QED
    BY <1>2, <1>4, <1>5, <1>6, <1>7, <1>8, <1>9, FlushFinalContent
       DEF Next, SetFail, vars

LEMMA ContentInvariant == NoWrap => (Spec => [](WriterInv /\ ContentInv))
  <1> SUFFICES ASSUME NoWrap PROVE Spec => [](WriterInv /\ ContentInv)
    OBVIOUS
  <1>1. Init => ContentInv
    BY DEF Init, ContentInv, Content
  <1>2. WriterInv /\ WriterInv' /\ ContentInv /\ [Next]_vars => ContentInv'
    BY ContentStep
  <1>3. QED
    BY <1>1, <1>2, InductiveInvariant, PTL DEF Spec

\* The stream is the sequence of bits that Content speaks of.
LEMMA ContentIs ==
    ASSUME NEW o, NEW w \in Seq(Bit), Content(o, w)
    PROVE  [i \in 1 .. o.usedBits |-> BitOf(o, i - 1)] = w
  <1>1. Len(w) = o.usedBits /\ \A i \in 0 .. Len(w) - 1 : BitOf(o, i) = w[i + 1]
    BY DEF Content
  <1>2. ASSUME NEW i \in 1 .. Len(w) PROVE BitOf(o, i - 1) = w[i]
    <2>1. PICK j : j = i - 1
      OBVIOUS
    <2>2. j \in 0 .. Len(w) - 1 /\ j + 1 = i
      BY <2>1
    <2>3. QED
      BY <1>1, <2>1, <2>2
  <1>3. w = [i \in 1 .. Len(w) |-> w[i]]
    OBVIOUS
  <1>4. QED
    BY <1>1, <1>2, <1>3

LEMMA StreamIsContent ==
    /\ WriterInv /\ ContentInv => Stream = written
    /\ WriterInv' /\ ContentInv' => Stream' = written'
  <1>1. ASSUME WriterInv, ContentInv PROVE Stream = written
    <2>1. [i \in 1 .. out.usedBits |-> BitOf(out, i - 1)] = written
      BY <1>1, ContentIs DEF ContentInv, WriterInv, TypeOK
    <2>2. QED
      BY <2>1 DEF Stream, BitAt, BitOf
  <1>2. ASSUME WriterInv', ContentInv' PROVE Stream' = written'
    <2>1. [i \in 1 .. out'.usedBits |-> BitOf(out', i - 1)] = written'
      BY <1>2, ContentIs DEF ContentInv, WriterInv, TypeOK
    <2>2. QED
      BY <2>1 DEF Stream, BitAt, BitOf
  <1>3. QED
    BY <1>1, <1>2

\* Whatever is written in whatever order, the words and the scratch hold the
\* bits of the accepted writes, in their order, and the final flush brings the
\* last of them to the words: no bit is lost, moved or overwritten.
THEOREM StreamCorrect == ASSUME NoWrap PROVE Spec => []StreamIsWritten
  <1>1. WriterInv /\ ContentInv => StreamIsWritten
    BY StreamIsContent DEF StreamIsWritten
  <1>2. QED
    BY <1>1, ContentInvariant, PTL

-----------------------------------------------------------------------------
(* The writer implements BitSink. *)

SinkStep == [Sink!Next]_(Sink!vars)

\* What a step of the writer may append to the stream.
Piece == {v \in Seq(Bit) : Len(v) <= PrefixPrefixBits + ScratchBits}

LEMMA AppendsPiece ==
    ASSUME NEW w \in Seq(Bit), NEW v \in Piece, Stream = w, Stream' = w \o v
    PROVE  Sink!Appends
  <1>1. /\ v \in Seq(Bit) /\ Len(w) \in Nat /\ Len(v) \in Nat /\ w \o v \in Seq(Bit)
        /\ Len(w \o v) = Len(w) + Len(v)
        /\ \A i \in 1 .. Len(w) : (w \o v)[i] = w[i]
        /\ \A i \in 1 .. Len(v) : (w \o v)[Len(w) + i] = v[i]
    BY ConcatProperties DEF Piece
  <1>2. SubSeq(w \o v, 1, Len(w)) = w
    <2>1. CASE w = <<>>
      BY <1>1, <2>1, SubSeqEmpty
    <2>2. CASE w # <<>>
      <3>1. 1 \in 1 .. Len(w) /\ Len(w) \in 1 .. Len(w)
        BY <1>1, <2>2, EmptySeq
      <3>2. QED
        BY <1>1, <3>1, SubSeqOfConcat1, SubSeqFull
    <2>3. QED
      BY <2>1, <2>2
  <1>3. SubSeq(w \o v, Len(w) + 1, Len(w \o v)) = v
    <2>1. CASE v = <<>>
      BY <1>1, <2>1, SubSeqEmpty
    <2>2. CASE v # <<>>
      <3>1. Len(w) + 1 \in Len(w) + 1 .. Len(w) + Len(v)
            /\ Len(w) + Len(v) \in Len(w) + 1 .. Len(w) + Len(v)
        BY <1>1, <2>2, EmptySeq
      <3>2. SubSeq(w \o v, Len(w) + 1, Len(w) + Len(v)) = SubSeq(v, 1, Len(v))
        <4>1. SubSeq(w \o v, Len(w) + 1, Len(w) + Len(v))
                = SubSeq(v, Len(w) + 1 - Len(w), Len(w) + Len(v) - Len(w))
          BY <1>1, <3>1, SubSeqOfConcat2
        <4>2. Len(w) + 1 - Len(w) = 1 /\ Len(w) + Len(v) - Len(w) = Len(v)
          BY <1>1
        <4>3. QED
          BY <4>1, <4>2
      <3>3. QED
        BY <1>1, <3>2, SubSeqFull
    <2>3. QED
      BY <2>1, <2>2
  <1>4. Len(w \o v) >= Len(w)
    BY <1>1
  <1>5. QED
    BY <1>2, <1>3, <1>4 DEF Sink!Appends, Piece

\* A write that is accepted appends its first bits; the rest has its room.
LEMMA BeginsPiece ==
    ASSUME WriterInv, WriterInv', ContentInv, ContentInv', Idle, ~fail, ~finalFlushed,
           NEW v \in Piece, written' = written \o v,
           UNCHANGED <<totalBits, fail, finalFlushed>>
    PROVE  SinkStep
  <1>1. Stream = written /\ Stream' = written'
    BY StreamIsContent
  <1>2. written \in Seq(Bit) /\ Sink!Appends
    BY <1>1, AppendsPiece DEF WriterInv, TypeOK
  <1>3. left * unit = 0
    BY DEF Idle, WriterInv, TypeOK
  <1>4. (left * unit)' \in 0 .. totalBits - Len(Stream')
    <2>1. left' \in Nat /\ unit' \in Nat /\ totalBits' \in Nat /\ out'.usedBits \in Nat
      BY DEF WriterInv, TypeOK, Out
    <2>2. out'.usedBits + left' * unit' <= totalBits'
      BY DEF WriterInv, ConfigInv, LoopFits
    <2>3. Len(Stream') = out'.usedBits
      BY <1>1 DEF ContentInv, Content
    <2>4. PICK rest \in Nat : rest = left' * unit'
      BY <2>1, LoopProduct
    <2>5. totalBits' = totalBits
      OBVIOUS
    <2>6. out'.usedBits + rest <= totalBits
      BY <2>2, <2>4, <2>5, Zenon
    <2>7. rest \in 0 .. totalBits - out'.usedBits
      BY <2>1, <2>5, <2>6
    <2>8. QED
      BY <2>3, <2>4, <2>7, Zenon
  <1>5. Sink!Begin
    BY <1>2, <1>3, <1>4 DEF Sink!Begin
  <1>6. QED
    BY <1>5, Zenon DEF SinkStep, Sink!Next

LEMMA RefusedFails ==
    ASSUME WriterInv, Idle, fail' = TRUE,
           UNCHANGED <<out, wordsSize, totalBits, finalFlushed, left, unit>>
    PROVE  SinkStep
  <1>1. left * unit = 0 /\ (left * unit)' = left * unit
    BY DEF Idle, WriterInv, TypeOK
  <1>2. Stream' = Stream
    BY DEF Stream, BitAt
  <1>3. Sink!Fail
    BY <1>1, <1>2 DEF Sink!Fail
  <1>4. QED
    BY <1>3, Zenon DEF SinkStep, Sink!Next

LEMMA StartsOver ==
    ASSUME WriterInv, WriterInv', ContentInv', Idle, UNCHANGED <<left, unit>>,
           NEW words, NEW f, Restarted(words, f)
    PROVE  SinkStep
  <1>1. left * unit = 0 /\ (left * unit)' = left * unit
    BY DEF Idle, WriterInv, TypeOK
  <1>2. Stream' = <<>> /\ finalFlushed' = FALSE
    BY StreamIsContent DEF Restarted
  <1>3. totalBits' \in Nat /\ fail' \in BOOLEAN
    BY DEF WriterInv, TypeOK
  <1>4. Sink!Open
    BY <1>1, <1>2, <1>3 DEF Sink!Open
  <1>5. QED
    BY <1>4, Zenon DEF SinkStep, Sink!Next

LEMMA ContinuesPiece ==
    ASSUME WriterInv, WriterInv', ContentInv, ContentInv', PutNext
    PROVE  SinkStep
  <1>1. PICK v \in [1 .. unit -> Bit] : written' = written \o v
    BY DEF PutNext
  <1>2. /\ left \in Nat /\ left > 0 /\ unit \in Nat /\ unit <= WordBits
        /\ left' = left - 1 /\ UNCHANGED <<totalBits, fail, finalFlushed, unit>>
        /\ written \in Seq(Bit)
    BY DEF PutNext, config, WriterInv, TypeOK
  <1>3. v \in Piece /\ Len(v) = unit /\ v \in Seq(Bit)
    BY <1>1, <1>2, WordBitsPos DEF Piece, PrefixPrefixBits
  <1>4. Stream = written /\ Stream' = written'
    BY StreamIsContent
  <1>5. Sink!Appends
    BY <1>1, <1>2, <1>3, <1>4, AppendsPiece
  <1>6. /\ left' * unit' = left * unit - unit /\ left * unit \in Nat
        /\ left * unit >= unit
    BY <1>2, LoopProduct
  <1>7. Len(Stream') = Len(Stream) + unit /\ Len(Stream) \in Nat
    <2>1. Len(written \o v) = Len(written) + Len(v) /\ Len(written) \in Nat
      <3>1. written \in Seq(Bit) /\ v \in Seq(Bit)
        BY <1>2, <1>3
      <3>2. QED
        BY <3>1, ConcatProperties
    <2>2. QED
      BY <1>1, <1>3, <1>4, <2>1
  <1>8. /\ (left * unit)' \in Nat
        /\ Len(Stream') + (left * unit)' = Len(Stream) + left * unit
    BY <1>2, <1>6, <1>7
  <1>9. Sink!Continue
    BY <1>2, <1>5, <1>8 DEF Sink!Continue
  <1>10. QED
    BY <1>9, Zenon DEF SinkStep, Sink!Next

LEMMA SinkSimulation ==
    NoWrap /\ WriterInv /\ WriterInv' /\ ContentInv /\ ContentInv' /\ [Next]_vars
      => SinkStep
  <1> SUFFICES ASSUME NoWrap, WriterInv, WriterInv', ContentInv, ContentInv', [Next]_vars
               PROVE  SinkStep
    OBVIOUS
  <1>1. ASSUME NEW v \in Values, Write(v) PROVE SinkStep
    <2>1. v \in Piece
      <3>1. v \in Seq(Bit) /\ Len(v) \in Nat /\ Len(v) <= ScratchBits
        BY ValuesAssumption, HalvesOK
      <3>2. QED
        BY <3>1, WordBitsPos DEF Piece, PrefixPrefixBits
    <2>2. QED
      BY <1>1, <2>1, RefusedFails, BeginsPiece DEF Write, Refuse, config
  <1>2. ASSUME NEW size \in ByteCounts, WriteBytes(size) PROVE SinkStep
    <2>1. CASE finalFlushed \/ Overflows(ByteBits * size)
      BY <1>2, <2>1, RefusedFails DEF WriteBytes, Refuse, config
    <2>2. CASE ~(finalFlushed \/ Overflows(ByteBits * size))
      <3>1. <<>> \in Piece /\ written' = written \o <<>>
        <4>1. written \in Seq(Bit) /\ written' = written
          BY <1>2, <2>2 DEF WriteBytes, WriterInv, TypeOK
        <4>2. <<>> \in Seq(Bit) /\ Len(<<>>) = 0
          OBVIOUS
        <4>3. QED
          BY <4>1, <4>2, ConcatEmptySeq, WordBitsPos DEF Piece, PrefixPrefixBits
      <3>2. QED
        BY <1>2, <2>2, <3>1, BeginsPiece DEF WriteBytes, config
    <2>3. QED
      BY <2>1, <2>2
  <1>3. ASSUME NEW len \in StringLens, NEW c \in CharBytes, WriteString(len, c)
        PROVE  SinkStep
    <2> DEFINE k == LengthPrefix(len)
               first == ToBits(k, PrefixPrefixBits)
               second == ToBits(len, PrefixBits(k))
               bits == PrefixPrefixBits + PrefixBits(k) + ByteBits * (len * c)
    <2>1. CASE finalFlushed \/ out.usedBits + bits > totalBits
      BY <1>3, <2>1, RefusedFails DEF WriteString, Refuse, config
    <2>2. CASE ~(finalFlushed \/ out.usedBits + bits > totalBits)
      <3>1. len \in Nat /\ k \in Nat /\ PrefixBits(k) \in Nat
            /\ PrefixBits(k) <= ScratchBits
        BY CountsAssumption, PrefixOK
      <3>2. 2 <= ScratchBits /\ ScratchBits \in Nat
        BY ByteBitsAssumption DEF ScratchBits, WordBits, WordBytes
      <3>3. /\ first \in Seq(Bit) /\ Len(first) = PrefixPrefixBits
            /\ second \in Seq(Bit) /\ Len(second) = PrefixBits(k)
        <4>1. first \in Value /\ Len(first) = PrefixPrefixBits
          BY <3>1, <3>2, ToBitsOK DEF PrefixPrefixBits
        <4>2. second \in Value /\ Len(second) = PrefixBits(k)
          BY <3>1, ToBitsOK
        <4>3. QED
          BY <4>1, <4>2 DEF Value
      <3> HIDE DEF first, second
      <3>4. first \o second \in Piece
        <4>1. /\ first \o second \in Seq(Bit)
              /\ Len(first \o second) = PrefixPrefixBits + PrefixBits(k)
          BY <3>3, ConcatProperties
        <4>2. PrefixPrefixBits + PrefixBits(k) <= PrefixPrefixBits + ScratchBits
          BY <3>1, <3>2 DEF PrefixPrefixBits
        <4>3. QED
          BY <4>1, <4>2 DEF Piece
      <3>5. /\ Idle /\ ~fail /\ ~finalFlushed
            /\ written' = written \o first \o second
            /\ UNCHANGED <<totalBits, fail, finalFlushed>>
        BY <1>3, <2>2 DEF WriteString, config, first, second
      <3>6. written' = written \o (first \o second)
        <4>1. written \in Seq(Bit)
          BY DEF WriterInv, TypeOK
        <4>2. written \o first \o second = written \o (first \o second)
          BY <3>3, <4>1, ConcatBits
        <4>3. QED
          BY <3>5, <4>2, Zenon
      <3>7. QED
        BY <3>4, <3>5, <3>6, BeginsPiece
    <2>3. QED
      BY <2>1, <2>2
  <1>4. CASE Restart \/ Reset
    BY <1>4, StartsOver DEF Restart, Reset
  <1>5. ASSUME NEW n, NEW isNull, NEW l, ResetWith(n, isNull, l) PROVE SinkStep
    BY <1>5, StartsOver DEF ResetWith
  <1>6. CASE SetFail
    BY <1>6, RefusedFails DEF SetFail, config
  <1>7. CASE FlushFinal
    <2>1. Stream = written /\ Stream' = written' /\ written' = written
      BY <1>7, StreamIsContent DEF FlushFinal
    <2>2. left * unit = 0 /\ (left * unit)' = left * unit
      BY <1>7 DEF FlushFinal, Idle, WriterInv, TypeOK
    <2>3. Sink!Close
      BY <1>7, <2>1, <2>2 DEF FlushFinal, config, Sink!Close
    <2>4. QED
      BY <2>3, Zenon DEF SinkStep, Sink!Next
  <1>8. CASE UNCHANGED vars
    <2>1. Stream' = Stream /\ (left * unit)' = left * unit
          /\ UNCHANGED <<totalBits, fail, finalFlushed>>
      BY <1>8 DEF vars, config, Stream, BitAt
    <2>2. QED
      BY <2>1 DEF SinkStep, Sink!vars
  <1>9. QED
    BY <1>1, <1>2, <1>3, <1>4, <1>5, <1>6, <1>7, <1>8, ContinuesPiece DEF Next

\* The writer implements BitSink for any buffers, values and strings: a refused
\* write, a failed stream and a closed one leave the stream alone, and no write
\* is cut in the middle.
THEOREM ImplementsSink == ASSUME NoWrap PROVE Spec => RefinesSink
  <1>1. Init => Sink!Init
    <2> SUFFICES ASSUME Init PROVE Sink!Init
      OBVIOUS
    <2>1. Stream = <<>>
      BY InvInit, StreamIsContent DEF Init, ContentInv, Content
    <2>2. left * unit = 0 /\ totalBits = 0 /\ fail = TRUE /\ finalFlushed = FALSE
      BY DEF Init
    <2>3. QED
      BY <2>1, <2>2 DEF Sink!Init
  <1>2. WriterInv /\ WriterInv' /\ ContentInv /\ ContentInv' /\ [Next]_vars
          => [Sink!Next]_(Sink!vars)
    BY SinkSimulation DEF SinkStep
  <1>3. QED
    BY <1>1, <1>2, ContentInvariant, PTL DEF Spec, RefinesSink, Sink!Spec


-----------------------------------------------------------------------------
(* The measurer, in lockstep with the writer, counts what the writer uses.    *)

\* The measurer watches: a writer that is measured is a writer, so that its
\* theorems hold here too.
LEMMA MeasuredStepIsStep == [MeasuredNext]_measuredVars => [Next]_vars
  BY DEF MeasuredNext, StartOver, MeasuredWrite, Unmeasured, Next, measuredVars

LEMMA MeasuredIsWriter == MeasuredSpec => Spec
  <1>1. MeasuredInit => Init
    BY DEF MeasuredInit
  <1>2. QED
    BY <1>1, MeasuredStepIsStep, PTL DEF MeasuredSpec, Spec

-----------------------------------------------------------------------------
(* The two choices of a prefix. *)

LEMMA FourPrefixes ==
    /\ PrefixBits(0) = ByteBits
    /\ PrefixBits(1) = 2 * ByteBits
    /\ PrefixBits(2) = 4 * ByteBits
    /\ PrefixBits(3) = 8 * ByteBits
  BY ByteBitsAssumption DEF PrefixBits

\* Of the widths that hold a length, the measurer and the writer take the same.
LEMMA PrefixesAgree ==
    ASSUME NEW len \in Nat
    PROVE  MeasuredPrefixBits(len) = PrefixBits(LengthPrefix(len))
  <1> DEFINE Fits(bits) == len < 2 ^ bits
             Widths == {ByteBits, 2 * ByteBits, 4 * ByteBits, 8 * ByteBits}
             Taken(bits) ==
               /\ bits = 8 * ByteBits \/ Fits(bits)
               /\ \A fewer \in {ByteBits, 2 * ByteBits, 4 * ByteBits} :
                    fewer < bits => ~Fits(fewer)
             Chosen(k) == /\ k = 3 \/ FitsPrefix(len, k)
                          /\ \A j \in 0 .. k - 1 : ~FitsPrefix(len, j)
  <1>1. /\ FitsPrefix(len, 0) <=> Fits(ByteBits)
        /\ FitsPrefix(len, 1) <=> Fits(2 * ByteBits)
        /\ FitsPrefix(len, 2) <=> Fits(4 * ByteBits)
    BY FourPrefixes DEF FitsPrefix
  <1>2. PICK k : k = LengthPrefix(len)
    OBVIOUS
  <1>3. k \in 0 .. 3 /\ Chosen(k)
    <2>1. \E j \in 0 .. 3 : Chosen(j)
      BY PrefixExists
    <2>2. QED
      BY <1>2, <2>1 DEF LengthPrefix
  <1>4. /\ PrefixBits(k) \in Widths /\ Taken(PrefixBits(k))
        /\ \A bits \in Widths : Taken(bits) => bits = PrefixBits(k)
    <2> HIDE DEF Fits
    <2>1. CASE k = 0
      BY <1>1, <1>3, <2>1, FourPrefixes, ByteBitsAssumption
    <2>2. CASE k = 1
      <3>1. ~FitsPrefix(len, 0) /\ FitsPrefix(len, 1)
        BY <1>3, <2>2
      <3>2. QED
        BY <1>1, <2>2, <3>1, FourPrefixes, ByteBitsAssumption
    <2>3. CASE k = 2
      <3>1. ~FitsPrefix(len, 0) /\ ~FitsPrefix(len, 1) /\ FitsPrefix(len, 2)
        BY <1>3, <2>3
      <3>2. QED
        BY <1>1, <2>3, <3>1, FourPrefixes, ByteBitsAssumption
    <2>4. CASE k = 3
      <3>1. ~FitsPrefix(len, 0) /\ ~FitsPrefix(len, 1) /\ ~FitsPrefix(len, 2)
        BY <1>3, <2>4
      <3>2. QED
        BY <1>1, <2>4, <3>1, FourPrefixes, ByteBitsAssumption
    <2>5. QED
      BY <1>3, <2>1, <2>2, <2>3, <2>4
  <1>5. MeasuredPrefixBits(len) = CHOOSE bits \in Widths : Taken(bits)
    BY DEF MeasuredPrefixBits
  <1>6. QED
    <2> HIDE DEF Widths, Taken
    <2>1. QED
      BY <1>2, <1>4, <1>5

-----------------------------------------------------------------------------
(* The measure is exact. *)

MeasuredInv == WriterInv /\ MeasureIsExact

LEMMA WriteIsExact ==
    ASSUME WriterInv, NoWrap, MeasureIsExact, NEW v \in Values,
           Write(v), Measure(Len(v))
    PROVE  MeasureIsExact'
  <1>1. v \in Value /\ Len(v) \in Nat /\ Len(v) <= ScratchBits
    BY ValuesAssumption, HalvesOK
  <1>2. Idle /\ ~fail /\ unit \in Nat /\ OutOK(out, wordsSize) /\ wordsSize \in Nat
    BY DEF Write, WriterInv, TypeOK
  <1>3. CASE finalFlushed \/ Overflows(Len(v))
    BY <1>3 DEF Write, Refuse, MeasureIsExact
  <1>4. CASE ~finalFlushed /\ ~Overflows(Len(v))
    <2>1. /\ out.usedBits \in Nat /\ out.usedBits + Len(v) < SizeMod
      BY <1>1, <1>2, <1>4, AcceptedFits, SizeModAssumption, WordBitsPos
    <2>2. measured = out.usedBits
      BY <1>2, <2>1 DEF MeasureIsExact, Idle
    <2>3. measured' = out.usedBits + Len(v)
      BY <1>1, <2>1, <2>2, WrapSmall DEF Measure
    <2>4. DoWrite(out, v).usedBits = out.usedBits + Len(v)
      BY <1>1, <1>2, <2>1, DoWriteOK
    <2>5. out' = DoWrite(out, v) /\ left' = 0 /\ unit' = unit
      BY <1>2, <1>4 DEF Write, Idle
    <2>6. QED
      BY <1>1, <1>2, <2>1, <2>3, <2>4, <2>5 DEF MeasureIsExact
  <1>5. QED
    BY <1>3, <1>4

LEMMA WriteBytesIsExact ==
    ASSUME WriterInv, NoWrap, MeasureIsExact, NEW size \in ByteCounts,
           WriteBytes(size), Measure(ByteBits * size)
    PROVE  MeasureIsExact'
  <1>1. size \in Nat /\ ByteBits * size \in Nat /\ ByteBits \in Nat
    BY CountsAssumption, ByteBitsAssumption
  <1>2. Idle /\ ~fail /\ unit \in Nat
    BY DEF WriteBytes, WriterInv, TypeOK
  <1>3. CASE finalFlushed \/ Overflows(ByteBits * size)
    BY <1>3 DEF WriteBytes, Refuse, MeasureIsExact
  <1>4. CASE ~finalFlushed /\ ~Overflows(ByteBits * size)
    <2>1. /\ out.usedBits \in Nat /\ totalBits + ByteBits * size < SizeMod
          /\ out.usedBits <= totalBits /\ totalBits \in Nat
      BY <1>2, <1>4, AcceptedFits DEF NoWrap
    <2>2. out.usedBits + ByteBits * size < SizeMod
      BY <1>1, <2>1, SizeModAssumption
    <2>3. measured = out.usedBits
      BY <1>2, <2>1 DEF MeasureIsExact, Idle
    <2>4. measured' = out.usedBits + ByteBits * size
      BY <1>1, <2>1, <2>2, <2>3, WrapSmall DEF Measure
    <2>5. out' = out /\ left' * unit' = ByteBits * size
      BY <1>1, <1>4 DEF WriteBytes
    <2>6. QED
      BY <2>4, <2>5 DEF MeasureIsExact
  <1>5. QED
    BY <1>3, <1>4

LEMMA WriteStringIsExact ==
    ASSUME WriterInv, NoWrap, MeasureIsExact, NEW len \in StringLens,
           NEW c \in CharBytes, WriteString(len, c), MeasureString(len, c)
    PROVE  MeasureIsExact'
  <1>1. len \in Nat /\ c \in Nat
    BY CountsAssumption, CharBytesAssumption
  <1>2. Idle /\ ~fail /\ OutOK(out, wordsSize) /\ wordsSize \in Nat
    BY DEF WriteString, WriterInv, TypeOK
  <1>3. PICK k : k = LengthPrefix(len)
    OBVIOUS
  <1>4. k \in Nat /\ PrefixBits(k) \in Nat /\ PrefixBits(k) <= ScratchBits
    BY <1>1, <1>3, PrefixOK
  <1>5. PICK first : first = ToBits(k, PrefixPrefixBits)
    OBVIOUS
  <1>6. PICK second : second = ToBits(len, PrefixBits(k))
    OBVIOUS
  <1>7. /\ first \in Value /\ Len(first) = 2
        /\ second \in Value /\ Len(second) = PrefixBits(k)
    <2>1. 2 <= ScratchBits
      BY ByteBitsAssumption DEF ScratchBits, WordBits, WordBytes
    <2>2. QED
      BY <1>1, <1>4, <1>5, <1>6, <2>1, ToBitsOK DEF PrefixPrefixBits
  <1>8. PICK chars : chars = ByteBits * (len * c)
    OBVIOUS
  <1>9. chars \in Nat
    BY <1>1, <1>8, ByteBitsAssumption
  <1>10. PICK bits : bits = 2 + PrefixBits(k) + chars
    OBVIOUS
  <1>11. bits \in Nat /\ Measure(bits)
    BY <1>1, <1>3, <1>4, <1>8, <1>9, <1>10, PrefixesAgree
       DEF MeasureString, PrefixPrefixBits
  <1>12. CASE finalFlushed \/ out.usedBits + bits > totalBits
    BY <1>3, <1>8, <1>10, <1>12 DEF WriteString, Refuse, MeasureIsExact, PrefixPrefixBits
  <1>13. CASE ~(finalFlushed \/ out.usedBits + bits > totalBits)
    <2>1. /\ out.usedBits \in Nat /\ totalBits \in Nat
          /\ out.usedBits + bits <= totalBits /\ totalBits < SizeMod
      BY <1>2, <1>11, <1>13, AcceptedFits, SizeModAssumption, WordBitsPos
    <2>2. measured = out.usedBits
      <3>1. unit \in Nat
        BY DEF WriterInv, TypeOK
      <3>2. QED
        BY <1>2, <2>1, <3>1 DEF MeasureIsExact, Idle
    <2>3. measured' = out.usedBits + bits
      BY <1>11, <2>1, <2>2, SizeModAssumption, WrapSmall DEF Measure
    <2>4. PICK o : o = DoWrite(out, first)
      OBVIOUS
    <2>5. OutOK(o, wordsSize) /\ o.usedBits = out.usedBits + 2
      <3>1. out.usedBits + Len(first) < SizeMod
        BY <1>4, <1>7, <1>9, <1>10, <2>1, SizeModAssumption
      <3>2. QED
        BY <1>2, <1>7, <2>4, <3>1, DoWriteOK
    <2>6. DoWrite(o, second).usedBits = out.usedBits + 2 + PrefixBits(k)
      <3>1. o.usedBits + Len(second) < SizeMod
        BY <1>4, <1>7, <1>9, <1>10, <2>1, <2>5, SizeModAssumption
      <3>2. QED
        BY <1>2, <1>7, <2>5, <3>1, DoWriteOK
    <2>7. /\ out' = DoWrite(o, second)
          /\ left' = len /\ unit' = ByteBits * c
      BY <1>3, <1>5, <1>6, <1>8, <1>10, <1>13, <2>4
         DEF WriteString, PrefixPrefixBits
    <2>8. left' * unit' = chars
      BY <1>1, <1>8, <2>7, ByteBitsAssumption
    <2>9. QED
      BY <1>4, <1>9, <1>10, <2>1, <2>3, <2>6, <2>7, <2>8 DEF MeasureIsExact
  <1>14. QED
    BY <1>12, <1>13

LEMMA PutNextIsExact ==
    ASSUME WriterInv, NoWrap, MeasureIsExact, PutNext, UNCHANGED measured
    PROVE  MeasureIsExact'
  <1>1. PICK v \in [1 .. unit -> Bit] : out' = DoWrite(out, v)
    BY DEF PutNext
  <1>2. /\ left \in Nat /\ left > 0 /\ unit \in Nat /\ unit <= WordBits
        /\ left' = left - 1 /\ unit' = unit /\ fail' = fail
    BY DEF PutNext, WriterInv, TypeOK
  <1>3. /\ ~initFail /\ LoopFits /\ ~fail
        /\ OutOK(out, wordsSize) /\ wordsSize \in Nat /\ totalBits \in Nat
        /\ out.usedBits \in Nat /\ totalBits \in Totals
    BY <1>2 DEF WriterInv, ConfigInv, LoopFits, TypeOK, Out
  <1>4. v \in Value /\ Len(v) = unit
    BY <1>1, <1>2, WordBitsPos DEF Value
  <1>5. /\ left * unit \in Nat /\ left' * unit = left * unit - unit
        /\ left * unit >= unit
    BY <1>2, LoopProduct
  <1>6. out.usedBits + left * unit <= totalBits
    BY <1>3 DEF LoopFits
  <1>7. totalBits + ScratchBits < SizeMod
    BY <1>3 DEF NoWrap
  <1>8. out.usedBits + Len(v) < SizeMod
    BY <1>2, <1>3, <1>4, <1>5, <1>6, <1>7, WordBitsPos, SizeModAssumption
  <1>9. DoWrite(out, v).usedBits = out.usedBits + unit
    BY <1>3, <1>4, <1>8, DoWriteOK
  <1>10. measured = out.usedBits + left * unit
    BY <1>3 DEF MeasureIsExact
  <1>11. QED
    BY <1>1, <1>2, <1>3, <1>5, <1>9, <1>10 DEF MeasureIsExact

LEMMA StartOverIsExact ==
    ASSUME WriterInv, StartOver
    PROVE  MeasureIsExact'
  <1>1. /\ left = 0 /\ left' = left /\ unit' = unit /\ measured' = 0
        /\ out'.usedBits = 0
    BY DEF StartOver, MeasureRestart, Restart, Reset, ResetWith, Restarted, Idle
  <1>2. unit \in Nat
    BY DEF WriterInv, TypeOK
  <1>3. QED
    BY <1>1, <1>2 DEF MeasureIsExact

LEMMA FlushFinalIsExact ==
    ASSUME WriterInv, MeasureIsExact, FlushFinal, UNCHANGED measured
    PROVE  MeasureIsExact'
  <1>1. out \in Out(wordsSize)
    BY DEF WriterInv, TypeOK
  <1>2. out'.usedBits = out.usedBits
    BY <1>1 DEF FlushFinal, FlushWord, Out
  <1>3. QED
    BY <1>2 DEF FlushFinal, MeasureIsExact

LEMMA MeasuredInvStep ==
    NoWrap /\ MeasuredInv /\ [MeasuredNext]_measuredVars => MeasuredInv'
  <1> SUFFICES ASSUME NoWrap, MeasuredInv, [MeasuredNext]_measuredVars
               PROVE  MeasuredInv'
    OBVIOUS
  <1>1. WriterInv /\ MeasureIsExact /\ WriterInv'
    BY MeasuredStepIsStep, InvStep DEF MeasuredInv
  <1>2. CASE StartOver
    BY <1>1, <1>2, StartOverIsExact DEF MeasuredInv
  <1>3. CASE MeasuredWrite
    BY <1>1, <1>3, WriteIsExact, WriteBytesIsExact, WriteStringIsExact
       DEF MeasuredInv, MeasuredWrite
  <1>4. CASE Unmeasured
    <2>1. CASE SetFail
      BY <1>1, <2>1 DEF MeasuredInv, SetFail, MeasureIsExact
    <2>2. QED
      BY <1>1, <1>4, <2>1, PutNextIsExact, FlushFinalIsExact
         DEF MeasuredInv, Unmeasured
  <1>5. CASE UNCHANGED measuredVars
    BY <1>1, <1>5 DEF MeasuredInv, MeasureIsExact, measuredVars, vars
  <1>6. QED
    BY <1>2, <1>3, <1>4, <1>5 DEF MeasuredNext

\* The measure is what the writer used and is about to use, after any accepted
\* writes: a payload allocated by it is neither too small nor wasteful.
THEOREM MeasureCorrect == ASSUME NoWrap PROVE MeasuredSpec => []MeasureIsExact
  <1>1. MeasuredInit => MeasuredInv
    BY InvInit DEF MeasuredInit, MeasuredInv, Init, MeasureIsExact
  <1>2. MeasuredInv /\ [MeasuredNext]_measuredVars => MeasuredInv'
    BY MeasuredInvStep
  <1>3. MeasuredInv => MeasureIsExact
    BY DEF MeasuredInv
  <1>4. QED
    BY <1>1, <1>2, <1>3, PTL DEF MeasuredSpec

-----------------------------------------------------------------------------
(* A refused write needs more room than there is.                            *)

LEMMA UsedBytesCover ==
    ASSUME measured' \in Nat
    PROVE  ByteBits * UsedBytes' >= measured'
  <1>1. PICK m \in Nat : m = measured'
    OBVIOUS
  <1>2. PICK q : q = (m + ByteBits - 1) \div ByteBits
    OBVIOUS
  <1>3. PICK w \in Nat \ {0} : w = ByteBits
    BY ByteBitsAssumption
  <1>4. m + w - 1 \in Nat
    BY <1>3
  <1>5. q \in Nat /\ m + w - 1 < w * (q + 1)
    BY <1>2, <1>3, <1>4
  <1>6. w * (q + 1) = w * q + w /\ w * q \in Nat
    BY <1>3, <1>5
  <1>7. w * q >= m
    BY <1>3, <1>5, <1>6
  <1>8. QED
    BY <1>1, <1>2, <1>3, <1>7 DEF UsedBytes

LEMMA RefusedIsMeasured ==
    ASSUME WriterInv, NoWrap, MeasureIsExact, Idle, ~fail, ~finalFlushed,
           NEW bits \in Nat, totalBits + bits < SizeMod,
           Measure(bits), out.usedBits + bits > totalBits
    PROVE  ByteBits * UsedBytes' > totalBits
  <1>1. /\ out.usedBits \in Nat /\ totalBits \in Nat /\ SizeMod \in Nat
        /\ out.usedBits <= totalBits
    BY AcceptedFits, SizeModAssumption
  <1>2. measured = out.usedBits
    <2>1. left = 0 /\ unit \in Nat
      BY DEF Idle, WriterInv, TypeOK
    <2>2. QED
      BY <1>1, <2>1 DEF MeasureIsExact
  <1>3. out.usedBits + bits < SizeMod /\ out.usedBits + bits \in Nat
    BY <1>1
  <1>4. measured' = out.usedBits + bits
    BY <1>2, <1>3, WrapSmall DEF Measure
  <1>5. measured' \in Nat /\ ByteBits * UsedBytes' >= measured'
    BY <1>3, <1>4, UsedBytesCover
  <1>6. PICK u : u = ByteBits * UsedBytes'
    OBVIOUS
  <1>7. u \in Int
    <2>1. PICK q : q = (measured' + ByteBits - 1) \div ByteBits
      OBVIOUS
    <2>2. q \in Int /\ ByteBits * q \in Int
      BY <1>5, <2>1, ByteBitsAssumption
    <2>3. QED
      BY <1>6, <2>1, <2>2 DEF UsedBytes
  <1>8. QED
    BY <1>1, <1>4, <1>5, <1>6, <1>7

\* The sums of the checks of one write do not wrap.
LEMMA CheckExact ==
    ASSUME WriterInv, NoWrap, Idle, ~fail, ~finalFlushed,
           NEW bits \in Nat, totalBits + bits < SizeMod, Overflows(bits)
    PROVE  out.usedBits + bits > totalBits
  <1>1. /\ out.usedBits \in Nat /\ totalBits \in Nat /\ SizeMod \in Nat
        /\ out.usedBits <= totalBits
    BY AcceptedFits, SizeModAssumption
  <1>2. out.usedBits + bits \in Nat /\ out.usedBits + bits < SizeMod
    BY <1>1
  <1>3. QED
    BY <1>2, WrapSmall DEF Overflows

LEMMA WriteSuffices ==
    ASSUME WriterInv, NoWrap, StringsFit, MeasureIsExact, MeasuredWrite,
           ~fail, fail', ~finalFlushed
    PROVE  ByteBits * UsedBytes' > totalBits
  <1>0. totalBits \in Totals /\ totalBits \in Nat
    BY DEF WriterInv, ConfigInv, TypeOK
  <1>1. ASSUME NEW v \in Values, Write(v), Measure(Len(v))
        PROVE  ByteBits * UsedBytes' > totalBits
    <2>1. Len(v) \in Nat /\ Len(v) <= ScratchBits
      BY ValuesAssumption, HalvesOK
    <2>2. totalBits + Len(v) < SizeMod
      <3>1. totalBits + ScratchBits < SizeMod
        BY <1>0 DEF NoWrap
      <3>2. QED
        BY <1>0, <2>1, <3>1, WordBitsPos, SizeModAssumption
    <2>3. Idle /\ Overflows(Len(v))
      BY <1>1 DEF Write
    <2>4. out.usedBits + Len(v) > totalBits
      BY <2>1, <2>2, <2>3, CheckExact
    <2>5. QED
      BY <1>1, <2>1, <2>2, <2>3, <2>4, RefusedIsMeasured
  <1>2. ASSUME NEW size \in ByteCounts, WriteBytes(size), Measure(ByteBits * size)
        PROVE  ByteBits * UsedBytes' > totalBits
    <2>1. PICK bits : bits = ByteBits * size
      OBVIOUS
    <2>2. bits \in Nat
      BY <2>1, CountsAssumption, ByteBitsAssumption
    <2>3. totalBits + bits < SizeMod
      BY <1>0, <2>1 DEF NoWrap
    <2>4. Idle /\ Overflows(bits) /\ Measure(bits)
      BY <1>2, <2>1 DEF WriteBytes
    <2>5. out.usedBits + bits > totalBits
      BY <2>2, <2>3, <2>4, CheckExact
    <2>6. QED
      BY <2>2, <2>3, <2>4, <2>5, RefusedIsMeasured
  <1>3. ASSUME NEW len \in StringLens, NEW c \in CharBytes,
               WriteString(len, c), MeasureString(len, c)
        PROVE  ByteBits * UsedBytes' > totalBits
    <2>1. len \in Nat /\ c \in Nat
      BY CountsAssumption, CharBytesAssumption
    <2>2. PICK k : k = PrefixBits(LengthPrefix(len))
      OBVIOUS
    <2>3. k \in Nat
      BY <2>1, <2>2, PrefixOK
    <2>4. PICK chars : chars = ByteBits * (len * c)
      OBVIOUS
    <2>5. chars \in Nat
      BY <2>1, <2>4, ByteBitsAssumption
    <2>6. PICK bits : bits = PrefixPrefixBits + k + chars
      OBVIOUS
    <2>7. bits \in Nat
      BY <2>3, <2>5, <2>6 DEF PrefixPrefixBits
    <2>8. Measure(bits)
      BY <1>3, <2>1, <2>2, <2>4, <2>6, PrefixesAgree DEF MeasureString
    <2>9. Idle /\ out.usedBits + bits > totalBits
      BY <1>3, <2>2, <2>4, <2>6 DEF WriteString
    <2>10. totalBits + bits < SizeMod
      <3>1. totalBits + PrefixPrefixBits + k + chars < SizeMod
        BY <1>0, <2>2, <2>4 DEF StringsFit
      <3>2. QED
        BY <1>0, <2>3, <2>5, <2>6, <3>1 DEF PrefixPrefixBits
    <2>11. QED
      BY <2>7, <2>8, <2>9, <2>10, RefusedIsMeasured
  <1>4. QED
    BY <1>1, <1>2, <1>3 DEF MeasuredWrite

\* An allocation of the measured bytes refuses no write, whatever the buffers,
\* the values and the strings: a write is only refused if the measure, with it,
\* is more than the stream was opened for.
THEOREM MeasureSufficesCorrect ==
    ASSUME NoWrap, StringsFit PROVE MeasuredSpec => MeasureSuffices
  <1>1. MeasuredInit => MeasuredInv
    BY InvInit DEF MeasuredInit, MeasuredInv, Init, MeasureIsExact
  <1>2. MeasuredInv /\ [MeasuredNext]_measuredVars => MeasuredInv'
    BY MeasuredInvStep
  <1>3. MeasuredInv /\ [MeasuredNext]_measuredVars
          => [~fail /\ fail' /\ ~finalFlushed /\ measured' > measured
                => ByteBits * UsedBytes' > totalBits]_measuredVars
    <2> SUFFICES ASSUME MeasuredInv, MeasuredNext, ~fail, fail', ~finalFlushed,
                        measured' > measured
                 PROVE  ByteBits * UsedBytes' > totalBits
      OBVIOUS
    <2>1. WriterInv /\ MeasureIsExact
      BY DEF MeasuredInv
    <2>2. measured \in Nat
      <3>1. out.usedBits \in Nat /\ left \in Nat /\ unit \in Nat
        BY <2>1 DEF WriterInv, TypeOK, Out
      <3>2. QED
        BY <2>1, <3>1, LoopProduct DEF MeasureIsExact
    <2>3. ~StartOver /\ ~Unmeasured
      BY <2>2 DEF StartOver, MeasureRestart, Unmeasured
    <2>4. QED
      BY <2>1, <2>3, WriteSuffices DEF MeasuredNext
  <1>4. QED
    BY <1>1, <1>2, <1>3, PTL DEF MeasuredSpec, MeasureSuffices
=============================================================================
