------------------------ MODULE BitStreamReaderProofs ------------------------
(***************************************************************************)
(* Theorems about BitStreamReader for any number of bits of a byte, any    *)
(* buffers, ranges, sizes and lengths, as long as size_type does not wrap. *)
(***************************************************************************)
EXTENDS BitStreamReaderProperties, NatLemmas, SequenceTheorems

\* The n bits of w after the first p.
Slice(w, p, n) == [i \in 1 .. n |-> w[p + i]]

\* Where the first bit of the scratch lies in the buffer.
Position(c) == c.wordsIndex * WordBits - c.scratchBits

\* The scratch holds a part of the buffer, up to the end of a word.
Loaded(c, w) ==
    /\ c \in In
    /\ c.scratchBits \in 0 .. ScratchBits - 1
    /\ Position(c) \in Nat
    /\ c.wordsIndex * WordBits <= Len(w)
    /\ \A i \in 0 .. ScratchBits - 1 :
         c.scratch[i] = IF i < c.scratchBits THEN w[Position(c) + i + 1] ELSE 0

\* What do_read relies on and keeps: there is room for a word.
ReaderOK(c, w) == Loaded(c, w) /\ c.scratchBits < WordBits

\* A buffer of whole words.
Buffer(w) == /\ w \in Seq(Bit)
             /\ \E n \in 0 .. Len(w) : Len(w) = n * WordBits

-----------------------------------------------------------------------------
LEMMA WordBitsPos == WordBits \in Nat \ {0} /\ ScratchBits = 2 * WordBits
  BY ByteBitsAssumption DEF WordBits, WordBytes, ScratchBits

LEMMA NextWord == \A n \in Nat : (n + 1) * WordBits = n * WordBits + WordBits
  BY WordBitsPos

LEMMA WordsMonotone ==
    \A m, n \in Nat : m * WordBits < n * WordBits => (m + 1) * WordBits <= n * WordBits
  <1>1. SUFFICES ASSUME NEW m \in Nat, NEW n \in Nat, m * WordBits < n * WordBits
                 PROVE  (m + 1) * WordBits <= n * WordBits
    OBVIOUS
  <1>2. m + 1 <= n
    BY <1>1, WordBitsPos
  <1>3. PICK d \in Nat : n = m + 1 + d
    BY <1>2
  <1>4. n * WordBits = (m + 1) * WordBits + d * WordBits /\ d * WordBits \in Nat
    BY <1>3, WordBitsPos
  <1>5. QED
    BY <1>4, WordBitsPos

LEMMA WrapSmall == \A n \in Nat : n < SizeMod => Wrap(n) = n
  BY ModAssumption DEF Wrap

LEMMA WrapShorter == \A n \in Nat : Wrap(n) \in Nat /\ Wrap(n) <= n
  <1>1. \A n \in Nat : Wrap(n) \in Nat /\ Wrap(n) < SizeMod
    BY ModAssumption DEF Wrap
  <1>2. QED
    BY <1>1, WrapSmall, ModAssumption

LEMMA TotalsOK == Totals \subseteq Nat
  <1>1. \A l \in LogicalBytes : ByteBits * l \in Nat
    BY CountsAssumption, ByteBitsAssumption
  <1>2. QED
    BY <1>1, WrapShorter DEF Totals

LEMMA SliceTyped ==
    ASSUME NEW w \in Seq(Bit), NEW p \in Nat, NEW n \in Nat, p + n <= Len(w)
    PROVE  Slice(w, p, n) \in Seq(Bit) /\ Len(Slice(w, p, n)) = n
  <1>1. \A i \in 1 .. n : w[p + i] \in Bit
    BY ElementOfSeq
  <1>2. QED
    BY <1>1 DEF Slice

\* Two slices in a row are one.
LEMMA SliceConcat ==
    ASSUME NEW w \in Seq(Bit), NEW p \in Nat, NEW m \in Nat, NEW n \in Nat,
           NEW q, q = p + m, q + n <= Len(w)
    PROVE  Slice(w, p, m) \o Slice(w, q, n) = Slice(w, p, m + n)
  <1>1. PICK a : a = Slice(w, p, m)
    OBVIOUS
  <1>2. PICK b : b = Slice(w, q, n)
    OBVIOUS
  <1>3. PICK c : c = Slice(w, p, m + n)
    OBVIOUS
  <1>4. /\ a \in Seq(Bit) /\ Len(a) = m
        /\ b \in Seq(Bit) /\ Len(b) = n
        /\ c \in Seq(Bit) /\ Len(c) = m + n
    <2>1. m <= Len(w) /\ p + m <= Len(w) /\ m + n \in Nat /\ p + m \in Nat
      BY LenProperties
    <2>2. QED
      BY <1>1, <1>2, <1>3, <2>1, SliceTyped
  <1>5. /\ a \o b \in Seq(Bit) /\ Len(a \o b) = m + n
        /\ \A i \in 1 .. m + n : (a \o b)[i] = IF i <= m THEN a[i] ELSE b[i - m]
    <2>1. /\ a \o b \in Seq(Bit)
          /\ Len(a \o b) = Len(a) + Len(b)
          /\ \A i \in 1 .. Len(a) + Len(b) : (a \o b)[i] =
               IF i <= Len(a) THEN a[i] ELSE b[i - Len(a)]
      BY <1>4, ConcatProperties, Zenon
    <2>2. QED
      BY <1>4, <2>1, Zenon
  <1>6. \A i \in 1 .. m + n : (a \o b)[i] = c[i]
    <2>1. \A i \in 1 .. m : a[i] = w[p + i]
      BY <1>1 DEF Slice
    <2>2. \A i \in 1 .. n : b[i] = w[p + m + i]
      BY <1>2 DEF Slice
    <2>3. \A i \in 1 .. m + n : c[i] = w[p + i]
      BY <1>3 DEF Slice
    <2>4. SUFFICES ASSUME NEW i \in 1 .. m + n PROVE (a \o b)[i] = c[i]
      OBVIOUS
    <2>5. CASE i <= m
      BY <1>5, <2>1, <2>3, <2>5
    <2>6. CASE i > m
      <3>1. i - m \in 1 .. n /\ p + m + (i - m) = p + i
        BY <2>6
      <3>2. QED
        BY <1>5, <2>2, <2>3, <2>6, <3>1
    <2>7. i <= m \/ i > m
      OBVIOUS
    <2>8. QED
      BY <2>5, <2>6, <2>7, Zenon
  <1>7. a \o b = c
    <2>1. PICK d : d = a \o b
      OBVIOUS
    <2>2. /\ d \in Seq(Bit) /\ c \in Seq(Bit) /\ Len(d) = Len(c)
          /\ \A i \in 1 .. Len(d) : d[i] = c[i]
      BY <1>4, <1>5, <1>6, <2>1, Zenon
    <2>3. QED
      BY <2>1, <2>2, SeqEqual, Zenon
  <1>8. QED
    BY <1>1, <1>2, <1>3, <1>7

LEMMA SliceIsPrefix ==
    ASSUME NEW w \in Seq(Bit), NEW n \in Nat, n <= Len(w)
    PROVE  Slice(w, 0, n) = SubSeq(w, 1, n)
  <1>1. Slice(w, 0, n) \in Seq(Bit) /\ Len(Slice(w, 0, n)) = n
    BY SliceTyped
  <1>2. \A i \in 1 .. n : w[i] \in Bit
    BY ElementOfSeq
  <1>3. /\ SubSeq(w, 1, n) \in Seq(Bit) /\ Len(SubSeq(w, 1, n)) = n
        /\ \A i \in 1 .. n : SubSeq(w, 1, n)[i] = w[i]
    BY <1>2, SubSeqProperties
  <1>4. \A i \in 1 .. n : Slice(w, 0, n)[i] = w[i]
    BY DEF Slice
  <1>5. PICK s, t : s = Slice(w, 0, n) /\ t = SubSeq(w, 1, n)
    OBVIOUS
  <1>6. /\ s \in Seq(Bit) /\ t \in Seq(Bit) /\ Len(s) = Len(t)
        /\ \A i \in 1 .. Len(s) : s[i] = t[i]
    BY <1>1, <1>3, <1>4, <1>5, Zenon
  <1>7. QED
    BY <1>5, <1>6, SeqEqual, Zenon

-----------------------------------------------------------------------------
(* The number of a sequence of bits is a natural number.  Its definition is *)
(* recursive: that the function exists, and its type, are by induction.     *)

NumberStep(v, f) ==
    [k \in 0 .. Len(v) |-> IF k = 0 THEN 0 ELSE 2 * f[k - 1] + v[Len(v) - k + 1]]

LEMMA NumberUnfolds ==
    \A v : Number(v) = (CHOOSE f : f = NumberStep(v, f))[Len(v)]
  BY DEF Number, NumberStep

LEMMA NumberFunction ==
    ASSUME NEW v \in Seq(Bit)
    PROVE  \E f : f = NumberStep(v, f)
  <1>0. Len(v) \in Nat
    BY LenProperties
  <1> DEFINE S == {n \in Nat : n <= Len(v) =>
                     \E f : f = [k \in 0 .. n |->
                       IF k = 0 THEN 0 ELSE 2 * f[k - 1] + v[Len(v) - k + 1]]}
  <1>1. 0 \in S
    <2>1. PICK f : f = [k \in 0 .. 0 |-> 0]
      OBVIOUS
    <2>2. f = [k \in 0 .. 0 |-> IF k = 0 THEN 0
                                ELSE 2 * f[k - 1] + v[Len(v) - k + 1]]
      BY <2>1
    <2>3. QED
      BY <2>2
  <1>2. ASSUME NEW n \in Nat, n \in S PROVE n + 1 \in S
    <2>1. SUFFICES ASSUME n + 1 <= Len(v)
                   PROVE  \E f : f = [k \in 0 .. n + 1 |->
                       IF k = 0 THEN 0 ELSE 2 * f[k - 1] + v[Len(v) - k + 1]]
      OBVIOUS
    <2>2. PICK f : f = [k \in 0 .. n |->
                       IF k = 0 THEN 0 ELSE 2 * f[k - 1] + v[Len(v) - k + 1]]
      BY <1>0, <1>2, <2>1
    <2>3. PICK g : g = [k \in 0 .. n + 1 |->
                          IF k \in 0 .. n THEN f[k]
                          ELSE 2 * f[k - 1] + v[Len(v) - k + 1]]
      OBVIOUS
    <2>4. \A k \in 0 .. n : g[k] = f[k]
      BY <2>3
    <2>5. ASSUME NEW k \in 0 .. n + 1
          PROVE  g[k] = IF k = 0 THEN 0 ELSE 2 * g[k - 1] + v[Len(v) - k + 1]
      <3>1. CASE k = 0
        BY <2>2, <2>4, <3>1
      <3>2. CASE k \in 1 .. n
        <4>1. k - 1 \in 0 .. n /\ k \in 0 .. n
          BY <3>2
        <4>2. QED
          BY <2>2, <2>4, <3>2, <4>1
      <3>3. CASE k = n + 1
        <4>1. k - 1 \in 0 .. n /\ k \notin 0 .. n /\ k # 0
          BY <3>3
        <4>2. QED
          BY <2>3, <2>4, <4>1
      <3>4. QED
        BY <3>1, <3>2, <3>3
    <2>6. g = [k \in 0 .. n + 1 |-> g[k]]
      BY <2>3
    <2>7. g = [k \in 0 .. n + 1 |->
                 IF k = 0 THEN 0 ELSE 2 * g[k - 1] + v[Len(v) - k + 1]]
      BY <2>5, <2>6
    <2>8. QED
      BY <2>7
  <1>3. Len(v) \in S
    <2> HIDE DEF S
    <2>1. QED
      BY <1>0, <1>1, <1>2, SetInduction
  <1>4. QED
    BY <1>0, <1>3 DEF NumberStep

LEMMA NumberTyped ==
    ASSUME NEW v \in Seq(Bit)
    PROVE  Number(v) \in Nat
  <1>0. Len(v) \in Nat
    BY LenProperties
  <1>1. PICK f : f = NumberStep(v, f) /\ Number(v) = f[Len(v)]
    BY NumberFunction, NumberUnfolds
  <1> DEFINE S == {k \in Nat : k <= Len(v) => f[k] \in Nat}
  <1>2. 0 \in S
    <2>1. 0 \in 0 .. Len(v)
      BY <1>0
    <2>2. f[0] = 0
      BY <1>1, <2>1 DEF NumberStep
    <2>3. QED
      BY <2>2
  <1>3. ASSUME NEW k \in Nat, k \in S PROVE k + 1 \in S
    <2>1. SUFFICES ASSUME k + 1 <= Len(v) PROVE f[k + 1] \in Nat
      OBVIOUS
    <2>2. k + 1 \in 0 .. Len(v) /\ k + 1 # 0 /\ (k + 1) - 1 = k /\ k <= Len(v)
      BY <1>0, <2>1
    <2>3. f[k + 1] = 2 * f[k] + v[Len(v) - (k + 1) + 1]
      BY <1>1, <2>2 DEF NumberStep
    <2>4. f[k] \in Nat
      BY <1>3, <2>2
    <2>5. v[Len(v) - (k + 1) + 1] \in Bit
      <3>1. Len(v) - (k + 1) + 1 \in 1 .. Len(v)
        BY <1>0, <2>2
      <3>2. QED
        BY <3>1, ElementOfSeq
    <2>6. QED
      BY <2>3, <2>4, <2>5 DEF Bit
  <1>4. Len(v) \in S
    <2> HIDE DEF S
    <2>1. QED
      BY <1>0, <1>2, <1>3, SetInduction
  <1>5. QED
    BY <1>0, <1>1, <1>4

\* Two bits are a number below 4.
LEMMA NumberOfPrefix ==
    ASSUME NEW v \in Seq(Bit), Len(v) = PrefixPrefixBits
    PROVE  Number(v) \in 0 .. 3
  <1>1. PICK f : f = NumberStep(v, f) /\ Number(v) = f[2]
    BY NumberFunction, NumberUnfolds DEF PrefixPrefixBits
  <1>2. f = [k \in 0 .. 2 |-> IF k = 0 THEN 0 ELSE 2 * f[k - 1] + v[2 - k + 1]]
    BY <1>1 DEF NumberStep, PrefixPrefixBits
  <1>3. f[0] = 0 /\ f[1] = 2 * f[0] + v[2] /\ f[2] = 2 * f[1] + v[1]
    <2>1. /\ 0 \in 0 .. 2 /\ 1 \in 0 .. 2 /\ 2 \in 0 .. 2
          /\ 1 - 1 = 0 /\ 2 - 1 = 1 /\ 2 - 1 + 1 = 2 /\ 2 - 2 + 1 = 1
      OBVIOUS
    <2>2. QED
      BY <1>2, <2>1
  <1>4. v[1] \in Bit /\ v[2] \in Bit
    BY ElementOfSeq DEF PrefixPrefixBits
  <1>5. QED
    BY <1>1, <1>3, <1>4 DEF Bit

LEMMA ToBitsTyped ==
    ASSUME NEW n \in Nat, NEW width \in Nat
    PROVE  ToBits(n, width) \in Seq(Bit) /\ Len(ToBits(n, width)) = width
  BY DEF ToBits, Bit

\* A number that fits a width is read as it was written: its k highest bits are
\* what remains when it is divided by the weight of the others.
LEMMA NumberOfBits ==
    ASSUME NEW n \in Nat, NEW width \in Nat, n < 2 ^ width
    PROVE  Number(ToBits(n, width)) = n
  <1>1. PICK v \in Seq(Bit) : v = ToBits(n, width) /\ Len(v) = width
    BY ToBitsTyped
  <1>2. PICK f : f = NumberStep(v, f) /\ Number(v) = f[width]
    BY <1>1, NumberFunction, NumberUnfolds
  <1>3. f = [k \in 0 .. width |-> IF k = 0 THEN 0
                                  ELSE 2 * f[k - 1] + v[width - k + 1]]
    BY <1>1, <1>2 DEF NumberStep
  <1> DEFINE S == {k \in Nat : k <= width => f[k] = n \div 2 ^ (width - k)}
  <1>4. 0 \in S
    <2>1. f[0] = 0
      BY <1>3
    <2>2. PICK p \in Nat : p = 2 ^ width /\ n < p
      BY PowersGrow
    <2>3. n \div p = 0
      BY <2>2
    <2>4. width - 0 = width
      OBVIOUS
    <2>5. QED
      BY <2>1, <2>2, <2>3, <2>4
  <1>5. ASSUME NEW k \in Nat, k \in S PROVE k + 1 \in S
    <2>1. SUFFICES ASSUME k + 1 <= width
                   PROVE  f[k + 1] = n \div 2 ^ (width - (k + 1))
      OBVIOUS
    <2>2. PICK m \in Nat : m = width - (k + 1)
      BY <2>1
    <2>3. width - k = m + 1 /\ width - (k + 1) + 1 = m + 1 /\ m + 1 \in 1 .. width
      BY <2>1, <2>2
    <2>4. PICK p \in Nat \ {0} : p = 2 ^ m
      BY PowersGrow
    <2>5. 2 ^ (m + 1) = 2 * p
      BY <2>4, PowerDoubles
    <2>6. f[k] = n \div (2 * p)
      BY <1>5, <2>1, <2>3, <2>5
    <2>7. v[m + 1] = (n \div p) % 2
      <3>1. v[m + 1] = IF (n \div 2 ^ ((m + 1) - 1)) % 2 = 1 THEN 1 ELSE 0
        BY <1>1, <2>3 DEF ToBits
      <3>2. (m + 1) - 1 = m
        OBVIOUS
      <3>3. v[m + 1] = IF (n \div p) % 2 = 1 THEN 1 ELSE 0
        BY <2>4, <3>1, <3>2
      <3>4. n \div p \in Nat
        BY DivideByDouble
      <3>5. (n \div p) % 2 \in 0 .. 1
        BY <3>4
      <3>6. QED
        BY <3>3, <3>5
    <2>8. f[k + 1] = 2 * f[k] + v[m + 1]
      <3>1. k + 1 \in 0 .. width /\ k + 1 # 0 /\ (k + 1) - 1 = k
        BY <2>1
      <3>2. QED
        BY <1>3, <2>3, <3>1
    <2>9. n \div p = 2 * (n \div (2 * p)) + ((n \div p) % 2)
      BY DivideByDouble
    <2>10. f[k + 1] = n \div p
      BY <2>6, <2>7, <2>8, <2>9
    <2>11. QED
      BY <2>2, <2>4, <2>10
  <1>6. width \in S
    <2> HIDE DEF S
    <2>1. QED
      BY <1>4, <1>5, SetInduction
  <1>7. f[width] = n \div 2 ^ 0
    <2>1. width - width = 0
      OBVIOUS
    <2>2. QED
      BY <1>6, <2>1
  <1>8. QED
    BY <1>1, <1>2, <1>7

-----------------------------------------------------------------------------
LEMMA OrShiftedTyped ==
    ASSUME NEW s \in Scratch, NEW v, NEW k \in Nat
    PROVE  OrShifted(s, v, k) \in Scratch
  BY WordBitsPos DEF OrShifted, Scratch, Bit

LEMMA ShiftRightTyped ==
    ASSUME NEW s \in Scratch, NEW n \in Nat
    PROVE  ShiftRight(s, n) \in Scratch
  BY WordBitsPos DEF ShiftRight, Scratch, Bit

\* A word that lies in the buffer is the next slice of it.
LEMMA WordIsSlice ==
    ASSUME Buffer(words), NEW i \in Nat, (i + 1) * WordBits <= Len(words)
    PROVE  Word(i) = Slice(words, i * WordBits, WordBits)
  <1>1. /\ i * WordBits \in Nat /\ i * WordBits + WordBits <= Len(words)
        /\ WordBits \in Nat /\ Len(words) \in Nat
        /\ DOMAIN words = 1 .. Len(words)
    BY NextWord, WordBitsPos, LenProperties DEF Buffer
  <1>2. \A j \in 1 .. WordBits : i * WordBits + j \in DOMAIN words
    BY <1>1
  <1>3. QED
    BY <1>2 DEF Word, Slice

\* Loading a word continues the scratch where it ended.
LEMMA FetchWordOK ==
    ASSUME Buffer(words), NEW c, ReaderOK(c, words),
           Position(c) + c.scratchBits < Len(words)
    PROVE  /\ Loaded(FetchWord(c), words)
           /\ Position(FetchWord(c)) = Position(c)
           /\ FetchWord(c).scratchBits = c.scratchBits + WordBits
           /\ FetchWord(c).usedBits = c.usedBits
           /\ FetchWord(c).taken = c.taken
  <1>1. /\ c \in In /\ c.scratch \in Scratch /\ c.wordsIndex \in Nat
        /\ c.scratchBits \in 0 .. WordBits - 1 /\ Position(c) \in Nat
    BY WordBitsPos DEF ReaderOK, Loaded, In
  <1>2. PICK a : a = c.wordsIndex * WordBits
    OBVIOUS
  <1>3. /\ a \in Nat /\ Position(c) = a - c.scratchBits
        /\ (c.wordsIndex + 1) * WordBits = a + WordBits
    BY <1>1, <1>2, NextWord, WordBitsPos DEF Position
  <1>4. (c.wordsIndex + 1) * WordBits <= Len(words)
    <2>1. PICK n \in 0 .. Len(words) : Len(words) = n * WordBits
      BY DEF Buffer
    <2>2. c.wordsIndex * WordBits < n * WordBits /\ n \in Nat
      BY <1>1, <1>2, <1>3, <2>1
    <2>3. QED
      BY <1>1, <2>1, <2>2, WordsMonotone
  <1>5. PICK s : s = OrShifted(c.scratch, Word(c.wordsIndex), c.scratchBits)
    OBVIOUS
  <1>6. PICK f : f = FetchWord(c)
    OBVIOUS
  <1>7. f = [c EXCEPT !.scratch = s, !.scratchBits = c.scratchBits + WordBits,
                      !.wordsIndex = c.wordsIndex + 1]
    BY <1>5, <1>6, Zenon DEF FetchWord
  <1>8. s \in Scratch
    BY <1>1, <1>5, OrShiftedTyped
  <1>9. /\ f \in In /\ f.scratch = s /\ f.wordsIndex = c.wordsIndex + 1
        /\ f.scratchBits = c.scratchBits + WordBits
        /\ f.usedBits = c.usedBits /\ f.taken = c.taken
    <2>1. PICK k : k = c.scratchBits + WordBits
      OBVIOUS
    <2>2. PICK j : j = c.wordsIndex + 1
      OBVIOUS
    <2>3. k \in Int /\ j \in Nat
      BY <1>1, <2>1, <2>2, WordBitsPos
    <2>4. f = [c EXCEPT !.scratch = s, !.scratchBits = k, !.wordsIndex = j]
      BY <1>7, <2>1, <2>2
    <2>5. QED
      BY <1>1, <1>8, <2>1, <2>2, <2>3, <2>4 DEF In
  <1>10. Position(f) = Position(c)
    <2>1. f.wordsIndex * WordBits = a + WordBits
      BY <1>3, <1>9
    <2>2. QED
      BY <1>1, <1>3, <1>9, <2>1, WordBitsPos DEF Position
  <1>11. ASSUME NEW i \in 0 .. ScratchBits - 1
         PROVE  f.scratch[i] = IF i < f.scratchBits
                               THEN words[Position(f) + i + 1] ELSE 0
    <2>1. PICK w : w = Slice(words, a, WordBits)
      OBVIOUS
    <2>2. w = Word(c.wordsIndex)
      BY <1>1, <1>2, <1>4, <2>1, WordIsSlice
    <2>3. w \in Seq(Bit) /\ Len(w) = WordBits
      <3>1. a + WordBits <= Len(words) /\ WordBits \in Nat /\ words \in Seq(Bit)
        BY <1>3, <1>4, WordBitsPos DEF Buffer
      <3>2. QED
        BY <1>3, <2>1, <3>1, SliceTyped
    <2>4. s[i] = IF i >= c.scratchBits /\ i < c.scratchBits + WordBits
                    /\ w[i - c.scratchBits + 1] = 1
                 THEN 1 ELSE c.scratch[i]
      BY <1>5, <2>2, <2>3 DEF OrShifted
    <2>5. c.scratch[i] = IF i < c.scratchBits THEN words[Position(c) + i + 1] ELSE 0
      BY DEF ReaderOK, Loaded
    <2>6. i \in Int /\ c.scratchBits \in Int /\ WordBits \in Nat
      BY <1>1, WordBitsPos
    <2>7. CASE i < c.scratchBits
      BY <1>9, <1>10, <2>4, <2>5, <2>6, <2>7
    <2>8. CASE i >= c.scratchBits /\ i < c.scratchBits + WordBits
      <3>1. i - c.scratchBits + 1 \in 1 .. WordBits
        BY <2>6, <2>8
      <3>2. w[i - c.scratchBits + 1] = words[a + (i - c.scratchBits + 1)]
        BY <2>1, <3>1 DEF Slice
      <3>3. a + (i - c.scratchBits + 1) = Position(c) + i + 1
        BY <1>3, <2>6
      <3>4. w[i - c.scratchBits + 1] \in Bit
        BY <2>3, <3>1, ElementOfSeq
      <3>5. ~(i < c.scratchBits) /\ i < f.scratchBits
        BY <1>9, <2>6, <2>8
      <3>6. QED
        BY <1>9, <1>10, <2>4, <2>5, <2>8, <3>2, <3>3, <3>4, <3>5 DEF Bit
    <2>9. CASE i >= c.scratchBits + WordBits
      <3>1. ~(i < c.scratchBits) /\ ~(i < f.scratchBits) /\ ~(i < c.scratchBits + WordBits)
        BY <1>9, <2>6, <2>9
      <3>2. QED
        BY <1>9, <2>4, <2>5, <3>1
    <2>10. QED
      BY <2>6, <2>7, <2>8, <2>9
  <1>12. Loaded(f, words)
    BY <1>1, <1>3, <1>4, <1>9, <1>10, <1>11, WordBitsPos DEF Loaded
  <1>13. QED
    BY <1>6, <1>9, <1>10, <1>12

\* The scratch is filled when it must be, and holds less than a word too many.
LEMMA FetchIfNeededOK ==
    ASSUME Buffer(words), NEW c, ReaderOK(c, words), NEW n \in Nat, n <= WordBits,
           Position(c) + n <= Len(words)
    PROVE  LET f == FetchIfNeeded(c, n)
           IN  /\ Loaded(f, words) /\ Position(f) = Position(c)
               /\ n <= f.scratchBits /\ f.scratchBits - n < WordBits
               /\ f.usedBits = c.usedBits /\ f.taken = c.taken
  <1>1. c.scratchBits \in 0 .. WordBits - 1 /\ Position(c) \in Nat /\ Len(words) \in Nat
    BY WordBitsPos, LenProperties DEF ReaderOK, Loaded, Buffer
  <1>2. CASE n > c.scratchBits
    <2>1. Position(c) + c.scratchBits < Len(words)
      BY <1>1, <1>2
    <2>2. FetchIfNeeded(c, n) = FetchWord(c)
      BY <1>2 DEF FetchIfNeeded
    <2>3. PICK f : f = FetchWord(c)
      OBVIOUS
    <2>4. /\ Loaded(f, words) /\ Position(f) = Position(c)
          /\ f.scratchBits = c.scratchBits + WordBits
          /\ f.usedBits = c.usedBits /\ f.taken = c.taken
      BY <2>1, <2>3, FetchWordOK
    <2>5. n <= f.scratchBits /\ f.scratchBits - n < WordBits
      BY <1>1, <1>2, <2>4, WordBitsPos
    <2>6. QED
      BY <2>2, <2>3, <2>4, <2>5
  <1>3. CASE ~(n > c.scratchBits)
    <2>1. FetchIfNeeded(c, n) = c
      BY <1>3 DEF FetchIfNeeded
    <2>2. n <= c.scratchBits /\ c.scratchBits - n < WordBits
      BY <1>1, <1>3, WordBitsPos
    <2>3. QED
      BY <2>1, <2>2 DEF ReaderOK
  <1>4. QED
    BY <1>2, <1>3

\* Dropping the bits in front moves on by them.
LEMMA DropOK ==
    ASSUME Buffer(words), NEW c, Loaded(c, words), NEW n \in Nat,
           n <= c.scratchBits, c.scratchBits - n < WordBits
    PROVE  /\ ReaderOK(Drop(c, n), words)
           /\ Position(Drop(c, n)) = Position(c) + n
           /\ Drop(c, n).usedBits = c.usedBits
           /\ Drop(c, n).taken = c.taken
           /\ Front(c, n) = Slice(words, Position(c), n)
  <1>1. /\ c \in In /\ c.scratch \in Scratch /\ c.wordsIndex \in Nat
        /\ c.scratchBits \in 0 .. ScratchBits - 1 /\ Position(c) \in Nat
        /\ \A i \in 0 .. ScratchBits - 1 :
             c.scratch[i] = IF i < c.scratchBits THEN words[Position(c) + i + 1] ELSE 0
    BY DEF Loaded, In
  <1>2. PICK s : s = ShiftRight(c.scratch, n)
    OBVIOUS
  <1>3. PICK k : k = c.scratchBits - n
    OBVIOUS
  <1>4. PICK d : d = Drop(c, n)
    OBVIOUS
  <1>5. d = [c EXCEPT !.scratch = s, !.scratchBits = k]
    BY <1>2, <1>3, <1>4, Zenon DEF Drop
  <1>6. s \in Scratch /\ k \in 0 .. WordBits - 1
    <2>1. s \in Scratch
      BY <1>1, <1>2, ShiftRightTyped
    <2>2. c.scratchBits \in Nat /\ WordBits \in Nat
      BY <1>1, WordBitsPos
    <2>3. QED
      BY <1>3, <2>1, <2>2
  <1>7. /\ d \in In /\ d.scratch = s /\ d.scratchBits = k
        /\ d.wordsIndex = c.wordsIndex
        /\ d.usedBits = c.usedBits /\ d.taken = c.taken
    <2>1. k \in Int
      BY <1>6
    <2>2. QED
      BY <1>1, <1>5, <1>6, <2>1 DEF In
  <1>8. Position(d) = Position(c) + n
    <2>1. c.wordsIndex * WordBits \in Nat
      BY <1>1, WordBitsPos
    <2>2. QED
      BY <1>1, <1>3, <1>7, <2>1 DEF Position
  <1>9. ASSUME NEW i \in 0 .. ScratchBits - 1
        PROVE  d.scratch[i] = IF i < d.scratchBits
                              THEN words[Position(d) + i + 1] ELSE 0
    <2>1. s[i] = IF i + n < ScratchBits THEN c.scratch[i + n] ELSE 0
      BY <1>2 DEF ShiftRight
    <2>2. i \in Nat /\ Position(c) \in Nat /\ WordBits \in Nat
      BY <1>1, WordBitsPos
    <2>3. i < k <=> i + n < c.scratchBits
      BY <1>1, <1>3, <2>2
    <2>4. Position(d) + i + 1 = Position(c) + (i + n) + 1
      BY <1>8, <2>2
    <2>5. CASE i + n < ScratchBits
      <3>1. i + n \in 0 .. ScratchBits - 1
        BY <2>2, <2>5, WordBitsPos
      <3>2. c.scratch[i + n] = IF i + n < c.scratchBits
                               THEN words[Position(c) + (i + n) + 1] ELSE 0
        BY <1>1, <3>1
      <3>3. QED
        BY <1>7, <2>1, <2>3, <2>4, <2>5, <3>2
    <2>6. CASE ~(i + n < ScratchBits)
      <3>1. ~(i + n < c.scratchBits)
        BY <1>1, <2>2, <2>6, WordBitsPos
      <3>2. QED
        BY <1>7, <2>1, <2>3, <2>6, <3>1
    <2>7. QED
      BY <2>5, <2>6
  <1>10. ReaderOK(d, words)
    <2>1. c.wordsIndex * WordBits <= Len(words)
      BY DEF Loaded
    <2>2. Position(d) \in Nat
      BY <1>1, <1>8
    <2>3. k \in 0 .. ScratchBits - 1
      BY <1>6, WordBitsPos
    <2>4. /\ d.scratchBits \in 0 .. ScratchBits - 1 /\ d.scratchBits < WordBits
          /\ d.wordsIndex * WordBits <= Len(words)
      BY <1>6, <1>7, <2>1, <2>3, WordBitsPos
    <2>5. QED
      BY <1>7, <1>9, <2>2, <2>4, Zenon DEF ReaderOK, Loaded
  <1>11. Front(c, n) = Slice(words, Position(c), n)
    <2>1. ASSUME NEW i \in 1 .. n
          PROVE  c.scratch[i - 1] = words[Position(c) + i]
      <3>1. /\ i - 1 \in 0 .. ScratchBits - 1 /\ i - 1 < c.scratchBits
            /\ Position(c) + (i - 1) + 1 = Position(c) + i
        BY <1>1, WordBitsPos
      <3>2. QED
        BY <1>1, <3>1
    <2>2. QED
      BY <2>1 DEF Front, Slice
  <1>12. QED
    BY <1>4, <1>7, <1>8, <1>10, <1>11

\* What one take promises: the next n bits, and the reader moved on by them.
Took(t, c, n) ==
    /\ ReaderOK(t.reader, words)
    /\ Position(t.reader) = Position(c) + n
    /\ t.reader.usedBits = c.usedBits
    /\ t.reader.taken = c.taken
    /\ t.value = Slice(words, Position(c), n)

LEMMA TakeHalfOK ==
    ASSUME Buffer(words), NEW c, ReaderOK(c, words), NEW n \in Nat, n <= WordBits,
           Position(c) + n <= Len(words)
    PROVE  Took(TakeHalf(c, n), c, n)
  <1>1. PICK f : f = FetchIfNeeded(c, n)
    OBVIOUS
  <1>2. /\ Loaded(f, words) /\ Position(f) = Position(c)
        /\ n <= f.scratchBits /\ f.scratchBits - n < WordBits
        /\ f.usedBits = c.usedBits /\ f.taken = c.taken
    BY <1>1, FetchIfNeededOK
  <1>3. /\ ReaderOK(Drop(f, n), words)
        /\ Position(Drop(f, n)) = Position(f) + n
        /\ Drop(f, n).usedBits = f.usedBits
        /\ Drop(f, n).taken = f.taken
        /\ Front(f, n) = Slice(words, Position(f), n)
    BY <1>2, DropOK
  <1>4. /\ TakeHalf(c, n).reader = Drop(f, n)
        /\ TakeHalf(c, n).value = Front(f, n)
    BY <1>1 DEF TakeHalf
  <1>5. QED
    BY <1>2, <1>3, <1>4 DEF Took

\* The halves of a value that is wider than a word follow each other.
LEMMA TakeOK ==
    ASSUME Buffer(words), NEW c, ReaderOK(c, words), NEW n \in Nat, n <= ScratchBits,
           Position(c) + n <= Len(words)
    PROVE  Took(Take(c, n), c, n)
  <1>1. CASE n <= WordBits
    <2>1. Take(c, n) = TakeHalf(c, n)
      BY <1>1 DEF Take
    <2>2. QED
      BY <1>1, <2>1, TakeHalfOK
  <1>2. CASE ~(n <= WordBits)
    <2>0. /\ Position(c) \in Nat /\ Len(words) \in Nat /\ WordBits \in Nat
          /\ words \in Seq(Bit)
      BY WordBitsPos, LenProperties DEF ReaderOK, Loaded, Buffer
    <2>1. PICK low : low = TakeHalf(c, WordBits)
      OBVIOUS
    <2>2. Took(low, c, WordBits)
      <3>1. Position(c) + WordBits <= Len(words) /\ WordBits <= WordBits
        BY <1>2, <2>0
      <3>2. QED
        BY <2>0, <2>1, <3>1, TakeHalfOK
    <2>3. PICK m : m = n - WordBits
      OBVIOUS
    <2>4. /\ m \in Nat /\ m <= WordBits /\ WordBits + m = n
          /\ Position(low.reader) + m <= Len(words)
          /\ Position(low.reader) = Position(c) + WordBits
      BY <1>2, <2>0, <2>2, <2>3, WordBitsPos DEF Took
    <2>5. PICK high : high = TakeHalf(low.reader, m)
      OBVIOUS
    <2>6. Took(high, low.reader, m)
      BY <2>2, <2>4, <2>5, TakeHalfOK DEF Took
    <2>7. /\ Take(c, n).reader = high.reader
          /\ Take(c, n).value = low.value \o high.value
      BY <1>2, <2>1, <2>3, <2>5 DEF Take
    <2>8. low.value \o high.value = Slice(words, Position(c), n)
      <3>1. PICK p \in Nat : p = Position(c)
        BY <2>0
      <3>2. PICK q : q = Position(low.reader)
        OBVIOUS
      <3>3. low.value = Slice(words, p, WordBits) /\ high.value = Slice(words, q, m)
        BY <2>2, <2>6, <3>1, <3>2 DEF Took
      <3>4. q = p + WordBits /\ q + m <= Len(words)
        BY <2>4, <3>1, <3>2
      <3>5. Slice(words, p, WordBits) \o Slice(words, q, m) = Slice(words, p, n)
        <4>1. PICK b \in Nat : b = WordBits
          BY <2>0, <2>4
        <4>2. PICK k \in Nat : k = m
          BY <2>0, <2>4
        <4>3. PICK w \in Seq(Bit) : w = words
          BY <2>0
        <4>4. q = p + b /\ q + k <= Len(w) /\ n = b + k
          BY <2>0, <2>4, <3>4, <4>1, <4>2, <4>3
        <4>5. Slice(w, p, b) \o Slice(w, q, k) = Slice(w, p, n)
          <5>1. Slice(w, p, b) \o Slice(w, q, k) = Slice(w, p, b + k)
            BY <4>4, SliceConcat, Z3
          <5>2. QED
            BY <4>4, <5>1, Zenon
        <4>6. QED
          BY <4>1, <4>2, <4>3, <4>5, Zenon
      <3>6. QED
        BY <3>1, <3>3, <3>5, Zenon
    <2>9. Position(high.reader) = Position(c) + n
      <3>1. Position(high.reader) = Position(low.reader) + m
        BY <2>6, Zenon DEF Took
      <3>2. QED
        BY <2>0, <2>4, <3>1
    <2>10. QED
      BY <2>2, <2>6, <2>7, <2>8, <2>9 DEF Took
  <1>3. QED
    BY <1>1, <1>2

-----------------------------------------------------------------------------
\* A stream that has not failed: what was used lies before the scratch, and was
\* given out.
Synced(c) ==
    /\ ReaderOK(c, words)
    /\ Position(c) <= totalBits
    /\ c.usedBits = Position(c)
    /\ c.taken = Slice(words, 0, c.usedBits)

\* A stream that may be read: its logical length lies in the buffer.
Usable ==
    /\ Buffer(words) /\ totalBits \in Nat /\ totalBits <= Len(words)
    /\ totalBits + ScratchBits < SizeMod

LEMMA SyncedFacts ==
    ASSUME Usable, NEW c, Synced(c)
    PROVE  /\ words \in Seq(Bit) /\ Len(words) \in Nat /\ totalBits \in Nat
           /\ SizeMod \in Nat /\ Position(c) \in Nat
           /\ c.usedBits \in Nat /\ c.usedBits = Position(c)
           /\ c.usedBits <= totalBits /\ totalBits <= Len(words)
           /\ totalBits + ScratchBits < SizeMod
  BY LenProperties, ModAssumption
     DEF Usable, Synced, ReaderOK, Loaded, Buffer

\* The check of the logical length is exact.
LEMMA OverflowsExact ==
    ASSUME Usable, NEW c, Synced(c), NEW n \in Nat, n <= ScratchBits
    PROVE  Overflows(c, n) <=> c.usedBits + n > totalBits
  <1>1. c.usedBits + n \in Nat /\ c.usedBits + n < SizeMod
    BY SyncedFacts, WordBitsPos
  <1>2. Wrap(c.usedBits + n) = c.usedBits + n
    BY <1>1, WrapSmall
  <1>3. QED
    BY <1>2 DEF Overflows

\* The bits that were taken are counted, and are the next of those given out.
LEMMA CountOK ==
    ASSUME Usable, NEW c, Synced(c), NEW n \in Nat, n <= ScratchBits,
           c.usedBits + n <= totalBits, NEW t, Took(t, c, n)
    PROVE  Synced(Count(t)) /\ Count(t).usedBits = c.usedBits + n
  <1>1. /\ words \in Seq(Bit) /\ Len(words) \in Nat /\ totalBits \in Nat
        /\ Position(c) \in Nat /\ c.usedBits \in Nat /\ c.usedBits = Position(c)
        /\ totalBits <= Len(words) /\ totalBits + ScratchBits < SizeMod
        /\ SizeMod \in Nat
    BY SyncedFacts
  <1>2. PICK p \in Nat : p = c.usedBits
    BY <1>1
  <1>3. t.value = Slice(words, p, n) /\ p + n <= Len(words)
    BY <1>1, <1>2 DEF Took
  <1>4. t.value \in Seq(Bit) /\ Len(t.value) = n
    BY <1>1, <1>3, SliceTyped
  <1>5. PICK u : u = Wrap(t.reader.usedBits + Len(t.value))
    OBVIOUS
  <1>6. u = p + n /\ u \in Nat
    <2>1. p + n \in Nat /\ p + n < SizeMod
      BY <1>1, <1>2, WordBitsPos
    <2>2. t.reader.usedBits = p
      BY <1>2 DEF Took
    <2>3. QED
      BY <1>4, <1>5, <2>1, <2>2, WrapSmall
  <1>7. PICK g : g = t.reader.taken \o t.value
    OBVIOUS
  <1>8. g = Slice(words, 0, p + n) /\ g \in Seq(Bit)
    <2>1. t.reader.taken = Slice(words, 0, p)
      BY <1>2 DEF Took, Synced
    <2>2. p = 0 + p /\ p + n <= Len(words) /\ 0 \in Nat
      BY <1>3
    <2>3. Slice(words, 0, p) \o Slice(words, p, n) = Slice(words, 0, p + n)
      <3>1. PICK w \in Seq(Bit) : w = words
        BY <1>1
      <3>2. PICK z \in Nat : z = 0
        OBVIOUS
      <3>3. p = z + p /\ p + n <= Len(w)
        BY <2>2, <3>1, <3>2
      <3>4. Slice(w, z, p) \o Slice(w, p, n) = Slice(w, z, p + n)
        BY <3>3, SliceConcat
      <3>5. QED
        BY <3>1, <3>2, <3>4, Zenon
    <2>4. Slice(words, 0, p + n) \in Seq(Bit)
      <3>1. p + n \in Nat /\ 0 + (p + n) <= Len(words)
        BY <1>3
      <3>2. QED
        BY <1>1, <2>2, <3>1, SliceTyped
    <2>5. QED
      BY <1>3, <1>7, <2>1, <2>2, <2>3, <2>4
  <1>9. PICK d : d = Count(t)
    OBVIOUS
  <1>10. d = [t.reader EXCEPT !.usedBits = u, !.taken = g]
    BY <1>5, <1>7, <1>9, Zenon DEF Count
  <1>11. t.reader \in In
    BY DEF Took, ReaderOK, Loaded
  <1>12. /\ d \in In /\ d.usedBits = u /\ d.taken = g
         /\ d.scratch = t.reader.scratch
         /\ d.scratchBits = t.reader.scratchBits
         /\ d.wordsIndex = t.reader.wordsIndex
    BY <1>6, <1>8, <1>10, <1>11 DEF In
  <1>13. Position(d) = Position(t.reader)
    BY <1>12 DEF Position
  <1>14. ReaderOK(d, words)
    <2>1. ReaderOK(t.reader, words)
      BY DEF Took
    <2>2. QED
      BY <1>12, <1>13, <2>1 DEF ReaderOK, Loaded
  <1>15. Position(d) = p + n
    BY <1>1, <1>2, <1>13 DEF Took
  <1>16. QED
    BY <1>2, <1>6, <1>8, <1>9, <1>12, <1>14, <1>15 DEF Synced

\* What was taken may also be left uncounted: the position stays within the
\* logical length.
LEMMA TakeInside ==
    ASSUME Usable, NEW c, Synced(c), NEW n \in Nat, n <= ScratchBits,
           c.usedBits + n <= totalBits
    PROVE  /\ Took(Take(c, n), c, n)
           /\ Take(c, n).value \in Seq(Bit) /\ Len(Take(c, n).value) = n
  <1>1. /\ words \in Seq(Bit) /\ Position(c) \in Nat
        /\ Position(c) + n <= Len(words)
    BY SyncedFacts
  <1>2. Took(Take(c, n), c, n)
    BY <1>1, TakeOK DEF Usable, Synced
  <1>3. QED
    BY <1>1, <1>2, SliceTyped DEF Took

\* read_string_length reads a number, or fails, and leaves the stream in step.
LEMMA ReadLengthOK ==
    ASSUME Usable, NEW c, Synced(c)
    PROVE  /\ Synced(ReadLength(c).reader)
           /\ ReadLength(c).reader.usedBits >= c.usedBits
           /\ ReadLength(c).length \in Int
           /\ ReadLength(c).failed \in BOOLEAN
  <1>1. PrefixPrefixBits \in Nat /\ PrefixPrefixBits <= ScratchBits
    BY ByteBitsAssumption DEF PrefixPrefixBits, ScratchBits, WordBits, WordBytes
  <1>2. CASE Overflows(c, PrefixPrefixBits)
    <2>1. ReadLength(c) = Result(c, TRUE, -1)
      BY <1>2, Zenon DEF ReadLength
    <2>2. c.usedBits >= c.usedBits
      BY SyncedFacts
    <2>3. QED
      BY <2>1, <2>2 DEF Result
  <1>3. CASE ~Overflows(c, PrefixPrefixBits)
    <2>1. c.usedBits + PrefixPrefixBits <= totalBits
      BY <1>1, <1>3, OverflowsExact, SyncedFacts
    <2>2. PICK first : first = Take(c, PrefixPrefixBits)
      OBVIOUS
    <2>3. /\ Took(first, c, PrefixPrefixBits)
          /\ first.value \in Seq(Bit) /\ Len(first.value) = PrefixPrefixBits
      BY <1>1, <2>1, <2>2, TakeInside
    <2>4. PICK then : then = Count(first)
      OBVIOUS
    <2>5. Synced(then) /\ then.usedBits = c.usedBits + PrefixPrefixBits
      BY <1>1, <2>1, <2>3, <2>4, CountOK
    <2>6. then.usedBits >= c.usedBits /\ then.usedBits \in Nat /\ c.usedBits \in Nat
      BY <1>1, <2>5, SyncedFacts
    <2>7. PICK n : n = PrefixBits(Number(first.value))
      OBVIOUS
    <2>8. n \in Nat /\ n <= ScratchBits
      <3>1. PICK k \in 0 .. 3 : k = Number(first.value)
        BY <2>3, NumberOfPrefix
      <3>2. k = 0 \/ k = 1 \/ k = 2 \/ k = 3
        OBVIOUS
      <3>3. \/ n = ByteBits * 1 \/ n = ByteBits * 2
            \/ n = ByteBits * 4 \/ n = ByteBits * 8
        BY <2>7, <3>1, <3>2 DEF PrefixBits
      <3>4. QED
        BY <3>3, ByteBitsAssumption DEF ScratchBits, WordBits, WordBytes
    <2>9. CASE Overflows(then, n)
      <3>1. ReadLength(c) = Result(then, TRUE, -1)
        BY <1>3, <2>2, <2>4, <2>7, <2>9, Zenon DEF ReadLength
      <3>2. QED
        BY <2>5, <2>6, <3>1 DEF Result
    <2>10. CASE ~Overflows(then, n)
      <3>1. then.usedBits + n <= totalBits
        BY <2>5, <2>8, <2>10, OverflowsExact, SyncedFacts
      <3>2. PICK length : length = Take(then, n)
        OBVIOUS
      <3>3. /\ Took(length, then, n)
            /\ length.value \in Seq(Bit) /\ Len(length.value) = n
        BY <2>5, <2>8, <3>1, <3>2, TakeInside
      <3>4. Synced(Count(length)) /\ Count(length).usedBits = then.usedBits + n
        BY <2>5, <2>8, <3>1, <3>3, CountOK
      <3>5. Count(length).usedBits >= c.usedBits
        BY <2>6, <2>8, <3>4
      <3>6. ToSSize(Number(length.value)) \in Int
        <4>1. Number(length.value) \in Nat
          BY <3>3, NumberTyped
        <4>2. QED
          BY <4>1, ModAssumption DEF ToSSize
      <3>7. ReadLength(c) = Result(Count(length), FALSE,
                                   ToSSize(Number(length.value)))
        BY <1>3, <2>2, <2>4, <2>7, <2>10, <3>2, Zenon DEF ReadLength
      <3>8. QED
        BY <3>4, <3>5, <3>6, <3>7 DEF Result
    <2>11. QED
      BY <2>9, <2>10
  <1>4. QED
    BY <1>2, <1>3

-----------------------------------------------------------------------------
(* The invariant. *)

ConfigInv ==
    /\ words \in Buffers \cup {<<>>}
    /\ totalBits \in Totals
    /\ IF initFail THEN fail ELSE totalBits <= Len(words)

LoopInv ==
    /\ in.usedBits + left * unit <= totalBits
    /\ left > 0 => ~fail /\ unit <= WordBits

\* A read that was refused for its range leaves the position past the bits that
\* were counted, and the stream failed.
StreamInv ==
    /\ ReaderOK(in, words)
    /\ Position(in) <= totalBits
    /\ in.usedBits <= Position(in)
    /\ ~fail => in.usedBits = Position(in)
    /\ in.taken = Slice(words, 0, in.usedBits)

ReaderInv == TypeOK /\ ConfigInv /\ StreamInv /\ LoopInv

LEMMA BuffersOK == \A b \in Buffers \cup {<<>>} : Buffer(b)
  <1>1. Buffer(<<>>)
    <2>1. <<>> \in Seq(Bit) /\ Len(<<>>) = 0
      BY EmptySeq
    <2>2. 0 \in 0 .. 0 /\ 0 = 0 * WordBits
      BY WordBitsPos
    <2>3. QED
      BY <2>1, <2>2 DEF Buffer
  <1>2. \A b \in Buffers : Buffer(b)
    BY BuffersAssumption DEF Buffer
  <1>3. QED
    BY <1>1, <1>2

LEMMA NotFailed ==
    ASSUME ReaderInv, NoWrap, ~fail
    PROVE  Usable /\ Synced(in) /\ ~initFail
  <1>1. ~initFail /\ totalBits <= Len(words) /\ words \in Buffers \cup {<<>>}
    BY DEF ReaderInv, ConfigInv
  <1>2. Buffer(words) /\ totalBits + ScratchBits < SizeMod
    BY <1>1, BuffersOK DEF NoWrap, ReaderInv, ConfigInv
  <1>3. totalBits \in Nat
    BY DEF ReaderInv, TypeOK
  <1>4. Synced(in)
    BY DEF ReaderInv, StreamInv, Synced
  <1>5. QED
    BY <1>1, <1>2, <1>3, <1>4 DEF Usable

\* A stream starts over, on any buffer.
LEMMA RestartKeepsInv ==
    ASSUME ReaderInv, Idle, UNCHANGED <<left, unit, peeked>>,
           NEW f \in BOOLEAN, Restarted(f),
           words' \in Buffers \cup {<<>>}, totalBits' \in Totals,
           initFail' \in BOOLEAN,
           IF initFail' THEN f ELSE totalBits' <= Len(words')
    PROVE  ReaderInv'
  <1>1. /\ in' = [scratch |-> EmptyScratch, scratchBits |-> 0, wordsIndex |-> 0,
                  usedBits |-> 0, taken |-> <<>>]
        /\ fail' = f
    BY DEF Restarted
  <1>2. totalBits' \in Nat
    BY TotalsOK
  <1>3. EmptyScratch \in Scratch /\ <<>> \in Seq(Bit)
    BY WordBitsPos, EmptySeq DEF EmptyScratch, Scratch, Bit
  <1>4. /\ in' \in In /\ in'.scratch = EmptyScratch /\ in'.scratchBits = 0
        /\ in'.wordsIndex = 0 /\ in'.usedBits = 0 /\ in'.taken = <<>>
    BY <1>1, <1>3 DEF In
  <1>5. words' \in Seq(Bit) /\ Len(words') \in Nat
    BY BuffersOK, LenProperties DEF Buffer
  <1>6. /\ left' \in Nat /\ unit' \in Nat /\ peeked' \in Int /\ left' = 0
        /\ left' * unit' = 0
    BY DEF ReaderInv, TypeOK, Idle
  <1>7. TypeOK'
    <2>1. fail' \in BOOLEAN
      BY <1>1, Zenon
    <2>2. QED
      BY <1>2, <1>4, <1>5, <1>6, <2>1, Zenon DEF TypeOK
  <1>8. ConfigInv'
    BY <1>1 DEF ConfigInv
  <1>9. Position(in') = 0
    BY <1>4, WordBitsPos DEF Position
  <1>10. ReaderOK(in', words')
    <2>1. \A i \in 0 .. ScratchBits - 1 : in'.scratch[i] = 0 /\ ~(i < in'.scratchBits)
      BY <1>4, WordBitsPos DEF EmptyScratch
    <2>2. in'.wordsIndex * WordBits <= Len(words')
      BY <1>4, <1>5, WordBitsPos
    <2>3. /\ in'.scratchBits \in 0 .. ScratchBits - 1 /\ Position(in') \in Nat
          /\ in'.scratchBits < WordBits
      BY <1>4, <1>9, WordBitsPos
    <2>4. QED
      BY <1>4, <2>1, <2>2, <2>3 DEF ReaderOK, Loaded
  <1>11. StreamInv'
    <2>1. Slice(words', 0, 0) = <<>>
      BY DEF Slice
    <2>2. QED
      BY <1>2, <1>4, <1>9, <1>10, <2>1 DEF StreamInv
  <1>12. LoopInv'
    BY <1>2, <1>4, <1>6 DEF LoopInv
  <1>13. QED
    BY <1>7, <1>8, <1>11, <1>12 DEF ReaderInv

\* A call that leaves the stream in step, whether it fails or not.
LEMMA MoveKeepsInv ==
    ASSUME ReaderInv, NoWrap, ~fail, Synced(in'), UNCHANGED config,
           fail' \in BOOLEAN, left' \in Nat, unit' \in Nat, peeked' \in Int,
           left' > 0 => ~fail' /\ unit' <= WordBits,
           in'.usedBits + left' * unit' <= totalBits
    PROVE  ReaderInv'
  <1>1. UNCHANGED <<words, totalBits, initFail>>
    BY DEF config
  <1>2. Usable /\ ~initFail
    BY NotFailed
  <1>3. TypeOK'
    <2>1. in' \in In
      BY DEF Synced, ReaderOK, Loaded
    <2>2. words \in Seq(Bit) /\ totalBits \in Nat /\ initFail \in BOOLEAN
      BY DEF ReaderInv, TypeOK
    <2>3. QED
      BY <1>1, <2>1, <2>2 DEF TypeOK
  <1>4. ConfigInv'
    BY <1>1, <1>2 DEF ReaderInv, ConfigInv
  <1>5. StreamInv'
    <2>1. /\ ReaderOK(in', words') /\ Position(in') <= totalBits'
          /\ in'.usedBits = Position(in')
          /\ in'.taken = Slice(words', 0, in'.usedBits)
      BY <1>1 DEF Synced
    <2>2. Position(in') \in Nat
      BY <2>1 DEF ReaderOK, Loaded
    <2>3. QED
      BY <2>1, <2>2 DEF StreamInv
  <1>6. LoopInv'
    BY <1>1 DEF LoopInv
  <1>7. QED
    BY <1>3, <1>4, <1>5, <1>6 DEF ReaderInv

\* A call that changes nothing but the fail flag, or a peek's result.
LEMMA RefuseKeepsInv ==
    ASSUME ReaderInv, Idle, UNCHANGED <<in, config, left, unit>>,
           fail' \in BOOLEAN, fail => fail', peeked' \in Int
    PROVE  ReaderInv'
  <1>1. UNCHANGED <<words, totalBits, initFail>> /\ left' = 0
    BY DEF config, Idle
  <1>2. TypeOK'
    BY <1>1 DEF ReaderInv, TypeOK
  <1>3. ConfigInv'
    BY <1>1 DEF ReaderInv, ConfigInv
  <1>4. StreamInv'
    BY <1>1 DEF ReaderInv, StreamInv
  <1>5. LoopInv'
    BY <1>1 DEF ReaderInv, LoopInv
  <1>6. QED
    BY <1>2, <1>3, <1>4, <1>5 DEF ReaderInv

LEMMA LoopProduct ==
    \A n, u \in Nat : /\ n * u \in Nat
                      /\ n > 0 => (n - 1) * u = n * u - u
                      /\ n > 0 => n * u >= u
  OBVIOUS

LEMMA ReadKeepsInv ==
    ASSUME ReaderInv, NoWrap, NEW r \in Ranges, Read(r)
    PROVE  ReaderInv'
  <1>1. /\ Idle /\ ~fail /\ UNCHANGED <<config, left, unit, peeked>>
    BY DEF Read
  <1>2. Usable /\ Synced(in) /\ ~initFail
    BY <1>1, NotFailed
  <1>3. PICK n : n = r.bits
    OBVIOUS
  <1>4. n \in Nat /\ n <= ScratchBits
    BY <1>3, RangesAssumption, WordBitsPos
  <1>5. /\ left' = 0 /\ left' \in Nat /\ unit' \in Nat /\ peeked' \in Int
        /\ left' * unit' = 0 /\ totalBits \in Nat
    BY <1>1 DEF ReaderInv, TypeOK, Idle
  <1>6. CASE Overflows(in, n)
    <2>1. fail' = TRUE /\ in' = in
      BY <1>3, <1>6 DEF Read
    <2>2. UNCHANGED <<in, config, left, unit>> /\ fail' \in BOOLEAN /\ fail'
      BY <1>1, <2>1
    <2>3. QED
      BY <1>1, <1>5, <2>2, RefuseKeepsInv
  <1>7. CASE ~Overflows(in, n)
    <2>1. in.usedBits + n <= totalBits
      BY <1>2, <1>4, <1>7, OverflowsExact, SyncedFacts
    <2>2. PICK t : t = Take(in, n)
      OBVIOUS
    <2>3. Took(t, in, n)
      BY <1>2, <1>4, <2>1, <2>2, TakeInside
    <2>4. \/ in' = Count(t) /\ fail' = FALSE
          \/ in' = t.reader /\ fail' = TRUE
      BY <1>3, <1>7, <2>2 DEF Read
    <2>5. CASE in' = Count(t) /\ fail' = FALSE
      <3>1. Synced(in') /\ in'.usedBits = in.usedBits + n
        BY <1>2, <1>4, <2>1, <2>3, <2>5, CountOK
      <3>2. in'.usedBits + left' * unit' <= totalBits
        BY <1>2, <1>4, <1>5, <2>1, <3>1, SyncedFacts
      <3>3. fail' \in BOOLEAN
        BY <2>5, Zenon
      <3>4. ~(left' > 0)
        BY <1>5
      <3>5. QED
        BY <1>1, <1>5, <3>1, <3>2, <3>3, <3>4, MoveKeepsInv
    <2>6. CASE in' = t.reader /\ fail' = TRUE
      <3>1. UNCHANGED <<words, totalBits, initFail>>
        BY <1>1 DEF config
      <3>2. /\ ReaderOK(in', words) /\ Position(in') = Position(in) + n
            /\ in'.usedBits = in.usedBits /\ in'.taken = in.taken
        BY <2>3, <2>6 DEF Took
      <3>3. /\ in.usedBits \in Nat /\ Position(in) = in.usedBits
            /\ in.taken = Slice(words, 0, in.usedBits)
        BY <1>2, SyncedFacts DEF Synced
      <3>4. TypeOK'
        <4>1. in' \in In
          BY <3>2 DEF ReaderOK, Loaded
        <4>2. words \in Seq(Bit) /\ totalBits \in Nat /\ initFail \in BOOLEAN
          BY DEF ReaderInv, TypeOK
        <4>3. QED
          BY <1>5, <2>6, <3>1, <4>1, <4>2 DEF TypeOK
      <3>5. ConfigInv'
        BY <1>2, <3>1 DEF ReaderInv, ConfigInv
      <3>6. StreamInv'
        BY <1>4, <2>1, <2>6, <3>1, <3>2, <3>3 DEF StreamInv
      <3>7. LoopInv'
        BY <1>4, <1>5, <2>1, <3>1, <3>2, <3>3 DEF LoopInv
      <3>8. QED
        BY <3>4, <3>5, <3>6, <3>7 DEF ReaderInv
    <2>7. QED
      BY <2>4, <2>5, <2>6
  <1>8. QED
    BY <1>6, <1>7

LEMMA ReadBytesKeepsInv ==
    ASSUME ReaderInv, NoWrap, NEW size \in ByteCounts, ReadBytes(size)
    PROVE  ReaderInv'
  <1>1. /\ Idle /\ ~fail /\ UNCHANGED <<in, config, peeked>>
    BY DEF ReadBytes
  <1>2. Usable /\ Synced(in) /\ ~initFail
    BY <1>1, NotFailed
  <1>3. size \in Nat /\ peeked' \in Int /\ unit \in Nat
    BY <1>1, CountsAssumption DEF ReaderInv, TypeOK
  <1>4. CASE Overflows(in, ByteBits * size)
    <2>1. fail' = TRUE /\ UNCHANGED <<in, config, left, unit>>
      BY <1>1, <1>4 DEF ReadBytes
    <2>2. QED
      BY <1>1, <1>3, <2>1, RefuseKeepsInv
  <1>5. CASE ~Overflows(in, ByteBits * size)
    <2>1. left' = size /\ unit' = ByteBits /\ fail' = fail
      BY <1>5 DEF ReadBytes
    <2>2. PICK bits : bits = ByteBits * size
      OBVIOUS
    <2>3. bits \in Nat /\ bits = size * ByteBits
      BY <1>3, <2>2, ByteBitsAssumption
    <2>4. totalBits + bits < SizeMod
      BY <2>2 DEF NoWrap, ReaderInv, ConfigInv
    <2>5. in.usedBits + bits \in Nat /\ in.usedBits + bits < SizeMod
      BY <1>2, <2>3, <2>4, SyncedFacts
    <2>6. in.usedBits + bits <= totalBits
      <3>1. ~(Wrap(in.usedBits + bits) > totalBits)
        BY <1>5, <2>2 DEF Overflows
      <3>2. QED
        BY <1>2, <2>5, <3>1, WrapSmall, SyncedFacts
    <2>7. in'.usedBits + left' * unit' <= totalBits
      BY <1>1, <2>1, <2>3, <2>6
    <2>8. /\ left' \in Nat /\ unit' \in Nat /\ unit' <= WordBits
          /\ fail' \in BOOLEAN /\ ~fail'
      BY <1>1, <1>3, <2>1, ByteBitsAssumption
         DEF WordBits, WordBytes, ReaderInv, TypeOK
    <2>9. Synced(in')
      BY <1>1, <1>2
    <2>10. QED
      BY <1>1, <1>3, <2>7, <2>8, <2>9, MoveKeepsInv
  <1>6. QED
    BY <1>4, <1>5

LEMMA ReadStringKeepsInv ==
    ASSUME ReaderInv, NoWrap, NEW max \in MaxLengths, NEW c \in CharBytes,
           ReadString(max, c)
    PROVE  ReaderInv'
  <1>1. /\ Idle /\ ~fail /\ UNCHANGED <<config, peeked>>
    BY DEF ReadString
  <1>2. Usable /\ Synced(in) /\ ~initFail
    BY <1>1, NotFailed
  <1>3. c \in Nat /\ (c = 1 \/ c = 2 \/ c = 3 \/ c = 4) /\ peeked' \in Int
    BY <1>1, CharBytesAssumption DEF ReaderInv, TypeOK
  <1>4. PICK r : r = ReadLength(in)
    OBVIOUS
  <1>5. Synced(r.reader) /\ r.length \in Int
    BY <1>2, <1>4, ReadLengthOK
  <1>6. in' = r.reader
    BY <1>4 DEF ReadString
  <1>7. in'.usedBits \in Nat /\ in'.usedBits <= totalBits /\ totalBits \in Nat
    BY <1>2, <1>5, <1>6, SyncedFacts
  <1>8. CASE StringFits(r, max, c)
    <2>1. left' = r.length /\ unit' = ByteBits * c /\ fail' = fail
      BY <1>4, <1>8 DEF ReadString
    <2>2. /\ r.length >= 0
          /\ r.reader.usedBits + StringBits(r.length, c) <= totalBits
      BY <1>8 DEF StringFits
    <2>3. left' \in Nat
      BY <1>5, <2>1, <2>2
    <2>4. PICK n \in Nat : n = r.length
      BY <2>1, <2>3
    <2>5. StringBits(n, c) = n * (ByteBits * c)
      BY <1>3, ByteBitsAssumption DEF StringBits
    <2>6. in'.usedBits + left' * unit' <= totalBits
      BY <1>6, <2>1, <2>2, <2>4, <2>5
    <2>7. unit' \in Nat /\ unit' <= WordBits
      BY <1>3, <2>1, ByteBitsAssumption DEF WordBits, WordBytes
    <2>8. fail' \in BOOLEAN /\ ~fail'
      BY <1>1, <2>1 DEF ReaderInv, TypeOK
    <2>9. QED
      BY <1>1, <1>3, <1>5, <1>6, <2>3, <2>6, <2>7, <2>8, MoveKeepsInv
  <1>9. CASE ~StringFits(r, max, c)
    <2>1. fail' = TRUE /\ UNCHANGED <<left, unit>>
      BY <1>4, <1>9 DEF ReadString
    <2>2. /\ left' = 0 /\ left' \in Nat /\ unit' \in Nat /\ fail' \in BOOLEAN
          /\ left' * unit' = 0
      BY <1>1, <2>1 DEF ReaderInv, TypeOK, Idle
    <2>3. in'.usedBits + left' * unit' <= totalBits
      BY <1>7, <2>2
    <2>4. QED
      BY <1>1, <1>3, <1>5, <1>6, <2>2, <2>3, MoveKeepsInv
  <1>10. QED
    BY <1>8, <1>9

LEMMA ReadNextKeepsInv ==
    ASSUME ReaderInv, NoWrap, ReadNext
    PROVE  ReaderInv'
  <1>1. /\ left > 0 /\ in' = DoRead(in, unit) /\ left' = left - 1
        /\ UNCHANGED <<config, fail, unit, peeked>>
    BY DEF ReadNext
  <1>2. /\ left \in Nat /\ unit \in Nat /\ peeked' \in Int /\ fail \in BOOLEAN
        /\ totalBits \in Nat /\ ~fail /\ unit <= WordBits
    BY <1>1 DEF ReaderInv, TypeOK, LoopInv
  <1>3. Usable /\ Synced(in) /\ ~initFail
    BY <1>2, NotFailed
  <1>4. /\ left * unit \in Nat /\ left' * unit = left * unit - unit
        /\ left * unit >= unit
    BY <1>1, <1>2, LoopProduct
  <1>5. in.usedBits + left * unit <= totalBits /\ in.usedBits \in Nat
    BY <1>3, SyncedFacts DEF ReaderInv, LoopInv
  <1>6. unit <= ScratchBits /\ in.usedBits + unit <= totalBits
    BY <1>2, <1>4, <1>5, WordBitsPos
  <1>7. PICK t : t = Take(in, unit)
    OBVIOUS
  <1>8. Took(t, in, unit)
    BY <1>2, <1>3, <1>6, <1>7, TakeInside
  <1>9. Synced(Count(t)) /\ Count(t).usedBits = in.usedBits + unit
    BY <1>2, <1>3, <1>6, <1>8, CountOK
  <1>10. in' = Count(t)
    BY <1>1, <1>7 DEF DoRead
  <1>11. in'.usedBits + left' * unit' <= totalBits
    BY <1>1, <1>2, <1>4, <1>5, <1>9, <1>10
  <1>12. left' \in Nat /\ unit' \in Nat /\ fail' \in BOOLEAN /\ ~fail' /\ unit' <= WordBits
    BY <1>1, <1>2
  <1>13. QED
    BY <1>1, <1>2, <1>9, <1>10, <1>11, <1>12, MoveKeepsInv

LEMMA PeekKeepsInv ==
    ASSUME ReaderInv, NoWrap, PeekStringLength
    PROVE  ReaderInv'
  <1>1. Idle /\ ~fail /\ UNCHANGED <<in, config, left, unit>>
    BY DEF PeekStringLength
  <1>2. Usable /\ Synced(in)
    BY <1>1, NotFailed
  <1>3. fail' \in BOOLEAN /\ peeked' \in Int
    BY <1>2, ReadLengthOK DEF PeekStringLength
  <1>4. QED
    BY <1>1, <1>3, RefuseKeepsInv

LEMMA InvStep == NoWrap /\ ReaderInv /\ [Next]_vars => ReaderInv'
  <1> SUFFICES ASSUME NoWrap, ReaderInv, [Next]_vars PROVE ReaderInv'
    OBVIOUS
  <1>0. TypeOK /\ ConfigInv
    BY DEF ReaderInv
  <1>1. CASE Restart
    <2>1. /\ Idle /\ Restarted(initFail) /\ UNCHANGED <<left, unit, peeked>>
          /\ UNCHANGED <<words, totalBits, initFail>>
      BY <1>1 DEF Restart, config
    <2>2. initFail \in BOOLEAN /\ totalBits' \in Totals /\ initFail' \in BOOLEAN
      BY <1>0, <2>1 DEF TypeOK, ConfigInv
    <2>3. /\ words' \in Buffers \cup {<<>>}
          /\ IF initFail' THEN initFail ELSE totalBits' <= Len(words')
      BY <1>0, <2>1 DEF ConfigInv
    <2>4. QED
      BY <2>1, <2>2, <2>3, RestartKeepsInv
  <1>2. CASE Reset
    <2>1. /\ Idle /\ Restarted(TRUE) /\ words' = <<>> /\ totalBits' = 0
          /\ initFail' = TRUE /\ UNCHANGED <<left, unit, peeked>>
      BY <1>2 DEF Reset
    <2>2. totalBits' \in Totals /\ totalBits' <= Len(words')
      BY <2>1, EmptySeq DEF Totals
    <2>3. QED
      BY <2>1, <2>2, RestartKeepsInv
  <1>3. ASSUME NEW b \in Buffers, NEW isNull \in BOOLEAN,
               NEW l \in LogicalBytes, ResetWith(b, isNull, l)
        PROVE  ReaderInv'
    <2>1. /\ Idle /\ Restarted(initFail') /\ words' = b
          /\ initFail' = (isNull \/ b = <<>> \/ l > SizeBytes(b))
          /\ totalBits' = Wrap(ByteBits * l) /\ UNCHANGED <<left, unit, peeked>>
      BY <1>3 DEF ResetWith
    <2>2. l \in Nat /\ Len(b) \in Nat
      BY CountsAssumption, BuffersOK, LenProperties DEF Buffer
    <2>3. /\ totalBits' <= ByteBits * l /\ totalBits' \in Totals
          /\ totalBits' \in Nat /\ ByteBits * l \in Nat
      <3>1. ByteBits * l \in Nat
        BY <2>2, ByteBitsAssumption
      <3>2. totalBits' \in Totals
        BY <2>1 DEF Totals
      <3>3. QED
        BY <2>1, <3>1, <3>2, WrapShorter
    <2>4. initFail' \in BOOLEAN
      BY <2>1, Zenon
    <2>5. ~initFail' => totalBits' <= Len(words')
      <3>1. ~initFail' => ~(l > SizeBytes(b))
        BY <2>1, Zenon
      <3>2. SizeBytes(b) = Len(b) \div ByteBits
        BY DEF SizeBytes
      <3>3. PICK q : q = Len(b) \div ByteBits
        OBVIOUS
      <3>4. q \in Nat /\ ByteBits * q <= Len(b)
        BY <2>2, <3>3, ByteBitsAssumption
      <3>5. l <= q => ByteBits * l <= ByteBits * q
        BY <2>2, <3>4, ByteBitsAssumption
      <3>6. l <= q => ByteBits * l <= Len(b)
        <4>1. ByteBits * l \in Nat /\ ByteBits * q \in Nat
          BY <2>2, <3>4, ByteBitsAssumption
        <4>2. QED
          BY <2>2, <3>4, <3>5, <4>1
      <3>7. QED
        BY <2>1, <2>2, <2>3, <3>1, <3>2, <3>3, <3>4, <3>6
    <2>6. IF initFail' THEN initFail' ELSE totalBits' <= Len(words')
      BY <2>5, Zenon
    <2>7. words' \in Buffers \cup {<<>>}
      BY <2>1
    <2>8. QED
      BY <2>1, <2>3, <2>4, <2>6, <2>7, RestartKeepsInv
  <1>4. CASE SetFail
    <2>1. /\ Idle /\ UNCHANGED <<in, config, left, unit>>
          /\ fail' \in BOOLEAN /\ fail' /\ peeked' \in Int
      BY <1>0, <1>4 DEF SetFail, TypeOK
    <2>2. QED
      BY <2>1, RefuseKeepsInv
  <1>5. CASE PeekReturned \/ UNCHANGED vars
    <2>1. /\ UNCHANGED <<in, words, totalBits, initFail, fail, left, unit>>
          /\ peeked' \in Int
      BY <1>0, <1>5 DEF PeekReturned, vars, config, TypeOK
    <2>2. TypeOK'
      BY <1>0, <2>1 DEF TypeOK
    <2>3. ConfigInv' /\ StreamInv' /\ LoopInv'
      BY <2>1 DEF ReaderInv, ConfigInv, StreamInv, LoopInv
    <2>4. QED
      BY <2>2, <2>3 DEF ReaderInv
  <1>6. QED
    BY <1>1, <1>2, <1>3, <1>4, <1>5, ReadKeepsInv, ReadBytesKeepsInv,
       ReadStringKeepsInv, ReadNextKeepsInv, PeekKeepsInv DEF Next

LEMMA InvInit == Init => ReaderInv
  <1> SUFFICES ASSUME Init PROVE ReaderInv
    OBVIOUS
  <1>1. EmptyScratch \in Scratch /\ <<>> \in Seq(Bit) /\ Len(<<>>) = 0
    BY WordBitsPos, EmptySeq DEF EmptyScratch, Scratch, Bit
  <1>2. /\ in \in In /\ in.scratch = EmptyScratch /\ in.scratchBits = 0
        /\ in.wordsIndex = 0 /\ in.usedBits = 0 /\ in.taken = <<>>
    BY <1>1 DEF Init, In
  <1>3. /\ words = <<>> /\ totalBits = 0 /\ initFail = TRUE /\ fail = TRUE
        /\ left = 0 /\ unit = 0 /\ peeked = 0
    BY DEF Init
  <1>4. TypeOK
    BY <1>1, <1>2, <1>3 DEF TypeOK
  <1>5. ConfigInv /\ LoopInv
    BY <1>2, <1>3 DEF ConfigInv, LoopInv, Totals
  <1>6. Position(in) = 0
    BY <1>2, WordBitsPos DEF Position
  <1>7. ReaderOK(in, words)
    <2>1. \A i \in 0 .. ScratchBits - 1 : in.scratch[i] = 0 /\ ~(i < in.scratchBits)
      BY <1>2, WordBitsPos DEF EmptyScratch
    <2>2. /\ in.scratchBits \in 0 .. ScratchBits - 1 /\ Position(in) \in Nat
          /\ in.scratchBits < WordBits /\ in.wordsIndex * WordBits <= Len(words)
      BY <1>1, <1>2, <1>3, <1>6, WordBitsPos
    <2>3. QED
      BY <1>2, <2>1, <2>2 DEF ReaderOK, Loaded
  <1>8. Slice(words, 0, 0) = <<>>
    BY DEF Slice
  <1>9. StreamInv
    BY <1>2, <1>3, <1>6, <1>7, <1>8 DEF StreamInv
  <1>10. QED
    BY <1>4, <1>5, <1>9 DEF ReaderInv

LEMMA InductiveInvariant == NoWrap => (Spec => []ReaderInv)
  <1>1. SUFFICES ASSUME NoWrap PROVE Spec => []ReaderInv
    OBVIOUS
  <1>2. ReaderInv /\ [Next]_vars => ReaderInv'
    BY <1>1, InvStep
  <1>3. QED
    BY <1>2, InvInit, PTL DEF Spec

-----------------------------------------------------------------------------
\* The reader is well-typed, the length that a peek returns included.
THEOREM TypeCorrect == ASSUME NoWrap PROVE Spec => []TypeOK
  <1>1. ReaderInv => TypeOK
    BY DEF ReaderInv
  <1>2. QED
    BY <1>1, InductiveInvariant, PTL

\* What was loaded is what was used and what the scratch holds.
THEOREM CursorsCorrect == ASSUME NoWrap PROVE Spec => []CursorsAgree
  <1>1. ReaderInv => CursorsAgree
    <2> SUFFICES ASSUME ReaderInv, ~fail PROVE
          /\ in.wordsIndex * WordBits = in.usedBits + in.scratchBits
          /\ in.scratchBits \in 0 .. WordBits - 1
      BY DEF CursorsAgree
    <2>1. /\ in.usedBits = Position(in)
          /\ in.scratchBits \in 0 .. ScratchBits - 1 /\ in.scratchBits < WordBits
          /\ in.wordsIndex \in Nat
      BY DEF ReaderInv, StreamInv, ReaderOK, Loaded, In
    <2>2. in.wordsIndex * WordBits \in Nat
      BY <2>1, WordBitsPos
    <2>3. QED
      BY <2>1, <2>2, WordBitsPos DEF Position
  <1>2. QED
    BY <1>1, InductiveInvariant, PTL

\* No word is loaded from outside the buffer, whatever the stream holds.
THEOREM NeverOverreads == ASSUME NoWrap PROVE Spec => []NoOverread
  <1>1. ReaderInv => NoOverread
    <2> SUFFICES ASSUME ReaderInv PROVE NoOverread
      OBVIOUS
    <2>1. /\ in.wordsIndex * WordBits <= Len(words)
          /\ Position(in) <= totalBits /\ totalBits \in Nat
          /\ in.scratchBits \in 0 .. ScratchBits - 1 /\ in.scratchBits < WordBits
          /\ in.wordsIndex \in Nat
      BY DEF ReaderInv, TypeOK, StreamInv, ReaderOK, Loaded, In
    <2>2. in.wordsIndex * WordBits \in Nat
      BY <2>1, WordBitsPos
    <2>3. in.wordsIndex * WordBits < totalBits + WordBits
      BY <2>1, <2>2, WordBitsPos DEF Position
    <2>4. QED
      BY <2>1, <2>3 DEF NoOverread
  <1>2. QED
    BY <1>1, InductiveInvariant, PTL

\* The scratch is the next part of the buffer, with zeros above.
THEOREM ScratchCorrect == ASSUME NoWrap PROVE Spec => []ScratchIsNext
  <1>1. ReaderInv => ScratchIsNext
    BY DEF ReaderInv, StreamInv, ReaderOK, Loaded, ScratchIsNext
  <1>2. QED
    BY <1>1, InductiveInvariant, PTL

\* A read in pieces never finds the stream at its end.
THEOREM LoopsFit == ASSUME NoWrap PROVE Spec => []LoopFits
  <1>1. ReaderInv => LoopFits
    BY DEF ReaderInv, LoopInv, LoopFits
  <1>2. QED
    BY <1>1, InductiveInvariant, PTL

\* What the reads have given, put together, is the front of the buffer.
THEOREM ReadsThePrefix == ASSUME NoWrap PROVE Spec => []TakenIsPrefix
  <1>1. ReaderInv => TakenIsPrefix
    <2> SUFFICES ASSUME ReaderInv PROVE TakenIsPrefix
      OBVIOUS
    <2>1. /\ in.taken = Slice(words, 0, in.usedBits) /\ words \in Seq(Bit)
          /\ in.usedBits \in Nat /\ in.usedBits <= Position(in)
          /\ in.wordsIndex * WordBits <= Len(words)
          /\ in.scratchBits \in 0 .. ScratchBits - 1
          /\ in.wordsIndex \in Nat
      BY DEF ReaderInv, TypeOK, StreamInv, ReaderOK, Loaded, In
    <2>2. in.wordsIndex * WordBits \in Nat /\ Len(words) \in Nat
      BY <2>1, WordBitsPos, LenProperties
    <2>3. in.usedBits <= Len(words)
      BY <2>1, <2>2, WordBitsPos DEF Position
    <2>4. /\ Slice(words, 0, in.usedBits) = SubSeq(words, 1, in.usedBits)
          /\ Len(Slice(words, 0, in.usedBits)) = in.usedBits
      <3>1. 0 + in.usedBits <= Len(words) /\ 0 \in Nat
        BY <2>1, <2>3
      <3>2. QED
        BY <2>1, <2>3, <3>1, SliceIsPrefix, SliceTyped
    <2>5. QED
      BY <2>1, <2>4 DEF TakenIsPrefix
  <1>2. QED
    BY <1>1, InductiveInvariant, PTL

-----------------------------------------------------------------------------
(* What a call reads from a stream in which it finds what it looks for: it   *)
(* succeeds, and ends where that ends.                                       *)

LEMMA TakenLength ==
    ASSUME ReaderInv, NoWrap, ~fail
    PROVE  Len(in.taken) = in.usedBits /\ in.usedBits \in Nat
  <1>1. Usable /\ Synced(in)
    BY NotFailed
  <1>2. PICK w \in Seq(Bit), p \in Nat : w = words /\ p = in.usedBits /\ p <= Len(w)
    BY <1>1, SyncedFacts
  <1>3. Len(Slice(w, 0, p)) = p
    BY <1>2, SliceTyped
  <1>4. QED
    BY <1>1, <1>2, <1>3 DEF Synced

\* The prefix and the length of a string lie in w from p on.
HoldsLength(w, p, k, len) ==
    /\ k \in 0 .. 3
    /\ len < 2 ^ PrefixBits(k)
    /\ Slice(w, p, PrefixPrefixBits) = ToBits(k, PrefixPrefixBits)
    /\ Slice(w, p + PrefixPrefixBits, PrefixBits(k)) = ToBits(len, PrefixBits(k))

LEMMA PrefixBitsOK ==
    ASSUME NEW k \in 0 .. 3
    PROVE  PrefixBits(k) \in Nat /\ PrefixBits(k) <= ScratchBits
  <1>1. k = 0 \/ k = 1 \/ k = 2 \/ k = 3
    OBVIOUS
  <1>2. QED
    BY <1>1, ByteBitsAssumption DEF PrefixBits, ScratchBits, WordBits, WordBytes

LEMMA ReadLengthGives ==
    ASSUME Usable, NEW c, Synced(c), NEW k \in 0 .. 3, NEW len \in Nat,
           HoldsLength(words, c.usedBits, k, len),
           c.usedBits + PrefixPrefixBits + PrefixBits(k) <= totalBits
    PROVE  LET r == ReadLength(c)
           IN  /\ ~r.failed /\ r.length = ToSSize(len) /\ Synced(r.reader)
               /\ r.reader.usedBits = c.usedBits + PrefixPrefixBits + PrefixBits(k)
  <1>1. PrefixPrefixBits \in Nat /\ PrefixPrefixBits <= ScratchBits
    BY ByteBitsAssumption DEF PrefixPrefixBits, ScratchBits, WordBits, WordBytes
  <1>2. PICK n : n = PrefixBits(k)
    OBVIOUS
  <1>3. n \in Nat /\ n <= ScratchBits
    BY <1>2, PrefixBitsOK
  <1>4. PICK p : p = c.usedBits
    OBVIOUS
  <1>5. p \in Nat /\ p = Position(c) /\ totalBits \in Nat
    BY <1>4, SyncedFacts
  <1>6. p + PrefixPrefixBits <= totalBits /\ (p + PrefixPrefixBits) + n <= totalBits
    BY <1>1, <1>2, <1>3, <1>4, <1>5
  <1>7. ~Overflows(c, PrefixPrefixBits)
    <2>1. Overflows(c, PrefixPrefixBits) <=> c.usedBits + PrefixPrefixBits > totalBits
      BY <1>1, OverflowsExact
    <2>2. QED
      BY <1>1, <1>4, <1>5, <1>6, <2>1
  <1>8. PICK first : first = Take(c, PrefixPrefixBits)
    OBVIOUS
  <1>9. Took(first, c, PrefixPrefixBits)
    BY <1>1, <1>4, <1>6, <1>8, TakeInside
  <1>10. Number(first.value) = k
    <2>1. first.value = ToBits(k, PrefixPrefixBits)
      BY <1>4, <1>5, <1>9 DEF Took, HoldsLength
    <2>2. k < 2 ^ PrefixPrefixBits
      <3>1. 2 ^ 2 = 2 * 2 ^ 1 /\ 2 ^ 1 = 2 * 2 ^ 0 /\ 2 ^ 0 = 1
        <4>1. 2 ^ (0 + 1) = 2 * 2 ^ 0 /\ 2 ^ (1 + 1) = 2 * 2 ^ 1
          BY PowerDoubles
        <4>2. QED
          BY <4>1
      <3>2. QED
        BY <3>1 DEF PrefixPrefixBits
    <2>3. QED
      BY <1>1, <2>1, <2>2, NumberOfBits
  <1>11. PICK then : then = Count(first)
    OBVIOUS
  <1>12. Synced(then) /\ then.usedBits = p + PrefixPrefixBits
    BY <1>1, <1>4, <1>6, <1>9, <1>11, CountOK
  <1>13. ~Overflows(then, n)
    BY <1>3, <1>5, <1>1, <1>6, <1>12, OverflowsExact
  <1>14. PICK length : length = Take(then, n)
    OBVIOUS
  <1>15. Took(length, then, n)
    BY <1>3, <1>6, <1>12, <1>14, TakeInside
  <1>16. Number(length.value) = len
    <2>1. Position(then) = p + PrefixPrefixBits
      BY <1>12 DEF Synced
    <2>2. length.value = ToBits(len, n)
      BY <1>2, <1>4, <1>15, <2>1 DEF Took, HoldsLength
    <2>3. len < 2 ^ n
      BY <1>2 DEF HoldsLength
    <2>4. QED
      BY <1>3, <2>2, <2>3, NumberOfBits
  <1>17. /\ Synced(Count(length))
         /\ Count(length).usedBits = (p + PrefixPrefixBits) + n
    BY <1>3, <1>6, <1>12, <1>15, CountOK
  <1>18. PrefixBits(Number(first.value)) = n
    BY <1>2, <1>10
  <1>19. ReadLength(c) = Result(Count(length), FALSE, ToSSize(Number(length.value)))
    BY <1>7, <1>8, <1>11, <1>13, <1>14, <1>18, Zenon DEF ReadLength
  <1>20. ReadLength(c) = Result(Count(length), FALSE, ToSSize(len))
    BY <1>16, <1>19
  <1>21. QED
    BY <1>2, <1>4, <1>17, <1>20 DEF Result

\* A length below half the range of the cast keeps its value.
LEMMA SmallSSize ==
    ASSUME NEW len \in Nat, len < LengthMod \div 2
    PROVE  ToSSize(len) = len
  <1>1. len < LengthMod /\ len % LengthMod = len
    BY ModAssumption
  <1>2. QED
    BY <1>1 DEF ToSSize

LEMMA ReadGives ==
    ASSUME ReaderInv, NoWrap, NEW r \in Ranges, Read(r),
           Len(in.taken) + r.bits <= totalBits,
           Number(Slice(words, Len(in.taken), r.bits)) <= r.span
    PROVE  /\ ~fail'
           /\ Len(in'.taken) + left' * unit' = Len(in.taken) + r.bits
  <1>1. /\ Idle /\ ~fail /\ UNCHANGED <<config, left, unit, peeked>>
    BY DEF Read
  <1>2. Usable /\ Synced(in)
    BY <1>1, NotFailed
  <1>3. PICK n : n = r.bits
    OBVIOUS
  <1>4. n \in Nat /\ n <= ScratchBits
    BY <1>3, RangesAssumption, WordBitsPos
  <1>5. PICK p \in Nat : p = in.usedBits /\ p = Len(in.taken) /\ p = Position(in)
    BY <1>1, <1>2, TakenLength DEF Synced
  <1>6. ~Overflows(in, n)
    BY <1>2, <1>3, <1>4, <1>5, OverflowsExact, SyncedFacts
  <1>7. PICK t : t = Take(in, n)
    OBVIOUS
  <1>8. Took(t, in, n)
    BY <1>2, <1>3, <1>4, <1>5, <1>7, TakeInside
  <1>9. t.value = Slice(words, p, n) /\ Number(t.value) <= r.span
    BY <1>3, <1>5, <1>8 DEF Took
  <1>10. t.value \in Seq(Bit)
    BY <1>2, <1>3, <1>4, <1>5, <1>7, TakeInside
  <1>11. ~(Number(t.value) > r.span)
    <2>1. Number(t.value) \in Nat
      BY <1>10, NumberTyped
    <2>2. r.span \in Nat
      BY RangesAssumption
    <2>3. QED
      BY <1>9, <2>1, <2>2
  <1>12. in' = Count(t) /\ fail' = FALSE
    BY <1>3, <1>6, <1>7, <1>11 DEF Read
  <1>13. Synced(in') /\ in'.usedBits = p + n
    BY <1>2, <1>3, <1>4, <1>5, <1>8, <1>12, CountOK
  <1>14. Len(in'.taken) = p + n
    <2>1. PICK w \in Seq(Bit), q \in Nat : w = words /\ q = in'.usedBits /\ q <= Len(w)
      BY <1>2, <1>13, SyncedFacts
    <2>2. Len(Slice(w, 0, q)) = q
      BY <2>1, SliceTyped
    <2>3. QED
      BY <1>13, <2>1, <2>2 DEF Synced
  <1>15. left' * unit' = 0
    BY <1>1 DEF ReaderInv, TypeOK, Idle
  <1>16. QED
    BY <1>3, <1>4, <1>5, <1>12, <1>14, <1>15

LEMMA ReadBytesGives ==
    ASSUME ReaderInv, NoWrap, NEW size \in ByteCounts, ReadBytes(size),
           Len(in.taken) + ByteBits * size <= totalBits
    PROVE  /\ ~fail'
           /\ Len(in'.taken) + left' * unit' = Len(in.taken) + ByteBits * size
  <1>1. /\ Idle /\ ~fail /\ UNCHANGED <<in, config, peeked>>
    BY DEF ReadBytes
  <1>2. Usable
    BY <1>1, NotFailed
  <1>3. PICK bits : bits = ByteBits * size
    OBVIOUS
  <1>4. bits \in Nat /\ bits = size * ByteBits
    BY <1>3, CountsAssumption, ByteBitsAssumption
  <1>5. in.usedBits + bits < SizeMod /\ in.usedBits + bits \in Nat
    <2>1. totalBits + bits < SizeMod
      BY <1>3 DEF NoWrap, ReaderInv, ConfigInv
    <2>2. in.usedBits \in Nat /\ in.usedBits <= totalBits /\ totalBits \in Nat
      BY <1>1, <1>2, NotFailed, SyncedFacts
    <2>3. QED
      BY <1>4, <2>1, <2>2, ModAssumption
  <1>6. ~Overflows(in, ByteBits * size)
    BY <1>1, <1>3, <1>4, <1>5, TakenLength, WrapSmall DEF Overflows, ReaderInv, TypeOK
  <1>7. left' = size /\ unit' = ByteBits /\ fail' = fail
    BY <1>6 DEF ReadBytes
  <1>8. QED
    BY <1>1, <1>3, <1>4, <1>7

LEMMA ReadStringGives ==
    ASSUME ReaderInv, NoWrap, NEW max \in MaxLengths, NEW c \in CharBytes,
           ReadString(max, c), NEW k \in 0 .. 3, NEW len \in Nat, len <= max,
           len < LengthMod \div 2, HoldsLength(words, Len(in.taken), k, len),
           Len(in.taken) + PrefixPrefixBits + PrefixBits(k) + len * (ByteBits * c)
             <= totalBits
    PROVE  /\ ~fail'
           /\ Len(in'.taken) + left' * unit' =
                Len(in.taken) + PrefixPrefixBits + PrefixBits(k) + len * (ByteBits * c)
  <1>1. Idle /\ ~fail
    BY DEF ReadString
  <1>2. Usable /\ Synced(in)
    BY <1>1, NotFailed
  <1>3. PICK p \in Nat : p = in.usedBits /\ p = Len(in.taken)
    BY <1>1, TakenLength
  <1>4. PICK n \in Nat : n = PrefixBits(k)
    BY PrefixBitsOK
  <1>5. PICK u \in Nat : u = ByteBits * c
    BY CharBytesAssumption, ByteBitsAssumption
  <1>6. PICK b \in Nat : b = len * u
    BY <1>5
  <1>7. PrefixPrefixBits \in Nat /\ totalBits \in Nat
    BY <1>2 DEF PrefixPrefixBits, Usable
  <1>8. p + PrefixPrefixBits + n + b <= totalBits
    BY <1>3, <1>4, <1>5, <1>6
  <1>9. PICK r : r = ReadLength(in)
    OBVIOUS
  <1>10. /\ ~r.failed /\ r.length = ToSSize(len) /\ Synced(r.reader)
         /\ r.reader.usedBits = p + PrefixPrefixBits + n
    <2>1. HoldsLength(words, in.usedBits, k, len)
      BY <1>3
    <2>2. in.usedBits + PrefixPrefixBits + PrefixBits(k) <= totalBits
      BY <1>3, <1>4, <1>7, <1>8
    <2>3. QED
      BY <1>2, <1>3, <1>4, <1>9, <2>1, <2>2, ReadLengthGives
  <1>11. r.length = len
    BY <1>10, SmallSSize
  <1>12. StringBits(len, c) = b
    <2>1. c \in Nat
      BY CharBytesAssumption
    <2>2. ByteBits * (len * c) = len * (ByteBits * c)
      BY <2>1, ByteBitsAssumption
    <2>3. QED
      BY <1>5, <1>6, <2>2 DEF StringBits
  <1>13. StringFits(r, max, c)
    BY <1>7, <1>8, <1>10, <1>11, <1>12 DEF StringFits
  <1>14. in' = r.reader /\ left' = len /\ unit' = u /\ fail' = fail
    BY <1>5, <1>9, <1>11, <1>13 DEF ReadString
  <1>15. Len(in'.taken) = p + PrefixPrefixBits + n
    <2>1. PICK w \in Seq(Bit), q \in Nat : w = words /\ q = in'.usedBits /\ q <= Len(w)
      BY <1>2, <1>10, <1>14, SyncedFacts
    <2>2. Len(Slice(w, 0, q)) = q
      BY <2>1, SliceTyped
    <2>3. QED
      BY <1>10, <1>14, <2>1, <2>2 DEF Synced
  <1>16. QED
    BY <1>1, <1>3, <1>4, <1>5, <1>6, <1>14, <1>15

LEMMA PeekGives ==
    ASSUME ReaderInv, NoWrap, PeekStringLength, NEW k \in 0 .. 3, NEW len \in Nat,
           len < LengthMod \div 2, HoldsLength(words, Len(in.taken), k, len),
           Len(in.taken) + PrefixPrefixBits + PrefixBits(k) <= totalBits
    PROVE  ~fail' /\ peeked' = len
  <1>1. Idle /\ ~fail
    BY DEF PeekStringLength
  <1>2. Usable /\ Synced(in)
    BY <1>1, NotFailed
  <1>3. PICK p \in Nat : p = in.usedBits /\ p = Len(in.taken)
    BY <1>1, TakenLength
  <1>4. ~ReadLength(in).failed /\ ReadLength(in).length = ToSSize(len)
    <2>1. HoldsLength(words, in.usedBits, k, len)
      BY <1>3
    <2>2. in.usedBits + PrefixPrefixBits + PrefixBits(k) <= totalBits
      BY <1>3
    <2>3. QED
      BY <1>2, <2>1, <2>2, ReadLengthGives
  <1>5. QED
    BY <1>4, SmallSSize DEF PeekStringLength

LEMMA ReadNextGives ==
    ASSUME ReaderInv, NoWrap, ReadNext
    PROVE  /\ ~fail'
           /\ Len(in'.taken) = Len(in.taken) + unit
           /\ Len(in'.taken) + left' * unit' = Len(in.taken) + left * unit
  <1>1. /\ left > 0 /\ in' = DoRead(in, unit) /\ left' = left - 1
        /\ UNCHANGED <<fail, unit>>
    BY DEF ReadNext
  <1>2. /\ left \in Nat /\ unit \in Nat /\ ~fail /\ unit <= WordBits
        /\ totalBits \in Nat
    BY <1>1 DEF ReaderInv, TypeOK, LoopInv
  <1>3. Usable /\ Synced(in)
    BY <1>2, NotFailed
  <1>4. PICK p \in Nat : p = in.usedBits /\ p = Len(in.taken)
    BY <1>2, TakenLength
  <1>5. /\ left * unit \in Nat /\ left' * unit = left * unit - unit
        /\ left * unit >= unit
    BY <1>1, <1>2, LoopProduct
  <1>6. unit <= ScratchBits /\ p + unit <= totalBits
    <2>1. p + left * unit <= totalBits
      BY <1>4 DEF ReaderInv, LoopInv
    <2>2. QED
      BY <1>2, <1>5, <2>1, WordBitsPos
  <1>7. PICK t : t = Take(in, unit)
    OBVIOUS
  <1>8. Took(t, in, unit)
    BY <1>2, <1>3, <1>4, <1>6, <1>7, TakeInside
  <1>9. Synced(Count(t)) /\ Count(t).usedBits = p + unit
    BY <1>2, <1>3, <1>4, <1>6, <1>8, CountOK
  <1>10. in' = Count(t)
    BY <1>1, <1>7 DEF DoRead
  <1>11. Len(in'.taken) = p + unit
    <2>1. PICK w \in Seq(Bit), q \in Nat : w = words /\ q = in'.usedBits /\ q <= Len(w)
      BY <1>3, <1>9, <1>10, SyncedFacts
    <2>2. Len(Slice(w, 0, q)) = q
      BY <2>1, SliceTyped
    <2>3. QED
      BY <1>9, <1>10, <2>1, <2>2 DEF Synced
  <1>12. Len(in'.taken) + left' * unit' = Len(in.taken) + left * unit
    <2>1. PICK u \in Nat, n \in Nat, m \in Nat :
            u = unit /\ n = left * unit /\ m = left' * unit /\ m = n - u
      <3>1. left * unit - unit \in Nat
        BY <1>2, <1>5
      <3>2. QED
        BY <1>2, <1>5, <3>1
    <2>2. QED
      BY <1>1, <1>4, <1>11, <2>1
  <1>13. QED
    BY <1>1, <1>2, <1>4, <1>11, <1>12

-----------------------------------------------------------------------------
(* The reader implements BitSource: every step of the reader is a step of   *)
(* the source, or changes nothing the source knows.                         *)

\* What was given out is the front of the buffer, as long as what was used.
LEMMA SyncedGiven ==
    ASSUME Usable, NEW c, Synced(c)
    PROVE  Len(c.taken) = c.usedBits /\ c.taken = SubSeq(words, 1, c.usedBits)
  <1>1. /\ words \in Seq(Bit) /\ c.usedBits \in Nat /\ 0 \in Nat
        /\ 0 + c.usedBits <= Len(words) /\ c.usedBits <= Len(words)
    BY SyncedFacts
  <1>2. c.taken = Slice(words, 0, c.usedBits)
    BY DEF Synced
  <1>3. /\ Slice(words, 0, c.usedBits) = SubSeq(words, 1, c.usedBits)
        /\ Len(Slice(words, 0, c.usedBits)) = c.usedBits
    BY <1>1, SliceTyped, SliceIsPrefix
  <1>4. QED
    BY <1>2, <1>3, Zenon

\* What was taken are the first bits of the buffer, after a failure too.
LEMMA TakenIs ==
    ASSUME ReaderInv
    PROVE  /\ in.taken \in Seq(Bit) /\ Len(in.taken) = in.usedBits /\ in.usedBits \in Nat
           /\ \A i \in 1 .. Len(in.taken) : in.taken[i] = words[i]
           /\ left > 0 => ~fail
  <1>1. /\ in.taken = Slice(words, 0, in.usedBits) /\ words \in Seq(Bit)
        /\ in.usedBits \in Nat /\ in.usedBits <= Position(in)
        /\ in.wordsIndex * WordBits <= Len(words)
        /\ in.scratchBits \in 0 .. ScratchBits - 1
        /\ in.wordsIndex \in Nat
    BY DEF ReaderInv, TypeOK, StreamInv, ReaderOK, Loaded, In
  <1>2. in.wordsIndex * WordBits \in Nat /\ Len(words) \in Nat
    BY <1>1, WordBitsPos, LenProperties
  <1>3. PICK w \in Seq(Bit), p \in Nat : w = words /\ p = in.usedBits /\ p <= Len(w)
    BY <1>1, <1>2, WordBitsPos DEF Position
  <1>4. Slice(w, 0, p) \in Seq(Bit) /\ Len(Slice(w, 0, p)) = p
    BY <1>3, SliceTyped
  <1>5. \A i \in 1 .. p : Slice(w, 0, p)[i] = w[i]
    BY <1>3 DEF Slice
  <1>6. left > 0 => ~fail
    BY DEF ReaderInv, LoopInv
  <1>7. QED
    BY <1>1, <1>3, <1>4, <1>5, <1>6

\* No read takes anything back.
LEMMA TakenGrows ==
    ASSUME ReaderInv, NoWrap,
           \/ \E r \in Ranges : Read(r)
           \/ \E size \in ByteCounts : ReadBytes(size)
           \/ \E max \in MaxLengths, c \in CharBytes : ReadString(max, c)
           \/ ReadNext \/ PeekStringLength \/ PeekReturned
    PROVE  Len(in'.taken) >= Len(in.taken)
  <1>1. Len(in.taken) = in.usedBits /\ in.usedBits \in Nat
    BY TakenIs
  <1>2. ASSUME NEW r \in Ranges, Read(r) PROVE Len(in'.taken) >= Len(in.taken)
    <2>1. Usable /\ Synced(in)
      BY <1>2, NotFailed DEF Read
    <2>2. PICK n \in Nat : n = r.bits /\ n <= ScratchBits
      BY RangesAssumption, WordBitsPos
    <2>3. CASE Overflows(in, n)
      <3>1. in' = in
        BY <1>2, <2>2, <2>3 DEF Read
      <3>2. QED
        BY <1>1, <3>1
    <2>4. CASE ~Overflows(in, n)
      <3>1. in.usedBits + n <= totalBits
        BY <2>1, <2>2, <2>4, OverflowsExact, SyncedFacts
      <3>2. PICK t : t = Take(in, n)
        OBVIOUS
      <3>3. Took(t, in, n)
        BY <2>1, <2>2, <3>1, <3>2, TakeInside
      <3>4. CASE in' = Count(t)
        <4>1. Synced(in') /\ in'.usedBits = in.usedBits + n
          BY <2>1, <2>2, <3>1, <3>3, <3>4, CountOK
        <4>2. Len(in'.taken) = in'.usedBits
          BY <2>1, <4>1, SyncedGiven
        <4>3. QED
          BY <1>1, <4>1, <4>2
      <3>5. CASE in' = t.reader
        <4>1. in'.taken = in.taken
          BY <3>3, <3>5 DEF Took
        <4>2. QED
          BY <1>1, <4>1
      <3>6. QED
        BY <1>2, <2>2, <2>4, <3>2, <3>4, <3>5 DEF Read
    <2>5. QED
      BY <2>3, <2>4
  <1>3. ASSUME NEW max \in MaxLengths, NEW c \in CharBytes, ReadString(max, c)
        PROVE  Len(in'.taken) >= Len(in.taken)
    <2>1. Usable /\ Synced(in)
      BY <1>3, NotFailed DEF ReadString
    <2>2. PICK r : r = ReadLength(in)
      OBVIOUS
    <2>3. in' = r.reader
      BY <1>3, <2>2 DEF ReadString
    <2>4. Synced(in') /\ in'.usedBits >= in.usedBits
      BY <2>1, <2>2, <2>3, ReadLengthOK
    <2>5. Len(in'.taken) = in'.usedBits
      BY <2>1, <2>4, SyncedGiven
    <2>6. QED
      BY <1>1, <2>4, <2>5
  <1>4. CASE ReadNext
    <2>1. Len(in'.taken) = Len(in.taken) + unit
      BY <1>4, ReadNextGives
    <2>2. unit \in Nat
      BY DEF ReaderInv, TypeOK
    <2>3. QED
      BY <1>1, <2>1, <2>2
  <1>5. CASE (\E size \in ByteCounts : ReadBytes(size)) \/ PeekStringLength \/ PeekReturned
    <2>1. in' = in
      BY <1>5 DEF ReadBytes, PeekStringLength, PeekReturned
    <2>2. QED
      BY <1>1, <2>1
  <1>6. QED
    BY <1>2, <1>3, <1>4, <1>5

\* A call that leaves the stream in step gives out the bits that come next, and
\* what it still wants is there.
LEMMA SourceGives ==
    ASSUME ReaderInv, NoWrap, ~fail, Synced(in'), UNCHANGED config,
           in'.usedBits >= in.usedBits, in'.usedBits + left' * unit' <= totalBits
    PROVE  Source!Gives
  <1>1. Usable /\ Synced(in)
    BY NotFailed
  <1>2. Len(in.taken) = in.usedBits
    BY <1>1, SyncedGiven
  <1>3. Len(in'.taken) = in'.usedBits /\ in'.taken = SubSeq(words, 1, in'.usedBits)
    BY <1>1, SyncedGiven
  <1>4. words' = words /\ totalBits' = totalBits
    BY DEF config
  <1>5. QED
    BY <1>2, <1>3, <1>4 DEF Source!Gives

\* A call that is refused, or that asks for a failure.
LEMMA SourceFails ==
    ASSUME ReaderInv, Idle, fail', UNCHANGED <<in, config, left, unit>>
    PROVE  Source!Fail
  <1>1. left * unit = 0 /\ left' * unit' = 0 /\ unit \in Nat
    BY DEF Idle, ReaderInv, TypeOK
  <1>2. words' = words /\ totalBits' = totalBits /\ in'.taken = in.taken
    BY DEF config
  <1>3. QED
    BY <1>1, <1>2 DEF Source!Fail

SourceStep == [Source!Next]_(Source!vars)

\* The loop between two calls wants nothing.
LEMMA NothingReserved ==
    ASSUME ReaderInv, Idle, UNCHANGED <<left, unit>>
    PROVE  left * unit = 0 /\ (left * unit)' = 0
  BY DEF Idle, ReaderInv, TypeOK

LEMMA SourceRestarts ==
    ASSUME ReaderInv, Restart
    PROVE  SourceStep
  <1>1. /\ Idle /\ fail' = initFail /\ in'.taken = <<>>
        /\ UNCHANGED <<words, totalBits, left, unit>>
    BY DEF Restart, Restarted, config
  <1>2. left * unit = 0 /\ (left * unit)' = 0
    BY <1>1, NothingReserved
  <1>3. fail' \in BOOLEAN /\ (fail' \/ totalBits <= Len(words))
    BY <1>1 DEF ReaderInv, TypeOK, ConfigInv
  <1>4. Source!Rewind
    BY <1>1, <1>2, <1>3 DEF Source!Rewind, Source!Start
  <1>5. QED
    BY <1>4, Zenon DEF SourceStep, Source!Next

LEMMA SourceOpens ==
    ASSUME ReaderInv, ReaderInv', Idle, NEW f, Restarted(f),
           UNCHANGED <<left, unit>>
    PROVE  SourceStep
  <1>1. left * unit = 0 /\ (left * unit)' = 0
    BY NothingReserved
  <1>2. in'.taken = <<>>
    BY DEF Restarted
  <1>3. /\ totalBits' \in Nat /\ fail' \in BOOLEAN
        /\ fail' \/ totalBits' <= Len(words')
    BY DEF ReaderInv, TypeOK, ConfigInv
  <1>4. Source!Open
    BY <1>1, <1>2, <1>3 DEF Source!Open, Source!Start
  <1>5. QED
    BY <1>4, Zenon DEF SourceStep, Source!Next

\* A call that goes on, or has all it wants.
LEMMA SourceBegins ==
    ASSUME ReaderInv, ReaderInv', NoWrap, Idle, ~fail, ~fail', UNCHANGED config,
           in'.usedBits >= in.usedBits
    PROVE  SourceStep
  <1>1. left * unit = 0
    BY DEF Idle, ReaderInv, TypeOK
  <1>2. left' * unit' \in Nat /\ in'.usedBits + left' * unit' <= totalBits
    <2>1. left' \in Nat /\ unit' \in Nat
      BY DEF ReaderInv, TypeOK
    <2>2. in'.usedBits + left' * unit' <= totalBits
      BY DEF ReaderInv, LoopInv, config
    <2>3. QED
      BY <2>1, <2>2, LoopProduct
  <1>3. Synced(in')
    BY DEF ReaderInv, StreamInv, Synced, config
  <1>4. Source!Gives
    BY <1>2, <1>3, SourceGives
  <1>5. Source!Begin
    BY <1>1, <1>2, <1>4 DEF Source!Begin
  <1>6. QED
    BY <1>5, Zenon DEF SourceStep, Source!Next

\* A call that fails after it used some of the stream.
LEMMA SourceFailsLate ==
    ASSUME ReaderInv, NoWrap, Idle, ~fail, fail', UNCHANGED <<config, left, unit>>,
           Synced(in'), in'.usedBits >= in.usedBits
    PROVE  SourceStep
  <1>1. left * unit = 0 /\ (left * unit)' = 0
    BY NothingReserved
  <1>2. Usable /\ words' = words /\ totalBits' = totalBits
    BY NotFailed DEF config
  <1>3. in'.usedBits + left' * unit' <= totalBits
    BY <1>1, <1>2, SyncedFacts
  <1>4. Source!Gives
    BY <1>3, SourceGives
  <1>5. Source!Fail
    BY <1>1, <1>2, <1>4 DEF Source!Fail
  <1>6. QED
    BY <1>5, Zenon DEF SourceStep, Source!Next

LEMMA SourceReads ==
    ASSUME ReaderInv, ReaderInv', NoWrap, NEW r \in Ranges, Read(r)
    PROVE  SourceStep
  <1>1. Idle /\ ~fail /\ UNCHANGED <<config, left, unit>>
    BY DEF Read
  <1>2. Usable /\ Synced(in)
    BY <1>1, NotFailed
  <1>3. PICK n : n = r.bits
    OBVIOUS
  <1>4. n \in Nat /\ n <= ScratchBits
    BY <1>3, RangesAssumption, WordBitsPos
  <1>5. CASE Overflows(in, n)
    BY <1>1, <1>3, <1>5, SourceFails DEF Read, SourceStep, Source!Next
  <1>6. CASE ~Overflows(in, n)
    <2>1. in.usedBits + n <= totalBits
      BY <1>2, <1>4, <1>6, OverflowsExact, SyncedFacts
    <2>2. PICK t : t = Take(in, n)
      OBVIOUS
    <2>3. Took(t, in, n)
      BY <1>2, <1>4, <2>1, <2>2, TakeInside
    <2>4. \/ in' = Count(t) /\ fail' = FALSE
          \/ in' = t.reader /\ fail' = TRUE
      BY <1>3, <1>6, <2>2 DEF Read
    <2>5. CASE in' = Count(t) /\ fail' = FALSE
      <3>1. in'.usedBits = in.usedBits + n
        BY <1>2, <1>4, <2>1, <2>3, <2>5, CountOK
      <3>2. in'.usedBits >= in.usedBits
        BY <1>2, <1>4, <3>1, SyncedFacts
      <3>3. QED
        BY <1>1, <2>5, <3>2, SourceBegins
    <2>6. CASE in' = t.reader /\ fail' = TRUE
      <3>1. in'.taken = in.taken
        BY <2>3, <2>6 DEF Took
      <3>2. left * unit = 0 /\ (left * unit)' = 0
        BY <1>1, NothingReserved
      <3>3. Source!Fail
        BY <1>1, <2>6, <3>1, <3>2 DEF Source!Fail, config
      <3>4. QED
        BY <3>3, Zenon DEF SourceStep, Source!Next
    <2>7. QED
      BY <2>4, <2>5, <2>6
  <1>7. QED
    BY <1>5, <1>6

LEMMA SourceReadsString ==
    ASSUME ReaderInv, ReaderInv', NoWrap, NEW max \in MaxLengths,
           NEW c \in CharBytes, ReadString(max, c)
    PROVE  SourceStep
  <1>1. Idle /\ ~fail /\ UNCHANGED config
    BY DEF ReadString
  <1>2. Usable /\ Synced(in)
    BY <1>1, NotFailed
  <1>3. PICK r : r = ReadLength(in)
    OBVIOUS
  <1>4. in' = r.reader
    BY <1>3 DEF ReadString
  <1>5. Synced(in') /\ in'.usedBits >= in.usedBits
    BY <1>2, <1>3, <1>4, ReadLengthOK
  <1>6. CASE StringFits(r, max, c)
    <2>1. ~fail'
      BY <1>1, <1>3, <1>6 DEF ReadString
    <2>2. QED
      BY <1>1, <1>5, <2>1, SourceBegins
  <1>7. CASE ~StringFits(r, max, c)
    <2>1. fail' /\ UNCHANGED <<left, unit>>
      BY <1>3, <1>7 DEF ReadString
    <2>2. QED
      BY <1>1, <1>5, <2>1, SourceFailsLate
  <1>8. QED
    BY <1>6, <1>7

\* One iteration takes its part of what was reserved.
LEMMA SourceContinues ==
    ASSUME ReaderInv, ReaderInv', NoWrap, ReadNext
    PROVE  SourceStep
  <1>1. /\ left > 0 /\ in' = DoRead(in, unit) /\ left' = left - 1
        /\ UNCHANGED <<config, fail, unit, peeked>>
    BY DEF ReadNext
  <1>2. /\ left \in Nat /\ unit \in Nat /\ totalBits \in Nat
        /\ ~fail /\ ~fail' /\ unit <= WordBits
    BY <1>1 DEF ReaderInv, TypeOK, LoopInv
  <1>3. Usable /\ Synced(in)
    BY <1>2, NotFailed
  <1>4. /\ left * unit \in Nat /\ left' * unit' = left * unit - unit
        /\ left * unit >= unit /\ left' * unit' \in Nat
    BY <1>1, <1>2, LoopProduct
  <1>5. in.usedBits + left * unit <= totalBits /\ in.usedBits \in Nat
    BY <1>3, SyncedFacts DEF ReaderInv, LoopInv
  <1>6. unit <= ScratchBits /\ in.usedBits + unit <= totalBits
    BY <1>2, <1>4, <1>5, WordBitsPos
  <1>7. Synced(in') /\ in'.usedBits = in.usedBits + unit
    <2>1. PICK t : t = Take(in, unit)
      OBVIOUS
    <2>2. Took(t, in, unit)
      BY <1>2, <1>3, <1>6, <2>1, TakeInside
    <2>3. Synced(Count(t)) /\ Count(t).usedBits = in.usedBits + unit
      BY <1>2, <1>3, <1>6, <2>2, CountOK
    <2>4. QED
      BY <1>1, <2>1, <2>3 DEF DoRead
  <1>8. Len(in.taken) = in.usedBits /\ Len(in'.taken) = in'.usedBits
    BY <1>3, <1>7, SyncedGiven
  <1>9. CASE left * unit = 0
    <2>1. unit = 0 /\ in'.usedBits = in.usedBits
      BY <1>2, <1>4, <1>5, <1>7, <1>9
    <2>2. in'.taken = in.taken
      BY <1>3, <1>7, <2>1, SyncedGiven
    <2>3. (left * unit)' = left * unit
      BY <1>4, <1>9, <2>1
    <2>4. QED
      BY <1>1, <2>2, <2>3 DEF SourceStep, Source!vars, config
  <1>10. CASE left * unit > 0
    <2>1. in'.usedBits >= in.usedBits /\ in'.usedBits + left' * unit' <= totalBits
      BY <1>2, <1>4, <1>5, <1>7
    <2>2. Source!Gives
      BY <1>1, <1>2, <1>7, <2>1, SourceGives
    <2>3. Len(in'.taken) + left' * unit' = Len(in.taken) + left * unit
      BY <1>2, <1>4, <1>5, <1>7, <1>8
    <2>4. Source!Continue
      BY <1>2, <1>4, <1>10, <2>2, <2>3 DEF Source!Continue
    <2>5. QED
      BY <2>4, Zenon DEF SourceStep, Source!Next
  <1>11. QED
    BY <1>4, <1>9, <1>10

LEMMA SourceSimulation ==
    NoWrap /\ ReaderInv /\ ReaderInv' /\ [Next]_vars => SourceStep
  <1> SUFFICES ASSUME NoWrap, ReaderInv, ReaderInv', [Next]_vars PROVE SourceStep
    OBVIOUS
  <1>1. CASE Reset
    BY <1>1, SourceOpens DEF Reset
  <1>2. ASSUME NEW b, NEW isNull, NEW l, ResetWith(b, isNull, l) PROVE SourceStep
    BY <1>2, SourceOpens DEF ResetWith
  <1>3. CASE SetFail
    <2>1. Source!Fail
      BY <1>3, SourceFails DEF SetFail
    <2>2. QED
      BY <2>1, Zenon DEF SourceStep, Source!Next
  <1>4. ASSUME NEW size \in ByteCounts, ReadBytes(size) PROVE SourceStep
    <2>1. Idle /\ ~fail /\ UNCHANGED <<in, config>>
      BY <1>4 DEF ReadBytes
    <2>2. CASE Overflows(in, ByteBits * size)
      <3>1. Source!Fail
        BY <1>4, <2>1, <2>2, SourceFails DEF ReadBytes
      <3>2. QED
        BY <3>1, Zenon DEF SourceStep, Source!Next
    <2>3. CASE ~Overflows(in, ByteBits * size)
      <3>1. ~fail'
        BY <1>4, <2>1, <2>3 DEF ReadBytes
      <3>2. in'.usedBits >= in.usedBits
        BY <2>1 DEF ReaderInv, TypeOK, In
      <3>3. QED
        BY <2>1, <3>1, <3>2, SourceBegins
    <2>4. QED
      BY <2>2, <2>3
  <1>5. CASE PeekStringLength
    <2>1. Idle /\ ~fail /\ UNCHANGED <<in, config, left, unit>>
      BY <1>5 DEF PeekStringLength
    <2>2. CASE fail'
      <3>1. Source!Fail
        BY <2>1, <2>2, SourceFails
      <3>2. QED
        BY <3>1, Zenon DEF SourceStep, Source!Next
    <2>3. CASE ~fail'
      <3>1. fail' = fail
        BY <2>1, <2>3 DEF ReaderInv, TypeOK
      <3>2. (left * unit)' = left * unit
        BY <2>1
      <3>3. QED
        BY <2>1, <3>1, <3>2 DEF SourceStep, Source!vars, config
    <2>4. QED
      BY <2>2, <2>3
  <1>6. CASE PeekReturned \/ UNCHANGED vars
    <2>1. /\ UNCHANGED <<in, words, totalBits, fail>>
          /\ (left * unit)' = left * unit
      BY <1>6 DEF PeekReturned, vars, config
    <2>2. QED
      BY <2>1 DEF SourceStep, Source!vars
  <1>7. QED
    BY <1>1, <1>2, <1>3, <1>4, <1>5, <1>6, SourceRestarts, SourceReads,
       SourceReadsString, SourceContinues DEF Next

\* The reader implements BitSource for any buffers, sizes and stored lengths:
\* it gives out the bits of the buffer in order and each once, a read of data or
\* of a string takes all it asked for once it has started, and a peek takes none.
THEOREM ImplementsSource == ASSUME NoWrap PROVE Spec => RefinesSource
  <1>1. Init => Source!Init
    BY DEF Init, Source!Init
  <1>2. ReaderInv /\ ReaderInv' /\ [Next]_vars => [Source!Next]_(Source!vars)
    BY SourceSimulation DEF SourceStep
  <1>3. QED
    BY <1>1, <1>2, InductiveInvariant, PTL DEF Spec, RefinesSource, Source!Spec
=============================================================================
