-------------------------- MODULE RangeCodecProofs ---------------------------
(***************************************************************************)
(* Theorems about RangeCodec for integral types of any width.              *)
(***************************************************************************)
EXTENDS RangeCodec, NatLemmas

\* What holds of a value from the call of do_write on: its range is one of the
\* type, and the bits that do_write sends are its distance from min.
CodecInv ==
    /\ type \in Types
    /\ min \in Numbers(type) /\ max \in Numbers(type) /\ data \in Numbers(type)
    /\ honest \in BOOLEAN
    /\ honest => /\ state # "rejected"
                 /\ state = "sent" => /\ min < max /\ min <= data /\ data <= max
                                      /\ wire = data - min
                 /\ state = "read" => conv = data

-----------------------------------------------------------------------------
\* The remainder of a number that is at most one modulus away.
LEMMA ModNear ==
    ASSUME NEW m \in Nat \ {0}, NEW n \in Int
    PROVE  /\ n \in 0 .. m - 1 => n % m = n
           /\ n \in -m .. -1 => n % m = n + m
           /\ n \in m .. 2 * m - 1 => n % m = n - m
  <1>1. n \in 0 .. m - 1 => n % m = n
    OBVIOUS
  <1>2. n \in -m .. -1 => n % m = n + m
    OBVIOUS
  <1>3. n \in m .. 2 * m - 1 => n % m = n - m
    OBVIOUS
  <1> QED
    BY <1>1, <1>2, <1>3

LEMMA TypeFacts ==
    ASSUME NEW t \in Types
    PROVE  /\ t.half \in Nat \ {0}
           /\ Modulus(t) = 2 * t.half
           /\ Least(t) = 0 \/ Least(t) = -t.half
           /\ Numbers(t) = Least(t) .. Least(t) + Modulus(t) - 1
  BY TypesAssumption DEF Type, Modulus, Least, Numbers

LEMMA TypeRange ==
    ASSUME NEW t \in Types
    PROVE  Modulus(t) \in Nat \ {0} /\ Least(t) \in Int
  BY TypeFacts

LEMMA NumbersFacts ==
    ASSUME NEW t \in Types, NEW n \in Numbers(t)
    PROVE  /\ n \in Int /\ Least(t) \in Int /\ Modulus(t) \in Nat \ {0}
           /\ Least(t) <= n /\ n < Least(t) + Modulus(t)
  <1>1. Modulus(t) \in Nat \ {0} /\ Least(t) \in Int
    BY TypeRange
  <1>2. QED
    BY <1>1, TypeFacts

LEMMA UnsignedNear ==
    ASSUME NEW t \in Types, NEW n \in Numbers(t)
    PROVE  ToUnsigned(t, n) = IF n < 0 THEN n + Modulus(t) ELSE n
  <1>1. n \in Int /\ n \in -Modulus(t) .. Modulus(t) - 1 /\ Modulus(t) \in Nat \ {0}
    <2>1. /\ n \in Int /\ Modulus(t) \in Nat \ {0}
          /\ Least(t) <= n /\ n < Least(t) + Modulus(t)
      BY NumbersFacts
    <2>2. PICK h \in Nat \ {0} : Modulus(t) = 2 * h /\ Least(t) \in {0, -h}
      BY TypeFacts
    <2>3. QED
      BY <2>1, <2>2
  <1>2. CASE n < 0
    BY <1>1, <1>2, ModNear DEF ToUnsigned
  <1>3. CASE ~(n < 0)
    BY <1>1, <1>3, ModNear DEF ToUnsigned
  <1> QED
    BY <1>2, <1>3

\* The distance of two numbers in order, computed in the unsigned type.
LEMMA DistanceExact ==
    ASSUME NEW t \in Types, NEW a \in Numbers(t), NEW b \in Numbers(t), a <= b
    PROVE  ToUnsigned(t, ToUnsigned(t, b) - ToUnsigned(t, a)) = b - a
  <1> DEFINE d == ToUnsigned(t, b) - ToUnsigned(t, a)
  <1>1. Modulus(t) \in Nat \ {0} /\ a \in Int /\ b \in Int /\ b - a \in 0 .. Modulus(t) - 1
    <2>1. Modulus(t) \in Nat \ {0} /\ Least(t) \in Int
      BY TypeFacts
    <2>2. \A n \in Numbers(t) :
            n \in Int /\ Least(t) <= n /\ n < Least(t) + Modulus(t)
      BY <2>1, TypeFacts
    <2>3. /\ a \in Int /\ Least(t) <= a
          /\ b \in Int /\ b < Least(t) + Modulus(t)
      BY <2>2
    <2> HIDE DEF d
    <2>4. QED
      BY <2>1, <2>3
  <1>2. d = b - a \/ d = b - a - Modulus(t)
    BY <1>1, UnsignedNear
  <1>3. CASE d = b - a
    BY <1>1, <1>3, ModNear DEF ToUnsigned
  <1>4. CASE d = b - a - Modulus(t)
    <2>1. d \in -Modulus(t) .. -1 /\ d \in Int
      BY <1>1, <1>4
    <2>2. d % Modulus(t) = d + Modulus(t)
      BY <1>1, <2>1, ModNear
    <2>3. ToUnsigned(t, d) = d % Modulus(t)
      BY DEF ToUnsigned
    <2> QED
      BY <1>1, <1>4, <2>2, <2>3
  <1> QED
    BY <1>2, <1>3, <1>4

\* A number is its own cast, and so is what lies one modulus below.
LEMMA CastNear ==
    ASSUME NEW t \in Types, NEW n \in Numbers(t)
    PROVE  ToType(t, n) = n /\ ToType(t, n - Modulus(t)) = n
  <1>1. Modulus(t) \in Nat \ {0} /\ n \in Int /\ Least(t) \in Int
        /\ n - Least(t) \in 0 .. Modulus(t) - 1
    <2>1. /\ n \in Int /\ Least(t) \in Int /\ Modulus(t) \in Nat \ {0}
          /\ Least(t) <= n /\ n < Least(t) + Modulus(t)
      BY NumbersFacts
    <2>2. QED
      BY <2>1
  <1>2. (n - Least(t)) % Modulus(t) = n - Least(t)
    BY <1>1, ModNear
  <1>3. (n - Modulus(t) - Least(t)) % Modulus(t) = n - Least(t)
    BY <1>1, ModNear
  <1> QED
    BY <1>1, <1>2, <1>3 DEF ToType

\* do_read undoes do_write, also where the distance is too large for the
\* signed type and is cast to a negative number.
LEMMA CastsCancel ==
    ASSUME NEW t \in Types, NEW lo \in Numbers(t), NEW n \in Numbers(t), lo <= n
    PROVE  ToType(t, ToType(t, n - lo) + lo) = n
  <1>1. /\ t.half \in Nat \ {0} /\ Modulus(t) = 2 * t.half
        /\ Least(t) \in {0, -t.half}
    BY TypeFacts
  <1>2. Modulus(t) \in Nat \ {0} /\ Least(t) \in -Modulus(t) .. 0
    BY <1>1
  <1>3. lo \in Int /\ n \in Int /\ n - lo \in 0 .. Modulus(t) - 1
    BY <1>2, TypeFacts
  <1>4. ToType(t, n - lo) = n - lo \/ ToType(t, n - lo) = n - lo - Modulus(t)
    <2>1. PICK m \in Nat \ {0}, l \in Int, d \in Int :
            /\ m = Modulus(t) /\ l = Least(t) /\ d = n - lo
            /\ l \in -m .. 0 /\ d \in 0 .. m - 1
      BY <1>2, <1>3
    <2>2. d - l \in 0 .. 2 * m - 1
      BY <2>1
    <2>3. PICK e \in Int : e = d - l /\ (e \in 0 .. m - 1 \/ e \in m .. 2 * m - 1)
      BY <2>2
    <2>4. (e % m) = e \/ (e % m) = e - m
      BY <2>3, ModNear
    <2>5. ToType(t, d) = (e % m) + l
      BY <2>1, <2>3 DEF ToType
    <2> QED
      BY <2>1, <2>3, <2>4, <2>5
  <1>5. ToType(t, n - lo) + lo = n \/ ToType(t, n - lo) + lo = n - Modulus(t)
    BY <1>2, <1>3, <1>4
  <1> QED
    BY <1>5, CastNear

-----------------------------------------------------------------------------
LEMMA InvInit == Init => CodecInv
  BY DEF Init, CodecInv

LEMMA NumbersOfState ==
    ASSUME CodecInv
    PROVE  min \in Int /\ max \in Int /\ data \in Int
  <1>1. type \in Types /\ min \in Numbers(type) /\ max \in Numbers(type)
        /\ data \in Numbers(type)
    BY DEF CodecInv
  <1>2. QED
    BY <1>1, NumbersFacts

LEMMA WriteKeepsInv == CodecInv /\ Write => CodecInv'
  <1> SUFFICES ASSUME CodecInv, Write
               PROVE  CodecInv'
    OBVIOUS
  <1>1. UNCHANGED <<type, min, max, data, honest, conv>>
    BY DEF Write
  <1>2. state' = "refused" \/ (state' = "sent" /\ min < max /\ min <= data /\ data <= max
                               /\ wire' = Encoded)
    <2>1. min \in Int /\ max \in Int /\ data \in Int
      BY NumbersOfState
    <2> QED
      BY <2>1 DEF Write, RangeInvalid
  <1>3. state' = "sent" => wire' = data - min
    BY <1>2, DistanceExact DEF CodecInv, Encoded
  <1> QED
    BY <1>1, <1>2, <1>3 DEF CodecInv, Numbers, Least, Modulus

LEMMA ReadKeepsInv == CodecInv /\ Read => CodecInv'
  <1> SUFFICES ASSUME CodecInv, Read
               PROVE  CodecInv'
    OBVIOUS
  <1>1. UNCHANGED <<type, min, max, data, honest, wire>>
    BY DEF Read
  <1>2. min \in Int /\ max \in Int /\ data \in Int
    BY NumbersOfState
  <1>3. CASE honest
    <2>1. min < max /\ min <= data /\ data <= max /\ wire = data - min
      BY <1>3 DEF CodecInv, Read
    <2>2. Converted = data
      BY <2>1, CastsCancel DEF CodecInv, Converted, Sum
    <2>3. state' = "read" /\ conv' = data
      BY <1>2, <2>1, <2>2 DEF Read, RangeInvalid
    <2> QED
      BY <1>1, <1>3, <2>3 DEF CodecInv, Numbers, Least, Modulus
  <1>4. CASE ~honest
    BY <1>1, <1>4 DEF CodecInv, Numbers, Least, Modulus
  <1> QED
    BY <1>3, <1>4

LEMMA InvStep == CodecInv /\ [Next]_vars => CodecInv'
  <1> SUFFICES ASSUME CodecInv, [Next]_vars
               PROVE  CodecInv'
    OBVIOUS
  <1>1. CASE Write
    BY <1>1, WriteKeepsInv
  <1>2. CASE Garble
    BY <1>2 DEF Garble, CodecInv, Numbers, Least, Modulus
  <1>3. CASE Read
    BY <1>3, ReadKeepsInv
  <1>4. CASE UNCHANGED vars
    BY <1>4 DEF vars, CodecInv, Numbers, Least, Modulus
  <1> QED
    BY <1>1, <1>2, <1>3, <1>4 DEF Next

\* Whatever the width and the sign of the type and whatever the range, what
\* do_write accepts do_read returns.
THEOREM RoundTripCorrect == Spec => []RoundTrip
  <1>1. CodecInv => RoundTrip
    BY DEF CodecInv, RoundTrip
  <1> QED
    BY <1>1, InvInit, InvStep, PTL DEF Spec

-----------------------------------------------------------------------------
(* The bits.                                                                *)

\* bit_width of the range: it holds every number up to the span, and no number
\* of that many bits is too large for the type.
LEMMA BitsOK ==
    ASSUME type \in Types, min \in Numbers(type), max \in Numbers(type)
    PROVE  /\ Bits \in Nat /\ 2 ^ Bits \in Nat
           /\ Span < 2 ^ Bits /\ 2 ^ Bits <= Modulus(type)
  <1>1. PICK k \in 0 .. type.half : type.half = 2 ^ k
    BY TypesAssumption
  <1>2. type.half \in Nat \ {0} /\ Modulus(type) = 2 * type.half
    BY TypeFacts
  <1>3. k \in Nat /\ k + 1 \in Nat /\ k + 1 <= type.half
    BY <1>1, <1>2, PowersGrow
  <1>4. Modulus(type) = 2 ^ (k + 1)
    BY <1>1, <1>2, <1>3, PowerDoubles
  <1>5. Span \in Nat /\ Span < Modulus(type)
    <2>1. \A t \in Types : \A n \in Numbers(t) : ToUnsigned(t, n) \in Int
      <3>1. \A t \in Types : \A n \in Numbers(t) : n \in Int /\ Modulus(t) \in Int
        BY NumbersFacts
      <3>2. QED
        BY <3>1, UnsignedNear
    <2>2. PICK d \in Int : d = ToUnsigned(type, max) - ToUnsigned(type, min)
      BY <2>1
    <2>3. Span = d % Modulus(type)
      BY <2>2 DEF Span, ToUnsigned
    <2>4. Modulus(type) \in Nat \ {0}
      BY <1>2
    <2>5. QED
      BY <2>2, <2>3, <2>4
  <1>6. \E b \in 0 .. type.half : Span < 2 ^ b /\ (b > 0 => Span >= 2 ^ (b - 1))
    <2>1. PICK b \in 0 .. k + 1 : Span < 2 ^ b /\ (b > 0 => Span >= 2 ^ (b - 1))
      BY <1>3, <1>4, <1>5, WidthExists
    <2>2. b \in 0 .. type.half
      BY <1>2, <1>3
    <2>3. QED
      BY <2>1, <2>2
  <1>7. PICK b : b = Bits
    OBVIOUS
  <1>8. b \in 0 .. type.half /\ Span < 2 ^ b /\ (b > 0 => Span >= 2 ^ (b - 1))
    BY <1>6, <1>7 DEF Bits
  <1>9. b \in Nat /\ 2 ^ b \in Nat
    BY <1>2, <1>8, PowersGrow
  <1>10. b <= k + 1
    <2>1. SUFFICES ASSUME b > k + 1 PROVE FALSE
      BY <1>3, <1>9
    <2>2. PICK d \in Nat : b - 1 = (k + 1) + d
      <3>1. (b - 1) - (k + 1) \in Nat /\ b - 1 = (k + 1) + ((b - 1) - (k + 1))
        BY <1>3, <1>9, <2>1
      <3>2. QED
        BY <3>1
    <2>3. 2 ^ (k + 1) <= 2 ^ (b - 1) /\ 2 ^ (b - 1) \in Nat /\ 2 ^ (k + 1) \in Nat
      BY <1>3, <2>2, PowersMonotone, PowersGrow
    <2>4. Span >= 2 ^ (b - 1)
      BY <1>3, <1>8, <1>9, <2>1
    <2>5. QED
      BY <1>4, <1>5, <2>3, <2>4
  <1>11. 2 ^ b <= 2 ^ (k + 1)
    <2>1. PICK d \in Nat : k + 1 = b + d
      <3>1. (k + 1) - b \in Nat /\ k + 1 = b + ((k + 1) - b)
        BY <1>3, <1>9, <1>10
      <3>2. QED
        BY <3>1
    <2>2. QED
      BY <1>9, <2>1, PowersMonotone
  <1>12. QED
    BY <1>4, <1>7, <1>8, <1>9, <1>11

LEMMA CastTyped ==
    ASSUME NEW t \in Types, NEW n \in Int
    PROVE  ToType(t, n) \in Numbers(t)
  <1>1. Modulus(t) \in Nat \ {0} /\ Least(t) \in Int
    BY TypeRange
  <1>2. PICK r : r = (n - Least(t)) % Modulus(t)
    OBVIOUS
  <1>3. r \in 0 .. Modulus(t) - 1
    BY <1>1, <1>2
  <1>4. r + Least(t) \in Least(t) .. Least(t) + Modulus(t) - 1
    BY <1>1, <1>3
  <1>5. QED
    BY <1>2, <1>4 DEF ToType, Numbers

\* A cast moves a number that is not far from the type by whole moduli.
LEMMA CastMoves ==
    ASSUME NEW t \in Types, NEW n \in Int,
           n - Least(t) \in -Modulus(t) .. 2 * Modulus(t) - 1
    PROVE  ToType(t, n) \in {n - Modulus(t), n, n + Modulus(t)}
  <1>1. Modulus(t) \in Nat \ {0} /\ Least(t) \in Int
    BY TypeRange
  <1>2. PICK m \in Int : m = n - Least(t)
    BY <1>1
  <1>3. m % Modulus(t) \in {m - Modulus(t), m, m + Modulus(t)}
    BY <1>1, <1>2, ModNear
  <1>4. ToType(t, n) = (m % Modulus(t)) + Least(t)
    BY <1>2 DEF ToType
  <1>5. QED
    BY <1>1, <1>2, <1>3, <1>4

\* What is read from bits that do_write did not make, if it is not below min,
\* is their distance from it.
LEMMA ConversionExact ==
    ASSUME NEW t \in Types, NEW lo \in Numbers(t), NEW w \in 0 .. Modulus(t) - 1,
           NEW n, n = ToType(t, ToType(t, w) + lo), lo <= n
    PROVE  n = lo + w
  <1>1. /\ Modulus(t) \in Nat \ {0} /\ Least(t) \in -Modulus(t) .. 0
        /\ lo \in Int /\ Least(t) <= lo /\ lo < Least(t) + Modulus(t)
    <2>1. /\ t.half \in Nat \ {0} /\ Modulus(t) = 2 * t.half
          /\ Least(t) \in {0, -t.half}
      BY TypeFacts
    <2>2. QED
      BY <2>1, TypeFacts
  <1>2. PICK u : u = ToType(t, w)
    OBVIOUS
  <1>3. u \in {w - Modulus(t), w, w + Modulus(t)} /\ u \in Numbers(t)
    BY <1>1, <1>2, CastMoves, CastTyped
  <1>4. u \in Int /\ Least(t) <= u /\ u < Least(t) + Modulus(t)
    BY <1>1, <1>3, TypeFacts
  <1>5. u + lo - Least(t) \in -Modulus(t) .. 2 * Modulus(t) - 1 /\ u + lo \in Int
    BY <1>1, <1>4
  <1>6. n \in {u + lo - Modulus(t), u + lo, u + lo + Modulus(t)} /\ n \in Numbers(t)
    <2>1. PICK m \in Int : m = u + lo
      BY <1>5
    <2>2. n = ToType(t, m)
      BY <1>2, <2>1, Zenon
    <2>3. m - Least(t) \in -Modulus(t) .. 2 * Modulus(t) - 1
      BY <1>1, <1>4, <1>5, <2>1
    <2>4. n \in {m - Modulus(t), m, m + Modulus(t)} /\ n \in Numbers(t)
      BY <2>2, <2>3, CastMoves, CastTyped
    <2>5. QED
      BY <1>1, <1>4, <2>1, <2>4
  <1>7. n \in Int /\ n - lo \in 0 .. Modulus(t) - 1
    BY <1>1, <1>6, TypeFacts
  <1>8. n - lo \in {w - 2 * Modulus(t), w - Modulus(t), w,
                    w + Modulus(t), w + 2 * Modulus(t)}
    BY <1>1, <1>3, <1>6
  <1>9. n - lo = w
    BY <1>1, <1>7, <1>8
  <1>10. QED
    BY <1>1, <1>7, <1>9

-----------------------------------------------------------------------------
\* The bits of either end are a number of the type, and what is read is what
\* the casts make of them.
BitsInv == TypeOK /\ CodecInv /\ (state = "read" => conv = Converted)

LEMMA BitsInvInit == Init => BitsInv
  <1> SUFFICES ASSUME Init PROVE BitsInv
    OBVIOUS
  <1>1. Modulus(type) \in Nat \ {0}
    BY TypeFacts DEF Init
  <1>2. TypeOK
    BY <1>1 DEF Init, TypeOK, State
  <1>3. QED
    BY <1>2, InvInit DEF Init, BitsInv

LEMMA BitsInvStep == BitsInv /\ [Next]_vars => BitsInv'
  <1> SUFFICES ASSUME BitsInv, [Next]_vars PROVE BitsInv'
    OBVIOUS
  <1>0. CodecInv' /\ CodecInv /\ TypeOK
    BY InvStep DEF BitsInv
  <1>1. /\ type \in Types /\ min \in Numbers(type) /\ max \in Numbers(type)
        /\ data \in Numbers(type) /\ conv \in Numbers(type)
        /\ wire \in 0 .. Modulus(type) - 1 /\ Modulus(type) \in Nat \ {0}
    BY <1>0, TypeFacts DEF TypeOK
  <1>2. CASE Write
    <2>1. /\ UNCHANGED <<type, min, max, data, honest, conv>>
          /\ state' \in {"refused", "sent"}
      BY <1>2 DEF Write
    <2>2. wire' \in 0 .. Modulus(type) - 1
      <3>1. CASE wire' = wire
        BY <1>1, <3>1
      <3>2. CASE wire' # wire
        <4>1. min <= data /\ wire' = Encoded
          <5>1. min \in Int /\ data \in Int
            BY <1>1, NumbersFacts
          <5>2. QED
            BY <1>2, <3>2, <5>1 DEF Write
        <4>2. wire' = data - min
          BY <1>1, <4>1, DistanceExact DEF Encoded
        <4>3. /\ Least(type) \in Int
              /\ min \in Int /\ Least(type) <= min
              /\ data \in Int /\ data < Least(type) + Modulus(type)
          BY <1>1, NumbersFacts
        <4>4. QED
          BY <1>1, <4>1, <4>2, <4>3
      <3>3. QED
        BY <3>1, <3>2
    <2>3. TypeOK'
      BY <1>0, <2>1, <2>2 DEF TypeOK, State, Numbers, Least, Modulus
    <2>4. QED
      BY <1>0, <2>1, <2>3 DEF BitsInv
  <1>3. CASE Garble
    <2>1. /\ UNCHANGED <<type, min, max, data, conv>>
          /\ state' = "sent" /\ honest' = FALSE /\ wire' \in 0 .. 2 ^ Bits - 1
      BY <1>3 DEF Garble
    <2>2. wire' \in 0 .. Modulus(type) - 1
      BY <1>1, <2>1, BitsOK
    <2>3. TypeOK'
      BY <1>0, <2>1, <2>2 DEF TypeOK, State, Numbers, Least, Modulus
    <2>4. QED
      BY <1>0, <2>1, <2>3 DEF BitsInv
  <1>4. CASE Read
    <2>1. /\ UNCHANGED <<type, min, max, data, honest, wire>>
          /\ state' \in {"rejected", "read"}
          /\ conv' = conv \/ conv' = Converted
          /\ state' = "read" => conv' = Converted
      BY <1>4 DEF Read
    <2>2. Converted \in Numbers(type)
      <3>1. Sum \in Int
        <4>1. ToType(type, wire) \in Int /\ min \in Int
          <5>1. wire \in Int
            BY <1>1
          <5>2. ToType(type, wire) \in Numbers(type)
            BY <1>1, <5>1, CastTyped
          <5>3. QED
            BY <1>1, <5>2, NumbersFacts
        <4>2. QED
          BY <4>1 DEF Sum
      <3>2. QED
        BY <1>1, <3>1, CastTyped DEF Converted
    <2>3. TypeOK'
      BY <1>0, <1>1, <2>1, <2>2 DEF TypeOK, State, Numbers, Least, Modulus
    <2>4. Converted' = Converted
      BY <2>1 DEF Converted, Sum, ToType, Least, Modulus
    <2>5. QED
      BY <1>0, <2>1, <2>3, <2>4 DEF BitsInv
  <1>5. CASE UNCHANGED vars
    <2>1. TypeOK'
      BY <1>0, <1>5 DEF vars, TypeOK, Numbers, Least, Modulus
    <2>2. Converted' = Converted
      BY <1>5 DEF vars, Converted, Sum, ToType, Least, Modulus
    <2>3. QED
      BY <1>0, <1>5, <2>1, <2>2 DEF vars, BitsInv
  <1>6. QED
    BY <1>2, <1>3, <1>4, <1>5 DEF Next

\* The codec is well-typed: the bits never exceed the unsigned type.
THEOREM TypeCorrect == Spec => []TypeOK
  <1>1. BitsInv => TypeOK
    BY DEF BitsInv
  <1> QED
    BY <1>1, BitsInvInit, BitsInvStep, PTL DEF Spec

\* Whatever the range, the bits that do_write is given for it hold the distance
\* of every value of the range from min.
THEOREM FitsItsBitsCorrect == Spec => []FitsItsBits
  <1>1. BitsInv => FitsItsBits
    <2> SUFFICES ASSUME BitsInv, state = "sent", honest
                 PROVE  wire = data - min /\ wire < 2 ^ Bits
      BY DEF FitsItsBits
    <2>1. /\ type \in Types /\ min \in Numbers(type) /\ max \in Numbers(type)
          /\ data \in Numbers(type)
          /\ min < max /\ min <= data /\ data <= max /\ wire = data - min
      BY DEF BitsInv, CodecInv
    <2>2. min \in Int /\ max \in Int /\ data \in Int
      BY <2>1, NumbersFacts
    <2>3. Span = max - min
      BY <2>1, <2>2, DistanceExact DEF Span
    <2>4. QED
      BY <2>1, <2>2, <2>3, BitsOK
  <1> QED
    BY <1>1, BitsInvInit, BitsInvStep, PTL DEF Spec

\* Whatever the bits were written for, a result in the range is their distance
\* from min: two messages that differ there are not read as the same number.
THEOREM ReadsWhatIsSentCorrect == Spec => []ReadsWhatIsSent
  <1>1. BitsInv => ReadsWhatIsSent
    <2> SUFFICES ASSUME BitsInv, state = "read", conv \in min .. max
                 PROVE  conv = min + wire
      BY DEF ReadsWhatIsSent
    <2>1. /\ type \in Types /\ min \in Numbers(type)
          /\ wire \in 0 .. Modulus(type) - 1
          /\ conv = ToType(type, ToType(type, wire) + min)
      BY DEF BitsInv, TypeOK, CodecInv, Converted, Sum
    <2>2. min <= conv
      OBVIOUS
    <2>3. QED
      BY <2>1, <2>2, ConversionExact
  <1> QED
    BY <1>1, BitsInvInit, BitsInvStep, PTL DEF Spec
=============================================================================
