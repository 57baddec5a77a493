--------------------------- MODULE FlatBuilderProofs ---------------------------
(***************************************************************************)
(* What the operations of FlatBuilder do, for any bytes and any first      *)
(* capacity: what they leave as it was, and what the reader finds where    *)
(* they wrote.                                                             *)
(***************************************************************************)
EXTENDS FlatBuilder, SequenceTheorems, WellFoundedInduction, TLAPS

-----------------------------------------------------------------------------
(* Numbers and bytes, as they are written and as they are read. *)

\* A byte, a u16 and a u32 have room for what their sizes say.
LEMMA Sizes ==
  /\ Base \in Nat /\ Base >= 2
  /\ U16Size \in Nat /\ U16Size = Base * Base /\ U16Size >= Base
  /\ U32Size \in Nat /\ U32Size = U16Size * U16Size /\ U32Size >= U16Size
<1>1. Base \in Nat /\ Base >= 2
  BY BaseAssumption
<1>2. U16Size \in Nat /\ U16Size = Base * Base /\ U16Size >= Base
  BY <1>1 DEF U16Size
<1>3. U32Size \in Nat /\ U32Size = U16Size * U16Size /\ U32Size >= U16Size
  BY <1>1, <1>2 DEF U32Size
<1> QED BY <1>1, <1>2, <1>3

\* A number is made of its low byte and the rest.
LEMMA Divided ==
  ASSUME NEW v \in Int
  PROVE  /\ v % Base \in 0 .. (Base - 1)
         /\ v = Base * (v \div Base) + (v % Base)
BY BaseAssumption

\* Dividing gives an integer.
LEMMA Quotient ==
  ASSUME NEW v \in Int, NEW m \in Nat, m > 0
  PROVE  v \div m \in Int
OBVIOUS

\* Dividing twice is dividing by the product.
LEMMA DividedTwice ==
  ASSUME NEW v \in Int, NEW m \in Nat, NEW n \in Nat, m > 0, n > 0
  PROVE  (v \div m) \div n = v \div (m * n)
OBVIOUS

\* The little-endian bytes of a number, one by one.
LEMMA ByteOf ==
  ASSUME NEW v \in Int, NEW n \in {2, 4}
  PROVE  /\ LE(n, v)[1] = v % Base /\ LE(n, v)[2] = (v \div Base) % Base
         /\ n = 4 => /\ LE(4, v)[3] = (v \div U16Size) % Base
                    /\ LE(4, v)[4] = (v \div (Base * U16Size)) % Base
<1> DEFINE weight == <<1, Base, U16Size, Base * U16Size>>
<1>1. /\ weight[1] = 1 /\ weight[2] = Base /\ weight[3] = U16Size
      /\ weight[4] = Base * U16Size
  OBVIOUS
<1>2. v \div 1 = v
  OBVIOUS
<1>3. LE(n, v) = [i \in 1 .. n |-> (v \div weight[i]) % Base]
  BY DEF LE
<1> HIDE DEF weight
<1>4. \A i \in 1 .. n : LE(n, v)[i] = (v \div weight[i]) % Base
  BY <1>3
<1>5. 1 \in 1 .. n /\ 2 \in 1 .. n /\ (n = 4 => 3 \in 1 .. n /\ 4 \in 1 .. n)
  OBVIOUS
<1> QED BY <1>1, <1>2, <1>4, <1>5

\* The bytes of a word make its value again.
LEMMA TwoBytes ==
  ASSUME NEW v \in 0 .. (U16Size - 1)
  PROVE  LE(2, v)[1] + Base * LE(2, v)[2] = v
<1>1. v \in Int /\ 2 \in {2, 4}
  BY Sizes
<1>2. LE(2, v)[1] = v % Base /\ LE(2, v)[2] = (v \div Base) % Base
  BY <1>1, ByteOf
<1>3. v \div Base \in 0 .. (Base - 1)
  BY Sizes
<1>4. (v \div Base) % Base = v \div Base
  BY <1>3, Sizes
<1>5. v = Base * (v \div Base) + (v % Base)
  BY <1>1, Divided
<1>6. v \div Base \in Int /\ v % Base \in Int
  BY <1>1, <1>3, Sizes
<1>7. LE(2, v)[1] + Base * LE(2, v)[2] = (v % Base) + Base * (v \div Base)
  BY <1>2, <1>4
<1>8. Base * (v \div Base) \in Int
  BY <1>6, Sizes
<1> QED BY <1>1, <1>5, <1>6, <1>7, <1>8

\* Of a number beyond 32 bits, or below zero, what is left of it.
LEMMA FourBytes ==
  ASSUME NEW v \in Int
  PROVE  LE(4, v)[1] + Base * LE(4, v)[2] + U16Size * (LE(4, v)[3] + Base * LE(4, v)[4])
           = v - U32Size * (v \div U32Size)
<1> DEFINE q1 == v \div Base
           q2 == v \div U16Size
           q3 == v \div (Base * U16Size)
           q4 == v \div U32Size
<1>1. /\ LE(4, v)[1] = v % Base /\ LE(4, v)[2] = q1 % Base
      /\ LE(4, v)[3] = q2 % Base /\ LE(4, v)[4] = q3 % Base
  BY ByteOf
<1>2. q2 = q1 \div Base
  BY Sizes, DividedTwice
<1>3. q3 = q2 \div Base
  <2>1. U16Size * Base = Base * U16Size
    BY Sizes
  <2> QED BY <2>1, Sizes, DividedTwice
<1>4. q4 = q3 \div Base
  <2>1. (Base * U16Size) * Base = U32Size
    BY Sizes
  <2>2. Base * U16Size \in Nat /\ Base * U16Size > 0
    BY Sizes
  <2> QED BY <2>1, <2>2, Sizes, DividedTwice
<1>5. q1 \in Int /\ q2 \in Int /\ q3 \in Int /\ q4 \in Int
  <2>1. Base * U16Size \in Nat /\ Base * U16Size > 0
    BY Sizes
  <2> QED BY <2>1, Sizes, Quotient
<1> HIDE DEF q1, q2, q3, q4
<1>6. v = Base * q1 + (v % Base)
  BY Sizes, Divided DEF q1
<1>7. q1 = Base * q2 + (q1 % Base)
  BY <1>2, <1>5, Sizes, Divided
<1>8. q2 = Base * q3 + (q2 % Base)
  BY <1>3, <1>5, Sizes, Divided
<1>9. q3 = Base * q4 + (q3 % Base)
  BY <1>4, <1>5, Sizes, Divided
<1> DEFINE r0 == v % Base
           r1 == q1 % Base
           r2 == q2 % Base
           r3 == q3 % Base
<1>10. r0 \in Int /\ r1 \in Int /\ r2 \in Int /\ r3 \in Int
  BY <1>5, Sizes, Divided
<1> HIDE DEF r0, r1, r2, r3
<1>11. r0 + Base * r1 = v - U16Size * q2
  <2>1. v = Base * (Base * q2 + r1) + r0
    BY <1>6, <1>7 DEF r0, r1
  <2>2. Base * (Base * q2 + r1) = Base * Base * q2 + Base * r1
    BY <1>5, <1>10, Sizes
  <2>3. Base * Base * q2 = U16Size * q2
    BY Sizes
  <2>4. U16Size * q2 \in Int /\ Base * r1 \in Int
    BY <1>5, <1>10, Sizes
  <2> HIDE DEF r0, r1
  <2> QED BY <2>1, <2>2, <2>3, <2>4, <1>10
<1>12. r2 + Base * r3 = q2 - U16Size * q4
  <2>1. q2 = Base * (Base * q4 + r3) + r2
    BY <1>8, <1>9 DEF r2, r3
  <2>2. Base * (Base * q4 + r3) = Base * Base * q4 + Base * r3
    BY <1>5, <1>10, Sizes
  <2>3. Base * Base * q4 = U16Size * q4
    BY Sizes
  <2>4. U16Size * q4 \in Int /\ Base * r3 \in Int
    BY <1>5, <1>10, Sizes
  <2> QED BY <2>1, <2>2, <2>3, <2>4, <1>10
<1>13. U16Size * (r2 + Base * r3) = U16Size * q2 - U32Size * q4
  <2>1. U16Size * (q2 - U16Size * q4) = U16Size * q2 - U16Size * U16Size * q4
    BY <1>5, Sizes
  <2>2. U16Size * U16Size * q4 = U32Size * q4
    BY Sizes
  <2> QED BY <2>1, <2>2, <1>12
<1>14. /\ r0 + Base * r1 + U16Size * (r2 + Base * r3) = v - U32Size * q4
  <2> DEFINE a == r0 + Base * r1
             c == U16Size * q2
             d == U32Size * q4
  <2>1. a \in Int /\ c \in Int /\ d \in Int
    BY <1>5, <1>10, Sizes
  <2>2. a = v - c
    BY <1>11
  <2>3. U16Size * (r2 + Base * r3) = c - d
    BY <1>13
  <2> HIDE DEF a, c, d
  <2>4. a + (c - d) = v - d
    BY <2>1, <2>2
  <2> QED BY <2>3, <2>4 DEF a, c, d
<1> QED BY <1>1, <1>14 DEF r0, r1, r2, r3, q4

\* What a number of 32 bits is read as, unsigned or signed.
LEMMA WordValue ==
  ASSUME NEW v \in Int
  PROVE  /\ v \in 0 .. (U32Size - 1) => v - U32Size * (v \div U32Size) = v
         /\ v < U32Size \div 2 /\ -v < U32Size \div 2 =>
              LET u == v - U32Size * (v \div U32Size) IN
              (IF u < U32Size \div 2 THEN u ELSE u - U32Size) = v
<1>1. U32Size \in Nat /\ U32Size >= 2
  BY Sizes
<1>2. ASSUME v \in 0 .. (U32Size - 1) PROVE v \div U32Size = 0
  BY <1>1, <1>2
<1>3. U32Size \div 2 \in Nat /\ 2 * (U32Size \div 2) <= U32Size
  BY <1>1
<1>4. ASSUME v < 0, -v < U32Size \div 2 PROVE v \div U32Size = -1
  <2>1. -v <= U32Size
    BY <1>1, <1>3, <1>4
  <2>2. v = U32Size * (-1) + (v + U32Size) /\ v + U32Size \in 0 .. (U32Size - 1)
    BY <1>1, <1>4, <2>1
  <2> QED BY <1>1, <2>2
<1> QED BY <1>1, <1>2, <1>3, <1>4

-----------------------------------------------------------------------------
(* Reading from the end. *)

\* The last n bytes of s and t are the same.
SameEnd(s, t, n) == \A i \in 1 .. n : t[Len(t) - i + 1] = s[Len(s) - i + 1]

\* bytes are in s, from d before its end on.
Holds(s, d, bytes) == \A i \in 1 .. Len(bytes) : s[Len(s) - d + i] = bytes[i]

\* Equal ends have equal bytes at equal distances from the end.
LEMMA SameBytes ==
  ASSUME NEW s, NEW t, NEW n \in Nat, Len(s) \in Nat, Len(t) \in Nat, SameEnd(s, t, n),
         NEW d \in Int, NEW i \in Int, d - i \in 0 .. n - 1
  PROVE  t[Len(t) - d + i] = s[Len(s) - d + i]
<1>1. d - i + 1 \in 1 .. n
  OBVIOUS
<1>2. /\ Len(t) - (d - i + 1) + 1 = Len(t) - d + i
      /\ Len(s) - (d - i + 1) + 1 = Len(s) - d + i
  OBVIOUS
<1> QED BY <1>1, <1>2 DEF SameEnd

\* What one of them holds, the other holds.
LEMMA SameHolds ==
  ASSUME NEW s, NEW t, NEW n \in Nat, Len(s) \in Nat, Len(t) \in Nat, SameEnd(s, t, n),
         NEW d \in 0 .. n, NEW bytes, Len(bytes) \in 0 .. d, Holds(s, d, bytes)
  PROVE  Holds(t, d, bytes)
<1> SUFFICES ASSUME NEW i \in 1 .. Len(bytes) PROVE t[Len(t) - d + i] = bytes[i]
  BY DEF Holds
<1>1. d \in Int /\ i \in Int /\ d - i \in 0 .. n - 1
  OBVIOUS
<1>2. t[Len(t) - d + i] = s[Len(s) - d + i]
  BY <1>1, SameBytes
<1> QED BY <1>2 DEF Holds

\* A u16 reads the same in both.
LEMMA Same16 ==
  ASSUME NEW s, NEW t, NEW n \in Nat, Len(s) \in Nat, Len(t) \in Nat, SameEnd(s, t, n),
         NEW d \in 2 .. n
  PROVE  ReadU16(t, Len(t) - d) = ReadU16(s, Len(s) - d)
<1>1. t[Len(t) - d + 1] = s[Len(s) - d + 1] /\ t[Len(t) - d + 2] = s[Len(s) - d + 2]
  <2>1. d - 1 \in 0 .. n - 1 /\ d - 2 \in 0 .. n - 1
    OBVIOUS
  <2> QED BY <2>1, SameBytes
<1> QED BY <1>1 DEF ReadU16

\* So do a u32 and an i32.
LEMMA Same32 ==
  ASSUME NEW s, NEW t, NEW n \in Nat, Len(s) \in Nat, Len(t) \in Nat, SameEnd(s, t, n),
         NEW d \in 4 .. n
  PROVE  /\ ReadU32(t, Len(t) - d) = ReadU32(s, Len(s) - d)
         /\ ReadI32(t, Len(t) - d) = ReadI32(s, Len(s) - d)
<1>1. d \in 2 .. n /\ d - 2 \in 2 .. n
  OBVIOUS
<1>2. Len(t) - d + 2 = Len(t) - (d - 2) /\ Len(s) - d + 2 = Len(s) - (d - 2)
  OBVIOUS
<1>3. ReadU16(t, Len(t) - d) = ReadU16(s, Len(s) - d)
  BY <1>1, Same16
<1>4. ReadU16(t, Len(t) - (d - 2)) = ReadU16(s, Len(s) - (d - 2))
  BY <1>1, Same16
<1>5. ReadU32(t, Len(t) - d) = ReadU32(s, Len(s) - d)
  BY <1>2, <1>3, <1>4 DEF ReadU32
<1> QED BY <1>5 DEF ReadI32

\* A number has as many bytes as it is written in.
LEMMA LELength ==
  ASSUME NEW n \in Nat, NEW v
  PROVE  DOMAIN LE(n, v) = 1 .. n /\ Len(LE(n, v)) = n
BY DEF LE

\* A u16 that is written reads as what it is.
LEMMA Read16 ==
  ASSUME NEW s, Len(s) \in Nat, NEW d \in Int, NEW v \in 0 .. (U16Size - 1),
         Holds(s, d, LE(2, v))
  PROVE  ReadU16(s, Len(s) - d) = v
<1>1. Len(LE(2, v)) = 2
  BY LELength
<1>2. s[Len(s) - d + 1] = LE(2, v)[1] /\ s[Len(s) - d + 2] = LE(2, v)[2]
  BY <1>1 DEF Holds
<1> QED BY <1>2, TwoBytes DEF ReadU16

\* So do a u32, and an i32 that is not too far from zero.
LEMMA Read32 ==
  ASSUME NEW s, Len(s) \in Nat, NEW d \in Int, NEW v \in Int, Holds(s, d, LE(4, v))
  PROVE  /\ v \in 0 .. (U32Size - 1) => ReadU32(s, Len(s) - d) = v
         /\ v < U32Size \div 2 /\ -v < U32Size \div 2 => ReadI32(s, Len(s) - d) = v
<1>1. Len(LE(4, v)) = 4
  BY LELength
<1>2. /\ s[Len(s) - d + 1] = LE(4, v)[1] /\ s[Len(s) - d + 2] = LE(4, v)[2]
      /\ s[Len(s) - d + 3] = LE(4, v)[3] /\ s[Len(s) - d + 4] = LE(4, v)[4]
  BY <1>1 DEF Holds
<1>3. /\ Len(s) - d + 2 + 1 = Len(s) - d + 3
      /\ Len(s) - d + 2 + 2 = Len(s) - d + 4
  OBVIOUS
<1>4. ReadU32(s, Len(s) - d)
        = LE(4, v)[1] + Base * LE(4, v)[2] + U16Size * (LE(4, v)[3] + Base * LE(4, v)[4])
  BY <1>2, <1>3 DEF ReadU32, ReadU16
<1>5. ReadU32(s, Len(s) - d) = v - U32Size * (v \div U32Size)
  BY <1>4, FourBytes
<1> QED BY <1>5, WordValue DEF ReadI32

\* Each word of a sequence of words is where its place says.
LEMMA HoldsWord ==
  ASSUME NEW s, NEW d \in Nat, Len(s) \in Nat, NEW n \in {2, 4},
         NEW ws, Len(ws) \in Nat, Holds(s, d, Words(n, ws)), NEW k \in 1 .. Len(ws)
  PROVE  Holds(s, d - n * (k - 1), LE(n, ws[k]))
<1>1. Len(LE(n, ws[k])) = n
  BY LELength
<1> SUFFICES ASSUME NEW i \in 1 .. n
             PROVE  s[Len(s) - (d - n * (k - 1)) + i] = LE(n, ws[k])[i]
  BY <1>1 DEF Holds
<1> DEFINE j == n * (k - 1) + i
<1>2. j \in 1 .. n * Len(ws) /\ (j - 1) \div n + 1 = k /\ ((j - 1) % n) + 1 = i
  <2>1. CASE n = 2
    BY <2>1
  <2>2. CASE n = 4
    BY <2>2
  <2> QED BY <2>1, <2>2
<1>3. Len(s) - d + j = Len(s) - (d - n * (k - 1)) + i
  BY <1>2
<1> HIDE DEF j
<1>4. Words(n, ws)[j] = LE(n, ws[k])[i]
  BY <1>2 DEF Words
<1>5. Len(Words(n, ws)) = n * Len(ws)
  BY DEF Words
<1>6. s[Len(s) - d + j] = Words(n, ws)[j]
  BY <1>2, <1>5 DEF Holds
<1> QED BY <1>3, <1>4, <1>6

\* What is held in a row is held in parts.
LEMMA HoldsJoined ==
  ASSUME NEW s, NEW d \in Nat, Len(s) \in Nat, NEW S, NEW x \in Seq(S), NEW y \in Seq(S),
         Holds(s, d, x \o y)
  PROVE  Holds(s, d, x) /\ Holds(s, d - Len(x), y)
<1>1. Len(x) \in Nat /\ Len(y) \in Nat /\ Len(x \o y) = Len(x) + Len(y)
  BY ConcatProperties
<1>2. ASSUME NEW i \in 1 .. Len(x) PROVE s[Len(s) - d + i] = x[i]
  <2>1. i \in 1 .. Len(x) + Len(y) /\ i <= Len(x)
    BY <1>1
  <2>2. (x \o y)[i] = x[i]
    BY <2>1, ConcatProperties
  <2> QED BY <1>1, <2>1, <2>2 DEF Holds
<1>3. ASSUME NEW i \in 1 .. Len(y) PROVE s[Len(s) - (d - Len(x)) + i] = y[i]
  <2>1. /\ i + Len(x) \in 1 .. Len(x) + Len(y) /\ ~(i + Len(x) <= Len(x))
        /\ i + Len(x) - Len(x) = i
    BY <1>1
  <2>2. (x \o y)[i + Len(x)] = y[i]
    BY <2>1, ConcatProperties
  <2>3. Len(s) - (d - Len(x)) + i = Len(s) - d + (i + Len(x))
    BY <1>1
  <2> QED BY <1>1, <2>1, <2>2, <2>3 DEF Holds
<1> QED BY <1>2, <1>3 DEF Holds

-----------------------------------------------------------------------------
(* Sequences, whatever they are of. *)

IsBuffer(s) == \E S : s \in Seq(S)

\* A number is written as a sequence of bytes.
LEMMA LEBytes ==
  ASSUME NEW n \in Nat, NEW v
  PROVE  IsBuffer(LE(n, v)) /\ Len(LE(n, v)) = n
<1> DEFINE weight == <<1, Base, U16Size, Base * U16Size>>
           e(i) == (v \div weight[i]) % Base
           s == [i \in 1 .. n |-> e(i)]
<1>1. s \in Seq({e(i) : i \in 1 .. n}) /\ Len(s) = n
  <2> HIDE DEF e
  <2> QED OBVIOUS
<1>2. LE(n, v) = s
  BY DEF LE
<1> HIDE DEF s
<1> QED BY <1>1, <1>2 DEF IsBuffer

\* Words of n bytes are a sequence n times as long.
LEMMA WordsBytes ==
  ASSUME NEW n \in Nat, NEW ws, Len(ws) \in Nat
  PROVE  IsBuffer(Words(n, ws)) /\ Len(Words(n, ws)) = n * Len(ws)
<1> DEFINE e(i) == LE(n, ws[(i - 1) \div n + 1])[((i - 1) % n) + 1]
           m == n * Len(ws)
           s == [i \in 1 .. m |-> e(i)]
<1>1. m \in Nat
  OBVIOUS
<1>2. s \in Seq({e(i) : i \in 1 .. m}) /\ Len(s) = m
  <2> HIDE DEF e, m
  <2> QED BY <1>1
<1>3. Words(n, ws) = s
  BY DEF Words
<1> HIDE DEF s
<1> QED BY <1>2, <1>3 DEF IsBuffer

\* A set of naturals that is not empty has a smallest member.
LEMMA Smallest ==
  ASSUME NEW T \in SUBSET Nat, T # {}
  PROVE  Min(T) \in T /\ \A y \in T : Min(T) <= y
<1>1. PICK x \in T : \A y \in T : x <= y
  <2> SUFFICES ASSUME \A x \in T : \E y \in T : y < x PROVE FALSE
    OBVIOUS
  <2>1. PICK x \in T : \A y \in T : ~(<<y, x>> \in OpToRel(<, Nat))
    BY WFMin, NatLessThanWellFounded
  <2>2. PICK y \in T : y < x
    BY <2>1
  <2>3. <<y, x>> \in OpToRel(<, Nat)
    BY <2>2, Zenon DEF OpToRel
  <2> QED BY <2>1, <2>3
<1> QED BY <1>1 DEF Min

\* A set of naturals below a bound that is not empty has a largest member.
LEMMA Largest ==
  ASSUME NEW n \in Nat, NEW T \in SUBSET (0 .. n), T # {}
  PROVE  Max(T) \in T /\ \A y \in T : y <= Max(T)
<1> DEFINE U == {n - x : x \in T}
<1>1. U \in SUBSET Nat /\ U # {}
  <2>1. \A x \in T : x \in 0 .. n
    OBVIOUS
  <2>2. PICK x \in T : TRUE
    OBVIOUS
  <2>3. n - x \in U
    OBVIOUS
  <2> QED BY <2>1, <2>3
<1>2. PICK x \in T : n - x = Min(U)
  BY <1>1, Smallest
<1>3. \A y \in T : x >= y
  <2> TAKE y \in T
  <2>1. Min(U) <= n - y
    BY <1>1, Smallest
  <2>2. x \in 0 .. n /\ y \in 0 .. n
    OBVIOUS
  <2> HIDE DEF U
  <2> QED BY <1>2, <2>1, <2>2
<1> QED BY <1>3 DEF Max

\* A power of two that is at least n is an integer, however Power is read.
LEMMA PowerInt ==
  ASSUME NEW n \in Nat, NEW k \in 0 .. 30, 2 ^ k >= n
  PROVE  2 ^ k \in Int
OBVIOUS

\* Rounding up to a power of two gives a number at least as large.
LEMMA Rounded ==
  ASSUME NEW n \in Nat
  PROVE  NextPowerOfTwo(n) \in Nat /\ NextPowerOfTwo(n) >= n
<1> DEFINE fits == {k \in 0 .. 30 : 2 ^ k >= n}
<1>1. CASE fits = {}
  BY <1>1 DEF NextPowerOfTwo
<1>2. CASE fits # {}
  <2>1. Min(fits) \in fits
    BY <1>2, Smallest
  <2>2. 2 ^ Min(fits) >= n /\ Min(fits) \in 0 .. 30
    BY <2>1
  <2>3. 2 ^ Min(fits) \in Int
    BY <2>2, PowerInt
  <2>4. NextPowerOfTwo(n) = 2 ^ Min(fits)
    BY <1>2 DEF NextPowerOfTwo
  <2> QED BY <2>2, <2>3, <2>4
<1> QED BY <1>1, <1>2

-----------------------------------------------------------------------------
(* Builders.  What is said of them looks at lengths and at which bytes are  *)
(* zero or stay, never at what a byte is.                                  *)

\* What a builder is a record of.
Fields ==
  {"buf", "head", "minAlign", "forceDefaults", "tableStart", "fieldCount", "fields",
   "inTable", "vtables"}

\* A builder: head is within the buffer, and places are numbers.
IsBuilder(w) ==
  /\ DOMAIN w = Fields
  /\ IsBuffer(w.buf) /\ w.head \in 0 .. Len(w.buf)
  /\ w.minAlign \in {1, 4} /\ w.tableStart \in Nat /\ w.fieldCount \in Nat
  /\ \A f \in w.fields : f.used \in Nat

\* Everything before head is zero.
Ahead(w) == \A i \in 1 .. w.head : w.buf[i] = 0

\* What was written in w is in v, at the same distance from the end.
Kept(w, v) ==
  \A i \in 1 .. UsedSpace(w) : v.buf[Cap(v) - i + 1] = w.buf[Cap(w) - i + 1]

\* They are at the same point of the same table.
Alike(w, v) ==
  /\ v.tableStart = w.tableStart /\ v.fieldCount = w.fieldCount /\ v.fields = w.fields
  /\ v.inTable = w.inTable /\ v.vtables = w.vtables

\* v is w with n bytes more.
Longer(w, v, n) ==
  /\ IsBuilder(v) /\ UsedSpace(v) = UsedSpace(w) + n
  /\ Ahead(w) => Ahead(v)
  /\ Kept(w, v)

\* Zeros are zero.
LEMMA ZeroBytes ==
  ASSUME NEW n \in Nat
  PROVE  /\ Zeros(n) \in Seq({0}) /\ Len(Zeros(n)) = n
         /\ \A i \in 1 .. n : Zeros(n)[i] = 0
BY DEF Zeros

\* A new builder is empty, and zero everywhere.
LEMMA NewBuilder == IsBuilder(New) /\ Ahead(New) /\ UsedSpace(New) = 0
<1>1. /\ Zeros(InitialCap) \in Seq({0}) /\ Len(Zeros(InitialCap)) = InitialCap
      /\ \A i \in 1 .. InitialCap : Zeros(InitialCap)[i] = 0
  BY InitialCapAssumption, ZeroBytes
<1>2. /\ DOMAIN New = Fields /\ New.buf = Zeros(InitialCap) /\ New.head = InitialCap
      /\ New.minAlign = 1 /\ New.tableStart = 0 /\ New.fieldCount = 0 /\ New.fields = {}
  BY DEF New, Fields
<1> QED BY <1>1, <1>2, InitialCapAssumption
        DEF IsBuilder, IsBuffer, Ahead, UsedSpace, Cap

\* A sequence is defined on the numbers up to its length.
LEMMA Buffers ==
  ASSUME NEW s, IsBuffer(s)
  PROVE  Len(s) \in Nat /\ DOMAIN s = 1 .. Len(s)
BY DEF IsBuffer

\* The used space of a builder is a number.
LEMMA Used ==
  ASSUME NEW w, IsBuilder(w)
  PROVE  /\ w.head \in Nat /\ Cap(w) \in Nat /\ UsedSpace(w) \in Nat
         /\ Len(w.buf) = Cap(w) /\ w.head <= Cap(w)
         /\ UsedSpace(w) = Cap(w) - w.head
BY Buffers DEF IsBuilder, UsedSpace, Cap

\* The tail of a buffer behind n zeros.
Moved(s, h, n) == Zeros(n) \o SubSeq(s, h + 1, Len(s))

\* Moving a tail behind zeros puts each of its bytes that much later.
LEMMA Moving ==
  ASSUME NEW s, IsBuffer(s), NEW k \in Nat, NEW h \in 0 .. Len(s)
  PROVE  /\ IsBuffer(Moved(s, h, k + h)) /\ Len(Moved(s, h, k + h)) = k + Len(s)
         /\ \A i \in 1 .. k + h : Moved(s, h, k + h)[i] = 0
         /\ \A i \in h + 1 .. Len(s) : Moved(s, h, k + h)[k + i] = s[i]
<1> DEFINE z == Zeros(k + h)
           t == SubSeq(s, h + 1, Len(s))
           c == Moved(s, h, k + h)
<1>1. PICK S : s \in Seq(S)
  BY DEF IsBuffer
<1>2. Len(s) \in Nat /\ h \in Nat /\ h <= Len(s) /\ k + h \in Nat
  BY <1>1
<1>3. z \in Seq({0}) /\ Len(z) = k + h /\ \A i \in 1 .. k + h : z[i] = 0
  BY <1>2, ZeroBytes
<1>4. t \in Seq(S) /\ Len(t) = Len(s) - h
  BY <1>1, <1>2
<1>5. \A i \in 1 .. Len(t) : t[i] = s[h + i]
  BY <1>1, <1>2, <1>4
<1>6. c = z \o t
  BY DEF Moved
<1> HIDE DEF z, t, c
<1>7. z \in Seq(S \cup {0}) /\ t \in Seq(S \cup {0})
  <2>1. S \subseteq S \cup {0} /\ {0} \subseteq S \cup {0}
    OBVIOUS
  <2> QED BY <1>3, <1>4, <2>1, SeqMonotonic
<1>8. /\ c \in Seq(S \cup {0}) /\ Len(c) = Len(z) + Len(t)
      /\ \A i \in 1 .. Len(z) + Len(t) : c[i] = IF i <= Len(z) THEN z[i] ELSE t[i - Len(z)]
  BY <1>6, <1>7, ConcatProperties
<1>9. Len(c) = k + Len(s)
  BY <1>2, <1>3, <1>4, <1>8
<1>10. ASSUME NEW i \in 1 .. k + h PROVE c[i] = 0
  <2>1. i \in 1 .. Len(z) + Len(t) /\ i <= Len(z)
    BY <1>2, <1>3, <1>4
  <2>2. c[i] = z[i]
    BY <2>1, <1>8
  <2> QED BY <2>2, <1>3
<1>11. ASSUME NEW i \in h + 1 .. Len(s) PROVE c[k + i] = s[i]
  <2>1. i - h \in 1 .. Len(t) /\ k + i - Len(z) = i - h /\ h + (i - h) = i
    BY <1>2, <1>3, <1>4
  <2>2. k + i \in 1 .. Len(z) + Len(t) /\ ~(k + i <= Len(z))
    BY <1>2, <1>3, <1>4
  <2>3. c[k + i] = t[k + i - Len(z)]
    BY <2>2, <1>8
  <2> QED BY <2>1, <2>3, <1>5
<1> QED BY <1>8, <1>9, <1>10, <1>11 DEF IsBuffer, c

\* Growing makes room for n bytes, and otherwise changes nothing that was
\* written; with room enough it changes nothing.
LEMMA GrowLonger ==
  ASSUME NEW w, IsBuilder(w), NEW n \in Nat
  PROVE  /\ Longer(w, Grow(w, n), 0) /\ Alike(w, Grow(w, n))
         /\ Grow(w, n).head >= n
         /\ w.head >= n => Grow(w, n) = w
<1>1. CASE w.head >= n
  <2>1. Grow(w, n) = w
    BY <1>1 DEF Grow
  <2> QED BY <1>1, <2>1, Used DEF Longer, Alike, Kept
<1>2. CASE ~(w.head >= n)
  <2> DEFINE need == Cap(w) + n - w.head
             k == NextPowerOfTwo(need) - Cap(w)
             g == Grow(w, n)
             buf == Moved(w.buf, w.head, k + w.head)
  <2>1. k \in Nat /\ k >= n - w.head
    <3>1. need \in Nat /\ need >= Cap(w) /\ Cap(w) \in Nat
      BY <1>2, Used
    <3> HIDE DEF need
    <3>2. NextPowerOfTwo(need) \in Nat /\ NextPowerOfTwo(need) >= need
      BY <3>1, Rounded
    <3> QED BY <3>1, <3>2, Used DEF need
  <2>2. g = [w EXCEPT !.buf = buf, !.head = @ + k]
    BY <1>2 DEF Grow, Moved
  <2> HIDE DEF k
  <2>3. /\ IsBuffer(buf) /\ Len(buf) = k + Len(w.buf)
        /\ \A i \in 1 .. k + w.head : buf[i] = 0
        /\ \A i \in w.head + 1 .. Len(w.buf) : buf[k + i] = w.buf[i]
    <3>1. IsBuffer(w.buf) /\ w.head \in 0 .. Len(w.buf)
      BY DEF IsBuilder
    <3> QED BY <2>1, <3>1, Moving
  <2> HIDE DEF buf, g
  <2>4. /\ DOMAIN g = Fields /\ g.buf = buf /\ g.head = w.head + k /\ Alike(w, g)
    BY <2>2 DEF IsBuilder, Fields, Alike
  <2>5. Cap(g) = k + Cap(w) /\ UsedSpace(g) = UsedSpace(w) + 0 /\ g.head >= n
    BY <2>1, <2>3, <2>4, Used DEF UsedSpace, Cap
  <2>6. IsBuilder(g)
    <3>1. g.minAlign = w.minAlign
      BY <2>2 DEF IsBuilder, Fields
    <3> QED BY <2>1, <2>3, <2>4, <3>1, Used DEF IsBuilder, Alike
  <2>7. Ahead(g)
    BY <2>1, <2>3, <2>4, Used DEF Ahead
  <2>8. Kept(w, g)
    <3> SUFFICES ASSUME NEW i \in 1 .. UsedSpace(w)
                 PROVE  g.buf[Cap(g) - i + 1] = w.buf[Cap(w) - i + 1]
      BY DEF Kept
    <3>1. Cap(w) - i + 1 \in w.head + 1 .. Len(w.buf)
      BY Used
    <3>2. Cap(g) - i + 1 = k + (Cap(w) - i + 1)
      BY <2>1, <2>5, Used
    <3> QED BY <3>1, <3>2, <2>3, <2>4
  <2> QED BY <2>4, <2>5, <2>6, <2>7, <2>8, <1>2 DEF Longer, g
<1> QED BY <1>1, <1>2, Used

\* n bytes more after m more are m + n more.
LEMMA LongerStill ==
  ASSUME NEW u, NEW v, NEW w, NEW m \in Nat, NEW n \in Nat,
         IsBuilder(u), Longer(u, v, m), Longer(v, w, n)
  PROVE  Longer(u, w, m + n)
<1>1. UsedSpace(u) \in Nat /\ UsedSpace(v) = UsedSpace(u) + m
  BY Used DEF Longer
<1>2. Kept(u, w)
  BY <1>1 DEF Longer, Kept
<1> QED BY <1>1, <1>2 DEF Longer

\* Moving head down makes room for n bytes, which are zero if all before
\* head was.
LEMMA SkipLonger ==
  ASSUME NEW w, IsBuilder(w), NEW n \in Nat
  PROVE  /\ Longer(w, Skip(w, n), n) /\ Alike(w, Skip(w, n))
         /\ Cap(Skip(w, n)) = Cap(Grow(w, n)) /\ Skip(w, n).head = Grow(w, n).head - n
         /\ Ahead(w) => \A i \in 1 .. Skip(w, n).head + n : Skip(w, n).buf[i] = 0
<1> DEFINE g == Grow(w, n)
           v == Skip(w, n)
<1>1. Longer(w, g, 0) /\ Alike(w, g) /\ g.head >= n
  BY GrowLonger
<1>2. v = [g EXCEPT !.head = @ - n]
  BY DEF Skip
<1> HIDE DEF g, v
<1>3. IsBuilder(g)
  BY <1>1 DEF Longer
<1>4. /\ DOMAIN v = Fields /\ v.buf = g.buf /\ v.head = g.head - n
      /\ v.minAlign = g.minAlign /\ Alike(g, v)
  BY <1>2, <1>3 DEF IsBuilder, Fields, Alike
<1>5. IsBuilder(v)
  BY <1>1, <1>3, <1>4, Used DEF IsBuilder, Alike
<1>6. Cap(v) = Cap(g) /\ UsedSpace(v) = UsedSpace(w) + n
  BY <1>1, <1>3, <1>4, Used DEF UsedSpace, Cap, Longer
<1>7. Ahead(w) => \A i \in 1 .. v.head + n : v.buf[i] = 0
  BY <1>1, <1>3, <1>4, Used DEF Ahead, Longer
<1>8. Ahead(w) => Ahead(v)
  BY <1>1, <1>3, <1>4, Used DEF Ahead, Longer
<1>9. Kept(w, v)
  BY <1>1, <1>4, <1>6 DEF Kept, Longer
<1>10. Alike(w, v)
  BY <1>1, <1>4 DEF Alike
<1> QED BY <1>4, <1>5, <1>6, <1>7, <1>8, <1>9, <1>10 DEF Longer, g, v

\* Writing keeps a builder one, wherever it writes.
LEMMA Writing ==
  ASSUME NEW v, IsBuilder(v), NEW at \in Nat, NEW bytes, IsBuffer(bytes)
  PROVE  LET x == WriteAt(v, at, bytes) IN
         /\ IsBuilder(x) /\ Alike(v, x) /\ x.head = v.head
         /\ Cap(x) = Cap(v) /\ UsedSpace(x) = UsedSpace(v)
         /\ \A i \in 1 .. Cap(v) :
              (i <= at \/ i > at + Len(bytes)) => x.buf[i] = v.buf[i]
<1> DEFINE x == WriteAt(v, at, bytes)
           buf == [i \in DOMAIN v.buf |-> IF i - at \in DOMAIN bytes THEN bytes[i - at]
                                          ELSE v.buf[i]]
<1>1. PICK S : v.buf \in Seq(S)
  BY DEF IsBuilder, IsBuffer
<1>2. PICK T : bytes \in Seq(T)
  BY DEF IsBuffer
<1>3. DOMAIN v.buf = 1 .. Len(v.buf) /\ Len(v.buf) \in Nat
  BY <1>1
<1>4. DOMAIN bytes = 1 .. Len(bytes) /\ Len(bytes) \in Nat
  BY <1>2
<1>5. buf \in Seq(S \cup T) /\ Len(buf) = Len(v.buf)
  <2>1. ASSUME NEW i \in 1 .. Len(v.buf) PROVE buf[i] \in S \cup T
    <3>1. v.buf[i] \in S
      BY <1>1
    <3>2. i - at \in DOMAIN bytes => bytes[i - at] \in T
      BY <1>2
    <3> QED BY <3>1, <3>2, <1>3
  <2>2. DOMAIN buf = 1 .. Len(v.buf)
    BY <1>3
  <2>3. buf = [i \in 1 .. Len(v.buf) |-> buf[i]]
    BY <1>3
  <2> HIDE DEF buf
  <2>4. buf \in [1 .. Len(v.buf) -> S \cup T]
    BY <2>1, <2>3
  <2> QED BY <2>4, <1>3
<1>6. \A i \in 1 .. Cap(v) : (i <= at \/ i > at + Len(bytes)) => buf[i] = v.buf[i]
  BY <1>3, <1>4 DEF Cap
<1>7. x = [v EXCEPT !.buf = buf]
  BY DEF WriteAt
<1> HIDE DEF buf, x
<1>8. /\ DOMAIN x = Fields /\ x.buf = buf /\ x.head = v.head /\ x.minAlign = v.minAlign
      /\ Alike(v, x)
  BY <1>7 DEF IsBuilder, Fields, Alike
<1>9. IsBuilder(x)
  BY <1>5, <1>8 DEF IsBuilder, Alike, IsBuffer
<1> QED BY <1>5, <1>6, <1>8, <1>9 DEF Cap, UsedSpace, x

\* The bytes written are where they were written.
LEMMA Written ==
  ASSUME NEW v, IsBuilder(v), NEW at \in Nat, NEW bytes, IsBuffer(bytes),
         NEW i \in 1 .. Len(bytes), at + i <= Cap(v)
  PROVE  WriteAt(v, at, bytes).buf[at + i] = bytes[i]
<1> DEFINE buf == [j \in DOMAIN v.buf |-> IF j - at \in DOMAIN bytes THEN bytes[j - at]
                                          ELSE v.buf[j]]
<1>1. WriteAt(v, at, bytes).buf = buf
  BY DEF WriteAt, IsBuilder, Fields
<1>2. /\ DOMAIN v.buf = 1 .. Cap(v) /\ Cap(v) \in Nat
      /\ DOMAIN bytes = 1 .. Len(bytes) /\ Len(bytes) \in Nat
  BY Buffers DEF IsBuilder, Cap
<1>3. at + i \in DOMAIN v.buf /\ (at + i) - at = i /\ i \in DOMAIN bytes
  BY <1>2
<1> QED BY <1>1, <1>3

\* Writing into what was added.
LEMMA WriteLonger ==
  ASSUME NEW w, IsBuilder(w), NEW n \in Nat, NEW v, Longer(w, v, n),
         NEW at \in Nat, NEW bytes, IsBuffer(bytes),
         v.head <= at, at + Len(bytes) <= v.head + n
  PROVE  Longer(w, WriteAt(v, at, bytes), n) /\ Alike(v, WriteAt(v, at, bytes))
<1> DEFINE x == WriteAt(v, at, bytes)
<1>1. IsBuilder(v)
  BY DEF Longer
<1>2. /\ IsBuilder(x) /\ Alike(v, x) /\ x.head = v.head
      /\ Cap(x) = Cap(v) /\ UsedSpace(x) = UsedSpace(v)
      /\ \A i \in 1 .. Cap(v) :
           (i <= at \/ i > at + Len(bytes)) => x.buf[i] = v.buf[i]
  BY <1>1, Writing
<1> HIDE DEF x
<1>3. /\ UsedSpace(v) = UsedSpace(w) + n /\ UsedSpace(v) = Cap(v) - v.head
      /\ Cap(v) \in Nat /\ v.head \in Nat /\ v.head <= Cap(v) /\ UsedSpace(w) \in Nat
      /\ Len(bytes) \in Nat
  BY <1>1, Used, Buffers DEF Longer
<1>4. Ahead(w) => Ahead(x)
  <2> SUFFICES ASSUME Ahead(w), NEW i \in 1 .. x.head PROVE x.buf[i] = 0
    BY DEF Ahead
  <2>1. i \in 1 .. v.head /\ i \in 1 .. Cap(v) /\ i <= at
    BY <1>2, <1>3
  <2> QED BY <2>1, <1>2 DEF Ahead, Longer
<1>5. Kept(w, x)
  <2> SUFFICES ASSUME NEW i \in 1 .. UsedSpace(w)
               PROVE  x.buf[Cap(x) - i + 1] = w.buf[Cap(w) - i + 1]
    BY DEF Kept
  <2>1. Cap(v) - i + 1 \in 1 .. Cap(v) /\ Cap(v) - i + 1 > at + Len(bytes)
    BY <1>3
  <2>2. v.buf[Cap(v) - i + 1] = w.buf[Cap(w) - i + 1]
    BY DEF Kept, Longer
  <2> QED BY <2>1, <2>2, <1>2
<1> QED BY <1>2, <1>4, <1>5 DEF Longer, x

\* A push adds its bytes in front of the others.
LEMMA PushLonger ==
  ASSUME NEW w, IsBuilder(w), NEW bytes, IsBuffer(bytes)
  PROVE  LET p == PushBytes(w, bytes) IN
         /\ Longer(w, p, Len(bytes)) /\ Alike(w, p)
         /\ Holds(p.buf, UsedSpace(p), bytes)
         /\ w.head >= Len(bytes) => Cap(p) = Cap(w) /\ p.head = w.head - Len(bytes)
<1> DEFINE n == Len(bytes)
           g == Skip(w, n)
           p == PushBytes(w, bytes)
<1>1. n \in Nat
  BY Buffers
<1>2. /\ Longer(w, g, n) /\ Alike(w, g) /\ Cap(g) = Cap(Grow(w, n))
      /\ g.head = Grow(w, n).head - n
  BY <1>1, SkipLonger
<1>3. IsBuilder(g) /\ g.head \in Nat
  BY <1>2, Used DEF Longer
<1>4. p = WriteAt(g, g.head, bytes)
  BY DEF PushBytes
<1>5. w.head >= n => Grow(w, n) = w
  BY <1>1, GrowLonger
<1> HIDE DEF g, p, n
<1>6. Longer(w, p, n) /\ Alike(g, p)
  BY <1>1, <1>2, <1>3, <1>4, WriteLonger DEF n
<1>7. Cap(p) = Cap(g) /\ p.head = g.head
  BY <1>3, <1>4, Writing
<1>8. Holds(p.buf, UsedSpace(p), bytes)
  <2>1. \A i \in 1 .. Len(bytes) : g.head + i <= Cap(g) => p.buf[g.head + i] = bytes[i]
    BY <1>3, <1>4, Written
  <2>2. UsedSpace(p) = UsedSpace(w) + n /\ UsedSpace(w) \in Nat /\ IsBuilder(p)
    BY <1>6, Used DEF Longer
  <2>3. /\ UsedSpace(p) = Cap(p) - p.head /\ Cap(p) \in Nat /\ p.head \in Nat
        /\ Len(p.buf) = Cap(p)
    BY <2>2, Used
  <2> SUFFICES ASSUME NEW i \in 1 .. Len(bytes)
               PROVE  p.buf[Len(p.buf) - UsedSpace(p) + i] = bytes[i]
    BY DEF Holds
  <2>4. Len(p.buf) - UsedSpace(p) + i = g.head + i /\ g.head + i <= Cap(g)
    BY <1>1, <1>7, <2>2, <2>3 DEF n
  <2> QED BY <2>1, <2>4
<1> QED BY <1>2, <1>5, <1>6, <1>7, <1>8 DEF p, n, Alike

\* A pushed word is at the new front.
LEMMA WordLonger ==
  ASSUME NEW w, IsBuilder(w), NEW v
  PROVE  /\ Longer(w, PushU32(w, v), 4) /\ Alike(w, PushU32(w, v))
         /\ Holds(PushU32(w, v).buf, UsedSpace(PushU32(w, v)), LE(4, v))
BY LEBytes, PushLonger DEF PushU32

-----------------------------------------------------------------------------
(* Alignment. *)

\* Padding makes a multiple of four.
LEMMA Padded ==
  ASSUME NEW n \in Nat
  PROVE  Pad(n, 4) \in Nat /\ (n + Pad(n, 4)) % 4 = 0
BY DEF Pad

\* Raising the alignment of the builder writes nothing.
LEMMA AlignedLonger ==
  ASSUME NEW w, IsBuilder(w), NEW n \in Nat, NEW v, Longer(w, v, n), Alike(w, v)
  PROVE  Longer(w, Aligned(v, 4), n) /\ Alike(w, Aligned(v, 4))
<1> DEFINE x == Aligned(v, 4)
<1>1. IsBuilder(v)
  BY DEF Longer
<1>2. x = [v EXCEPT !.minAlign = IF 4 > @ THEN 4 ELSE @]
  BY DEF Aligned
<1> HIDE DEF x
<1>3. /\ DOMAIN x = Fields /\ x.buf = v.buf /\ x.head = v.head /\ x.minAlign \in {1, 4}
      /\ Alike(v, x)
  BY <1>1, <1>2 DEF IsBuilder, Fields, Alike
<1>4. IsBuilder(x)
  BY <1>1, <1>3 DEF IsBuilder, Alike
<1>5. Cap(x) = Cap(v) /\ UsedSpace(x) = UsedSpace(v)
  BY <1>3 DEF UsedSpace, Cap
<1>6. (Ahead(w) => Ahead(x)) /\ Kept(w, x)
  BY <1>3, <1>5 DEF Longer, Ahead, Kept
<1>7. Alike(w, x)
  BY <1>3 DEF Alike
<1> QED BY <1>4, <1>5, <1>6, <1>7 DEF Longer, x

\* Aligning adds the padding, and leaves the used space a multiple of four.
LEMMA AlignLonger ==
  ASSUME NEW w, IsBuilder(w)
  PROVE  /\ Longer(w, Align(w, 4), Pad(UsedSpace(w), 4)) /\ Alike(w, Align(w, 4))
         /\ UsedSpace(Align(w, 4)) % 4 = 0
<1> DEFINE n == Pad(UsedSpace(w), 4)
<1>1. UsedSpace(w) \in Nat /\ n \in Nat /\ (UsedSpace(w) + n) % 4 = 0
  BY Used, Padded
<1> HIDE DEF n
<1>2. Longer(w, Skip(w, n), n) /\ Alike(w, Skip(w, n))
  BY <1>1, SkipLonger
<1>3. Align(w, 4) = Aligned(Skip(w, n), 4)
  BY DEF Align, n
<1>4. Longer(w, Align(w, 4), n) /\ Alike(w, Align(w, 4))
  BY <1>1, <1>2, <1>3, AlignedLonger
<1> QED BY <1>1, <1>4 DEF Longer, n

\* The slot of a field or of a table's soffset is aligned.
LEMMA SlotLonger ==
  ASSUME NEW w, IsBuilder(w), NEW v
  PROVE  LET t == PushU32(Align(w, 4), v) IN
         /\ \E n \in Nat : n >= 4 /\ Longer(w, t, n)
         /\ Alike(w, t) /\ UsedSpace(t) % 4 = 0
         /\ UsedSpace(t) = UsedSpace(Align(w, 4)) + 4
         /\ Holds(t.buf, UsedSpace(t), LE(4, v))
<1> DEFINE a == Align(w, 4)
           t == PushU32(a, v)
           n == Pad(UsedSpace(w), 4)
<1>1. UsedSpace(w) \in Nat /\ n \in Nat
  BY Used, Padded
<1>2. Longer(w, a, n) /\ Alike(w, a) /\ UsedSpace(a) % 4 = 0
  BY AlignLonger
<1> HIDE DEF a, n
<1>3. IsBuilder(a) /\ UsedSpace(a) \in Nat
  BY <1>2, Used DEF Longer
<1>4. Longer(a, t, 4) /\ Alike(a, t) /\ Holds(t.buf, UsedSpace(t), LE(4, v))
  BY <1>3, WordLonger
<1> HIDE DEF t
<1>5. Longer(w, t, n + 4)
  BY <1>1, <1>2, <1>4, LongerStill
<1>6. UsedSpace(t) = UsedSpace(a) + 4
  BY <1>4 DEF Longer
<1> QED BY <1>1, <1>2, <1>3, <1>4, <1>5, <1>6 DEF Alike, t, a

\* A count with its data is a sequence of bytes.
LEMMA CountedBytes ==
  ASSUME NEW count, NEW data, IsBuffer(data)
  PROVE  IsBuffer(LE(4, count) \o data) /\ Len(LE(4, count) \o data) = 4 + Len(data)
<1> DEFINE c == LE(4, count)
<1>1. IsBuffer(c) /\ Len(c) = 4
  BY LEBytes
<1> HIDE DEF c
<1>2. PICK S : c \in Seq(S)
  BY <1>1 DEF IsBuffer
<1>3. PICK T : data \in Seq(T)
  BY DEF IsBuffer
<1>4. c \in Seq(S \cup T) /\ data \in Seq(S \cup T)
  BY <1>2, <1>3
<1>5. c \o data \in Seq(S \cup T) /\ Len(c \o data) = Len(c) + Len(data)
  BY <1>4, ConcatProperties
<1> QED BY <1>1, <1>5 DEF IsBuffer, c

\* The count and the data of a block.
LEMMA CountedHolds ==
  ASSUME NEW s, Len(s) \in Nat, NEW d \in Nat, d >= 4, NEW count, NEW data, IsBuffer(data),
         Holds(s, d, LE(4, count) \o data)
  PROVE  Holds(s, d, LE(4, count)) /\ Holds(s, d - 4, data)
<1> DEFINE c == LE(4, count)
<1>1. IsBuffer(c) /\ Len(c) = 4
  BY LEBytes
<1> HIDE DEF c
<1>2. PICK S : c \in Seq(S)
  BY <1>1 DEF IsBuffer
<1>3. PICK T : data \in Seq(T)
  BY DEF IsBuffer
<1>4. c \in Seq(S \cup T) /\ data \in Seq(S \cup T)
  BY <1>2, <1>3
<1>5. Holds(s, d, c) /\ Holds(s, d - Len(c), data)
  BY <1>4, HoldsJoined DEF c
<1> QED BY <1>1, <1>5 DEF c

\* A counted block is at the new front with its count and data; the byte
\* after a string is zero because all before head was.
LEMMA BlockLonger ==
  ASSUME NEW w, IsBuilder(w), NEW count, NEW data, IsBuffer(data), NEW tail \in Nat
  PROVE  LET x == Block(w, count, data, tail)
             n == Pad(UsedSpace(w) + Len(data) + tail, 4) + tail + 4 + Len(data)
         IN /\ n \in Nat /\ Longer(w, x, n)
            /\ Alike(w, x) /\ UsedSpace(x) % 4 = 0
            /\ Holds(x.buf, UsedSpace(x), LE(4, count) \o data)
            /\ Ahead(w) /\ tail = 1 => x.buf[Cap(x) - UsedSpace(x) + 5 + Len(data)] = 0
<1> DEFINE m == UsedSpace(w) + Len(data) + tail
           pad == Pad(m, 4)
           body == LE(4, count) \o data
           n == pad + tail + Len(body)
           g == Grow(w, n)
           at == g.head - pad - tail - Len(body)
           s == Skip(w, n)
<1>1. UsedSpace(w) \in Nat /\ Len(data) \in Nat /\ m \in Nat
  BY Used, Buffers
<1>2. pad \in Nat /\ (m + pad) % 4 = 0
  <2> HIDE DEF m
  <2> QED BY <1>1, Padded
<1>3. IsBuffer(body) /\ Len(body) = 4 + Len(data)
  BY CountedBytes
<1>4. Block(w, count, data, tail) = Aligned(WriteAt([g EXCEPT !.head = at], at, body), 4)
  BY DEF Block
<1> HIDE DEF pad, body
<1>5. n \in Nat /\ (UsedSpace(w) + n) % 4 = 0
  <2>1. UsedSpace(w) + n = (m + pad) + 4
    BY <1>1, <1>2, <1>3
  <2> HIDE DEF m, n
  <2>2. (m + pad + 4) % 4 = 0
    BY <1>1, <1>2
  <2> QED BY <2>1, <2>2, <1>1, <1>2, <1>3 DEF n
<1>6. Longer(w, s, n) /\ Alike(w, s) /\ s.head = g.head - n
  <2> HIDE DEF n
  <2> QED BY <1>5, SkipLonger
<1>7. IsBuilder(s) /\ s.head \in Nat
  BY <1>6, Used DEF Longer
<1>8. IsBuilder(g) /\ g.head \in Nat
  <2> HIDE DEF n
  <2> QED BY <1>5, GrowLonger, Used DEF Longer
<1>9. at = s.head
  <2> HIDE DEF g, s
  <2> QED BY <1>2, <1>3, <1>6, <1>8
<1>10. s = [g EXCEPT !.head = g.head - n]
  BY <1>8 DEF Skip, IsBuilder
<1>11. g.head - n = at
  <2> HIDE DEF g, s
  <2> QED BY <1>6, <1>9
<1>12. Block(w, count, data, tail) = Aligned(WriteAt(s, s.head, body), 4)
  BY <1>4, <1>9, <1>10, <1>11
<1> HIDE DEF s, n
<1>13. s.head + Len(body) <= s.head + n
  BY <1>1, <1>2, <1>3, <1>7 DEF n
<1> DEFINE y == WriteAt(s, s.head, body)
           x == Block(w, count, data, tail)
<1>14. Longer(w, y, n) /\ Alike(w, y)
  BY <1>3, <1>5, <1>6, <1>7, <1>13, WriteLonger DEF Alike
<1>15. /\ y.head = s.head /\ Cap(y) = Cap(s) /\ UsedSpace(y) = UsedSpace(s)
       /\ \A i \in 1 .. Cap(s) :
            (i <= s.head \/ i > s.head + Len(body)) => y.buf[i] = s.buf[i]
  BY <1>3, <1>7, Writing
<1>16. \A i \in 1 .. Len(body) : s.head + i <= Cap(s) => y.buf[s.head + i] = body[i]
  BY <1>3, <1>7, Written
<1> HIDE DEF y
<1>17. Longer(w, x, n) /\ Alike(w, x)
  BY <1>5, <1>12, <1>14, AlignedLonger DEF y
<1>18. x.buf = y.buf /\ UsedSpace(x) = UsedSpace(y) /\ Cap(x) = Cap(y)
  <2>1. x = [y EXCEPT !.minAlign = IF 4 > @ THEN 4 ELSE @]
    BY <1>12 DEF Aligned, y
  <2>2. IsBuilder(y)
    BY <1>14 DEF Longer
  <2>3. x.buf = y.buf /\ x.head = y.head
    BY <2>1, <2>2 DEF IsBuilder, Fields
  <2> QED BY <2>3 DEF UsedSpace, Cap
<1> HIDE DEF x
<1>19. /\ UsedSpace(s) = Cap(s) - s.head /\ Cap(s) \in Nat /\ Len(x.buf) = Cap(s)
       /\ UsedSpace(s) = UsedSpace(w) + n
  BY <1>6, <1>7, <1>15, <1>18, Used DEF Cap, Longer
<1>20. Holds(x.buf, UsedSpace(x), body)
  <2> SUFFICES ASSUME NEW i \in 1 .. Len(body)
               PROVE  x.buf[Len(x.buf) - UsedSpace(x) + i] = body[i]
    BY DEF Holds
  <2>1. Len(x.buf) - UsedSpace(x) + i = s.head + i
    BY <1>3, <1>7, <1>15, <1>18, <1>19
  <2>2. s.head + i <= Cap(s)
    BY SMTT(30), <1>1, <1>2, <1>3, <1>7, <1>19 DEF n
  <2> QED BY <1>16, <1>18, <2>1, <2>2
<1>21. ASSUME Ahead(w), tail = 1
       PROVE  x.buf[Cap(x) - UsedSpace(x) + 5 + Len(data)] = 0
  <2>1. \A i \in 1 .. s.head + n : s.buf[i] = 0
    <3> HIDE DEF n
    <3> QED BY <1>5, <1>21, SkipLonger DEF s
  <2> DEFINE i == s.head + 5 + Len(data)
  <2>2. Cap(x) - UsedSpace(x) + 5 + Len(data) = i
    BY <1>1, <1>7, <1>15, <1>18, <1>19
  <2>3. i \in 1 .. s.head + n
    BY SMTT(30), <1>1, <1>2, <1>3, <1>7, <1>21 DEF n
  <2>4. i > s.head + Len(body)
    BY <1>1, <1>3, <1>7
  <2>5. s.head + n <= Cap(s)
    BY <1>1, <1>5, <1>7, <1>19
  <2> HIDE DEF i
  <2>6. i \in 1 .. Cap(s)
    BY <1>5, <1>7, <1>19, <2>3, <2>5
  <2>7. y.buf[i] = s.buf[i]
    BY <1>15, <2>4, <2>6
  <2> QED BY <1>18, <2>1, <2>2, <2>3, <2>7
<1>22. UsedSpace(x) % 4 = 0
  BY <1>5, <1>17 DEF Longer
<1>23. n = pad + tail + 4 + Len(data)
  BY <1>1, <1>2, <1>3 DEF n
<1> QED BY <1>5, <1>17, <1>20, <1>21, <1>22, <1>23 DEF x, body, pad, m

\* A vector of offsets is at the new front, and each of its words holds the
\* distance from itself to the object.
LEMMA VectorLonger ==
  ASSUME NEW w, IsBuilder(w), NEW rs, Len(rs) \in Nat
  PROVE  LET x == CreateVectorOffsets(w, rs) IN
         /\ \E n \in Nat : Longer(w, x, n)
         /\ Alike(w, x) /\ UsedSpace(x) % 4 = 0
         /\ UsedSpace(x) >= UsedSpace(w) + 4 + 4 * Len(rs)
         /\ Holds(x.buf, UsedSpace(x), LE(4, Len(rs)))
         /\ \A i \in 1 .. Len(rs) :
              Holds(x.buf, UsedSpace(x) - 4 * i, LE(4, UsedSpace(x) - 4 * i - rs[i]))
<1> DEFINE n == Len(rs)
           start == UsedSpace(w) + Pad(UsedSpace(w) + 4 * n, 4) + 4 * n
           e(i) == start - 4 * (i - 1) - rs[i]
           slots == [i \in 1 .. n |-> e(i)]
<1>1. Len(slots) = n
  <2> HIDE DEF e, n
  <2>1. n \in Nat
    BY DEF n
  <2> QED BY <2>1
<1>2. CreateVectorOffsets(w, rs) = Block(w, n, Words(4, slots), 0)
  BY DEF CreateVectorOffsets
<1> HIDE DEF slots
<1>3. IsBuffer(Words(4, slots)) /\ Len(Words(4, slots)) = 4 * n
  BY <1>1, WordsBytes
<1> DEFINE x == CreateVectorOffsets(w, rs)
           data == Words(4, slots)
           m == Pad(UsedSpace(w) + Len(data) + 0, 4) + 0 + 4 + Len(data)
<1>4. x = Block(w, n, data, 0)
  BY <1>2
<1>5. IsBuffer(data) /\ Len(data) = 4 * n
  BY <1>3
<1> HIDE DEF x, data
<1>6. /\ m \in Nat /\ Longer(w, x, m) /\ Alike(w, x) /\ UsedSpace(x) % 4 = 0
      /\ Holds(x.buf, UsedSpace(x), LE(4, n) \o data)
  <2> DEFINE tail == 0
             k == Pad(UsedSpace(w) + Len(data) + tail, 4) + tail + 4 + Len(data)
  <2>1. tail \in Nat
    OBVIOUS
  <2> HIDE DEF tail
  <2>2. /\ k \in Nat /\ Longer(w, x, k) /\ Alike(w, x) /\ UsedSpace(x) % 4 = 0
        /\ Holds(x.buf, UsedSpace(x), LE(4, n) \o data)
    <3> HIDE DEF m
    <3>1. x = Block(w, n, data, tail)
      BY <1>4 DEF tail
    <3> QED BY <1>5, <2>1, <3>1, BlockLonger
  <2> QED BY <2>2 DEF tail
<1>7. UsedSpace(x) = UsedSpace(w) + m /\ UsedSpace(w) \in Nat /\ n \in Nat
  <2> HIDE DEF m
  <2>1. IsBuilder(x) /\ UsedSpace(x) = UsedSpace(w) + m
    BY <1>6 DEF Longer
  <2> QED BY <2>1, Used DEF n
<1>8. start \in Nat /\ UsedSpace(x) = start + 4 /\ m >= 4 + 4 * n /\ UsedSpace(x) \in Nat
  <2>1. UsedSpace(w) + Len(data) + 0 = UsedSpace(w) + 4 * n /\ UsedSpace(w) + 4 * n \in Nat
    BY <1>5, <1>7
  <2>2. Pad(UsedSpace(w) + 4 * n, 4) \in Nat
    BY <2>1, Padded
  <2>3. m = Pad(UsedSpace(w) + 4 * n, 4) + 4 + 4 * n
    BY <1>5, <1>7, <2>1, <2>2
  <2> HIDE DEF m
  <2> QED BY <1>7, <2>2, <2>3
<1> HIDE DEF m, start
<1>9. Len(x.buf) \in Nat
  BY <1>6, Used DEF Longer
<1>10. Holds(x.buf, UsedSpace(x), LE(4, n)) /\ Holds(x.buf, UsedSpace(x) - 4, data)
  <2>1. UsedSpace(x) >= 4
    BY <1>6, <1>7, <1>8
  <2> QED BY <1>5, <1>6, <1>8, <1>9, <2>1, CountedHolds
<1>11. ASSUME NEW i \in 1 .. n
       PROVE  Holds(x.buf, UsedSpace(x) - 4 * i, LE(4, UsedSpace(x) - 4 * i - rs[i]))
  <2>1. slots[i] = start - 4 * (i - 1) - rs[i]
    BY DEF slots
  <2>2. UsedSpace(x) - 4 \in Nat
    BY <1>6, <1>7, <1>8
  <2>3. Holds(x.buf, (UsedSpace(x) - 4) - 4 * (i - 1), LE(4, slots[i]))
    BY <1>1, <1>7, <1>9, <1>10, <2>2, HoldsWord DEF data
  <2>4. /\ (UsedSpace(x) - 4) - 4 * (i - 1) = UsedSpace(x) - 4 * i
        /\ start - 4 * (i - 1) = UsedSpace(x) - 4 * i
    <3>1. start = UsedSpace(x) - 4
      BY <1>7, <1>8
    <3> QED BY <1>7, <1>8, <3>1
  <2> QED BY <2>1, <2>3, <2>4
<1>12. UsedSpace(x) >= UsedSpace(w) + 4 + 4 * n
  BY <1>6, <1>7, <1>8
<1> QED BY <1>6, <1>10, <1>11, <1>12 DEF x, n

-----------------------------------------------------------------------------
(* Tables. *)

\* Opening a table writes nothing.
LEMMA Opened ==
  ASSUME NEW w, IsBuilder(w), NEW count \in Nat
  PROVE  LET x == StartTable(w, count) IN
         /\ Longer(w, x, 0) /\ UsedSpace(x) = UsedSpace(w)
         /\ x.fields = {} /\ x.tableStart = UsedSpace(w) /\ x.fieldCount = count
         /\ x.inTable = TRUE /\ x.vtables = w.vtables
<1> DEFINE x == StartTable(w, count)
<1>1. UsedSpace(w) \in Nat
  BY Used
<1>2. x = [w EXCEPT !.inTable = TRUE, !.tableStart = UsedSpace(w), !.fieldCount = count,
             !.fields = {}]
  BY DEF StartTable
<1> HIDE DEF x
<1>3. /\ DOMAIN x = Fields /\ x.buf = w.buf /\ x.head = w.head /\ x.minAlign = w.minAlign
      /\ x.tableStart = UsedSpace(w) /\ x.fieldCount = count /\ x.fields = {}
      /\ x.inTable = TRUE /\ x.vtables = w.vtables
  BY <1>2 DEF IsBuilder, Fields
<1>4. IsBuilder(x)
  BY <1>1, <1>3 DEF IsBuilder
<1>5. Cap(x) = Cap(w) /\ UsedSpace(x) = UsedSpace(w) + 0
  BY <1>1, <1>3 DEF UsedSpace, Cap
<1>6. (Ahead(w) => Ahead(x)) /\ Kept(w, x)
  BY <1>3, <1>5 DEF Ahead, Kept
<1> QED BY <1>1, <1>3, <1>4, <1>5, <1>6 DEF Longer, x

\* A field adds its word, four-aligned, and is noted with the used space.
LEMMA FieldLonger ==
  ASSUME NEW w, IsBuilder(w), NEW id, NEW v
  PROVE  LET x == AddField(Align(w, 4), id, v) IN
         /\ \E n \in Nat : n >= 4 /\ Longer(w, x, n)
         /\ UsedSpace(x) = UsedSpace(Align(w, 4)) + 4 /\ UsedSpace(x) % 4 = 0
         /\ x.fields = w.fields \cup {[id |-> id, used |-> UsedSpace(x)]}
         /\ x.tableStart = w.tableStart /\ x.fieldCount = w.fieldCount
         /\ x.inTable = w.inTable /\ x.vtables = w.vtables
         /\ Holds(x.buf, UsedSpace(x), LE(4, v))
<1> DEFINE p == PushU32(Align(w, 4), v)
           x == AddField(Align(w, 4), id, v)
           new == [id |-> id, used |-> UsedSpace(p)]
<1>1. PICK n \in Nat : n >= 4 /\ Longer(w, p, n)
  BY SlotLonger
<1>2. /\ Alike(w, p) /\ UsedSpace(p) % 4 = 0 /\ UsedSpace(p) = UsedSpace(Align(w, 4)) + 4
      /\ Holds(p.buf, UsedSpace(p), LE(4, v))
  BY SlotLonger
<1>3. x = [p EXCEPT !.fields = @ \cup {new}]
  BY DEF AddField
<1>4. new.used = UsedSpace(p)
  OBVIOUS
<1> HIDE DEF p, x, new
<1>5. IsBuilder(p) /\ UsedSpace(p) \in Nat
  BY <1>1, Used DEF Longer
<1>6. /\ DOMAIN x = Fields /\ x.buf = p.buf /\ x.head = p.head /\ x.minAlign = p.minAlign
      /\ x.tableStart = p.tableStart /\ x.fieldCount = p.fieldCount
      /\ x.inTable = p.inTable /\ x.vtables = p.vtables
      /\ x.fields = p.fields \cup {new}
  BY <1>3, <1>5 DEF IsBuilder, Fields
<1>7. IsBuilder(x)
  BY <1>4, <1>5, <1>6 DEF IsBuilder
<1>8. Cap(x) = Cap(p) /\ UsedSpace(x) = UsedSpace(p)
  BY <1>6 DEF UsedSpace, Cap
<1>9. (Ahead(w) => Ahead(x)) /\ Kept(w, x)
  BY <1>1, <1>6, <1>8 DEF Longer, Ahead, Kept
<1>10. Longer(w, x, n)
  BY <1>1, <1>7, <1>8, <1>9 DEF Longer
<1> QED BY <1>1, <1>2, <1>6, <1>8, <1>10 DEF x, new, Alike

\* Two words and n more.
LEMMA TwoAndMore ==
  ASSUME NEW x, NEW y, NEW n \in Nat, NEW t, t = [i \in 1 .. n |-> t[i]]
  PROVE  LET ws == <<x, y>> \o t IN
         /\ Len(ws) = 2 + n /\ ws[1] = x
         /\ \A i \in 1 .. n : ws[i + 2] = t[i]
<1>1. t \in Seq({t[i] : i \in 1 .. n}) /\ Len(t) = n
  OBVIOUS
<1> DEFINE S == {x, y} \cup {t[i] : i \in 1 .. n}
           u == <<x, y>>
           ws == u \o t
<1>2. u \in Seq(S) /\ t \in Seq(S) /\ Len(u) = 2 /\ u[1] = x
  BY <1>1
<1> HIDE DEF S, u
<1>3. /\ Len(ws) = Len(u) + Len(t)
      /\ \A i \in 1 .. Len(u) + Len(t) : ws[i] = IF i <= Len(u) THEN u[i] ELSE t[i - Len(u)]
  BY <1>2, ConcatProperties
<1>4. 1 \in 1 .. Len(u) + Len(t) /\ 1 <= Len(u)
  BY <1>1, <1>2
<1>5. ws[1] = x
  BY <1>2, <1>3, <1>4
<1>6. ASSUME NEW i \in 1 .. n PROVE ws[i + 2] = t[i]
  <2>1. i + 2 \in 1 .. Len(u) + Len(t) /\ ~(i + 2 <= Len(u)) /\ i + 2 - Len(u) = i
    BY <1>1, <1>2
  <2>2. ws[i + 2] = t[i + 2 - Len(u)]
    BY <1>3, <2>1
  <2> QED BY <2>1, <2>2
<1> QED BY <1>1, <1>2, <1>3, <1>5, <1>6 DEF u

\* The slot of a field in the vtable of the open table.
SlotOf(w, loc, id) ==
  LET its == {f \in w.fields : f.id = id} IN
  IF its = {} THEN 0 ELSE (loc - (CHOOSE f \in its : TRUE).used) % U16Size

\* The vtable's words: its size, the table's size and count slots, which are
\* as many as it takes for the last that is not empty.
LEMMA VTableWords ==
  ASSUME NEW w, IsBuilder(w), NEW loc
  PROVE  \E count \in 0 .. w.fieldCount : \E ws :
           /\ VTable(w, loc) = Words(2, ws)
           /\ Len(ws) = 2 + count /\ ws[1] = 4 + 2 * count
           /\ \A id \in 0 .. count - 1 : ws[id + 3] = SlotOf(w, loc, id)
           /\ \A id \in 0 .. w.fieldCount - 1 : SlotOf(w, loc, id) # 0 => id < count
<1> DEFINE slots == {id \in 0 .. (w.fieldCount - 1) : SlotOf(w, loc, id) # 0}
           ends == {id + 1 : id \in slots} \cup {0}
           count == Max(ends)
           tail == [i \in 1 .. count |-> SlotOf(w, loc, i - 1)]
           ws == <<4 + 2 * count, loc - w.tableStart>> \o tail
<1>1. w.fieldCount \in Nat
  BY DEF IsBuilder
<1>2. ends \in SUBSET (0 .. w.fieldCount) /\ ends # {}
  BY <1>1
<1>3. count \in ends /\ \A e \in ends : e <= count
  <2> HIDE DEF ends
  <2> QED BY <1>1, <1>2, Largest
<1>4. count \in 0 .. w.fieldCount
  <2> HIDE DEF ends, count
  <2> QED BY <1>2, <1>3
<1>5. VTable(w, loc) = Words(2, ws)
  BY DEF VTable, SlotOf
<1>6. ASSUME NEW id \in 0 .. w.fieldCount - 1, SlotOf(w, loc, id) # 0 PROVE id < count
  <2>1. id + 1 \in ends
    BY <1>6
  <2> HIDE DEF ends, count
  <2>2. id + 1 <= count
    BY <1>3, <2>1
  <2> QED BY <1>4, <2>2
<1> HIDE DEF count
<1>7. tail = [i \in 1 .. count |-> tail[i]]
  OBVIOUS
<1>8. \A i \in 1 .. count : tail[i] = SlotOf(w, loc, i - 1)
  OBVIOUS
<1> HIDE DEF tail
<1>9. /\ Len(ws) = 2 + count /\ ws[1] = 4 + 2 * count
      /\ \A i \in 1 .. count : ws[i + 2] = tail[i]
  BY <1>4, <1>7, TwoAndMore
<1> HIDE DEF ws
<1>10. ASSUME NEW id \in 0 .. count - 1 PROVE ws[id + 3] = SlotOf(w, loc, id)
  <2>1. id + 1 \in 1 .. count /\ (id + 1) + 2 = id + 3 /\ (id + 1) - 1 = id
    BY <1>4
  <2> QED BY <1>8, <1>9, <2>1
<1> QED BY <1>4, <1>5, <1>6, <1>9, <1>10

\* A vtable is a sequence of bytes.
LEMMA VTableBytes ==
  ASSUME NEW w, IsBuilder(w), NEW loc
  PROVE  IsBuffer(VTable(w, loc)) /\ Len(VTable(w, loc)) \in Nat
<1>1. PICK count \in 0 .. w.fieldCount : \E ws :
        VTable(w, loc) = Words(2, ws) /\ Len(ws) = 2 + count
  BY VTableWords
<1>2. PICK ws : VTable(w, loc) = Words(2, ws) /\ Len(ws) = 2 + count
  BY <1>1
<1>3. count \in Nat
  BY DEF IsBuilder
<1> QED BY <1>2, <1>3, WordsBytes, Buffers

\* What a table says of its fields, once the words of its vtable are there.
TableAt(s, r, q, c, ws) ==
  /\ Len(s) \in Nat /\ r < U32Size \div 2 /\ q < U32Size \div 2 /\ 4 + 2 * c < U16Size
  /\ Len(ws) = 2 + c /\ ws[1] = 4 + 2 * c
  /\ Holds(s, r, LE(4, q - r)) /\ Holds(s, q, Words(2, ws))

\* A reader finds the vtable and, in it, the slot of each field.
LEMMA TableReads ==
  ASSUME NEW s, NEW r \in Nat, NEW q \in Nat, NEW c \in Nat, NEW ws, TableAt(s, r, q, c, ws),
         NEW id \in Nat, id < c => ws[id + 3] \in 0 .. (U16Size - 1)
  PROVE  /\ ReadI32(s, Len(s) - r) = q - r /\ ReadU16(s, Len(s) - q) = 4 + 2 * c
         /\ FieldOffset(s, Len(s) - r, id) = IF id < c THEN ws[id + 3] ELSE 0
<1>1. /\ Len(s) \in Nat /\ r < U32Size \div 2 /\ q < U32Size \div 2 /\ 4 + 2 * c < U16Size
      /\ Len(ws) = 2 + c /\ ws[1] = 4 + 2 * c
      /\ Holds(s, r, LE(4, q - r)) /\ Holds(s, q, Words(2, ws))
  BY DEF TableAt
<1>2. ReadI32(s, Len(s) - r) = q - r
  <2>1. q - r \in Int /\ q - r < U32Size \div 2 /\ -(q - r) < U32Size \div 2
    BY <1>1, Sizes
  <2> QED BY <1>1, <2>1, Read32
<1>3. ReadU16(s, Len(s) - q) = 4 + 2 * c
  <2>1. Holds(s, q - 2 * (1 - 1), LE(2, ws[1])) /\ q - 2 * (1 - 1) = q
    BY <1>1, HoldsWord
  <2>2. 4 + 2 * c \in 0 .. (U16Size - 1)
    BY <1>1, Sizes
  <2> QED BY <1>1, <2>1, <2>2, Read16
<1>4. (Len(s) - r) - (q - r) = Len(s) - q
  BY <1>1
<1>5. ((4 + 2 * c) - 4) \div 2 = c
  OBVIOUS
<1>6. FieldOffset(s, Len(s) - r, id)
        = IF id >= c THEN 0 ELSE ReadU16(s, (Len(s) - q) + 4 + 2 * id)
  BY <1>2, <1>3, <1>4, <1>5 DEF FieldOffset
<1>7. ASSUME id < c PROVE ReadU16(s, (Len(s) - q) + 4 + 2 * id) = ws[id + 3]
  <2>1. /\ id + 3 \in 1 .. Len(ws) /\ q - 2 * ((id + 3) - 1) = q - 4 - 2 * id
        /\ (Len(s) - q) + 4 + 2 * id = Len(s) - (q - 4 - 2 * id)
    BY <1>1, <1>7
  <2>2. Holds(s, q - 4 - 2 * id, LE(2, ws[id + 3]))
    BY SMTT(30), <1>1, <2>1, HoldsWord
  <2>3. q - 4 - 2 * id \in Int
    OBVIOUS
  <2> QED BY <1>1, <1>7, <2>1, <2>2, <2>3, Read16
<1> QED BY <1>2, <1>3, <1>6, <1>7

\* What a table says of its fields stays while what is written stays.
LEMMA SameTable ==
  ASSUME NEW s, NEW t, NEW n \in Nat, Len(s) \in Nat, Len(t) \in Nat, SameEnd(s, t, n),
         NEW r \in 4 .. n, NEW q \in 4 .. n, ReadI32(s, Len(s) - r) = q - r,
         ReadU16(s, Len(s) - q) \in 4 .. q, NEW id \in Nat
  PROVE  /\ ReadI32(t, Len(t) - r) = q - r
         /\ ReadU16(t, Len(t) - q) = ReadU16(s, Len(s) - q)
         /\ FieldOffset(t, Len(t) - r, id) = FieldOffset(s, Len(s) - r, id)
<1>1. ReadI32(t, Len(t) - r) = q - r
  BY Same32
<1>2. q \in 2 .. n
  OBVIOUS
<1>3. ReadU16(t, Len(t) - q) = ReadU16(s, Len(s) - q)
  BY <1>2, Same16
<1>4. (Len(s) - r) - (q - r) = Len(s) - q /\ (Len(t) - r) - (q - r) = Len(t) - q
  OBVIOUS
<1> DEFINE size == ReadU16(s, Len(s) - q)
<1>5. size \in 4 .. q
  OBVIOUS
<1> HIDE DEF size
<1>6. ASSUME ~(id >= (size - 4) \div 2)
      PROVE  ReadU16(t, Len(t) - q + 4 + 2 * id) = ReadU16(s, Len(s) - q + 4 + 2 * id)
  <2>1. 4 + 2 * id + 2 <= q
    BY <1>5, <1>6
  <2>2. q - 4 - 2 * id \in 2 .. n
    BY <2>1
  <2>3. /\ Len(s) - q + 4 + 2 * id = Len(s) - (q - 4 - 2 * id)
        /\ Len(t) - q + 4 + 2 * id = Len(t) - (q - 4 - 2 * id)
    OBVIOUS
  <2>4. ReadU16(t, Len(t) - (q - 4 - 2 * id)) = ReadU16(s, Len(s) - (q - 4 - 2 * id))
    BY <2>2, Same16
  <2> QED BY <2>3, <2>4
<1> QED BY <1>1, <1>3, <1>4, <1>6 DEF FieldOffset, size

-----------------------------------------------------------------------------
(* Closing a table. *)

\* Writing before what was kept keeps it.
LEMMA WriteKept ==
  ASSUME NEW w, NEW v, IsBuilder(w), IsBuilder(v), Kept(w, v), UsedSpace(w) <= UsedSpace(v),
         NEW at \in Nat, NEW bytes, IsBuffer(bytes), at + Len(bytes) <= Cap(v) - UsedSpace(w)
  PROVE  Kept(w, WriteAt(v, at, bytes))
<1> DEFINE x == WriteAt(v, at, bytes)
<1>1. /\ IsBuilder(x) /\ Alike(v, x) /\ x.head = v.head
      /\ Cap(x) = Cap(v) /\ UsedSpace(x) = UsedSpace(v)
      /\ \A i \in 1 .. Cap(v) :
           (i <= at \/ i > at + Len(bytes)) => x.buf[i] = v.buf[i]
  BY Writing
<1> HIDE DEF x
<1>2. /\ UsedSpace(w) \in Nat /\ UsedSpace(v) \in Nat /\ Cap(v) \in Nat
      /\ UsedSpace(v) <= Cap(v) /\ Len(bytes) \in Nat
  <2>1. UsedSpace(w) \in Nat
    BY Used
  <2>2. /\ v.head \in Nat /\ Cap(v) \in Nat /\ UsedSpace(v) \in Nat
        /\ UsedSpace(v) = Cap(v) - v.head
    BY Used
  <2>3. Len(bytes) \in Nat
    BY Buffers
  <2> QED BY <2>1, <2>2, <2>3
<1> SUFFICES ASSUME NEW i \in 1 .. UsedSpace(w)
             PROVE  x.buf[Cap(x) - i + 1] = w.buf[Cap(w) - i + 1]
  BY DEF Kept, x
<1>3. Cap(v) - i + 1 \in 1 .. Cap(v) /\ Cap(v) - i + 1 > at + Len(bytes)
  BY <1>2
<1>4. v.buf[Cap(v) - i + 1] = w.buf[Cap(w) - i + 1]
  BY DEF Kept
<1> QED BY <1>1, <1>3, <1>4

\* Comparing bytes is asking whether they are there.
LEMMA BytesHeld ==
  ASSUME NEW w, IsBuilder(w), NEW bytes, IsBuffer(bytes),
         NEW u \in 0 .. UsedSpace(w), u >= Len(bytes)
  PROVE  BytesAt(w, u, Len(bytes)) = bytes <=> Holds(w.buf, u, bytes)
<1> DEFINE n == Len(bytes)
           p == Cap(w) - u
<1>1. PICK S : w.buf \in Seq(S)
  BY DEF IsBuilder, IsBuffer
<1>2. PICK T : bytes \in Seq(T)
  BY DEF IsBuffer
<1>3. n \in Nat /\ Cap(w) = Len(w.buf) /\ Cap(w) \in Nat /\ UsedSpace(w) <= Cap(w) /\ u \in Nat
  BY <1>2, Used
<1>4. p \in Nat /\ p + n <= Len(w.buf)
  BY <1>3, Used
<1>5. BytesAt(w, u, n) = SubSeq(w.buf, p + 1, p + n)
  BY DEF BytesAt
<1> HIDE DEF p, n
<1> DEFINE sub == SubSeq(w.buf, p + 1, p + n)
<1>6. /\ sub = [i \in 1 .. n |-> w.buf[p + i]]
  BY <1>1, <1>3, <1>4
<1>7. bytes = [i \in 1 .. n |-> bytes[i]]
  BY <1>2, <1>3 DEF n
<1> HIDE DEF sub
<1>8. sub = bytes <=> \A i \in 1 .. n : w.buf[p + i] = bytes[i]
  BY <1>6, <1>7
<1>9. Len(w.buf) - u = p
  BY <1>3 DEF p
<1> QED BY <1>5, <1>8, <1>9 DEF Holds, n, sub

\* Closing a table keeps what was there; unless its vtable makes the buffer
\* grow, the soffset leads to its vtable, which is new or was there before.
LEMMA TableClosed ==
  ASSUME NEW w, IsBuilder(w), \A u \in w.vtables : u \in 0 .. UsedSpace(w)
  PROVE  LET y == EndTable(w)
             r == TableRef(w)
             vtable == VTable(w, r)
         IN /\ IsBuilder(y) /\ y.fields = w.fields /\ y.inTable = FALSE
            /\ r % 4 = 0 /\ UsedSpace(w) + 4 <= r /\ r <= UsedSpace(y) /\ r \in Nat
            /\ Kept(w, y)
            /\ \A u \in y.vtables : u \in 0 .. UsedSpace(y)
            /\ ~VTableGrows(w) =>
                 /\ Ahead(w) => Ahead(y)
                 /\ \E q \in Len(vtable) .. UsedSpace(y) :
                      /\ Holds(y.buf, r, LE(4, q - r)) /\ Holds(y.buf, q, vtable)
                      /\ \/ y.vtables = w.vtables
                         \/ /\ y.vtables = w.vtables \cup {q}
                            /\ \A u \in w.vtables :
                                 u >= Len(vtable) => ~Holds(y.buf, u, vtable)
<1> DEFINE t == PushU32(Align(w, 4), 0)
           vtable == VTable(w, UsedSpace(t))
           shared == Same(t, vtable)
           p == PushBytes(t, vtable)
           pv == [p EXCEPT !.vtables = @ \cup {UsedSpace(p)}]
           v == IF shared # {} THEN t ELSE pv
           vused == IF shared # {} THEN CHOOSE used \in shared : TRUE ELSE UsedSpace(v)
           back == LE(4, t.head - (Cap(v) - vused))
           x == WriteAt(v, t.head, back)
           y == EndTable(w)
<1>1. PICK n \in Nat : n >= 4 /\ Longer(w, t, n)
  BY SlotLonger
<1>2. Alike(w, t) /\ UsedSpace(t) % 4 = 0
  BY SlotLonger
<1>3. VTable(t, UsedSpace(t)) = vtable
  <2> HIDE DEF t
  <2> QED BY <1>2 DEF VTable, Alike
<1>4. EndTable(w) = [x EXCEPT !.inTable = FALSE]
  BY <1>3 DEF EndTable
<1>5. TableRef(w) = UsedSpace(t)
  BY DEF TableRef
<1>6. VTableGrows(w) <=> shared = {} /\ t.head < Len(vtable)
  BY <1>3 DEF VTableGrows
<1> HIDE DEF t
<1>7. IsBuilder(t) /\ UsedSpace(t) = UsedSpace(w) + n /\ Kept(w, t)
  BY <1>1 DEF Longer
<1>8. /\ t.head \in Nat /\ Cap(t) \in Nat /\ UsedSpace(t) \in Nat /\ t.head <= Cap(t)
      /\ UsedSpace(t) = Cap(t) - t.head /\ Len(t.buf) = Cap(t) /\ UsedSpace(w) \in Nat
  BY <1>7, Used
<1>9. IsBuffer(vtable) /\ Len(vtable) \in Nat
  BY VTableBytes
<1> HIDE DEF vtable
<1>10. /\ Longer(t, p, Len(vtable)) /\ Alike(t, p) /\ Holds(p.buf, UsedSpace(p), vtable)
       /\ t.head >= Len(vtable) => Cap(p) = Cap(t) /\ p.head = t.head - Len(vtable)
  BY <1>7, <1>9, PushLonger
<1> HIDE DEF p
<1>11. IsBuilder(p) /\ UsedSpace(p) = UsedSpace(t) + Len(vtable)
  BY <1>10 DEF Longer
<1>12. /\ DOMAIN pv = Fields /\ pv.buf = p.buf /\ pv.head = p.head
       /\ pv.minAlign = p.minAlign /\ pv.tableStart = p.tableStart
       /\ pv.fieldCount = p.fieldCount /\ pv.fields = p.fields /\ pv.inTable = p.inTable
       /\ pv.vtables = w.vtables \cup {UsedSpace(p)}
  BY <1>2, <1>10, <1>11 DEF IsBuilder, Fields, Alike
<1> HIDE DEF pv
<1>13. Cap(pv) = Cap(p) /\ UsedSpace(pv) = UsedSpace(p)
  BY <1>12 DEF UsedSpace, Cap
<1>14. IsBuilder(pv) /\ Longer(t, pv, Len(vtable))
  <2>1. IsBuilder(pv)
    BY <1>11, <1>12 DEF IsBuilder
  <2>2. (Ahead(t) => Ahead(pv)) /\ Kept(t, pv)
    BY <1>10, <1>12, <1>13 DEF Longer, Ahead, Kept
  <2> QED BY <1>10, <1>13, <2>1, <2>2 DEF Longer
<1>15. Longer(w, pv, n + Len(vtable))
  BY <1>1, <1>9, <1>14, LongerStill
<1>16. pv.fields = w.fields
  BY <1>2, <1>10, <1>12 DEF Alike
<1>17. IsBuilder(v) /\ v.fields = w.fields /\ Kept(w, v) /\ UsedSpace(v) >= UsedSpace(t)
  BY <1>1, <1>2, <1>7, <1>8, <1>9, <1>11, <1>13, <1>14, <1>15, <1>16 DEF Alike, Longer
<1>18. IsBuffer(back) /\ Len(back) = 4
  BY LEBytes
<1>19. t.head + 4 <= Cap(v) - UsedSpace(w)
  <2>1. UsedSpace(w) + 4 <= UsedSpace(t) /\ Cap(t) - UsedSpace(w) >= t.head + 4
    BY <1>1, <1>7, <1>8
  <2>2. CASE shared # {}
    BY <2>1, <2>2
  <2>3. CASE shared = {}
    <3>1. Cap(pv) \in Nat /\ pv.head \in Nat /\ UsedSpace(pv) = Cap(pv) - pv.head
      BY <1>14, Used
    <3>2. Cap(pv) >= UsedSpace(t) + t.head
      <4>1. CASE t.head >= Len(vtable)
        BY <1>8, <1>10, <1>13, <4>1
      <4>2. CASE ~(t.head >= Len(vtable))
        BY <1>8, <1>9, <1>11, <1>13, <3>1, <4>2
      <4> QED BY <4>1, <4>2
    <3> QED BY <1>1, <1>7, <1>8, <2>1, <2>3, <3>1, <3>2
  <2> QED BY <2>2, <2>3
<1>20. /\ IsBuilder(x) /\ Alike(v, x) /\ x.head = v.head
       /\ Cap(x) = Cap(v) /\ UsedSpace(x) = UsedSpace(v)
       /\ \A i \in 1 .. Cap(v) : (i <= t.head \/ i > t.head + Len(back)) => x.buf[i] = v.buf[i]
  <2> HIDE DEF v, back
  <2> QED BY ZenonT(40), <1>8, <1>17, <1>18, Writing
<1>21. Kept(w, x)
  <2> HIDE DEF v, back
  <2>1. UsedSpace(w) <= UsedSpace(v)
    <3>1. UsedSpace(v) \in Nat
      BY <1>17, Used
    <3> QED BY <1>1, <1>7, <1>8, <1>17, <3>1
  <2>2. t.head + Len(back) <= Cap(v) - UsedSpace(w) /\ t.head \in Nat
    BY <1>8, <1>18, <1>19
  <2> QED BY <1>17, <1>18, <2>1, <2>2, WriteKept
<1>22. \A i \in 1 .. 4 : t.head + i <= Cap(v) => x.buf[t.head + i] = back[i]
  <2> HIDE DEF v, back
  <2> SUFFICES ASSUME NEW i \in 1 .. 4, t.head + i <= Cap(v)
               PROVE  x.buf[t.head + i] = back[i]
    OBVIOUS
  <2>1. i \in 1 .. Len(back) /\ t.head \in Nat
    BY <1>8, <1>18
  <2>2. IsBuilder(v) /\ IsBuffer(back)
    BY <1>17, <1>18
  <2> DEFINE at == t.head
  <2>3. at \in Nat /\ at + i <= Cap(v)
    BY <2>1
  <2> HIDE DEF at
  <2>4. WriteAt(v, at, back).buf[at + i] = back[i]
    BY <2>1, <2>2, <2>3, Written
  <2> QED BY <2>4 DEF at
<1> HIDE DEF x
<1>23. /\ DOMAIN y = Fields /\ y.buf = x.buf /\ y.head = x.head /\ y.minAlign = x.minAlign
       /\ y.tableStart = x.tableStart /\ y.fieldCount = x.fieldCount
       /\ y.fields = x.fields /\ y.inTable = FALSE /\ y.vtables = x.vtables
  BY <1>4, <1>20 DEF IsBuilder, Fields
<1> HIDE DEF y
<1>24. IsBuilder(y)
  BY <1>20, <1>23 DEF IsBuilder
<1>25. Cap(y) = Cap(x) /\ UsedSpace(y) = UsedSpace(x)
  BY <1>23 DEF UsedSpace, Cap
<1>26. Kept(w, y) /\ y.fields = w.fields
  BY <1>17, <1>20, <1>21, <1>23, <1>25 DEF Kept, Alike
<1>27. /\ UsedSpace(w) + 4 <= UsedSpace(t) /\ UsedSpace(t) <= UsedSpace(y)
       /\ UsedSpace(y) = UsedSpace(v)
  BY <1>1, <1>7, <1>8, <1>17, <1>20, <1>25
<1>28. /\ shared # {} => y.vtables = w.vtables
       /\ shared = {} => /\ y.vtables = w.vtables \cup {UsedSpace(p)}
                         /\ UsedSpace(y) = UsedSpace(p)
  BY <1>2, <1>12, <1>13, <1>20, <1>23, <1>27 DEF Alike
<1>29. \A u \in y.vtables : u \in 0 .. UsedSpace(y)
  <2>1. UsedSpace(y) \in Nat
    BY <1>24, Used
  <2> QED BY <1>8, <1>27, <1>28, <2>1
<1>30. ASSUME ~VTableGrows(w)
       PROVE  \E m \in Nat : /\ Longer(w, v, m) /\ v.head <= t.head
                              /\ t.head + 4 <= v.head + m
  <2>1. CASE shared # {}
    BY <1>1, <1>8, <2>1
  <2>2. CASE shared = {}
    <3>1. v = pv
      BY <2>2
    <3>2. pv.head = t.head - Len(vtable)
      BY <1>6, <1>8, <1>9, <1>10, <1>12, <1>30, <2>2
    <3>3. n + Len(vtable) \in Nat /\ pv.head <= t.head
          /\ t.head + 4 <= pv.head + (n + Len(vtable))
      BY <1>1, <1>8, <1>9, <3>2
    <3> QED BY <1>15, <3>1, <3>3
  <2> QED BY <2>1, <2>2
<1>31. ASSUME ~VTableGrows(w), Ahead(w) PROVE Ahead(y)
  <2>1. PICK m \in Nat : /\ Longer(w, v, m) /\ v.head <= t.head
                         /\ t.head + 4 <= v.head + m
    BY <1>30, <1>31
  <2>2. Longer(w, x, m)
    <3> HIDE DEF v, back
    <3> QED BY <1>8, <1>18, <2>1, WriteLonger DEF x
  <2> QED BY <1>23, <1>31, <2>2 DEF Longer, Ahead
<1>32. ASSUME ~VTableGrows(w)
       PROVE  \E q \in Len(vtable) .. UsedSpace(y) :
                /\ Holds(y.buf, UsedSpace(t), LE(4, q - UsedSpace(t))) /\ Holds(y.buf, q, vtable)
                /\ \/ y.vtables = w.vtables
                   \/ /\ y.vtables = w.vtables \cup {q}
                      /\ \A u \in w.vtables :
                           u >= Len(vtable) => ~Holds(y.buf, u, vtable)
  <2>1. Cap(v) = Cap(t)
    BY <1>6, <1>8, <1>9, <1>10, <1>13, <1>32
  <2>2. vused \in Nat /\ Len(vtable) <= vused /\ vused <= UsedSpace(y)
    <3>1. CASE shared # {}
      <4>1. vused \in shared
        BY <3>1
      <4>2. vused \in w.vtables /\ vused >= Len(vtable)
        BY <1>2, <4>1 DEF Same, Alike
      <4> HIDE DEF vused
      <4>3. vused \in 0 .. UsedSpace(w)
        BY <4>2
      <4>4. UsedSpace(y) \in Nat
        BY <1>24, Used
      <4> QED BY <1>8, <1>9, <1>27, <4>2, <4>3, <4>4
    <3>2. CASE shared = {}
      <4>1. vused = UsedSpace(p)
        BY <1>13, <3>2
      <4> QED BY <1>8, <1>9, <1>11, <1>28, <3>2, <4>1
    <3> QED BY <3>1, <3>2
  <2>3. back = LE(4, vused - UsedSpace(t))
    <3> HIDE DEF vused, v
    <3>1. t.head - (Cap(v) - vused) = vused - UsedSpace(t)
      BY <1>8, <2>1, <2>2
    <3> QED BY <3>1
  <2>4. Len(y.buf) = Cap(t) /\ y.buf = x.buf
    BY <1>20, <1>23, <1>25, <2>1 DEF Cap
  <2>5. Holds(y.buf, UsedSpace(t), back)
    <3> SUFFICES ASSUME NEW i \in 1 .. 4 PROVE y.buf[Len(y.buf) - UsedSpace(t) + i] = back[i]
      BY <1>18 DEF Holds
    <3>1. Len(y.buf) - UsedSpace(t) + i = t.head + i /\ t.head + i <= Cap(v)
      BY <1>1, <1>7, <1>8, <2>1, <2>4
    <3> QED BY <1>22, <2>4, <3>1
  <2>6. Holds(y.buf, vused, vtable)
    <3> SUFFICES ASSUME NEW i \in 1 .. Len(vtable)
                 PROVE  x.buf[Cap(t) - vused + i] = vtable[i]
      BY <2>4 DEF Holds
    <3>1. CASE shared # {}
      <4>1. vused \in shared
        BY <3>1
      <4>2. /\ vused \in w.vtables /\ vused >= Len(vtable)
            /\ BytesAt(t, vused, Len(vtable)) = vtable
        BY <1>2, <4>1 DEF Same, Alike
      <4> HIDE DEF vused
      <4>3. vused \in 0 .. UsedSpace(w)
        BY <4>2
      <4>4. vused \in 0 .. UsedSpace(t)
        BY <1>8, <1>27, <4>3
      <4>5. Holds(t.buf, vused, vtable)
        BY <1>7, <1>9, <4>2, <4>4, BytesHeld
      <4>6. t.buf[Cap(t) - vused + i] = vtable[i]
        BY <1>8, <4>5 DEF Holds
      <4>7. Cap(t) - vused + i \in 1 .. Cap(t) /\ Cap(t) - vused + i > t.head + 4
        BY <1>8, <1>9, <1>27, <4>2, <4>3
      <4>8. x.buf[Cap(t) - vused + i] = t.buf[Cap(t) - vused + i]
        BY <1>18, <1>20, <3>1, <4>7
      <4> QED BY <4>6, <4>8
    <3>2. CASE shared = {}
      <4>1. vused = UsedSpace(p) /\ v = pv
        BY <1>13, <3>2
      <4> HIDE DEF vused, v
      <4>2. v.buf[Cap(t) - vused + i] = vtable[i]
        <5>1. Len(p.buf) = Cap(t)
          BY <1>13, <2>1, <4>1 DEF Cap
        <5> QED BY <1>10, <1>12, <4>1, <5>1 DEF Holds
      <4>3. /\ Cap(t) - vused + i \in 1 .. Cap(t) /\ Cap(t) - vused + i <= t.head
        <5>1. /\ p.head \in Nat /\ UsedSpace(p) = Cap(p) - p.head /\ Cap(p) \in Nat
              /\ Cap(p) = Cap(t)
          BY <1>11, <1>13, <2>1, <4>1, Used
        <5>2. vused = UsedSpace(t) + Len(vtable)
          BY <1>11, <4>1
        <5>3. vused <= Cap(t)
          BY <4>1, <5>1
        <5>4. i \in Nat /\ 1 <= i /\ i <= Len(vtable)
          BY <1>9
        <5>5. Cap(t) - vused + i = t.head - Len(vtable) + i
          BY <1>8, <1>9, <5>2, <5>4
        <5>6. Cap(t) - vused + i >= 1 /\ Cap(t) - vused + i \in Int
          BY SMTT(30), <1>8, <1>9, <5>2, <5>3, <5>4
        <5> QED BY <1>8, <1>9, <5>4, <5>5, <5>6
      <4>4. x.buf[Cap(t) - vused + i] = v.buf[Cap(t) - vused + i]
        BY <1>18, <1>20, <2>1, <4>3
      <4> QED BY <4>2, <4>4
    <3> QED BY <3>1, <3>2
  <2>7. \/ y.vtables = w.vtables
        \/ /\ y.vtables = w.vtables \cup {vused}
           /\ \A u \in w.vtables : u >= Len(vtable) => ~Holds(y.buf, u, vtable)
    <3>1. CASE shared # {}
      BY <1>28, <3>1
    <3>2. CASE shared = {}
      <4>1. vused = UsedSpace(p)
        BY <1>13, <3>2
      <4> HIDE DEF vused
      <4>2. ASSUME NEW u \in w.vtables, u >= Len(vtable), Holds(y.buf, u, vtable) PROVE FALSE
        <5>1. u \in 0 .. UsedSpace(w) /\ u \in 0 .. UsedSpace(t)
          BY <1>8, <1>27
        <5>2. Holds(t.buf, u, vtable)
          <6> SUFFICES ASSUME NEW i \in 1 .. Len(vtable)
                       PROVE  t.buf[Cap(t) - u + i] = vtable[i]
            BY <1>8 DEF Holds
          <6>1. y.buf[Cap(t) - u + i] = vtable[i]
            BY <2>4, <4>2 DEF Holds
          <6>2. u - i + 1 \in 1 .. UsedSpace(w)
            BY <1>8, <1>9, <4>2, <5>1
          <6>3. /\ y.buf[Cap(y) - (u - i + 1) + 1] = w.buf[Cap(w) - (u - i + 1) + 1]
                /\ t.buf[Cap(t) - (u - i + 1) + 1] = w.buf[Cap(w) - (u - i + 1) + 1]
            BY <1>7, <1>26, <6>2 DEF Kept
          <6>4. Cap(y) = Cap(t) /\ Cap(t) - (u - i + 1) + 1 = Cap(t) - u + i
            BY <1>8, <1>20, <1>25, <2>1, <5>1
          <6> QED BY <6>1, <6>3, <6>4
        <5>3. BytesAt(t, u, Len(vtable)) = vtable
          BY <1>7, <1>9, <4>2, <5>1, <5>2, BytesHeld
        <5>4. u \in shared
          BY <1>2, <4>2, <5>3 DEF Same, Alike
        <5> QED BY <3>2, <5>4
      <4> QED BY <1>28, <3>2, <4>1, <4>2
    <3> QED BY <3>1, <3>2
  <2>8. vused \in Len(vtable) .. UsedSpace(y)
    <3> HIDE DEF vused
    <3>1. UsedSpace(y) \in Nat
      BY <1>24, Used
    <3> QED BY <1>9, <2>2, <3>1
  <2> HIDE DEF vused
  <2> QED BY <2>3, <2>5, <2>6, <2>7, <2>8
<1> QED BY <1>2, <1>5, <1>8, <1>23, <1>24, <1>26, <1>27, <1>29, <1>31, <1>32
        DEF y, vtable

\* A finished buffer is a whole number of words.
LEMMA Finished4 ==
  ASSUME NEW w, IsBuilder(w), NEW root
  PROVE  IsBuffer(Finish(w, root)) /\ Len(Finish(w, root)) % 4 = 0
<1> DEFINE pad == Pad(UsedSpace(w) + 4, 4)
           p == Skip(w, pad)
           done == PushU32(p, Cap(p) - root - p.head + 4)
<1>1. UsedSpace(w) \in Nat /\ pad \in Nat /\ ((UsedSpace(w) + 4) + pad) % 4 = 0
  <2>1. UsedSpace(w) \in Nat /\ UsedSpace(w) + 4 \in Nat
    BY Used
  <2> QED BY <2>1, Padded
<1>2. Finish(w, root) = SubSeq(done.buf, done.head + 1, Cap(done))
  <2>1. (IF w.minAlign > 4 THEN w.minAlign ELSE 4) = 4
    BY DEF IsBuilder
  <2> QED BY <2>1 DEF Finish
<1> HIDE DEF pad
<1>3. Longer(w, p, pad)
  BY <1>1, SkipLonger
<1> HIDE DEF p
<1>4. IsBuilder(p) /\ UsedSpace(p) = UsedSpace(w) + pad
  BY <1>3 DEF Longer
<1>5. Longer(p, done, 4)
  BY <1>4, WordLonger
<1> HIDE DEF done
<1>6. IsBuilder(done) /\ UsedSpace(done) = UsedSpace(w) + pad + 4
  BY <1>4, <1>5 DEF Longer
<1>7. /\ done.head \in Nat /\ Cap(done) \in Nat /\ done.head <= Cap(done)
      /\ UsedSpace(done) = Cap(done) - done.head /\ Len(done.buf) = Cap(done)
  BY <1>6, Used
<1>8. PICK S : done.buf \in Seq(S)
  BY <1>6 DEF IsBuilder, IsBuffer
<1>9. /\ Finish(w, root) \in Seq(S) /\ Len(Finish(w, root)) = Cap(done) - done.head
  BY <1>2, <1>7, <1>8
<1>10. UsedSpace(done) % 4 = 0
  BY <1>1, <1>6
<1> QED BY <1>7, <1>9, <1>10 DEF IsBuffer

-----------------------------------------------------------------------------
(* Objects. *)

\* What the slot of a field holds when it is this far from the end.
SlotValue(given, rf, used) ==
  IF "v" \in DOMAIN given THEN given.v ELSE used - rf[given.of]

\* Counted bytes are in the last n bytes of s, from r before the end on.
BytesHere(s, n, r, bytes) ==
  /\ IsBuffer(bytes) /\ 4 + Len(bytes) <= r /\ r <= n
  /\ ReadU32(s, Len(s) - r) = Len(bytes)
  /\ Holds(s, r - 4, bytes)

\* A vector of offsets to the objects of is in the last n bytes of s.
VectorHere(s, n, r, of, rf) ==
  /\ Len(of) \in Nat /\ DOMAIN of = 1 .. Len(of)
  /\ 4 + 4 * Len(of) <= r /\ r <= n
  /\ ReadU32(s, Len(s) - r) = Len(of)
  /\ \A i \in 1 .. Len(of) :
       /\ of[i] \in DOMAIN rf
       /\ ReadU32(s, Len(s) - (r - 4 * i)) = (r - 4 * i) - rf[of[i]]

\* A table with its vtable, and what each of its fields was given; an u32
\* that is 0 may be left out.
TableHere(s, n, r, given, rf) ==
  /\ r \in 4 .. n
  /\ \E q \in 4 .. n : /\ ReadI32(s, Len(s) - r) = q - r
                       /\ ReadU16(s, Len(s) - q) \in 4 .. q
  /\ \A id \in Nat \ DOMAIN given : FieldOffset(s, Len(s) - r, id) = 0
  /\ \A id \in DOMAIN given :
       /\ id \in Nat
       /\ "v" \notin DOMAIN given[id] => given[id].of \in DOMAIN rf
       /\ LET at == FieldOffset(s, Len(s) - r, id) IN
          \/ at = 0 /\ "v" \in DOMAIN given[id] /\ given[id].v = 0
          \/ /\ at \in 1 .. r - 4
             /\ ReadU32(s, Len(s) - (r - at)) = SlotValue(given[id], rf, r - at)

\* What o was made of is there.
ObjectHere(s, n, r, o, rf) ==
  /\ r \in Nat
  /\ o.kind \in {"string", "bytes", "vector", "table"}
  /\ o.kind \in {"string", "bytes"} => BytesHere(s, n, r, o.bytes)
  /\ o.kind = "vector" => VectorHere(s, n, r, o.of, rf)
  /\ o.kind = "table" => TableHere(s, n, r, o.row, rf)

\* The Refs of rf are those of rg.
Known(rf, rg) ==
  /\ \A key \in DOMAIN rf : key \in DOMAIN rg /\ rg[key] = rf[key]
  /\ \A key \in DOMAIN rg : rg[key] \in Nat

\* Counted bytes stay while what is written stays.
LEMMA BytesKept ==
  ASSUME NEW s, NEW t, NEW n \in Nat, NEW m \in Nat, n <= m,
         Len(s) \in Nat, Len(t) \in Nat, SameEnd(s, t, n),
         NEW r \in Nat, NEW bytes, BytesHere(s, n, r, bytes)
  PROVE  BytesHere(t, m, r, bytes)
<1>1. IsBuffer(bytes) /\ Len(bytes) \in Nat /\ 4 + Len(bytes) <= r /\ r <= n
  BY Buffers DEF BytesHere
<1>2. r \in 4 .. n /\ r - 4 \in 0 .. n /\ Len(bytes) \in 0 .. r - 4
  BY <1>1
<1>3. ReadU32(t, Len(t) - r) = Len(bytes)
  BY <1>2, Same32 DEF BytesHere
<1>4. Holds(t, r - 4, bytes)
  BY <1>2, SameHolds DEF BytesHere
<1> QED BY <1>1, <1>3, <1>4 DEF BytesHere

\* So does a vector of offsets, and what it refers to.
LEMMA VectorKept ==
  ASSUME NEW s, NEW t, NEW n \in Nat, NEW m \in Nat, n <= m,
         Len(s) \in Nat, Len(t) \in Nat, SameEnd(s, t, n), NEW rf, NEW rg, Known(rf, rg),
         NEW r \in Nat, NEW of, VectorHere(s, n, r, of, rf)
  PROVE  VectorHere(t, m, r, of, rg)
<1>1. /\ Len(of) \in Nat /\ DOMAIN of = 1 .. Len(of) /\ 4 + 4 * Len(of) <= r /\ r <= n
  BY DEF VectorHere
<1>2. ReadU32(t, Len(t) - r) = Len(of)
  <2>1. r \in 4 .. n
    BY <1>1
  <2> QED BY <2>1, Same32 DEF VectorHere
<1>3. ASSUME NEW i \in 1 .. Len(of)
      PROVE  /\ of[i] \in DOMAIN rg
             /\ ReadU32(t, Len(t) - (r - 4 * i)) = (r - 4 * i) - rg[of[i]]
  <2>1. r - 4 * i \in 4 .. n
    BY <1>1
  <2>2. ReadU32(t, Len(t) - (r - 4 * i)) = ReadU32(s, Len(s) - (r - 4 * i))
    BY <2>1, Same32
  <2> QED BY <2>2 DEF VectorHere, Known
<1> QED BY <1>1, <1>2, <1>3 DEF VectorHere

\* So does a table with its vtable.
LEMMA TableKept ==
  ASSUME NEW s, NEW t, NEW n \in Nat, NEW m \in Nat, n <= m,
         Len(s) \in Nat, Len(t) \in Nat, SameEnd(s, t, n), NEW rf, NEW rg, Known(rf, rg),
         NEW r, NEW given, TableHere(s, n, r, given, rf)
  PROVE  TableHere(t, m, r, given, rg)
<1>1. r \in 4 .. n
  BY DEF TableHere
<1>2. PICK q \in 4 .. n : /\ ReadI32(s, Len(s) - r) = q - r
                          /\ ReadU16(s, Len(s) - q) \in 4 .. q
  BY DEF TableHere
<1>3. ASSUME NEW id \in Nat
      PROVE  /\ ReadI32(t, Len(t) - r) = q - r
             /\ ReadU16(t, Len(t) - q) = ReadU16(s, Len(s) - q)
             /\ FieldOffset(t, Len(t) - r, id) = FieldOffset(s, Len(s) - r, id)
  <2>1. r \in 4 .. n /\ q \in 4 .. n
    BY <1>1
  <2>2. ReadI32(s, Len(s) - r) = q - r /\ ReadU16(s, Len(s) - q) \in 4 .. q
    BY <1>2
  <2> QED BY <2>1, <2>2, SameTable
<1>4. q \in 4 .. m /\ ReadI32(t, Len(t) - r) = q - r /\ ReadU16(t, Len(t) - q) \in 4 .. q
  <2>1. 0 \in Nat
    OBVIOUS
  <2> QED BY <1>2, <1>3, <2>1
<1>5. \A id \in Nat \ DOMAIN given : FieldOffset(t, Len(t) - r, id) = 0
  BY <1>3 DEF TableHere
<1>6. ASSUME NEW id \in DOMAIN given
      PROVE  /\ id \in Nat
             /\ "v" \notin DOMAIN given[id] => given[id].of \in DOMAIN rg
             /\ LET at == FieldOffset(t, Len(t) - r, id) IN
                \/ at = 0 /\ "v" \in DOMAIN given[id] /\ given[id].v = 0
                \/ /\ at \in 1 .. r - 4
                   /\ ReadU32(t, Len(t) - (r - at)) = SlotValue(given[id], rg, r - at)
  <2>1. id \in Nat /\ ("v" \notin DOMAIN given[id] => given[id].of \in DOMAIN rf)
    BY DEF TableHere
  <2> DEFINE at == FieldOffset(s, Len(s) - r, id)
  <2>2. FieldOffset(t, Len(t) - r, id) = at
    BY <1>3, <2>1
  <2>3. \/ at = 0 /\ "v" \in DOMAIN given[id] /\ given[id].v = 0
        \/ /\ at \in 1 .. r - 4
           /\ ReadU32(s, Len(s) - (r - at)) = SlotValue(given[id], rf, r - at)
    BY DEF TableHere
  <2> HIDE DEF at
  <2>4. ASSUME at \in 1 .. r - 4
        PROVE  ReadU32(t, Len(t) - (r - at)) = ReadU32(s, Len(s) - (r - at))
    <3>1. r - at \in 4 .. n
      BY <1>1, <2>4
    <3> QED BY <3>1, Same32
  <2>5. SlotValue(given[id], rf, r - at) = SlotValue(given[id], rg, r - at)
    BY <2>1 DEF SlotValue, Known
  <2> QED BY <2>1, <2>2, <2>3, <2>4, <2>5 DEF Known
<1>7. r \in 4 .. m
  BY <1>1
<1> QED BY <1>4, <1>5, <1>6, <1>7 DEF TableHere

\* So does any object.
LEMMA ObjectKept ==
  ASSUME NEW s, NEW t, NEW n \in Nat, NEW m \in Nat, n <= m,
         Len(s) \in Nat, Len(t) \in Nat, SameEnd(s, t, n), NEW rf, NEW rg, Known(rf, rg),
         NEW r, NEW o, ObjectHere(s, n, r, o, rf)
  PROVE  ObjectHere(t, m, r, o, rg)
<1>1. r \in Nat /\ o.kind \in {"string", "bytes", "vector", "table"}
  BY DEF ObjectHere
<1>2. ASSUME o.kind \in {"string", "bytes"} PROVE BytesHere(t, m, r, o.bytes)
  BY <1>1, <1>2, BytesKept DEF ObjectHere
<1>3. ASSUME o.kind = "vector" PROVE VectorHere(t, m, r, o.of, rg)
  BY <1>1, <1>3, VectorKept DEF ObjectHere
<1>4. ASSUME o.kind = "table" PROVE TableHere(t, m, r, o.row, rg)
  BY <1>1, <1>4, TableKept DEF ObjectHere
<1> QED BY <1>1, <1>2, <1>3, <1>4 DEF ObjectHere

-----------------------------------------------------------------------------
(* What a builder holds. *)

\* v is w after calls that only add to the buffer, or patch what is new.
Extends(w, v) ==
  /\ IsBuilder(w) /\ IsBuilder(v) /\ Kept(w, v) /\ UsedSpace(w) <= UsedSpace(v)

\* A Ref is a u32 and an soffset an i32.
Reach(w) == UsedSpace(w) < U32Size \div 2

\* The open table: each of its fields is in the table, is one that was given,
\* and holds what was given; an u32 that is 0 may be left out.
FieldsHere(w, given, rf) ==
  /\ w.tableStart \in 0 .. UsedSpace(w) /\ 4 + 2 * w.fieldCount < U16Size
  /\ \A f \in w.fields : f.id \in DOMAIN given /\ f.used \in w.tableStart + 4 .. UsedSpace(w)
  /\ \A f, g \in w.fields : f.id = g.id => f = g
  /\ \A id \in DOMAIN given :
       /\ id \in 0 .. w.fieldCount - 1
       /\ "v" \notin DOMAIN given[id] => given[id].of \in DOMAIN rf
       /\ \/ /\ "v" \in DOMAIN given[id] /\ given[id].v = 0
             /\ \A f \in w.fields : f.id # id
          \/ \E f \in w.fields :
               /\ f.id = id
               /\ Reach(w) => ReadU32(w.buf, Len(w.buf) - f.used)
                                = SlotValue(given[id], rf, f.used)

\* The objects made are there, except some, while the buffer is in reach.
ObjectsHere(w, mk, rf, except) ==
  Reach(w) => \A key \in DOMAIN mk \ except :
                ObjectHere(w.buf, UsedSpace(w), rf[key], mk[key], rf)

\* The byte after a string is zero.
Terminated(w, r, bytes) ==
  /\ Len(bytes) \in Nat /\ r \in 5 + Len(bytes) .. UsedSpace(w)
  /\ w.buf[Len(w.buf) - r + 5 + Len(bytes)] = 0

\* Each string made has its terminator.
TermsHere(w, mk, rf) ==
  \A key \in DOMAIN mk : mk[key].kind = "string" => Terminated(w, rf[key], mk[key].bytes)

\* The vtables noted are in the buffer.
VTablesHere(w) == \A u \in w.vtables : u \in 0 .. UsedSpace(w)

\* What a vtable says of its size.
VTableSize(w, u) == ReadU16(w.buf, Len(w.buf) - u)

\* No two of the vtables us are the same bytes.
Apart(w, us) ==
  /\ \A u \in us : VTableSize(w, u) \in 4 .. u
  /\ \A u, v \in us : u # v /\ VTableSize(w, u) = VTableSize(w, v) =>
       BytesAt(w, u, VTableSize(w, u)) # BytesAt(w, v, VTableSize(w, u))

\* No two of the vtables noted are.
VTablesApart(w) == Apart(w, w.vtables)

\* What was written is the end of the longer buffer too.
LEMMA ExtendsEnd ==
  ASSUME NEW w, NEW v, Extends(w, v)
  PROVE  /\ Len(w.buf) \in Nat /\ Len(v.buf) \in Nat
         /\ Len(w.buf) = Cap(w) /\ Len(v.buf) = Cap(v)
         /\ UsedSpace(w) \in Nat /\ UsedSpace(v) \in Nat /\ UsedSpace(w) <= UsedSpace(v)
         /\ SameEnd(w.buf, v.buf, UsedSpace(w))
         /\ Reach(v) => Reach(w)
<1>1. IsBuilder(w) /\ IsBuilder(v) /\ Kept(w, v) /\ UsedSpace(w) <= UsedSpace(v)
  BY DEF Extends
<1>2. /\ Cap(w) \in Nat /\ Cap(v) \in Nat /\ UsedSpace(w) \in Nat /\ UsedSpace(v) \in Nat
      /\ Len(w.buf) = Cap(w) /\ Len(v.buf) = Cap(v)
  BY <1>1, Used
<1>3. SameEnd(w.buf, v.buf, UsedSpace(w))
  BY <1>1, <1>2 DEF Kept, SameEnd
<1>4. Reach(v) => Reach(w)
  BY <1>1, <1>2, Sizes DEF Reach
<1> QED BY <1>1, <1>2, <1>3, <1>4

\* Adding bytes extends a builder.
LEMMA LongerExtends ==
  ASSUME NEW w, IsBuilder(w), NEW v, NEW n \in Nat, Longer(w, v, n)
  PROVE  Extends(w, v)
<1>1. UsedSpace(w) \in Nat
  BY Used
<1> QED BY <1>1 DEF Longer, Extends

\* The fields of the open table stay while nothing is added to it.
LEMMA FieldsKept ==
  ASSUME NEW w, NEW v, Extends(w, v), NEW rf, NEW rg, Known(rf, rg),
         v.tableStart = w.tableStart, v.fieldCount = w.fieldCount, v.fields = w.fields,
         NEW given, FieldsHere(w, given, rf)
  PROVE  FieldsHere(v, given, rg)
<1>1. /\ Len(w.buf) \in Nat /\ Len(v.buf) \in Nat
      /\ UsedSpace(w) \in Nat /\ UsedSpace(v) \in Nat /\ UsedSpace(w) <= UsedSpace(v)
      /\ SameEnd(w.buf, v.buf, UsedSpace(w)) /\ (Reach(v) => Reach(w))
  BY ExtendsEnd
<1>2. v.tableStart \in 0 .. UsedSpace(v) /\ 4 + 2 * v.fieldCount < U16Size
  BY <1>1 DEF FieldsHere
<1>3. ASSUME NEW f \in v.fields
      PROVE  /\ f.id \in DOMAIN given /\ f.used \in v.tableStart + 4 .. UsedSpace(v)
             /\ f.used \in 4 .. UsedSpace(w)
  <2>1. w.tableStart \in Nat /\ f.used \in w.tableStart + 4 .. UsedSpace(w)
    BY <1>1 DEF FieldsHere
  <2> QED BY <1>1, <2>1 DEF FieldsHere
<1>4. \A f, g \in v.fields : f.id = g.id => f = g
  BY DEF FieldsHere
<1>5. ASSUME NEW id \in DOMAIN given
      PROVE  /\ id \in 0 .. v.fieldCount - 1
             /\ "v" \notin DOMAIN given[id] => given[id].of \in DOMAIN rg
             /\ \/ /\ "v" \in DOMAIN given[id] /\ given[id].v = 0
                   /\ \A f \in v.fields : f.id # id
                \/ \E f \in v.fields :
                     /\ f.id = id
                     /\ Reach(v) => ReadU32(v.buf, Len(v.buf) - f.used)
                                      = SlotValue(given[id], rg, f.used)
  <2>1. /\ id \in 0 .. v.fieldCount - 1
        /\ "v" \notin DOMAIN given[id] => given[id].of \in DOMAIN rf
    BY DEF FieldsHere
  <2>2. ASSUME NEW used PROVE SlotValue(given[id], rf, used) = SlotValue(given[id], rg, used)
    BY <2>1 DEF SlotValue, Known
  <2>3. CASE /\ "v" \in DOMAIN given[id] /\ given[id].v = 0
             /\ \A f \in w.fields : f.id # id
    BY <2>1, <2>3
  <2>4. CASE \E f \in w.fields :
               /\ f.id = id
               /\ Reach(w) => ReadU32(w.buf, Len(w.buf) - f.used)
                                = SlotValue(given[id], rf, f.used)
    <3>1. PICK f \in w.fields :
            /\ f.id = id
            /\ Reach(w) => ReadU32(w.buf, Len(w.buf) - f.used)
                             = SlotValue(given[id], rf, f.used)
      BY <2>4
    <3>2. f.used \in 4 .. UsedSpace(w)
      BY <1>3
    <3>3. ReadU32(v.buf, Len(v.buf) - f.used) = ReadU32(w.buf, Len(w.buf) - f.used)
      BY <1>1, <3>2, Same32
    <3> QED BY <1>1, <2>1, <2>2, <3>1, <3>3 DEF Known
  <2>5. \/ /\ "v" \in DOMAIN given[id] /\ given[id].v = 0
           /\ \A f \in w.fields : f.id # id
        \/ \E f \in w.fields :
             /\ f.id = id
             /\ Reach(w) => ReadU32(w.buf, Len(w.buf) - f.used)
                              = SlotValue(given[id], rf, f.used)
    BY DEF FieldsHere
  <2> QED BY <2>3, <2>4, <2>5
<1> QED BY <1>2, <1>3, <1>4, <1>5 DEF FieldsHere

\* The objects made stay while the builder is extended.
LEMMA ObjectsKept ==
  ASSUME NEW w, NEW v, Extends(w, v), NEW rf, NEW rg, Known(rf, rg),
         NEW mk, NEW except, ObjectsHere(w, mk, rf, except), Reach(v),
         NEW key \in DOMAIN mk \ except
  PROVE  ObjectHere(v.buf, UsedSpace(v), rf[key], mk[key], rg)
<1>1. /\ Len(w.buf) \in Nat /\ Len(v.buf) \in Nat
      /\ UsedSpace(w) \in Nat /\ UsedSpace(v) \in Nat /\ UsedSpace(w) <= UsedSpace(v)
      /\ SameEnd(w.buf, v.buf, UsedSpace(w)) /\ (Reach(v) => Reach(w))
  BY ExtendsEnd
<1>2. ObjectHere(w.buf, UsedSpace(w), rf[key], mk[key], rf)
  BY <1>1 DEF ObjectsHere
<1> QED BY <1>1, <1>2, ObjectKept

\* So do the terminators.
LEMMA TermKept ==
  ASSUME NEW w, NEW v, Extends(w, v), NEW r, NEW bytes, Terminated(w, r, bytes)
  PROVE  Terminated(v, r, bytes)
<1>1. /\ Len(w.buf) \in Nat /\ Len(v.buf) \in Nat
      /\ UsedSpace(w) \in Nat /\ UsedSpace(v) \in Nat /\ UsedSpace(w) <= UsedSpace(v)
      /\ SameEnd(w.buf, v.buf, UsedSpace(w))
  BY ExtendsEnd
<1> DEFINE l == Len(bytes)
<1>2. /\ l \in Nat /\ r \in 5 + l .. UsedSpace(w) /\ w.buf[Len(w.buf) - r + 5 + l] = 0
  BY DEF Terminated
<1> HIDE DEF l
<1> DEFINE k == r - 4 - l
<1>3. /\ k \in 1 .. UsedSpace(w) /\ r \in 5 + l .. UsedSpace(v)
      /\ Len(v.buf) - k + 1 = Len(v.buf) - r + 5 + l
      /\ Len(w.buf) - k + 1 = Len(w.buf) - r + 5 + l
  <2>1. r \in Int
    BY <1>1, <1>2
  <2> QED BY <1>1, <1>2, <2>1
<1> HIDE DEF k
<1>4. v.buf[Len(v.buf) - k + 1] = w.buf[Len(w.buf) - k + 1]
  BY <1>1, <1>3 DEF SameEnd
<1> QED BY <1>2, <1>3, <1>4 DEF Terminated, l

\* The bytes in front of a place stay.
LEMMA SameBytesAt ==
  ASSUME NEW w, NEW v, Extends(w, v), NEW u \in 0 .. UsedSpace(w), NEW n \in 0 .. u
  PROVE  BytesAt(v, u, n) = BytesAt(w, u, n)
<1>1. /\ Len(w.buf) \in Nat /\ Len(v.buf) \in Nat
      /\ Len(w.buf) = Cap(w) /\ Len(v.buf) = Cap(v)
      /\ UsedSpace(w) \in Nat /\ UsedSpace(v) \in Nat /\ UsedSpace(w) <= UsedSpace(v)
      /\ SameEnd(w.buf, v.buf, UsedSpace(w))
  BY ExtendsEnd
<1>2. IsBuilder(w) /\ IsBuilder(v)
  BY DEF Extends
<1>3. UsedSpace(w) <= Cap(w) /\ UsedSpace(v) <= Cap(v) /\ u \in Nat /\ n \in Nat
  <2>1. w.head \in Nat /\ UsedSpace(w) = Cap(w) - w.head /\ Cap(w) \in Nat
    BY <1>2, Used
  <2>2. v.head \in Nat /\ UsedSpace(v) = Cap(v) - v.head /\ Cap(v) \in Nat
    BY <1>2, Used
  <2> QED BY <1>1, <2>1, <2>2
<1>4. PICK S : w.buf \in Seq(S)
  BY <1>2 DEF IsBuilder, IsBuffer
<1>5. PICK T : v.buf \in Seq(T)
  BY <1>2 DEF IsBuilder, IsBuffer
<1> DEFINE p == Cap(w) - u
           q == Cap(v) - u
<1>6. p \in Nat /\ q \in Nat /\ p + n <= Len(w.buf) /\ q + n <= Len(v.buf)
  BY <1>1, <1>3
<1>7. ASSUME NEW i \in 1 .. n PROVE v.buf[q + i] = w.buf[p + i]
  <2> DEFINE k == u - i + 1
  <2>1. /\ k \in 1 .. UsedSpace(w)
        /\ Len(v.buf) - k + 1 = q + i /\ Len(w.buf) - k + 1 = p + i
    BY <1>1, <1>3
  <2> HIDE DEF k, p, q
  <2>2. v.buf[Len(v.buf) - k + 1] = w.buf[Len(w.buf) - k + 1]
    BY <1>1, <2>1 DEF SameEnd
  <2> QED BY <2>1, <2>2
<1> HIDE DEF p, q
<1>8. SubSeq(w.buf, p + 1, p + n) = [i \in 1 .. n |-> w.buf[p + i]]
  BY <1>3, <1>4, <1>6
<1>9. SubSeq(v.buf, q + 1, q + n) = [i \in 1 .. n |-> v.buf[q + i]]
  BY <1>3, <1>5, <1>6
<1>10. [i \in 1 .. n |-> w.buf[p + i]] = [i \in 1 .. n |-> v.buf[q + i]]
  BY <1>7
<1> QED BY <1>8, <1>9, <1>10 DEF BytesAt, p, q

\* Vtables that are apart stay apart.
LEMMA VTablesKept ==
  ASSUME NEW w, NEW v, Extends(w, v), VTablesHere(w)
  PROVE  /\ \A u \in w.vtables : u \in 0 .. UsedSpace(v)
         /\ VTablesApart(w) => Apart(v, w.vtables)
<1>1. /\ Len(w.buf) \in Nat /\ Len(v.buf) \in Nat
      /\ UsedSpace(w) \in Nat /\ UsedSpace(v) \in Nat /\ UsedSpace(w) <= UsedSpace(v)
      /\ SameEnd(w.buf, v.buf, UsedSpace(w))
  BY ExtendsEnd
<1>2. \A u \in w.vtables : u \in 0 .. UsedSpace(w)
  BY DEF VTablesHere
<1>3. \A u \in w.vtables : u \in 0 .. UsedSpace(v)
  BY <1>1, <1>2
<1>4. ASSUME VTablesApart(w), NEW u \in w.vtables
      PROVE  /\ VTableSize(w, u) \in 4 .. u /\ VTableSize(v, u) = VTableSize(w, u)
  <2>1. VTableSize(w, u) \in 4 .. u
    BY <1>4 DEF VTablesApart, Apart
  <2>2. u \in 2 .. UsedSpace(w)
    <3> DEFINE n == VTableSize(w, u)
    <3>1. n \in 4 .. u /\ u \in 0 .. UsedSpace(w)
      BY <1>2, <2>1
    <3> HIDE DEF n
    <3> QED BY <1>1, <3>1
  <2>3. ReadU16(v.buf, Len(v.buf) - u) = ReadU16(w.buf, Len(w.buf) - u)
    BY <1>1, <2>2, Same16
  <2> QED BY <2>1, <2>3 DEF VTableSize
<1>5. ASSUME VTablesApart(w), NEW u \in w.vtables, NEW x \in w.vtables,
             VTableSize(w, u) \in 4 .. x
      PROVE  BytesAt(v, x, VTableSize(w, u)) = BytesAt(w, x, VTableSize(w, u))
  <2> DEFINE n == VTableSize(w, u)
  <2>1. n \in 4 .. x /\ x \in 0 .. UsedSpace(w)
    BY <1>2, <1>5
  <2> HIDE DEF n
  <2>2. n \in 0 .. x
    BY <2>1
  <2> QED BY <2>1, <2>2, SameBytesAt DEF n
<1>6. ASSUME VTablesApart(w) PROVE Apart(v, w.vtables)
  <2>1. ASSUME NEW u \in w.vtables PROVE VTableSize(v, u) \in 4 .. u
    BY <1>4, <1>6
  <2>2. ASSUME NEW u \in w.vtables, NEW x \in w.vtables, u # x,
               VTableSize(v, u) = VTableSize(v, x)
        PROVE  BytesAt(v, u, VTableSize(v, u)) # BytesAt(v, x, VTableSize(v, u))
    <3>1. /\ VTableSize(v, u) = VTableSize(w, u) /\ VTableSize(w, x) = VTableSize(w, u)
          /\ VTableSize(w, u) \in 4 .. u /\ VTableSize(w, u) \in 4 .. x
      BY <1>4, <1>6, <2>2
    <3>2. BytesAt(w, u, VTableSize(w, u)) # BytesAt(w, x, VTableSize(w, u))
      BY <1>6, <2>2, <3>1 DEF VTablesApart, Apart
    <3> QED BY <1>5, <1>6, <3>1, <3>2
  <2> QED BY <2>1, <2>2 DEF Apart
<1> QED BY <1>3, <1>6

\* Refs may be added to.
LEMMA Renamed ==
  ASSUME NEW w, IsBuilder(w), NEW rf, NEW rg, Known(rf, rg), NEW r, NEW o,
         ObjectHere(w.buf, UsedSpace(w), r, o, rf)
  PROVE  ObjectHere(w.buf, UsedSpace(w), r, o, rg)
<1>1. Len(w.buf) \in Nat /\ UsedSpace(w) \in Nat
  BY Used
<1>2. SameEnd(w.buf, w.buf, UsedSpace(w))
  BY DEF SameEnd
<1> QED BY <1>1, <1>2, ObjectKept

\* A counted block holds its bytes.
LEMMA BlockHere ==
  ASSUME NEW w, IsBuilder(w), NEW data, IsBuffer(data), NEW tail \in Nat,
         NEW x, x = Block(w, Len(data), data, tail)
  PROVE  /\ Extends(w, x) /\ Alike(w, x) /\ UsedSpace(x) % 4 = 0
         /\ Ahead(w) => Ahead(x)
         /\ Reach(x) => BytesHere(x.buf, UsedSpace(x), UsedSpace(x), data)
         /\ Ahead(w) /\ tail = 1 => Terminated(x, UsedSpace(x), data)
<1> DEFINE m == Len(data)
           pad == Pad(UsedSpace(w) + Len(data) + tail, 4)
           n == pad + tail + 4 + m
<1>1. m \in Nat
  BY Buffers
<1>2. /\ n \in Nat /\ Longer(w, x, n) /\ Alike(w, x) /\ UsedSpace(x) % 4 = 0
      /\ Holds(x.buf, UsedSpace(x), LE(4, Len(data)) \o data)
      /\ Ahead(w) /\ tail = 1 => x.buf[Cap(x) - UsedSpace(x) + 5 + Len(data)] = 0
  <2> DEFINE count == Len(data)
             y == Block(w, count, data, tail)
  <2> HIDE DEF count
  <2>1. LET k == Pad(UsedSpace(w) + Len(data) + tail, 4) + tail + 4 + Len(data)
        IN /\ k \in Nat /\ Longer(w, y, k) /\ Alike(w, y) /\ UsedSpace(y) % 4 = 0
           /\ Holds(y.buf, UsedSpace(y), LE(4, count) \o data)
           /\ Ahead(w) /\ tail = 1 => y.buf[Cap(y) - UsedSpace(y) + 5 + Len(data)] = 0
    BY BlockLonger
  <2> HIDE DEF y
  <2>2. x = y
    BY DEF y, count
  <2> QED BY <2>1, <2>2 DEF count
<1>3. UsedSpace(w) \in Nat
  BY Used
<1>4. pad \in Nat
  <2>1. UsedSpace(w) + Len(data) + tail \in Nat
    BY <1>1, <1>3
  <2> QED BY <2>1, Padded
<1> HIDE DEF pad
<1>5. IsBuilder(x) /\ UsedSpace(x) = UsedSpace(w) + n /\ (Ahead(w) => Ahead(x))
  BY <1>2 DEF Longer
<1>6. UsedSpace(x) \in Nat /\ UsedSpace(x) >= 4 + m + tail
  BY <1>1, <1>3, <1>4, <1>5
<1>7. Cap(x) = Len(x.buf) /\ Len(x.buf) \in Nat
  BY <1>5, Used
<1>8. Extends(w, x)
  BY <1>2, LongerExtends
<1>9. /\ Holds(x.buf, UsedSpace(x), LE(4, m)) /\ Holds(x.buf, UsedSpace(x) - 4, data)
  <2>1. UsedSpace(x) >= 4
    BY <1>1, <1>6
  <2> QED BY <1>2, <1>6, <1>7, <2>1, CountedHolds
<1>10. ASSUME Reach(x) PROVE BytesHere(x.buf, UsedSpace(x), UsedSpace(x), data)
  <2>1. m \in 0 .. U32Size - 1
    BY <1>1, <1>6, <1>10, Sizes DEF Reach
  <2>2. ReadU32(x.buf, Len(x.buf) - UsedSpace(x)) = m
    BY <1>6, <1>7, <1>9, <2>1, Read32
  <2> QED BY <1>1, <1>6, <1>9, <2>2 DEF BytesHere
<1>11. ASSUME Ahead(w), tail = 1 PROVE Terminated(x, UsedSpace(x), data)
  <2>1. UsedSpace(x) \in 5 + m .. UsedSpace(x)
    BY <1>1, <1>6, <1>11
  <2> QED BY <1>1, <1>2, <1>7, <1>11, <2>1 DEF Terminated
<1> QED BY <1>2, <1>5, <1>8, <1>10, <1>11

\* A vector of offsets refers to its objects.
LEMMA VectorMade ==
  ASSUME NEW w, IsBuilder(w), NEW rf, \A key \in DOMAIN rf : rf[key] \in 0 .. UsedSpace(w),
         NEW of, Len(of) \in Nat, DOMAIN of = 1 .. Len(of),
         \A i \in DOMAIN of : of[i] \in DOMAIN rf,
         NEW x, x = CreateVectorOffsets(w, [i \in DOMAIN of |-> rf[of[i]]])
  PROVE  /\ Extends(w, x) /\ Alike(w, x) /\ UsedSpace(x) % 4 = 0
         /\ Ahead(w) => Ahead(x)
         /\ Reach(x) => VectorHere(x.buf, UsedSpace(x), UsedSpace(x), of, rf)
<1> DEFINE rs == [i \in DOMAIN of |-> rf[of[i]]]
<1>1. Len(rs) = Len(of) /\ Len(rs) \in Nat /\ \A i \in 1 .. Len(of) : rs[i] = rf[of[i]]
  OBVIOUS
<1> HIDE DEF rs
<1>2. x = CreateVectorOffsets(w, rs)
  BY DEF rs
<1>3. PICK n \in Nat : Longer(w, x, n)
  BY ZenonT(40), <1>1, <1>2, VectorLonger
<1>4. /\ Alike(w, x) /\ UsedSpace(x) % 4 = 0
      /\ UsedSpace(x) >= UsedSpace(w) + 4 + 4 * Len(rs)
      /\ Holds(x.buf, UsedSpace(x), LE(4, Len(rs)))
      /\ \A i \in 1 .. Len(rs) :
           Holds(x.buf, UsedSpace(x) - 4 * i, LE(4, UsedSpace(x) - 4 * i - rs[i]))
  BY <1>1, <1>2, VectorLonger
<1>5. IsBuilder(x) /\ (Ahead(w) => Ahead(x))
  BY <1>3 DEF Longer
<1>6. Extends(w, x)
  BY <1>3, LongerExtends
<1>7. UsedSpace(w) \in Nat /\ UsedSpace(x) \in Nat /\ Len(x.buf) \in Nat
  BY <1>5, Used
<1>8. ASSUME Reach(x) PROVE VectorHere(x.buf, UsedSpace(x), UsedSpace(x), of, rf)
  <2>1. 4 + 4 * Len(of) <= UsedSpace(x) /\ Len(of) \in 0 .. U32Size - 1
    BY <1>1, <1>4, <1>7, <1>8, Sizes DEF Reach
  <2>2. ReadU32(x.buf, Len(x.buf) - UsedSpace(x)) = Len(of)
    BY <1>1, <1>4, <1>7, <2>1, Read32
  <2>3. ASSUME NEW i \in 1 .. Len(of)
        PROVE  ReadU32(x.buf, Len(x.buf) - (UsedSpace(x) - 4 * i))
                 = (UsedSpace(x) - 4 * i) - rf[of[i]]
    <3>1. rf[of[i]] \in 0 .. UsedSpace(w) /\ rs[i] = rf[of[i]]
      BY <1>1
    <3> DEFINE d == UsedSpace(x) - 4 * i
               k == rs[i]
               v == d - k
    <3>2. d \in Int /\ v \in 0 .. U32Size - 1
      <4>1. UsedSpace(x) < U32Size
        BY <1>7, <1>8, Sizes DEF Reach
      <4>2. 4 * i <= 4 * Len(of)
        BY <1>1
      <4>3. d \in Int /\ d >= UsedSpace(w) + 4 /\ d <= UsedSpace(x)
        BY <1>1, <1>4, <1>7, <4>2
      <4>4. k \in 0 .. UsedSpace(w)
        BY <3>1
      <4> HIDE DEF d, k
      <4> QED BY <1>7, <4>1, <4>3, <4>4, Sizes
    <3>3. Holds(x.buf, d, LE(4, v))
      BY <1>1, <1>4
    <3> HIDE DEF d, k, v
    <3>4. ReadU32(x.buf, Len(x.buf) - d) = v
      BY <1>7, <3>2, <3>3, Read32
    <3> QED BY <3>1, <3>4 DEF d, k, v
  <2>4. UsedSpace(x) <= UsedSpace(x)
    BY <1>7
  <2>5. \A i \in 1 .. Len(of) : of[i] \in DOMAIN rf
    OBVIOUS
  <2> QED BY ONLY <2>1, <2>2, <2>3, <2>4, <2>5, Len(of) \in Nat, DOMAIN of = 1 .. Len(of)
             DEF VectorHere
<1> QED BY <1>4, <1>5, <1>6, <1>8

\* A number below m is its own remainder.
LEMMA ModSmall ==
  ASSUME NEW m \in Nat, NEW v \in 0 .. (m - 1)
  PROVE  v % m = v
OBVIOUS

\* What the vtable says of a field: where the one there is, is.
LEMMA SlotHere ==
  ASSUME NEW w, IsBuilder(w), NEW given, NEW rf, FieldsHere(w, given, rf),
         NEW r \in Nat, UsedSpace(w) + 4 <= r, r - w.tableStart < U16Size, NEW id
  PROVE  /\ (\A f \in w.fields : f.id # id) => SlotOf(w, r, id) = 0
         /\ \A f \in w.fields : f.id = id =>
              SlotOf(w, r, id) = r - f.used /\ r - f.used \in 4 .. (U16Size - 1)
<1> DEFINE its == {f \in w.fields : f.id = id}
<1>1. ASSUME \A f \in w.fields : f.id # id PROVE SlotOf(w, r, id) = 0
  BY <1>1 DEF SlotOf
<1>2. ASSUME NEW f \in w.fields, f.id = id
      PROVE  SlotOf(w, r, id) = r - f.used /\ r - f.used \in 4 .. (U16Size - 1)
  <2>1. its = {f}
    BY <1>2 DEF FieldsHere
  <2>2. (CHOOSE g \in its : TRUE) = f
    BY <2>1
  <2>3. SlotOf(w, r, id) = (r - f.used) % U16Size
    BY <2>1, <2>2 DEF SlotOf
  <2>4. w.tableStart \in Nat /\ f.used \in w.tableStart + 4 .. UsedSpace(w) /\ UsedSpace(w) \in Nat
    BY Used DEF FieldsHere
  <2> DEFINE d == r - f.used
  <2>5. d \in 4 .. (U16Size - 1)
    BY <2>4, Sizes
  <2> HIDE DEF d
  <2>6. d % U16Size = d
    <3>1. d \in 0 .. (U16Size - 1)
      BY <2>5, Sizes
    <3> QED BY <3>1, ModSmall, Sizes
  <2> QED BY <2>3, <2>5, <2>6 DEF d
<1> QED BY <1>1, <1>2

\* A table that is closed before a vtable that fits has the fields it was given.
LEMMA TableMade ==
  ASSUME NEW w, IsBuilder(w), VTablesHere(w), NEW given, NEW rf, FieldsHere(w, given, rf),
         ~VTableGrows(w), NEW r, r = TableRef(w), r - w.tableStart < U16Size,
         NEW y, y = EndTable(w), Reach(y)
  PROVE  TableHere(y.buf, UsedSpace(y), r, given, rf)
<1> DEFINE vtable == VTable(w, r)
           s == y.buf
           n == UsedSpace(y)
<1>1. /\ IsBuilder(y) /\ UsedSpace(w) + 4 <= r /\ r <= n /\ r \in Nat /\ Kept(w, y)
  BY TableClosed DEF VTablesHere
<1>2. PICK q \in Len(vtable) .. n : Holds(s, r, LE(4, q - r)) /\ Holds(s, q, vtable)
  BY TableClosed DEF VTablesHere
<1>3. PICK count \in 0 .. w.fieldCount : \E ws :
           /\ vtable = Words(2, ws)
           /\ Len(ws) = 2 + count /\ ws[1] = 4 + 2 * count
           /\ \A id \in 0 .. count - 1 : ws[id + 3] = SlotOf(w, r, id)
           /\ \A id \in 0 .. w.fieldCount - 1 : SlotOf(w, r, id) # 0 => id < count
  BY VTableWords
<1>4. PICK ws :
           /\ vtable = Words(2, ws)
           /\ Len(ws) = 2 + count /\ ws[1] = 4 + 2 * count
           /\ \A id \in 0 .. count - 1 : ws[id + 3] = SlotOf(w, r, id)
           /\ \A id \in 0 .. w.fieldCount - 1 : SlotOf(w, r, id) # 0 => id < count
  BY <1>3
<1>5. /\ UsedSpace(w) \in Nat /\ n \in Nat /\ Len(s) \in Nat /\ w.fieldCount \in Nat
      /\ count \in Nat
  <2>1. UsedSpace(w) \in Nat /\ n \in Nat /\ Cap(y) \in Nat /\ Len(s) = Cap(y)
    BY <1>1, Used
  <2>2. w.fieldCount \in Nat
    BY DEF IsBuilder
  <2> QED BY <2>1, <2>2
<1>6. Len(vtable) = 4 + 2 * count
  <2>1. Len(ws) \in Nat
    BY <1>4, <1>5
  <2>2. Len(Words(2, ws)) = 2 * Len(ws)
    BY <2>1, WordsBytes
  <2> QED BY <1>4, <1>5, <2>2
<1> HIDE DEF s, n, vtable
<1>7. /\ r \in 4 .. n /\ q \in 4 .. n /\ q \in Nat /\ 4 + 2 * count \in 4 .. q
      /\ r < U32Size \div 2 /\ q < U32Size \div 2 /\ 4 + 2 * count < U16Size
  <2>1. n < U32Size \div 2
    BY DEF Reach, n
  <2>2. 4 + 2 * w.fieldCount < U16Size
    BY DEF FieldsHere
  <2>3. U32Size \div 2 \in Int
    BY Sizes
  <2> HIDE DEF n
  <2> QED BY SMTT(30), <1>1, <1>2, <1>5, <1>6, <2>1, <2>2, <2>3, Sizes
<1>8. ASSUME NEW id \in Nat, id < count => ws[id + 3] \in 0 .. (U16Size - 1)
      PROVE  /\ ReadI32(s, Len(s) - r) = q - r /\ ReadU16(s, Len(s) - q) = 4 + 2 * count
             /\ FieldOffset(s, Len(s) - r, id) = IF id < count THEN ws[id + 3] ELSE 0
  <2>1. Holds(s, r, LE(4, q - r)) /\ Holds(s, q, Words(2, ws))
    BY <1>2, <1>4
  <2>2. r \in Nat /\ q \in Nat /\ count \in Nat /\ Len(s) \in Nat
    BY <1>1, <1>5, <1>7
  <2>3. Len(ws) = 2 + count /\ ws[1] = 4 + 2 * count
    BY <1>4
  <2>4. r < U32Size \div 2 /\ q < U32Size \div 2 /\ 4 + 2 * count < U16Size
    BY <1>7
  <2>5. TableAt(s, r, q, count, ws)
    BY <2>1, <2>2, <2>3, <2>4 DEF TableAt
  <2> QED BY <1>8, <2>2, <2>5, TableReads
<1>9. ASSUME NEW id \in Nat, \A f \in w.fields : f.id # id
      PROVE  FieldOffset(s, Len(s) - r, id) = 0
  <2>1. SlotOf(w, r, id) = 0
    BY <1>1, <1>9, SlotHere
  <2>2. id < count => ws[id + 3] = 0
    BY <1>4, <1>5, <2>1
  <2>3. id < count => ws[id + 3] \in 0 .. (U16Size - 1)
    BY <2>2, Sizes
  <2> QED BY <1>8, <2>2, <2>3
<1>10. ASSUME NEW f \in w.fields
       PROVE  /\ FieldOffset(s, Len(s) - r, f.id) = r - f.used
              /\ r - f.used \in 4 .. r - 4 /\ f.used \in 4 .. UsedSpace(w)
              /\ r - (r - f.used) = f.used
  <2>1. /\ f.id \in 0 .. w.fieldCount - 1 /\ f.used \in w.tableStart + 4 .. UsedSpace(w)
        /\ w.tableStart \in Nat
    BY SMTT(30), <1>5 DEF FieldsHere
  <2>2. SlotOf(w, r, f.id) = r - f.used /\ r - f.used \in 4 .. (U16Size - 1)
    BY <1>1, SlotHere
  <2>3. f.id < count /\ f.id \in Nat
    <3>1. SlotOf(w, r, f.id) # 0
      BY <2>2, Sizes
    <3> QED BY <1>4, <2>1, <3>1
  <2>4. ws[f.id + 3] = r - f.used /\ ws[f.id + 3] \in 0 .. (U16Size - 1)
    <3>1. ws[f.id + 3] = SlotOf(w, r, f.id)
      BY <1>4, <2>3
    <3>2. SlotOf(w, r, f.id) \in 0 .. (U16Size - 1)
      BY <2>2, Sizes
    <3> QED BY <2>2, <3>1, <3>2
  <2>5. FieldOffset(s, Len(s) - r, f.id) = r - f.used
    BY <1>8, <2>3, <2>4
  <2>6. r - f.used \in 4 .. r - 4 /\ f.used \in 4 .. UsedSpace(w) /\ r - (r - f.used) = f.used
    <3> DEFINE u == f.used
    <3>1. u \in Nat /\ u \in 4 .. UsedSpace(w)
      BY <1>5, <2>1
    <3> HIDE DEF u
    <3>2. r - u \in 4 .. r - 4 /\ r - (r - u) = u
      BY <1>1, <1>5, <3>1
    <3> QED BY <3>1, <3>2 DEF u
  <2> QED BY <2>5, <2>6
<1>11. \A id \in Nat \ DOMAIN given : FieldOffset(s, Len(s) - r, id) = 0
  BY <1>9 DEF FieldsHere
<1>12. ASSUME NEW f \in w.fields
       PROVE  ReadU32(s, Len(s) - f.used) = ReadU32(w.buf, Len(w.buf) - f.used)
  <2>1. f.used \in 4 .. UsedSpace(w)
    BY <1>10
  <2>2. Extends(w, y)
    BY <1>1, <1>5 DEF Extends, n
  <2> QED BY ZenonT(40), <2>1, <2>2, ExtendsEnd, Same32 DEF s
<1>13. ASSUME NEW id \in DOMAIN given
       PROVE  /\ id \in Nat
              /\ "v" \notin DOMAIN given[id] => given[id].of \in DOMAIN rf
              /\ LET at == FieldOffset(s, Len(s) - r, id) IN
                 \/ at = 0 /\ "v" \in DOMAIN given[id] /\ given[id].v = 0
                 \/ /\ at \in 1 .. r - 4
                    /\ ReadU32(s, Len(s) - (r - at)) = SlotValue(given[id], rf, r - at)
  <2>1. id \in Nat /\ ("v" \notin DOMAIN given[id] => given[id].of \in DOMAIN rf)
    BY <1>5 DEF FieldsHere
  <2>2. CASE /\ "v" \in DOMAIN given[id] /\ given[id].v = 0
             /\ \A f \in w.fields : f.id # id
    BY <1>9, <2>1, <2>2
  <2>3. CASE \E f \in w.fields :
               /\ f.id = id
               /\ Reach(w) => ReadU32(w.buf, Len(w.buf) - f.used)
                                = SlotValue(given[id], rf, f.used)
    <3>1. PICK f \in w.fields :
               /\ f.id = id
               /\ Reach(w) => ReadU32(w.buf, Len(w.buf) - f.used)
                                = SlotValue(given[id], rf, f.used)
      BY <2>3
    <3>2. Reach(w)
      <4>1. Extends(w, y)
        BY <1>1, <1>5 DEF Extends, n
      <4> QED BY <4>1, ExtendsEnd
    <3> DEFINE at == FieldOffset(s, Len(s) - r, id)
    <3>3. at = r - f.used /\ r - at = f.used /\ at \in 4 .. r - 4
      BY <1>10, <3>1
    <3>4. ReadU32(s, Len(s) - (r - at)) = SlotValue(given[id], rf, r - at)
      BY <1>12, <3>1, <3>2, <3>3
    <3> HIDE DEF at
    <3>5. at \in 1 .. r - 4
      BY <1>1, <3>3
    <3> QED BY <2>1, <3>4, <3>5 DEF at
  <2>4. \/ /\ "v" \in DOMAIN given[id] /\ given[id].v = 0
           /\ \A f \in w.fields : f.id # id
        \/ \E f \in w.fields :
               /\ f.id = id
               /\ Reach(w) => ReadU32(w.buf, Len(w.buf) - f.used)
                                = SlotValue(given[id], rf, f.used)
    BY DEF FieldsHere
  <2> QED BY <2>2, <2>3, <2>4
<1>14. \E p \in 4 .. n : ReadI32(s, Len(s) - r) = p - r /\ ReadU16(s, Len(s) - p) \in 4 .. p
  <2>1. PICK id \in Nat : id = count
    BY <1>5
  <2>2. id < count => ws[id + 3] \in 0 .. (U16Size - 1)
    BY <2>1, <1>5
  <2>3. ReadI32(s, Len(s) - r) = q - r /\ ReadU16(s, Len(s) - q) = 4 + 2 * count
    BY <1>8, <2>2
  <2> QED BY <1>7, <2>3
<1>15. r \in 4 .. n
  BY <1>7
<1> QED BY <1>11, <1>13, <1>14, <1>15 DEF TableHere, s, n

\* A table just opened.
LEMMA FieldsOpened ==
  ASSUME NEW w, IsBuilder(w), NEW count \in Nat, 4 + 2 * count < U16Size, NEW rf
  PROVE  FieldsHere(StartTable(w, count), <<>>, rf)
<1> DEFINE x == StartTable(w, count)
<1>1. /\ UsedSpace(x) = UsedSpace(w) /\ x.fields = {} /\ x.tableStart = UsedSpace(w)
      /\ x.fieldCount = count
  BY Opened
<1>2. UsedSpace(w) \in Nat
  BY Used
<1>3. DOMAIN <<>> = {}
  OBVIOUS
<1> HIDE DEF x
<1>4. x.tableStart \in 0 .. UsedSpace(x) /\ 4 + 2 * x.fieldCount < U16Size
  BY <1>1, <1>2
<1>5. FieldsHere(x, <<>>, rf)
  BY <1>1, <1>3, <1>4 DEF FieldsHere
<1> QED BY <1>5 DEF x

\* A vtable is not written twice.
LEMMA VTablesMade ==
  ASSUME NEW w, IsBuilder(w), VTablesHere(w), VTablesApart(w), ~VTableGrows(w),
         4 + 2 * w.fieldCount < U16Size, NEW y, y = EndTable(w)
  PROVE  VTablesApart(y)
<1> DEFINE r == TableRef(w)
           vtable == VTable(w, r)
           n == UsedSpace(y)
<1>1. /\ IsBuilder(y) /\ UsedSpace(w) + 4 <= r /\ r <= n /\ r \in Nat /\ Kept(w, y)
  BY TableClosed DEF VTablesHere
<1>2. PICK q \in Len(vtable) .. n :
        /\ Holds(y.buf, q, vtable)
        /\ \/ y.vtables = w.vtables
           \/ /\ y.vtables = w.vtables \cup {q}
              /\ \A u \in w.vtables : u >= Len(vtable) => ~Holds(y.buf, u, vtable)
  BY TableClosed DEF VTablesHere
<1>3. PICK count \in 0 .. w.fieldCount : \E ws :
           /\ vtable = Words(2, ws) /\ Len(ws) = 2 + count /\ ws[1] = 4 + 2 * count
  BY VTableWords
<1>4. PICK ws : vtable = Words(2, ws) /\ Len(ws) = 2 + count /\ ws[1] = 4 + 2 * count
  BY <1>3
<1>5. /\ UsedSpace(w) \in Nat /\ n \in Nat /\ Len(y.buf) \in Nat /\ w.fieldCount \in Nat
      /\ count \in Nat
  <2>1. UsedSpace(w) \in Nat /\ n \in Nat /\ Cap(y) \in Nat /\ Len(y.buf) = Cap(y)
    BY <1>1, Used
  <2>2. w.fieldCount \in Nat
    BY DEF IsBuilder
  <2> QED BY <2>1, <2>2
<1>6. Len(vtable) = 4 + 2 * count /\ IsBuffer(vtable)
  <2>1. Len(ws) \in Nat
    BY <1>4, <1>5
  <2>2. Len(Words(2, ws)) = 2 * Len(ws) /\ IsBuffer(Words(2, ws))
    BY <2>1, WordsBytes
  <2> QED BY <1>4, <1>5, <2>2
<1> HIDE DEF r, vtable
<1>7. Extends(w, y)
  <2>1. UsedSpace(w) <= UsedSpace(y)
    <3> HIDE DEF n
    <3>1. UsedSpace(w) <= n
      BY <1>1, <1>5
    <3> QED BY <3>1 DEF n
  <2> QED BY <1>1, <2>1 DEF Extends
<1>8. /\ \A u \in w.vtables : u \in 0 .. n
      /\ \A u \in w.vtables : VTableSize(y, u) \in 4 .. u
      /\ \A u, v \in w.vtables : u # v /\ VTableSize(y, u) = VTableSize(y, v) =>
           BytesAt(y, u, VTableSize(y, u)) # BytesAt(y, v, VTableSize(y, u))
  BY <1>7, VTablesKept DEF Apart
<1>9. VTableSize(y, q) = Len(vtable) /\ q \in 4 .. n /\ Len(vtable) \in 4 .. q
  <2>1. q \in 4 .. n /\ Len(vtable) \in 4 .. q /\ q \in Nat
    BY <1>5, <1>6
  <2>2. Holds(y.buf, q - 2 * (1 - 1), LE(2, ws[1])) /\ q - 2 * (1 - 1) = q
    <3>1. Len(ws) \in Nat /\ 1 \in 1 .. Len(ws)
      BY <1>4, <1>5
    <3>2. Holds(y.buf, q, Words(2, ws))
      BY <1>2, <1>4
    <3>3. Holds(y.buf, q - 2 * (1 - 1), LE(2, ws[1]))
      BY <1>5, <2>1, <3>1, <3>2, HoldsWord
    <3> QED BY <2>1, <3>3
  <2>3. 4 + 2 * count \in 0 .. (U16Size - 1)
    BY <1>5, Sizes
  <2>4. ReadU16(y.buf, Len(y.buf) - q) = 4 + 2 * count
    BY SMTT(30), <1>4, <1>5, <2>1, <2>2, <2>3, Read16
  <2> QED BY <1>6, <2>1, <2>4 DEF VTableSize
<1>10. CASE y.vtables = w.vtables
  BY <1>8, <1>10 DEF VTablesApart, Apart
<1>11. CASE /\ y.vtables = w.vtables \cup {q}
            /\ \A u \in w.vtables : u >= Len(vtable) => ~Holds(y.buf, u, vtable)
  <2>1. \A u \in y.vtables : VTableSize(y, u) \in 4 .. u
    BY <1>8, <1>9, <1>11
  <2>2. ASSUME NEW u \in w.vtables, VTableSize(y, u) = VTableSize(y, q)
        PROVE  BytesAt(y, u, Len(vtable)) # BytesAt(y, q, Len(vtable))
    <3>1. u \in 0 .. n /\ Len(vtable) \in 4 .. u
      BY <1>8, <1>9, <2>2
    <3>2. u >= Len(vtable)
      BY <1>5, <3>1
    <3>3. BytesAt(y, u, Len(vtable)) # vtable
      <4>1. ~Holds(y.buf, u, vtable)
        BY <1>11, <3>2
      <4> QED BY <1>1, <1>6, <3>1, <3>2, <4>1, BytesHeld DEF n
    <3>4. BytesAt(y, q, Len(vtable)) = vtable
      <4>1. q \in 0 .. n /\ q >= Len(vtable)
        BY <1>5, <1>6, <1>9
      <4> QED BY <1>1, <1>2, <1>6, <4>1, BytesHeld DEF n
    <3> QED BY <3>3, <3>4
  <2>3. ASSUME NEW u \in y.vtables, NEW v \in y.vtables, u # v,
               VTableSize(y, u) = VTableSize(y, v)
        PROVE  BytesAt(y, u, VTableSize(y, u)) # BytesAt(y, v, VTableSize(y, u))
    <3>1. CASE u = q
      BY <1>9, <1>11, <2>2, <2>3, <3>1
    <3>2. CASE v = q
      BY <1>9, <1>11, <2>2, <2>3, <3>2
    <3>3. CASE u # q /\ v # q
      BY <1>8, <1>11, <2>3, <3>3
    <3> QED BY <3>1, <3>2, <3>3
  <2> QED BY <2>1, <2>3 DEF VTablesApart, Apart
<1> QED BY <1>2, <1>10, <1>11

-----------------------------------------------------------------------------
(* Finished bytes. *)

\* What is finished ends as the buffer does, and begins with the root.
LEMMA FinishedBytes ==
  ASSUME NEW w, IsBuilder(w), NEW root \in 0 .. UsedSpace(w)
  PROVE  LET s == Finish(w, root) IN
         /\ IsBuffer(s) /\ Len(s) \in Nat /\ UsedSpace(w) <= Len(s)
         /\ SameEnd(w.buf, s, UsedSpace(w))
         /\ Len(s) < U32Size => RootOf(s) = Len(s) - root
<1> DEFINE pad == Pad(UsedSpace(w) + 4, 4)
           p == Skip(w, pad)
           v == Cap(p) - root - p.head + 4
           done == PushU32(p, v)
           s == Finish(w, root)
<1>1. pad \in Nat /\ UsedSpace(w) \in Nat
  <2>1. UsedSpace(w) \in Nat /\ UsedSpace(w) + 4 \in Nat
    BY Used
  <2> QED BY <2>1, Padded
<1>2. s = SubSeq(done.buf, done.head + 1, Cap(done))
  <2>1. (IF w.minAlign > 4 THEN w.minAlign ELSE 4) = 4
    BY DEF IsBuilder
  <2> QED BY <2>1 DEF Finish
<1> HIDE DEF pad, s
<1>3. Longer(w, p, pad)
  BY <1>1, SkipLonger
<1> HIDE DEF p
<1>4. IsBuilder(p) /\ UsedSpace(p) = UsedSpace(w) + pad /\ Kept(w, p)
  BY <1>3 DEF Longer
<1>5. p.head \in Nat /\ Cap(p) \in Nat /\ UsedSpace(p) = Cap(p) - p.head /\ UsedSpace(p) \in Nat
  BY <1>4, Used
<1>6. v = UsedSpace(p) + 4 - root /\ v \in Nat
  BY <1>1, <1>4, <1>5
<1> HIDE DEF v
<1>7. Longer(p, done, 4) /\ Holds(done.buf, UsedSpace(done), LE(4, v))
  BY <1>4, WordLonger
<1> HIDE DEF done
<1>8. IsBuilder(done) /\ UsedSpace(done) = UsedSpace(p) + 4 /\ Longer(w, done, pad + 4)
  <2>1. 4 \in Nat
    OBVIOUS
  <2> QED BY <1>1, <1>3, <1>7, <2>1, LongerStill DEF Longer
<1>9. /\ done.head \in Nat /\ Cap(done) \in Nat /\ done.head <= Cap(done)
      /\ UsedSpace(done) = Cap(done) - done.head /\ Len(done.buf) = Cap(done)
  BY <1>8, Used
<1>10. PICK S : done.buf \in Seq(S)
  BY <1>8 DEF IsBuilder, IsBuffer
<1>11. s \in Seq(S) /\ Len(s) = UsedSpace(done)
  BY <1>2, <1>9, <1>10
<1>12. \A i \in 1 .. Len(s) : s[i] = done.buf[done.head + i]
  <2> DEFINE h == done.head
             buf == done.buf
  <2>1. /\ h \in Nat /\ h <= Len(buf) /\ Len(buf) \in Nat /\ buf \in Seq(S)
        /\ s = SubSeq(buf, h + 1, Len(buf)) /\ Len(s) = Len(buf) - h
    BY <1>2, <1>9, <1>10, <1>11
  <2> HIDE DEF h, buf
  <2>2. s = [i \in 1 .. Len(s) |-> buf[h + i]]
    BY <2>1
  <2> QED BY <2>2 DEF h, buf
<1>13. SameEnd(done.buf, s, UsedSpace(done))
  <2> SUFFICES ASSUME NEW i \in 1 .. UsedSpace(done)
               PROVE  s[Len(s) - i + 1] = done.buf[Len(done.buf) - i + 1]
    BY DEF SameEnd
  <2> DEFINE k == Len(s) - i + 1
  <2>1. k \in 1 .. Len(s) /\ done.head + k = Len(done.buf) - i + 1
    BY <1>9, <1>11
  <2> QED BY <1>12, <2>1
<1>14. SameEnd(w.buf, s, UsedSpace(w))
  <2> SUFFICES ASSUME NEW i \in 1 .. UsedSpace(w)
               PROVE  s[Len(s) - i + 1] = w.buf[Len(w.buf) - i + 1]
    BY DEF SameEnd
  <2>1. i \in 1 .. UsedSpace(done)
    BY <1>1, <1>4, <1>8
  <2>2. done.buf[Cap(done) - i + 1] = w.buf[Cap(w) - i + 1] /\ Len(w.buf) = Cap(w)
    BY <1>8, Used DEF Longer, Kept
  <2> QED BY <1>9, <1>13, <2>1, <2>2 DEF SameEnd
<1>15. ASSUME Len(s) < U32Size PROVE RootOf(s) = Len(s) - root
  <2>1. v = Len(s) - root /\ v \in 0 .. (U32Size - 1) /\ Len(s) \in Nat /\ Len(s) >= 4
    <3>1. Len(s) \in Nat /\ Len(s) >= 4 /\ v = Len(s) - root
      BY <1>5, <1>6, <1>8, <1>11
    <3>2. v \in Nat /\ U32Size \in Nat /\ root \in Nat
      BY <1>1, <1>6, Sizes
    <3> QED BY <1>15, <3>1, <3>2
  <2>2. Holds(s, Len(s), LE(4, v))
    <3> DEFINE word == LE(4, v)
    <3>1. Len(word) = 4
      BY LELength
    <3> HIDE DEF word
    <3>2. /\ Len(s) \in 0 .. UsedSpace(done) /\ UsedSpace(done) \in Nat /\ Len(done.buf) \in Nat
          /\ Len(word) \in 0 .. Len(s) /\ Holds(done.buf, Len(s), word)
      <4>1. Len(s) = UsedSpace(done) /\ Len(done.buf) \in Nat /\ Holds(done.buf, Len(s), word)
        BY <1>7, <1>9, <1>11 DEF word
      <4> QED BY <2>1, <3>1, <4>1
    <3>3. Holds(s, Len(s), word)
      BY <1>13, <2>1, <3>2, SameHolds
    <3> QED BY <3>3 DEF word
  <2>3. ReadU32(s, Len(s) - Len(s)) = v
    BY <2>1, <2>2, Read32
  <2>4. Len(s) - Len(s) = 0
    BY <2>1
  <2> QED BY <2>1, <2>3, <2>4 DEF RootOf
<1>16. IsBuffer(s) /\ Len(s) \in Nat /\ UsedSpace(w) <= Len(s)
  BY <1>1, <1>4, <1>8, <1>9, <1>11 DEF IsBuffer
<1> QED BY <1>14, <1>15, <1>16 DEF s

-----------------------------------------------------------------------------
(* Reading what is there. *)

\* Counted bytes that are there are read.
LEMMA BytesRead ==
  ASSUME NEW s, IsBuffer(s), NEW m \in 0 .. Len(s), NEW r \in Nat, NEW bytes,
         BytesHere(s, m, r, bytes)
  PROVE  BlockAt(s, Len(s) - r) = bytes
<1> DEFINE n == Len(bytes)
           at == Len(s) - r
<1>1. /\ IsBuffer(bytes) /\ 4 + n <= r /\ r <= m
      /\ ReadU32(s, Len(s) - r) = n /\ Holds(s, r - 4, bytes)
  BY DEF BytesHere
<1>2. n \in Nat /\ Len(s) \in Nat
  BY <1>1, Buffers
<1>3. at \in Nat /\ at + 4 + n <= Len(s)
  BY <1>1, <1>2
<1>4. ASSUME NEW i \in 1 .. n PROVE s[at + 4 + i] = bytes[i]
  <2>1. Len(s) - (r - 4) + i = at + 4 + i
    BY <1>2
  <2>2. s[Len(s) - (r - 4) + i] = bytes[i]
    BY <1>1 DEF Holds
  <2> QED BY <2>1, <2>2
<1>5. PICK S : s \in Seq(S)
  BY DEF IsBuffer
<1>6. PICK T : bytes \in Seq(T)
  BY <1>1 DEF IsBuffer
<1>7. BlockAt(s, at) = SubSeq(s, at + 5, at + 4 + n)
  BY <1>1 DEF BlockAt
<1> HIDE DEF at
<1>8. SubSeq(s, at + 5, at + 4 + n) = [i \in 1 .. n |-> s[at + 4 + i]]
  BY <1>2, <1>3, <1>5
<1>9. bytes = [i \in 1 .. n |-> bytes[i]]
  BY <1>6
<1> QED BY <1>4, <1>7, <1>8, <1>9 DEF at

\* A vector at r leads to the objects it is of.
VectorIn(s, r, of, rf) ==
  /\ ReadU32(s, Len(s) - r) = Len(of) /\ DOMAIN of = 1 .. Len(of)
  /\ \A i \in DOMAIN of : of[i] \in DOMAIN rf
                          /\ Follow(s, (Len(s) - r) + 4 * i) = Len(s) - rf[of[i]]

\* A table at r has the fields it was given, and no others.
TableIn(s, r, given, rf) ==
  \A id \in Nat :
    /\ id \notin DOMAIN given => FieldOffset(s, Len(s) - r, id) = 0
    /\ id \in DOMAIN given /\ "v" \in DOMAIN given[id] =>
         FieldU32(s, Len(s) - r, id, 0) = given[id].v
    /\ id \in DOMAIN given /\ "v" \notin DOMAIN given[id] =>
         /\ FieldOffset(s, Len(s) - r, id) # 0
         /\ FieldTarget(s, Len(s) - r, id) = Len(s) - rf[given[id].of]

\* A vector that is there is read.
LEMMA VectorRead ==
  ASSUME NEW s, Len(s) \in Nat, NEW m, NEW r, r \in Nat, NEW of, NEW rf, Known(rf, rf),
         VectorHere(s, m, r, of, rf)
  PROVE  VectorIn(s, r, of, rf)
<1>1. /\ Len(of) \in Nat /\ DOMAIN of = 1 .. Len(of)
      /\ ReadU32(s, Len(s) - r) = Len(of)
      /\ \A i \in 1 .. Len(of) :
           /\ of[i] \in DOMAIN rf
           /\ ReadU32(s, Len(s) - (r - 4 * i)) = (r - 4 * i) - rf[of[i]]
  BY DEF VectorHere
<1>2. ASSUME NEW i \in DOMAIN of
      PROVE  Follow(s, (Len(s) - r) + 4 * i) = Len(s) - rf[of[i]]
  <2> DEFINE k == rf[of[i]]
             at == (Len(s) - r) + 4 * i
  <2>1. k \in Nat /\ i \in Nat
    <3>1. of[i] \in DOMAIN rf /\ i \in Nat
      BY <1>1
    <3> QED BY <3>1 DEF Known
  <2>2. Len(s) - (r - 4 * i) = at
    BY <2>1
  <2>3. ReadU32(s, at) = (r - 4 * i) - k
    BY <1>1, <2>2
  <2> HIDE DEF k
  <2> QED BY <2>1, <2>3 DEF Follow, k
<1> QED BY <1>1, <1>2 DEF VectorIn

\* So is a table.
LEMMA TableRead ==
  ASSUME NEW s, Len(s) \in Nat, NEW m, NEW r, r \in Nat, NEW given, NEW rf, Known(rf, rf),
         TableHere(s, m, r, given, rf)
  PROVE  TableIn(s, r, given, rf)
<1> SUFFICES ASSUME NEW id \in Nat
             PROVE  LET at == Len(s) - r IN
                    /\ id \notin DOMAIN given => FieldOffset(s, at, id) = 0
                    /\ id \in DOMAIN given /\ "v" \in DOMAIN given[id] =>
                         FieldU32(s, at, id, 0) = given[id].v
                    /\ id \in DOMAIN given /\ "v" \notin DOMAIN given[id] =>
                         /\ FieldOffset(s, at, id) # 0
                         /\ FieldTarget(s, at, id) = Len(s) - rf[given[id].of]
  BY DEF TableIn
<1> DEFINE at == Len(s) - r
           k == FieldOffset(s, at, id)
<1>1. at \in Int
  OBVIOUS
<1>2. id \notin DOMAIN given => k = 0
  BY DEF TableHere
<1>3. ASSUME id \in DOMAIN given
      PROVE  /\ "v" \notin DOMAIN given[id] => given[id].of \in DOMAIN rf
             /\ \/ k = 0 /\ "v" \in DOMAIN given[id] /\ given[id].v = 0
                \/ /\ k \in 1 .. r - 4
                   /\ ReadU32(s, Len(s) - (r - k)) = SlotValue(given[id], rf, r - k)
  BY <1>3 DEF TableHere
<1>4. ASSUME id \in DOMAIN given, "v" \in DOMAIN given[id]
      PROVE  FieldU32(s, at, id, 0) = given[id].v
  <2>1. FieldU32(s, at, id, 0) = IF k = 0 THEN 0 ELSE ReadU32(s, at + k)
    BY DEF FieldU32
  <2>2. CASE k = 0 /\ given[id].v = 0
    BY <2>1, <2>2
  <2>3. CASE /\ k \in 1 .. r - 4
             /\ ReadU32(s, Len(s) - (r - k)) = SlotValue(given[id], rf, r - k)
    <3> HIDE DEF k
    <3>1. Len(s) - (r - k) = at + k /\ k # 0
      BY <2>3
    <3> QED BY <1>4, <2>1, <2>3, <3>1 DEF SlotValue
  <2> QED BY <1>3, <1>4, <2>2, <2>3
<1>5. ASSUME id \in DOMAIN given, "v" \notin DOMAIN given[id]
      PROVE  k # 0 /\ FieldTarget(s, at, id) = Len(s) - rf[given[id].of]
  <2> DEFINE p == rf[given[id].of]
  <2>1. k \in 1 .. r - 4 /\ ReadU32(s, Len(s) - (r - k)) = (r - k) - p
    BY <1>3, <1>5 DEF SlotValue
  <2>2. p \in Nat
    BY <1>3, <1>5 DEF Known
  <2>3. FieldTarget(s, at, id) = (at + k) + ReadU32(s, at + k)
    BY DEF FieldTarget, Follow
  <2> HIDE DEF k, p
  <2>4. Len(s) - (r - k) = at + k
    BY <2>1
  <2>5. (at + k) + ((r - k) - p) = Len(s) - p /\ k # 0
    BY <2>1, <2>2
  <2> QED BY <2>1, <2>3, <2>4, <2>5 DEF p
<1> QED BY <1>2, <1>4, <1>5

================================================================================
